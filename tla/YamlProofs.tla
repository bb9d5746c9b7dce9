------------------------------ MODULE YamlProofs -----------------------------
(***************************************************************************)
(* What the diff of YAML documents and the validator promise, for          *)
(* documents of any shape and depth and lists of any length.               *)
(*                                                                         *)
(* A recursive function on documents exists because it does for those of   *)
(* each depth, and facts about it are proved by SetInduction on the depth. *)
(***************************************************************************)
EXTENDS YamlDiff, YamlValidator, SequenceTheorems, FiniteSetTheorems, NumberFacts, TLAPS

-----------------------------------------------------------------------------
(* The recursion over values *)

Level(n) == {v \in RawValues : Depth[v] <= n}

\* The parts of a value are values that are less deep.
LEMMA PartsAreValues ==
    ASSUME NEW v \in RawValues
    PROVE  /\ Depth[v] \in Nat
           /\ \A i \in DOMAIN Parts(v) : /\ Parts(v)[i] \in RawValues
                                         /\ Depth[Parts(v)[i]] \in Nat
                                         /\ Depth[Parts(v)[i]] < Depth[v]
<1>1. Depth[v] \in Nat /\ \A w \in RawValues : Depth[w] \in Nat
  BY DiffAssumption
<1>2. v.kind \in {"nil", "leaf", "map", "array"}
  BY DiffAssumption
<1>3. \A i \in DOMAIN Parts(v) : Depth[Parts(v)[i]] < Depth[v]
  BY DiffAssumption
<1>4. ASSUME NEW i \in DOMAIN Parts(v) PROVE Parts(v)[i] \in RawValues
  <2>1. CASE v.kind = "map"
    <3>1. v.entries \in Seq([key : STRING, value : RawValues])
      BY <2>1, DiffAssumption
    <3>2. Parts(v) = [n \in DOMAIN v.entries |-> v.entries[n].value]
      BY <2>1 DEF Parts
    <3>3. i \in DOMAIN v.entries /\ Parts(v)[i] = v.entries[i].value
      BY <1>4, <3>2
    <3>4. v.entries[i] \in [key : STRING, value : RawValues]
      <4>1. PICK T : T = [key : STRING, value : RawValues]
        OBVIOUS
      <4>2. v.entries \in Seq(T) /\ i \in 1 .. Len(v.entries)
        BY <3>1, <3>3, <4>1
      <4> QED BY <4>1, <4>2, ElementOfSeq
    <3> QED BY <3>3, <3>4
  <2>2. CASE v.kind = "array"
    <3>1. v.items \in Seq(RawValues)
      BY <2>2, DiffAssumption
    <3>2. Parts(v) = v.items
      BY <2>2 DEF Parts
    <3> QED BY <1>4, <3>1, <3>2
  <2>3. CASE v.kind \in {"nil", "leaf"}
    <3>1. Parts(v) = <<>>
      BY <2>3 DEF Parts
    <3> QED BY <1>4, <3>1
  <2> QED BY <1>2, <2>1, <2>2, <2>3
<1> QED BY <1>1, <1>3, <1>4

\* What is not nested has no parts.
LEMMA LeavesAreBare ==
    ASSUME NEW v \in Level(0)
    PROVE  DOMAIN Parts(v) = {}
<1>1. v \in RawValues /\ Depth[v] <= 0
  BY DEF Level
<1>2. ASSUME NEW i \in DOMAIN Parts(v) PROVE FALSE
  BY <1>1, <1>2, PartsAreValues
<1> QED BY <1>2

\* The recursion of PerformDiff, for values of A up to a depth.
DiffsUpTo(f, opt, n) ==
    f = [v \in Level(n) |-> [w \in RawValues |-> DiffFrom(opt, v, w, Below(f, v, w))]]

\* There is a function that satisfies it.
LEMMA DiffsExist ==
    ASSUME NEW opt
    PROVE  \A n \in Nat : \E f : DiffsUpTo(f, opt, n)
<1> DEFINE S == {n \in Nat : \E f : DiffsUpTo(f, opt, n)}
<1>1. \A v \in Level(0) : DOMAIN Parts(v) = {}
  BY LeavesAreBare
<1>2. 0 \in S
  <2> DEFINE f == [v \in Level(0) |-> [w \in RawValues |-> DiffFrom(opt, v, w, <<>>)]]
  <2>1. ASSUME NEW g, NEW v \in Level(0), NEW w
        PROVE  Below(g, v, w) = <<>>
    BY <1>1 DEF Below
  <2>2. f = [v \in Level(0) |-> [w \in RawValues |-> DiffFrom(opt, v, w, Below(f, v, w))]]
    <3> HIDE DEF Below
    <3> QED BY <2>1
  <2> QED BY <2>2 DEF DiffsUpTo
<1>3. ASSUME NEW n \in Nat, n \in S PROVE n + 1 \in S
  <2>1. PICK f : DiffsUpTo(f, opt, n)
    BY <1>3
  <2> DEFINE h == [v \in Level(n + 1) |-> [w \in RawValues |-> DiffFrom(opt, v, w, Below(f, v, w))]]
  <2>2. Level(n) \subseteq Level(n + 1)
    BY PartsAreValues DEF Level
  <2>3. \A v \in Level(n) : h[v] = f[v]
    <3>1. TAKE v \in Level(n)
    <3>2. f[v] = [w \in RawValues |-> DiffFrom(opt, v, w, Below(f, v, w))]
      BY <2>1, Zenon DEF DiffsUpTo
    <3>3. v \in Level(n + 1)
      BY <2>2
    <3> QED BY <3>2, <3>3
  <2> HIDE DEF h
  <2>4. ASSUME NEW v \in Level(n + 1), NEW w
        PROVE  Below(h, v, w) = Below(f, v, w)
    <3>1. \A i \in DOMAIN Parts(v) : Parts(v)[i] \in Level(n)
      BY PartsAreValues DEF Level
    <3>2. \A i \in DOMAIN Parts(v) : h[Parts(v)[i]] = f[Parts(v)[i]]
      BY <2>3, <3>1
    <3> QED BY <3>2 DEF Below
  <2>5. h = [v \in Level(n + 1) |-> [w \in RawValues |-> DiffFrom(opt, v, w, Below(h, v, w))]]
    BY <2>4 DEF h
  <2> QED BY <2>5 DEF DiffsUpTo
<1> HIDE DEF S
<1>4. \A n \in Nat : n \in S
  BY <1>2, <1>3, SetInduction
<1> QED BY <1>4 DEF S

\* PerformDiff is DiffFrom the diffs of the parts.
LEMMA PerformDiffIs ==
    ASSUME NEW opt, NEW a \in RawValues, NEW b \in RawValues
    PROVE  \E below :
             /\ PerformDiff(opt, a, b) = DiffFrom(opt, a, b, below)
             /\ \A i \in DOMAIN Parts(a), j \in DOMAIN Parts(b) :
                    below[i][j] = PerformDiff(opt, Parts(a)[i], Parts(b)[j])
<1>1. Level(Nesting) = RawValues /\ Nesting \in Nat
  BY DiffAssumption DEF Level
<1>2. \E f : DiffsUpTo(f, opt, Nesting)
  BY <1>1, DiffsExist
<1> DEFINE diff == CHOOSE f : DiffsUpTo(f, opt, Nesting)
<1>3. \A v, w : PerformDiff(opt, v, w) = diff[v][w]
  BY <1>1 DEF PerformDiff, DiffsUpTo
<1>4. DiffsUpTo(diff, opt, Nesting)
  BY <1>2
<1> HIDE DEF diff
<1>5. diff[a][b] = DiffFrom(opt, a, b, Below(diff, a, b))
  BY <1>1, <1>4 DEF DiffsUpTo
<1>6. \A i \in DOMAIN Parts(a), j \in DOMAIN Parts(b) :
        Below(diff, a, b)[i][j] = diff[Parts(a)[i]][Parts(b)[j]]
  BY DEF Below
<1> QED BY <1>3, <1>5, <1>6
-----------------------------------------------------------------------------
(* Maps, arrays and their canonical form *)

\* A value by its kind.
LEMMA Shapes ==
    ASSUME NEW v \in RawValues
    PROVE  /\ v.kind \in {"nil", "leaf", "map", "array"}
           /\ v.kind = "nil" => v = Nil
           /\ v.kind = "map" =>
                /\ Len(v.entries) \in Nat /\ DOMAIN v.entries = 1 .. Len(v.entries)
                /\ DOMAIN Parts(v) = DOMAIN v.entries
                /\ \A i \in DOMAIN v.entries : Parts(v)[i] = v.entries[i].value
           /\ v.kind = "array" =>
                /\ Len(v.items) \in Nat /\ DOMAIN v.items = 1 .. Len(v.items)
                /\ Parts(v) = v.items
<1>1. v.kind \in {"nil", "leaf", "map", "array"} /\ (v.kind = "nil" => v = Nil)
  BY DiffAssumption
<1>2. ASSUME v.kind = "map"
      PROVE  /\ Len(v.entries) \in Nat /\ DOMAIN v.entries = 1 .. Len(v.entries)
             /\ DOMAIN Parts(v) = DOMAIN v.entries
             /\ \A i \in DOMAIN v.entries : Parts(v)[i] = v.entries[i].value
  <2>1. v.entries \in Seq([key : STRING, value : RawValues])
    BY <1>2, DiffAssumption
  <2>2. Parts(v) = [i \in DOMAIN v.entries |-> v.entries[i].value]
    BY <1>2 DEF Parts
  <2> QED BY <2>1, <2>2
<1>3. ASSUME v.kind = "array"
      PROVE  /\ Len(v.items) \in Nat /\ DOMAIN v.items = 1 .. Len(v.items)
             /\ Parts(v) = v.items
  <2>1. v.items \in Seq(RawValues)
    BY <1>3, DiffAssumption
  <2>2. Parts(v) = v.items
    BY <1>3 DEF Parts
  <2> QED BY <2>1, <2>2
<1> QED BY <1>1, <1>2, <1>3

\* The least of some indices is one of them.
LEMMA LeastIsThere ==
    ASSUME NEW n \in Nat, NEW T \in SUBSET (1 .. n), T # {}
    PROVE  Min(T) \in T
<1>1. T \in SUBSET Nat
  OBVIOUS
<1>2. \E x \in T : \A y \in T : x <= y
  BY <1>1, LeastNumber
<1>3. Min(T) = CHOOSE x \in T : \A y \in T : x <= y
  BY DEF Min
<1> QED BY <1>2, <1>3, Zenon

\* The first entry of a key has this key.
LEMMA FirstAtFacts ==
    ASSUME NEW v \in RawValues, v.kind = "map", NEW k \in KeysOf(v)
    PROVE  FirstAt(v, k) \in DOMAIN v.entries /\ KeyAt(v, FirstAt(v, k)) = k
<1> DEFINE T == {i \in DOMAIN v.entries : KeyAt(v, i) = k}
<1>1. T \in SUBSET (1 .. Len(v.entries)) /\ Len(v.entries) \in Nat
  BY Shapes
<1>2. T # {}
  BY DEF KeysOf
<1>3. FirstAt(v, k) = Min(T)
  BY DEF FirstAt
<1>4. Min(T) \in T
  <2> HIDE DEF T
  <2> QED BY <1>1, <1>2, LeastIsThere
<1> QED BY <1>3, <1>4

\* The recursion of Canonical.
CanonicalBy(f, v) ==
    CASE v.kind = "map" -> [kind |-> "map", fields |->
             [k \in KeysOf(v) |-> f[v.entries[FirstAt(v, k)].value]]]
      [] v.kind = "array" -> [kind |-> "array", elements |->
             {f[v.items[i]] : i \in DOMAIN v.items}]
      [] OTHER -> v

\* It depends on the parts only.
LEMMA CanonicalByParts ==
    ASSUME NEW v \in RawValues, NEW f, NEW g,
           \A i \in DOMAIN Parts(v) : f[Parts(v)[i]] = g[Parts(v)[i]]
    PROVE  CanonicalBy(f, v) = CanonicalBy(g, v)
<1>1. CASE v.kind = "map"
  <2>1. \A k \in KeysOf(v) : f[v.entries[FirstAt(v, k)].value] = g[v.entries[FirstAt(v, k)].value]
    BY <1>1, FirstAtFacts, Shapes
  <2>2. [k \in KeysOf(v) |-> f[v.entries[FirstAt(v, k)].value]]
          = [k \in KeysOf(v) |-> g[v.entries[FirstAt(v, k)].value]]
    BY <2>1
  <2> QED BY <1>1, <2>2 DEF CanonicalBy
<1>2. CASE v.kind = "array"
  <2>1. \A i \in DOMAIN v.items : f[v.items[i]] = g[v.items[i]]
    BY <1>2, Shapes
  <2>2. {f[v.items[i]] : i \in DOMAIN v.items} = {g[v.items[i]] : i \in DOMAIN v.items}
    BY <2>1
  <2> QED BY <1>2, <2>2 DEF CanonicalBy
<1>3. CASE v.kind \notin {"map", "array"}
  BY <1>3 DEF CanonicalBy
<1> QED BY <1>1, <1>2, <1>3

CanonicalUpTo(f, n) == f = [v \in Level(n) |-> CanonicalBy(f, v)]

\* There is a function that satisfies it, for values up to every depth.
LEMMA CanonicalExists ==
    \A n \in Nat : \E f : CanonicalUpTo(f, n)
<1> DEFINE S == {n \in Nat : \E f : CanonicalUpTo(f, n)}
<1>1. 0 \in S
  <2> DEFINE f == [v \in Level(0) |-> CanonicalBy(<<>>, v)]
  <2>1. ASSUME NEW v \in Level(0) PROVE v \in RawValues /\ DOMAIN Parts(v) = {}
    BY LeavesAreBare DEF Level
  <2>2. ASSUME NEW v \in Level(0), NEW g PROVE CanonicalBy(g, v) = CanonicalBy(<<>>, v)
    BY <2>1, CanonicalByParts
  <2>3. f = [v \in Level(0) |-> CanonicalBy(f, v)]
    BY <2>2
  <2> QED BY <2>3 DEF CanonicalUpTo
<1>2. ASSUME NEW n \in Nat, n \in S PROVE n + 1 \in S
  <2>1. PICK f : CanonicalUpTo(f, n)
    BY <1>2
  <2> DEFINE h == [v \in Level(n + 1) |-> CanonicalBy(f, v)]
  <2>2. \A v \in Level(n) : h[v] = f[v]
    <3>1. TAKE v \in Level(n)
    <3>2. f[v] = CanonicalBy(f, v)
      BY <2>1, Zenon DEF CanonicalUpTo
    <3>3. v \in Level(n + 1)
      BY PartsAreValues DEF Level
    <3> QED BY <3>2, <3>3
  <2> HIDE DEF h
  <2>3. ASSUME NEW v \in Level(n + 1) PROVE CanonicalBy(h, v) = CanonicalBy(f, v)
    <3>1. \A i \in DOMAIN Parts(v) : Parts(v)[i] \in Level(n)
      BY PartsAreValues DEF Level
    <3>2. \A i \in DOMAIN Parts(v) : h[Parts(v)[i]] = f[Parts(v)[i]]
      BY <2>2, <3>1
    <3>3. v \in RawValues
      BY DEF Level
    <3> QED BY <3>2, <3>3, CanonicalByParts
  <2>4. h = [v \in Level(n + 1) |-> CanonicalBy(h, v)]
    BY <2>3 DEF h
  <2> QED BY <2>4 DEF CanonicalUpTo
<1> HIDE DEF S
<1>3. \A n \in Nat : n \in S
  BY <1>1, <1>2, SetInduction
<1> QED BY <1>3 DEF S

\* So the recursion holds of Canonical.
LEMMA CanonicalIs ==
    ASSUME NEW v \in RawValues
    PROVE  Canonical[v] = CanonicalBy(Canonical, v)
<1>1. Level(Nesting) = RawValues /\ Nesting \in Nat
  BY DiffAssumption DEF Level
<1>2. \E f : CanonicalUpTo(f, Nesting)
  BY <1>1, CanonicalExists
<1>3. Canonical = CHOOSE f : CanonicalUpTo(f, Nesting)
  BY <1>1 DEF Canonical, CanonicalUpTo, CanonicalBy
<1>4. CanonicalUpTo(Canonical, Nesting)
  BY <1>2, <1>3
<1> QED BY <1>1, <1>4, Zenon DEF CanonicalUpTo

\* A canonical form by the kind of the value.
LEMMA CanonicalFacts ==
    ASSUME NEW v \in RawValues
    PROVE  /\ Canonical[v].kind = v.kind
           /\ v.kind \notin {"map", "array"} => Canonical[v] = v
           /\ v.kind = "map" =>
                Canonical[v] = [kind |-> "map", fields |->
                                   [k \in KeysOf(v) |-> Canonical[v.entries[FirstAt(v, k)].value]]]
           /\ v.kind = "array" =>
                Canonical[v] = [kind |-> "array", elements |->
                                   {Canonical[v.items[i]] : i \in DOMAIN v.items}]
<1>1. Canonical[v] = CanonicalBy(Canonical, v)
  BY CanonicalIs
<1>2. CASE v.kind = "map"
  BY <1>1, <1>2 DEF CanonicalBy
<1>3. CASE v.kind = "array"
  BY <1>1, <1>3 DEF CanonicalBy
<1>4. CASE v.kind \notin {"map", "array"}
  BY <1>1, <1>4 DEF CanonicalBy
<1> QED BY <1>2, <1>3, <1>4
\* The recursion of Regular.
RegularBy(f, v) ==
    CASE v.kind = "map" ->
             /\ \A i \in DOMAIN v.entries : v.entries[i].key \in StringKeys
             /\ \A i, j \in DOMAIN v.entries : v.entries[i].key = v.entries[j].key => i = j
             /\ \A i \in DOMAIN v.entries : f[v.entries[i].value]
      [] v.kind = "array" ->
             /\ \A i, j \in DOMAIN v.items : Canonical[v.items[i]] = Canonical[v.items[j]] => i = j
             /\ \A i \in DOMAIN v.items : f[v.items[i]]
      [] OTHER -> TRUE

\* It depends on the parts only.
LEMMA RegularByParts ==
    ASSUME NEW v \in RawValues, NEW f, NEW g,
           \A i \in DOMAIN Parts(v) : f[Parts(v)[i]] = g[Parts(v)[i]]
    PROVE  RegularBy(f, v) = RegularBy(g, v)
<1>1. CASE v.kind = "map"
  <2>1. \A i \in DOMAIN v.entries : f[v.entries[i].value] = g[v.entries[i].value]
    BY <1>1, Shapes
  <2>2. (\A i \in DOMAIN v.entries : f[v.entries[i].value])
          = (\A i \in DOMAIN v.entries : g[v.entries[i].value])
    BY <2>1
  <2> QED BY <1>1, <2>2 DEF RegularBy
<1>2. CASE v.kind = "array"
  <2>1. \A i \in DOMAIN v.items : f[v.items[i]] = g[v.items[i]]
    BY <1>2, Shapes
  <2>2. (\A i \in DOMAIN v.items : f[v.items[i]]) = (\A i \in DOMAIN v.items : g[v.items[i]])
    BY <2>1
  <2> QED BY <1>2, <2>2 DEF RegularBy
<1>3. CASE v.kind \notin {"map", "array"}
  BY <1>3 DEF RegularBy
<1> QED BY <1>1, <1>2, <1>3

RegularUpTo(f, n) == f = [v \in Level(n) |-> RegularBy(f, v)]

\* There is a function that satisfies it, for values up to every depth.
LEMMA RegularExists ==
    \A n \in Nat : \E f : RegularUpTo(f, n)
<1> DEFINE S == {n \in Nat : \E f : RegularUpTo(f, n)}
<1>1. 0 \in S
  <2> DEFINE f == [v \in Level(0) |-> RegularBy(<<>>, v)]
  <2>1. ASSUME NEW v \in Level(0) PROVE v \in RawValues /\ DOMAIN Parts(v) = {}
    BY LeavesAreBare DEF Level
  <2>2. ASSUME NEW v \in Level(0), NEW g PROVE RegularBy(g, v) = RegularBy(<<>>, v)
    BY <2>1, RegularByParts
  <2>3. f = [v \in Level(0) |-> RegularBy(f, v)]
    BY <2>2
  <2> QED BY <2>3 DEF RegularUpTo
<1>2. ASSUME NEW n \in Nat, n \in S PROVE n + 1 \in S
  <2>1. PICK f : RegularUpTo(f, n)
    BY <1>2
  <2> DEFINE h == [v \in Level(n + 1) |-> RegularBy(f, v)]
  <2>2. \A v \in Level(n) : h[v] = f[v]
    <3>1. TAKE v \in Level(n)
    <3>2. f[v] = RegularBy(f, v)
      BY <2>1, Zenon DEF RegularUpTo
    <3>3. v \in Level(n + 1)
      BY PartsAreValues DEF Level
    <3> QED BY <3>2, <3>3
  <2> HIDE DEF h
  <2>3. ASSUME NEW v \in Level(n + 1) PROVE RegularBy(h, v) = RegularBy(f, v)
    <3>1. \A i \in DOMAIN Parts(v) : Parts(v)[i] \in Level(n)
      BY PartsAreValues DEF Level
    <3>2. \A i \in DOMAIN Parts(v) : h[Parts(v)[i]] = f[Parts(v)[i]]
      BY <2>2, <3>1
    <3>3. v \in RawValues
      BY DEF Level
    <3> QED BY <3>2, <3>3, RegularByParts
  <2>4. h = [v \in Level(n + 1) |-> RegularBy(h, v)]
    BY <2>3 DEF h
  <2> QED BY <2>4 DEF RegularUpTo
<1> HIDE DEF S
<1>3. \A n \in Nat : n \in S
  BY <1>1, <1>2, SetInduction
<1> QED BY <1>3 DEF S

\* So the recursion holds of Regular.
LEMMA RegularIs ==
    ASSUME NEW v \in RawValues
    PROVE  Regular[v] = RegularBy(Regular, v)
<1>1. Level(Nesting) = RawValues /\ Nesting \in Nat
  BY DiffAssumption DEF Level
<1>2. \E f : RegularUpTo(f, Nesting)
  BY <1>1, RegularExists
<1>3. Regular = CHOOSE f : RegularUpTo(f, Nesting)
  BY <1>1 DEF Regular, RegularUpTo, RegularBy
<1>4. RegularUpTo(Regular, Nesting)
  BY <1>2, <1>3
<1> QED BY <1>1, <1>4, Zenon DEF RegularUpTo

\* What a regular value is made of: keys and elements are there once.
LEMMA RegularFacts ==
    ASSUME NEW v \in RawValues, Regular[v]
    PROVE  /\ \A i \in DOMAIN Parts(v) : Regular[Parts(v)[i]]
           /\ v.kind = "map" => \A i, j \in DOMAIN v.entries : KeyAt(v, i) = KeyAt(v, j) => i = j
           /\ v.kind = "array" =>
                \A i, j \in DOMAIN v.items : Canonical[v.items[i]] = Canonical[v.items[j]] => i = j
<1>1. RegularBy(Regular, v)
  BY RegularIs
<1>2. CASE v.kind = "map"
  <2>1. /\ \A i \in DOMAIN v.entries : v.entries[i].key \in StringKeys
        /\ \A i, j \in DOMAIN v.entries : v.entries[i].key = v.entries[j].key => i = j
        /\ \A i \in DOMAIN v.entries : Regular[v.entries[i].value]
    BY <1>1, <1>2 DEF RegularBy
  <2>2. \A i \in DOMAIN v.entries : KeyAt(v, i) = v.entries[i].key
    BY <2>1 DEF KeyAt
  <2> QED BY <1>2, <2>1, <2>2, Shapes
<1>3. CASE v.kind = "array"
  BY <1>1, <1>3, Shapes DEF RegularBy
<1>4. CASE v.kind \notin {"map", "array"}
  <2>1. DOMAIN Parts(v) = {}
    BY <1>4 DEF Parts
  <2> QED BY <1>4, <2>1
<1> QED BY <1>2, <1>3, <1>4

\* In a regular map every entry is the first one of its key.
LEMMA FirstIsOnly ==
    ASSUME NEW v \in RawValues, Regular[v], v.kind = "map", NEW i \in DOMAIN v.entries
    PROVE  KeyAt(v, i) \in KeysOf(v) /\ FirstAt(v, KeyAt(v, i)) = i
<1>1. KeyAt(v, i) \in KeysOf(v)
  BY DEF KeysOf
<1>2. /\ FirstAt(v, KeyAt(v, i)) \in DOMAIN v.entries
      /\ KeyAt(v, FirstAt(v, KeyAt(v, i))) = KeyAt(v, i)
  BY <1>1, FirstAtFacts
<1> QED BY <1>1, <1>2, RegularFacts

-----------------------------------------------------------------------------
(* Same means equal *)

\* What one side lacks is a difference, as long as no option lets it pass.
LEMMA LackingDiffers ==
    ASSUME NEW v \in RawValues
    PROVE  /\ HandlePrimitive({}, v, MissingKey).status # "Same"
           /\ HandlePrimitive({}, MissingKey, v).status # "Same"
<1>1. v # MissingKey
  BY Shapes DEF MissingKey
<1>2. ~LackedByA({}, v) /\ ~LackedByB({}, v)
  BY DEF LackedByA, LackedByB
<1>3. HandlePrimitive({}, v, MissingKey) = Plainly(v, Nil, "2Missing", Len(Text[v]))
  BY <1>1, <1>2 DEF HandlePrimitive
<1>4. HandlePrimitive({}, MissingKey, v) = Plainly(Nil, v, "1Missing", Len(Text[v]))
  BY <1>1, <1>2 DEF HandlePrimitive
<1> QED BY <1>3, <1>4 DEF Plainly

\* Two values that are compared as they are.
LEMMA PrimitiveFacts ==
    ASSUME NEW opt, NEW a \in RawValues, NEW b \in RawValues
    PROVE  LET d == HandlePrimitive(opt, a, b)
           IN  d.a = a /\ d.b = b /\ (d.status = "Same" <=> a = b)
<1>1. a # MissingKey /\ b # MissingKey
  BY Shapes DEF MissingKey
<1>2. HandlePrimitive(opt, a, b) =
        IF a = b THEN Plainly(a, b, "Same", 0) ELSE Plainly(a, b, "Diff", Distance(a, b))
  BY <1>1 DEF HandlePrimitive
<1> QED BY <1>2 DEF Plainly
\* Two maps are the same when they have the same keys with values that are the same.
LEMMA SameMaps ==
    ASSUME NEW a \in RawValues, NEW b \in RawValues, a.kind = "map", b.kind = "map", NEW below
    PROVE  HandleMap({}, a, b, below).status = "Same" <=>
             /\ KeysOf(a) = KeysOf(b)
             /\ \A i \in DOMAIN a.entries : below[i][FirstAt(b, KeyAt(a, i))].status = "Same"
<1> DEFINE lackedByA == KeysLackedByA(a, b)
           lacked == {n \in DOMAIN b.entries : KeyAt(b, n) \in lackedByA}
           againstB == [i \in DOMAIN a.entries |->
               IF KeyAt(a, i) \in KeysOf(b) THEN below[i][FirstAt(b, KeyAt(a, i))]
               ELSE HandlePrimitive({}, a.entries[i].value, MissingKey)]
           againstA == [j \in lacked |-> HandlePrimitive({}, MissingKey, b.entries[j].value)]
           same == /\ \A i \in DOMAIN againstB : againstB[i].status = "Same"
                   /\ \A j \in DOMAIN againstA : againstA[j].status = "Same"
<1>1. HandleMap({}, a, b, below).status = IF same THEN "Same" ELSE "Diff"
  BY DEF HandleMap
<1>2. \A i \in DOMAIN a.entries : KeyAt(a, i) \notin KeysOf(b) => againstB[i].status # "Same"
  <2>1. TAKE i \in DOMAIN a.entries
  <2>2. a.entries[i].value \in RawValues
    BY Shapes, PartsAreValues
  <2> QED BY <2>2, LackingDiffers
<1>3. \A j \in lacked : againstA[j].status # "Same"
  <2>1. TAKE j \in lacked
  <2>2. b.entries[j].value \in RawValues
    BY Shapes, PartsAreValues
  <2> QED BY <2>2, LackingDiffers
<1>4. DOMAIN againstB = DOMAIN a.entries /\ DOMAIN againstA = lacked
  OBVIOUS
<1>5. \A i \in DOMAIN a.entries : KeyAt(a, i) \in KeysOf(b) =>
        againstB[i] = below[i][FirstAt(b, KeyAt(a, i))]
  OBVIOUS
<1> HIDE DEF againstB, againstA
<1>6. same <=> /\ \A i \in DOMAIN a.entries : KeyAt(a, i) \in KeysOf(b)
               /\ \A i \in DOMAIN a.entries : below[i][FirstAt(b, KeyAt(a, i))].status = "Same"
               /\ lacked = {}
  BY <1>2, <1>3, <1>4, <1>5
<1>7. (\A i \in DOMAIN a.entries : KeyAt(a, i) \in KeysOf(b)) <=> KeysOf(a) \subseteq KeysOf(b)
  BY DEF KeysOf
<1>8. lacked = {} <=> KeysOf(b) \subseteq KeysOf(a)
  BY DEF KeysOf, KeysLackedByA
<1> HIDE DEF same, lacked
<1> QED BY <1>1, <1>6, <1>7, <1>8

\* The canonical forms of two regular maps.
LEMMA EqualMaps ==
    ASSUME NEW a \in RawValues, NEW b \in RawValues, a.kind = "map", b.kind = "map", Regular[a]
    PROVE  Canonical[a] = Canonical[b] <=>
             /\ KeysOf(a) = KeysOf(b)
             /\ \A i \in DOMAIN a.entries :
                  Canonical[Parts(a)[i]] = Canonical[Parts(b)[FirstAt(b, KeyAt(a, i))]]
<1> DEFINE F(v) == [k \in KeysOf(v) |-> Canonical[v.entries[FirstAt(v, k)].value]]
<1>1. Canonical[a] = Canonical[b] <=> F(a) = F(b)
  <2>1. Canonical[a] = [kind |-> "map", fields |-> F(a)]
    BY CanonicalFacts
  <2>2. Canonical[b] = [kind |-> "map", fields |-> F(b)]
    BY CanonicalFacts
  <2> HIDE DEF F
  <2> QED BY <2>1, <2>2
<1>2. F(a) = F(b) <=> /\ KeysOf(a) = KeysOf(b)
                      /\ \A k \in KeysOf(a) : F(a)[k] = F(b)[k]
  OBVIOUS
<1>3. ASSUME KeysOf(a) = KeysOf(b)
      PROVE  (\A k \in KeysOf(a) : F(a)[k] = F(b)[k]) <=>
             \A i \in DOMAIN a.entries :
                  Canonical[Parts(a)[i]] = Canonical[Parts(b)[FirstAt(b, KeyAt(a, i))]]
  <2>1. \A k \in KeysOf(a) : \E i \in DOMAIN a.entries : KeyAt(a, i) = k
    BY DEF KeysOf
  <2>2. ASSUME NEW i \in DOMAIN a.entries
        PROVE  /\ KeyAt(a, i) \in KeysOf(a)
               /\ F(a)[KeyAt(a, i)] = Canonical[Parts(a)[i]]
               /\ F(b)[KeyAt(a, i)] = Canonical[Parts(b)[FirstAt(b, KeyAt(a, i))]]
    <3>1. KeyAt(a, i) \in KeysOf(a) /\ FirstAt(a, KeyAt(a, i)) = i
      BY FirstIsOnly
    <3>2. FirstAt(b, KeyAt(a, i)) \in DOMAIN b.entries
      BY <1>3, <3>1, FirstAtFacts
    <3>3. Parts(a)[i] = a.entries[i].value
      BY Shapes
    <3>4. Parts(b)[FirstAt(b, KeyAt(a, i))] = b.entries[FirstAt(b, KeyAt(a, i))].value
      BY <3>2, Shapes
    <3> QED BY <1>3, <3>1, <3>3, <3>4
  <2> HIDE DEF F
  <2> QED BY <2>1, <2>2
<1> HIDE DEF F
<1> QED BY <1>1, <1>2, <1>3

\* The elements of b that are the same as an element of A.
SameAs(below, b, i) == {j \in DOMAIN b.items : below[i][j].status = "Same"}

\* Two arrays are the same when each element of A is the same as one of B and each of
\* B is the first such one for an element of A.
LEMMA SameArrays ==
    ASSUME NEW a \in RawValues, NEW b \in RawValues, a.kind = "array", b.kind = "array", NEW below
    PROVE  HandleArray({}, a, b, below).status = "Same" <=>
             /\ \A i \in DOMAIN a.items : SameAs(below, b, i) # {}
             /\ \A j \in DOMAIN b.items : \E i \in DOMAIN a.items :
                    SameAs(below, b, i) # {} /\ j = Min(SameAs(below, b, i))
<1> DEFINE same == [i \in DOMAIN a.items |-> {j \in DOMAIN b.items : below[i][j].status = "Same"}]
           foundA == {i \in DOMAIN a.items : same[i] # {}}
           foundB == {Min(same[i]) : i \in foundA}
<1>1. HandleArray({}, a, b, below).status =
        IF foundA = DOMAIN a.items /\ foundB = DOMAIN b.items THEN "Same" ELSE "Diff"
  BY DEF HandleArray
<1>2. \A i \in DOMAIN a.items : same[i] = SameAs(below, b, i)
  BY DEF SameAs
<1>3. \A i \in DOMAIN a.items : SameAs(below, b, i) # {} => Min(SameAs(below, b, i)) \in DOMAIN b.items
  <2>1. TAKE i \in DOMAIN a.items
  <2>2. SameAs(below, b, i) \in SUBSET (1 .. Len(b.items)) /\ Len(b.items) \in Nat
    BY Shapes DEF SameAs
  <2>3. SameAs(below, b, i) # {} => Min(SameAs(below, b, i)) \in SameAs(below, b, i)
    BY <2>2, LeastIsThere
  <2> QED BY <2>3 DEF SameAs
<1> HIDE DEF same
<1>4. foundA = DOMAIN a.items <=> \A i \in DOMAIN a.items : SameAs(below, b, i) # {}
  BY <1>2
<1>5. \A j : j \in foundB <=> \E i \in DOMAIN a.items :
                                  SameAs(below, b, i) # {} /\ j = Min(SameAs(below, b, i))
  BY <1>2
<1>6. foundB \subseteq DOMAIN b.items
  BY <1>3, <1>5
<1>7. foundB = DOMAIN b.items <=> \A j \in DOMAIN b.items : j \in foundB
  <2> HIDE DEF foundB
  <2> QED BY <1>6
<1> HIDE DEF foundA, foundB
<1> QED BY <1>1, <1>4, <1>5, <1>7

\* The canonical forms of two arrays.
LEMMA EqualArrays ==
    ASSUME NEW a \in RawValues, NEW b \in RawValues, a.kind = "array", b.kind = "array"
    PROVE  Canonical[a] = Canonical[b] <=>
             /\ \A i \in DOMAIN a.items : \E j \in DOMAIN b.items :
                    Canonical[a.items[i]] = Canonical[b.items[j]]
             /\ \A j \in DOMAIN b.items : \E i \in DOMAIN a.items :
                    Canonical[a.items[i]] = Canonical[b.items[j]]
<1> DEFINE E(v) == {Canonical[v.items[i]] : i \in DOMAIN v.items}
<1>1. Canonical[a] = Canonical[b] <=> E(a) = E(b)
  <2>1. Canonical[a] = [kind |-> "array", elements |-> E(a)]
    BY CanonicalFacts
  <2>2. Canonical[b] = [kind |-> "array", elements |-> E(b)]
    BY CanonicalFacts
  <2> HIDE DEF E
  <2> QED BY <2>1, <2>2
<1>2. E(a) = E(b) <=> E(a) \subseteq E(b) /\ E(b) \subseteq E(a)
  <2> HIDE DEF E
  <2> QED OBVIOUS
<1>3. E(a) \subseteq E(b) <=> \A i \in DOMAIN a.items : \E j \in DOMAIN b.items :
                                  Canonical[a.items[i]] = Canonical[b.items[j]]
  OBVIOUS
<1>4. E(b) \subseteq E(a) <=> \A j \in DOMAIN b.items : \E i \in DOMAIN a.items :
                                  Canonical[a.items[i]] = Canonical[b.items[j]]
  OBVIOUS
<1> HIDE DEF E
<1> QED BY <1>1, <1>2, <1>3, <1>4

\* performDiff calls two regular values the same exactly when their canonical forms
\* are equal.
LEMMA SameIsEqual ==
    ASSUME NEW a \in RawValues, NEW b \in RawValues, Regular[a], Regular[b]
    PROVE  PerformDiff({}, a, b).status = "Same" <=> Canonical[a] = Canonical[b]
<1> DEFINE Good(v) == \A w \in RawValues : Regular[v] /\ Regular[w] =>
                          (PerformDiff({}, v, w).status = "Same" <=> Canonical[v] = Canonical[w])
           S == {n \in Nat : \A v \in RawValues : Depth[v] < n => Good(v)}
<1>1. 0 \in S
  BY PartsAreValues
<1>2. ASSUME NEW n \in Nat, n \in S PROVE n + 1 \in S
  <2> SUFFICES ASSUME NEW v \in RawValues, Depth[v] < n + 1, NEW w \in RawValues,
                      Regular[v], Regular[w]
               PROVE  PerformDiff({}, v, w).status = "Same" <=> Canonical[v] = Canonical[w]
    OBVIOUS
  <2>1. \A i \in DOMAIN Parts(v) : Parts(v)[i] \in RawValues /\ Good(Parts(v)[i])
    BY <1>2, PartsAreValues
  <2>2. PICK below : /\ PerformDiff({}, v, w) = DiffFrom({}, v, w, below)
                     /\ \A i \in DOMAIN Parts(v), j \in DOMAIN Parts(w) :
                          below[i][j] = PerformDiff({}, Parts(v)[i], Parts(w)[j])
    BY PerformDiffIs
  <2>3. \A i \in DOMAIN Parts(v), j \in DOMAIN Parts(w) :
          below[i][j].status = "Same" <=> Canonical[Parts(v)[i]] = Canonical[Parts(w)[j]]
    BY <2>1, <2>2, PartsAreValues, RegularFacts
  <2>4. CASE v.kind = "map" /\ w.kind = "map"
    <3>1. PerformDiff({}, v, w) = HandleMap({}, v, w, below)
      BY <2>2, <2>4 DEF DiffFrom
    <3>2. \A i \in DOMAIN v.entries : KeyAt(v, i) \in KeysOf(w) =>
            (below[i][FirstAt(w, KeyAt(v, i))].status = "Same" <=>
                Canonical[Parts(v)[i]] = Canonical[Parts(w)[FirstAt(w, KeyAt(v, i))]])
      BY <2>3, <2>4, Shapes, FirstAtFacts
    <3>3. \A i \in DOMAIN v.entries : KeyAt(v, i) \in KeysOf(v)
      BY DEF KeysOf
    <3> QED BY <2>4, <3>1, <3>2, <3>3, SameMaps, EqualMaps
  <2>5. CASE v.kind = "array" /\ w.kind = "array"
    <3>1. PerformDiff({}, v, w) = HandleArray({}, v, w, below)
      BY <2>2, <2>5 DEF DiffFrom
    <3>2. Parts(v) = v.items /\ Parts(w) = w.items
      BY <2>5, Shapes
    <3>3. \A i \in DOMAIN v.items : \A j : j \in SameAs(below, w, i) <=>
            j \in DOMAIN w.items /\ Canonical[v.items[i]] = Canonical[w.items[j]]
      BY <2>3, <3>2 DEF SameAs
    <3>4. ASSUME NEW i \in DOMAIN v.items, NEW j \in SameAs(below, w, i)
          PROVE  j = Min(SameAs(below, w, i))
      <4>1. SameAs(below, w, i) \in SUBSET (1 .. Len(w.items)) /\ Len(w.items) \in Nat
        BY <2>5, Shapes DEF SameAs
      <4>2. \A m, k \in SameAs(below, w, i) : m = k
        BY <2>5, <3>3, RegularFacts
      <4>3. Min(SameAs(below, w, i)) \in SameAs(below, w, i)
        BY <3>4, <4>1, LeastIsThere
      <4> QED BY <3>4, <4>2, <4>3
    <3>5. PerformDiff({}, v, w).status = "Same" <=>
            /\ \A i \in DOMAIN v.items : SameAs(below, w, i) # {}
            /\ \A j \in DOMAIN w.items : \E i \in DOMAIN v.items :
                   SameAs(below, w, i) # {} /\ j = Min(SameAs(below, w, i))
      BY <2>5, <3>1, SameArrays
    <3>6. \A i \in DOMAIN v.items : SameAs(below, w, i) # {} <=>
            \E j \in DOMAIN w.items : Canonical[v.items[i]] = Canonical[w.items[j]]
      BY <3>3
    <3>7. ASSUME NEW i \in DOMAIN v.items, NEW j \in DOMAIN w.items
          PROVE  (SameAs(below, w, i) # {} /\ j = Min(SameAs(below, w, i)))
                   <=> Canonical[v.items[i]] = Canonical[w.items[j]]
      <4>1. Canonical[v.items[i]] = Canonical[w.items[j]] => j \in SameAs(below, w, i)
        BY <3>3, <3>7
      <4>2. ASSUME NEW k \in SameAs(below, w, i)
            PROVE  k = Min(SameAs(below, w, i)) /\ Canonical[v.items[i]] = Canonical[w.items[k]]
        BY <3>3, <3>4, <3>7
      <4> QED BY <4>1, <4>2
    <3>8. (\A i \in DOMAIN v.items : SameAs(below, w, i) # {}) <=>
            \A i \in DOMAIN v.items : \E j \in DOMAIN w.items :
                Canonical[v.items[i]] = Canonical[w.items[j]]
      BY <3>6
    <3>9. (\A j \in DOMAIN w.items : \E i \in DOMAIN v.items :
              SameAs(below, w, i) # {} /\ j = Min(SameAs(below, w, i))) <=>
            \A j \in DOMAIN w.items : \E i \in DOMAIN v.items :
                Canonical[v.items[i]] = Canonical[w.items[j]]
      BY <3>7
    <3>10. Canonical[v] = Canonical[w] <=>
             /\ \A i \in DOMAIN v.items : \E j \in DOMAIN w.items :
                    Canonical[v.items[i]] = Canonical[w.items[j]]
             /\ \A j \in DOMAIN w.items : \E i \in DOMAIN v.items :
                    Canonical[v.items[i]] = Canonical[w.items[j]]
      BY <2>5, EqualArrays
    <3> QED BY <3>5, <3>8, <3>9, <3>10
  <2>6. CASE ~(v.kind = "map" /\ w.kind = "map") /\ ~(v.kind = "array" /\ w.kind = "array")
    <3>1. PerformDiff({}, v, w) = HandlePrimitive({}, v, w)
      BY <2>2, <2>6 DEF DiffFrom
    <3>2. PerformDiff({}, v, w).status = "Same" <=> v = w
      BY <3>1, PrimitiveFacts
    <3>3. Canonical[v] = Canonical[w] => v = w
      <4>1. Canonical[v] = Canonical[w] => v.kind = w.kind
        BY CanonicalFacts
      <4>2. v.kind = w.kind => Canonical[v] = v /\ Canonical[w] = w
        BY <2>6, CanonicalFacts
      <4> QED BY <4>1, <4>2
    <3> QED BY <3>2, <3>3
  <2> QED BY <2>4, <2>5, <2>6
<1> HIDE DEF S
<1>3. \A n \in Nat : n \in S
  BY <1>1, <1>2, SetInduction
<1>4. Depth[a] \in Nat /\ Depth[a] + 1 \in Nat /\ Depth[a] < Depth[a] + 1
  BY PartsAreValues
<1>5. Good(a)
  BY <1>3, <1>4 DEF S
<1> QED BY <1>5

-----------------------------------------------------------------------------
(* The comparisons of a run *)

\* The diff of two values keeps them.
LEMMA DiffKeepsValues ==
    ASSUME NEW opt, NEW a \in RawValues, NEW b \in RawValues
    PROVE  PerformDiff(opt, a, b).a = a /\ PerformDiff(opt, a, b).b = b
<1>1. PICK below : PerformDiff(opt, a, b) = DiffFrom(opt, a, b, below)
  BY PerformDiffIs
<1>2. CASE a.kind = "map" /\ b.kind = "map"
  <2>1. PerformDiff(opt, a, b) = HandleMap(opt, a, b, below)
    BY <1>1, <1>2 DEF DiffFrom
  <2> QED BY <2>1 DEF HandleMap
<1>3. CASE a.kind = "array" /\ b.kind = "array"
  <2>1. PerformDiff(opt, a, b) = HandleArray(opt, a, b, below)
    BY <1>1, <1>3 DEF DiffFrom
  <2>2. \E status, children :
          HandleArray(opt, a, b, below) = [a |-> a, b |-> b, kind |-> "array", children |-> children,
                                           status |-> status, count |-> SumOfCounts(children)]
    BY Zenon DEF HandleArray
  <2> QED BY <2>1, <2>2
<1>4. CASE ~(a.kind = "map" /\ b.kind = "map") /\ ~(a.kind = "array" /\ b.kind = "array")
  <2>1. PerformDiff(opt, a, b) = HandlePrimitive(opt, a, b)
    BY <1>1, <1>4 DEF DiffFrom
  <2> QED BY <2>1, PrimitiveFacts
<1> QED BY <1>2, <1>3, <1>4

\* What Do was called with.
Called ==
    /\ rawA \in Seq(RawValues)
    /\ rawB \in Seq(RawValues)
    /\ option \in SUBSET Options
    /\ phase \in {"loaded", "find", "sort", "print"}

\* What is looked at and kept are comparisons of two documents or of one with nothing.
Compared == diffs \cup picked \subseteq AllPairs \cup AllMissing

\* The diff of the documents i of A and j of B, and those of one document alone.
OfPair(i, j) == YamlDiffOf(rawA[i], rawB[j], IdsA[i], IdsB[j])
OfA(i) == YamlDiffOf(rawA[i], Nil, IdsA[i], <<"empty", IdsA[i]>>)
OfB(j) == YamlDiffOf(Nil, rawB[j], <<"empty", IdsB[j]>>, IdsB[j])

\* The three shapes of a comparison, and the ids it has.
LEMMA ComparisonShapes ==
    ASSUME NEW y \in AllPairs \cup AllMissing
    PROVE  \/ \E i \in DOMAIN rawA, j \in DOMAIN rawB : y = OfPair(i, j)
           \/ \E i \in DOMAIN rawA : y = OfA(i)
           \/ \E j \in DOMAIN rawB : y = OfB(j)
<1>1. y \in AllPairs => \E i \in DOMAIN rawA, j \in DOMAIN rawB : y = OfPair(i, j)
  BY DEF AllPairs, OfPair
<1>2. y \in AllMissing => \/ \E i \in DOMAIN rawA : y = OfA(i)
                         \/ \E j \in DOMAIN rawB : y = OfB(j)
  BY DEF AllMissing, OfA, OfB
<1> QED BY <1>1, <1>2

\* The ids of a comparison.
LEMMA ComparisonIds ==
    /\ \A i \in DOMAIN rawA : IdsA[i] = <<"A", i>>
    /\ \A j \in DOMAIN rawB : IdsB[j] = <<"B", j>>
    /\ DOMAIN IdsA = DOMAIN rawA /\ DOMAIN IdsB = DOMAIN rawB
    /\ \A i \in DOMAIN rawA, j \in DOMAIN rawB :
           OfPair(i, j).idA = <<"A", i>> /\ OfPair(i, j).idB = <<"B", j>>
    /\ \A i \in DOMAIN rawA : OfA(i).idA = <<"A", i>> /\ OfA(i).idB = <<"empty", <<"A", i>>>>
    /\ \A j \in DOMAIN rawB : OfB(j).idB = <<"B", j>> /\ OfB(j).idA = <<"empty", <<"B", j>>>>
<1>1. \A i \in DOMAIN rawA : IdsA[i] = <<"A", i>>
  BY DEF IdsA
<1>2. \A j \in DOMAIN rawB : IdsB[j] = <<"B", j>>
  BY DEF IdsB
<1>3. DOMAIN IdsA = DOMAIN rawA /\ DOMAIN IdsB = DOMAIN rawB
  BY DEF IdsA, IdsB
<1>4. \A a, b, m, n : YamlDiffOf(a, b, m, n).idA = m /\ YamlDiffOf(a, b, m, n).idB = n
  BY DEF YamlDiffOf
<1> QED BY <1>1, <1>2, <1>3, <1>4 DEF OfPair, OfA, OfB

\* The documents are values.
LEMMA DocumentsAreValues ==
    ASSUME Called
    PROVE  /\ \A i \in DOMAIN rawA : rawA[i] \in RawValues /\ rawA[i] \in Documents
           /\ \A j \in DOMAIN rawB : rawB[j] \in RawValues /\ rawB[j] \in Documents
           /\ Nil \in RawValues
<1>1. \A i \in DOMAIN rawA : rawA[i] \in RawValues
  BY DEF Called
<1>2. \A j \in DOMAIN rawB : rawB[j] \in RawValues
  BY DEF Called
<1>3. \A i \in DOMAIN rawA : rawA[i] \in Documents
  BY DEF Documents, ToSet
<1>4. \A j \in DOMAIN rawB : rawB[j] \in Documents
  BY DEF Documents, ToSet
<1>5. Nil \in RawValues
  BY DiffAssumption
<1> QED BY <1>1, <1>2, <1>3, <1>4, <1>5

-----------------------------------------------------------------------------
(* SameMeansEqual *)

\* At first nothing is compared.
LEMMA CalledInit ==
    DiffInit => Called /\ Compared
<1> SUFFICES ASSUME DiffInit PROVE Called /\ Compared
  OBVIOUS
<1>1. PICK call \in Inputs : rawA = call.rawA /\ rawB = call.rawB /\ option = call.option
  BY DEF DiffInit
<1>2. /\ call.rawA \in Seq(RawValues) /\ call.rawB \in Seq(RawValues)
      /\ call.option \in SUBSET Options
  BY DiffAssumption
<1>3. Called
  BY <1>1, <1>2 DEF Called, DiffInit
<1>4. Compared
  BY DEF Compared, DiffInit
<1> QED BY <1>3, <1>4

\* A run never changes what it was called with.
LEMMA CallStays ==
    ASSUME [DiffNext]_diffVars
    PROVE  /\ rawA' = rawA /\ rawB' = rawB /\ option' = option
           /\ IdsA' = IdsA /\ IdsB' = IdsB
           /\ AllPairs' = AllPairs /\ AllMissing' = AllMissing
<1>1. rawA' = rawA /\ rawB' = rawB /\ option' = option
  BY DEF DiffNext, diffVars, PerformAllDiff, FindMinimumDiffs, SortResult
<1>2. IdsA' = IdsA /\ IdsB' = IdsB
  BY <1>1 DEF IdsA, IdsB
<1> QED BY <1>1, <1>2 DEF AllPairs, AllMissing, YamlDiffOf

\* What is kept was looked at, and what is looked at was compared.
LEMMA CalledNext ==
    ASSUME Called, Compared, [DiffNext]_diffVars
    PROVE  Called' /\ Compared'
<1>0. /\ rawA' = rawA /\ rawB' = rawB /\ option' = option
      /\ AllPairs' = AllPairs /\ AllMissing' = AllMissing
  BY CallStays
<1>1. Called'
  <2>1. phase' \in {"loaded", "find", "sort", "print"}
    BY DEF Called, DiffNext, diffVars, PerformAllDiff, FindMinimumDiffs, SortResult
  <2> QED BY <1>0, <2>1 DEF Called
<1>2. ASSUME PerformAllDiff PROVE Compared'
  BY <1>2, <1>0 DEF Compared, PerformAllDiff
<1>3. ASSUME FindMinimumDiffs PROVE Compared'
  <2>1. PICK y \in Foremost :
          /\ diffs' = diffs \ {y}
          /\ picked' = IF IdsOf(y) \cap CheckedBy(picked) = {} THEN picked \cup {y} ELSE picked
    BY <1>3 DEF FindMinimumDiffs
  <2>2. y \in diffs
    BY DEF Foremost
  <2>3. diffs' \cup picked' \subseteq diffs \cup picked
    BY <2>1, <2>2
  <2> QED BY <2>3, <1>0 DEF Compared
<1>4. ASSUME SortResult \/ UNCHANGED diffVars PROVE Compared'
  <2>1. diffs' = diffs /\ picked' = picked
    BY <1>4 DEF SortResult, diffVars
  <2> QED BY <2>1, <1>0 DEF Compared
<1>5. Compared'
  BY <1>2, <1>3, <1>4 DEF DiffNext
<1> QED BY <1>1, <1>5

\* Two documents that are compared are the same when they are equal.
LEMMA SamePairs ==
    ASSUME Called, RegularInput, NEW i \in DOMAIN rawA, NEW j \in DOMAIN rawB
    PROVE  /\ OfPair(i, j).d.a = rawA[i] /\ OfPair(i, j).d.b = rawB[j]
           /\ OfPair(i, j).d.status = "Same" <=> Canonical[rawA[i]] = Canonical[rawB[j]]
<1>1. rawA[i] \in RawValues /\ rawB[j] \in RawValues /\ Regular[rawA[i]] /\ Regular[rawB[j]]
  BY DocumentsAreValues DEF RegularInput
<1>2. OfPair(i, j).d = PerformDiff({}, rawA[i], rawB[j])
  BY DEF OfPair, YamlDiffOf, RegularInput
<1> QED BY <1>1, <1>2, DiffKeepsValues, SameIsEqual

\* Of comparisons of two documents SameIsEqual speaks.
LEMMA SameMeansEqualHolds ==
    ASSUME Called, Compared
    PROVE  SameMeansEqual
<1> SUFFICES ASSUME RegularInput, NEW y \in diffs \cup picked,
                    y.idA \in ToSet(IdsA), y.idB \in ToSet(IdsB)
             PROVE  y.d.status = "Same" <=> Canonical[y.d.a] = Canonical[y.d.b]
  BY DEF SameMeansEqual
<1>1. y \in AllPairs \cup AllMissing
  BY DEF Compared
<1>2. PICK i \in DOMAIN rawA : y.idA = <<"A", i>>
  BY ComparisonIds DEF ToSet
<1>3. PICK j \in DOMAIN rawB : y.idB = <<"B", j>>
  BY ComparisonIds DEF ToSet
<1>4. \A m \in DOMAIN rawA : y # OfA(m)
  BY <1>3, ComparisonIds
<1>5. \A n \in DOMAIN rawB : y # OfB(n)
  BY <1>2, ComparisonIds
<1>6. PICK m \in DOMAIN rawA, n \in DOMAIN rawB : y = OfPair(m, n)
  BY <1>1, <1>4, <1>5, ComparisonShapes
<1> QED BY <1>6, SamePairs

\* Two documents, of any shape and depth, are called the same exactly when they are
\* equal up to the order of map entries and array elements.
THEOREM DiffSameMeansEqual == DiffSpec => []SameMeansEqual
<1>1. DiffInit => Called /\ Compared
  BY CalledInit
<1>2. (Called /\ Compared) /\ [DiffNext]_diffVars => (Called /\ Compared)'
  BY CalledNext
<1>3. Called /\ Compared => SameMeansEqual
  BY SameMeansEqualHolds
<1> QED BY <1>1, <1>2, <1>3, PTL DEF DiffSpec

-----------------------------------------------------------------------------
(* Picking and sorting *)

\* The ids of all documents.
Ids == ToSet(IdsA \o IdsB)

\* The ids of the documents of A and of B.
LEMMA IdsAre ==
    ASSUME Called
    PROVE  /\ IdsA \o IdsB \in Seq(Ids)
           /\ Ids = {<<"A", i>> : i \in DOMAIN rawA} \cup {<<"B", j>> : j \in DOMAIN rawB}
<1>1. /\ Len(rawA) \in Nat /\ DOMAIN rawA = 1 .. Len(rawA)
      /\ Len(rawB) \in Nat /\ DOMAIN rawB = 1 .. Len(rawB)
  BY DEF Called
<1> DEFINE T == {<<"A", i>> : i \in DOMAIN rawA} \cup {<<"B", j>> : j \in DOMAIN rawB}
<1>2. IdsA \in Seq(T) /\ IdsB \in Seq(T) /\ Len(IdsA) = Len(rawA) /\ Len(IdsB) = Len(rawB)
  <2>1. \A i \in 1 .. Len(rawA) : <<"A", i>> \in T
    BY <1>1
  <2>2. \A j \in 1 .. Len(rawB) : <<"B", j>> \in T
    BY <1>1
  <2>3. IdsA = [i \in 1 .. Len(rawA) |-> <<"A", i>>] /\ IdsB = [j \in 1 .. Len(rawB) |-> <<"B", j>>]
    BY <1>1 DEF IdsA, IdsB
  <2> HIDE DEF T
  <2> QED BY <1>1, <2>1, <2>2, <2>3
<1>3. \A n \in DOMAIN (IdsA \o IdsB) : (IdsA \o IdsB)[n] \in T
  <2> HIDE DEF T
  <2>1. IdsA \o IdsB \in Seq(T)
    BY <1>2, ConcatProperties
  <2> QED BY <2>1, ElementOfSeq
<1>4. \A i \in DOMAIN rawA : \E n \in DOMAIN (IdsA \o IdsB) : (IdsA \o IdsB)[n] = <<"A", i>>
  <2>1. TAKE i \in DOMAIN rawA
  <2>2. IdsA[i] = <<"A", i>> /\ i \in 1 .. Len(IdsA)
    BY <1>1, <1>2, ComparisonIds
  <2> HIDE DEF T
  <2>3. i \in DOMAIN (IdsA \o IdsB) /\ (IdsA \o IdsB)[i] = IdsA[i]
    BY <1>2, <2>2
  <2> QED BY <2>2, <2>3
<1>5. \A j \in DOMAIN rawB : \E n \in DOMAIN (IdsA \o IdsB) : (IdsA \o IdsB)[n] = <<"B", j>>
  <2>1. TAKE j \in DOMAIN rawB
  <2>2. IdsB[j] = <<"B", j>> /\ j \in 1 .. Len(IdsB)
    BY <1>1, <1>2, ComparisonIds
  <2> HIDE DEF T
  <2>3. /\ Len(IdsA) + j \in DOMAIN (IdsA \o IdsB)
        /\ (IdsA \o IdsB)[Len(IdsA) + j] = IdsB[j]
    BY <1>2, <2>2
  <2> QED BY <2>2, <2>3
<1>6. Ids = T
  <2>1. \A id : id \in Ids <=> \E n \in DOMAIN (IdsA \o IdsB) : (IdsA \o IdsB)[n] = id
    BY DEF Ids, ToSet
  <2> QED BY <1>3, <1>4, <1>5, <2>1
<1>7. IdsA \o IdsB \in Seq(T)
  <2> HIDE DEF T
  <2> QED BY <1>2, ConcatProperties
<1> QED BY <1>6, <1>7

\* Who has the id of "nothing against a document" has the document's id.
LEMMA EmptyFollows ==
    ASSUME Called, NEW y \in AllPairs \cup AllMissing, NEW id \in Ids, <<"empty", id>> \in IdsOf(y)
    PROVE  id \in IdsOf(y)
<1>1. \/ \E i \in DOMAIN rawA : id = <<"A", i>>
      \/ \E j \in DOMAIN rawB : id = <<"B", j>>
  BY IdsAre
<1>2. CASE \E i \in DOMAIN rawA, j \in DOMAIN rawB : y = OfPair(i, j)
  BY <1>1, <1>2, ComparisonIds DEF IdsOf
<1>3. CASE \E i \in DOMAIN rawA : y = OfA(i)
  BY <1>1, <1>3, ComparisonIds DEF IdsOf
<1>4. CASE \E j \in DOMAIN rawB : y = OfB(j)
  BY <1>1, <1>4, ComparisonIds DEF IdsOf
<1> QED BY <1>2, <1>3, <1>4, ComparisonShapes

\* The kept diffs have no id in common.
Apart == \A y, z \in picked : IdsOf(y) \cap IdsOf(z) # {} => y = z

\* A document is in a kept diff or its diff against nothing is still to be looked at.
Accounted ==
    /\ phase = "find" => \A id \in Ids :
           \/ id \in CheckedBy(picked)
           \/ \E y \in diffs : IdsOf(y) = {id, <<"empty", id>>}
    /\ phase = "sort" => \A id \in Ids : id \in CheckedBy(picked)

\* Sorting keeps every document, in one of the kept diffs.
Complete(sorted) ==
    /\ sorted \in Seq(picked)
    /\ \A m, n \in DOMAIN sorted : IdsOf(sorted[m]) \cap IdsOf(sorted[n]) # {} => m = n
    /\ \A id \in Ids : \E n \in DOMAIN sorted : id \in IdsOf(sorted[n])

Printed == phase = "print" => Complete(shown)

Once == Called /\ Compared /\ Apart /\ Accounted /\ Printed

\* The recursion of Sorted.
PlacedUpTo(f, ids, n) == f = [m \in 0 .. n |-> IF m = 0 THEN <<>> ELSE Placed(f[m - 1], ids[m])]

\* There is a function that satisfies it, for any number of documents.
LEMMA PlacedExists ==
    ASSUME NEW ids
    PROVE  \A n \in Nat : \E f : PlacedUpTo(f, ids, n)
<1> DEFINE S == {n \in Nat : \E f : PlacedUpTo(f, ids, n)}
<1>1. 0 \in S
  <2>1. [m \in 0 .. 0 |-> <<>>] =
          [m \in 0 .. 0 |-> IF m = 0 THEN <<>> ELSE Placed([k \in 0 .. 0 |-> <<>>][m - 1], ids[m])]
    OBVIOUS
  <2> QED BY <2>1 DEF PlacedUpTo
<1>2. ASSUME NEW n \in Nat, n \in S PROVE n + 1 \in S
  <2>1. PICK f : PlacedUpTo(f, ids, n)
    BY <1>2
  <2> DEFINE step(g, m) == IF m = 0 THEN <<>> ELSE Placed(g[m - 1], ids[m])
             h == [m \in 0 .. n + 1 |-> step(f, m)]
  <2>2. \A m \in 0 .. n : h[m] = f[m]
    BY <2>1 DEF PlacedUpTo
  <2>3. \A m \in 0 .. n + 1 : step(h, m) = step(f, m)
    <3>1. TAKE m \in 0 .. n + 1
    <3>2. m # 0 => m - 1 \in 0 .. n
      OBVIOUS
    <3> HIDE DEF h
    <3> QED BY <2>2, <3>2
  <2>4. h = [m \in 0 .. n + 1 |-> step(h, m)]
    <3> HIDE DEF step
    <3> QED BY <2>3
  <2> HIDE DEF h
  <2>5. PlacedUpTo(h, ids, n + 1)
    BY <2>4, Zenon DEF PlacedUpTo
  <2> QED BY <2>5
<1> HIDE DEF S
<1>3. \A n \in Nat : n \in S
  BY <1>1, <1>2, SetInduction
<1> QED BY <1>3 DEF S

\* The first n documents are placed.
CompleteUpTo(sorted, ids, n) ==
    /\ sorted \in Seq(picked)
    /\ \A k, m \in DOMAIN sorted : IdsOf(sorted[k]) \cap IdsOf(sorted[m]) # {} => k = m
    /\ \A k \in 1 .. n : \E m \in DOMAIN sorted : ids[k] \in IdsOf(sorted[m])

\* One more document is placed.
LEMMA PlacedCompletes ==
    ASSUME Apart, NEW ids, NEW n \in Nat, NEW sorted, CompleteUpTo(sorted, ids, n),
           ids[n + 1] \in CheckedBy(picked)
    PROVE  CompleteUpTo(Placed(sorted, ids[n + 1]), ids, n + 1)
<1> DEFINE id == ids[n + 1]
           free == {y \in picked : id \in IdsOf(y) /\ IdsOf(y) \cap CheckedBy(ToSet(sorted)) = {}}
<1>1. PICK z \in picked : id \in IdsOf(z)
  BY DEF CheckedBy
<1>2. /\ sorted \in Seq(picked)
      /\ \A k, m \in DOMAIN sorted : IdsOf(sorted[k]) \cap IdsOf(sorted[m]) # {} => k = m
      /\ \A k \in 1 .. n : \E m \in DOMAIN sorted : ids[k] \in IdsOf(sorted[m])
  BY DEF CompleteUpTo
<1>3. \A y : IdsOf(y) \cap CheckedBy(ToSet(sorted)) = {} <=>
               \A m \in DOMAIN sorted : IdsOf(y) \cap IdsOf(sorted[m]) = {}
  BY DEF CheckedBy, ToSet
<1>4. \A k \in 1 .. n + 1 : k \in 1 .. n \/ k = n + 1
  OBVIOUS
<1>5. CASE free = {}
  <2>1. Placed(sorted, id) = sorted
    BY <1>5 DEF Placed
  <2>2. PICK m \in DOMAIN sorted : IdsOf(z) \cap IdsOf(sorted[m]) # {}
    BY <1>1, <1>3, <1>5
  <2>3. sorted[m] \in picked
    BY <1>2
  <2>4. sorted[m] = z
    BY <2>2, <2>3 DEF Apart
  <2>5. \A k \in 1 .. n + 1 : \E i \in DOMAIN sorted : ids[k] \in IdsOf(sorted[i])
    BY <1>1, <1>2, <1>4, <2>4
  <2> QED BY <1>2, <2>1, <2>5 DEF CompleteUpTo
<1>6. CASE free # {}
  <2> DEFINE y == CHOOSE y \in free : TRUE
             longer == Append(sorted, y)
  <2>1. Placed(sorted, id) = longer
    BY <1>6 DEF Placed
  <2>2. y \in free
    BY <1>6
  <2>3. /\ y \in picked /\ id \in IdsOf(y)
        /\ \A m \in DOMAIN sorted : IdsOf(y) \cap IdsOf(sorted[m]) = {}
    BY <1>3, <2>2
  <2> HIDE DEF y
  <2>4. /\ longer \in Seq(picked) /\ Len(sorted) \in Nat
        /\ DOMAIN sorted = 1 .. Len(sorted) /\ DOMAIN longer = 1 .. Len(sorted) + 1
        /\ longer[Len(sorted) + 1] = y /\ \A m \in 1 .. Len(sorted) : longer[m] = sorted[m]
    BY <1>2, <2>3
  <2>5. \A m \in DOMAIN longer : m \in DOMAIN sorted \/ m = Len(sorted) + 1
    BY <2>4
  <2> HIDE DEF longer
  <2>6. \A k, m \in DOMAIN longer : IdsOf(longer[k]) \cap IdsOf(longer[m]) # {} => k = m
    BY <1>2, <2>3, <2>4, <2>5
  <2>7. \A k \in 1 .. n : \E m \in DOMAIN longer : ids[k] \in IdsOf(longer[m])
    BY <1>2, <2>4
  <2>8. Len(sorted) + 1 \in DOMAIN longer
    BY <2>4
  <2>9. \A k \in 1 .. n + 1 : \E m \in DOMAIN longer : ids[k] \in IdsOf(longer[m])
    BY <1>4, <2>3, <2>4, <2>7, <2>8
  <2> QED BY <2>1, <2>4, <2>6, <2>9 DEF CompleteUpTo
<1> QED BY <1>5, <1>6

\* All documents are placed when every one of them is in a kept diff.
LEMMA SortedCompletes ==
    ASSUME Apart, NEW T, NEW ids \in Seq(T), \A k \in DOMAIN ids : ids[k] \in CheckedBy(picked)
    PROVE  CompleteUpTo(Sorted(ids), ids, Len(ids))
<1>1. Len(ids) \in Nat /\ DOMAIN ids = 1 .. Len(ids)
  OBVIOUS
<1>2. \E f : PlacedUpTo(f, ids, Len(ids))
  BY <1>1, PlacedExists
<1> DEFINE upTo == CHOOSE f : PlacedUpTo(f, ids, Len(ids))
<1>3. Sorted(ids) = upTo[Len(ids)]
  BY DEF Sorted, PlacedUpTo
<1>4. PlacedUpTo(upTo, ids, Len(ids))
  BY <1>2
<1> HIDE DEF upTo
<1> DEFINE S == {n \in Nat : n <= Len(ids) => CompleteUpTo(upTo[n], ids, n)}
<1>5. 0 \in S
  <2>1. upTo[0] = <<>>
    BY <1>1, <1>4 DEF PlacedUpTo
  <2>2. CompleteUpTo(<<>>, ids, 0)
    <3>1. <<>> \in Seq(picked) /\ DOMAIN <<>> = {} /\ 1 .. 0 = {}
      OBVIOUS
    <3> QED BY <3>1 DEF CompleteUpTo
  <2> QED BY <2>1, <2>2
<1>6. ASSUME NEW n \in Nat, n \in S PROVE n + 1 \in S
  <2> SUFFICES ASSUME n + 1 <= Len(ids) PROVE CompleteUpTo(upTo[n + 1], ids, n + 1)
    OBVIOUS
  <2>1. CompleteUpTo(upTo[n], ids, n)
    BY <1>1, <1>6
  <2>2. n + 1 \in 0 .. Len(ids) /\ n + 1 # 0 /\ (n + 1) - 1 = n /\ n + 1 \in DOMAIN ids
    BY <1>1
  <2>3. upTo[n + 1] = Placed(upTo[n], ids[n + 1])
    BY <1>4, <2>2 DEF PlacedUpTo
  <2> QED BY <2>1, <2>2, <2>3, PlacedCompletes
<1> HIDE DEF S
<1>7. \A n \in Nat : n \in S
  BY <1>5, <1>6, SetInduction
<1>8. CompleteUpTo(upTo[Len(ids)], ids, Len(ids))
  BY <1>1, <1>7 DEF S
<1> QED BY <1>3, <1>8

-----------------------------------------------------------------------------
(* EveryDocumentOnce *)

\* The invariant holds at first,
LEMMA OnceInit ==
    DiffInit => Once
<1> SUFFICES ASSUME DiffInit PROVE Once
  OBVIOUS
<1>1. phase = "loaded" /\ picked = {}
  BY DEF DiffInit
<1> QED BY <1>1, CalledInit DEF Once, Apart, Accounted, Printed

\* What is compared at first holds the diff of every document against nothing.
LEMMA AccountedByAll ==
    ASSUME Called, NEW id \in Ids
    PROVE  \E y \in AllPairs \cup AllMissing : IdsOf(y) = {id, <<"empty", id>>}
<1>1. \/ \E i \in DOMAIN rawA : id = <<"A", i>>
      \/ \E j \in DOMAIN rawB : id = <<"B", j>>
  BY IdsAre
<1>2. \A i \in DOMAIN rawA : OfA(i) \in AllMissing /\ IdsOf(OfA(i)) = {<<"A", i>>, <<"empty", <<"A", i>>>>}
  <2>1. \A i \in DOMAIN rawA : OfA(i) \in AllMissing
    BY DEF OfA, AllMissing
  <2>2. \A i \in DOMAIN rawA : IdsOf(OfA(i)) = {<<"A", i>>, <<"empty", <<"A", i>>>>}
    BY ComparisonIds DEF IdsOf
  <2> QED BY <2>1, <2>2
<1>3. \A j \in DOMAIN rawB : OfB(j) \in AllMissing /\ IdsOf(OfB(j)) = {<<"B", j>>, <<"empty", <<"B", j>>>>}
  <2>1. \A j \in DOMAIN rawB : OfB(j) \in AllMissing
    BY DEF OfB, AllMissing
  <2>2. \A j \in DOMAIN rawB : IdsOf(OfB(j)) = {<<"B", j>>, <<"empty", <<"B", j>>>>}
    BY ComparisonIds DEF IdsOf
  <2> QED BY <2>1, <2>2
<1> QED BY <1>1, <1>2, <1>3

\* A turn of the loop: the diff y is kept if none of its ids is taken.
LEMMA TurnKeeps ==
    ASSUME Called, Compared, Apart, phase = "find", Accounted, NEW y \in diffs,
           diffs' = diffs \ {y},
           picked' = IF IdsOf(y) \cap CheckedBy(picked) = {} THEN picked \cup {y} ELSE picked
    PROVE  /\ Apart'
           /\ \A id \in Ids : \/ id \in CheckedBy(picked')
                              \/ \E z \in diffs' : IdsOf(z) = {id, <<"empty", id>>}
<1>1. Apart'
  <2>1. IdsOf(y) \cap CheckedBy(picked) = {} => \A z \in picked : IdsOf(y) \cap IdsOf(z) = {}
    BY DEF CheckedBy
  <2> QED BY <2>1 DEF Apart
<1>2. \A z \in picked' : IdsOf(z) \subseteq CheckedBy(picked')
  BY DEF CheckedBy
<1>3. picked \subseteq picked'
  OBVIOUS
<1>4. ASSUME NEW id \in Ids
      PROVE  \/ id \in CheckedBy(picked')
             \/ \E z \in diffs' : IdsOf(z) = {id, <<"empty", id>>}
  <2>1. CASE id \in CheckedBy(picked)
    BY <1>3, <2>1 DEF CheckedBy
  <2>2. CASE \E z \in diffs : IdsOf(z) = {id, <<"empty", id>>} /\ z # y
    BY <2>2
  <2>3. CASE IdsOf(y) = {id, <<"empty", id>>}
    <3>1. CASE IdsOf(y) \cap CheckedBy(picked) = {}
      BY <1>2, <2>3, <3>1
    <3>2. CASE IdsOf(y) \cap CheckedBy(picked) # {}
      <4>1. PICK z \in picked : id \in IdsOf(z) \/ <<"empty", id>> \in IdsOf(z)
        BY <2>3, <3>2 DEF CheckedBy
      <4>2. z \in AllPairs \cup AllMissing
        BY DEF Compared
      <4>3. id \in IdsOf(z)
        BY <4>1, <4>2, EmptyFollows
      <4> QED BY <1>2, <1>3, <4>3
    <3> QED BY <3>1, <3>2
  <2> QED BY <2>1, <2>2, <2>3 DEF Accounted
<1> QED BY <1>1, <1>4

\* is kept by every step,
LEMMA OnceNext ==
    ASSUME Once, [DiffNext]_diffVars
    PROVE  Once'
<1>0. rawA' = rawA /\ rawB' = rawB /\ IdsA' = IdsA /\ IdsB' = IdsB
  BY CallStays
<1>1. Ids' = Ids
  BY <1>0 DEF Ids
<1>2. Called' /\ Compared'
  BY CalledNext DEF Once
<1>3. ASSUME PerformAllDiff PROVE Apart' /\ Accounted' /\ Printed'
  <2>1. /\ phase' = "find" /\ picked' = picked
        /\ diffs' = AllPairs \cup AllMissing
    BY <1>3 DEF PerformAllDiff
  <2>2. \A id \in Ids : \E y \in diffs' : IdsOf(y) = {id, <<"empty", id>>}
    BY <2>1, AccountedByAll DEF Once
  <2>3. Accounted'
    BY <1>1, <2>1, <2>2 DEF Accounted
  <2>4. Apart' /\ Printed'
    BY <2>1 DEF Once, Apart, Printed
  <2> QED BY <2>3, <2>4
<1>4. ASSUME FindMinimumDiffs PROVE Apart' /\ Accounted' /\ Printed'
  <2>1. PICK y \in Foremost :
          /\ diffs' = diffs \ {y}
          /\ picked' = IF IdsOf(y) \cap CheckedBy(picked) = {} THEN picked \cup {y} ELSE picked
    BY <1>4 DEF FindMinimumDiffs
  <2>2. /\ phase = "find" /\ phase' \in {"find", "sort"}
        /\ phase' = "sort" => diffs' = {}
    BY <1>4 DEF FindMinimumDiffs
  <2>3. y \in diffs
    BY DEF Foremost
  <2>4. /\ Apart'
        /\ \A id \in Ids : \/ id \in CheckedBy(picked')
                           \/ \E z \in diffs' : IdsOf(z) = {id, <<"empty", id>>}
    BY <2>1, <2>2, <2>3, TurnKeeps DEF Once
  <2>5. Accounted'
    BY <1>1, <2>2, <2>4 DEF Accounted, CheckedBy
  <2>6. Printed'
    BY <2>2 DEF Printed
  <2> QED BY <2>4, <2>5, <2>6
<1>5. ASSUME SortResult PROVE Apart' /\ Accounted' /\ Printed'
  <2>1. /\ phase = "sort" /\ phase' = "print" /\ picked' = picked
        /\ shown' = Sorted(IdsA \o IdsB)
    BY <1>5 DEF SortResult
  <2>2. \A id \in Ids : id \in CheckedBy(picked)
    BY <2>1 DEF Once, Accounted
  <2>3. IdsA \o IdsB \in Seq(Ids)
    BY IdsAre DEF Once
  <2> DEFINE ids == IdsA \o IdsB
  <2> HIDE DEF ids
  <2>4. ids \in Seq(Ids) /\ Ids = ToSet(ids) /\ shown' = Sorted(ids)
    BY <2>1, <2>3 DEF ids, Ids
  <2>5. DOMAIN ids = 1 .. Len(ids) /\ \A k \in DOMAIN ids : ids[k] \in CheckedBy(picked)
    BY <2>2, <2>4
  <2>6. CompleteUpTo(Sorted(ids), ids, Len(ids))
    BY <2>4, <2>5, SortedCompletes DEF Once
  <2>7. \A id \in Ids : \E k \in 1 .. Len(ids) : ids[k] = id
    BY <2>4, <2>5 DEF ToSet
  <2>8. Complete(Sorted(ids))
    BY <2>6, <2>7 DEF Complete, CompleteUpTo
  <2>9. Complete(shown)'
    BY <1>1, <2>1, <2>4, <2>8 DEF Complete
  <2> QED BY <2>1, <2>9 DEF Once, Apart, Accounted, Printed
<1>6. ASSUME UNCHANGED diffVars PROVE Apart' /\ Accounted' /\ Printed'
  <2>1. phase' = phase /\ diffs' = diffs /\ picked' = picked /\ shown' = shown
    BY <1>6 DEF diffVars
  <2> QED BY <1>1, <2>1 DEF Once, Apart, Accounted, Printed, Complete, CheckedBy
<1> QED BY <1>2, <1>3, <1>4, <1>5, <1>6 DEF DiffNext, Once

\* and says that a document is in one diff that is printed.
LEMMA OnceSuffices ==
    ASSUME Once
    PROVE  EveryDocumentOnce
<1> SUFFICES ASSUME phase \in {"print", "done"}, NEW id \in Ids
             PROVE  Cardinality({n \in DOMAIN shown : id \in IdsOf(shown[n])}) = 1
  BY DEF EveryDocumentOnce, Ids
<1>1. Complete(shown)
  BY DEF Once, Called, Printed
<1>2. PICK n \in DOMAIN shown : id \in IdsOf(shown[n])
  BY <1>1 DEF Complete
<1>3. {m \in DOMAIN shown : id \in IdsOf(shown[m])} = {n}
  BY <1>1, <1>2 DEF Complete
<1> QED BY <1>3, FS_Singleton

\* Every document of either list is printed in exactly one diff, whatever the order in
\* which the sort leaves diffs that are equally good.
THEOREM DiffEveryDocumentOnce == DiffSpec => []EveryDocumentOnce
<1>1. DiffInit => Once
  BY OnceInit
<1>2. Once /\ [DiffNext]_diffVars => Once'
  BY OnceNext
<1>3. Once => EveryDocumentOnce
  BY OnceSuffices
<1> QED BY <1>1, <1>2, <1>3, PTL DEF DiffSpec

-----------------------------------------------------------------------------
(* EqualDocumentsPaired *)

\* Documents without duplicates.
Distinct == RegularInput /\ NoneTwice(rawA) /\ NoneTwice(rawB)

\* Document i of A is document j of B.
Twins(i, j) == rawA[i] # Nil /\ Canonical[rawA[i]] = Canonical[rawB[j]]

\* The diff of twins is kept, or it is still to come and nothing stands in its way.
Awaited(i, j) ==
    \/ OfPair(i, j) \in picked
    \/ OfPair(i, j) \in diffs /\ IdsOf(OfPair(i, j)) \cap CheckedBy(picked) = {}

Paired ==
    Distinct => \A i \in DOMAIN rawA, j \in DOMAIN rawB : Twins(i, j) =>
        /\ phase = "find" => Awaited(i, j)
        /\ phase \in {"sort", "print"} => OfPair(i, j) \in picked

\* Nothing is an equal of nothing alone.
LEMMA NilIsAlone ==
    /\ Nil \in RawValues /\ Regular[Nil]
    /\ \A v \in RawValues : Canonical[v] = Canonical[Nil] => v = Nil
<1>1. Nil \in RawValues /\ Nil.kind = "nil"
  BY DiffAssumption DEF Nil
<1>2. RegularBy(Regular, Nil)
  BY <1>1 DEF RegularBy
<1>3. Regular[Nil]
  BY <1>1, <1>2, RegularIs
<1>4. ASSUME NEW v \in RawValues, Canonical[v] = Canonical[Nil] PROVE v = Nil
  <2>1. v.kind = "nil"
    BY <1>1, <1>4, CanonicalFacts
  <2> QED BY <2>1, Shapes
<1> QED BY <1>1, <1>3, <1>4

\* A diff that is the same shares no id with the diff of twins.
LEMMA SameIsDisjoint ==
    ASSUME Called, Distinct, NEW i \in DOMAIN rawA, NEW j \in DOMAIN rawB, Twins(i, j),
           NEW y \in AllPairs \cup AllMissing, y.d.status = "Same", y # OfPair(i, j)
    PROVE  IdsOf(y) \cap IdsOf(OfPair(i, j)) = {}
<1>1. /\ \A m \in DOMAIN rawA : rawA[m] \in RawValues /\ Regular[rawA[m]]
      /\ \A n \in DOMAIN rawB : rawB[n] \in RawValues /\ Regular[rawB[n]]
      /\ option = {}
  BY DocumentsAreValues DEF Distinct, RegularInput
<1>2. /\ \A m \in DOMAIN rawA : Canonical[rawA[m]] = Canonical[rawA[i]] => m = i
      /\ \A n \in DOMAIN rawB : Canonical[rawB[n]] = Canonical[rawB[j]] => n = j
  BY DEF Distinct, NoneTwice
<1>3. rawA[i] # Nil /\ Canonical[rawA[i]] = Canonical[rawB[j]] /\ rawB[j] # Nil
  <2>1. rawA[i] # Nil /\ Canonical[rawA[i]] = Canonical[rawB[j]]
    BY DEF Twins
  <2> QED BY <1>1, <2>1, NilIsAlone
<1>4. IdsOf(OfPair(i, j)) = {<<"A", i>>, <<"B", j>>}
  BY ComparisonIds DEF IdsOf
<1>5. ASSUME NEW m \in DOMAIN rawA, NEW n \in DOMAIN rawB, y = OfPair(m, n)
      PROVE  IdsOf(y) \cap IdsOf(OfPair(i, j)) = {}
  <2>1. Canonical[rawA[m]] = Canonical[rawB[n]]
    BY <1>5, SamePairs DEF Distinct
  <2>2. m # i \/ n # j
    BY <1>5
  <2>3. m # i /\ n # j
    BY <1>2, <1>3, <2>1, <2>2
  <2>4. IdsOf(y) = {<<"A", m>>, <<"B", n>>}
    BY <1>5, ComparisonIds DEF IdsOf
  <2> QED BY <1>4, <2>3, <2>4
<1>6. ASSUME NEW m \in DOMAIN rawA, y = OfA(m)
      PROVE  IdsOf(y) \cap IdsOf(OfPair(i, j)) = {}
  <2>1. y.d = PerformDiff({}, rawA[m], Nil)
    BY <1>1, <1>6 DEF OfA, YamlDiffOf
  <2>2. rawA[m] = Nil
    BY <1>1, <2>1, NilIsAlone, SameIsEqual
  <2>3. IdsOf(y) = {<<"A", m>>, <<"empty", <<"A", m>>>>}
    <3>1. y.idA = <<"A", m>> /\ y.idB = <<"empty", <<"A", m>>>>
      BY <1>6, ComparisonIds
    <3> QED BY <3>1 DEF IdsOf
  <2> QED BY <1>3, <1>4, <2>2, <2>3
<1>7. ASSUME NEW n \in DOMAIN rawB, y = OfB(n)
      PROVE  IdsOf(y) \cap IdsOf(OfPair(i, j)) = {}
  <2>1. y.d = PerformDiff({}, Nil, rawB[n])
    BY <1>1, <1>7 DEF OfB, YamlDiffOf
  <2>2. rawB[n] = Nil
    BY <1>1, <2>1, NilIsAlone, SameIsEqual
  <2>3. IdsOf(y) = {<<"B", n>>, <<"empty", <<"B", n>>>>}
    <3>1. y.idB = <<"B", n>> /\ y.idA = <<"empty", <<"B", n>>>>
      BY <1>7, ComparisonIds
    <3> QED BY <3>1 DEF IdsOf
  <2> QED BY <1>3, <1>4, <2>2, <2>3
<1> QED BY <1>5, <1>6, <1>7, ComparisonShapes

\* A turn of the loop looks at the diff of twins or at one that shares no id with it.
LEMMA TurnAwaits ==
    ASSUME Called, Compared, Distinct, NEW i \in DOMAIN rawA, NEW j \in DOMAIN rawB, Twins(i, j),
           Awaited(i, j), NEW y \in Foremost,
           diffs' = diffs \ {y},
           picked' = IF IdsOf(y) \cap CheckedBy(picked) = {} THEN picked \cup {y} ELSE picked
    PROVE  \/ OfPair(i, j) \in picked'
           \/ OfPair(i, j) \in diffs' /\ IdsOf(OfPair(i, j)) \cap CheckedBy(picked') = {}
<1>1. CASE OfPair(i, j) \in picked
  BY <1>1
<1>2. CASE /\ OfPair(i, j) \in diffs
           /\ IdsOf(OfPair(i, j)) \cap CheckedBy(picked) = {}
  <2>1. OfPair(i, j).d.status = "Same"
    BY SamePairs DEF Distinct, Twins
  <2>2. y \in diffs /\ y.d.status = "Same"
    BY <1>2, <2>1 DEF Foremost
  <2>3. CASE y = OfPair(i, j)
    BY <1>2, <2>3
  <2>4. CASE y # OfPair(i, j)
    <3>1. IdsOf(y) \cap IdsOf(OfPair(i, j)) = {}
      BY <2>2, <2>4, SameIsDisjoint DEF Compared
    <3>2. CheckedBy(picked') \subseteq CheckedBy(picked) \cup IdsOf(y)
      BY DEF CheckedBy
    <3> QED BY <1>2, <2>4, <3>1, <3>2
  <2> QED BY <2>3, <2>4
<1> QED BY <1>1, <1>2 DEF Awaited

\* In the beginning the diff of every pair is still to come.
LEMMA PairedByAll ==
    ASSUME NEW i \in DOMAIN rawA, NEW j \in DOMAIN rawB
    PROVE  OfPair(i, j) \in AllPairs
BY DEF OfPair, AllPairs

\* Twins stay together.
LEMMA PairedNext ==
    ASSUME Once, Paired, phase = "loaded" => picked = {}, [DiffNext]_diffVars
    PROVE  Paired'
<1>0. rawA' = rawA /\ rawB' = rawB /\ option' = option /\ IdsA' = IdsA /\ IdsB' = IdsB
  BY CallStays
<1>1. /\ Distinct' = Distinct
      /\ \A i, j : Twins(i, j)' = Twins(i, j)
      /\ \A i, j : OfPair(i, j)' = OfPair(i, j)
  BY <1>0 DEF Distinct, RegularInput, Documents, NoneTwice, Twins, OfPair, YamlDiffOf
<1> SUFFICES ASSUME Distinct, NEW i \in DOMAIN rawA, NEW j \in DOMAIN rawB, Twins(i, j)
             PROVE  /\ phase' = "find" => Awaited(i, j)'
                    /\ phase' \in {"sort", "print"} => OfPair(i, j) \in picked'
  BY <1>0, <1>1 DEF Paired
<1>2. /\ phase = "find" => Awaited(i, j)
      /\ phase \in {"sort", "print"} => OfPair(i, j) \in picked
  BY DEF Paired
<1>3. Awaited(i, j)' <=>
        \/ OfPair(i, j) \in picked'
        \/ OfPair(i, j) \in diffs' /\ IdsOf(OfPair(i, j)) \cap CheckedBy(picked') = {}
  BY <1>1 DEF Awaited, CheckedBy, IdsOf
<1>4. CASE PerformAllDiff
  <2>1. /\ phase' = "find" /\ picked' = {} /\ OfPair(i, j) \in diffs'
    BY <1>4, PairedByAll DEF PerformAllDiff
  <2>2. CheckedBy(picked') = {}
    BY <2>1 DEF CheckedBy
  <2> QED BY <1>3, <2>1, <2>2
<1>5. CASE FindMinimumDiffs
  <2>1. PICK y \in Foremost :
          /\ diffs' = diffs \ {y}
          /\ picked' = IF IdsOf(y) \cap CheckedBy(picked) = {} THEN picked \cup {y} ELSE picked
    BY <1>5 DEF FindMinimumDiffs
  <2>2. /\ phase = "find" /\ phase' \in {"find", "sort"}
        /\ phase' = "sort" => diffs' = {}
    BY <1>5 DEF FindMinimumDiffs
  <2>3. \/ OfPair(i, j) \in picked'
        \/ OfPair(i, j) \in diffs' /\ IdsOf(OfPair(i, j)) \cap CheckedBy(picked') = {}
    BY <1>2, <2>1, <2>2, TurnAwaits DEF Once
  <2> QED BY <1>3, <2>2, <2>3
<1>6. CASE SortResult
  BY <1>2, <1>6 DEF SortResult
<1>7. CASE UNCHANGED diffVars
  <2>1. phase' = phase /\ diffs' = diffs /\ picked' = picked
    BY <1>7 DEF diffVars
  <2> QED BY <1>2, <1>3, <2>1 DEF Awaited
<1> QED BY <1>4, <1>5, <1>6, <1>7 DEF DiffNext

\* The diff of twins is kept, and all that is kept and has their ids is printed.
LEMMA PairedSuffices ==
    ASSUME Once, Paired
    PROVE  EqualDocumentsPaired
<1> SUFFICES ASSUME phase \in {"print", "done"}, Distinct, NEW i \in DOMAIN rawA,
                    NEW j \in DOMAIN rawB, Twins(i, j)
             PROVE  \E n \in DOMAIN shown : IdsOf(shown[n]) = {IdsA[i], IdsB[j]}
  BY DEF EqualDocumentsPaired, Distinct, Twins
<1>1. phase = "print"
  BY DEF Once, Called
<1>2. OfPair(i, j) \in picked
  BY <1>1 DEF Paired
<1>3. IdsOf(OfPair(i, j)) = {IdsA[i], IdsB[j]} /\ IdsA[i] \in Ids
  BY ComparisonIds, IdsAre DEF Once, IdsOf
<1>4. Complete(shown)
  BY <1>1 DEF Once, Printed
<1>5. PICK n \in DOMAIN shown : IdsA[i] \in IdsOf(shown[n])
  BY <1>3, <1>4 DEF Complete
<1>6. shown[n] \in picked
  BY <1>4, <1>5 DEF Complete
<1>7. shown[n] = OfPair(i, j)
  BY <1>2, <1>3, <1>5, <1>6 DEF Once, Apart
<1> QED BY <1>3, <1>5, <1>7

\* A document that both lists have is printed as unchanged, against its equal.
THEOREM DiffEqualDocumentsPaired == DiffSpec => []EqualDocumentsPaired
<1> DEFINE Fresh == phase = "loaded" => picked = {}
           Inv == Once /\ Paired /\ Fresh
<1>1. DiffInit => Inv
  BY OnceInit DEF DiffInit, Paired
<1>2. Inv /\ [DiffNext]_diffVars => Inv'
  <2> SUFFICES ASSUME Inv, [DiffNext]_diffVars PROVE Inv'
    OBVIOUS
  <2>1. Once' /\ Paired'
    BY OnceNext, PairedNext
  <2>2. Fresh'
    BY DEF DiffNext, diffVars, PerformAllDiff, FindMinimumDiffs, SortResult
  <2> QED BY <2>1, <2>2
<1>3. Inv => EqualDocumentsPaired
  BY PairedSuffices
<1> QED BY <1>1, <1>2, <1>3, PTL DEF DiffSpec

-----------------------------------------------------------------------------
(* Values of the validator *)

\* A value of the validator by its kind; what it is made of is less deep.
LEMMA ValueShapes ==
    ASSUME NEW v \in YamlValues
    PROVE  /\ Height[v] \in Nat
           /\ IsMap(v) =>
                /\ v = Map(v.fields) /\ v.fields = [k \in DOMAIN v.fields |-> v.fields[k]]
                /\ \A k \in DOMAIN v.fields : /\ v.fields[k] \in YamlValues
                                              /\ Height[v.fields[k]] \in Nat
                                              /\ Height[v.fields[k]] < Height[v]
           /\ IsList(v) =>
                /\ v = List(v.items) /\ v.items = [i \in 1 .. Len(v.items) |-> v.items[i]]
                /\ Len(v.items) \in Nat /\ DOMAIN v.items = 1 .. Len(v.items)
                /\ \A i \in DOMAIN v.items : /\ v.items[i] \in YamlValues
                                             /\ Height[v.items[i]] \in Nat
                                             /\ Height[v.items[i]] < Height[v]
           /\ IsMap(v) => ~IsList(v) /\ v # Blank /\ v # Null
<1>1. Height \in [YamlValues -> Nat]
  BY ValidatorAssumption
<1>2. ASSUME IsMap(v)
      PROVE  /\ v = Map(v.fields) /\ v.fields \in [DOMAIN v.fields -> YamlValues]
             /\ \A k \in DOMAIN v.fields : Height[v.fields[k]] < Height[v]
  BY <1>2, ValidatorAssumption
<1>3. ASSUME IsList(v)
      PROVE  /\ v = List(v.items) /\ v.items \in Seq(YamlValues)
             /\ \A i \in DOMAIN v.items : Height[v.items[i]] < Height[v]
  BY <1>3, ValidatorAssumption
<1>4. IsMap(v) => ~IsList(v) /\ v # Blank /\ v # Null
  BY DEF IsMap, IsList, Blank, Null
<1>5. IsList(v) => /\ v.items = [i \in 1 .. Len(v.items) |-> v.items[i]]
                   /\ Len(v.items) \in Nat /\ DOMAIN v.items = 1 .. Len(v.items)
                   /\ \A i \in DOMAIN v.items : v.items[i] \in YamlValues
  BY <1>3
<1> QED BY <1>1, <1>2, <1>3, <1>4, <1>5

\* Depths are natural numbers.
LEMMA HeightFacts ==
    \A v \in YamlValues : Height[v] \in Nat /\ ~(Height[v] < 0) /\ Height[v] < Height[v] + 1
<1>1. Height \in [YamlValues -> Nat]
  BY ValidatorAssumption
<1> QED BY <1>1

\* Values up to a depth.
Low(n) == {v \in YamlValues : Height[v] <= n}

\* Values by depth: what is in a value is a level below it.
LEMMA LowFacts ==
    /\ Highest \in Nat /\ Low(Highest) = YamlValues
    /\ \A v \in Low(0), w \in YamlValues : ~(Height[w] < Height[v])
    /\ \A n \in Nat : Low(n) \subseteq Low(n + 1)
    /\ \A n \in Nat : \A v \in Low(n + 1), w \in YamlValues : Height[w] < Height[v] => w \in Low(n)
<1>1. Highest \in Nat /\ Low(Highest) = YamlValues
  BY ValidatorAssumption DEF Low
<1>2. \A v \in YamlValues : Height[v] \in Nat
  BY ValueShapes
<1> QED BY <1>1, <1>2 DEF Low
-----------------------------------------------------------------------------
(* Filtering *)

\* It depends on what is in a value only.
LEMMA FilterByParts ==
    ASSUME NEW v \in YamlValues, NEW f, NEW g,
           \A w \in YamlValues : Height[w] < Height[v] => f[w] = g[w]
    PROVE  FilterFrom(f, v) = FilterFrom(g, v)
<1>1. CASE IsMap(v)
  <2>1. \A k \in DOMAIN v.fields : f[v.fields[k]] = g[v.fields[k]]
    BY <1>1, ValueShapes
  <2> DEFINE kept(h) == {k \in DOMAIN v.fields : h[v.fields[k]] # Blank /\ ~IsEmptyMap(h[v.fields[k]])}
  <2>2. kept(f) = kept(g)
    BY <2>1
  <2>3. [k \in kept(f) |-> f[v.fields[k]]] = [k \in kept(g) |-> g[v.fields[k]]]
    BY <2>1, <2>2
  <2>4. \A h : FilterFrom(h, v) = Map([k \in kept(h) |-> h[v.fields[k]]])
    BY <1>1 DEF FilterFrom
  <2> HIDE DEF kept
  <2> QED BY <2>3, <2>4
<1>2. CASE ~IsMap(v)
  BY <1>2 DEF FilterFrom
<1> QED BY <1>1, <1>2

FilterUpTo(f, n) == f = [v \in Low(n) |-> FilterFrom(f, v)]

\* There is a function that filters values up to every depth.
LEMMA FilterExists ==
    \A n \in Nat : \E f : FilterUpTo(f, n)
<1> DEFINE S == {n \in Nat : \E f : FilterUpTo(f, n)}
<1>1. 0 \in S
  <2> DEFINE f == [v \in Low(0) |-> FilterFrom(<<>>, v)]
  <2>1. ASSUME NEW v \in Low(0), NEW g PROVE FilterFrom(<<>>, v) = FilterFrom(g, v)
    <3>1. v \in YamlValues /\ \A w \in YamlValues : ~(Height[w] < Height[v])
      BY LowFacts DEF Low
    <3> QED BY <3>1, FilterByParts
  <2>2. f = [v \in Low(0) |-> FilterFrom(f, v)]
    BY <2>1
  <2> QED BY <2>2 DEF FilterUpTo
<1>2. ASSUME NEW n \in Nat, n \in S PROVE n + 1 \in S
  <2>1. PICK f : FilterUpTo(f, n)
    BY <1>2
  <2> DEFINE h == [v \in Low(n + 1) |-> FilterFrom(f, v)]
  <2>2. \A v \in Low(n) : h[v] = f[v]
    <3>1. TAKE v \in Low(n)
    <3>2. f[v] = FilterFrom(f, v)
      BY <2>1, Zenon DEF FilterUpTo
    <3>3. v \in Low(n + 1)
      BY LowFacts
    <3> QED BY <3>2, <3>3
  <2> HIDE DEF h
  <2>3. ASSUME NEW v \in Low(n + 1) PROVE FilterFrom(f, v) = FilterFrom(h, v)
    <3>1. v \in YamlValues /\ \A w \in YamlValues : Height[w] < Height[v] => f[w] = h[w]
      BY <2>2, LowFacts DEF Low
    <3> QED BY <3>1, FilterByParts
  <2>4. h = [v \in Low(n + 1) |-> FilterFrom(h, v)]
    BY <2>3 DEF h
  <2> QED BY <2>4 DEF FilterUpTo
<1> HIDE DEF S
<1>3. \A n \in Nat : n \in S
  BY <1>1, <1>2, SetInduction
<1> QED BY <1>3 DEF S

\* The fields of a map that are kept.
Kept(v) == {k \in DOMAIN v.fields : /\ FilterEmptyFields(v.fields[k]) # Blank
                                    /\ ~IsEmptyMap(FilterEmptyFields(v.fields[k]))}

\* What filterEmptyFields leaves of a value.
LEMMA FilterFacts ==
    ASSUME NEW v \in YamlValues
    PROVE  /\ FilterEmptyFields(v) \in YamlValues
           /\ ~IsMap(v) => FilterEmptyFields(v) = v
           /\ IsMap(v) =>
                /\ IsMap(FilterEmptyFields(v))
                /\ FilterEmptyFields(v) = Map([k \in Kept(v) |-> FilterEmptyFields(v.fields[k])])
                /\ FilterEmptyFields(v).fields = [k \in Kept(v) |-> FilterEmptyFields(v.fields[k])]
<1>1. Low(Highest) = YamlValues /\ \E f : FilterUpTo(f, Highest)
  BY LowFacts, FilterExists
<1> DEFINE filter == CHOOSE f : FilterUpTo(f, Highest)
<1>2. \A w : FilterEmptyFields(w) = filter[w]
  BY <1>1 DEF FilterEmptyFields, FilterUpTo
<1>3. FilterUpTo(filter, Highest)
  BY <1>1
<1> HIDE DEF filter
<1>4. filter[v] = FilterFrom(filter, v)
  BY <1>1, <1>3, Zenon DEF FilterUpTo
<1>5. FilterEmptyFields(v) \in YamlValues
  BY ValidatorAssumption
<1>6. CASE ~IsMap(v)
  BY <1>2, <1>4, <1>5, <1>6 DEF FilterFrom
<1>7. CASE IsMap(v)
  <2> DEFINE kept == {k \in DOMAIN v.fields :
                         filter[v.fields[k]] # Blank /\ ~IsEmptyMap(filter[v.fields[k]])}
  <2>1. FilterFrom(filter, v) = Map([k \in kept |-> filter[v.fields[k]]])
    BY <1>7 DEF FilterFrom
  <2>2. kept = Kept(v)
    BY <1>2 DEF Kept
  <2> HIDE DEF kept
  <2>3. FilterEmptyFields(v) = Map([k \in Kept(v) |-> FilterEmptyFields(v.fields[k])])
    BY <1>2, <1>4, <2>1, <2>2
  <2>4. \A fields : IsMap(Map(fields)) /\ Map(fields).fields = fields
    BY DEF Map, IsMap
  <2> QED BY <1>5, <1>7, <2>3, <2>4
<1> QED BY <1>6, <1>7

-----------------------------------------------------------------------------
(* Vanishing *)

\* The recursion of Vanishes.
VanishesFrom(f, v) == v = Blank \/ (IsMap(v) /\ \A k \in DOMAIN v.fields : f[v.fields[k]])

\* It depends on what is in a value only.
LEMMA VanishesByParts ==
    ASSUME NEW v \in YamlValues, NEW f, NEW g,
           \A w \in YamlValues : Height[w] < Height[v] => f[w] = g[w]
    PROVE  VanishesFrom(f, v) = VanishesFrom(g, v)
<1>1. CASE IsMap(v)
  <2>1. \A k \in DOMAIN v.fields : f[v.fields[k]] = g[v.fields[k]]
    BY <1>1, ValueShapes
  <2>2. (\A k \in DOMAIN v.fields : f[v.fields[k]]) = (\A k \in DOMAIN v.fields : g[v.fields[k]])
    BY <2>1
  <2> QED BY <2>2 DEF VanishesFrom
<1>2. CASE ~IsMap(v)
  BY <1>2 DEF VanishesFrom
<1> QED BY <1>1, <1>2

VanishesUpTo(f, n) == f = [v \in Low(n) |-> VanishesFrom(f, v)]

\* There is a function that satisfies it, for values up to every depth.
LEMMA VanishesExists ==
    \A n \in Nat : \E f : VanishesUpTo(f, n)
<1> DEFINE S == {n \in Nat : \E f : VanishesUpTo(f, n)}
<1>1. 0 \in S
  <2> DEFINE f == [v \in Low(0) |-> VanishesFrom(<<>>, v)]
  <2>1. ASSUME NEW v \in Low(0), NEW g PROVE VanishesFrom(<<>>, v) = VanishesFrom(g, v)
    <3>1. v \in YamlValues /\ \A w \in YamlValues : ~(Height[w] < Height[v])
      BY LowFacts DEF Low
    <3> QED BY <3>1, VanishesByParts
  <2>2. f = [v \in Low(0) |-> VanishesFrom(f, v)]
    BY <2>1
  <2> QED BY <2>2 DEF VanishesUpTo
<1>2. ASSUME NEW n \in Nat, n \in S PROVE n + 1 \in S
  <2>1. PICK f : VanishesUpTo(f, n)
    BY <1>2
  <2> DEFINE h == [v \in Low(n + 1) |-> VanishesFrom(f, v)]
  <2>2. \A v \in Low(n) : h[v] = f[v]
    <3>1. TAKE v \in Low(n)
    <3>2. f[v] = VanishesFrom(f, v)
      BY <2>1, Zenon DEF VanishesUpTo
    <3>3. v \in Low(n + 1)
      BY LowFacts
    <3> QED BY <3>2, <3>3
  <2> HIDE DEF h
  <2>3. ASSUME NEW v \in Low(n + 1) PROVE VanishesFrom(f, v) = VanishesFrom(h, v)
    <3>1. v \in YamlValues /\ \A w \in YamlValues : Height[w] < Height[v] => f[w] = h[w]
      BY <2>2, LowFacts DEF Low
    <3> QED BY <3>1, VanishesByParts
  <2>4. h = [v \in Low(n + 1) |-> VanishesFrom(h, v)]
    BY <2>3 DEF h
  <2> QED BY <2>4 DEF VanishesUpTo
<1> HIDE DEF S
<1>3. \A n \in Nat : n \in S
  BY <1>1, <1>2, SetInduction
<1> QED BY <1>3 DEF S

\* So the recursion holds of Vanishes.
LEMMA VanishesIs ==
    ASSUME NEW v \in YamlValues
    PROVE  Vanishes[v] = VanishesFrom(Vanishes, v)
<1>1. Low(Highest) = YamlValues /\ \E f : VanishesUpTo(f, Highest)
  BY LowFacts, VanishesExists
<1>2. Vanishes = CHOOSE f : VanishesUpTo(f, Highest)
  BY <1>1 DEF Vanishes, VanishesUpTo, VanishesFrom
<1>3. VanishesUpTo(Vanishes, Highest)
  BY <1>1, <1>2
<1> QED BY <1>1, <1>3, Zenon DEF VanishesUpTo

\* What vanishes is what filtering takes out.
LEMMA VanishingIsFiltered ==
    ASSUME NEW v \in YamlValues
    PROVE  Vanishes[v] <=> FilterEmptyFields(v) = Blank \/ IsEmptyMap(FilterEmptyFields(v))
<1> DEFINE Good(w) == Vanishes[w] <=> FilterEmptyFields(w) = Blank \/ IsEmptyMap(FilterEmptyFields(w))
           S == {n \in Nat : \A w \in YamlValues : Height[w] < n => Good(w)}
<1> HIDE DEF Good
<1>1. 0 \in S
  BY HeightFacts
<1>2. ASSUME NEW n \in Nat, n \in S PROVE n + 1 \in S
  <2> SUFFICES ASSUME NEW w \in YamlValues, Height[w] < n + 1 PROVE Good(w)
    OBVIOUS
  <2>1. Vanishes[w] <=> VanishesFrom(Vanishes, w)
    BY VanishesIs
  <2>2. CASE IsMap(w)
    <3>1. \A k \in DOMAIN w.fields : Good(w.fields[k])
      <4>1. ASSUME NEW k \in DOMAIN w.fields
            PROVE  w.fields[k] \in YamlValues /\ Height[w.fields[k]] < n
        <5>1. w.fields[k] \in YamlValues /\ Height[w.fields[k]] < Height[w]
          BY <2>2, ValueShapes
        <5> QED BY <5>1, HeightFacts
      <4> QED BY <1>2, <4>1
    <3>2. IsMap(FilterEmptyFields(w)) /\ DOMAIN FilterEmptyFields(w).fields = Kept(w)
      BY <2>2, FilterFacts
    <3>3. FilterEmptyFields(w) # Blank
      BY <3>2 DEF IsMap, Blank
    <3>4. Kept(w) = {} <=> \A k \in DOMAIN w.fields : Vanishes[w.fields[k]]
      BY <3>1 DEF Kept, Good
    <3>5. Vanishes[w] <=> \A k \in DOMAIN w.fields : Vanishes[w.fields[k]]
      BY <2>1, <2>2, ValueShapes DEF VanishesFrom
    <3> QED BY <3>2, <3>3, <3>4, <3>5 DEF IsEmptyMap, Good
  <2>3. CASE ~IsMap(w)
    BY <2>1, <2>3, FilterFacts DEF VanishesFrom, IsEmptyMap, Good
  <2> QED BY <2>2, <2>3
<1> HIDE DEF S
<1>3. \A n \in Nat : n \in S
  BY <1>1, <1>2, SetInduction
<1>4. Good(v)
  BY <1>3, HeightFacts DEF S
<1> QED BY <1>4 DEF Good

-----------------------------------------------------------------------------
(* Cleaning *)

\* It depends on what is in a map only.
LEMMA CleanByParts ==
    ASSUME NEW v \in YamlMaps, NEW ref, NEW f, NEW g,
           \A w \in YamlMaps : Height[w] < Height[v] => f[w] = g[w]
    PROVE  CleanFrom(f, v, ref) = CleanFrom(g, v, ref)
<1>1. v \in YamlValues /\ IsMap(v)
  BY DEF YamlMaps
<1>2. ASSUME NEW k \in DOMAIN v.fields, NEW r
      PROVE  CleanValue(f, v.fields[k], r) = CleanValue(g, v.fields[k], r)
  <2> DEFINE x == v.fields[k]
  <2>1. x \in YamlValues /\ Height[x] \in Nat /\ Height[v] \in Nat /\ Height[x] < Height[v]
    BY <1>1, ValueShapes
  <2> HIDE DEF x
  <2>2. CASE IsMap(x) /\ IsMap(r)
    <3>1. f[x] = g[x]
      BY <2>1, <2>2 DEF YamlMaps
    <3> QED BY <2>2, <3>1 DEF CleanValue, x
  <2>3. CASE IsList(x) /\ IsList(r)
    <3>1. ~IsMap(x)
      BY <2>3 DEF IsList, IsMap
    <3>2. \A i \in DOMAIN x.items : IsMap(x.items[i]) => f[x.items[i]] = g[x.items[i]]
      <4>1. TAKE i \in DOMAIN x.items
      <4>2. x.items[i] \in YamlValues /\ Height[x.items[i]] \in Nat /\ Height[x.items[i]] < Height[x]
        BY <2>1, <2>3, <4>1, ValueShapes
      <4> QED BY <2>1, <4>2 DEF YamlMaps
    <3> DEFINE items(h) == [i \in DOMAIN x.items |->
                               IF i \in DOMAIN r.items /\ IsMap(x.items[i]) /\ IsMap(r.items[i])
                               THEN h[x.items[i]][r.items[i]] ELSE x.items[i]]
    <3>3. items(f) = items(g)
      BY <3>2
    <3>4. \A h : CleanValue(h, x, r) = List(items(h))
      BY <2>3, <3>1 DEF CleanValue
    <3> HIDE DEF items
    <3> QED BY <3>3, <3>4 DEF x
  <2>4. CASE ~(IsMap(x) /\ IsMap(r)) /\ ~(IsList(x) /\ IsList(r))
    BY <2>4 DEF CleanValue, x
  <2> QED BY <2>2, <2>3, <2>4
<1> DEFINE kept(h) == {k \in DOMAIN v.fields \cap DOMAIN ref.fields :
                          ~Gone(h, v.fields[k], ref.fields[k])}
<1>3. kept(f) = kept(g)
  BY <1>2 DEF Gone
<1>4. [k \in kept(f) |-> CleanValue(f, v.fields[k], ref.fields[k])]
        = [k \in kept(g) |-> CleanValue(g, v.fields[k], ref.fields[k])]
  BY <1>2, <1>3
<1>5. \A h : CleanFrom(h, v, ref) =
               Map([k \in kept(h) |-> CleanValue(h, v.fields[k], ref.fields[k])])
  BY DEF CleanFrom
<1> HIDE DEF kept
<1> QED BY <1>4, <1>5

\* The recursion for maps up to a depth.
CleanUpTo(f, n) ==
    f = [v \in Low(n) \cap YamlMaps |-> [ref \in YamlMaps |-> CleanFrom(f, v, ref)]]

\* There is a function that satisfies it, for maps up to every depth.
LEMMA CleanExists ==
    \A n \in Nat : \E f : CleanUpTo(f, n)
<1> DEFINE S == {n \in Nat : \E f : CleanUpTo(f, n)}
           Row(f, v) == [ref \in YamlMaps |-> CleanFrom(f, v, ref)]
<1>0. ASSUME NEW v \in YamlMaps, NEW f, NEW g,
             \A w \in YamlMaps : Height[w] < Height[v] => f[w] = g[w]
      PROVE  Row(f, v) = Row(g, v)
  <2>1. \A ref : CleanFrom(f, v, ref) = CleanFrom(g, v, ref)
    BY <1>0, CleanByParts
  <2> QED BY <2>1
<1>1. 0 \in S
  <2> DEFINE f == [v \in Low(0) \cap YamlMaps |-> Row(<<>>, v)]
  <2> HIDE DEF Row
  <2>1. ASSUME NEW v \in Low(0) \cap YamlMaps, NEW g PROVE Row(<<>>, v) = Row(g, v)
    <3>1. v \in YamlMaps /\ \A w \in YamlMaps : ~(Height[w] < Height[v])
      BY LowFacts DEF Low, YamlMaps
    <3> QED BY <3>1, <1>0
  <2>2. f = [v \in Low(0) \cap YamlMaps |-> Row(f, v)]
    BY <2>1
  <2> HIDE DEF f
  <2>3. CleanUpTo(f, 0)
    BY <2>2 DEF CleanUpTo, Row
  <2> QED BY <2>3
<1>2. ASSUME NEW n \in Nat, n \in S PROVE n + 1 \in S
  <2>1. PICK f : CleanUpTo(f, n)
    BY <1>2
  <2>2. f = [v \in Low(n) \cap YamlMaps |-> Row(f, v)]
    BY <2>1 DEF CleanUpTo
  <2> HIDE DEF Row
  <2> DEFINE h == [v \in Low(n + 1) \cap YamlMaps |-> Row(f, v)]
  <2>3. \A v \in Low(n) \cap YamlMaps : h[v] = f[v]
    <3>1. TAKE v \in Low(n) \cap YamlMaps
    <3>2. f[v] = Row(f, v)
      BY <2>2, Zenon
    <3>3. v \in Low(n + 1) \cap YamlMaps
      BY LowFacts
    <3> QED BY <3>2, <3>3
  <2> HIDE DEF h
  <2>4. ASSUME NEW v \in Low(n + 1) \cap YamlMaps PROVE Row(f, v) = Row(h, v)
    <3>1. v \in YamlMaps /\ \A w \in YamlMaps : Height[w] < Height[v] => f[w] = h[w]
      BY <2>3, LowFacts DEF Low, YamlMaps
    <3> QED BY <3>1, <1>0
  <2>5. h = [v \in Low(n + 1) \cap YamlMaps |-> Row(h, v)]
    BY <2>4 DEF h
  <2>6. CleanUpTo(h, n + 1)
    BY <2>5 DEF CleanUpTo, Row
  <2> QED BY <2>6
<1> HIDE DEF S
<1>3. \A n \in Nat : n \in S
  BY <1>1, <1>2, SetInduction
<1> QED BY <1>3 DEF S

\* CleanMapBasedOnAnother is CleanFrom what it makes of the maps below.
LEMMA CleanIs ==
    \E clean : /\ \A v, ref : clean[v][ref] = CleanMapBasedOnAnother(v, ref)
               /\ \A v, ref \in YamlMaps : clean[v][ref] = CleanFrom(clean, v, ref)
<1>1. Low(Highest) \cap YamlMaps = YamlMaps /\ \E f : CleanUpTo(f, Highest)
  BY LowFacts, CleanExists DEF YamlMaps
<1> DEFINE clean == CHOOSE f : CleanUpTo(f, Highest)
<1>2. \A v, ref : CleanMapBasedOnAnother(v, ref) = clean[v][ref]
  BY <1>1 DEF CleanMapBasedOnAnother, CleanUpTo
<1>3. CleanUpTo(clean, Highest)
  BY <1>1
<1> HIDE DEF clean
<1>4. ASSUME NEW v \in YamlMaps, NEW ref \in YamlMaps
      PROVE  clean[v][ref] = CleanFrom(clean, v, ref)
  BY <1>1, <1>3 DEF CleanUpTo
<1> QED BY <1>2, <1>4

-----------------------------------------------------------------------------
(* Having *)

\* Has depends on what is in the value that exists only.
LEMMA HasByParts ==
    ASSUME NEW v \in YamlValues, NEW want \in YamlValues, NEW inList, NEW f, NEW g,
           \A w \in YamlValues : Height[w] < Height[v] => f[w] = g[w]
    PROVE  HasFrom(f, v, want, inList) = HasFrom(g, v, want, inList)
<1>1. CASE IsMap(want) /\ IsMap(v)
  <2>1. \A k \in DOMAIN v.fields : f[v.fields[k]] = g[v.fields[k]]
    BY <1>1, ValueShapes
  <2> DEFINE fits(h) == \A k \in DOMAIN want.fields :
                            \/ ~inList /\ Vanishes[want.fields[k]]
                            \/ k \in DOMAIN v.fields /\ h[v.fields[k]][want.fields[k]][inList]
  <2>2. fits(f) = fits(g)
    BY <2>1
  <2>3. \A h : HasFrom(h, v, want, inList) = fits(h)
    <3>1. ~IsList(v)
      BY <1>1 DEF IsList, IsMap
    <3> QED BY <1>1, <3>1 DEF HasFrom
  <2> QED BY <2>2, <2>3
<1>2. CASE IsList(want) /\ IsList(v)
  <2>1. ~IsMap(v)
    BY <1>2 DEF IsList, IsMap
  <2>2. \A i \in DOMAIN v.items : f[v.items[i]] = g[v.items[i]]
    BY <1>2, ValueShapes
  <2> DEFINE fits(h) == \A i \in DOMAIN want.items :
                            IF IsMap(want.items[i]) THEN h[v.items[i]][want.items[i]][TRUE]
                            ELSE v.items[i] = want.items[i]
  <2>3. \A h : HasFrom(h, v, want, inList) = (Len(want.items) = Len(v.items) /\ fits(h))
    BY <1>2, <2>1 DEF HasFrom
  <2>4. Len(want.items) = Len(v.items) => fits(f) = fits(g)
    <3>1. Len(want.items) = Len(v.items) => DOMAIN want.items = DOMAIN v.items
      BY <1>2, ValueShapes
    <3> QED BY <2>2, <3>1
  <2> QED BY <2>3, <2>4
<1>3. CASE ~(IsMap(want) /\ IsMap(v)) /\ ~(IsList(want) /\ IsList(v))
  BY <1>3 DEF HasFrom
<1> QED BY <1>1, <1>2, <1>3

HasUpTo(f, n) ==
    f = [v \in Low(n) |-> [want \in YamlValues |-> [inList \in BOOLEAN |->
            HasFrom(f, v, want, inList)]]]

\* There is a function that satisfies it, for values up to every depth.
LEMMA HasExists ==
    \A n \in Nat : \E f : HasUpTo(f, n)
<1> DEFINE S == {n \in Nat : \E f : HasUpTo(f, n)}
           Row(f, v) == [want \in YamlValues |-> [inList \in BOOLEAN |-> HasFrom(f, v, want, inList)]]
<1>0. ASSUME NEW v \in YamlValues, NEW f, NEW g,
             \A w \in YamlValues : Height[w] < Height[v] => f[w] = g[w]
      PROVE  Row(f, v) = Row(g, v)
  <2>1. \A want \in YamlValues : \A inList :
          HasFrom(f, v, want, inList) = HasFrom(g, v, want, inList)
    BY <1>0, HasByParts
  <2> QED BY <2>1
<1>1. 0 \in S
  <2> DEFINE f == [v \in Low(0) |-> Row(<<>>, v)]
  <2> HIDE DEF Row
  <2>1. ASSUME NEW v \in Low(0), NEW g PROVE Row(<<>>, v) = Row(g, v)
    <3>1. v \in YamlValues /\ \A w \in YamlValues : ~(Height[w] < Height[v])
      BY LowFacts DEF Low
    <3> QED BY <3>1, <1>0
  <2>2. f = [v \in Low(0) |-> Row(f, v)]
    BY <2>1
  <2> HIDE DEF f
  <2>3. HasUpTo(f, 0)
    BY <2>2 DEF HasUpTo, Row
  <2> QED BY <2>3
<1>2. ASSUME NEW n \in Nat, n \in S PROVE n + 1 \in S
  <2>1. PICK f : HasUpTo(f, n)
    BY <1>2
  <2>2. f = [v \in Low(n) |-> Row(f, v)]
    BY <2>1 DEF HasUpTo
  <2> HIDE DEF Row
  <2> DEFINE h == [v \in Low(n + 1) |-> Row(f, v)]
  <2>3. \A v \in Low(n) : h[v] = f[v]
    <3>1. TAKE v \in Low(n)
    <3>2. f[v] = Row(f, v)
      BY <2>2, Zenon
    <3>3. v \in Low(n + 1)
      BY LowFacts
    <3> QED BY <3>2, <3>3
  <2> HIDE DEF h
  <2>4. ASSUME NEW v \in Low(n + 1) PROVE Row(f, v) = Row(h, v)
    <3>1. v \in YamlValues /\ \A w \in YamlValues : Height[w] < Height[v] => f[w] = h[w]
      BY <2>3, LowFacts DEF Low
    <3> QED BY <3>1, <1>0
  <2>5. h = [v \in Low(n + 1) |-> Row(h, v)]
    BY <2>4 DEF h
  <2>6. HasUpTo(h, n + 1)
    BY <2>5 DEF HasUpTo, Row
  <2> QED BY <2>6
<1> HIDE DEF S
<1>3. \A n \in Nat : n \in S
  BY <1>1, <1>2, SetInduction
<1> QED BY <1>3 DEF S

\* So the recursion holds of Has.
LEMMA HasIs ==
    ASSUME NEW have \in YamlValues, NEW want \in YamlValues, NEW inList \in BOOLEAN
    PROVE  Has[have][want][inList] = HasFrom(Has, have, want, inList)
<1>1. Low(Highest) = YamlValues /\ \E f : HasUpTo(f, Highest)
  BY LowFacts, HasExists
<1>2. Has = CHOOSE f : HasUpTo(f, Highest)
  BY <1>1, Zenon DEF Has, HasUpTo
<1>3. HasUpTo(Has, Highest)
  BY <1>1, <1>2
<1>4. Has[have] = [w \in YamlValues |-> [l \in BOOLEAN |-> HasFrom(Has, have, w, l)]]
  BY <1>1, <1>3, Zenon DEF HasUpTo
<1> QED BY <1>4

\* What Has says by the kinds of the two values.
LEMMA HasFacts ==
    ASSUME NEW have \in YamlValues, NEW want \in YamlValues, NEW inList \in BOOLEAN
    PROVE  /\ IsMap(want) /\ IsMap(have) =>
                (Has[have][want][inList] <=>
                    \A k \in DOMAIN want.fields :
                        \/ ~inList /\ Vanishes[want.fields[k]]
                        \/ k \in DOMAIN have.fields /\ Has[have.fields[k]][want.fields[k]][inList])
           /\ IsList(want) /\ IsList(have) =>
                (Has[have][want][inList] <=>
                    /\ Len(want.items) = Len(have.items)
                    /\ \A i \in DOMAIN want.items :
                           IF IsMap(want.items[i]) THEN Has[have.items[i]][want.items[i]][TRUE]
                           ELSE have.items[i] = want.items[i])
           /\ ~(IsMap(want) /\ IsMap(have)) /\ ~(IsList(want) /\ IsList(have)) =>
                (Has[have][want][inList] <=> have = want)
<1>1. Has[have][want][inList] <=> HasFrom(Has, have, want, inList)
  BY HasIs
<1>2. CASE IsMap(want) /\ IsMap(have)
  <2>1. ~(IsList(want) /\ IsList(have))
    BY <1>2, ValueShapes
  <2> QED BY <1>1, <1>2, <2>1 DEF HasFrom
<1>3. CASE IsList(want) /\ IsList(have)
  <2>1. ~(IsMap(want) /\ IsMap(have))
    BY <1>3, ValueShapes
  <2> QED BY <1>1, <1>3, <2>1 DEF HasFrom
<1>4. CASE ~(IsMap(want) /\ IsMap(have)) /\ ~(IsList(want) /\ IsList(have))
  BY <1>1, <1>4 DEF HasFrom
<1> QED BY <1>2, <1>3, <1>4

-----------------------------------------------------------------------------
(* The verdict *)

Clean(v, ref) == CleanMapBasedOnAnother(v, ref)

\* A function that cleans maps as the code does.
Cleans(clean) ==
    /\ \A v, ref : clean[v][ref] = Clean(v, ref)
    /\ \A v, ref \in YamlMaps : clean[v][ref] = CleanFrom(clean, v, ref)

\* When cleaning a value makes it what is desired, by the kinds of the two.
LEMMA CleanValueFacts ==
    ASSUME NEW clean, Cleans(clean), NEW x \in YamlValues, NEW y \in YamlValues
    PROVE  /\ IsMap(x) /\ IsMap(y) => CleanValue(clean, x, y) = Clean(x, y)
           /\ IsList(x) /\ IsList(y) =>
                (CleanValue(clean, x, y) = y <=>
                    /\ Len(y.items) = Len(x.items)
                    /\ \A i \in DOMAIN y.items :
                           IF IsMap(y.items[i]) /\ IsMap(x.items[i])
                           THEN Clean(x.items[i], y.items[i]) = y.items[i]
                           ELSE x.items[i] = y.items[i])
           /\ ~(IsMap(x) /\ IsMap(y)) /\ ~(IsList(x) /\ IsList(y)) => CleanValue(clean, x, y) = x
<1>1. \A v, ref : clean[v][ref] = Clean(v, ref)
  BY DEF Cleans
<1>2. CASE IsMap(x) /\ IsMap(y)
  <2>1. ~IsList(x)
    BY <1>2, ValueShapes
  <2> QED BY <1>1, <1>2, <2>1 DEF CleanValue
<1>3. CASE IsList(x) /\ IsList(y)
  <2>1. ~IsMap(x)
    BY <1>3, ValueShapes
  <2> DEFINE items == [i \in DOMAIN x.items |->
                          IF i \in DOMAIN y.items /\ IsMap(x.items[i]) /\ IsMap(y.items[i])
                          THEN clean[x.items[i]][y.items[i]] ELSE x.items[i]]
  <2>2. CleanValue(clean, x, y) = List(items)
    BY <1>3, <2>1 DEF CleanValue
  <2>3. /\ y = List(y.items) /\ y.items = [i \in 1 .. Len(y.items) |-> y.items[i]]
        /\ DOMAIN y.items = 1 .. Len(y.items) /\ DOMAIN x.items = 1 .. Len(x.items)
        /\ Len(x.items) \in Nat /\ Len(y.items) \in Nat
    BY <1>3, ValueShapes
  <2>4. List(items) = y <=> items = y.items
    <3>1. \A s, t : List(s) = List(t) <=> s = t
      BY DEF List
    <3> HIDE DEF items
    <3> QED BY <2>3, <3>1
  <2>5. 1 .. Len(x.items) = 1 .. Len(y.items) <=> Len(y.items) = Len(x.items)
    BY <2>3
  <2>6. items = y.items <=> /\ DOMAIN x.items = DOMAIN y.items
                            /\ \A i \in DOMAIN y.items : items[i] = y.items[i]
    <3>1. DOMAIN items = DOMAIN x.items
      OBVIOUS
    <3>2. ASSUME DOMAIN x.items = DOMAIN y.items, \A i \in DOMAIN y.items : items[i] = y.items[i]
          PROVE  items = y.items
      <4>1. items = [i \in 1 .. Len(y.items) |-> items[i]]
        BY <2>3, <3>2
      <4> HIDE DEF items
      <4> QED BY <2>3, <3>2, <4>1
    <3> HIDE DEF items
    <3> QED BY <3>1, <3>2
  <2>7. ASSUME DOMAIN x.items = DOMAIN y.items, NEW i \in DOMAIN y.items
        PROVE  items[i] = y.items[i] <=>
                 IF IsMap(y.items[i]) /\ IsMap(x.items[i])
                 THEN Clean(x.items[i], y.items[i]) = y.items[i] ELSE x.items[i] = y.items[i]
    BY <1>1, <2>7
  <2> HIDE DEF items
  <2> QED BY <1>3, <2>1, <2>2, <2>3, <2>4, <2>5, <2>6, <2>7
<1>4. CASE ~(IsMap(x) /\ IsMap(y)) /\ ~(IsList(x) /\ IsList(y))
  BY <1>4 DEF CleanValue
<1> QED BY <1>2, <1>3, <1>4

\* Cleaning a map makes it what is desired when it has all its fields and cleaning
\* makes them what is desired: no field that the comparison needs is deleted.
LEMMA CleanIsReference ==
    ASSUME NEW clean, Cleans(clean), NEW v \in YamlMaps, NEW ref \in YamlMaps
    PROVE  Clean(v, ref) = ref <=>
             \A k \in DOMAIN ref.fields :
                 k \in DOMAIN v.fields
                 /\ CleanValue(clean, v.fields[k], ref.fields[k]) = ref.fields[k]
<1>1. v \in YamlValues /\ IsMap(v) /\ ref \in YamlValues /\ IsMap(ref)
  BY DEF YamlMaps
<1> DEFINE kept == {k \in DOMAIN v.fields \cap DOMAIN ref.fields :
                       ~Gone(clean, v.fields[k], ref.fields[k])}
           fields == [k \in kept |-> CleanValue(clean, v.fields[k], ref.fields[k])]
<1>2. Clean(v, ref) = Map(fields)
  BY DEF Cleans, CleanFrom
<1>3. ref = Map(ref.fields) /\ ref.fields = [k \in DOMAIN ref.fields |-> ref.fields[k]]
  BY <1>1, ValueShapes
<1>4. Map(fields) = ref <=> fields = ref.fields
  <2>1. \A s, t : Map(s) = Map(t) <=> s = t
    BY DEF Map
  <2> HIDE DEF fields
  <2> QED BY <1>3, <2>1
<1>5. fields = ref.fields <=>
        /\ kept = DOMAIN ref.fields
        /\ \A k \in DOMAIN ref.fields :
               CleanValue(clean, v.fields[k], ref.fields[k]) = ref.fields[k]
  <2> DEFINE value(k) == CleanValue(clean, v.fields[k], ref.fields[k])
  <2>1. fields = [k \in kept |-> value(k)]
    OBVIOUS
  <2> HIDE DEF value, kept, fields
  <2>2. fields = ref.fields <=> /\ kept = DOMAIN ref.fields
                                /\ \A k \in DOMAIN ref.fields : value(k) = ref.fields[k]
    BY <1>3, <2>1
  <2> QED BY <2>2 DEF value
<1>6. ASSUME NEW k \in DOMAIN v.fields \cap DOMAIN ref.fields,
             CleanValue(clean, v.fields[k], ref.fields[k]) = ref.fields[k]
      PROVE  ~Gone(clean, v.fields[k], ref.fields[k])
  <2>1. v.fields[k] \in YamlValues /\ ref.fields[k] \in YamlValues
    BY <1>1, ValueShapes
  <2>2. CASE IsMap(v.fields[k]) /\ ~IsMap(ref.fields[k])
    <3>1. ~IsList(v.fields[k])
      BY <2>1, <2>2, ValueShapes
    <3>2. CleanValue(clean, v.fields[k], ref.fields[k]) = v.fields[k]
      BY <2>1, <2>2, <3>1, CleanValueFacts
    <3> QED BY <1>6, <2>2, <3>2
  <2>3. CASE ~IsMap(v.fields[k]) \/ IsMap(ref.fields[k])
    BY <1>6, <2>3 DEF Gone
  <2> QED BY <2>2, <2>3
<1> HIDE DEF fields
<1> QED BY <1>2, <1>4, <1>5, <1>6

\* Any two values that are not both maps, when the maps in two lists are known.
LEMMA ListHas ==
    ASSUME NEW clean, Cleans(clean), NEW x \in YamlValues, NEW y \in YamlValues,
           NEW inList \in BOOLEAN, ~(IsMap(x) /\ IsMap(y)),
           IsList(x) /\ IsList(y) => \A i \in DOMAIN x.items, j \in DOMAIN y.items :
               x.items[i] \in YamlMaps /\ y.items[j] \in YamlMaps =>
                   (Clean(x.items[i], y.items[j]) = y.items[j] <=> Has[x.items[i]][y.items[j]][TRUE])
    PROVE  CleanValue(clean, x, y) = y <=> Has[x][y][inList]
<1>1. CASE IsList(x) /\ IsList(y)
  <2>1. ASSUME Len(y.items) = Len(x.items), NEW i \in DOMAIN y.items
        PROVE  (IF IsMap(y.items[i]) /\ IsMap(x.items[i])
                THEN Clean(x.items[i], y.items[i]) = y.items[i] ELSE x.items[i] = y.items[i])
               <=> (IF IsMap(y.items[i]) THEN Has[x.items[i]][y.items[i]][TRUE]
                    ELSE x.items[i] = y.items[i])
    <3>1. i \in DOMAIN x.items
      BY <1>1, <2>1, ValueShapes
    <3>2. x.items[i] \in YamlValues /\ y.items[i] \in YamlValues
      BY <1>1, <3>1, ValueShapes
    <3>3. CASE IsMap(y.items[i]) /\ IsMap(x.items[i])
      BY <1>1, <3>1, <3>2, <3>3 DEF YamlMaps
    <3>4. CASE IsMap(y.items[i]) /\ ~IsMap(x.items[i])
      <4>1. ~IsList(y.items[i])
        BY <3>2, <3>4, ValueShapes
      <4>2. Has[x.items[i]][y.items[i]][TRUE] <=> x.items[i] = y.items[i]
        BY <3>2, <3>4, <4>1, HasFacts
      <4> QED BY <3>4, <4>2
    <3>5. CASE ~IsMap(y.items[i])
      BY <3>5
    <3> QED BY <3>3, <3>4, <3>5
  <2>2. CleanValue(clean, x, y) = y <=>
          /\ Len(y.items) = Len(x.items)
          /\ \A i \in DOMAIN y.items :
                 IF IsMap(y.items[i]) /\ IsMap(x.items[i])
                 THEN Clean(x.items[i], y.items[i]) = y.items[i] ELSE x.items[i] = y.items[i]
    BY <1>1, CleanValueFacts
  <2>3. Has[x][y][inList] <=>
          /\ Len(y.items) = Len(x.items)
          /\ \A i \in DOMAIN y.items :
                 IF IsMap(y.items[i]) THEN Has[x.items[i]][y.items[i]][TRUE]
                 ELSE x.items[i] = y.items[i]
    BY <1>1, HasFacts
  <2> QED BY <2>1, <2>2, <2>3
<1>2. CASE ~(IsList(x) /\ IsList(y))
  <2>1. CleanValue(clean, x, y) = x
    BY <1>2, CleanValueFacts
  <2>2. ~(IsMap(y) /\ IsMap(x)) /\ ~(IsList(y) /\ IsList(x))
    BY <1>2
  <2>3. Has[x][y][inList] <=> x = y
    <3>1. Has[x][y][TRUE] <=> x = y
      BY <2>2, HasFacts
    <3>2. Has[x][y][FALSE] <=> x = y
      BY <2>2, HasFacts
    <3> QED BY <3>1, <3>2
  <2> QED BY <2>1, <2>3
<1> QED BY <1>1, <1>2

\* In lists: a map is cleaned to what is desired exactly when it has all of it.
LEMMA CleanMeansHas ==
    ASSUME NEW v \in YamlMaps, NEW ref \in YamlMaps
    PROVE  Clean(v, ref) = ref <=> Has[v][ref][TRUE]
<1> DEFINE Good(x) == \A y \in YamlMaps : Clean(x, y) = y <=> Has[x][y][TRUE]
           S == {n \in Nat : \A x \in YamlMaps : Height[x] < n => Good(x)}
<1> HIDE DEF Good
<1>0. \A x \in YamlMaps : x \in YamlValues /\ IsMap(x)
  BY DEF YamlMaps
<1>1. 0 \in S
  BY <1>0, HeightFacts
<1>2. ASSUME NEW n \in Nat, n \in S PROVE n + 1 \in S
  <2> SUFFICES ASSUME NEW x \in YamlMaps, Height[x] < n + 1 PROVE Good(x)
    OBVIOUS
  <2> SUFFICES ASSUME NEW y \in YamlMaps PROVE Clean(x, y) = y <=> Has[x][y][TRUE]
    BY DEF Good
  <2>1. PICK clean : Cleans(clean)
    BY CleanIs DEF Cleans, Clean
  <2>2. ASSUME NEW k \in DOMAIN y.fields, k \in DOMAIN x.fields
        PROVE  CleanValue(clean, x.fields[k], y.fields[k]) = y.fields[k]
                 <=> Has[x.fields[k]][y.fields[k]][TRUE]
    <3> DEFINE p == x.fields[k]
               q == y.fields[k]
    <3>1. /\ p \in YamlValues /\ Height[p] \in Nat /\ Height[p] < Height[x] /\ q \in YamlValues
          /\ Height[x] \in Nat
      BY <1>0, <2>2, ValueShapes
    <3> HIDE DEF p, q
    <3>2. CASE IsMap(p) /\ IsMap(q)
      <4>1. p \in YamlMaps /\ q \in YamlMaps /\ Height[p] < n
        BY <3>1, <3>2 DEF YamlMaps
      <4>2. Clean(p, q) = q <=> Has[p][q][TRUE]
        BY <1>2, <4>1 DEF Good
      <4>3. CleanValue(clean, p, q) = Clean(p, q)
        BY <2>1, <3>1, <3>2, CleanValueFacts
      <4> QED BY <4>2, <4>3 DEF p, q
    <3>3. CASE ~(IsMap(p) /\ IsMap(q))
      <4>1. ASSUME IsList(p), IsList(q), NEW i \in DOMAIN p.items, NEW j \in DOMAIN q.items,
                   p.items[i] \in YamlMaps, q.items[j] \in YamlMaps
            PROVE  Clean(p.items[i], q.items[j]) = q.items[j] <=> Has[p.items[i]][q.items[j]][TRUE]
        <5>1. Height[p.items[i]] \in Nat /\ Height[p.items[i]] < Height[p]
          BY <3>1, <4>1, ValueShapes
        <5>2. Height[p.items[i]] < n
          BY <3>1, <5>1
        <5> QED BY <1>2, <4>1, <5>2 DEF Good
      <4>2. CleanValue(clean, p, q) = q <=> Has[p][q][TRUE]
        BY <2>1, <3>1, <3>3, <4>1, ListHas
      <4> QED BY <4>2 DEF p, q
    <3> QED BY <3>2, <3>3
  <2>3. Clean(x, y) = y <=> \A k \in DOMAIN y.fields :
          k \in DOMAIN x.fields /\ CleanValue(clean, x.fields[k], y.fields[k]) = y.fields[k]
    BY <2>1, CleanIsReference
  <2>4. Has[x][y][TRUE] <=> \A k \in DOMAIN y.fields :
          k \in DOMAIN x.fields /\ Has[x.fields[k]][y.fields[k]][TRUE]
    BY <1>0, HasFacts
  <2> QED BY <2>2, <2>3, <2>4
<1> HIDE DEF S
<1>3. \A n \in Nat : n \in S
  BY <1>1, <1>2, SetInduction
<1>4. Good(v)
  BY <1>0, <1>3, HeightFacts DEF S
<1> QED BY <1>4 DEF Good

\* Outside lists: what filtering leaves of a map is cleaned to what it leaves of what is
\* desired exactly when the map has all that is desired and does not vanish.
LEMMA FilteredMeansHas ==
    ASSUME NEW v \in YamlMaps, NEW ref \in YamlMaps
    PROVE  Clean(FilterEmptyFields(v), FilterEmptyFields(ref)) = FilterEmptyFields(ref)
             <=> Has[v][ref][FALSE]
<1> DEFINE F(x) == FilterEmptyFields(x)
           Good(x) == \A y \in YamlMaps : Clean(F(x), F(y)) = F(y) <=> Has[x][y][FALSE]
           S == {n \in Nat : \A x \in YamlMaps : Height[x] < n => Good(x)}
<1> HIDE DEF Good, F
<1>0. /\ \A x \in YamlMaps : x \in YamlValues /\ IsMap(x)
      /\ \A x \in YamlMaps : F(x) \in YamlMaps
  BY FilterFacts DEF YamlMaps, F
<1>1. 0 \in S
  BY <1>0, HeightFacts
<1>2. ASSUME NEW n \in Nat, n \in S PROVE n + 1 \in S
  <2> SUFFICES ASSUME NEW x \in YamlMaps, Height[x] < n + 1 PROVE Good(x)
    OBVIOUS
  <2> SUFFICES ASSUME NEW y \in YamlMaps PROVE Clean(F(x), F(y)) = F(y) <=> Has[x][y][FALSE]
    BY DEF Good
  <2>1. PICK clean : Cleans(clean)
    BY CleanIs DEF Cleans, Clean
  <2>2. \A z \in YamlMaps : /\ DOMAIN F(z).fields = Kept(z)
                            /\ \A k \in Kept(z) : F(z).fields[k] = F(z.fields[k])
    <3>1. TAKE z \in YamlMaps
    <3>2. F(z).fields = [k \in Kept(z) |-> F(z.fields[k])]
      BY <1>0, FilterFacts DEF F
    <3> QED BY <3>2
  <2>3. ASSUME NEW k \in DOMAIN y.fields
        PROVE  y.fields[k] \in YamlValues /\ (k \in Kept(y) <=> ~Vanishes[y.fields[k]])
    <3>1. y.fields[k] \in YamlValues
      BY <1>0, ValueShapes
    <3> QED BY <3>1, VanishingIsFiltered DEF Kept
  <2>4. ASSUME NEW k \in Kept(y)
        PROVE  (k \in Kept(x) /\ CleanValue(clean, F(x.fields[k]), F(y.fields[k])) = F(y.fields[k]))
                 <=> (k \in DOMAIN x.fields /\ Has[x.fields[k]][y.fields[k]][FALSE])
    <3> SUFFICES ASSUME k \in DOMAIN x.fields
                 PROVE  (k \in Kept(x) /\ CleanValue(clean, F(x.fields[k]), F(y.fields[k])) = F(y.fields[k]))
                          <=> Has[x.fields[k]][y.fields[k]][FALSE]
      BY DEF Kept
    <3> DEFINE p == x.fields[k]
               q == y.fields[k]
    <3>1. /\ p \in YamlValues /\ Height[p] \in Nat /\ Height[p] < Height[x] /\ Height[x] \in Nat
          /\ q \in YamlValues
      BY <1>0, <2>3, ValueShapes DEF Kept
    <3>2. /\ k \in Kept(x) <=> F(p) # Blank /\ ~IsEmptyMap(F(p))
          /\ F(q) # Blank /\ ~IsEmptyMap(F(q))
      BY DEF Kept, F
    <3> HIDE DEF p, q
    <3>3. CASE IsMap(p) /\ IsMap(q)
      <4>1. p \in YamlMaps /\ q \in YamlMaps /\ Height[p] < n
        BY <3>1, <3>3 DEF YamlMaps
      <4>2. Clean(F(p), F(q)) = F(q) <=> Has[p][q][FALSE]
        BY <1>2, <4>1 DEF Good
      <4>3. F(p) \in YamlMaps /\ F(q) \in YamlMaps
        BY <1>0, <4>1
      <4>4. CleanValue(clean, F(p), F(q)) = Clean(F(p), F(q))
        BY <1>0, <2>1, <4>3, CleanValueFacts
      <4>5. Clean(F(p), F(q)) = F(q) => DOMAIN F(q).fields \subseteq DOMAIN F(p).fields
        BY <2>1, <4>3, CleanIsReference
      <4>6. Clean(F(p), F(q)) = F(q) => ~IsEmptyMap(F(p))
        BY <1>0, <3>2, <4>3, <4>5 DEF IsEmptyMap
      <4>7. F(p) # Blank
        BY <1>0, <4>3, ValueShapes
      <4> QED BY <3>2, <4>2, <4>4, <4>6, <4>7 DEF p, q
    <3>4. CASE IsMap(p) /\ ~IsMap(q)
      <4>1. F(q) = q /\ IsMap(F(p)) /\ F(p) \in YamlValues
        BY <3>1, <3>4, FilterFacts DEF F
      <4>2. ~IsList(p) /\ ~IsList(F(p))
        BY <3>1, <3>4, <4>1, ValueShapes
      <4>3. CleanValue(clean, F(p), F(q)) = F(p)
        BY <2>1, <3>1, <3>4, <4>1, <4>2, CleanValueFacts
      <4>4. Has[p][q][FALSE] <=> p = q
        BY <3>1, <3>4, <4>2, HasFacts
      <4> QED BY <3>4, <4>1, <4>3, <4>4 DEF p, q
    <3>5. CASE ~IsMap(p) /\ IsMap(q)
      <4>1. F(p) = p /\ IsMap(F(q)) /\ F(q) \in YamlValues
        BY <3>1, <3>5, FilterFacts DEF F
      <4>2. ~IsList(q) /\ ~IsList(F(q))
        BY <3>1, <3>5, <4>1, ValueShapes
      <4>3. CleanValue(clean, F(p), F(q)) = p
        BY <2>1, <3>1, <3>5, <4>1, <4>2, CleanValueFacts
      <4>4. Has[p][q][FALSE] <=> p = q
        BY <3>1, <3>5, <4>2, HasFacts
      <4> QED BY <3>5, <4>1, <4>3, <4>4 DEF p, q
    <3>6. CASE ~IsMap(p) /\ ~IsMap(q)
      <4>1. F(p) = p /\ F(q) = q
        BY <3>1, <3>6, FilterFacts DEF F
      <4>2. CleanValue(clean, p, q) = q <=> Has[p][q][FALSE]
        BY <2>1, <3>1, <3>6, CleanMeansHas, ListHas
      <4>3. ~IsEmptyMap(F(p))
        BY <3>6, <4>1 DEF IsEmptyMap
      <4>4. CleanValue(clean, p, q) = q => p # Blank
        <5>1. CASE IsList(p)
          BY <5>1 DEF IsList, Blank
        <5>2. CASE ~IsList(p)
          <6>1. CleanValue(clean, p, q) = p
            BY <2>1, <3>1, <3>6, <5>2, CleanValueFacts
          <6> QED BY <3>2, <4>1, <6>1
        <5> QED BY <5>1, <5>2
      <4> QED BY <3>2, <4>1, <4>2, <4>3, <4>4 DEF p, q
    <3> QED BY <3>3, <3>4, <3>5, <3>6
  <2>5. Clean(F(x), F(y)) = F(y) <=> \A k \in Kept(y) :
          k \in Kept(x) /\ CleanValue(clean, F(x.fields[k]), F(y.fields[k])) = F(y.fields[k])
    <3>1. Clean(F(x), F(y)) = F(y) <=> \A k \in DOMAIN F(y).fields :
            k \in DOMAIN F(x).fields
            /\ CleanValue(clean, F(x).fields[k], F(y).fields[k]) = F(y).fields[k]
      BY <1>0, <2>1, CleanIsReference
    <3> QED BY <2>2, <3>1
  <2>6. Has[x][y][FALSE] <=> \A k \in DOMAIN y.fields :
          Vanishes[y.fields[k]] \/ (k \in DOMAIN x.fields /\ Has[x.fields[k]][y.fields[k]][FALSE])
    BY <1>0, HasFacts
  <2>7. Kept(y) \subseteq DOMAIN y.fields
    BY DEF Kept
  <2> QED BY <2>3, <2>4, <2>5, <2>6, <2>7
<1> HIDE DEF S
<1>3. \A n \in Nat : n \in S
  BY <1>1, <1>2, SetInduction
<1>4. Good(v)
  BY <1>0, <1>3, HeightFacts DEF S
<1> QED BY <1>4 DEF Good, F

\* The verdict is not there yet or it is that on the two documents.
Judged ==
    /\ desired \in Desired /\ current \in Current
    /\ verdict = Pending \/ (verdict \in BOOLEAN /\ (verdict = TRUE <=> Verdict(desired, current)))

\* The verdict on two documents, of which either may be malformed or empty.
LEMMA VerdictIs ==
    ASSUME NEW want \in Desired, NEW have \in Current
    PROVE  Verdict(want, have) <=>
             CASE Malformed \in {want, have} -> FALSE
               [] Null \in {want, have} -> want = have
               [] OTHER -> Has[have][want][FALSE]
<1>1. /\ want \in {Malformed, Null} \/ want \in YamlMaps
      /\ have \in {Malformed, Null} \/ have \in YamlMaps
  BY ValidatorAssumption DEF YamlMaps
<1>2. /\ Malformed # Null
      /\ \A v \in YamlMaps : v \notin {Malformed, Null} /\ IsMap(v) /\ v \in YamlValues
      /\ Null \in YamlValues /\ ~IsMap(Null)
  BY ValidatorAssumption DEF YamlMaps, Malformed, Null, IsMap
<1>3. CASE Malformed \in {want, have}
  BY <1>2, <1>3 DEF Verdict
<1>4. CASE want = Null /\ have = Null
  <2>1. FilterEmptyFields(Null) = Null
    BY <1>2, FilterFacts
  <2> QED BY <1>2, <1>4, <2>1 DEF Verdict, Cleaned
<1>5. CASE want = Null /\ have \in YamlMaps
  <2>1. FilterEmptyFields(Null) = Null /\ FilterEmptyFields(have) \in YamlMaps
    BY <1>2, <1>5, FilterFacts DEF YamlMaps
  <2>2. Map(<<>>) \in YamlMaps
    BY ValidatorAssumption DEF YamlMaps, Map, IsMap
  <2>3. PICK clean : Cleans(clean)
    BY CleanIs DEF Cleans, Clean
  <2>4. \E fields : CleanMapBasedOnAnother(FilterEmptyFields(have), Map(<<>>)) = Map(fields)
    BY <2>1, <2>2, <2>3 DEF Cleans, Clean, CleanFrom
  <2>5. \A fields : Map(fields) # Null
    BY DEF Map, Null
  <2>6. ~Verdict(want, have)
    BY <1>2, <1>5, <2>1, <2>4, <2>5 DEF Verdict, Cleaned
  <2> QED BY <1>2, <1>5, <2>6
<1>6. CASE want \in YamlMaps /\ have = Null
  <2>1. FilterEmptyFields(Null) = Null /\ FilterEmptyFields(want) \in YamlMaps
    BY <1>2, <1>6, FilterFacts DEF YamlMaps
  <2>2. ~Verdict(want, have)
    BY <1>2, <1>6, <2>1 DEF Verdict, Cleaned
  <2> QED BY <1>2, <1>6, <2>2
<1>7. CASE want \in YamlMaps /\ have \in YamlMaps
  <2>1. FilterEmptyFields(have) \in YamlMaps /\ FilterEmptyFields(want) \in YamlMaps
    BY <1>2, <1>7, FilterFacts DEF YamlMaps
  <2>2. FilterEmptyFields(have) # Null /\ FilterEmptyFields(want) # Null
    BY <1>2, <2>1
  <2>3. Verdict(want, have) <=>
          Clean(FilterEmptyFields(have), FilterEmptyFields(want)) = FilterEmptyFields(want)
    BY <1>2, <1>7, <2>2 DEF Verdict, Cleaned, Clean
  <2>4. Verdict(want, have) <=> Has[have][want][FALSE]
    BY <1>7, <2>3, FilteredMeansHas
  <2> QED BY <1>2, <1>7, <2>4
<1> QED BY <1>1, <1>3, <1>4, <1>5, <1>6, <1>7

\* The verdict is positive exactly when all that is desired and not empty exists, for
\* documents of any shape and depth.
THEOREM ValidatorVerdictMeansHas == ValidatorSpec => []VerdictMeansHas
<1>1. ValidatorInit => Judged
  BY DEF ValidatorInit, Judged
<1>2. Judged /\ [ValidatorNext]_validatorVars => Judged'
  <2> SUFFICES ASSUME Judged, [ValidatorNext]_validatorVars PROVE Judged'
    OBVIOUS
  <2>1. CASE ValidateYaml
    <3>1. desired' = desired /\ current' = current /\ verdict' = Verdict(desired, current)
      BY <2>1 DEF ValidateYaml
    <3>2. Verdict(desired, current) \in BOOLEAN
      BY DEF Verdict
    <3> QED BY <3>1, <3>2 DEF Judged
  <2>2. CASE UNCHANGED validatorVars
    BY <2>2 DEF Judged, validatorVars
  <2> QED BY <2>1, <2>2 DEF ValidatorNext
<1>3. Judged => VerdictMeansHas
  BY VerdictIs DEF Judged, VerdictMeansHas
<1> QED BY <1>1, <1>2, <1>3, PTL DEF ValidatorSpec
=============================================================================

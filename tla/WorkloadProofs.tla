--------------------------- MODULE WorkloadProofs ---------------------------
(***************************************************************************)
(* What the operators of PodTemplate return, for lists of every length:    *)
(* what filtering keeps, what a merge of containers and of volumes         *)
(* contains, that a merge resolves, and that what it made, stored with its *)
(* defaults, is no difference to the comparison.  Facts about a recursive  *)
(* function are proved by SetInduction.                                    *)
(*                                                                         *)
(* Then WorkloadRollout for every choice of pod parts and sidecars: what a *)
(* pass sends resolves, what it wrote is not patched again, and a patch    *)
(* made from what is there keeps every injected container.  The hypotheses *)
(* say what users and others must not do for that.                         *)
(***************************************************************************)
EXTENDS WorkloadRollout, SequenceTheorems, NumberFacts, TLAPS

-----------------------------------------------------------------------------
(* Lists of named things *)

\* The recursion of Within.
UpTo(g, list, names, m) ==
    g = [n \in 0 .. m |->
            IF n = 0 THEN <<>>
            ELSE IF list[n].name \in names THEN Append(g[n - 1], list[n]) ELSE g[n - 1]]

\* There is a function that satisfies it.
LEMMA UpToExists ==
    ASSUME NEW list, NEW names
    PROVE  \A m \in Nat : \E g : UpTo(g, list, names, m)
<1> DEFINE S == {m \in Nat : \E g : UpTo(g, list, names, m)}
<1>1. 0 \in S
  <2> DEFINE g == [n \in 0 .. 0 |-> <<>>]
  <2>1. UpTo(g, list, names, 0)
    BY DEF UpTo
  <2> QED BY <2>1
<1>2. ASSUME NEW m \in Nat, m \in S PROVE m + 1 \in S
  <2>1. PICK g : UpTo(g, list, names, m)
    BY <1>2
  <2> DEFINE h == [n \in 0 .. m + 1 |->
                     IF n = 0 THEN <<>>
                     ELSE IF list[n].name \in names THEN Append(g[n - 1], list[n]) ELSE g[n - 1]]
  <2>2. \A n \in 0 .. m : h[n] = g[n]
    <3>1. TAKE n \in 0 .. m
    <3>2. g[n] = IF n = 0 THEN <<>>
                 ELSE IF list[n].name \in names THEN Append(g[n - 1], list[n]) ELSE g[n - 1]
      BY <2>1, Zenon DEF UpTo
    <3>3. n \in 0 .. m + 1
      OBVIOUS
    <3> QED BY <3>2, <3>3, Zenon
  <2>3. \A n \in 0 .. m + 1 : n # 0 => n - 1 \in 0 .. m
    OBVIOUS
  <2>4. \A n \in 0 .. m + 1 :
          h[n] = IF n = 0 THEN <<>>
                 ELSE IF list[n].name \in names THEN Append(h[n - 1], list[n]) ELSE h[n - 1]
    BY <2>2, <2>3
  <2>5. UpTo(h, list, names, m + 1)
    <3>1. h = [n \in 0 .. m + 1 |-> h[n]]
      OBVIOUS
    <3> HIDE DEF h
    <3> QED BY <2>4, <3>1 DEF UpTo
  <2> QED BY <2>5
<1> HIDE DEF S
<1>3. \A m \in Nat : m \in S
  BY <1>1, <1>2, SetInduction
<1> QED BY <1>3 DEF S

\* Within is the last value of such a function.
LEMMA WithinIsLast ==
    ASSUME NEW list, NEW names, Len(list) \in Nat
    PROVE  \E g : UpTo(g, list, names, Len(list)) /\ Within(list, names) = g[Len(list)]
<1> DEFINE c == CHOOSE g : UpTo(g, list, names, Len(list))
<1>1. UpTo(c, list, names, Len(list))
  BY UpToExists
<1>2. Within(list, names) = c[Len(list)]
  BY DEF Within, UpTo
<1> QED BY <1>1, <1>2

\* Its first value, and each value by the one before.
LEMMA UpToSteps ==
    ASSUME NEW g, NEW list, NEW names, NEW m \in Nat, UpTo(g, list, names, m)
    PROVE  /\ g[0] = <<>>
           /\ \A n \in 1 .. m :
                g[n] = IF list[n].name \in names THEN Append(g[n - 1], list[n]) ELSE g[n - 1]
<1>1. \A n \in 0 .. m :
        g[n] = IF n = 0 THEN <<>>
               ELSE IF list[n].name \in names THEN Append(g[n - 1], list[n]) ELSE g[n - 1]
  BY Zenon DEF UpTo
<1>2. 0 \in 0 .. m /\ \A n \in 1 .. m : n \in 0 .. m /\ n # 0
  OBVIOUS
<1> QED BY <1>1, <1>2, Zenon

\* Names are those of the elements.
LEMMA NamesOfElements ==
    ASSUME NEW list
    PROVE  /\ NamesOf(list) = {x.name : x \in ToSet(list)}
           /\ \A x \in ToSet(list) : x.name \in NamesOf(list)
           /\ \A name \in NamesOf(list) : \E x \in ToSet(list) : x.name = name
BY DEF NamesOf, ToSet

\* The elements of a list over T are in T.
LEMMA ElementsTyped ==
    ASSUME NEW T, NEW list \in Seq(T)
    PROVE  \A x \in ToSet(list) : x \in T
BY DEF ToSet

\* Appending adds one element.
LEMMA AppendElements ==
    ASSUME NEW T, NEW list \in Seq(T), NEW e \in T
    PROVE  \A x : x \in ToSet(Append(list, e)) <=> x \in ToSet(list) \/ x = e
<1> DEFINE new == Append(list, e)
<1>1. /\ DOMAIN list = 1 .. Len(list) /\ DOMAIN new = 1 .. Len(list) + 1 /\ Len(list) \in Nat
      /\ \A i \in 1 .. Len(list) : new[i] = list[i]
      /\ new[Len(list) + 1] = e
  BY AppendProperties
<1> HIDE DEF new
<1>2. \A i \in DOMAIN list : i \in DOMAIN new /\ list[i] = new[i]
  BY <1>1
<1>3. \A i \in DOMAIN new : (i \in DOMAIN list /\ new[i] = list[i]) \/ new[i] = e
  BY <1>1
<1>4. e \in ToSet(new)
  <2>1. Len(list) + 1 \in DOMAIN new
    BY <1>1
  <2> QED BY <1>1, <2>1, Zenon DEF ToSet
<1>5. \A x : x \in ToSet(new) <=> x \in ToSet(list) \/ x = e
  BY <1>2, <1>3, <1>4, Zenon DEF ToSet
<1> QED BY <1>5 DEF new

\* What Within has after n elements: those of the right names among them, each name
\* once if each was there once, and all of them if all names are right.
LEMMA WithinSoFar ==
    ASSUME NEW T, NEW list \in Seq(T), NEW names, NEW g, UpTo(g, list, names, Len(list))
    PROVE  \A n \in 0 .. Len(list) :
             /\ g[n] \in Seq(T)
             /\ \A x : x \in ToSet(g[n]) <=> \E i \in 1 .. n : x = list[i] /\ x.name \in names
             /\ Distinct(list) => Distinct(g[n])
             /\ (\A i \in 1 .. n : list[i].name \in names) =>
                  Len(g[n]) = n /\ \A i \in 1 .. n : g[n][i] = list[i]
<1> DEFINE Good(n) ==
             /\ g[n] \in Seq(T)
             /\ \A x : x \in ToSet(g[n]) <=> \E i \in 1 .. n : x = list[i] /\ x.name \in names
             /\ Distinct(list) => Distinct(g[n])
             /\ (\A i \in 1 .. n : list[i].name \in names) =>
                  Len(g[n]) = n /\ \A i \in 1 .. n : g[n][i] = list[i]
           S == {n \in Nat : n <= Len(list) => Good(n)}
<1>1. 0 \in S
  <2>1. g[0] = <<>>
    BY UpToSteps
  <2>2. g[0] \in Seq(T) /\ ToSet(g[0]) = {} /\ Distinct(g[0]) /\ Len(g[0]) = 0
    BY <2>1 DEF ToSet, Distinct
  <2> QED BY <2>2
<1>2. ASSUME NEW n \in Nat, n \in S PROVE n + 1 \in S
  <2> SUFFICES ASSUME n + 1 <= Len(list) PROVE Good(n + 1)
    OBVIOUS
  <2>1. Good(n) /\ n + 1 \in 1 .. Len(list) /\ (n + 1) - 1 = n
    BY <1>2
  <2>2. g[n + 1] = IF list[n + 1].name \in names THEN Append(g[n], list[n + 1]) ELSE g[n]
    BY <2>1, UpToSteps
  <2>3. list[n + 1] \in T /\ DOMAIN list = 1 .. Len(list)
    BY <2>1
  <2>4. \A i \in 1 .. n + 1 : i \in 1 .. n \/ i = n + 1
    OBVIOUS
  <2>5. 1 .. n \subseteq 1 .. n + 1 /\ n + 1 \in 1 .. n + 1
    OBVIOUS
  <2>6. CASE list[n + 1].name \in names
    <3>1. g[n + 1] = Append(g[n], list[n + 1])
      BY <2>2, <2>6
    <3>2. /\ g[n + 1] \in Seq(T) /\ Len(g[n + 1]) = Len(g[n]) + 1 /\ Len(g[n]) \in Nat
          /\ DOMAIN g[n] = 1 .. Len(g[n]) /\ DOMAIN g[n + 1] = 1 .. Len(g[n]) + 1
          /\ \A i \in 1 .. Len(g[n]) : g[n + 1][i] = g[n][i]
          /\ g[n + 1][Len(g[n]) + 1] = list[n + 1]
      <4>1. g[n] \in Seq(T)
        BY <2>1
      <4> HIDE DEF Good
      <4> QED BY <4>1, <2>3, <3>1, AppendProperties
    <3>3. \A x : x \in ToSet(g[n + 1]) <=> x \in ToSet(g[n]) \/ x = list[n + 1]
      <4>1. g[n] \in Seq(T)
        BY <2>1
      <4> HIDE DEF Good
      <4> QED BY <2>3, <3>1, <4>1, AppendElements
    <3>4. \A x : x \in ToSet(g[n + 1]) <=> \E i \in 1 .. n + 1 : x = list[i] /\ x.name \in names
      BY <2>1, <2>4, <2>5, <2>6, <3>3
    <3>5. ASSUME Distinct(list) PROVE Distinct(g[n + 1])
      <4>1. Distinct(g[n])
        BY <2>1, <3>5
      <4>2. ASSUME NEW i \in 1 .. Len(g[n]) PROVE g[n][i].name # list[n + 1].name
        <5>1. g[n][i] \in ToSet(g[n])
          BY <3>2, <4>2 DEF ToSet
        <5>2. PICK j \in 1 .. n : g[n][i] = list[j]
          BY <2>1, <5>1
        <5>3. j \in DOMAIN list /\ n + 1 \in DOMAIN list /\ j # n + 1
          BY <2>1, <2>3, <5>2
        <5> QED BY <5>2, <5>3, <3>5 DEF Distinct
      <4> HIDE DEF Good
      <4>3. SUFFICES ASSUME NEW i \in 1 .. Len(g[n]) + 1, NEW j \in 1 .. Len(g[n]) + 1,
                            g[n + 1][i].name = g[n + 1][j].name
                     PROVE  i = j
        BY <3>2 DEF Distinct
      <4>4. (i \in 1 .. Len(g[n]) \/ i = Len(g[n]) + 1) /\ (j \in 1 .. Len(g[n]) \/ j = Len(g[n]) + 1)
        BY <3>2
      <4> QED BY <3>2, <4>1, <4>2, <4>3, <4>4 DEF Distinct
    <3>6. ASSUME \A i \in 1 .. n + 1 : list[i].name \in names
          PROVE  Len(g[n + 1]) = n + 1 /\ \A i \in 1 .. n + 1 : g[n + 1][i] = list[i]
      <4>1. Len(g[n]) = n /\ \A i \in 1 .. n : g[n][i] = list[i]
        BY <2>1, <2>5, <3>6
      <4> HIDE DEF Good
      <4> QED BY <2>4, <3>2, <4>1
    <3> QED BY <3>2, <3>4, <3>5, <3>6
  <2>7. CASE list[n + 1].name \notin names
    <3>1. g[n + 1] = g[n]
      BY <2>2, <2>7
    <3>2. \A x : x \in ToSet(g[n + 1]) <=> \E i \in 1 .. n + 1 : x = list[i] /\ x.name \in names
      BY <2>1, <2>4, <2>5, <2>7, <3>1
    <3> QED BY <2>1, <2>5, <2>7, <3>1, <3>2
  <2> QED BY <2>6, <2>7
<1> HIDE DEF S, Good
<1>3. \A n \in Nat : n \in S
  BY <1>1, <1>2, SetInduction
<1>4. \A n \in 0 .. Len(list) : Good(n)
  BY <1>3 DEF S
<1> QED BY <1>4 DEF Good

\* Within keeps, in order, exactly the elements of these names.
LEMMA WithinFacts ==
    ASSUME NEW T, NEW list \in Seq(T), NEW names
    PROVE  /\ Within(list, names) \in Seq(T)
           /\ \A x : x \in ToSet(Within(list, names)) <=> x \in ToSet(list) /\ x.name \in names
           /\ Distinct(list) => Distinct(Within(list, names))
           /\ NamesOf(list) \subseteq names => Within(list, names) = list
<1>1. Len(list) \in Nat /\ DOMAIN list = 1 .. Len(list) /\ Len(list) \in 0 .. Len(list)
  OBVIOUS
<1>2. PICK g : UpTo(g, list, names, Len(list)) /\ Within(list, names) = g[Len(list)]
  BY <1>1, WithinIsLast
<1> DEFINE w == g[Len(list)]
<1>3. /\ w \in Seq(T)
      /\ \A x : x \in ToSet(w) <=> \E i \in 1 .. Len(list) : x = list[i] /\ x.name \in names
      /\ Distinct(list) => Distinct(w)
      /\ (\A i \in 1 .. Len(list) : list[i].name \in names) =>
           Len(w) = Len(list) /\ \A i \in 1 .. Len(list) : w[i] = list[i]
  BY <1>1, <1>2, WithinSoFar
<1> HIDE DEF w
<1>4. \A x : x \in ToSet(w) <=> x \in ToSet(list) /\ x.name \in names
  BY <1>1, <1>3 DEF ToSet
<1>5. ASSUME NamesOf(list) \subseteq names PROVE w = list
  <2>1. \A i \in 1 .. Len(list) : list[i].name \in names
    BY <1>1, <1>5 DEF NamesOf
  <2> QED BY <1>3, <2>1, SeqEqual
<1>6. Within(list, names) = w
  BY <1>2 DEF w
<1> QED BY <1>3, <1>4, <1>5, <1>6

\* Without keeps, in order, exactly the others.
LEMMA WithoutFacts ==
    ASSUME NEW T, NEW list \in Seq(T), NEW names
    PROVE  /\ Without(list, names) \in Seq(T)
           /\ \A x : x \in ToSet(Without(list, names)) <=> x \in ToSet(list) /\ x.name \notin names
           /\ Distinct(list) => Distinct(Without(list, names))
           /\ NamesOf(list) \subseteq names => Without(list, names) = <<>>
<1> DEFINE w == Without(list, names)
<1>1. /\ w \in Seq(T)
      /\ \A x : x \in ToSet(w) <=> x \in ToSet(list) /\ x.name \in NamesOf(list) \ names
      /\ Distinct(list) => Distinct(w)
  BY WithinFacts DEF Without
<1> HIDE DEF w
<1>2. \A x : x \in ToSet(w) <=> x \in ToSet(list) /\ x.name \notin names
  BY <1>1, NamesOfElements
<1>3. ASSUME NamesOf(list) \subseteq names PROVE w = <<>>
  <2>1. ToSet(w) = {}
    BY <1>2, <1>3, NamesOfElements
  <2>2. Len(w) = 0
    <3> SUFFICES ASSUME Len(w) # 0 PROVE FALSE
      OBVIOUS
    <3>1. 1 \in DOMAIN w
      BY <1>1
    <3>2. w[1] \in ToSet(w)
      BY <3>1 DEF ToSet
    <3> QED BY <2>1, <3>2
  <2> QED BY <1>1, <2>2, EmptySeq
<1> QED BY <1>1, <1>2, <1>3 DEF w

\* Two lists in a row: the elements and names of both, each once if that holds of
\* either and they share none.
LEMMA ConcatFacts ==
    ASSUME NEW T, NEW a \in Seq(T), NEW b \in Seq(T)
    PROVE  /\ a \o b \in Seq(T)
           /\ ToSet(a \o b) = ToSet(a) \cup ToSet(b)
           /\ NamesOf(a \o b) = NamesOf(a) \cup NamesOf(b)
           /\ Distinct(a \o b) <=> Distinct(a) /\ Distinct(b) /\ NamesOf(a) \cap NamesOf(b) = {}
<1> DEFINE c == a \o b
<1>1. /\ c \in Seq(T) /\ Len(a) \in Nat /\ Len(b) \in Nat
      /\ DOMAIN a = 1 .. Len(a) /\ DOMAIN b = 1 .. Len(b) /\ DOMAIN c = 1 .. Len(a) + Len(b)
      /\ \A i \in 1 .. Len(a) + Len(b) : c[i] = IF i <= Len(a) THEN a[i] ELSE b[i - Len(a)]
  BY ConcatProperties
<1> HIDE DEF c
<1>2. \A i \in DOMAIN a : i \in DOMAIN c /\ c[i] = a[i]
  BY <1>1
<1>3. \A i \in DOMAIN b : i + Len(a) \in DOMAIN c /\ c[i + Len(a)] = b[i] /\ i + Len(a) \notin DOMAIN a
  BY <1>1
<1>4. \A i \in DOMAIN c : i \in DOMAIN a \/ (i - Len(a) \in DOMAIN b /\ c[i] = b[i - Len(a)])
  BY <1>1
<1>5. ToSet(c) = ToSet(a) \cup ToSet(b)
  <2>1. ToSet(a) \subseteq ToSet(c)
    BY <1>2, Zenon DEF ToSet
  <2>2. ToSet(b) \subseteq ToSet(c)
    <3>1. SUFFICES ASSUME NEW i \in DOMAIN b PROVE b[i] \in ToSet(c)
      BY Zenon DEF ToSet
    <3> QED BY <1>3, Zenon DEF ToSet
  <2>3. ASSUME NEW i \in DOMAIN c PROVE c[i] \in ToSet(a) \cup ToSet(b)
    <3>1. CASE i \in DOMAIN a
      BY <1>2, <3>1, Zenon DEF ToSet
    <3>2. CASE i \notin DOMAIN a
      BY <1>4, <3>2, Zenon DEF ToSet
    <3> QED BY <3>1, <3>2
  <2>4. ToSet(c) \subseteq ToSet(a) \cup ToSet(b)
    BY <2>3, Zenon DEF ToSet
  <2> QED BY <2>1, <2>2, <2>4
<1>6. NamesOf(c) = NamesOf(a) \cup NamesOf(b)
  BY <1>5, NamesOfElements
<1>7. ASSUME Distinct(c) PROVE Distinct(a) /\ Distinct(b) /\ NamesOf(a) \cap NamesOf(b) = {}
  <2>1. Distinct(a)
    BY <1>2, <1>7 DEF Distinct
  <2>2. Distinct(b)
    <3> SUFFICES ASSUME NEW i \in DOMAIN b, NEW j \in DOMAIN b, b[i].name = b[j].name PROVE i = j
      BY DEF Distinct
    <3>1. i + Len(a) = j + Len(a)
      BY <1>3, <1>7, Zenon DEF Distinct
    <3> QED BY <1>1, <3>1
  <2>3. ASSUME NEW i \in DOMAIN a, NEW j \in DOMAIN b PROVE a[i].name # b[j].name
    <3>1. PICK m : m = j + Len(a)
      OBVIOUS
    <3>2. m \in DOMAIN c /\ c[m] = b[j] /\ m \notin DOMAIN a
      BY <1>3, <3>1
    <3>3. i \in DOMAIN c /\ c[i] = a[i] /\ i # m
      BY <1>2, <3>2
    <3>4. c[i].name # c[m].name
      BY <1>7, <3>2, <3>3, Zenon DEF Distinct
    <3> QED BY <3>2, <3>3, <3>4
  <2> QED BY <2>1, <2>2, <2>3 DEF NamesOf
<1>8. ASSUME Distinct(a), Distinct(b), NamesOf(a) \cap NamesOf(b) = {} PROVE Distinct(c)
  <2> SUFFICES ASSUME NEW i \in DOMAIN c, NEW j \in DOMAIN c, c[i].name = c[j].name PROVE i = j
    BY DEF Distinct
  <2>1. CASE i \in DOMAIN a /\ j \in DOMAIN a
    <3>1. a[i].name = a[j].name
      BY <1>2, <2>1
    <3> QED BY <1>8, <2>1, <3>1, Zenon DEF Distinct
  <2>2. CASE i \notin DOMAIN a /\ j \notin DOMAIN a
    <3>1. i - Len(a) = j - Len(a)
      BY <1>4, <1>8, <2>2 DEF Distinct
    <3> QED BY <1>1, <3>1
  <2>3. CASE i \in DOMAIN a /\ j \notin DOMAIN a
    <3>1. c[i].name \in NamesOf(a) /\ c[j].name \in NamesOf(b)
      BY <1>2, <1>4, <2>3 DEF NamesOf
    <3> QED BY <1>8, <3>1
  <2>4. CASE i \notin DOMAIN a /\ j \in DOMAIN a
    <3>1. c[j].name \in NamesOf(a) /\ c[i].name \in NamesOf(b)
      BY <1>2, <1>4, <2>4 DEF NamesOf
    <3> QED BY <1>8, <3>1
  <2> QED BY <2>1, <2>2, <2>3, <2>4
<1> QED BY <1>1, <1>5, <1>6, <1>7, <1>8 DEF c

\* A list whose elements are replaced one by one under their names has the same names,
\* each once if that was so.
LEMMA ReplacedFacts ==
    ASSUME NEW T, NEW list \in Seq(T), NEW new \in [DOMAIN list -> T],
           \A i \in DOMAIN list : new[i].name = list[i].name
    PROVE  /\ new \in Seq(T) /\ Len(new) = Len(list) /\ DOMAIN new = DOMAIN list
           /\ NamesOf(new) = NamesOf(list)
           /\ Distinct(list) => Distinct(new)
<1>1. DOMAIN list = 1 .. Len(list) /\ Len(list) \in Nat /\ DOMAIN new = DOMAIN list
  OBVIOUS
<1>2. new \in Seq(T) /\ Len(new) = Len(list)
  BY <1>1
<1>3. NamesOf(new) = NamesOf(list)
  BY <1>1 DEF NamesOf
<1>4. Distinct(list) => Distinct(new)
  BY <1>1 DEF Distinct
<1> QED BY <1>1, <1>2, <1>3, <1>4

\* Named finds an element of that name, and the element itself if there is one of each.
LEMMA NamedFacts ==
    ASSUME NEW T, NEW list \in Seq(T), NEW name \in NamesOf(list)
    PROVE  /\ Named(list, name) \in ToSet(list) /\ Named(list, name) \in T
           /\ Named(list, name).name = name
           /\ \A x \in ToSet(list) : Distinct(list) /\ x.name = name => Named(list, name) = x
<1> DEFINE Greatest(i) == /\ list[i].name = name
                      /\ \A j \in DOMAIN list : list[j].name = name => j <= i
           k == CHOOSE i \in DOMAIN list : Greatest(i)
           D == {i \in DOMAIN list : list[i].name = name}
<1>1. DOMAIN list = 1 .. Len(list) /\ Len(list) \in Nat /\ \A i \in DOMAIN list : list[i] \in T
  OBVIOUS
<1>2. \E i \in DOMAIN list : Greatest(i)
  <2>1. D \in SUBSET (1 .. Len(list)) /\ D # {}
    BY <1>1 DEF NamesOf
  <2>2. PICK i \in D : \A j \in D : j <= i
    <3> HIDE DEF D
    <3> QED BY <1>1, <2>1, GreatestIndex
  <2> QED BY <2>2
<1>3. k \in DOMAIN list /\ Greatest(k)
  <2> HIDE DEF Greatest
  <2> QED BY <1>2
<1>4. Named(list, name) = list[k]
  BY DEF Named
<1> HIDE DEF k
<1>5. list[k] \in ToSet(list)
  BY <1>3 DEF ToSet
<1>6. ASSUME Distinct(list), NEW x \in ToSet(list), x.name = name PROVE list[k] = x
  BY <1>3, <1>6 DEF Distinct, ToSet
<1> QED BY <1>1, <1>3, <1>4, <1>5, <1>6

-----------------------------------------------------------------------------
(* The merge of containers *)

\* An existing container takes the managed fields and the mounts; doing it again
\* changes nothing, and neither does taking them from itself.
LEMMA MergeContainerFacts ==
    ASSUME NEW c \in Containers, NEW d \in Containers
    PROVE  /\ MergeContainer(c, d) \in Containers
           /\ MergeContainer(c, d).name = c.name
           /\ MergeContainer(c, d).mounts = d.mounts
           /\ MergeContainer(MergeContainer(c, d), d) = MergeContainer(c, d)
           /\ MergeContainer(d, d) = d
BY DEF MergeContainer, Containers

\* The first part of MergeContainers: the existing containers, the desired ones updated.
Updated(existing, desired) ==
    [i \in DOMAIN existing |->
        IF existing[i].name \in NamesOf(desired)
        THEN MergeContainer(existing[i], Named(desired, existing[i].name))
        ELSE existing[i]]

\* It has the existing containers under their names: an unknown one as it was, a
\* desired one as the second merge would make it again.
LEMMA UpdatedFacts ==
    ASSUME NEW existing \in Seq(Containers), NEW desired \in Seq(Containers)
    PROVE  LET new == Updated(existing, desired)
           IN  /\ new \in [DOMAIN existing -> Containers]
               /\ \A i \in DOMAIN existing :
                    /\ new[i].name = existing[i].name
                    /\ existing[i].name \notin NamesOf(desired) => new[i] = existing[i]
                    /\ existing[i].name \in NamesOf(desired) =>
                         LET d == Named(desired, existing[i].name)
                         IN  new[i].mounts = d.mounts /\ MergeContainer(new[i], d) = new[i]
<1> DEFINE new == Updated(existing, desired)
           d(i) == Named(desired, existing[i].name)
<1>1. ASSUME NEW i \in DOMAIN existing
      PROVE  /\ new[i] \in Containers /\ new[i].name = existing[i].name
             /\ existing[i].name \notin NamesOf(desired) => new[i] = existing[i]
             /\ existing[i].name \in NamesOf(desired) =>
                  new[i].mounts = d(i).mounts /\ MergeContainer(new[i], d(i)) = new[i]
  <2>1. existing[i] \in Containers
    BY <1>1
  <2>2. CASE existing[i].name \in NamesOf(desired)
    <3>1. new[i] = MergeContainer(existing[i], d(i))
      BY <1>1, <2>2 DEF Updated
    <3>2. d(i) \in Containers
      BY <2>2, NamedFacts
    <3> HIDE DEF d, new
    <3> QED BY <2>1, <2>2, <3>1, <3>2, MergeContainerFacts
  <2>3. CASE existing[i].name \notin NamesOf(desired)
    <3>1. new[i] = existing[i]
      BY <1>1, <2>3 DEF Updated
    <3> QED BY <2>1, <2>3, <3>1
  <2> QED BY <2>2, <2>3
<1>2. new = [i \in DOMAIN existing |-> new[i]]
  BY DEF Updated
<1> HIDE DEF new, d
<1>3. new \in [DOMAIN existing -> Containers]
  BY <1>1, <1>2
<1>4. \A i \in DOMAIN existing :
        /\ new[i].name = existing[i].name
        /\ existing[i].name \notin NamesOf(desired) => new[i] = existing[i]
        /\ existing[i].name \in NamesOf(desired) =>
             new[i].mounts = d(i).mounts /\ MergeContainer(new[i], d(i)) = new[i]
  BY <1>1
<1> QED BY <1>3, <1>4 DEF new, d

\* A merge has the containers of both sides, each name once; an unknown container is
\* still there as it was, and one that is not unknown mounts what the desired one does.
LEMMA MergeContainersFacts ==
    ASSUME NEW existing \in Seq(Containers), NEW desired \in Seq(Containers)
    PROVE  LET new == MergeContainers(existing, desired)
           IN  /\ new \in Seq(Containers)
               /\ NamesOf(new) = NamesOf(existing) \cup NamesOf(desired)
               /\ Distinct(existing) /\ Distinct(desired) => Distinct(new)
               /\ \A c \in ToSet(existing) : c.name \notin NamesOf(desired) => c \in ToSet(new)
               /\ \A c \in ToSet(new) :
                    \/ c \in ToSet(existing) /\ c.name \notin NamesOf(desired)
                    \/ \E d \in ToSet(desired) : c.mounts = d.mounts
               /\ Distinct(desired) =>
                    \A c \in ToSet(new) : c.name \in NamesOf(desired) =>
                      MergeContainer(c, Named(desired, c.name)) = c
<1> DEFINE over == Updated(existing, desired)
           rest == Without(desired, NamesOf(existing))
           new  == MergeContainers(existing, desired)
<1>1. new = over \o rest
  BY DEF MergeContainers, Updated
<1>2. /\ over \in [DOMAIN existing -> Containers]
      /\ \A i \in DOMAIN existing :
           /\ over[i].name = existing[i].name
           /\ existing[i].name \notin NamesOf(desired) => over[i] = existing[i]
           /\ existing[i].name \in NamesOf(desired) =>
                /\ over[i].mounts = Named(desired, existing[i].name).mounts
                /\ MergeContainer(over[i], Named(desired, existing[i].name)) = over[i]
  BY UpdatedFacts
<1>3. /\ rest \in Seq(Containers)
      /\ \A x : x \in ToSet(rest) <=> x \in ToSet(desired) /\ x.name \notin NamesOf(existing)
      /\ Distinct(desired) => Distinct(rest)
  BY WithoutFacts
<1> HIDE DEF over, rest, new
<1>4. /\ over \in Seq(Containers) /\ DOMAIN over = DOMAIN existing
      /\ NamesOf(over) = NamesOf(existing)
      /\ Distinct(existing) => Distinct(over)
  BY <1>2, ReplacedFacts
<1>5. NamesOf(rest) = NamesOf(desired) \ NamesOf(existing)
  BY <1>3, NamesOfElements
<1>6. /\ new \in Seq(Containers)
      /\ ToSet(new) = ToSet(over) \cup ToSet(rest)
      /\ NamesOf(new) = NamesOf(over) \cup NamesOf(rest)
      /\ Distinct(new) <=> Distinct(over) /\ Distinct(rest) /\ NamesOf(over) \cap NamesOf(rest) = {}
  BY <1>1, <1>3, <1>4, ConcatFacts
<1>7. ASSUME NEW c \in ToSet(existing), c.name \notin NamesOf(desired) PROVE c \in ToSet(new)
  <2>1. PICK i \in DOMAIN existing : c = existing[i]
    BY DEF ToSet
  <2>2. over[i] = c /\ i \in DOMAIN over
    BY <1>2, <1>4, <1>7, <2>1
  <2>3. c \in ToSet(over)
    BY <2>2 DEF ToSet
  <2> QED BY <1>6, <2>3
<1>8. ASSUME NEW c \in ToSet(new)
      PROVE  /\ \/ c \in ToSet(existing) /\ c.name \notin NamesOf(desired)
                \/ \E d \in ToSet(desired) : c.mounts = d.mounts
             /\ Distinct(desired) /\ c.name \in NamesOf(desired) =>
                  MergeContainer(c, Named(desired, c.name)) = c
  <2>1. CASE c \in ToSet(rest)
    <3>1. c \in ToSet(desired) /\ c \in Containers
      BY <1>3, <2>1, ElementsTyped
    <3>2. ASSUME Distinct(desired), c.name \in NamesOf(desired)
          PROVE  MergeContainer(c, Named(desired, c.name)) = c
      <4>1. Named(desired, c.name) = c
        BY <3>1, <3>2, NamedFacts
      <4> QED BY <3>1, <4>1, MergeContainerFacts
    <3> QED BY <3>1, <3>2
  <2>2. CASE c \in ToSet(over)
    <3>1. PICK i \in DOMAIN existing : c = over[i]
      BY <1>4, <2>2 DEF ToSet
    <3>2. CASE existing[i].name \in NamesOf(desired)
      <4>1. Named(desired, existing[i].name) \in ToSet(desired)
        BY <3>2, NamedFacts
      <4> QED BY <1>2, <3>1, <3>2, <4>1
    <3>3. CASE existing[i].name \notin NamesOf(desired)
      <4>1. existing[i] \in ToSet(existing)
        BY DEF ToSet
      <4> QED BY <1>2, <3>1, <3>3, <4>1
    <3> QED BY <3>2, <3>3
  <2> QED BY <1>6, <2>1, <2>2
<1>9. Distinct(existing) /\ Distinct(desired) => Distinct(new)
  BY <1>3, <1>4, <1>5, <1>6
<1>10. NamesOf(new) = NamesOf(existing) \cup NamesOf(desired)
  BY <1>4, <1>5, <1>6
<1> QED BY <1>6, <1>7, <1>8, <1>9, <1>10 DEF new

-----------------------------------------------------------------------------
(* The merge of volumes *)

\* A merge has the desired volumes and those of the others that are mounted, each
\* name once, and a desired one as it is desired.
LEMMA MergeVolumesFacts ==
    ASSUME NEW existing \in Seq(Volumes), NEW desired \in Seq(Volumes),
           NEW containers, NEW inits
    PROVE  LET mounted == MountedVolumeNames(containers, inits)
               new == MergeVolumes(existing, desired, containers, inits)
           IN  /\ new \in Seq(Volumes)
               /\ NamesOf(new) = NamesOf(desired) \cup (NamesOf(existing) \cap mounted)
               /\ Distinct(existing) /\ Distinct(desired) => Distinct(new)
               /\ Distinct(desired) =>
                    \A v \in ToSet(new) : v.name \in NamesOf(desired) => Named(desired, v.name) = v
<1> DEFINE mounted == MountedVolumeNames(containers, inits)
           new == MergeVolumes(existing, desired, containers, inits)
           kept == Within(existing, NamesOf(desired) \cup mounted)
           over == [i \in DOMAIN kept |-> IF kept[i].name \in NamesOf(desired)
                                          THEN Named(desired, kept[i].name) ELSE kept[i]]
           rest == Without(desired, NamesOf(existing))
<1>1. new = over \o rest
  BY DEF MergeVolumes
<1>2. /\ kept \in Seq(Volumes)
      /\ \A x : x \in ToSet(kept) <=> x \in ToSet(existing) /\ x.name \in NamesOf(desired) \cup mounted
      /\ Distinct(existing) => Distinct(kept)
  BY WithinFacts
<1>3. /\ rest \in Seq(Volumes)
      /\ \A x : x \in ToSet(rest) <=> x \in ToSet(desired) /\ x.name \notin NamesOf(existing)
      /\ Distinct(desired) => Distinct(rest)
  BY WithoutFacts
<1> HIDE DEF mounted, new, kept, rest
<1>4. ASSUME NEW i \in DOMAIN kept
      PROVE  /\ over[i] \in Volumes /\ over[i].name = kept[i].name
             /\ over[i].name \in NamesOf(desired) => Named(desired, over[i].name) = over[i]
  <2>1. kept[i] \in Volumes
    BY <1>2
  <2>2. CASE kept[i].name \in NamesOf(desired)
    <3>1. over[i] = Named(desired, kept[i].name)
      BY <2>2
    <3> QED BY <2>2, <3>1, NamedFacts
  <2>3. CASE kept[i].name \notin NamesOf(desired)
    BY <2>1, <2>3
  <2> QED BY <2>2, <2>3
<1>5. DOMAIN over = DOMAIN kept /\ over \in [DOMAIN kept -> Volumes]
  BY <1>4
<1> HIDE DEF over
<1>6. /\ over \in Seq(Volumes)
      /\ NamesOf(over) = NamesOf(kept)
      /\ Distinct(existing) => Distinct(over)
  BY <1>2, <1>4, <1>5, ReplacedFacts
<1>7. NamesOf(kept) = NamesOf(existing) \cap (NamesOf(desired) \cup mounted)
  BY <1>2, NamesOfElements
<1>8. NamesOf(rest) = NamesOf(desired) \ NamesOf(existing)
  BY <1>3, NamesOfElements
<1>9. /\ new \in Seq(Volumes)
      /\ ToSet(new) = ToSet(over) \cup ToSet(rest)
      /\ NamesOf(new) = NamesOf(over) \cup NamesOf(rest)
      /\ Distinct(new) <=> Distinct(over) /\ Distinct(rest) /\ NamesOf(over) \cap NamesOf(rest) = {}
  BY <1>1, <1>3, <1>6, ConcatFacts
<1>10. NamesOf(new) = NamesOf(desired) \cup (NamesOf(existing) \cap mounted)
  BY <1>6, <1>7, <1>8, <1>9
<1>11. Distinct(existing) /\ Distinct(desired) => Distinct(new)
  BY <1>3, <1>6, <1>7, <1>8, <1>9
<1>12. ASSUME Distinct(desired), NEW v \in ToSet(new), v.name \in NamesOf(desired)
       PROVE  Named(desired, v.name) = v
  <2>1. CASE v \in ToSet(rest)
    <3>1. v \in ToSet(desired)
      BY <1>3, <2>1
    <3> QED BY <1>12, <3>1, NamedFacts
  <2>2. CASE v \in ToSet(over)
    <3>1. PICK i \in DOMAIN kept : v = over[i]
      BY <1>5, <2>2 DEF ToSet
    <3> QED BY <1>4, <1>12, <3>1
  <2> QED BY <1>9, <1>12, <2>1, <2>2
<1> QED BY <1>9, <1>10, <1>11, <1>12 DEF new, mounted

-----------------------------------------------------------------------------
(* The merge of templates *)

\* What a container mounts is mounted.
LEMMA MountedFacts ==
    ASSUME NEW containers, NEW inits, NEW c \in ToSet(containers) \cup ToSet(inits)
    PROVE  c.mounts \subseteq MountedVolumeNames(containers, inits)
BY DEF MountedVolumeNames, ToSet

\* Templates are equal when their parts are.
LEMMA TemplatesEqual ==
    ASSUME NEW a \in Templates, NEW b \in Templates,
           a.labels = b.labels, a.rest = b.rest, a.containers = b.containers,
           a.inits = b.inits, a.volumes = b.volumes
    PROVE  a = b
<1>1. a = [labels |-> a.labels, rest |-> a.rest, containers |-> a.containers,
           inits |-> a.inits, volumes |-> a.volumes]
  BY DEF Templates
<1>2. b = [labels |-> b.labels, rest |-> b.rest, containers |-> b.containers,
           inits |-> b.inits, volumes |-> b.volumes]
  BY DEF Templates
<1> QED BY <1>1, <1>2

\* A template resolves when every container of either list mounts what there is, and
\* neither the containers of both lists nor the volumes share a name.
LEMMA ResolvesFacts ==
    ASSUME NEW tpl \in Templates, NEW claims
    PROVE  Resolves(tpl, claims) <=>
             /\ \A c \in ToSet(tpl.containers) \cup ToSet(tpl.inits) :
                  c.mounts \subseteq NamesOf(tpl.volumes) \cup NamesOf(claims)
             /\ Distinct(tpl.containers) /\ Distinct(tpl.inits)
             /\ NamesOf(tpl.containers) \cap NamesOf(tpl.inits) = {}
             /\ Distinct(tpl.volumes)
<1>1. tpl.containers \in Seq(Containers) /\ tpl.inits \in Seq(Containers)
  BY DEF Templates
<1>2. /\ ToSet(tpl.containers \o tpl.inits) = ToSet(tpl.containers) \cup ToSet(tpl.inits)
      /\ Distinct(tpl.containers \o tpl.inits) <=>
           /\ Distinct(tpl.containers) /\ Distinct(tpl.inits)
           /\ NamesOf(tpl.containers) \cap NamesOf(tpl.inits) = {}
  BY <1>1, ConcatFacts
<1> QED BY <1>2, Zenon DEF Resolves

\* The parts of a merge.
LEMMA MergeParts ==
    ASSUME NEW existing \in Templates, NEW desired \in Templates
    PROVE  LET new == Merge(existing, desired)
           IN  /\ new \in Templates
               /\ new.labels = desired.labels /\ new.rest = desired.rest
               /\ new.containers = MergeContainers(existing.containers, desired.containers)
               /\ new.inits = MergeContainers(existing.inits, desired.inits)
               /\ new.volumes = MergeVolumes(existing.volumes, desired.volumes, new.containers, new.inits)
<1> DEFINE containers == MergeContainers(existing.containers, desired.containers)
           inits == MergeContainers(existing.inits, desired.inits)
           volumes == MergeVolumes(existing.volumes, desired.volumes, containers, inits)
<1>1. /\ existing.containers \in Seq(Containers) /\ existing.inits \in Seq(Containers)
      /\ existing.volumes \in Seq(Volumes)
      /\ desired.containers \in Seq(Containers) /\ desired.inits \in Seq(Containers)
      /\ desired.volumes \in Seq(Volumes) /\ desired.labels \in SUBSET Labels /\ desired.rest \in Values
  BY DEF Templates
<1>2. containers \in Seq(Containers) /\ inits \in Seq(Containers)
  BY <1>1, MergeContainersFacts
<1>3. volumes \in Seq(Volumes)
  BY <1>1, MergeVolumesFacts
<1>4. Merge(existing, desired) = [labels |-> desired.labels, rest |-> desired.rest,
                                  containers |-> containers, inits |-> inits, volumes |-> volumes]
  BY DEF Merge
<1> HIDE DEF containers, inits, volumes
<1>5. Merge(existing, desired) \in Templates
  BY <1>1, <1>2, <1>3, <1>4 DEF Templates
<1> QED BY <1>4, <1>5 DEF containers, inits, volumes

\* What is merged from a template that resolves and one that resolves does, if the
\* claims of the second are among those of the first and no name is a container on one
\* side and an init container on the other.
LEMMA MergeKeepsResolving ==
    ASSUME NEW existing \in Templates, NEW desired \in Templates, NEW claims, NEW wanted,
           Resolves(existing, claims), Resolves(desired, wanted),
           NamesOf(wanted) \subseteq NamesOf(claims),
           (NamesOf(existing.containers) \cup NamesOf(desired.containers))
             \cap (NamesOf(existing.inits) \cup NamesOf(desired.inits)) = {}
    PROVE  Resolves(Merge(existing, desired), claims)
<1> DEFINE new == Merge(existing, desired)
           mounted == MountedVolumeNames(new.containers, new.inits)
<1>1. /\ existing.containers \in Seq(Containers) /\ existing.inits \in Seq(Containers)
      /\ existing.volumes \in Seq(Volumes)
      /\ desired.containers \in Seq(Containers) /\ desired.inits \in Seq(Containers)
      /\ desired.volumes \in Seq(Volumes)
  BY DEF Templates
<1>2. /\ new \in Templates
      /\ new.containers = MergeContainers(existing.containers, desired.containers)
      /\ new.inits = MergeContainers(existing.inits, desired.inits)
      /\ new.volumes = MergeVolumes(existing.volumes, desired.volumes, new.containers, new.inits)
  BY MergeParts
<1> HIDE DEF new
<1>3. /\ \A c \in ToSet(existing.containers) \cup ToSet(existing.inits) :
           c.mounts \subseteq NamesOf(existing.volumes) \cup NamesOf(claims)
      /\ Distinct(existing.containers) /\ Distinct(existing.inits) /\ Distinct(existing.volumes)
  BY ResolvesFacts
<1>4. /\ \A c \in ToSet(desired.containers) \cup ToSet(desired.inits) :
           c.mounts \subseteq NamesOf(desired.volumes) \cup NamesOf(wanted)
      /\ Distinct(desired.containers) /\ Distinct(desired.inits) /\ Distinct(desired.volumes)
  BY ResolvesFacts
<1>5. /\ NamesOf(new.containers) = NamesOf(existing.containers) \cup NamesOf(desired.containers)
      /\ Distinct(new.containers)
      /\ \A c \in ToSet(new.containers) : \/ c \in ToSet(existing.containers)
                                          \/ \E d \in ToSet(desired.containers) : c.mounts = d.mounts
  BY <1>1, <1>2, <1>3, <1>4, MergeContainersFacts
<1>6. /\ NamesOf(new.inits) = NamesOf(existing.inits) \cup NamesOf(desired.inits)
      /\ Distinct(new.inits)
      /\ \A c \in ToSet(new.inits) : \/ c \in ToSet(existing.inits)
                                     \/ \E d \in ToSet(desired.inits) : c.mounts = d.mounts
  BY <1>1, <1>2, <1>3, <1>4, MergeContainersFacts
<1>7. /\ NamesOf(new.volumes) = NamesOf(desired.volumes) \cup (NamesOf(existing.volumes) \cap mounted)
      /\ Distinct(new.volumes)
  BY <1>1, <1>2, <1>3, <1>4, MergeVolumesFacts
<1>8. \A c \in ToSet(new.containers) \cup ToSet(new.inits) : c.mounts \subseteq mounted
  BY MountedFacts
<1> HIDE DEF mounted
<1>9. ASSUME NEW c \in ToSet(new.containers) \cup ToSet(new.inits)
      PROVE  c.mounts \subseteq NamesOf(new.volumes) \cup NamesOf(claims)
  <2>1. CASE c \in ToSet(existing.containers) \cup ToSet(existing.inits)
    <3>1. c.mounts \subseteq NamesOf(existing.volumes) \cup NamesOf(claims)
      BY <1>3, <2>1
    <3>2. c.mounts \subseteq mounted
      BY <1>8
    <3> QED BY <1>7, <3>1, <3>2
  <2>2. CASE \E d \in ToSet(desired.containers) \cup ToSet(desired.inits) : c.mounts = d.mounts
    <3>1. c.mounts \subseteq NamesOf(desired.volumes) \cup NamesOf(wanted)
      BY <1>4, <2>2
    <3> QED BY <1>7, <3>1
  <2> QED BY <1>5, <1>6, <2>1, <2>2
<1>10. NamesOf(new.containers) \cap NamesOf(new.inits) = {}
  BY <1>5, <1>6
<1>11. Resolves(new, claims)
  BY <1>2, <1>5, <1>6, <1>7, <1>9, <1>10, ResolvesFacts
<1> QED BY <1>11 DEF new

-----------------------------------------------------------------------------
(* The builders and the API server *)

\* What is built from a pod part is a template.
LEMMA BuildTyped ==
    ASSUME NEW part \in Specs
    PROVE  Build(part) \in Templates /\ NewWorkload(part) \in Workloads
<1> DEFINE main == [name |-> "main", managed |-> part.image, defaulted |-> part.refs,
                    timing |-> part.timing, other |-> Unset,
                    mounts |-> part.mounts \cup (IF part.config THEN {ConfigVolume.name} ELSE {})]
           config == IF part.config THEN <<ConfigVolume>> ELSE <<>>
<1>1. /\ part.labels \in SUBSET Labels /\ part.rest \in Values /\ part.image \in Values
      /\ part.refs \in Values /\ part.timing \in Values /\ part.mounts \in SUBSET Names /\ part.extra \in Seq(Containers)
      /\ part.inits \in Seq(Containers) /\ part.volumes \in Seq(Volumes) /\ part.claims \in Seq(Claims)
  BY DEF Specs
<1>2. ConfigVolume \in Volumes /\ ConfigVolume.name \in Names
  BY TemplateAssumption DEF ConfigVolume, Volumes
<1>3. "main" \in Names /\ Unset \in Values
  BY TemplateAssumption
<1>4. main \in Containers
  <2>1. main.mounts \in SUBSET Names
    BY <1>1, <1>2
  <2> QED BY <1>1, <1>3, <2>1 DEF Containers
<1>5. config \in Seq(Volumes)
  BY <1>2
<1> HIDE DEF main, config
<1>6. <<main>> \in Seq(Containers)
  BY <1>4
<1>7. <<main>> \o part.extra \in Seq(Containers) /\ config \o part.volumes \in Seq(Volumes)
  BY <1>1, <1>5, <1>6, ConcatProperties
<1>8. Build(part) = [labels |-> part.labels, rest |-> part.rest, containers |-> <<main>> \o part.extra,
                     inits |-> part.inits, volumes |-> config \o part.volumes]
  BY DEF Build, main, config
<1>9. Build(part) \in Templates
  BY <1>1, <1>7, <1>8 DEF Templates
<1> QED BY <1>1, <1>9 DEF NewWorkload, Workloads

\* Filling in defaults ends at the first time.
LEMMA FilledFacts ==
    /\ \A v \in Values : Filled(v) \in Values
    /\ \A v : Filled(Filled(v)) = Filled(v)
BY TemplateAssumption DEF Filled

\* A container with its defaults.
Defaulted(c) == [c EXCEPT !.defaulted = Filled(@), !.timing = Filled(@), !.other = Filled(@)]

\* Field by field.
LEMMA DefaultedFields ==
    ASSUME NEW c \in Containers
    PROVE  /\ Filled(c.defaulted) \in Values /\ Filled(c.timing) \in Values /\ Filled(c.other) \in Values
           /\ c = [name |-> c.name, managed |-> c.managed, defaulted |-> c.defaulted,
                   timing |-> c.timing, other |-> c.other, mounts |-> c.mounts]
           /\ Defaulted(c) = [name |-> c.name, managed |-> c.managed, defaulted |-> Filled(c.defaulted),
                              timing |-> Filled(c.timing), other |-> Filled(c.other), mounts |-> c.mounts]
<1> DEFINE y == [c EXCEPT !.defaulted = Filled(c.defaulted)]
           z == [y EXCEPT !.timing = Filled(c.timing)]
<1>1. Filled(c.defaulted) \in Values /\ Filled(c.timing) \in Values /\ Filled(c.other) \in Values
  BY FilledFacts DEF Containers
<1>2. c = [name |-> c.name, managed |-> c.managed, defaulted |-> c.defaulted,
           timing |-> c.timing, other |-> c.other, mounts |-> c.mounts]
  BY DEF Containers
<1>3. y = [name |-> c.name, managed |-> c.managed, defaulted |-> Filled(c.defaulted),
           timing |-> c.timing, other |-> c.other, mounts |-> c.mounts]
  BY DEF Containers
<1> HIDE DEF y
<1>4. z = [name |-> c.name, managed |-> c.managed, defaulted |-> Filled(c.defaulted),
           timing |-> Filled(c.timing), other |-> c.other, mounts |-> c.mounts]
  BY <1>3
<1>5. Defaulted(c) = [z EXCEPT !.other = Filled(c.other)]
  <2>1. Defaulted(c) = [c EXCEPT !.defaulted = Filled(c.defaulted), !.timing = Filled(c.timing),
                                 !.other = Filled(c.other)]
    BY DEF Defaulted
  <2> QED BY <2>1 DEF y
<1> HIDE DEF z
<1>6. Defaulted(c) = [name |-> c.name, managed |-> c.managed, defaulted |-> Filled(c.defaulted),
                      timing |-> Filled(c.timing), other |-> Filled(c.other), mounts |-> c.mounts]
  BY <1>4, <1>5
<1> QED BY <1>1, <1>2, <1>6

\* A container has its defaults where its fields have theirs.
LEMMA DefaultedParts ==
    ASSUME NEW c \in Containers
    PROVE  Defaulted(c) = c <=> /\ Filled(c.defaulted) = c.defaulted
                                /\ Filled(c.timing) = c.timing
                                /\ Filled(c.other) = c.other
BY DefaultedFields

LEMMA DefaultedFacts ==
    ASSUME NEW c \in Containers
    PROVE  /\ Defaulted(c) \in Containers
           /\ Defaulted(c).name = c.name /\ Defaulted(c).mounts = c.mounts
           /\ Defaulted(Defaulted(c)) = Defaulted(c)
<1> DEFINE d == Defaulted(c)
<1>1. d = [name |-> c.name, managed |-> c.managed, defaulted |-> Filled(c.defaulted),
           timing |-> Filled(c.timing), other |-> Filled(c.other), mounts |-> c.mounts]
  BY DefaultedFields
<1>2. c.name \in Names /\ c.managed \in Values /\ c.mounts \in SUBSET Names
  BY DEF Containers
<1> HIDE DEF d
<1>3. d \in Containers
  BY <1>1, <1>2, DefaultedFields DEF Containers
<1>4. Filled(d.defaulted) = d.defaulted /\ Filled(d.timing) = d.timing /\ Filled(d.other) = d.other
  BY <1>1, FilledFacts
<1>5. Defaulted(d) = d
  BY <1>3, <1>4, DefaultedParts
<1> QED BY <1>1, <1>3, <1>5 DEF d

\* Containers as they are stored have the names and mounts they had, and are stored as
\* they are.
LEMMA WithDefaultsFacts ==
    ASSUME NEW list \in Seq(Containers)
    PROVE  LET new == WithDefaults(list)
           IN  /\ new \in Seq(Containers) /\ DOMAIN new = DOMAIN list
               /\ \A i \in DOMAIN list : new[i] = Defaulted(list[i])
               /\ NamesOf(new) = NamesOf(list)
               /\ Distinct(list) => Distinct(new)
               /\ \A c \in ToSet(new) : \E d \in ToSet(list) : c.mounts = d.mounts
               /\ WithDefaults(new) = new
<1> DEFINE new == WithDefaults(list)
<1>1. new = [i \in DOMAIN list |-> Defaulted(list[i])]
  BY DEF WithDefaults, Defaulted
<1>2. \A i \in DOMAIN list : list[i] \in Containers
  OBVIOUS
<1>3. /\ new \in [DOMAIN list -> Containers] /\ DOMAIN new = DOMAIN list
      /\ \A i \in DOMAIN list : /\ new[i] = Defaulted(list[i])
                                /\ new[i].name = list[i].name /\ new[i].mounts = list[i].mounts
                                /\ Defaulted(new[i]) = new[i]
  BY <1>1, <1>2, DefaultedFacts
<1> HIDE DEF new
<1>4. /\ new \in Seq(Containers) /\ NamesOf(new) = NamesOf(list)
      /\ Distinct(list) => Distinct(new)
  BY <1>3, ReplacedFacts
<1>5. ASSUME NEW c \in ToSet(new) PROVE \E d \in ToSet(list) : c.mounts = d.mounts
  <2>1. PICK i \in DOMAIN list : c = new[i]
    BY <1>3 DEF ToSet
  <2>2. list[i] \in ToSet(list)
    BY DEF ToSet
  <2> QED BY <1>3, <2>1, <2>2
<1>6. WithDefaults(new) = new
  <2>1. WithDefaults(new) = [i \in DOMAIN new |-> Defaulted(new[i])]
    BY DEF WithDefaults, Defaulted
  <2>2. new = [i \in DOMAIN new |-> new[i]]
    BY <1>3
  <2> QED BY <1>3, <2>1, <2>2
<1> QED BY <1>3, <1>4, <1>5, <1>6 DEF new

\* A template as it is stored resolves if it did, and is stored as it is.
LEMMA StoredFacts ==
    ASSUME NEW tpl \in Templates
    PROVE  LET new == Stored(tpl)
           IN  /\ new \in Templates
               /\ new.labels = tpl.labels /\ new.rest = tpl.rest /\ new.volumes = tpl.volumes
               /\ new.containers = WithDefaults(tpl.containers)
               /\ new.inits = WithDefaults(tpl.inits)
               /\ NamesOf(new.containers) = NamesOf(tpl.containers)
               /\ NamesOf(new.inits) = NamesOf(tpl.inits)
               /\ Stored(new) = new
               /\ \A claims : Resolves(tpl, claims) => Resolves(new, claims)
<1> DEFINE new == Stored(tpl)
<1>1. tpl.containers \in Seq(Containers) /\ tpl.inits \in Seq(Containers)
  BY DEF Templates
<1>2. /\ WithDefaults(tpl.containers) \in Seq(Containers) /\ WithDefaults(tpl.inits) \in Seq(Containers)
  BY <1>1, WithDefaultsFacts
<1>3. /\ new \in Templates
      /\ new.labels = tpl.labels /\ new.rest = tpl.rest /\ new.volumes = tpl.volumes
      /\ new.containers = WithDefaults(tpl.containers)
      /\ new.inits = WithDefaults(tpl.inits)
  BY <1>2 DEF Stored, Templates
<1>4. /\ Stored(new) \in Templates
      /\ Stored(new).labels = new.labels /\ Stored(new).rest = new.rest
      /\ Stored(new).volumes = new.volumes
      /\ Stored(new).containers = WithDefaults(new.containers)
      /\ Stored(new).inits = WithDefaults(new.inits)
  <2>1. WithDefaults(new.containers) \in Seq(Containers) /\ WithDefaults(new.inits) \in Seq(Containers)
    BY <1>2, <1>3, WithDefaultsFacts
  <2> HIDE DEF new
  <2> QED BY <1>3, <2>1 DEF Stored, Templates
<1> HIDE DEF new
<1>5. WithDefaults(new.containers) = new.containers /\ WithDefaults(new.inits) = new.inits
  BY <1>1, <1>3, WithDefaultsFacts
<1>6. Stored(new) = new
  BY <1>3, <1>4, <1>5, TemplatesEqual
<1>7. NamesOf(new.containers) = NamesOf(tpl.containers) /\ NamesOf(new.inits) = NamesOf(tpl.inits)
  BY <1>1, <1>3, WithDefaultsFacts
<1>8. ASSUME NEW claims, Resolves(tpl, claims) PROVE Resolves(new, claims)
  <2>1. /\ \A c \in ToSet(tpl.containers) \cup ToSet(tpl.inits) :
             c.mounts \subseteq NamesOf(tpl.volumes) \cup NamesOf(claims)
        /\ Distinct(tpl.containers) /\ Distinct(tpl.inits)
        /\ NamesOf(tpl.containers) \cap NamesOf(tpl.inits) = {}
        /\ Distinct(tpl.volumes)
    BY <1>8, ResolvesFacts
  <2>2. Distinct(new.containers) /\ Distinct(new.inits)
    BY <1>1, <1>3, <2>1, WithDefaultsFacts
  <2>3. \A c \in ToSet(new.containers) : \E d \in ToSet(tpl.containers) : c.mounts = d.mounts
    BY <1>1, <1>3, WithDefaultsFacts
  <2>4. \A c \in ToSet(new.inits) : \E d \in ToSet(tpl.inits) : c.mounts = d.mounts
    BY <1>1, <1>3, WithDefaultsFacts
  <2>5. \A c \in ToSet(new.containers) \cup ToSet(new.inits) :
          c.mounts \subseteq NamesOf(new.volumes) \cup NamesOf(claims)
    BY <1>3, <2>1, <2>3, <2>4
  <2> QED BY <1>3, <1>7, <2>1, <2>2, <2>5, ResolvesFacts
<1> QED BY <1>3, <1>6, <1>7, <1>8 DEF new

\* Claim templates as they are stored have the names they had and are stored as they are.
LEMMA StoredClaimsFacts ==
    ASSUME NEW claims \in Seq(Claims)
    PROVE  LET new == StoredClaims(claims)
           IN  new \in Seq(Claims) /\ NamesOf(new) = NamesOf(claims) /\ StoredClaims(new) = new
<1> DEFINE new == StoredClaims(claims)
           Full(c) == [c EXCEPT !.mode = Filled(@), !.status = Filled(@)]
<1>1. new = [i \in DOMAIN claims |-> Full(claims[i])]
  BY DEF StoredClaims
<1>2. ASSUME NEW c \in Claims
      PROVE  Full(c) \in Claims /\ Full(c).name = c.name /\ Full(Full(c)) = Full(c)
  <2> DEFINE With(x, v, w) == [x EXCEPT !.mode = v, !.status = w]
             d == Full(c)
  <2>1. ASSUME NEW x \in Claims, NEW v \in Values, NEW w \in Values
        PROVE  With(x, v, w) = [name |-> x.name, size |-> x.size, mode |-> v, status |-> w]
    <3> DEFINE y == [x EXCEPT !.mode = v]
    <3>1. y = [name |-> x.name, size |-> x.size, mode |-> v, status |-> x.status]
      BY DEF Claims
    <3>2. With(x, v, w) = [y EXCEPT !.status = w]
      OBVIOUS
    <3> HIDE DEF y, With
    <3> QED BY <3>1, <3>2
  <2>2. \A x : Full(x) = With(x, Filled(x.mode), Filled(x.status))
    OBVIOUS
  <2> HIDE DEF With, Full
  <2>3. \A x \in Claims : Filled(x.mode) \in Values /\ Filled(x.status) \in Values
    BY FilledFacts DEF Claims
  <2>4. d = [name |-> c.name, size |-> c.size, mode |-> Filled(c.mode), status |-> Filled(c.status)]
    BY <2>1, <2>2, <2>3
  <2>5. d \in Claims
    BY <2>3, <2>4 DEF Claims
  <2> HIDE DEF d
  <2>6. Full(d) = [name |-> d.name, size |-> d.size, mode |-> Filled(d.mode), status |-> Filled(d.status)]
    BY <2>1, <2>2, <2>3, <2>5
  <2>7. Filled(d.mode) = d.mode /\ Filled(d.status) = d.status
    BY <2>4, FilledFacts
  <2>8. Full(d) = d
    BY <2>4, <2>6, <2>7
  <2> QED BY <2>4, <2>5, <2>8 DEF d
<1>3. \A i \in DOMAIN claims : claims[i] \in Claims
  OBVIOUS
<1>4. StoredClaims(new) = [i \in DOMAIN new |-> Full(new[i])]
  BY DEF StoredClaims
<1> HIDE DEF Full, new
<1>5. /\ new \in [DOMAIN claims -> Claims] /\ DOMAIN new = DOMAIN claims
      /\ \A i \in DOMAIN claims : new[i].name = claims[i].name /\ Full(new[i]) = new[i]
  BY <1>1, <1>2, <1>3
<1>6. new \in Seq(Claims) /\ NamesOf(new) = NamesOf(claims)
  BY <1>5, ReplacedFacts
<1>7. new = [i \in DOMAIN new |-> new[i]]
  BY <1>5
<1>8. StoredClaims(new) = new
  BY <1>4, <1>5, <1>7
<1> QED BY <1>6, <1>8 DEF new

\* A patch leaves a template, stored, each part of it as it was or as it was sent; and
\* what was sent, stored, where nobody wrote since the read.
LEMMA PatchedFacts ==
    ASSUME NEW have \in Templates, NEW base \in Templates, NEW sent \in Templates
    PROVE  LET new == Patched(have, base, sent)
           IN  /\ new \in Templates /\ Stored(new) = new
               /\ NamesOf(new.containers) \in {NamesOf(have.containers), NamesOf(sent.containers)}
               /\ NamesOf(new.inits) \in {NamesOf(have.inits), NamesOf(sent.inits)}
               /\ have = base => new = Stored(sent)
<1> DEFINE p == [f \in DOMAIN have |-> IF sent[f] = base[f] THEN have[f] ELSE sent[f]]
<1>1. DOMAIN have = {"labels", "rest", "containers", "inits", "volumes"}
  BY DEF Templates
<1>2. p = [labels     |-> IF sent.labels = base.labels THEN have.labels ELSE sent.labels,
           rest       |-> IF sent.rest = base.rest THEN have.rest ELSE sent.rest,
           containers |-> IF sent.containers = base.containers THEN have.containers ELSE sent.containers,
           inits      |-> IF sent.inits = base.inits THEN have.inits ELSE sent.inits,
           volumes    |-> IF sent.volumes = base.volumes THEN have.volumes ELSE sent.volumes]
  BY <1>1
<1>3. Patched(have, base, sent) = Stored(p)
  BY DEF Patched
<1> HIDE DEF p
<1>4. p \in Templates
  BY <1>2 DEF Templates
<1>5. /\ p.containers \in {have.containers, sent.containers}
      /\ p.inits \in {have.inits, sent.inits}
  BY <1>2
<1>6. have = base => p = sent
  <2>1. have = base => /\ p.labels = sent.labels /\ p.rest = sent.rest
                       /\ p.containers = sent.containers /\ p.inits = sent.inits
                       /\ p.volumes = sent.volumes
    BY <1>2
  <2> QED BY <1>4, <2>1, TemplatesEqual
<1> QED BY <1>3, <1>4, <1>5, <1>6, StoredFacts

-----------------------------------------------------------------------------
(* What users and others must not do *)

\* Users write pod parts that resolve by themselves.
PharesResolve == \A p \in PodSpecs : Resolves(Build(p), p.claims)

\* Nobody renames, adds or removes a claim: claim templates are immutable.
ClaimsKeepNames == \A p, q \in PodSpecs : NamesOf(p.claims) = NamesOf(q.claims)

\* The names that users or others give to elements of a list of containers.
NamesAsked(list) == UNION {NamesOf(Build(p)[list]) : p \in PodSpecs}

NamesGiven(list) == {sidecar.container.name : sidecar \in {s \in Sidecars : s.list = list}}

NamesIn(list) == NamesAsked(list) \cup NamesGiven(list)

\* No name is given to a container and to an init container.
NothingMoves == NamesIn("containers") \cap NamesIn("inits") = {}

\* No sidecar has the name of a container that a user asks for.
SidecarsApart ==
    \A p \in PodSpecs :
      InjectedNames \cap (NamesOf(Build(p).containers) \cup NamesOf(Build(p).inits)) = {}

-----------------------------------------------------------------------------
(* The invariants *)

\* The names in a workload were given by users or others, and its claims are theirs.
Listed(workload) ==
    /\ NamesOf(workload.tpl.containers) \subseteq NamesIn("containers")
    /\ NamesOf(workload.tpl.inits) \subseteq NamesIn("inits")
    /\ \A p \in PodSpecs : NamesOf(p.claims) = NamesOf(workload.claims)

\* Holds with the workload, and with what is sent, which resolves.
ListedInv ==
    /\ live # Nothing => Listed(live)
    /\ pass # Nothing => Listed(pass.sent) /\ MergeResolves

\* What is sent to a workload that exists is the merge of what was read and a pod part.
SentIsMerge ==
    pass # Nothing /\ pass.base # Nothing =>
      \E p \in PodSpecs : pass.sent = [pass.base EXCEPT !.tpl = Merge(pass.base.tpl, Build(p))]

-----------------------------------------------------------------------------
(* What others do to a template *)

\* A touched container keeps its name and mounts, and is stored if it was.
LEMMA TouchedFacts ==
    ASSUME NEW c \in Containers, NEW field \in {"managed", "timing", "other"}
    PROVE  LET new == [c EXCEPT ![field] = "touched"]
           IN  /\ new \in Containers /\ new.name = c.name /\ new.mounts = c.mounts
               /\ Defaulted(c) = c => Defaulted(new) = new
<1> DEFINE new == [c EXCEPT ![field] = "touched"]
<1>1. "touched" \in Values /\ Filled("touched") = "touched"
  BY TemplateAssumption DEF Filled
<1>2. c = [name |-> c.name, managed |-> c.managed, defaulted |-> c.defaulted,
           timing |-> c.timing, other |-> c.other, mounts |-> c.mounts]
  BY DefaultedFields
<1>3. /\ new \in Containers /\ new.name = c.name /\ new.mounts = c.mounts
      /\ new.defaulted = c.defaulted /\ new.timing \in {c.timing, "touched"}
      /\ new.other \in {c.other, "touched"}
  <2>1. CASE field = "managed"
    BY <1>1, <2>1 DEF Containers
  <2>2. CASE field = "timing"
    BY <1>1, <2>2 DEF Containers
  <2>3. CASE field = "other"
    BY <1>1, <2>3 DEF Containers
  <2> QED BY <2>1, <2>2, <2>3
<1> HIDE DEF new
<1>4. ASSUME Defaulted(c) = c PROVE Defaulted(new) = new
  <2>1. Filled(c.defaulted) = c.defaulted /\ Filled(c.timing) = c.timing /\ Filled(c.other) = c.other
    BY <1>4, DefaultedParts
  <2> QED BY <1>1, <1>3, <2>1, DefaultedParts
<1> QED BY <1>3, <1>4 DEF new

\* The template that a touch makes.
TouchedAt(tpl, i, field) == [tpl EXCEPT !.containers[i][field] = "touched"]

\* A template with a touched container has the names and mounts it had.
LEMMA TouchKeeps ==
    ASSUME NEW tpl \in Templates, Stored(tpl) = tpl,
           NEW i \in DOMAIN tpl.containers, NEW field \in {"managed", "timing", "other"}
    PROVE  LET new == TouchedAt(tpl, i, field)
           IN  /\ new \in Templates /\ Stored(new) = new
               /\ NamesOf(new.containers) = NamesOf(tpl.containers) /\ new.inits = tpl.inits
               /\ \A claims : Resolves(tpl, claims) => Resolves(new, claims)
<1> DEFINE old == tpl.containers
           c == [old[i] EXCEPT ![field] = "touched"]
           list == [old EXCEPT ![i] = c]
           new == TouchedAt(tpl, i, field)
<1>1. old \in Seq(Containers) /\ DOMAIN old = 1 .. Len(old) /\ old[i] \in Containers
  BY DEF Templates
<1>2. WithDefaults(old) = old
  BY StoredFacts
<1>3. \A j \in DOMAIN old : Defaulted(old[j]) = old[j]
  BY <1>1, <1>2, WithDefaultsFacts
<1>4. c \in Containers /\ c.name = old[i].name /\ c.mounts = old[i].mounts /\ Defaulted(c) = c
  BY <1>1, <1>3, TouchedFacts
<1>5. new = [tpl EXCEPT !.containers = list]
  BY DEF TouchedAt
<1> HIDE DEF c
<1>6. /\ list \in [DOMAIN old -> Containers] /\ DOMAIN list = DOMAIN old
      /\ \A j \in DOMAIN old : /\ list[j].name = old[j].name /\ list[j].mounts = old[j].mounts
                               /\ Defaulted(list[j]) = list[j]
  BY <1>1, <1>3, <1>4
<1> HIDE DEF list
<1>7. /\ list \in Seq(Containers) /\ NamesOf(list) = NamesOf(old)
      /\ Distinct(old) => Distinct(list)
  <2>1. PICK S : S = Containers
    OBVIOUS
  <2>2. old \in Seq(S) /\ list \in [DOMAIN old -> S]
    BY <1>1, <1>6, <2>1
  <2>3. \A j \in DOMAIN old : list[j].name = old[j].name
    BY <1>6
  <2>4. /\ list \in Seq(S) /\ NamesOf(list) = NamesOf(old)
        /\ Distinct(old) => Distinct(list)
    BY <2>2, <2>3, ReplacedFacts, Zenon
  <2> QED BY <2>1, <2>4
<1>8. WithDefaults(list) = list
  <2>1. WithDefaults(list) = [j \in DOMAIN list |-> Defaulted(list[j])]
    BY DEF WithDefaults, Defaulted
  <2>2. list = [j \in DOMAIN list |-> list[j]]
    BY <1>6
  <2> QED BY <1>6, <2>1, <2>2
<1>9. /\ new \in Templates /\ new.containers = list /\ new.inits = tpl.inits
      /\ new.volumes = tpl.volumes /\ new.labels = tpl.labels /\ new.rest = tpl.rest
  BY <1>5, <1>7 DEF Templates
<1> HIDE DEF new
<1>10. Stored(new) = new
  <2>1. /\ Stored(new) \in Templates
        /\ Stored(new).labels = new.labels /\ Stored(new).rest = new.rest
        /\ Stored(new).volumes = new.volumes
        /\ Stored(new).containers = WithDefaults(new.containers)
        /\ Stored(new).inits = WithDefaults(new.inits)
    BY <1>9, StoredFacts
  <2>2. WithDefaults(tpl.inits) = tpl.inits
    BY StoredFacts
  <2> QED BY <1>8, <1>9, <2>1, <2>2, TemplatesEqual
<1>11. ASSUME NEW claims, Resolves(tpl, claims) PROVE Resolves(new, claims)
  <2>1. /\ \A d \in ToSet(old) \cup ToSet(tpl.inits) :
             d.mounts \subseteq NamesOf(tpl.volumes) \cup NamesOf(claims)
        /\ Distinct(old) /\ Distinct(tpl.inits) /\ NamesOf(old) \cap NamesOf(tpl.inits) = {}
        /\ Distinct(tpl.volumes)
    BY <1>11, ResolvesFacts
  <2>2. ASSUME NEW d \in ToSet(list) PROVE \E e \in ToSet(old) : d.mounts = e.mounts
    <3>1. PICK j \in DOMAIN old : d = list[j]
      BY <1>6 DEF ToSet
    <3>2. old[j] \in ToSet(old)
      BY DEF ToSet
    <3> QED BY <1>6, <3>1, <3>2
  <2>3. \A d \in ToSet(list) \cup ToSet(tpl.inits) :
          d.mounts \subseteq NamesOf(tpl.volumes) \cup NamesOf(claims)
    BY <2>1, <2>2
  <2> HIDE DEF old
  <2> QED BY <1>7, <1>9, <2>1, <2>3, ResolvesFacts DEF old
<1> QED BY <1>7, <1>9, <1>10, <1>11 DEF new

\* The template that an injection makes.
InjectedInto(tpl, sidecar) ==
    [tpl EXCEPT ![sidecar.list] = Append(@, sidecar.container),
                !.volumes = @ \o Without(sidecar.volumes, NamesOf(@))]

\* It is a template; its lists have one more name under the name of the list.
LEMMA InjectedFacts ==
    ASSUME NEW tpl \in Templates, NEW sidecar \in Sidecars
    PROVE  LET new == InjectedInto(tpl, sidecar)
           IN  /\ new \in Templates
               /\ NamesOf(new.containers) \subseteq NamesOf(tpl.containers) \cup
                    (IF sidecar.list = "containers" THEN {sidecar.container.name} ELSE {})
               /\ NamesOf(new.inits) \subseteq NamesOf(tpl.inits) \cup
                    (IF sidecar.list = "inits" THEN {sidecar.container.name} ELSE {})
<1> DEFINE new == InjectedInto(tpl, sidecar)
           vols == tpl.volumes \o Without(sidecar.volumes, NamesOf(tpl.volumes))
           Plus(list) == Append(list, sidecar.container)
<1>1. /\ sidecar.list \in {"containers", "inits"} /\ sidecar.container \in Containers
      /\ sidecar.volumes \in Seq(Volumes)
  BY RolloutAssumption
<1>2. tpl.containers \in Seq(Containers) /\ tpl.inits \in Seq(Containers) /\ tpl.volumes \in Seq(Volumes)
  BY DEF Templates
<1>3. vols \in Seq(Volumes)
  BY <1>1, <1>2, WithoutFacts, ConcatProperties
<1>4. ASSUME NEW list \in Seq(Containers)
      PROVE  Plus(list) \in Seq(Containers) /\ NamesOf(Plus(list)) = NamesOf(list) \cup {sidecar.container.name}
  <2>1. \A x : x \in ToSet(Plus(list)) <=> x \in ToSet(list) \/ x = sidecar.container
    BY <1>1, AppendElements
  <2>2. Plus(list) \in Seq(Containers)
    BY <1>1, AppendProperties
  <2> HIDE DEF Plus
  <2> QED BY <2>1, <2>2, NamesOfElements
<1>5. CASE sidecar.list = "containers"
  <2> DEFINE y == [tpl EXCEPT !.containers = Plus(tpl.containers)]
  <2>1. new = [y EXCEPT !.volumes = vols]
    <3>1. y.volumes = tpl.volumes
      BY DEF Templates
    <3>2. new = [[tpl EXCEPT !.containers = Plus(tpl.containers)] EXCEPT !.volumes = vols]
      BY <1>5, <3>1 DEF InjectedInto
    <3> QED BY <3>2
  <2> HIDE DEF vols, Plus, new
  <2>2. /\ y \in Templates /\ y.containers = Plus(tpl.containers) /\ y.inits = tpl.inits
    BY <1>2, <1>4 DEF Templates
  <2> HIDE DEF y
  <2>3. new \in Templates /\ new.containers = y.containers /\ new.inits = y.inits
    BY <1>3, <2>1, <2>2 DEF Templates
  <2> QED BY <1>2, <1>4, <1>5, <2>2, <2>3 DEF new
<1>6. CASE sidecar.list = "inits"
  <2> DEFINE y == [tpl EXCEPT !.inits = Plus(tpl.inits)]
  <2>1. new = [y EXCEPT !.volumes = vols]
    <3>1. y.volumes = tpl.volumes
      BY DEF Templates
    <3>2. new = [[tpl EXCEPT !.inits = Plus(tpl.inits)] EXCEPT !.volumes = vols]
      BY <1>6, <3>1 DEF InjectedInto
    <3> QED BY <3>2
  <2> HIDE DEF vols, Plus, new
  <2>2. /\ y \in Templates /\ y.inits = Plus(tpl.inits) /\ y.containers = tpl.containers
    BY <1>2, <1>4 DEF Templates
  <2> HIDE DEF y
  <2>3. new \in Templates /\ new.containers = y.containers /\ new.inits = y.inits
    BY <1>3, <2>1, <2>2 DEF Templates
  <2> QED BY <1>2, <1>4, <1>6, <2>2, <2>3 DEF new
<1> QED BY <1>1, <1>5, <1>6

-----------------------------------------------------------------------------
(* The type invariant *)

\* A workload with another template.
LEMMA WithTemplate ==
    ASSUME NEW w \in Workloads, NEW tpl \in Templates
    PROVE  LET new == [w EXCEPT !.tpl = tpl]
           IN  /\ new \in Workloads
               /\ new.tpl = tpl /\ new.claims = w.claims /\ new.selector = w.selector
BY DEF Workloads

\* What may be in the cluster: a workload that the API server accepts, as it stores it.
StoredWorkload(w) ==
    /\ w \in Workloads /\ Valid(w)
    /\ w.tpl = Stored(w.tpl) /\ w.claims = StoredClaims(w.claims)

LEMMA InitTypeOK == Init => TypeOK
<1> SUFFICES ASSUME Init PROVE TypeOK
  OBVIOUS
<1> QED BY RolloutAssumption DEF Init, TypeOK

\* Whatever step leaves such a workload, or none, keeps the type invariant if it keeps
\* the rest of it.
LEMMA TypeOKOfLive ==
    ASSUME TypeOK
    PROVE  live # Nothing => StoredWorkload(live) /\ live.tpl \in Templates
<1> SUFFICES ASSUME live # Nothing PROVE StoredWorkload(live) /\ live.tpl \in Templates
  OBVIOUS
<1>1. live \in Workloads
  BY DEF TypeOK
<1>2. live.tpl \in Templates
  BY <1>1 DEF Workloads
<1> QED BY <1>1, <1>2 DEF TypeOK, StoredWorkload

\* Begin sends a workload.
LEMMA BeginTypeOK ==
    ASSUME TypeOK, Begin
    PROVE  TypeOK'
<1>1. spec \in Specs /\ spec \in PodSpecs
  BY RolloutAssumption DEF TypeOK
<1>2. NewWorkload(spec) \in Workloads /\ NewWorkload(spec).tpl \in Templates
  BY <1>1, BuildTyped DEF Workloads
<1>3. pass' \in Passes /\ (pass'.base # Nothing => live # Nothing)
  <2>1. CASE live = Nothing
    <3>1. pass' = [base |-> Nothing, sent |-> NewWorkload(spec), warned |-> FALSE]
      BY <2>1 DEF Begin
    <3> QED BY <1>2, <3>1 DEF Passes
  <2>2. CASE live # Nothing
    <3>1. live \in Workloads /\ live.tpl \in Templates
      BY <2>2, TypeOKOfLive DEF StoredWorkload
    <3>2. Merge(live.tpl, NewWorkload(spec).tpl) \in Templates
      BY <1>2, <3>1, MergeParts
    <3>3. [live EXCEPT !.tpl = Merge(live.tpl, NewWorkload(spec).tpl)] \in Workloads
      BY <3>1, <3>2, WithTemplate
    <3>4. pass' = [base |-> live,
                   sent |-> [live EXCEPT !.tpl = Merge(live.tpl, NewWorkload(spec).tpl)],
                   warned |-> ~VctEqual(live.claims, NewWorkload(spec).claims)]
      BY <2>2 DEF Begin
    <3>5. (~VctEqual(live.claims, NewWorkload(spec).claims)) \in BOOLEAN
      BY DEF VctEqual
    <3> QED BY <2>2, <3>1, <3>3, <3>4, <3>5 DEF Passes
  <2> QED BY <2>1, <2>2
<1>4. dirty' = FALSE /\ UNCHANGED <<spec, live, edits, others>>
  BY DEF Begin
<1> QED BY <1>3, <1>4 DEF TypeOK

\* What Create leaves is stored.
LEMMA CreateStores ==
    ASSUME TypeOK, Create
    PROVE  live' = Nothing \/ (StoredWorkload(live') /\ live'.tpl = Stored(pass.sent.tpl)
                               /\ NamesOf(live'.claims) = NamesOf(pass.sent.claims))
<1>1. pass.sent \in Workloads
  BY DEF TypeOK, Create, Passes
<1>2. pass.sent.tpl \in Templates /\ pass.sent.claims \in Seq(Claims)
  BY <1>1 DEF Workloads
<1> DEFINE new == [pass.sent EXCEPT !.tpl = Stored(@), !.claims = StoredClaims(@)]
           y == [pass.sent EXCEPT !.tpl = Stored(pass.sent.tpl)]
<1>3. live' = IF Valid(pass.sent) THEN new ELSE Nothing
  BY DEF Create
<1>4. /\ Stored(pass.sent.tpl) \in Templates /\ StoredClaims(pass.sent.claims) \in Seq(Claims)
      /\ Stored(Stored(pass.sent.tpl)) = Stored(pass.sent.tpl)
      /\ Stored(pass.sent.tpl).labels = pass.sent.tpl.labels
      /\ StoredClaims(StoredClaims(pass.sent.claims)) = StoredClaims(pass.sent.claims)
      /\ NamesOf(StoredClaims(pass.sent.claims)) = NamesOf(pass.sent.claims)
  BY <1>2, StoredFacts, StoredClaimsFacts
<1>5. /\ y \in Workloads /\ y.tpl = Stored(pass.sent.tpl) /\ y.claims = pass.sent.claims
      /\ y.selector = pass.sent.selector
  BY <1>1, <1>4, WithTemplate
<1>6. new = [y EXCEPT !.claims = StoredClaims(pass.sent.claims)]
  OBVIOUS
<1> HIDE DEF y, new
<1>7. /\ new \in Workloads /\ new.tpl = Stored(pass.sent.tpl)
      /\ new.claims = StoredClaims(pass.sent.claims) /\ new.selector = pass.sent.selector
  BY <1>4, <1>5, <1>6 DEF Workloads
<1>8. ASSUME Valid(pass.sent) PROVE Valid(new)
  <2>1. Resolves(Stored(pass.sent.tpl), pass.sent.claims)
    BY <1>2, <1>8, StoredFacts DEF Valid
  <2>2. Resolves(new.tpl, new.claims)
    BY <1>4, <1>7, <2>1 DEF Resolves
  <2> QED BY <1>4, <1>7, <1>8, <2>2 DEF Valid
<1> QED BY <1>3, <1>4, <1>7, <1>8 DEF StoredWorkload

LEMMA CreateTypeOK ==
    ASSUME TypeOK, Create
    PROVE  TypeOK'
<1>1. live' = Nothing \/ StoredWorkload(live')
  BY CreateStores
<1>2. dirty' = TRUE /\ pass' = Nothing /\ UNCHANGED <<spec, edits, others>>
  BY DEF Create
<1> QED BY <1>1, <1>2 DEF TypeOK, StoredWorkload

\* The workload that a patch makes of the one that is there.
PatchedLive == [live EXCEPT !.tpl = Patched(live.tpl, pass.base.tpl, pass.sent.tpl)]

\* What PatchWorkload leaves: that one, stored, or the old one.
LEMMA PatchStores ==
    ASSUME TypeOK, PatchWorkload
    PROVE  /\ live # Nothing
           /\ live' = live \/ (live' = PatchedLive /\ StoredWorkload(live'))
           /\ PatchedLive \in Workloads /\ PatchedLive.claims = live.claims
           /\ PatchedLive.tpl = Patched(live.tpl, pass.base.tpl, pass.sent.tpl)
<1>1. pass # Nothing /\ pass.base # Nothing
  BY DEF PatchWorkload
<1>2. pass.sent \in Workloads /\ pass.base \in Workloads /\ live # Nothing
  BY <1>1 DEF TypeOK, Passes
<1>3. StoredWorkload(live) /\ live.tpl \in Templates /\ live \in Workloads
  BY <1>2, TypeOKOfLive DEF StoredWorkload
<1>4. pass.sent.tpl \in Templates /\ pass.base.tpl \in Templates
  BY <1>2 DEF Workloads
<1> DEFINE tpl == Patched(live.tpl, pass.base.tpl, pass.sent.tpl)
<1>5. tpl \in Templates /\ Stored(tpl) = tpl
  BY <1>3, <1>4, PatchedFacts
<1>6. live' = IF Valid(PatchedLive) THEN PatchedLive ELSE live
  BY DEF PatchWorkload, PatchedLive
<1> HIDE DEF tpl
<1>7. PatchedLive = [live EXCEPT !.tpl = tpl]
  BY DEF PatchedLive, tpl
<1>8. PatchedLive \in Workloads /\ PatchedLive.tpl = tpl /\ PatchedLive.claims = live.claims
  BY <1>3, <1>5, <1>7, WithTemplate
<1>9. Valid(PatchedLive) => StoredWorkload(PatchedLive)
  BY <1>3, <1>5, <1>8 DEF StoredWorkload
<1> QED BY <1>2, <1>6, <1>8, <1>9 DEF tpl

LEMMA PatchTypeOK ==
    ASSUME TypeOK, PatchWorkload
    PROVE  TypeOK'
<1>1. live # Nothing /\ (live' = live \/ StoredWorkload(live'))
  BY PatchStores
<1>2. StoredWorkload(live')
  BY <1>1, TypeOKOfLive
<1>3. pass' = Nothing /\ UNCHANGED <<spec, edits, others>>
  BY DEF PatchWorkload
<1>4. dirty' \in BOOLEAN
  BY DEF PatchWorkload, TypeOK
<1> QED BY <1>2, <1>3, <1>4 DEF TypeOK, StoredWorkload

\* What an injection leaves is stored.
LEMMA InjectStores ==
    ASSUME TypeOK, Inject
    PROVE  /\ live # Nothing /\ StoredWorkload(live')
           /\ \E sidecar \in Sidecars :
                live' = [live EXCEPT !.tpl = Stored(InjectedInto(live.tpl, sidecar))]
<1>1. live # Nothing /\ StoredWorkload(live) /\ live.tpl \in Templates /\ live \in Workloads
  BY TypeOKOfLive DEF Inject, StoredWorkload
<1>2. PICK sidecar \in Sidecars :
        /\ Valid([live EXCEPT !.tpl = InjectedInto(live.tpl, sidecar)])
        /\ live' = [live EXCEPT !.tpl = Stored(InjectedInto(live.tpl, sidecar))]
  BY DEF Inject, InjectedInto
<1> DEFINE tpl == InjectedInto(live.tpl, sidecar)
<1>3. tpl \in Templates
  BY <1>1, InjectedFacts
<1>4. /\ Stored(tpl) \in Templates /\ Stored(Stored(tpl)) = Stored(tpl) /\ Stored(tpl).labels = tpl.labels
      /\ \A claims : Resolves(tpl, claims) => Resolves(Stored(tpl), claims)
  BY <1>3, StoredFacts
<1> HIDE DEF tpl
<1> DEFINE raw == [live EXCEPT !.tpl = tpl]
           new == [live EXCEPT !.tpl = Stored(tpl)]
<1>5. raw.tpl = tpl /\ raw.claims = live.claims /\ raw.selector = live.selector
  BY <1>1, <1>3, WithTemplate
<1>6. new \in Workloads /\ new.tpl = Stored(tpl) /\ new.claims = live.claims /\ new.selector = live.selector
  BY <1>1, <1>4, WithTemplate
<1>7. Valid(raw) /\ live' = new
  BY <1>2 DEF tpl
<1> HIDE DEF raw, new
<1>8. Valid(new)
  BY <1>4, <1>5, <1>6, <1>7 DEF Valid
<1>9. StoredWorkload(live')
  BY <1>1, <1>4, <1>6, <1>7, <1>8 DEF StoredWorkload
<1> QED BY <1>1, <1>2, <1>9

LEMMA InjectTypeOK ==
    ASSUME TypeOK, Inject
    PROVE  TypeOK'
<1>1. live # Nothing /\ StoredWorkload(live')
  BY InjectStores
<1>2. live' # Nothing
  BY <1>1, RolloutAssumption DEF StoredWorkload
<1>3. dirty' = TRUE /\ UNCHANGED <<spec, pass, edits>>
  BY DEF Inject
<1>4. others' \in 0 .. MaxOthers
  <2>1. others > 0 /\ others' = others - 1
    BY DEF Inject
  <2>2. others \in 0 .. MaxOthers /\ MaxOthers \in Nat
    BY RolloutAssumption DEF TypeOK
  <2> QED BY <2>1, <2>2
<1> QED BY <1>1, <1>2, <1>3, <1>4 DEF TypeOK, StoredWorkload

\* What a touch leaves is stored.
LEMMA TouchStores ==
    ASSUME TypeOK, Touch
    PROVE  /\ live # Nothing /\ StoredWorkload(live') /\ live'.claims = live.claims
           /\ NamesOf(live'.tpl.containers) = NamesOf(live.tpl.containers)
           /\ live'.tpl.inits = live.tpl.inits
<1>1. live # Nothing /\ StoredWorkload(live) /\ live.tpl \in Templates /\ live \in Workloads
  BY TypeOKOfLive DEF Touch, StoredWorkload
<1>2. PICK i \in DOMAIN live.tpl.containers, field \in {"managed", "timing", "other"} :
        live' = [live EXCEPT !.tpl.containers[i][field] = "touched"]
  BY DEF Touch
<1> DEFINE tpl == TouchedAt(live.tpl, i, field)
           new == [live EXCEPT !.tpl = tpl]
<1>3. live' = new
  BY <1>2 DEF TouchedAt
<1>4. /\ tpl \in Templates /\ Stored(tpl) = tpl /\ tpl.inits = live.tpl.inits
      /\ NamesOf(tpl.containers) = NamesOf(live.tpl.containers)
      /\ \A claims : Resolves(live.tpl, claims) => Resolves(tpl, claims)
  <2>1. Stored(live.tpl) = live.tpl
    BY <1>1 DEF StoredWorkload
  <2> HIDE DEF new
  <2> QED BY <1>1, <2>1, TouchKeeps
<1>5. tpl.labels = live.tpl.labels
  BY <1>1 DEF Templates, TouchedAt
<1> HIDE DEF tpl
<1>6. new \in Workloads /\ new.tpl = tpl /\ new.claims = live.claims /\ new.selector = live.selector
  BY <1>1, <1>4, WithTemplate
<1> HIDE DEF new
<1>7. Valid(new)
  BY <1>1, <1>4, <1>5, <1>6 DEF Valid, StoredWorkload
<1> QED BY <1>1, <1>3, <1>4, <1>6, <1>7 DEF StoredWorkload

LEMMA TouchTypeOK ==
    ASSUME TypeOK, Touch
    PROVE  TypeOK'
<1>1. live # Nothing /\ StoredWorkload(live')
  BY TouchStores
<1>2. live' # Nothing
  BY <1>1, RolloutAssumption DEF StoredWorkload
<1>3. dirty' = TRUE /\ UNCHANGED <<spec, pass, edits>>
  BY DEF Touch
<1>4. others' \in 0 .. MaxOthers
  <2>1. others > 0 /\ others' = others - 1
    BY DEF Touch
  <2>2. others \in 0 .. MaxOthers /\ MaxOthers \in Nat
    BY RolloutAssumption DEF TypeOK
  <2> QED BY <2>1, <2>2
<1> QED BY <1>1, <1>2, <1>3, <1>4 DEF TypeOK, StoredWorkload

LEMMA NextTypeOK ==
    ASSUME TypeOK, [Next]_vars
    PROVE  TypeOK'
<1>1. CASE Keep
  BY <1>1 DEF Keep, TypeOK
<1>2. CASE EditSpec
  BY <1>2, RolloutAssumption DEF EditSpec, TypeOK
<1>3. CASE UNCHANGED vars
  BY <1>3 DEF vars, TypeOK
<1> QED
  BY <1>1, <1>2, <1>3, BeginTypeOK, CreateTypeOK, PatchTypeOK, InjectTypeOK, TouchTypeOK
  DEF Next, Controller

\* Whatever pod parts and sidecars there are: the workload in the cluster is one that
\* the API server accepts, stored with its defaults, and what a pass under way sends is
\* a workload (reconcileDeployment, reconcileStatefulSet).
THEOREM WorkloadTypes == Spec => []TypeOK
<1>1. Init => TypeOK
  BY InitTypeOK
<1>2. TypeOK /\ [Next]_vars => TypeOK'
  BY NextTypeOK
<1> QED BY <1>1, <1>2, PTL DEF Spec

-----------------------------------------------------------------------------
(* A pass that comes back after its own write finds nothing to do *)

\* Containers among which every desired one is as it is desired.
TookContainers(list, desired) ==
    /\ NamesOf(desired) \subseteq NamesOf(list)
    /\ \A c \in ToSet(list) : c.name \in NamesOf(desired) => MergeContainer(c, Named(desired, c.name)) = c

\* Volumes among which every desired one is as it is desired, the others being mounted.
TookVolumes(list, desired, mounted) ==
    /\ NamesOf(desired) \subseteq NamesOf(list)
    /\ NamesOf(list) \subseteq NamesOf(desired) \cup mounted
    /\ \A v \in ToSet(list) : v.name \in NamesOf(desired) => Named(desired, v.name) = v

\* A template that a merge with the desired one has made, or the desired one itself.
Took(tpl, desired) ==
    /\ tpl.labels = desired.labels /\ tpl.rest = desired.rest
    /\ TookContainers(tpl.containers, desired.containers)
    /\ TookContainers(tpl.inits, desired.inits)
    /\ TookVolumes(tpl.volumes, desired.volumes, MountedVolumeNames(tpl.containers, tpl.inits))

\* No compared field is left out.
NothingLeftOut(list) == \A c \in ToSet(list) : c.defaulted # Unset

\* A merge of containers or of volumes takes the desired ones over.
LEMMA MergeContainersTakes ==
    ASSUME NEW existing \in Seq(Containers), NEW desired \in Seq(Containers), Distinct(desired)
    PROVE  TookContainers(MergeContainers(existing, desired), desired)
<1> DEFINE new == MergeContainers(existing, desired)
<1>1. /\ NamesOf(new) = NamesOf(existing) \cup NamesOf(desired)
      /\ \A c \in ToSet(new) : c.name \in NamesOf(desired) => MergeContainer(c, Named(desired, c.name)) = c
  BY MergeContainersFacts
<1> HIDE DEF new
<1>2. TookContainers(new, desired)
  BY <1>1 DEF TookContainers
<1> QED BY <1>2 DEF new

LEMMA MergeVolumesTakes ==
    ASSUME NEW existing \in Seq(Volumes), NEW desired \in Seq(Volumes), Distinct(desired),
           NEW containers, NEW inits
    PROVE  TookVolumes(MergeVolumes(existing, desired, containers, inits), desired,
                       MountedVolumeNames(containers, inits))
<1> DEFINE new == MergeVolumes(existing, desired, containers, inits)
           mounted == MountedVolumeNames(containers, inits)
<1>1. /\ NamesOf(new) = NamesOf(desired) \cup (NamesOf(existing) \cap mounted)
      /\ \A v \in ToSet(new) : v.name \in NamesOf(desired) => Named(desired, v.name) = v
  BY MergeVolumesFacts
<1> HIDE DEF new, mounted
<1>2. TookVolumes(new, desired, mounted)
  BY <1>1 DEF TookVolumes
<1> QED BY <1>2 DEF new, mounted

\* Merging them again changes nothing where the same is mounted.
LEMMA MergeVolumesSettles ==
    ASSUME NEW new \in Seq(Volumes), NEW desired \in Seq(Volumes), NEW containers, NEW inits,
           TookVolumes(new, desired, MountedVolumeNames(containers, inits))
    PROVE  MergeVolumes(new, desired, containers, inits) = new
<1> DEFINE mounted == MountedVolumeNames(containers, inits)
           kept == Within(new, NamesOf(desired) \cup mounted)
           over == [i \in DOMAIN kept |-> IF kept[i].name \in NamesOf(desired)
                                          THEN Named(desired, kept[i].name) ELSE kept[i]]
<1>1. MergeVolumes(new, desired, containers, inits) = over \o Without(desired, NamesOf(new))
  BY DEF MergeVolumes
<1> HIDE DEF mounted
<1>2. kept = new
  BY WithinFacts DEF mounted, TookVolumes
<1>3. Without(desired, NamesOf(new)) = <<>>
  BY WithoutFacts DEF TookVolumes
<1>4. over = new
  <2> HIDE DEF kept
  <2>1. \A i \in DOMAIN new : new[i] \in ToSet(new)
    BY DEF ToSet
  <2>2. over = [i \in DOMAIN new |-> new[i]]
    BY <1>2, <2>1 DEF TookVolumes
  <2>3. new = [i \in DOMAIN new |-> new[i]]
    OBVIOUS
  <2> QED BY <2>2, <2>3
<1>5. new \o <<>> = new
  BY ConcatEmptySeq
<1> QED BY <1>1, <1>3, <1>4, <1>5

\* A merge has taken the desired template over.
LEMMA MergeTakes ==
    ASSUME NEW existing \in Templates, NEW desired \in Templates, NEW wanted,
           Resolves(desired, wanted)
    PROVE  Took(Merge(existing, desired), desired)
<1> DEFINE new == Merge(existing, desired)
<1>1. /\ existing.containers \in Seq(Containers) /\ existing.inits \in Seq(Containers)
      /\ existing.volumes \in Seq(Volumes)
      /\ desired.containers \in Seq(Containers) /\ desired.inits \in Seq(Containers)
      /\ desired.volumes \in Seq(Volumes)
  BY DEF Templates
<1>2. Distinct(desired.containers) /\ Distinct(desired.inits) /\ Distinct(desired.volumes)
  BY ResolvesFacts
<1>3. /\ new \in Templates
      /\ new.labels = desired.labels /\ new.rest = desired.rest
      /\ new.containers = MergeContainers(existing.containers, desired.containers)
      /\ new.inits = MergeContainers(existing.inits, desired.inits)
      /\ new.volumes = MergeVolumes(existing.volumes, desired.volumes, new.containers, new.inits)
  BY MergeParts
<1> HIDE DEF new
<1>4. Took(new, desired)
  BY <1>1, <1>2, <1>3, MergeContainersTakes, MergeVolumesTakes DEF Took
<1> QED BY <1>4 DEF new

\* So has the desired template.
LEMMA DesiredTakes ==
    ASSUME NEW desired \in Templates, NEW wanted, Resolves(desired, wanted)
    PROVE  Took(desired, desired)
<1>1. /\ desired.containers \in Seq(Containers) /\ desired.inits \in Seq(Containers)
      /\ desired.volumes \in Seq(Volumes)
  BY DEF Templates
<1>2. Distinct(desired.containers) /\ Distinct(desired.inits) /\ Distinct(desired.volumes)
  BY ResolvesFacts
<1>3. ASSUME NEW list \in Seq(Containers), Distinct(list) PROVE TookContainers(list, list)
  <2>1. ASSUME NEW c \in ToSet(list) PROVE MergeContainer(c, Named(list, c.name)) = c
    <3>1. c \in Containers /\ c.name \in NamesOf(list)
      BY ElementsTyped, NamesOfElements
    <3>2. Named(list, c.name) = c
      BY <1>3, <3>1, NamedFacts
    <3> QED BY <3>1, <3>2, MergeContainerFacts
  <2> QED BY <2>1 DEF TookContainers
<1>4. ASSUME NEW list \in Seq(Volumes), Distinct(list), NEW mounted PROVE TookVolumes(list, list, mounted)
  <2>1. ASSUME NEW v \in ToSet(list) PROVE Named(list, v.name) = v
    <3>1. v.name \in NamesOf(list)
      BY NamesOfElements
    <3> QED BY <1>4, <3>1, NamedFacts
  <2> QED BY <2>1 DEF TookVolumes
<1> QED BY <1>1, <1>2, <1>3, <1>4 DEF Took

\* What is mounted depends on the mounts alone.
LEMMA MountedEqual ==
    ASSUME NEW a, NEW b, NEW c, NEW d, DOMAIN a = DOMAIN c, DOMAIN b = DOMAIN d,
           \A i \in DOMAIN a : a[i].mounts = c[i].mounts,
           \A i \in DOMAIN b : b[i].mounts = d[i].mounts
    PROVE  MountedVolumeNames(a, b) = MountedVolumeNames(c, d)
<1>1. {a[i].mounts : i \in DOMAIN a} = {c[i].mounts : i \in DOMAIN c}
  OBVIOUS
<1>2. {b[i].mounts : i \in DOMAIN b} = {d[i].mounts : i \in DOMAIN d}
  OBVIOUS
<1> QED BY <1>1, <1>2, Zenon DEF MountedVolumeNames

\* Stored containers that had been taken over, merged again with desired ones that leave
\* no compared field out, are the same to the comparison and mount the same.
LEMMA ContainersSettle ==
    ASSUME NEW list \in Seq(Containers), NEW desired \in Seq(Containers),
           TookContainers(list, desired), NothingLeftOut(desired)
    PROVE  LET new   == WithDefaults(list)
               again == MergeContainers(new, desired)
           IN  /\ again \in Seq(Containers) /\ NamesOf(again) = NamesOf(list)
               /\ ComparedContainers(again) = ComparedContainers(new)
               /\ DOMAIN again = DOMAIN list
               /\ \A i \in DOMAIN list : again[i].mounts = list[i].mounts
<1> DEFINE new   == WithDefaults(list)
           again == MergeContainers(new, desired)
<1>1. /\ new \in Seq(Containers) /\ DOMAIN new = DOMAIN list /\ NamesOf(new) = NamesOf(list)
      /\ \A i \in DOMAIN list : new[i] = Defaulted(list[i])
  BY WithDefaultsFacts
<1> HIDE DEF new
<1>2. again = Updated(new, desired)
  <2>1. again = Updated(new, desired) \o Without(desired, NamesOf(new))
    BY DEF MergeContainers, Updated
  <2>2. Without(desired, NamesOf(new)) = <<>>
    BY <1>1, WithoutFacts DEF TookContainers
  <2>3. Updated(new, desired) \in Seq(Containers)
    <3>1. /\ Updated(new, desired) \in [DOMAIN new -> Containers]
          /\ \A i \in DOMAIN new : Updated(new, desired)[i].name = new[i].name
      BY <1>1, UpdatedFacts
    <3> QED BY <1>1, <3>1, ReplacedFacts
  <2> QED BY <2>1, <2>2, <2>3, ConcatEmptySeq
<1>3. again \in Seq(Containers) /\ NamesOf(again) = NamesOf(list)
  <2>1. again \in Seq(Containers) /\ NamesOf(again) = NamesOf(new) \cup NamesOf(desired)
    BY <1>1, MergeContainersFacts
  <2> HIDE DEF again
  <2> QED BY <1>1, <2>1 DEF TookContainers
<1>4. /\ DOMAIN again = DOMAIN list
      /\ \A i \in DOMAIN list :
           again[i] = IF new[i].name \in NamesOf(desired)
                      THEN MergeContainer(new[i], Named(desired, new[i].name)) ELSE new[i]
  BY <1>1, <1>2 DEF Updated
<1> HIDE DEF again
<1>5. ASSUME NEW i \in DOMAIN list
      PROVE  /\ again[i].mounts = list[i].mounts
             /\ [again[i] EXCEPT !.timing = Unset] = [new[i] EXCEPT !.timing = Unset]
  <2> DEFINE c == list[i]
             s == new[i]
             d == Named(desired, c.name)
  <2>1. c \in Containers /\ c \in ToSet(list) /\ s \in Containers /\ s = Defaulted(c)
    BY <1>1 DEF ToSet
  <2>2. s.name = c.name /\ s.mounts = c.mounts /\ s.managed = c.managed /\ s.defaulted = Filled(c.defaulted)
    BY <2>1, DefaultedFields
  <2>3. CASE c.name \notin NamesOf(desired)
    BY <1>4, <2>2, <2>3
  <2>4. CASE c.name \in NamesOf(desired)
    <3>1. d \in Containers /\ d \in ToSet(desired) /\ d.defaulted # Unset
      BY <2>4, NamedFacts DEF NothingLeftOut
    <3>2. again[i] = MergeContainer(s, d)
      BY <1>4, <2>2, <2>4
    <3>3. MergeContainer(c, d) = c
      BY <2>1, <2>4 DEF TookContainers
    <3> HIDE DEF c, s, d
    <3>4. c.managed = d.managed /\ c.defaulted = d.defaulted /\ c.mounts = d.mounts
      <4>1. /\ MergeContainer(c, d).managed = d.managed /\ MergeContainer(c, d).defaulted = d.defaulted
            /\ MergeContainer(c, d).mounts = d.mounts
        BY <2>1, <3>1 DEF MergeContainer, Containers
      <4> QED BY <3>3, <4>1
    <3>5. s.managed = d.managed /\ s.defaulted = d.defaulted /\ s.mounts = d.mounts
      BY <2>2, <3>1, <3>4 DEF Filled
    <3>6. s = [name |-> s.name, managed |-> d.managed, defaulted |-> d.defaulted, timing |-> s.timing,
               other |-> s.other, mounts |-> d.mounts]
      BY <2>1, <3>5, DefaultedFields
    <3>7. MergeContainer(s, d) = [name |-> s.name, managed |-> d.managed, defaulted |-> d.defaulted,
                                  timing |-> d.timing, other |-> s.other, mounts |-> d.mounts]
      <4> DEFINE m == MergeContainer(s, d)
      <4>1. /\ m \in Containers /\ m.name = s.name /\ m.managed = d.managed
            /\ m.defaulted = d.defaulted /\ m.timing = d.timing /\ m.other = s.other
            /\ m.mounts = d.mounts
        BY <2>1, <3>1 DEF MergeContainer, Containers
      <4> HIDE DEF m
      <4>2. m = [name |-> m.name, managed |-> m.managed, defaulted |-> m.defaulted,
                 timing |-> m.timing, other |-> m.other, mounts |-> m.mounts]
        BY <4>1, DefaultedFields
      <4> QED BY <4>1, <4>2 DEF m
    <3>8. [MergeContainer(s, d) EXCEPT !.timing = Unset] = [s EXCEPT !.timing = Unset]
      BY <3>6, <3>7
    <3>9. MergeContainer(s, d).mounts = c.mounts
      BY <3>4, <3>7
    <3> QED BY <3>2, <3>8, <3>9 DEF c, s
  <2> QED BY <2>3, <2>4
<1>6. ComparedContainers(again) = ComparedContainers(new)
  BY <1>1, <1>4, <1>5 DEF ComparedContainers
<1> QED BY <1>3, <1>4, <1>5, <1>6 DEF again, new

\* Templates are the same to the comparison when their parts are.
LEMMA ComparedEqual ==
    ASSUME NEW a \in Templates, NEW b \in Templates, a.labels = b.labels, a.rest = b.rest,
           ComparedContainers(a.containers) = ComparedContainers(b.containers),
           ComparedContainers(a.inits) = ComparedContainers(b.inits), a.volumes = b.volumes
    PROVE  ComparedTemplate(a) = ComparedTemplate(b)
<1>1. ASSUME NEW t \in Templates
      PROVE  ComparedTemplate(t) =
               [labels |-> t.labels, rest |-> t.rest, containers |-> ComparedContainers(t.containers),
                inits |-> ComparedContainers(t.inits), volumes |-> t.volumes]
  <2> DEFINE containers == ComparedContainers(t.containers)
             inits == ComparedContainers(t.inits)
             y == [t EXCEPT !.containers = containers]
  <2>1. t = [labels |-> t.labels, rest |-> t.rest, containers |-> t.containers, inits |-> t.inits,
             volumes |-> t.volumes]
    BY DEF Templates
  <2>2. ComparedTemplate(t) = [t EXCEPT !.containers = containers, !.inits = inits]
    BY DEF ComparedTemplate
  <2> HIDE DEF containers, inits
  <2>3. y = [labels |-> t.labels, rest |-> t.rest, containers |-> containers, inits |-> t.inits,
             volumes |-> t.volumes]
    BY <2>1
  <2>4. ComparedTemplate(t) = [y EXCEPT !.inits = inits]
    BY <2>2
  <2> HIDE DEF y
  <2>5. ComparedTemplate(t) = [labels |-> t.labels, rest |-> t.rest, containers |-> containers,
                               inits |-> inits, volumes |-> t.volumes]
    BY <2>3, <2>4
  <2> QED BY <2>5 DEF containers, inits
<1> QED BY <1>1

\* A list that has a list's names is empty only if that one is.
LEMMA NotEmptied ==
    ASSUME NEW T, NEW list \in Seq(T), NEW more, NamesOf(list) \subseteq NamesOf(more), list # <<>>
    PROVE  more # <<>>
<1>1. 1 \in DOMAIN list
  BY EmptySeq
<1>2. list[1].name \in NamesOf(more)
  BY <1>1 DEF NamesOf
<1> QED BY <1>2 DEF NamesOf

\* What has been taken over and stored is no difference to the next pass.
LEMMA TookSettles ==
    ASSUME NEW tpl \in Templates, NEW desired \in Templates, Took(tpl, desired),
           NothingLeftOut(desired.containers), NothingLeftOut(desired.inits),
           desired.inits # <<>>, desired.volumes # <<>>
    PROVE  SameToDiff(Stored(tpl), Merge(Stored(tpl), desired))
<1> DEFINE was == Stored(tpl)
           new == Merge(was, desired)
<1>1. /\ tpl.containers \in Seq(Containers) /\ tpl.inits \in Seq(Containers) /\ tpl.volumes \in Seq(Volumes)
      /\ desired.containers \in Seq(Containers) /\ desired.inits \in Seq(Containers)
      /\ desired.volumes \in Seq(Volumes)
  BY DEF Templates
<1>2. /\ was \in Templates
      /\ was.labels = tpl.labels /\ was.rest = tpl.rest /\ was.volumes = tpl.volumes
      /\ was.containers = WithDefaults(tpl.containers) /\ was.inits = WithDefaults(tpl.inits)
  BY StoredFacts
<1> HIDE DEF was
<1>3. /\ new \in Templates
      /\ new.labels = desired.labels /\ new.rest = desired.rest
      /\ new.containers = MergeContainers(was.containers, desired.containers)
      /\ new.inits = MergeContainers(was.inits, desired.inits)
      /\ new.volumes = MergeVolumes(was.volumes, desired.volumes, new.containers, new.inits)
  BY <1>2, MergeParts
<1> HIDE DEF new
<1>4. /\ tpl.labels = desired.labels /\ tpl.rest = desired.rest
      /\ TookContainers(tpl.containers, desired.containers) /\ TookContainers(tpl.inits, desired.inits)
      /\ TookVolumes(tpl.volumes, desired.volumes, MountedVolumeNames(tpl.containers, tpl.inits))
  BY DEF Took
<1>5. /\ ComparedContainers(new.containers) = ComparedContainers(was.containers)
      /\ DOMAIN new.containers = DOMAIN tpl.containers
      /\ \A i \in DOMAIN tpl.containers : new.containers[i].mounts = tpl.containers[i].mounts
  <2> DEFINE again == MergeContainers(WithDefaults(tpl.containers), desired.containers)
  <2>1. /\ ComparedContainers(again) = ComparedContainers(WithDefaults(tpl.containers))
        /\ DOMAIN again = DOMAIN tpl.containers
        /\ \A i \in DOMAIN tpl.containers : again[i].mounts = tpl.containers[i].mounts
    BY <1>1, <1>4, ContainersSettle
  <2> HIDE DEF again
  <2>2. new.containers = again
    BY <1>2, <1>3 DEF again
  <2> QED BY <1>2, <2>1, <2>2
<1>6. /\ ComparedContainers(new.inits) = ComparedContainers(was.inits)
      /\ DOMAIN new.inits = DOMAIN tpl.inits /\ NamesOf(new.inits) = NamesOf(tpl.inits)
      /\ \A i \in DOMAIN tpl.inits : new.inits[i].mounts = tpl.inits[i].mounts
  <2> DEFINE again == MergeContainers(WithDefaults(tpl.inits), desired.inits)
  <2>1. /\ ComparedContainers(again) = ComparedContainers(WithDefaults(tpl.inits))
        /\ DOMAIN again = DOMAIN tpl.inits /\ NamesOf(again) = NamesOf(tpl.inits)
        /\ \A i \in DOMAIN tpl.inits : again[i].mounts = tpl.inits[i].mounts
    BY <1>1, <1>4, ContainersSettle
  <2> HIDE DEF again
  <2>2. new.inits = again
    BY <1>2, <1>3 DEF again
  <2> QED BY <1>2, <2>1, <2>2
<1>7. new.volumes = tpl.volumes
  <2>1. MountedVolumeNames(new.containers, new.inits) = MountedVolumeNames(tpl.containers, tpl.inits)
    BY <1>5, <1>6, MountedEqual
  <2>2. MergeVolumes(tpl.volumes, desired.volumes, new.containers, new.inits) = tpl.volumes
    BY <1>1, <1>4, <2>1, MergeVolumesSettles
  <2> QED BY <1>2, <1>3, <2>2
<1>8. ComparedTemplate(was) = ComparedTemplate(new)
  BY <1>2, <1>3, <1>4, <1>5, <1>6, <1>7, ComparedEqual
<1>9. new.inits # <<>>
  <2>1. NamesOf(desired.inits) \subseteq NamesOf(new.inits)
    BY <1>4, <1>6 DEF TookContainers
  <2> QED BY <1>1, <2>1, NotEmptied
<1>10. new.volumes # <<>>
  <2>1. NamesOf(desired.volumes) \subseteq NamesOf(new.volumes)
    BY <1>4, <1>7 DEF TookVolumes
  <2> QED BY <1>1, <2>1, NotEmptied
<1> QED BY <1>8, <1>9, <1>10 DEF SameToDiff, was, new

\* Create stores what is built, PatchWorkload what was merged.
LEMMA WriteStores ==
    ASSUME TypeOK, Next, pass # Nothing, pass' = Nothing, UpToDate, live' # live
    PROVE  live'.tpl = Stored(pass.sent.tpl)
<1>1. CASE Create
  <2>1. live = Nothing
    BY <1>1 DEF Create, UpToDate
  <2> QED BY <1>1, <2>1, CreateStores
<1>2. CASE PatchWorkload
  <2>1. live' = PatchedLive /\ PatchedLive.tpl = Patched(live.tpl, pass.base.tpl, pass.sent.tpl)
    BY <1>2, PatchStores
  <2>2. live.tpl \in Templates /\ pass.sent.tpl \in Templates /\ pass.base = live
    BY <1>2, PatchStores, TypeOKOfLive DEF TypeOK, Passes, Workloads, UpToDate
  <2> QED BY <2>1, <2>2, PatchedFacts
<1>3. CASE Begin \/ Keep
  BY <1>3 DEF Begin, Keep
<1>4. CASE EditSpec \/ Inject \/ Touch
  BY <1>4 DEF EditSpec, Inject, Touch
<1> QED BY <1>1, <1>2, <1>3, <1>4 DEF Next, Controller

\* Whatever has been injected, touched and stored with defaults: what a pass has created
\* or patched is no difference to the next one, with users who write pod parts that
\* resolve, leave no compared field out and have init containers and volumes
\* (mergeDeployments, mergeStatefulSets, podTemplateCompareOptions).
THEOREM PatchesDoSettle ==
    ASSUME PharesResolve
    PROVE  Spec => PatchesSettle
<1> DEFINE Settles == (pass # Nothing /\ pass' = Nothing /\ UpToDate /\ Explicit(spec) /\ live' # live)
                      => SameToDiff(live'.tpl, Merge(live'.tpl, Build(spec)))
<1>1. Init => TypeOK
  BY InitTypeOK
<1>2. TypeOK /\ [Next]_vars => TypeOK'
  BY NextTypeOK
<1>3. ASSUME TypeOK, Next PROVE Settles
  <2> SUFFICES ASSUME pass # Nothing, pass' = Nothing, UpToDate, Explicit(spec), live' # live
               PROVE  SameToDiff(live'.tpl, Merge(live'.tpl, Build(spec)))
    OBVIOUS
  <2> DEFINE desired == Build(spec)
             tpl == pass.sent.tpl
  <2>1. spec \in Specs /\ Resolves(desired, spec.claims)
    BY <1>3, PharesResolve, RolloutAssumption DEF TypeOK, PharesResolve
  <2>2. desired \in Templates
    BY <2>1, BuildTyped
  <2>3. tpl = (IF live = Nothing THEN desired ELSE Merge(live.tpl, desired))
    BY DEF UpToDate
  <2>4. ToSet(desired.containers \o desired.inits) = ToSet(desired.containers) \cup ToSet(desired.inits)
    BY <2>2, ConcatFacts DEF Templates
  <2>5. /\ NothingLeftOut(desired.containers) /\ NothingLeftOut(desired.inits)
        /\ desired.inits # <<>> /\ desired.volumes # <<>>
    <3>1. desired.inits = spec.inits
      BY DEF Build
    <3> QED BY <2>4, <3>1 DEF Explicit, NothingLeftOut
  <2> HIDE DEF desired
  <2>6. tpl \in Templates /\ Took(tpl, desired)
    <3>1. CASE live = Nothing
      BY <2>1, <2>2, <2>3, <3>1, DesiredTakes
    <3>2. CASE live # Nothing
      <4>1. live.tpl \in Templates
        BY <1>3, <3>2, TypeOKOfLive
      <4> QED BY <2>1, <2>2, <2>3, <3>2, <4>1, MergeTakes, MergeParts
    <3> QED BY <3>1, <3>2
  <2> HIDE DEF tpl
  <2>7. live'.tpl = Stored(tpl)
    BY <1>3, WriteStores DEF tpl
  <2> QED BY <2>2, <2>5, <2>6, <2>7, TookSettles DEF desired
<1>4. TypeOK /\ [Next]_vars => [Settles]_vars
  BY <1>3
<1> HIDE DEF Settles
<1>5. Spec => [][Settles]_vars
  BY <1>1, <1>2, <1>4, PTL DEF Spec
<1> QED BY <1>5 DEF PatchesSettle, Settles

-----------------------------------------------------------------------------
(* What a pass sends resolves *)

\* The names of a pod part and of a sidecar are among those of their list.
LEMMA NamesInFacts ==
    /\ \A p \in PodSpecs : /\ NamesOf(Build(p).containers) \subseteq NamesIn("containers")
                           /\ NamesOf(Build(p).inits) \subseteq NamesIn("inits")
    /\ \A s \in Sidecars : s.container.name \in NamesIn(s.list)
<1>1. ASSUME NEW p \in PodSpecs, NEW list \in {"containers", "inits"}
      PROVE  NamesOf(Build(p)[list]) \subseteq NamesAsked(list)
  <2>1. NamesOf(Build(p)[list]) \in {NamesOf(Build(q)[list]) : q \in PodSpecs}
    OBVIOUS
  <2> QED BY <2>1, Zenon DEF NamesAsked
<1>2. ASSUME NEW sidecar \in Sidecars PROVE sidecar.container.name \in NamesGiven(sidecar.list)
  BY DEF NamesGiven
<1> QED BY <1>1, <1>2 DEF NamesIn

LEMMA InitListedInv == Init => ListedInv
BY DEF Init, ListedInv

\* What Begin sends to a workload that is not there, or is.
LEMMA BeginListed ==
    ASSUME TypeOK, ListedInv, Begin, PharesResolve, ClaimsKeepNames, NothingMoves
    PROVE  ListedInv'
<1>1. spec \in Specs /\ spec \in PodSpecs
  BY RolloutAssumption DEF TypeOK
<1> DEFINE new == NewWorkload(spec)
<1>2. /\ new \in Workloads /\ new.tpl = Build(spec) /\ new.tpl \in Templates
      /\ new.claims = spec.claims /\ Resolves(new.tpl, new.claims)
  BY <1>1, BuildTyped, PharesResolve DEF NewWorkload, PharesResolve, Workloads
<1>3. Listed(new)
  BY <1>1, <1>2, NamesInFacts, ClaimsKeepNames DEF Listed, ClaimsKeepNames
<1>4. live' = live
  BY DEF Begin
<1>5. Listed(pass'.sent) /\ Resolves(pass'.sent.tpl, pass'.sent.claims)
  <2>1. CASE live = Nothing
    <3>1. pass'.sent = new
      BY <2>1 DEF Begin
    <3> HIDE DEF new
    <3> QED BY <1>2, <1>3, <3>1
  <2>2. CASE live # Nothing
    <3> DEFINE tpl == Merge(live.tpl, new.tpl)
               sent == [live EXCEPT !.tpl = tpl]
    <3>1. pass'.sent = sent
      BY <2>2 DEF Begin
    <3> HIDE DEF new
    <3>2. live \in Workloads /\ live.tpl \in Templates /\ Resolves(live.tpl, live.claims) /\ Listed(live)
      BY <2>2, TypeOKOfLive DEF StoredWorkload, Valid, ListedInv
    <3>3. /\ live.tpl.containers \in Seq(Containers) /\ live.tpl.inits \in Seq(Containers)
          /\ new.tpl.containers \in Seq(Containers) /\ new.tpl.inits \in Seq(Containers)
      BY <1>2, <3>2 DEF Templates
    <3>4. /\ tpl \in Templates
          /\ tpl.containers = MergeContainers(live.tpl.containers, new.tpl.containers)
          /\ tpl.inits = MergeContainers(live.tpl.inits, new.tpl.inits)
      BY <1>2, <3>2, MergeParts
    <3>5. NamesOf(tpl.containers) = NamesOf(live.tpl.containers) \cup NamesOf(new.tpl.containers)
      BY <3>3, <3>4, MergeContainersFacts
    <3>6. NamesOf(tpl.inits) = NamesOf(live.tpl.inits) \cup NamesOf(new.tpl.inits)
      BY <3>3, <3>4, MergeContainersFacts
    <3>7. NamesOf(tpl.containers) \cap NamesOf(tpl.inits) = {}
      BY <1>3, <3>2, <3>5, <3>6 DEF Listed, NothingMoves
    <3>8. NamesOf(new.claims) = NamesOf(live.claims)
      BY <1>1, <1>2, <3>2 DEF Listed
    <3>9. Resolves(tpl, live.claims)
      BY <1>2, <3>2, <3>5, <3>6, <3>7, <3>8, MergeKeepsResolving
    <3> HIDE DEF tpl
    <3>10. sent.tpl = tpl /\ sent.claims = live.claims
      BY <3>2, <3>4, WithTemplate
    <3>11. Listed(sent)
      BY <1>3, <3>2, <3>5, <3>6, <3>10 DEF Listed
    <3> QED BY <3>1, <3>9, <3>10, <3>11
  <2> QED BY <2>1, <2>2
<1> QED BY <1>4, <1>5 DEF ListedInv, MergeResolves

\* What Create stores has the names of what was sent.
LEMMA CreateListed ==
    ASSUME TypeOK, ListedInv, Create
    PROVE  ListedInv'
<1>1. pass' = Nothing /\ pass # Nothing /\ Listed(pass.sent)
  BY DEF Create, ListedInv
<1>2. pass.sent.tpl \in Templates
  BY DEF TypeOK, Create, Passes, Workloads
<1>3. \/ live' = Nothing
      \/ live'.tpl = Stored(pass.sent.tpl) /\ NamesOf(live'.claims) = NamesOf(pass.sent.claims)
  BY CreateStores
<1>4. /\ NamesOf(Stored(pass.sent.tpl).containers) = NamesOf(pass.sent.tpl.containers)
      /\ NamesOf(Stored(pass.sent.tpl).inits) = NamesOf(pass.sent.tpl.inits)
  BY <1>2, StoredFacts
<1>5. live' # Nothing => Listed(live')
  BY <1>1, <1>3, <1>4 DEF Listed
<1> QED BY <1>1, <1>5 DEF ListedInv

\* A patched workload has the names of the one that was there or of what was sent.
LEMMA PatchListed ==
    ASSUME TypeOK, ListedInv, PatchWorkload
    PROVE  ListedInv'
<1>1. pass' = Nothing /\ pass # Nothing /\ pass.base # Nothing /\ Listed(pass.sent)
  BY DEF PatchWorkload, ListedInv
<1>2. /\ live # Nothing
      /\ live' = live \/ live' = PatchedLive
      /\ PatchedLive.claims = live.claims
      /\ PatchedLive.tpl = Patched(live.tpl, pass.base.tpl, pass.sent.tpl)
  BY PatchStores
<1>3. live.tpl \in Templates /\ Listed(live)
  BY <1>2, TypeOKOfLive DEF ListedInv
<1>4. pass.sent.tpl \in Templates /\ pass.base.tpl \in Templates
  BY <1>1 DEF TypeOK, Passes, Workloads
<1>5. /\ NamesOf(PatchedLive.tpl.containers) \in {NamesOf(live.tpl.containers), NamesOf(pass.sent.tpl.containers)}
      /\ NamesOf(PatchedLive.tpl.inits) \in {NamesOf(live.tpl.inits), NamesOf(pass.sent.tpl.inits)}
  BY <1>2, <1>3, <1>4, PatchedFacts
<1>6. Listed(PatchedLive)
  BY <1>1, <1>2, <1>3, <1>5 DEF Listed
<1>7. Listed(live')
  BY <1>2, <1>3, <1>6
<1> QED BY <1>1, <1>7 DEF ListedInv

\* An injected container has the name that its sidecar gives it.
LEMMA InjectListed ==
    ASSUME TypeOK, ListedInv, Inject
    PROVE  ListedInv'
<1>1. PICK sidecar \in Sidecars :
        live' = [live EXCEPT !.tpl = Stored(InjectedInto(live.tpl, sidecar))]
  BY InjectStores
<1>2. live # Nothing /\ live \in Workloads /\ live.tpl \in Templates /\ Listed(live)
  BY InjectStores, TypeOKOfLive DEF StoredWorkload, ListedInv
<1> DEFINE tpl == InjectedInto(live.tpl, sidecar)
<1>3. /\ tpl \in Templates
      /\ NamesOf(tpl.containers) \subseteq NamesOf(live.tpl.containers) \cup
           (IF sidecar.list = "containers" THEN {sidecar.container.name} ELSE {})
      /\ NamesOf(tpl.inits) \subseteq NamesOf(live.tpl.inits) \cup
           (IF sidecar.list = "inits" THEN {sidecar.container.name} ELSE {})
  BY <1>2, InjectedFacts
<1> HIDE DEF tpl
<1>4. /\ Stored(tpl) \in Templates
      /\ NamesOf(Stored(tpl).containers) = NamesOf(tpl.containers)
      /\ NamesOf(Stored(tpl).inits) = NamesOf(tpl.inits)
  BY <1>3, StoredFacts
<1>5. live'.tpl = Stored(tpl) /\ live'.claims = live.claims
  BY <1>1, <1>2, <1>4, WithTemplate DEF tpl
<1>6. sidecar.container.name \in NamesIn(sidecar.list)
  BY NamesInFacts
<1>7. Listed(live')
  BY <1>2, <1>3, <1>4, <1>5, <1>6 DEF Listed
<1>8. pass' = pass
  BY DEF Inject
<1> QED BY <1>7, <1>8 DEF ListedInv, MergeResolves

\* A touch gives no names.
LEMMA TouchListed ==
    ASSUME TypeOK, ListedInv, Touch
    PROVE  ListedInv'
<1>1. /\ live # Nothing /\ live'.claims = live.claims
      /\ NamesOf(live'.tpl.containers) = NamesOf(live.tpl.containers)
      /\ live'.tpl.inits = live.tpl.inits
  BY TouchStores
<1>2. Listed(live')
  BY <1>1 DEF Listed, ListedInv
<1>3. pass' = pass
  BY DEF Touch
<1> QED BY <1>2, <1>3 DEF ListedInv, MergeResolves

LEMMA NextListed ==
    ASSUME TypeOK, ListedInv, [Next]_vars, PharesResolve, ClaimsKeepNames, NothingMoves
    PROVE  ListedInv'
<1>1. CASE Keep
  BY <1>1 DEF Keep, ListedInv
<1>2. CASE EditSpec
  BY <1>2 DEF EditSpec, ListedInv, MergeResolves
<1>3. CASE UNCHANGED vars
  BY <1>3 DEF vars, ListedInv, MergeResolves
<1> QED
  BY <1>1, <1>2, <1>3, BeginListed, CreateListed, PatchListed, InjectListed, TouchListed
  DEF Next, Controller

\* Whatever is edited, injected, touched and overtaken: what a pass sends has every
\* mount's volume or claim and no name twice, as long as users write pod parts that
\* resolve, leave the names of claims alone, and neither they nor others give one name
\* to a container and to an init container (mergeDeployments, mergeStatefulSets).
THEOREM MergesResolve ==
    ASSUME PharesResolve, ClaimsKeepNames, NothingMoves
    PROVE  Spec => []MergeResolves
<1>1. Init => TypeOK /\ ListedInv
  BY InitTypeOK, InitListedInv
<1>2. (TypeOK /\ ListedInv) /\ [Next]_vars => (TypeOK /\ ListedInv)'
  BY NextTypeOK, NextListed, PharesResolve, ClaimsKeepNames, NothingMoves
<1>3. ListedInv => MergeResolves
  BY DEF ListedInv, MergeResolves
<1> QED BY <1>1, <1>2, <1>3, PTL DEF Spec

-----------------------------------------------------------------------------
(* Sidecars are kept *)

LEMMA InitSentIsMerge == Init => SentIsMerge
BY DEF Init, SentIsMerge

LEMMA NextSentIsMerge ==
    ASSUME TypeOK, SentIsMerge, [Next]_vars
    PROVE  SentIsMerge'
<1>1. CASE Begin
  <2>1. spec \in PodSpecs /\ NewWorkload(spec).tpl = Build(spec)
    BY DEF TypeOK, NewWorkload
  <2>2. CASE live = Nothing
    BY <1>1, <2>2 DEF Begin, SentIsMerge
  <2>3. CASE live # Nothing
    <3>1. pass'.base = live /\ pass'.sent = [live EXCEPT !.tpl = Merge(live.tpl, Build(spec))]
      BY <1>1, <2>1, <2>3 DEF Begin
    <3> QED BY <2>1, <3>1 DEF SentIsMerge
  <2> QED BY <2>2, <2>3
<1>2. CASE Create \/ Keep \/ PatchWorkload
  BY <1>2 DEF Create, Keep, PatchWorkload, SentIsMerge
<1>3. CASE EditSpec \/ Inject \/ Touch \/ UNCHANGED vars
  <2>1. pass' = pass
    BY <1>3 DEF EditSpec, Inject, Touch, vars
  <2> QED BY <2>1 DEF SentIsMerge
<1> QED BY <1>1, <1>2, <1>3 DEF Next, Controller

\* A patch made from what is there keeps every injected container.
LEMMA PatchKeepsSidecars ==
    ASSUME TypeOK, SentIsMerge, SidecarsApart, PatchWorkload, pass.base = live
    PROVE  Injected(live.tpl) \subseteq Injected(live'.tpl)
<1>1. /\ live # Nothing
      /\ live' = live \/ live' = PatchedLive
      /\ PatchedLive.tpl = Patched(live.tpl, pass.base.tpl, pass.sent.tpl)
  BY PatchStores
<1>2. live \in Workloads /\ live.tpl \in Templates /\ Stored(live.tpl) = live.tpl
  BY <1>1, TypeOKOfLive DEF StoredWorkload
<1>3. PICK p \in PodSpecs : pass.sent = [live EXCEPT !.tpl = Merge(live.tpl, Build(p))]
  BY <1>1 DEF SentIsMerge, PatchWorkload
<1>4. Build(p) \in Templates
  BY BuildTyped, RolloutAssumption
<1> DEFINE old == live.tpl
           tpl == Merge(old, Build(p))
           new == Patched(live.tpl, pass.base.tpl, pass.sent.tpl)
<1>5. /\ tpl \in Templates
      /\ tpl.containers = MergeContainers(old.containers, Build(p).containers)
      /\ tpl.inits = MergeContainers(old.inits, Build(p).inits)
  BY <1>2, <1>4, MergeParts
<1> HIDE DEF tpl
<1>6. pass.sent.tpl = tpl
  BY <1>2, <1>3, <1>5, WithTemplate DEF tpl
<1>7. new = Stored(tpl)
  BY <1>2, <1>5, <1>6, PatchedFacts
<1> HIDE DEF new
<1>8. /\ new \in Templates /\ new.containers = WithDefaults(tpl.containers)
      /\ new.inits = WithDefaults(tpl.inits)
  BY <1>5, <1>7, StoredFacts
<1>9. WithDefaults(old.containers) = old.containers /\ WithDefaults(old.inits) = old.inits
  BY <1>2, StoredFacts
<1>10. ASSUME NEW was \in Seq(Containers), WithDefaults(was) = was,
              NEW wanted \in Seq(Containers), NEW c \in ToSet(was), c.name \notin NamesOf(wanted)
       PROVE  c \in ToSet(WithDefaults(MergeContainers(was, wanted)))
  <2> DEFINE merged == MergeContainers(was, wanted)
  <2>1. merged \in Seq(Containers) /\ c \in ToSet(merged)
    BY <1>10, MergeContainersFacts
  <2> HIDE DEF merged
  <2>2. PICK i \in DOMAIN was : c = was[i]
    BY DEF ToSet
  <2>3. Defaulted(c) = c
    BY <1>10, <2>2, WithDefaultsFacts
  <2>4. PICK j \in DOMAIN merged : c = merged[j]
    BY <2>1 DEF ToSet
  <2>5. WithDefaults(merged)[j] = c /\ j \in DOMAIN WithDefaults(merged)
    BY <2>1, <2>3, <2>4, WithDefaultsFacts
  <2>6. c \in ToSet(WithDefaults(merged))
    BY <2>5 DEF ToSet
  <2> QED BY <2>6 DEF merged
<1>11. /\ old.containers \in Seq(Containers) /\ old.inits \in Seq(Containers)
       /\ Build(p).containers \in Seq(Containers) /\ Build(p).inits \in Seq(Containers)
       /\ new.containers \in Seq(Containers) /\ new.inits \in Seq(Containers)
  BY <1>2, <1>4, <1>8 DEF Templates
<1>12. /\ ToSet(old.containers \o old.inits) = ToSet(old.containers) \cup ToSet(old.inits)
       /\ ToSet(new.containers \o new.inits) = ToSet(new.containers) \cup ToSet(new.inits)
  BY <1>11, ConcatFacts
<1>13. ASSUME NEW c \in Injected(old) PROVE c \in Injected(new)
  <2>1. /\ c \in ToSet(old.containers) \cup ToSet(old.inits) /\ c.name \in InjectedNames
    BY <1>12 DEF Injected
  <2>2. c.name \notin NamesOf(Build(p).containers) /\ c.name \notin NamesOf(Build(p).inits)
    BY <2>1, SidecarsApart DEF SidecarsApart
  <2>3. CASE c \in ToSet(old.containers)
    <3>1. c \in ToSet(new.containers)
      BY <1>5, <1>8, <1>9, <1>10, <1>11, <2>2, <2>3
    <3> QED BY <1>12, <2>1, <3>1 DEF Injected
  <2>4. CASE c \in ToSet(old.inits)
    <3>1. c \in ToSet(new.inits)
      BY <1>5, <1>8, <1>9, <1>10, <1>11, <2>2, <2>4
    <3> QED BY <1>12, <2>1, <3>1 DEF Injected
  <2> QED BY <2>1, <2>3, <2>4
<1> QED BY <1>1, <1>13 DEF new, old

\* Whatever sidecars there are, as long as none has the name of a container that a user
\* asks for: a pass that nobody wrote in between removes and changes none of them
\* (mergeContainersPreservingUnknown).
THEOREM SidecarsAreKept ==
    ASSUME SidecarsApart
    PROVE  Spec => SidecarsKeptAlone
<1> DEFINE Kept == (live # Nothing /\ pass # Nothing /\ pass' = Nothing /\ pass.base = live)
                   => Injected(live.tpl) \subseteq Injected(live'.tpl)
<1>1. Init => TypeOK /\ SentIsMerge
  BY InitTypeOK, InitSentIsMerge
<1>2. (TypeOK /\ SentIsMerge) /\ [Next]_vars => (TypeOK /\ SentIsMerge)'
  BY NextTypeOK, NextSentIsMerge
<1>3. ASSUME TypeOK, SentIsMerge, Next PROVE Kept
  <2> SUFFICES ASSUME live # Nothing, pass # Nothing, pass' = Nothing, pass.base = live
               PROVE  Injected(live.tpl) \subseteq Injected(live'.tpl)
    OBVIOUS
  <2>1. CASE PatchWorkload
    BY <1>3, <2>1, PatchKeepsSidecars, SidecarsApart
  <2>2. CASE Keep
    BY <2>2 DEF Keep
  <2>3. CASE Begin \/ Create
    BY <2>3 DEF Begin, Create
  <2>4. CASE EditSpec \/ Inject \/ Touch
    BY <2>4 DEF EditSpec, Inject, Touch
  <2> QED BY <1>3, <2>1, <2>2, <2>3, <2>4 DEF Next, Controller
<1>4. (TypeOK /\ SentIsMerge) /\ [Next]_vars => [Kept]_vars
  BY <1>3
<1> HIDE DEF Kept
<1>5. Spec => [][Kept]_vars
  BY <1>1, <1>2, <1>4, PTL DEF Spec
<1> QED BY <1>5 DEF SidecarsKeptAlone, Kept
=============================================================================

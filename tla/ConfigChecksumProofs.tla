------------------------ MODULE ConfigChecksumProofs ------------------------
(***************************************************************************)
(* The text that is hashed for the checksum determines data whose values   *)
(* have one line, for all keys, values and numbers of them.  Hence a pass  *)
(* delivers every edit to the pods.                                        *)
(***************************************************************************)
EXTENDS ConfigChecksum, SequenceTheorems, FiniteSetTheorems, NumberFacts, TLAPS

-----------------------------------------------------------------------------
(* Flattening *)

\* The recursion of FlattenSeq.
Flattens(f, seqs, m) ==
    f = [i \in 1 .. m |-> IF i = 1 THEN seqs[i] ELSE f[i - 1] \o seqs[i]]

\* There is a function that satisfies it.
LEMMA FlattensExists ==
    ASSUME NEW seqs
    PROVE  \A m \in Nat : \E f : Flattens(f, seqs, m)
<1> DEFINE S == {m \in Nat : \E f : Flattens(f, seqs, m)}
<1>1. 0 \in S
  <2> DEFINE f == [i \in 1 .. 0 |-> IF i = 1 THEN seqs[i] ELSE <<>>]
  <2>1. f = [i \in 1 .. 0 |-> IF i = 1 THEN seqs[i] ELSE f[i - 1] \o seqs[i]]
    OBVIOUS
  <2> QED BY <2>1 DEF Flattens
<1>2. ASSUME NEW m \in Nat, m \in S PROVE m + 1 \in S
  <2>1. PICK f : Flattens(f, seqs, m)
    BY <1>2
  <2> DEFINE h == [i \in 1 .. m + 1 |-> IF i = 1 THEN seqs[i] ELSE f[i - 1] \o seqs[i]]
  <2>2. \A i \in 1 .. m : h[i] = f[i]
    <3>1. TAKE i \in 1 .. m
    <3>2. f[i] = IF i = 1 THEN seqs[i] ELSE f[i - 1] \o seqs[i]
      BY <2>1, Zenon DEF Flattens
    <3>3. i \in 1 .. m + 1
      OBVIOUS
    <3> QED BY <3>2, <3>3, Zenon
  <2>3. \A i \in 1 .. m + 1 : i # 1 => i - 1 \in 1 .. m
    OBVIOUS
  <2>4. \A i \in 1 .. m + 1 : h[i] = IF i = 1 THEN seqs[i] ELSE h[i - 1] \o seqs[i]
    BY <2>2, <2>3
  <2>5. h = [i \in 1 .. m + 1 |-> h[i]]
    OBVIOUS
  <2> HIDE DEF h
  <2>6. Flattens(h, seqs, m + 1)
    BY <2>4, <2>5 DEF Flattens
  <2> QED BY <2>6
<1> HIDE DEF S
<1>3. \A m \in Nat : m \in S
  BY <1>1, <1>2, SetInduction
<1> QED BY <1>3 DEF S

\* What has been flattened up to each place.
Flattened(g, seqs, Token) ==
    /\ DOMAIN seqs = 1 .. Len(seqs)
    /\ g \in [0 .. Len(seqs) -> Seq(Token)]
    /\ g[0] = <<>>
    /\ \A n \in 1 .. Len(seqs) : seqs[n] \in Seq(Token) /\ g[n] = g[n - 1] \o seqs[n]

LEMMA FlattenSeqFacts ==
    ASSUME NEW Token, NEW seqs \in Seq(Seq(Token))
    PROVE  \E g : Flattened(g, seqs, Token) /\ FlattenSeq(seqs) = g[Len(seqs)]
<1> DEFINE N == Len(seqs)
           c == CHOOSE f : Flattens(f, seqs, N)
           g == [n \in 0 .. N |-> IF n = 0 THEN <<>> ELSE c[n]]
<1>0. /\ N \in Nat /\ DOMAIN seqs = 1 .. N
      /\ \A n \in 1 .. N : seqs[n] \in Seq(Token)
  BY LenProperties, ElementOfSeq
<1>1. Flattens(c, seqs, N)
  BY <1>0, FlattensExists
<1>2. \A n \in 1 .. N : c[n] = IF n = 1 THEN seqs[n] ELSE c[n - 1] \o seqs[n]
  BY <1>1, Zenon DEF Flattens
<1>3. \A n \in 1 .. N : n - 1 \in 0 .. N /\ n \in 0 .. N /\ n # 0
  BY <1>0
<1>4. g[0] = <<>> /\ \A n \in 1 .. N : g[n] = c[n]
  BY <1>0
<1>5. \A n \in 1 .. N : g[n] = g[n - 1] \o seqs[n]
  <2> TAKE n \in 1 .. N
  <2>1. CASE n = 1
    <3>1. g[n - 1] = <<>> /\ g[n] = seqs[n] /\ seqs[n] \in Seq(Token)
      BY <1>0, <1>2, <1>4, <2>1
    <3> QED BY <3>1, ConcatEmptySeq
  <2>2. CASE n # 1
    <3>1. n - 1 \in 1 .. N
      BY <1>0, <2>2
    <3>2. g[n - 1] = c[n - 1] /\ g[n] = c[n]
      BY <1>4, <3>1
    <3> QED BY <1>2, <2>2, <3>2
  <2> QED BY <2>1, <2>2
<1> HIDE DEF g
<1>6. \A n \in 0 .. N : g[n] \in Seq(Token)
  <2> DEFINE S == {n \in Nat : n <= N => g[n] \in Seq(Token)}
  <2>1. 0 \in S
    BY <1>4, EmptySeq
  <2>2. ASSUME NEW n \in Nat, n \in S PROVE n + 1 \in S
    <3> SUFFICES ASSUME n + 1 <= N PROVE g[n + 1] \in Seq(Token)
      OBVIOUS
    <3>1. n + 1 \in 1 .. N /\ n <= N /\ (n + 1) - 1 = n
      BY <1>0
    <3>2. g[n + 1] = g[n] \o seqs[n + 1]
      BY <1>5, <3>1
    <3>3. PICK s, t : s = g[n] /\ t = seqs[n + 1]
      OBVIOUS
    <3>4. s \in Seq(Token) /\ t \in Seq(Token)
      BY <1>0, <2>2, <3>1, <3>3
    <3>5. s \o t \in Seq(Token)
      BY <3>4, ConcatProperties, Zenon
    <3> QED BY <3>2, <3>3, <3>5
  <2> HIDE DEF S
  <2>3. \A n \in Nat : n \in S
    BY <2>1, <2>2, SetInduction
  <2>4. \A n \in 0 .. N : n \in Nat /\ n <= N
    BY <1>0
  <2> QED BY <2>3, <2>4 DEF S
<1>7. g \in [0 .. N -> Seq(Token)]
  BY <1>6 DEF g
<1>8. FlattenSeq(seqs) = g[N]
  <2>1. CASE N = 0
    BY <1>0, <1>4, <2>1, EmptySeq DEF FlattenSeq
  <2>2. CASE N # 0
    <3>1. FlattenSeq(seqs) = c[N]
      BY <2>2 DEF FlattenSeq, Flattens
    <3> QED BY <1>0, <1>4, <2>2, <3>1
  <2> QED BY <2>1, <2>2
<1>9. Flattened(g, seqs, Token)
  BY <1>0, <1>4, <1>5, <1>7 DEF Flattened
<1> QED BY <1>8, <1>9

LEMMA ConcatPlaces ==
    ASSUME NEW Token, NEW s \in Seq(Token), NEW t \in Seq(Token), NEW r, r = s \o t
    PROVE  /\ Len(r) = Len(s) + Len(t)
           /\ \A i \in 1 .. Len(s) : r[i] = s[i]
           /\ \A j \in 1 .. Len(t) : r[Len(s) + j] = t[j]
<1>1. PICK a \in Nat : a = Len(s)
  BY LenProperties
<1>2. PICK b \in Nat : b = Len(t)
  BY LenProperties
<1>3. /\ Len(r) = a + b
      /\ \A i \in 1 .. a + b : r[i] = IF i <= a THEN s[i] ELSE t[i - a]
  BY <1>1, <1>2, ConcatProperties
<1>4. \A i \in 1 .. a : i \in 1 .. a + b /\ i <= a
  OBVIOUS
<1>5. \A j \in 1 .. b : a + j \in 1 .. a + b /\ ~ a + j <= a /\ (a + j) - a = j
  OBVIOUS
<1>6. \A i \in 1 .. a : r[i] = s[i]
  BY <1>3, <1>4
<1>7. \A j \in 1 .. b : r[a + j] = t[j]
  BY <1>3, <1>5
<1> QED BY <1>1, <1>2, <1>3, <1>6, <1>7

\* What was flattened stays at its place, and each piece follows what came before it.
InPlace(g, seqs, n) ==
    /\ Len(g[n - 1]) \in Nat /\ Len(seqs[n]) \in Nat
    /\ Len(g[n]) = Len(g[n - 1]) + Len(seqs[n])
    /\ Len(g[n]) <= Len(g[Len(seqs)])
    /\ \A j \in 1 .. Len(seqs[n]) : g[Len(seqs)][Len(g[n - 1]) + j] = seqs[n][j]

LEMMA PiecesInPlace ==
    ASSUME NEW Token, NEW seqs, Len(seqs) \in Nat, NEW g, Flattened(g, seqs, Token),
           NEW n \in 1 .. Len(seqs)
    PROVE  InPlace(g, seqs, n)
<1> DEFINE N == Len(seqs)
<1>1. /\ \A m \in 0 .. N : g[m] \in Seq(Token) /\ Len(g[m]) \in Nat
      /\ \A m \in 1 .. N : /\ seqs[m] \in Seq(Token) /\ Len(seqs[m]) \in Nat
                            /\ g[m] = g[m - 1] \o seqs[m]
  BY LenProperties DEF Flattened
<1>2. ASSUME NEW m \in 1 .. N
      PROVE  /\ Len(g[m]) = Len(g[m - 1]) + Len(seqs[m])
             /\ \A i \in 1 .. Len(g[m - 1]) : g[m][i] = g[m - 1][i]
             /\ \A j \in 1 .. Len(seqs[m]) : g[m][Len(g[m - 1]) + j] = seqs[m][j]
  <2>1. m - 1 \in 0 .. N
    OBVIOUS
  <2>2. g[m - 1] \in Seq(Token) /\ seqs[m] \in Seq(Token) /\ g[m] = g[m - 1] \o seqs[m]
    BY <1>1, <2>1
  <2>3. PICK s \in Seq(Token) : s = g[m - 1]
    BY <2>2
  <2>4. PICK t \in Seq(Token) : t = seqs[m]
    BY <2>2
  <2>5. PICK r : r = s \o t
    OBVIOUS
  <2>6. /\ Len(r) = Len(s) + Len(t)
        /\ \A i \in 1 .. Len(s) : r[i] = s[i]
        /\ \A j \in 1 .. Len(t) : r[Len(s) + j] = t[j]
    BY <2>5, ConcatPlaces
  <2>7. g[m] = r
    BY <2>2, <2>3, <2>4, <2>5
  <2> QED BY <2>3, <2>4, <2>6, <2>7
<1> DEFINE S == {k \in Nat : n + k <= N => /\ Len(g[n]) <= Len(g[n + k])
                                           /\ \A i \in 1 .. Len(g[n]) : g[n + k][i] = g[n][i]}
<1>3. 0 \in S
  <2>1. n \in 0 .. N /\ n + 0 = n
    OBVIOUS
  <2>2. Len(g[n]) <= Len(g[n])
    BY <1>1, <2>1
  <2> QED BY <2>1, <2>2
<1>4. ASSUME NEW k \in Nat, k \in S PROVE k + 1 \in S
  <2> SUFFICES ASSUME n + (k + 1) <= N
               PROVE  /\ Len(g[n]) <= Len(g[n + (k + 1)])
                      /\ \A i \in 1 .. Len(g[n]) : g[n + (k + 1)][i] = g[n][i]
    OBVIOUS
  <2>1. PICK m : m = n + (k + 1)
    OBVIOUS
  <2>2. m \in 1 .. N /\ m - 1 = n + k /\ m - 1 \in 0 .. N /\ n \in 0 .. N /\ n + k <= N /\ m \in 0 .. N
    BY <2>1
  <2>3. /\ Len(g[n]) <= Len(g[m - 1])
        /\ \A i \in 1 .. Len(g[n]) : g[m - 1][i] = g[n][i]
    BY <1>4, <2>2
  <2>4. /\ Len(g[m]) = Len(g[m - 1]) + Len(seqs[m])
        /\ \A i \in 1 .. Len(g[m - 1]) : g[m][i] = g[m - 1][i]
    BY <1>2, <2>2
  <2>5. Len(g[n]) \in Nat /\ Len(g[m - 1]) \in Nat /\ Len(seqs[m]) \in Nat
    BY <1>1, <2>2
  <2>6. \A i \in 1 .. Len(g[n]) : i \in 1 .. Len(g[m - 1])
    BY <2>3, <2>5
  <2>7. Len(g[n]) <= Len(g[m])
    <3>1. \A a, b, c, d \in Nat : a <= b /\ d = b + c => a <= d
      OBVIOUS
    <3>2. Len(g[m]) \in Nat
      BY <1>1, <2>2
    <3> QED BY <2>3, <2>4, <2>5, <3>1, <3>2
  <2> QED BY <2>1, <2>3, <2>4, <2>6, <2>7
<1> HIDE DEF S
<1>5. \A k \in Nat : k \in S
  BY <1>3, <1>4, SetInduction
<1>6. /\ Len(g[n]) <= Len(g[N])
      /\ \A i \in 1 .. Len(g[n]) : g[N][i] = g[n][i]
  <2>1. N - n \in Nat /\ n + (N - n) = N /\ n + (N - n) <= N
    OBVIOUS
  <2>2. N - n \in S
    BY <1>5, <2>1
  <2> QED BY <2>1, <2>2 DEF S
<1>7. Len(g[n - 1]) \in Nat /\ Len(seqs[n]) \in Nat
  <2>1. n - 1 \in 0 .. N
    OBVIOUS
  <2> QED BY <1>1, <2>1
<1>8. Len(g[n]) = Len(g[n - 1]) + Len(seqs[n])
  BY <1>2
<1>9. ASSUME NEW j \in 1 .. Len(seqs[n]) PROVE g[N][Len(g[n - 1]) + j] = seqs[n][j]
  <2>1. Len(g[n - 1]) + j \in 1 .. Len(g[n])
    <3>1. \A a, b, c \in Nat : \A i \in 1 .. b : c = a + b => a + i \in 1 .. c
      OBVIOUS
    <3>2. Len(g[n]) \in Nat
      BY <1>1
    <3> QED BY <1>7, <1>8, <3>1, <3>2
  <2>2. g[n][Len(g[n - 1]) + j] = seqs[n][j]
    BY <1>2
  <2> QED BY <1>6, <2>1, <2>2
<1> QED BY <1>6, <1>7, <1>8, <1>9 DEF InPlace

-----------------------------------------------------------------------------
(* The text of a configuration *)

IsConfig(map, Token) ==
    /\ map = [k \in DOMAIN map |-> map[k]]
    /\ DOMAIN map \subseteq ToSet(Keys)
    /\ \A k \in DOMAIN map : map[k] \in Seq(Token)

\* The keys are sorted, hence no key is there twice, and what users ask for has keys of
\* these and values of tokens.
ConfigsTyped(Token) ==
    /\ Keys \in Seq(Token) /\ Equals \in Token /\ Newline \in Token
    /\ \A m, n \in DOMAIN Keys : Keys[m] = Keys[n] => m = n
    /\ \A map \in Wanted : IsConfig(map, Token)

Pieces(map) ==
    [n \in DOMAIN Keys |->
        IF Keys[n] \in DOMAIN map THEN <<Keys[n], Equals>> \o map[Keys[n]] \o <<Newline>> ELSE <<>>]

LEMMA PieceFacts ==
    ASSUME NEW Token, ConfigsTyped(Token), NEW map, IsConfig(map, Token),
           NEW n \in DOMAIN Keys, NEW piece, piece = Pieces(map)[n]
    PROVE  /\ piece \in Seq(Token)
           /\ Keys[n] \notin DOMAIN map => Len(piece) = 0
           /\ Keys[n] \in DOMAIN map =>
                 \E b \in Nat :
                     /\ Len(map[Keys[n]]) = b /\ Len(piece) = b + 3
                     /\ piece[1] = Keys[n] /\ piece[b + 3] = Newline
                     /\ \A j \in 1 .. b : piece[j + 2] = map[Keys[n]][j]
<1>1. CASE Keys[n] \notin DOMAIN map
  <2>1. piece = <<>>
    BY <1>1 DEF Pieces
  <2> QED BY <1>1, <2>1, EmptySeq
<1>2. CASE Keys[n] \in DOMAIN map
  <2>1. PICK v \in Seq(Token) : v = map[Keys[n]]
    BY <1>2 DEF IsConfig
  <2>2. PICK b \in Nat : b = Len(v)
    BY LenProperties
  <2>3. Keys[n] \in Token /\ Equals \in Token /\ Newline \in Token
    <3>1. Keys \in Seq(Token) /\ Equals \in Token /\ Newline \in Token
      BY DEF ConfigsTyped
    <3>2. DOMAIN Keys = 1 .. Len(Keys)
      BY <3>1, LenProperties
    <3> QED BY <3>1, <3>2, ElementOfSeq
  <2>4. PICK s \in Seq(Token) : s = <<Keys[n], Equals>> /\ Len(s) = 2 /\ s[1] = Keys[n]
    <3>1. <<Keys[n], Equals>> \in Seq(Token)
      BY <2>3
    <3>2. Len(<<Keys[n], Equals>>) = 2 /\ <<Keys[n], Equals>>[1] = Keys[n]
      OBVIOUS
    <3> QED BY <3>1, <3>2
  <2>5. PICK e \in Seq(Token) : e = <<Newline>> /\ Len(e) = 1 /\ e[1] = Newline
    <3>1. <<Newline>> \in Seq(Token)
      BY <2>3
    <3>2. Len(<<Newline>>) = 1 /\ <<Newline>>[1] = Newline
      OBVIOUS
    <3> QED BY <3>1, <3>2
  <2>6. PICK r : r = s \o v
    OBVIOUS
  <2>7. r \in Seq(Token)
    BY <2>6, ConcatProperties
  <2>8. piece = r \o e
    BY <1>2, <2>1, <2>4, <2>5, <2>6 DEF Pieces
  <2>9. piece \in Seq(Token)
    BY <2>7, <2>8, ConcatProperties
  <2>10. /\ Len(r) = b + 2
         /\ \A i \in 1 .. 2 : r[i] = s[i]
         /\ \A j \in 1 .. b : r[2 + j] = v[j]
    <3>1. /\ Len(r) = Len(s) + Len(v)
          /\ \A i \in 1 .. Len(s) : r[i] = s[i]
          /\ \A j \in 1 .. Len(v) : r[Len(s) + j] = v[j]
      BY <2>6, ConcatPlaces
    <3> QED BY <2>2, <2>4, <3>1
  <2>11. /\ Len(piece) = b + 3
         /\ \A i \in 1 .. b + 2 : piece[i] = r[i]
         /\ piece[b + 3] = Newline
    <3>1. /\ Len(piece) = Len(r) + Len(e)
          /\ \A i \in 1 .. Len(r) : piece[i] = r[i]
          /\ \A j \in 1 .. Len(e) : piece[Len(r) + j] = e[j]
      BY <2>7, <2>8, ConcatPlaces
    <3>2. (b + 2) + 1 = b + 3 /\ 1 \in 1 .. 1
      OBVIOUS
    <3> QED BY <2>5, <2>10, <3>1, <3>2
  <2>12. piece[1] = Keys[n]
    <3>1. 1 \in 1 .. b + 2 /\ 1 \in 1 .. 2
      OBVIOUS
    <3> QED BY <2>4, <2>10, <2>11, <3>1
  <2>13. \A j \in 1 .. b : piece[j + 2] = v[j]
    <3>1. \A j \in 1 .. b : j + 2 \in 1 .. b + 2 /\ 2 + j = j + 2
      OBVIOUS
    <3> QED BY <2>10, <2>11, <3>1
  <2> QED BY <1>2, <2>1, <2>2, <2>9, <2>11, <2>12, <2>13
<1> QED BY <1>1, <1>2

\* Where in the text each key stands, by the place at which its piece begins.
Laid(at, map, text) ==
    /\ at \in [0 .. Len(Keys) -> Nat] /\ at[0] = 0 /\ at[Len(Keys)] = Len(text)
    /\ \A n \in 1 .. Len(Keys) :
          /\ at[n] <= Len(text)
          /\ Keys[n] \notin DOMAIN map => at[n] = at[n - 1]
          /\ Keys[n] \in DOMAIN map =>
                \E b \in Nat :
                    /\ Len(map[Keys[n]]) = b /\ at[n] = at[n - 1] + (b + 3)
                    /\ text[at[n - 1] + 1] = Keys[n] /\ text[at[n - 1] + (b + 3)] = Newline
                    /\ \A j \in 1 .. b : text[at[n - 1] + (j + 2)] = map[Keys[n]][j]

LEMMA TextIsLaid ==
    ASSUME NEW Token, ConfigsTyped(Token), NEW map, IsConfig(map, Token)
    PROVE  \E at : Laid(at, map, HashedText(map))
<1> DEFINE N == Len(Keys)
<1>p. PICK seqs : seqs = Pieces(map)
  OBVIOUS
<1>1. N \in Nat /\ DOMAIN Keys = 1 .. N
  BY LenProperties DEF ConfigsTyped
<1>2. \A n \in 1 .. N : seqs[n] \in Seq(Token)
  BY <1>1, <1>p, PieceFacts
<1>3. seqs \in Seq(Seq(Token)) /\ Len(seqs) = N
  <2>1. seqs = [n \in 1 .. N |-> seqs[n]]
    BY <1>1, <1>p DEF Pieces
  <2> QED BY <1>1, <1>2, <2>1
<1>4. HashedText(map) = FlattenSeq(seqs)
  BY <1>p DEF HashedText, Pieces
<1>5. PICK g : Flattened(g, seqs, Token) /\ FlattenSeq(seqs) = g[N]
  BY <1>3, FlattenSeqFacts
<1>6. PICK text : text = g[N]
  OBVIOUS
<1>7. \A n \in 0 .. N : Len(g[n]) \in Nat
  <2>1. \A n \in 0 .. N : g[n] \in Seq(Token)
    BY <1>3, <1>5 DEF Flattened
  <2> QED BY <2>1, LenProperties
<1>8. PICK at : at = [n \in 0 .. N |-> Len(g[n])]
  OBVIOUS
<1>9. at \in [0 .. N -> Nat] /\ \A n \in 0 .. N : at[n] = Len(g[n])
  BY <1>7, <1>8
<1>10. at[0] = 0 /\ at[N] = Len(text)
  <2>1. g[0] = <<>> /\ Len(<<>>) = 0
    BY <1>5, EmptySeq DEF Flattened
  <2> QED BY <1>1, <1>6, <1>9, <2>1
<1>11. ASSUME NEW n \in 1 .. N
       PROVE  /\ at[n] <= Len(text)
              /\ at[n - 1] \in Nat /\ Len(seqs[n]) \in Nat
              /\ at[n] = at[n - 1] + Len(seqs[n])
              /\ \A j \in 1 .. Len(seqs[n]) : text[at[n - 1] + j] = seqs[n][j]
  <2>1. n \in 0 .. N /\ n - 1 \in 0 .. N
    BY <1>1
  <2>2. at[n] = Len(g[n]) /\ at[n - 1] = Len(g[n - 1])
    BY <1>9, <2>1
  <2>3. /\ Len(g[n - 1]) \in Nat /\ Len(seqs[n]) \in Nat
        /\ Len(g[n]) = Len(g[n - 1]) + Len(seqs[n])
        /\ Len(g[n]) <= Len(g[N])
        /\ \A j \in 1 .. Len(seqs[n]) : g[N][Len(g[n - 1]) + j] = seqs[n][j]
    <3>1. Len(seqs) \in Nat /\ n \in 1 .. Len(seqs)
      BY <1>1, <1>3
    <3>2. InPlace(g, seqs, n)
      BY <1>5, <3>1, PiecesInPlace
    <3> QED BY <1>3, <3>2 DEF InPlace
  <2> QED BY <1>6, <2>2, <2>3
<1>12. ASSUME NEW n \in 1 .. N, Keys[n] \notin DOMAIN map PROVE at[n] = at[n - 1]
  <2>1. Len(seqs[n]) = 0
    BY <1>1, <1>p, <1>12, PieceFacts
  <2> QED BY <1>11, <2>1
<1>13. ASSUME NEW n \in 1 .. N, Keys[n] \in DOMAIN map
       PROVE  \E b \in Nat :
                  /\ Len(map[Keys[n]]) = b /\ at[n] = at[n - 1] + (b + 3)
                  /\ text[at[n - 1] + 1] = Keys[n] /\ text[at[n - 1] + (b + 3)] = Newline
                  /\ \A j \in 1 .. b : text[at[n - 1] + (j + 2)] = map[Keys[n]][j]
  <2>0. PICK piece : piece = seqs[n]
    OBVIOUS
  <2>1. PICK b \in Nat :
          /\ Len(map[Keys[n]]) = b /\ Len(piece) = b + 3
          /\ piece[1] = Keys[n] /\ piece[b + 3] = Newline
          /\ \A j \in 1 .. b : piece[j + 2] = map[Keys[n]][j]
    BY <1>1, <1>p, <1>13, <2>0, PieceFacts
  <2>2. 1 \in 1 .. b + 3 /\ b + 3 \in 1 .. b + 3 /\ \A j \in 1 .. b : j + 2 \in 1 .. b + 3
    OBVIOUS
  <2>3. at[n] = at[n - 1] + (b + 3) /\ \A j \in 1 .. b + 3 : text[at[n - 1] + j] = piece[j]
    BY <1>11, <2>0, <2>1
  <2>4. \A j \in 1 .. b : text[at[n - 1] + (j + 2)] = map[Keys[n]][j]
    BY <2>1, <2>2, <2>3
  <2>5. text[at[n - 1] + 1] = Keys[n] /\ text[at[n - 1] + (b + 3)] = Newline
    BY <2>1, <2>2, <2>3
  <2> QED BY <2>1, <2>3, <2>4, <2>5
<1>14. Laid(at, map, text)
  BY <1>9, <1>10, <1>11, <1>12, <1>13 DEF Laid
<1> QED BY <1>4, <1>5, <1>6, <1>14

-----------------------------------------------------------------------------
(* The text determines the configuration *)

\* What follows a place in the text is nothing, or begins with a later key.
LEMMA NextKey ==
    ASSUME Len(Keys) \in Nat, NEW at, NEW map, NEW text, Laid(at, map, text),
           NEW m \in 0 .. Len(Keys)
    PROVE  \/ at[m] = Len(text)
           \/ \E q \in m + 1 .. Len(Keys) : text[at[m] + 1] = Keys[q]
<1> DEFINE N == Len(Keys)
           S == {d \in Nat : m + d <= N =>
                    \/ at[m + d] = at[m]
                    \/ \E q \in m + 1 .. N : text[at[m] + 1] = Keys[q]}
<1>1. 0 \in S
  BY m + 0 = m
<1>2. ASSUME NEW d \in Nat, d \in S PROVE d + 1 \in S
  <2> SUFFICES ASSUME m + (d + 1) <= N, ~ \E q \in m + 1 .. N : text[at[m] + 1] = Keys[q]
               PROVE  at[m + (d + 1)] = at[m]
    OBVIOUS
  <2>1. PICK n : n = m + (d + 1)
    OBVIOUS
  <2>2. n \in 1 .. N /\ n \in m + 1 .. N /\ n - 1 = m + d /\ m + d <= N
    BY <2>1
  <2>3. at[n - 1] = at[m]
    BY <1>2, <2>2
  <2>4. Keys[n] \in DOMAIN map => text[at[n - 1] + 1] = Keys[n]
    BY <2>2 DEF Laid
  <2>5. Keys[n] \notin DOMAIN map
    BY <2>2, <2>3, <2>4
  <2>6. at[n] = at[n - 1]
    BY <2>2, <2>5 DEF Laid
  <2> QED BY <2>1, <2>3, <2>6
<1> HIDE DEF S
<1>3. \A d \in Nat : d \in S
  BY <1>1, <1>2, SetInduction
<1>4. N - m \in Nat /\ m + (N - m) = N /\ m + (N - m) <= N
  OBVIOUS
<1>5. \/ at[N] = at[m]
      \/ \E q \in m + 1 .. N : text[at[m] + 1] = Keys[q]
  <2>1. N - m \in S
    BY <1>3, <1>4
  <2> QED BY <1>4, <2>1 DEF S
<1>6. at[N] = Len(text)
  BY DEF Laid
<1> QED BY <1>5, <1>6

\* A value stands behind its key at a place of the text, and ends its line.
Stands(text, p, v) ==
    \E b \in Nat : /\ Len(v) = b /\ text[p + (b + 3)] = Newline
                   /\ \A j \in 1 .. b : text[p + (j + 2)] = v[j]

\* Values of one line that stand at the same place are the same.
LEMMA SameLine ==
    ASSUME NEW Token, NEW v \in Seq(Token), NEW w \in Seq(Token),
           Newline \notin ToSet(v), Newline \notin ToSet(w),
           NEW text, NEW p \in Nat, Stands(text, p, v), Stands(text, p, w)
    PROVE  v = w
<1>v. PICK b \in Nat : /\ Len(v) = b /\ text[p + (b + 3)] = Newline
                      /\ \A j \in 1 .. b : text[p + (j + 2)] = v[j]
  BY DEF Stands
<1>w. PICK c \in Nat : /\ Len(w) = c /\ text[p + (c + 3)] = Newline
                      /\ \A j \in 1 .. c : text[p + (j + 2)] = w[j]
  BY DEF Stands
<1>1. \A j \in 1 .. b : v[j] # Newline
  BY <1>v, LenProperties DEF ToSet
<1>2. \A j \in 1 .. c : w[j] # Newline
  BY <1>w, LenProperties DEF ToSet
<1>3. ~ b < c
  <2> SUFFICES ASSUME b < c PROVE FALSE
    OBVIOUS
  <2>1. b + 1 \in 1 .. c /\ (b + 1) + 2 = b + 3
    OBVIOUS
  <2>2. text[p + (b + 3)] = w[b + 1]
    BY <1>w, <2>1
  <2> QED BY <1>v, <1>2, <2>1, <2>2
<1>4. ~ c < b
  <2> SUFFICES ASSUME c < b PROVE FALSE
    OBVIOUS
  <2>1. c + 1 \in 1 .. b /\ (c + 1) + 2 = c + 3
    OBVIOUS
  <2>2. text[p + (c + 3)] = v[c + 1]
    BY <1>v, <2>1
  <2> QED BY <1>w, <1>1, <2>1, <2>2
<1>5. b = c
  BY <1>3, <1>4
<1>6. \A j \in 1 .. b : v[j] = w[j]
  BY <1>v, <1>w, <1>5
<1> QED BY <1>v, <1>w, <1>5, <1>6, SeqEqual

\* Configurations agree on the keys before a place.
Agree(a, b, n) ==
    \A m \in 1 .. n : /\ Keys[m] \in DOMAIN a <=> Keys[m] \in DOMAIN b
                      /\ Keys[m] \in DOMAIN a => a[Keys[m]] = b[Keys[m]]

\* At the place of a key that one has, the other has it too.
LEMMA KeyIsThere ==
    ASSUME NEW Token, ConfigsTyped(Token), NEW map, NEW other, NEW text,
           NEW at, Laid(at, map, text), NEW ot, Laid(ot, other, text),
           NEW n \in 1 .. Len(Keys), at[n - 1] = ot[n - 1], Keys[n] \in DOMAIN map
    PROVE  Keys[n] \in DOMAIN other
<1> SUFFICES ASSUME Keys[n] \notin DOMAIN other PROVE FALSE
  OBVIOUS
<1>0. Len(Keys) \in Nat /\ DOMAIN Keys = 1 .. Len(Keys)
  BY LenProperties DEF ConfigsTyped
<1>1. n - 1 \in 0 .. Len(Keys) /\ n \in 0 .. Len(Keys)
  BY <1>0
<1>2. ot[n] = ot[n - 1] /\ ot[n] \in Nat
  BY <1>1 DEF Laid
<1>3. text[at[n - 1] + 1] = Keys[n]
  BY DEF Laid
<1>4. at[n - 1] # Len(text)
  <2>1. PICK b \in Nat : at[n] = at[n - 1] + (b + 3)
    BY DEF Laid
  <2>2. at[n - 1] \in Nat /\ at[n] <= at[Len(Keys)] /\ at[Len(Keys)] = Len(text)
    BY <1>1 DEF Laid
  <2> QED BY <2>1, <2>2
<1>5. PICK q \in n + 1 .. Len(Keys) : text[ot[n] + 1] = Keys[q]
  BY <1>0, <1>1, <1>2, <1>4, NextKey
<1>6. Keys[q] = Keys[n] /\ q \in DOMAIN Keys /\ n \in DOMAIN Keys /\ q # n
  BY <1>0, <1>2, <1>3, <1>5
<1> QED BY <1>6 DEF ConfigsTyped

\* hashConfigMapData: where every value has one line the pairs cannot run into each
\* other, whatever the values hold: the text of another configuration is another text.
LEMMA TextDetermines ==
    ASSUME NEW Token, ConfigsTyped(Token),
           NEW a, IsConfig(a, Token), SingleLine(a),
           NEW b, IsConfig(b, Token), SingleLine(b),
           HashedText(a) = HashedText(b)
    PROVE  a = b
<1> DEFINE N == Len(Keys)
<1>0. N \in Nat /\ DOMAIN Keys = 1 .. N
  BY LenProperties DEF ConfigsTyped
<1>t. PICK text : text = HashedText(a)
  OBVIOUS
<1>1. PICK at : Laid(at, a, text)
  BY <1>t, TextIsLaid
<1>2. PICK bt : Laid(bt, b, text)
  BY <1>t, TextIsLaid
<1> DEFINE S == {n \in Nat : n <= N => at[n] = bt[n] /\ Agree(a, b, n)}
<1>3. 0 \in S
  BY <1>1, <1>2 DEF Laid, Agree
<1>4. ASSUME NEW n \in Nat, n \in S PROVE n + 1 \in S
  <2> SUFFICES ASSUME n + 1 <= N PROVE at[n + 1] = bt[n + 1] /\ Agree(a, b, n + 1)
    OBVIOUS
  <2>0. PICK m : m = n + 1
    OBVIOUS
  <2>1. m \in 1 .. N /\ m - 1 = n /\ n <= N /\ n \in 0 .. N
    BY <1>0, <2>0
  <2>2. at[m - 1] = bt[m - 1] /\ at[m - 1] \in Nat /\ Agree(a, b, n)
    BY <1>1, <1>4, <2>1 DEF Laid
  <2>3. Keys[m] \in DOMAIN a <=> Keys[m] \in DOMAIN b
    BY <1>1, <1>2, <2>1, <2>2, KeyIsThere
  <2>4. at[m] = bt[m] /\ (Keys[m] \in DOMAIN a => a[Keys[m]] = b[Keys[m]])
    <3>1. CASE Keys[m] \notin DOMAIN a
      <4>1. at[m] = at[m - 1]
        BY <1>1, <2>1, <3>1 DEF Laid
      <4>2. bt[m] = bt[m - 1]
        BY <1>2, <2>1, <2>3, <3>1 DEF Laid
      <4> QED BY <2>2, <3>1, <4>1, <4>2
    <3>2. CASE Keys[m] \in DOMAIN a
      <4>1. PICK p \in Nat : p = at[m - 1]
        BY <2>2
      <4>2. PICK i \in Nat :
              /\ Len(a[Keys[m]]) = i /\ at[m] = at[m - 1] + (i + 3)
              /\ text[at[m - 1] + (i + 3)] = Newline
              /\ \A j \in 1 .. i : text[at[m - 1] + (j + 2)] = a[Keys[m]][j]
        BY <1>1, <2>1, <3>2 DEF Laid
      <4>3. PICK k \in Nat :
              /\ Len(b[Keys[m]]) = k /\ bt[m] = bt[m - 1] + (k + 3)
              /\ text[bt[m - 1] + (k + 3)] = Newline
              /\ \A j \in 1 .. k : text[bt[m - 1] + (j + 2)] = b[Keys[m]][j]
        BY <1>2, <2>1, <2>3, <3>2 DEF Laid
      <4>4. PICK v \in Seq(Token) : v = a[Keys[m]] /\ Newline \notin ToSet(v)
        BY <3>2 DEF IsConfig, SingleLine
      <4>5. PICK w \in Seq(Token) : w = b[Keys[m]] /\ Newline \notin ToSet(w)
        BY <2>3, <3>2 DEF IsConfig, SingleLine
      <4>6. Stands(text, p, v)
        BY <4>1, <4>2, <4>4 DEF Stands
      <4>7. Stands(text, p, w)
        BY <2>2, <4>1, <4>3, <4>5 DEF Stands
      <4>8. v = w
        BY <4>4, <4>5, <4>6, <4>7, SameLine
      <4> QED BY <2>2, <4>2, <4>3, <4>4, <4>5, <4>8
    <3> QED BY <3>1, <3>2
  <2>5. \A i \in 1 .. m : i \in 1 .. n \/ i = m
    BY <2>0
  <2>6. Agree(a, b, m)
    BY <2>2, <2>3, <2>4, <2>5 DEF Agree
  <2> QED BY <2>0, <2>4, <2>6
<1> HIDE DEF S
<1>5. \A n \in Nat : n \in S
  BY <1>3, <1>4, SetInduction
<1>6. Agree(a, b, N)
  BY <1>0, <1>5 DEF S
<1>7. \A k \in ToSet(Keys) : \E m \in 1 .. N : Keys[m] = k
  BY <1>0 DEF ToSet
<1>8. DOMAIN a = DOMAIN b /\ \A k \in DOMAIN a : a[k] = b[k]
  <2>1. \A k \in ToSet(Keys) :
            /\ k \in DOMAIN a <=> k \in DOMAIN b
            /\ k \in DOMAIN a => a[k] = b[k]
    BY <1>6, <1>7, Zenon DEF Agree
  <2>2. DOMAIN a \subseteq ToSet(Keys) /\ DOMAIN b \subseteq ToSet(Keys)
    BY DEF IsConfig
  <2> QED BY <2>1, <2>2, Zenon
<1>9. PICK D : D = DOMAIN a
  OBVIOUS
<1>10. a = [k \in D |-> a[k]] /\ b = [k \in D |-> b[k]]
  BY <1>8, <1>9 DEF IsConfig
<1>11. \A k \in D : a[k] = b[k]
  BY <1>8, <1>9
<1> QED BY <1>10, <1>11

\* isDataEqual: data of the same number of keys, each with the same value, are the same.
LEMMA DataEqualIsEqual ==
    ASSUME NEW Token, ConfigsTyped(Token),
           NEW a, IsConfig(a, Token), NEW b, IsConfig(b, Token), IsDataEqual(a, b)
    PROVE  a = b
<1>1. IsFiniteSet(ToSet(Keys))
  <2>1. DOMAIN Keys = 1 .. Len(Keys) /\ Len(Keys) \in Nat
    BY LenProperties DEF ConfigsTyped
  <2>2. IsFiniteSet(DOMAIN Keys)
    BY <2>1, FS_Interval
  <2>3. Keys \in Surjection(DOMAIN Keys, ToSet(Keys))
    <3>1. Keys = [n \in DOMAIN Keys |-> Keys[n]]
      BY LenProperties DEF ConfigsTyped
    <3> QED BY <3>1 DEF Surjection, ToSet
  <2> QED BY <2>2, <2>3, FS_Surjection
<1>2. IsFiniteSet(DOMAIN b)
  BY <1>1, FS_Subset DEF IsConfig
<1>3. DOMAIN a \subseteq DOMAIN b /\ Cardinality(DOMAIN a) = Cardinality(DOMAIN b)
  BY DEF IsDataEqual
<1>4. DOMAIN a = DOMAIN b
  BY <1>2, <1>3, FS_Subset
<1> QED BY <1>4 DEF IsDataEqual, IsConfig

-----------------------------------------------------------------------------
(* The theorem *)

\* The pods run with data whose text is that of the ConfigMap and of the checksum.
ChecksumInv ==
    /\ wanted \in Wanted /\ data \in Wanted /\ running \in Wanted
    /\ stamped = HashedText(data) /\ stamped = HashedText(running)

\* For all keys, numbers of them and values: with values of one line, what a pass
\* leaves running is what the Phare asks for, whatever was edited before.
THEOREM PassesDeliverEdits == ChecksumSpec => PassDeliversEdits
<1>0. ConfigsTyped(Tokens)
  BY ConfigAssumption DEF ConfigsTyped, IsConfig
<1>1. ChecksumInit => ChecksumInv
  BY DEF ChecksumInit, ChecksumInv
<1>2. ASSUME ChecksumInv, Pass PROVE data' = wanted
  <2>1. IsConfig(data, Tokens) /\ IsConfig(wanted, Tokens)
    BY <1>0, <1>2 DEF ChecksumInv, ConfigsTyped
  <2>2. IsDataEqual(data, wanted) => data = wanted
    BY <1>0, <2>1, DataEqualIsEqual
  <2> QED BY <1>2, <2>2 DEF Pass
<1>3. ChecksumInv /\ [ChecksumNext]_checksumVars => ChecksumInv'
  <2> SUFFICES ASSUME ChecksumInv, [ChecksumNext]_checksumVars PROVE ChecksumInv'
    OBVIOUS
  <2>1. CASE EditConfig
    BY <2>1 DEF EditConfig, ChecksumInv
  <2>2. CASE Pass
    BY <1>2, <2>2 DEF Pass, ChecksumInv
  <2>3. CASE UNCHANGED checksumVars
    BY <2>3 DEF checksumVars, ChecksumInv
  <2> QED BY <2>1, <2>2, <2>3 DEF ChecksumNext
<1>4. ASSUME ChecksumInv, Pass, SingleLine(wanted), SingleLine(running)
      PROVE  running' = wanted
  <2>1. data' = wanted /\ stamped' = HashedText(wanted)
    BY <1>2, <1>4 DEF Pass
  <2>2. CASE stamped' # stamped
    BY <1>4, <2>1, <2>2 DEF Pass
  <2>3. CASE stamped' = stamped
    <3>1. running' = running /\ HashedText(running) = HashedText(wanted)
      BY <1>4, <2>1, <2>3 DEF Pass, ChecksumInv
    <3>2. IsConfig(running, Tokens) /\ IsConfig(wanted, Tokens)
      BY <1>0, <1>4 DEF ChecksumInv, ConfigsTyped
    <3> QED BY <1>0, <1>4, <3>1, <3>2, TextDetermines
  <2> QED BY <2>2, <2>3
<1> DEFINE Delivers == (Pass /\ SingleLine(wanted) /\ SingleLine(running)) => running' = wanted
<1>5. ChecksumInv /\ [ChecksumNext]_checksumVars => [Delivers]_checksumVars
  BY <1>4
<1>6. PassDeliversEdits <=> [][Delivers]_checksumVars
  BY DEF PassDeliversEdits
<1> HIDE DEF Delivers
<1> QED BY <1>1, <1>3, <1>5, <1>6, PTL DEF ChecksumSpec
=============================================================================

---------------------------- MODULE MessageProofs ---------------------------
(***************************************************************************)
(* What happens to the text of a message: the moderator censors it, the    *)
(* repository stores it and gives it back page by page.  The two share the *)
(* facts about the elements of a set in order.                             *)
(***************************************************************************)
EXTENDS Moderator, MessageRepository, FiniteSetTheorems, SequenceTheorems, TLAPS

-----------------------------------------------------------------------------
(* The elements of a set in order.                                         *)
\* The rank of an element grows with it.
LEMMA RankFacts ==
  ASSUME NEW S \in SUBSET Int, IsFiniteSet(S)
  PROVE  /\ Cardinality(S) \in Nat
         /\ \A x \in S : Rank(S, x) \in 1 .. Cardinality(S)
         /\ \A x, y \in S : x < y <=> Rank(S, x) < Rank(S, y)
<1>1. Cardinality(S) \in Nat
  BY FS_CardinalityType
<1>2. ASSUME NEW x \in S PROVE Rank(S, x) \in 1 .. Cardinality(S)
  <2>1. PICK T : T = {y \in S : y <= x}
    BY Zenon
  <2>2. T \in SUBSET S /\ x \in T
    BY <2>1
  <2>3. IsFiniteSet(T) /\ Cardinality(T) <= Cardinality(S)
    BY <2>2, FS_Subset, Zenon
  <2>4. Cardinality(T) \in Nat /\ Cardinality(T) # 0
    BY <2>2, <2>3, FS_CardinalityType, FS_EmptySet
  <2> QED
    BY <1>1, <2>1, <2>3, <2>4 DEF Rank
<1>3. ASSUME NEW x \in S, NEW y \in S, x < y PROVE Rank(S, x) < Rank(S, y)
  <2>1. PICK T, U : T = {z \in S : z <= x} /\ U = {z \in S : z <= y}
    BY Zenon
  <2>2. U \in SUBSET S /\ T \in SUBSET U /\ y \in U /\ y \notin T
    <3>1. x \in Int /\ y \in Int /\ ~(y <= x) /\ y <= y /\ \A z \in S : z <= x => z <= y
      BY <1>3
    <3> QED
      BY <2>1, <3>1, Zenon
  <2>3. IsFiniteSet(U)
    BY <2>2, FS_Subset, Zenon
  <2>4. Cardinality(T) <= Cardinality(U) /\ Cardinality(T) # Cardinality(U) /\ IsFiniteSet(T)
    BY <2>2, <2>3, FS_Subset, Zenon
  <2>5. Cardinality(T) \in Nat /\ Cardinality(U) \in Nat
    BY <2>3, <2>4, FS_CardinalityType
  <2>6. Cardinality(T) < Cardinality(U)
    BY <2>4, <2>5
  <2> QED
    BY <2>1, <2>6 DEF Rank
<1>4. ASSUME NEW x \in S, NEW y \in S, Rank(S, x) < Rank(S, y) PROVE x < y
  <2>1. CASE x = y
    BY <1>2, <1>4, <2>1
  <2>2. CASE y < x
    <3>1. Rank(S, y) < Rank(S, x)
      BY <1>3, <2>2
    <3> QED
      BY <1>1, <1>2, <1>4, <3>1
  <2> QED
    BY <2>1, <2>2
<1> QED
  BY <1>1, <1>2, <1>3, <1>4

\* Two elements do not share a rank.
LEMMA RankOne ==
  ASSUME NEW S \in SUBSET Int, IsFiniteSet(S), NEW x \in S, NEW y \in S, Rank(S, x) = Rank(S, y)
  PROVE  x = y
<1>1. Rank(S, x) \in Nat /\ Rank(S, y) \in Nat
  BY RankFacts
<1>2. ~(x < y) /\ ~(y < x)
  BY <1>1, RankFacts
<1> QED
  BY <1>2

\* Every rank is that of one element.
LEMMA RankOnto ==
  ASSUME NEW S \in SUBSET Int, IsFiniteSet(S), NEW i \in 1 .. Cardinality(S)
  PROVE  \E x \in S : Rank(S, x) = i
<1>1. PICK n \in Nat : n = Cardinality(S)
  BY RankFacts
<1>2. PICK f : f = [x \in S |-> Rank(S, x)]
  BY Zenon
<1>3. \A x, y \in S : Rank(S, x) = Rank(S, y) => x = y
  BY RankOne
<1>4. f \in [S -> 1 .. n]
  BY <1>1, <1>2, RankFacts
<1>5. f \in Injection(S, 1 .. n)
  BY <1>2, <1>3, <1>4 DEF Injection, IsInjective
<1>6. IsFiniteSet(1 .. n) /\ Cardinality(1 .. n) = n
  BY <1>1, FS_Interval
<1>7. f \in Surjection(S, 1 .. n)
  BY <1>1, <1>5, <1>6, FS_Injection
<1> QED
  BY <1>1, <1>2, <1>7 DEF Surjection

\* Ascending lists the elements of the set, each at its rank.
LEMMA AscendingFacts ==
  ASSUME NEW S \in SUBSET Int, IsFiniteSet(S)
  PROVE  /\ Ascending(S) \in Seq(S) /\ Len(Ascending(S)) = Cardinality(S)
         /\ DOMAIN Ascending(S) = 1 .. Cardinality(S)
         /\ \A i \in 1 .. Cardinality(S) : Ascending(S)[i] \in S /\ Rank(S, Ascending(S)[i]) = i
         /\ \A x \in S : Ascending(S)[Rank(S, x)] = x
         /\ Range(Ascending(S)) = S
<1>1. PICK n \in Nat : n = Cardinality(S)
  BY RankFacts
<1>2. ASSUME NEW i \in 1 .. n PROVE Ascending(S)[i] \in S /\ Rank(S, Ascending(S)[i]) = i
  <2>1. \E x \in S : Rank(S, x) = i
    BY <1>1, RankOnto
  <2>2. Ascending(S)[i] = CHOOSE x \in S : Rank(S, x) = i
    BY <1>1 DEF Ascending
  <2> QED
    BY <2>1, <2>2
<1>3. DOMAIN Ascending(S) = 1 .. n /\ Ascending(S) = [i \in 1 .. n |-> Ascending(S)[i]]
  BY <1>1 DEF Ascending
<1>4. Ascending(S) \in Seq(S) /\ Len(Ascending(S)) = n
  BY <1>2, <1>3
<1>5. ASSUME NEW x \in S PROVE Ascending(S)[Rank(S, x)] = x
  <2>1. PICK y \in S : y = Ascending(S)[Rank(S, x)] /\ Rank(S, y) = Rank(S, x)
    BY <1>1, <1>2, RankFacts, Zenon
  <2> QED
    BY <2>1, RankOne
<1>6. Range(Ascending(S)) = S
  <2>1. \A x \in S : Rank(S, x) \in 1 .. n
    BY <1>1, RankFacts
  <2> QED
    BY <1>2, <1>3, <1>5, <2>1, Zenon DEF Range
<1> QED
  BY <1>1, <1>2, <1>3, <1>4, <1>5, <1>6, Zenon

\* Descending lists them from the greatest down.
LEMMA DescendingFacts ==
  ASSUME NEW S \in SUBSET Int, IsFiniteSet(S)
  PROVE  /\ Descending(S) \in Seq(S) /\ Len(Descending(S)) = Cardinality(S)
         /\ DOMAIN Descending(S) = 1 .. Cardinality(S)
         /\ \A i \in 1 .. Cardinality(S) :
              Descending(S)[i] \in S /\ Rank(S, Descending(S)[i]) = Cardinality(S) + 1 - i
         /\ \A i, j \in 1 .. Cardinality(S) : i < j => Descending(S)[i] > Descending(S)[j]
         /\ Range(Descending(S)) = S
<1>1. PICK n \in Nat : n = Cardinality(S)
  BY RankFacts
<1>2. ASSUME NEW i \in 1 .. n PROVE Descending(S)[i] \in S /\ Rank(S, Descending(S)[i]) = n + 1 - i
  <2>1. n + 1 - i \in 1 .. n
    BY <1>1
  <2>2. \E x \in S : Rank(S, x) = n + 1 - i
    BY <1>1, <2>1, RankOnto
  <2>3. Descending(S)[i] = CHOOSE x \in S : Rank(S, x) = n + 1 - i
    BY <1>1 DEF Descending
  <2> QED
    BY <2>2, <2>3
<1>3. DOMAIN Descending(S) = 1 .. n /\ Descending(S) = [i \in 1 .. n |-> Descending(S)[i]]
  BY <1>1 DEF Descending
<1>4. Descending(S) \in Seq(S) /\ Len(Descending(S)) = n
  BY <1>2, <1>3
<1>5. ASSUME NEW i \in 1 .. n, NEW j \in 1 .. n, i < j PROVE Descending(S)[i] > Descending(S)[j]
  <2>1. PICK x \in S, y \in S : /\ x = Descending(S)[i] /\ Rank(S, x) = n + 1 - i
                                /\ y = Descending(S)[j] /\ Rank(S, y) = n + 1 - j
    BY <1>2, Zenon
  <2>2. Rank(S, y) < Rank(S, x)
    BY <1>1, <1>5, <2>1
  <2>3. y < x
    BY <2>2, RankFacts
  <2> QED
    BY <2>1, <2>3
<1>6. S \subseteq Range(Descending(S))
  <2>1. SUFFICES ASSUME NEW x \in S PROVE x \in Range(Descending(S))
    OBVIOUS
  <2>2. PICK i \in 1 .. n : i = n + 1 - Rank(S, x) /\ Rank(S, x) = n + 1 - i /\ Rank(S, x) \in Nat
    <3>1. Rank(S, x) \in 1 .. n
      BY <1>1, RankFacts
    <3>2. n + 1 - Rank(S, x) \in 1 .. n /\ Rank(S, x) = n + 1 - (n + 1 - Rank(S, x))
      BY <1>1, <3>1
    <3> QED
      BY <3>1, <3>2
  <2>3. PICK y \in S : y = Descending(S)[i] /\ Rank(S, y) = Rank(S, x)
    BY <1>2, <2>2, Zenon
  <2>4. x = Descending(S)[i]
    BY <2>3, RankOne
  <2> QED
    BY <1>3, <2>4 DEF Range
<1>7. Range(Descending(S)) \subseteq S
  BY <1>2, <1>3 DEF Range
<1> QED
  BY <1>1, <1>2, <1>3, <1>4, <1>5, <1>6, <1>7, Zenon

\* The greatest elements of a set come first, in their own order.
LEMMA DescendingTop ==
  ASSUME NEW S \in SUBSET Int, IsFiniteSet(S), NEW A \in SUBSET S,
         \A x \in S \ A, y \in A : x < y,
         NEW i \in 1 .. Cardinality(A)
  PROVE  i \in 1 .. Cardinality(S) /\ Descending(S)[i] = Descending(A)[i]
<1>1. IsFiniteSet(A) /\ A \in SUBSET Int
  BY FS_Subset, Zenon
<1>2. PICK n \in Nat, a \in Nat : n = Cardinality(S) /\ a = Cardinality(A) /\ a <= n /\ i \in 1 .. a
  BY <1>1, FS_Subset, FS_CardinalityType, Zenon
<1>3. i \in 1 .. n
  BY <1>2
<1>4. PICK x \in A : x = Descending(A)[i] /\ Rank(A, x) = a + 1 - i
  BY <1>1, <1>2, DescendingFacts, Zenon
<1>5. PICK y \in S : y = Descending(S)[i] /\ Rank(S, y) = n + 1 - i
  BY <1>2, <1>3, DescendingFacts, Zenon
<1>6. PICK C, D : C = S \ A /\ D = {z \in A : z <= x}
  BY Zenon
<1>7. {z \in S : z <= x} = C \cup D /\ C \cap D = {}
  <2>1. \A z \in S \ A : z <= x
    OBVIOUS
  <2> QED
    BY <1>6, <2>1, Zenon
<1>8. IsFiniteSet(C) /\ Cardinality(C) = n - a
  <2>1. S \cap A = A
    BY Zenon
  <2> QED
    BY <1>2, <1>6, <2>1, FS_Difference
<1>9. IsFiniteSet(D) /\ Cardinality(D) = a + 1 - i
  BY <1>1, <1>4, <1>6, FS_Subset DEF Rank
<1>10. Cardinality(C \cup D) = (n - a) + (a + 1 - i) - 0
  <2>1. Cardinality(C \cup D) = Cardinality(C) + Cardinality(D) - Cardinality(C \cap D)
    BY <1>8, <1>9, FS_Union
  <2>2. Cardinality(C \cap D) = 0
    BY <1>7, FS_EmptySet
  <2> QED
    BY <1>8, <1>9, <2>1, <2>2
<1>11. Rank(S, x) = Rank(S, y)
  BY <1>2, <1>5, <1>7, <1>10 DEF Rank
<1>12. x = y
  BY <1>11, RankOne
<1> QED
  BY <1>2, <1>3, <1>4, <1>5, <1>12

-----------------------------------------------------------------------------
(***************************************************************************)
(* Censor.                                                                 *)
(***************************************************************************)
\* The runes of a normalized text.
Runes == Alphabet \cup {"a", "e", "i", "o", "s"}
\* The positions of the runes that are not noise.
Ink(s) == {i \in DOMAIN s : ~isNoise(s[i])}

\* All matches of the text, and what one of them covers of the original.
AllMatches == MultiPatternSearch(Normalized(original), patterns)
Covers(m, k) == k \in OrigIdx(original)[m.Pos] .. OrigIdx(original)[m.Pos + Len(m.Word) - 1]

\* The loop has put stars over the matches it has taken, and over nothing else.
LoopInv ==
  /\ matches \subseteq AllMatches
  /\ origRunes = [k \in DOMAIN original |->
                    IF \E m \in AllMatches \ matches : Covers(m, k) THEN censoredChar ELSE original[k]]
  /\ foundWords = {m.Word : m \in AllMatches \ matches}

CensorInv ==
  /\ original \in Seq(Alphabet)
  /\ \A w \in patterns : w \in Seq(Runes) /\ w # <<>>
  /\ pc \in {"load", "failed", "ready", "search"} => foundWords = {}
  /\ pc = "search" => origRunes = original
  /\ pc \in {"apply", "done"} => LoopInv
  /\ pc = "done" => matches = {}

\* Simplifying a rune makes no noise of it and takes none away.
LEMMA NoiseStays == ASSUME NEW r PROVE isNoise(simplifyRune(r)) <=> isNoise(r)
<1>1. CASE r \in {"4", "@", "3", "EUR", "1", "!", "|", "0", "5", "$"}
  <2>1. simplifyRune(r) \in {"a", "e", "i", "o", "s"}
    BY <1>1 DEF simplifyRune
  <2>2. simplifyRune(r) \notin Punctuation
    BY <2>1, ModeratorAssumption
  <2> QED
    BY <1>1, <2>2 DEF isNoise
<1>2. CASE r \notin {"4", "@", "3", "EUR", "1", "!", "|", "0", "5", "$"}
  <2>1. simplifyRune(r) = r
    BY <1>2 DEF simplifyRune
  <2> QED
    BY <2>1
<1> QED
  BY <1>1, <1>2

\* A rune stays a rune.
LEMMA RuneStays == ASSUME NEW r \in Alphabet PROVE ToLower(simplifyRune(r)) \in Runes
<1>1. simplifyRune(r) \in Runes
  BY DEF simplifyRune, Runes
<1>2. CASE simplifyRune(r) \in DOMAIN Upper
  BY <1>2, ModeratorAssumption DEF ToLower, Runes
<1>3. CASE simplifyRune(r) \notin DOMAIN Upper
  BY <1>1, <1>3 DEF ToLower
<1> QED
  BY <1>2, <1>3

\* OrigIdx holds, in order, the positions of what is not noise.
LEMMA OrigIdxFacts ==
  ASSUME NEW s \in Seq(Alphabet)
  PROVE  /\ Ink(s) \in SUBSET (1 .. Len(s)) /\ Ink(s) \in SUBSET Int /\ IsFiniteSet(Ink(s))
         /\ Cardinality(Ink(s)) \in Nat
         /\ OrigIdx(s) = Ascending(Ink(s))
         /\ DOMAIN OrigIdx(s) = 1 .. Cardinality(Ink(s))
         /\ \A k \in 1 .. Cardinality(Ink(s)) :
              OrigIdx(s)[k] \in Ink(s) /\ Rank(Ink(s), OrigIdx(s)[k]) = k
         /\ \A i \in Ink(s) : Rank(Ink(s), i) \in 1 .. Cardinality(Ink(s)) /\ OrigIdx(s)[Rank(Ink(s), i)] = i
<1>1. PICK S : S = Ink(s)
  OBVIOUS
<1>2. S \in SUBSET (1 .. Len(s)) /\ Len(s) \in Nat
  BY <1>1 DEF Ink
<1>3. S \in SUBSET Int
  BY <1>2
<1>4. IsFiniteSet(S)
  <2>1. IsFiniteSet(1 .. Len(s))
    BY <1>2, FS_Interval
  <2> QED
    BY <1>2, <2>1, FS_Subset, Zenon
<1>5. OrigIdx(s) = Ascending(S)
  BY <1>1 DEF OrigIdx, Ink
<1>6. /\ Cardinality(S) \in Nat /\ DOMAIN Ascending(S) = 1 .. Cardinality(S)
      /\ \A k \in 1 .. Cardinality(S) : Ascending(S)[k] \in S /\ Rank(S, Ascending(S)[k]) = k
  BY <1>3, <1>4, AscendingFacts, RankFacts
<1>7. \A i \in S : Rank(S, i) \in 1 .. Cardinality(S) /\ Ascending(S)[Rank(S, i)] = i
  BY <1>3, <1>4, AscendingFacts, RankFacts
<1> QED
  BY <1>1, <1>2, <1>3, <1>4, <1>5, <1>6, <1>7

\* A text is normalized into runes, one for each position that is not noise.
LEMMA NormalizedFacts ==
  ASSUME NEW s \in Seq(Alphabet)
  PROVE  /\ Normalized(s) \in Seq(Runes)
         /\ Len(Normalized(s)) = Cardinality(Ink(s))
         /\ \A k \in 1 .. Cardinality(Ink(s)) : Normalized(s)[k] = ToLower(simplifyRune(s[OrigIdx(s)[k]]))
<1>1. PICK n \in Nat : n = Cardinality(Ink(s)) /\ DOMAIN OrigIdx(s) = 1 .. n
  BY OrigIdxFacts
<1>2. Normalized(s) = [k \in 1 .. n |-> ToLower(simplifyRune(s[OrigIdx(s)[k]]))]
  BY <1>1 DEF Normalized
<1>3. ASSUME NEW k \in 1 .. n PROVE ToLower(simplifyRune(s[OrigIdx(s)[k]])) \in Runes
  <2>1. OrigIdx(s)[k] \in 1 .. Len(s)
    BY <1>1, OrigIdxFacts
  <2>2. s[OrigIdx(s)[k]] \in Alphabet
    BY <2>1, ElementOfSeq
  <2> QED
    BY <2>2, RuneStays
<1>4. Normalized(s) \in [1 .. n -> Runes]
  BY <1>2, <1>3
<1>5. Normalized(s) \in Seq(Runes) /\ Len(Normalized(s)) = n
  BY <1>4
<1> QED
  BY <1>1, <1>2, <1>5

\* Words and texts are normalized in different orders, to the same end.
LEMMA NormalizeSame == ASSUME NEW s \in Seq(Alphabet) PROVE normalizeRunes(s) = Normalized(s)
<1>1. PICK clean : clean = [i \in DOMAIN s |-> simplifyRune(s[i])]
  BY Zenon
<1>2. {i \in DOMAIN clean : ~isNoise(clean[i])} = {i \in DOMAIN s : ~isNoise(s[i])}
  BY <1>1, NoiseStays
<1>3. OrigIdx(clean) = OrigIdx(s)
  BY <1>2, Zenon DEF OrigIdx
<1>4. PICK at : at = OrigIdx(s) /\ \A k \in DOMAIN at : at[k] \in DOMAIN s
  BY OrigIdxFacts
<1>5. \A k \in DOMAIN at : ToLower(clean[at[k]]) = ToLower(simplifyRune(s[at[k]]))
  BY <1>1, <1>4
<1>6. normalizeRunes(s) = [k \in DOMAIN at |-> ToLower(clean[at[k]])]
  BY <1>1, <1>3, <1>4 DEF normalizeRunes
<1>7. Normalized(s) = [k \in DOMAIN at |-> ToLower(simplifyRune(s[at[k]]))]
  BY <1>4 DEF Normalized
<1> QED
  BY <1>5, <1>6, <1>7

\* The positions of S between i and j, counted from i.
Stretch(S, i, j) == {y \in 1 .. (j - i + 1) : i + y - 1 \in S}

\* The positions of a stretch that begins and ends with what is not noise are
\* those of the text, counted from the beginning of the stretch.
LEMMA StretchRank ==
  ASSUME NEW S \in SUBSET Int, IsFiniteSet(S), NEW i \in S, NEW j \in S, i <= j,
         NEW M, M = Stretch(S, i, j)
  PROVE  /\ M \in SUBSET Int /\ IsFiniteSet(M)
         /\ Cardinality(M) = Rank(S, j) - Rank(S, i) + 1
         /\ \A x \in M : i + x - 1 \in S /\ Rank(M, x) = Rank(S, i + x - 1) - Rank(S, i) + 1
<1> USE DEF Stretch
<1>1. M \in SUBSET (1 .. (j - i + 1)) /\ M \in SUBSET Int
  OBVIOUS
<1>2. IsFiniteSet(M)
  <2>1. IsFiniteSet(1 .. (j - i + 1))
    BY FS_Interval
  <2> QED
    BY <1>1, <2>1, FS_Subset
<1>3. PICK B : B = {z \in S : z < i}
  BY Zenon
<1>4. IsFiniteSet(B) /\ Cardinality(B) = Rank(S, i) - 1
  <2>1. PICK D : D = {z \in S : z <= i}
    BY Zenon
  <2>2. IsFiniteSet(D) /\ i \in D
    BY <2>1, FS_Subset
  <2>3. B = D \ {i}
    <3>1. \A z \in S : z < i <=> z <= i /\ z # i
      OBVIOUS
    <3> QED
      BY <1>3, <2>1, <3>1, Zenon
  <2> QED
    BY <2>1, <2>2, <2>3, FS_RemoveElement DEF Rank
<1>5. ASSUME NEW x \in M PROVE i + x - 1 \in S /\ Rank(M, x) = Rank(S, i + x - 1) - Rank(S, i) + 1
  <2>1. PICK C, D : C = {y \in M : y <= x} /\ D = {z \in S : i <= z /\ z <= i + x - 1}
    BY Zenon
  <2>2. IsFiniteSet(C) /\ IsFiniteSet(D)
    BY <1>2, <2>1, FS_Subset
  <2>3. ExistsBijection(C, D)
    <3>1. PICK f : f = [y \in C |-> i + y - 1]
      BY Zenon
    <3>2. f \in [C -> D]
      <4>1. ASSUME NEW y \in C PROVE i + y - 1 \in D
        BY <2>1
      <4> QED
        BY <3>1, <4>1
    <3>3. \A a, b \in C : f[a] = f[b] => a = b
      BY <1>1, <2>1, <3>1
    <3>4. ASSUME NEW z \in D PROVE \E y \in C : f[y] = z
      <4>1. z \in Int /\ z - i + 1 \in 1 .. (j - i + 1) /\ i + (z - i + 1) - 1 = z /\ z - i + 1 <= x
        BY <1>1, <2>1
      <4>2. z - i + 1 \in C
        BY <2>1, <4>1
      <4> QED
        BY <3>1, <4>1, <4>2
    <3>5. f \in Bijection(C, D)
      BY <3>2, <3>3, <3>4 DEF Bijection, Injection, Surjection, IsInjective
    <3> QED
      BY <3>5 DEF ExistsBijection
  <2>4. Cardinality(D) = Cardinality(C)
    BY <2>2, <2>3, FS_Bijection
  <2>5. {z \in S : z <= i + x - 1} = B \cup D /\ B \cap D = {}
    <3>1. x \in Int /\ x >= 1
      BY <1>1
    <3>2. \A z \in S : z <= i + x - 1 <=> z < i \/ (i <= z /\ z <= i + x - 1)
      BY <3>1
    <3>3. \A z \in S : ~(z < i /\ i <= z)
      OBVIOUS
    <3> QED
      BY <1>3, <2>1, <3>2, <3>3, Zenon
  <2>6. Cardinality(B \cup D) = Cardinality(B) + Cardinality(D) - 0
    <3>1. Cardinality(B \cap D) = 0
      BY <2>5, FS_EmptySet
    <3> QED
      BY <1>4, <2>2, <3>1, FS_Union
  <2>7. i + x - 1 \in S
    OBVIOUS
  <2>8. PICK c \in Nat, r \in Nat : c = Cardinality(C) /\ r = Rank(S, i)
    BY <2>2, FS_CardinalityType, RankFacts
  <2>9. Rank(S, i + x - 1) = (r - 1) + c
    <3>1. Rank(S, i + x - 1) = Cardinality(B \cup D)
      BY <2>5 DEF Rank
    <3> QED
      BY <1>4, <2>4, <2>6, <2>8, <3>1
  <2>10. Rank(M, x) = c
    BY <2>1, <2>8 DEF Rank
  <2> QED
    BY <2>7, <2>8, <2>9, <2>10
<1>6. Cardinality(M) = Rank(S, j) - Rank(S, i) + 1
  <2>1. j - i + 1 \in M /\ i + (j - i + 1) - 1 = j
    <3>1. j - i + 1 \in 1 .. (j - i + 1) /\ i + (j - i + 1) - 1 = j
      OBVIOUS
    <3> QED
      BY <3>1
  <2>2. {y \in M : y <= j - i + 1} = M
    BY <1>1
  <2>3. Rank(M, j - i + 1) = Cardinality(M)
    BY <2>2, Zenon DEF Rank
  <2> QED
    BY <1>5, <2>1, <2>3
<1> QED
  BY <1>1, <1>2, <1>5, <1>6

\* A stretch that begins and ends with what is not noise is normalized to the
\* stretch of the normalized text between the two.
LEMMA StretchNormalized ==
  ASSUME NEW s \in Seq(Alphabet), NEW i \in Ink(s), NEW j \in Ink(s), i <= j
  PROVE  /\ SubSeq(s, i, j) \in Seq(Alphabet)
         /\ Normalized(SubSeq(s, i, j)) = SubSeq(Normalized(s), Rank(Ink(s), i), Rank(Ink(s), j))
<1>1. PICK S \in SUBSET Int : S = Ink(s) /\ S \subseteq 1 .. Len(s) /\ IsFiniteSet(S)
  BY OrigIdxFacts
<1>2. PICK n \in Nat, p \in Nat, q \in Nat : /\ n = Cardinality(S) /\ p = Rank(S, i) /\ q = Rank(S, j)
                                            /\ p \in 1 .. n /\ q \in 1 .. n
  BY <1>1, RankFacts
<1>3. i \in 1 .. Len(s) /\ j \in 1 .. Len(s) /\ i \in Int /\ j \in Int /\ i \in S /\ j \in S
  BY <1>1
<1>4. PICK u \in Seq(Alphabet) : /\ u = SubSeq(s, i, j) /\ Len(u) = j - i + 1
                                 /\ DOMAIN u = 1 .. (j - i + 1)
                                 /\ \A y \in 1 .. (j - i + 1) : u[y] = s[i + y - 1]
  <2>1. \A y \in i .. j : s[y] \in Alphabet
    BY <1>3, ElementOfSeq
  <2>2. /\ SubSeq(s, i, j) \in Seq(Alphabet)
        /\ Len(SubSeq(s, i, j)) = IF i <= j THEN j - i + 1 ELSE 0
        /\ \A y \in 1 .. (j - i + 1) : SubSeq(s, i, j)[y] = s[i + y - 1]
    BY <1>3, <2>1, SubSeqProperties
  <2>3. Len(SubSeq(s, i, j)) = j - i + 1 /\ DOMAIN SubSeq(s, i, j) = 1 .. (j - i + 1)
    BY <2>2, LenProperties
  <2> QED
    BY <2>2, <2>3, Zenon
<1>5. PICK M : M = Ink(u)
  OBVIOUS
<1>6. M = {y \in 1 .. (j - i + 1) : i + y - 1 \in S}
  <2>1. ASSUME NEW y \in 1 .. (j - i + 1) PROVE i + y - 1 \in S <=> ~isNoise(u[y])
    <3>1. i + y - 1 \in 1 .. Len(s)
      BY <1>3
    <3>2. i + y - 1 \in DOMAIN s /\ u[y] = s[i + y - 1]
      BY <1>4, <3>1
    <3> QED
      BY <1>1, <3>2 DEF Ink
  <2> QED
    BY <1>4, <1>5, <2>1, Zenon DEF Ink
<1>7. /\ M \in SUBSET Int /\ IsFiniteSet(M) /\ Cardinality(M) = q - p + 1
      /\ \A x \in M : i + x - 1 \in S /\ Rank(M, x) = Rank(S, i + x - 1) - p + 1
  <2>1. M = Stretch(S, i, j)
    BY <1>6 DEF Stretch
  <2> QED
    BY <1>1, <1>2, <1>3, <2>1, StretchRank, SMTT(20)
<1>8. p <= q
  BY <1>1, <1>2, <1>3, RankFacts
<1>9. ASSUME NEW k \in 1 .. (q - p + 1)
      PROVE  i + OrigIdx(u)[k] - 1 = OrigIdx(s)[p + k - 1] /\ OrigIdx(u)[k] \in 1 .. (j - i + 1)
             /\ p + k - 1 \in 1 .. n
  <2>1. PICK x \in M : x = OrigIdx(u)[k] /\ Rank(M, x) = k
    BY <1>5, <1>7, OrigIdxFacts, Zenon
  <2>2. PICK z \in S : z = i + x - 1 /\ Rank(S, z) - p + 1 = k
    BY <1>7, <2>1, Zenon
  <2>3. Rank(S, z) \in 1 .. n /\ Rank(S, z) = p + k - 1
    <3>1. Rank(S, z) \in 1 .. n
      BY <1>1, <1>2, RankFacts, Zenon
    <3> QED
      BY <2>2, <3>1
  <2>4. OrigIdx(s)[Rank(S, z)] = z
    BY <1>1, OrigIdxFacts, Zenon
  <2> QED
    BY <1>6, <2>1, <2>2, <2>3, <2>4
<1>10. PICK text \in Seq(Runes) : /\ text = Normalized(s) /\ Len(text) = n
                                  /\ \A k \in 1 .. n : text[k] = ToLower(simplifyRune(s[OrigIdx(s)[k]]))
  BY <1>1, <1>2, NormalizedFacts, Zenon
<1>11. PICK part \in Seq(Runes) : /\ part = SubSeq(text, p, q) /\ Len(part) = q - p + 1
                                  /\ \A k \in 1 .. (q - p + 1) : part[k] = text[p + k - 1]
  <2>1. \A k \in p .. q : text[k] \in Runes
    BY <1>2, <1>10, ElementOfSeq
  <2>2. /\ SubSeq(text, p, q) \in Seq(Runes)
        /\ Len(SubSeq(text, p, q)) = IF p <= q THEN q - p + 1 ELSE 0
        /\ \A k \in 1 .. (q - p + 1) : SubSeq(text, p, q)[k] = text[p + k - 1]
    BY <1>2, <2>1, SubSeqProperties, SMTT(20)
  <2> QED
    BY <1>8, <2>2, Zenon
<1>12. PICK own \in Seq(Runes) : /\ own = Normalized(u) /\ Len(own) = q - p + 1
                                 /\ \A k \in 1 .. (q - p + 1) : own[k] = ToLower(simplifyRune(u[OrigIdx(u)[k]]))
  BY <1>5, <1>7, NormalizedFacts
<1>13. ASSUME NEW k \in 1 .. (q - p + 1) PROVE own[k] = part[k]
  <2>1. u[OrigIdx(u)[k]] = s[OrigIdx(s)[p + k - 1]]
    BY <1>4, <1>9, Zenon
  <2>2. part[k] = ToLower(simplifyRune(s[OrigIdx(s)[p + k - 1]]))
    BY <1>9, <1>10, <1>11, Zenon
  <2> QED
    BY <1>12, <2>1, <2>2, Zenon
<1>14. own = part
  BY <1>11, <1>12, <1>13, SeqEqual, Zenon
<1> QED
  BY <1>1, <1>2, <1>4, <1>10, <1>11, <1>12, <1>14

\* A match of the normalized text is an occurrence in the original: it covers
\* the stretch from the position kept for its first rune to that of its last.
LEMMA MatchOccurs ==
  ASSUME original \in Seq(Alphabet), \A w \in patterns : w \in Seq(Runes) /\ w # <<>>,
         NEW m \in AllMatches
  PROVE  \E i, j \in DOMAIN original :
           /\ Occurrence(i, j) /\ normalizeRunes(SubSeq(original, i, j)) = m.Word
           /\ i = OrigIdx(original)[m.Pos] /\ j = OrigIdx(original)[m.Pos + Len(m.Word) - 1]
<1>1. PICK text \in Seq(Runes), n \in Nat : text = Normalized(original) /\ Len(text) = n /\ n = Cardinality(Ink(original))
  BY NormalizedFacts, OrigIdxFacts
<1>2. /\ m.Pos \in 1 .. n /\ m.Word \in patterns /\ m.Pos + Len(m.Word) - 1 <= n
      /\ SubSeq(text, m.Pos, m.Pos + Len(m.Word) - 1) = m.Word
  BY <1>1 DEF AllMatches, MultiPatternSearch
<1>3. PICK p \in 1 .. n, q \in 1 .. n : p = m.Pos /\ q = m.Pos + Len(m.Word) - 1 /\ p <= q
  <2>1. Len(m.Word) \in Nat \ {0}
    BY <1>2, EmptySeq
  <2> QED
    BY <1>2, <2>1
<1>4. PICK i \in Ink(original), j \in Ink(original) :
        /\ i = OrigIdx(original)[p] /\ Rank(Ink(original), i) = p
        /\ j = OrigIdx(original)[q] /\ Rank(Ink(original), j) = q
  BY <1>1, OrigIdxFacts
<1>5. i \in DOMAIN original /\ j \in DOMAIN original /\ i \in Int /\ j \in Int
  BY OrigIdxFacts DEF Ink
<1>6. i <= j
  <2>1. ~(j < i)
    BY <1>3, <1>4, OrigIdxFacts, RankFacts
  <2> QED
    BY <1>5, <2>1
<1>7. normalizeRunes(SubSeq(original, i, j)) = SubSeq(text, p, q)
  <2>1. /\ SubSeq(original, i, j) \in Seq(Alphabet)
        /\ Normalized(SubSeq(original, i, j))
             = SubSeq(Normalized(original), Rank(Ink(original), i), Rank(Ink(original), j))
    BY <1>6, StretchNormalized
  <2>2. normalizeRunes(SubSeq(original, i, j)) = Normalized(SubSeq(original, i, j))
    BY <2>1, NormalizeSame, Zenon
  <2> QED
    BY <1>1, <1>4, <2>1, <2>2, Zenon
<1>8. Occurrence(i, j) /\ normalizeRunes(SubSeq(original, i, j)) = m.Word
  BY <1>2, <1>3, <1>6, <1>7, Zenon DEF Occurrence, Ink
<1> QED
  BY <1>3, <1>4, <1>5, <1>8

\* And every occurrence is found.
LEMMA OccurrenceMatches ==
  ASSUME original \in Seq(Alphabet), NEW i \in DOMAIN original, NEW j \in DOMAIN original, Occurrence(i, j)
  PROVE  \E m \in AllMatches :
           /\ normalizeRunes(SubSeq(original, i, j)) = m.Word
           /\ i = OrigIdx(original)[m.Pos] /\ j = OrigIdx(original)[m.Pos + Len(m.Word) - 1]
<1>1. i \in Ink(original) /\ j \in Ink(original) /\ i <= j /\ i \in Int /\ j \in Int
  BY OrigIdxFacts, Zenon DEF Occurrence, Ink
<1>2. PICK text \in Seq(Runes), n \in Nat : text = Normalized(original) /\ Len(text) = n /\ n = Cardinality(Ink(original))
  BY NormalizedFacts, OrigIdxFacts
<1>3. PICK p \in 1 .. n, q \in 1 .. n :
        /\ p = Rank(Ink(original), i) /\ OrigIdx(original)[p] = i
        /\ q = Rank(Ink(original), j) /\ OrigIdx(original)[q] = j
  BY <1>1, <1>2, OrigIdxFacts
<1>4. p <= q
  <2>1. ~(q < p)
    BY <1>1, <1>3, OrigIdxFacts, RankFacts
  <2> QED
    BY <2>1
<1>5. PICK word : word = normalizeRunes(SubSeq(original, i, j)) /\ word = SubSeq(text, p, q) /\ word \in patterns
  BY <1>1, <1>2, <1>3, StretchNormalized, NormalizeSame, Zenon DEF Occurrence
<1>6. Len(word) = q - p + 1
  <2>1. \A k \in p .. q : text[k] \in Runes
    BY <1>2, <1>3, ElementOfSeq
  <2> QED
    BY <1>4, <1>5, <2>1, SubSeqProperties
<1>7. PICK m : m = [Pos |-> p, Word |-> word]
  BY Zenon
<1>8. m.Pos = p /\ m.Word = word /\ m.Pos + Len(m.Word) - 1 = q
  BY <1>6, <1>7
<1>9. m \in AllMatches
  <2>1. m \in [Pos : 1 .. Len(text), Word : patterns]
    BY <1>2, <1>5, <1>7
  <2>2. m.Pos + Len(m.Word) - 1 <= Len(text) /\ SubSeq(text, m.Pos, m.Pos + Len(m.Word) - 1) = m.Word
    BY <1>2, <1>5, <1>8
  <2> QED
    BY <1>2, <2>1, <2>2, Zenon DEF AllMatches, MultiPatternSearch
<1> QED
  BY <1>3, <1>5, <1>8, <1>9, Zenon

\* TrimSpace keeps runes of the line.
LEMMA TrimSpaceType == ASSUME NEW line \in Seq(Alphabet) PROVE TrimSpace(line) \in Seq(Alphabet)
<1>1. PICK ink : ink = {i \in DOMAIN line : line[i] \notin Space}
  BY Zenon
<1>2. CASE ink = {}
  BY <1>1, <1>2 DEF TrimSpace
<1>3. CASE ink # {}
  <2>1. ink \in SUBSET (1 .. Len(line)) /\ Len(line) \in Nat
    BY <1>1
  <2>2. ink \in SUBSET Int /\ IsFiniteSet(ink)
    <3>1. IsFiniteSet(1 .. Len(line))
      BY <2>1, FS_Interval
    <3>2. IsFiniteSet(ink)
      BY <2>1, <3>1, FS_Subset, Zenon
    <3> QED
      BY <2>1, <3>2
  <2>3. PICK n \in Nat \ {0} : n = Cardinality(ink)
    BY <1>3, <2>2, FS_CardinalityType, FS_EmptySet
  <2>4. Min(ink) \in ink
    <3>1. PICK x \in ink : Rank(ink, x) = 1
      BY <2>2, <2>3, RankOnto
    <3>2. \A y \in ink : Rank(ink, y) \in 1 .. n /\ (y < x <=> Rank(ink, y) < Rank(ink, x))
      BY <2>2, <2>3, RankFacts
    <3>3. \A y \in ink : x <= y
      BY <2>2, <3>1, <3>2
    <3> QED
      BY <3>3 DEF Min
  <2>5. Max(ink) \in ink
    <3>1. PICK x \in ink : Rank(ink, x) = n
      BY <2>2, <2>3, RankOnto
    <3>2. \A y \in ink : Rank(ink, y) \in 1 .. n /\ (x < y <=> Rank(ink, x) < Rank(ink, y))
      BY <2>2, <2>3, RankFacts
    <3>3. \A y \in ink : x >= y
      BY <2>2, <3>1, <3>2
    <3> QED
      BY <3>3 DEF Max
  <2>6. PICK a \in 1 .. Len(line), b \in 1 .. Len(line) : a = Min(ink) /\ b = Max(ink)
    BY <2>1, <2>4, <2>5, Zenon
  <2>7. \A i \in a .. b : line[i] \in Alphabet
    BY <2>6, ElementOfSeq
  <2>8. SubSeq(line, a, b) \in Seq(Alphabet)
    BY <2>7, SubSeqProperties
  <2> QED
    BY <1>1, <1>3, <2>6, <2>8 DEF TrimSpace
<1> QED
  BY <1>2, <1>3

\* Every step keeps what the loop has done so far.
LEMMA CensorStep == ASSUME CensorInv, [ModeratorNext]_moderatorVars PROVE CensorInv'
<1>1. ASSUME NEW dir \in Directories, Load(dir) PROVE CensorInv'
  <2>1. ASSUME NEW w \in patterns' PROVE w \in Seq(Runes) /\ w # <<>>
    <3>1. PICK line \in UNION dir : w = normalizeRunes(TrimSpace(line)) /\ w # <<>>
      BY <1>1 DEF Load, NewModerator, LoadAll
    <3>2. TrimSpace(line) \in Seq(Alphabet)
      BY ModeratorAssumption, TrimSpaceType
    <3> QED
      BY <3>1, <3>2, NormalizeSame, NormalizedFacts
  <2>2. /\ pc = "load" /\ pc' \in {"failed", "ready"} /\ original' = original /\ foundWords' = foundWords
    BY <1>1 DEF Load
  <2> QED
    BY <2>1, <2>2 DEF CensorInv
<1>2. CASE Censor
  <2>1. original' \in Seq(Alphabet)
    <3>1. PICK n \in Nat : original' \in [1 .. n -> Alphabet]
      BY <1>2, ModeratorAssumption DEF Censor, Texts
    <3> QED
      BY <3>1
  <2> QED
    BY <1>2, <2>1 DEF Censor, CensorInv
<1>3. CASE Search
  <2>1. /\ pc = "search" /\ pc' = "apply" /\ origRunes' = original /\ foundWords' = {}
        /\ original' = original /\ patterns' = patterns /\ matches' = AllMatches
    BY <1>3 DEF Search, CensorInv, AllMatches
  <2>2. AllMatches' = matches'
    BY <1>3 DEF Search, AllMatches
  <2>3. origRunes' = [k \in DOMAIN original' |->
                        IF \E m \in AllMatches' \ matches' : Covers(m, k)' THEN censoredChar ELSE original'[k]]
    <3>1. original = [k \in DOMAIN original |-> original[k]]
      BY DEF CensorInv
    <3> QED
      BY <2>1, <2>2, <3>1
  <2>4. foundWords' = {m.Word : m \in AllMatches' \ matches'}
    BY <2>1, <2>2
  <2>5. LoopInv'
    BY <2>2, <2>3, <2>4 DEF LoopInv
  <2> QED
    BY <2>1, <2>5 DEF CensorInv
<1>4. ASSUME NEW m \in matches, Apply(m) PROVE CensorInv'
  <2>1. /\ pc = "apply" /\ pc' = "apply" /\ original' = original /\ patterns' = patterns
        /\ matches' = matches \ {m} /\ origRunes' = Star(m, origRunes) /\ foundWords' = foundWords \cup {m.Word}
    BY <1>4 DEF Apply
  <2>2. AllMatches' = AllMatches
    BY <2>1 DEF AllMatches
  <2>3. \A x, k : Covers(x, k)' <=> Covers(x, k)
    BY <2>1 DEF Covers
  <2>4. LoopInv
    BY <2>1 DEF CensorInv
  <2>5. PICK done : done = AllMatches \ matches
    BY Zenon
  <2>6. AllMatches \ matches' = done \cup {m}
    BY <2>1, <2>4, <2>5 DEF LoopInv
  <2>7. origRunes' = [k \in DOMAIN original |-> IF Covers(m, k) THEN censoredChar ELSE origRunes[k]]
    BY <2>1, <2>4, Zenon DEF LoopInv, Star, Covers
  <2>8. \A k \in DOMAIN original : origRunes[k] = IF \E x \in done : Covers(x, k) THEN censoredChar ELSE original[k]
    BY <2>4, <2>5 DEF LoopInv
  <2>9. origRunes' = [k \in DOMAIN original |->
                        IF \E x \in done \cup {m} : Covers(x, k) THEN censoredChar ELSE original[k]]
    BY <2>7, <2>8
  <2>10. foundWords' = {x.Word : x \in done \cup {m}}
    BY <2>1, <2>4, <2>5 DEF LoopInv
  <2>11. matches' \subseteq AllMatches
    BY <2>1, <2>4 DEF LoopInv
  <2>12. LoopInv'
    BY <2>1, <2>2, <2>3, <2>6, <2>9, <2>10, <2>11, Zenon DEF LoopInv
  <2> QED
    BY <2>1, <2>12 DEF CensorInv
<1>5. CASE Finish
  BY <1>5 DEF Finish, CensorInv, LoopInv, AllMatches, Covers
<1>6. CASE UNCHANGED moderatorVars
  BY <1>6 DEF moderatorVars, CensorInv, LoopInv, AllMatches, Covers
<1> QED
  BY <1>1, <1>2, <1>3, <1>4, <1>5, <1>6 DEF ModeratorNext

\* When the loop is over the stars stand over the occurrences and nowhere else,
\* and the words found are those that occur.
LEMMA CensorOver == ASSUME CensorInv PROVE CensorIsExact
<1>1. SUFFICES ASSUME pc = "done"
               PROVE  /\ Len(origRunes) = Len(original)
                      /\ \A k \in DOMAIN original :
                           origRunes[k] = IF Forbidden(k) THEN censoredChar ELSE original[k]
                      /\ foundWords = {w \in patterns : \E i, j \in DOMAIN original :
                                         Occurrence(i, j) /\ normalizeRunes(SubSeq(original, i, j)) = w}
  BY DEF CensorIsExact
<1>2. /\ original \in Seq(Alphabet) /\ \A w \in patterns : w \in Seq(Runes) /\ w # <<>>
      /\ origRunes = [k \in DOMAIN original |->
                        IF \E m \in AllMatches : Covers(m, k) THEN censoredChar ELSE original[k]]
      /\ foundWords = {m.Word : m \in AllMatches}
  <2>1. LoopInv /\ AllMatches \ matches = AllMatches
    BY <1>1 DEF CensorInv
  <2> QED
    BY <2>1 DEF CensorInv, LoopInv
<1>3. Len(origRunes) = Len(original)
  <2>1. DOMAIN original = 1 .. Len(original) /\ Len(original) \in Nat
    BY <1>2
  <2>2. origRunes \in [1 .. Len(original) -> Alphabet]
    BY <1>2, <2>1, ModeratorAssumption, ElementOfSeq
  <2> QED
    BY <2>1, <2>2
<1>4. ASSUME NEW k \in DOMAIN original PROVE Forbidden(k) <=> \E m \in AllMatches : Covers(m, k)
  <2>1. k \in Int /\ \A i \in DOMAIN original : i \in Int
    BY <1>2
  <2>2. ASSUME Forbidden(k) PROVE \E m \in AllMatches : Covers(m, k)
    <3>1. PICK i \in DOMAIN original, j \in DOMAIN original : i <= k /\ k <= j /\ Occurrence(i, j)
      BY <2>2 DEF Forbidden
    <3>2. PICK m \in AllMatches : i = OrigIdx(original)[m.Pos] /\ j = OrigIdx(original)[m.Pos + Len(m.Word) - 1]
      BY <1>2, <3>1, OccurrenceMatches
    <3>3. k \in i .. j
      BY <2>1, <3>1
    <3> QED
      BY <3>2, <3>3 DEF Covers
  <2>3. ASSUME NEW m \in AllMatches, Covers(m, k) PROVE Forbidden(k)
    <3>1. PICK i \in DOMAIN original, j \in DOMAIN original :
            /\ Occurrence(i, j)
            /\ i = OrigIdx(original)[m.Pos] /\ j = OrigIdx(original)[m.Pos + Len(m.Word) - 1]
      BY <1>2, MatchOccurs, Zenon
    <3>2. k \in i .. j
      BY <2>3, <3>1 DEF Covers
    <3>3. i <= k /\ k <= j
      BY <2>1, <3>2
    <3> QED
      BY <3>1, <3>3 DEF Forbidden
  <2> QED
    BY <2>2, <2>3
<1>5. \A k \in DOMAIN original : origRunes[k] = IF Forbidden(k) THEN censoredChar ELSE original[k]
  BY <1>2, <1>4
<1>6. ASSUME NEW m \in AllMatches
      PROVE  /\ m.Word \in patterns
             /\ \E i, j \in DOMAIN original :
                  Occurrence(i, j) /\ normalizeRunes(SubSeq(original, i, j)) = m.Word
  <2>1. m.Word \in patterns
    BY DEF AllMatches, MultiPatternSearch
  <2> QED
    BY <1>2, <2>1, MatchOccurs, Zenon
<1>7. ASSUME NEW i \in DOMAIN original, NEW j \in DOMAIN original, Occurrence(i, j)
      PROVE  \E m \in AllMatches : normalizeRunes(SubSeq(original, i, j)) = m.Word
  BY <1>2, <1>7, OccurrenceMatches, Zenon
<1>8. foundWords = {w \in patterns : \E i, j \in DOMAIN original :
                      Occurrence(i, j) /\ normalizeRunes(SubSeq(original, i, j)) = w}
  <2>1. PICK W : W = {w \in patterns : \E i, j \in DOMAIN original :
                        Occurrence(i, j) /\ normalizeRunes(SubSeq(original, i, j)) = w}
    BY Zenon
  <2>2. ASSUME NEW m \in AllMatches PROVE m.Word \in W
    BY <1>6, <2>1, Zenon
  <2>3. ASSUME NEW w \in W PROVE \E m \in AllMatches : w = m.Word
    <3>1. PICK i \in DOMAIN original, j \in DOMAIN original :
            Occurrence(i, j) /\ normalizeRunes(SubSeq(original, i, j)) = w
      BY <2>1, Zenon
    <3> QED
      BY <1>7, <3>1
  <2> QED
    BY <1>2, <2>1, <2>2, <2>3, Zenon
<1> QED
  BY <1>3, <1>5, <1>8, Zenon

\* Censor stars every rune of every occurrence of a forbidden word, the noise
\* inside it included, changes nothing else and reports the words that occur,
\* whatever the alphabet, the dictionaries, the text and the order in which
\* the matcher yields its matches.
THEOREM CensorStarsExactly == ModeratorSpec => []CensorIsExact
<1>1. ModeratorInit => CensorInv
  BY DEF ModeratorInit, CensorInv
<1>2. CensorInv /\ [ModeratorNext]_moderatorVars => CensorInv'
  BY CensorStep
<1>3. CensorInv => CensorIsExact
  BY CensorOver
<1> QED
  BY <1>1, <1>2, <1>3, PTL DEF ModeratorSpec

-----------------------------------------------------------------------------
(***************************************************************************)
(* The history of a room.                                                  *)
(***************************************************************************)
\* The store: a message is stored once, under one key.
StoreInv ==
  /\ stored \subseteq Messages
  /\ db \in Injection(DOMAIN db, stored)
  /\ DOMAIN db \subseteq Nat

\* The last key a reader was given: where its next page goes on.
LastKey == reader.keys[Len(reader.keys)]
\* The records of its room that were there when it began.
Begun == {k \in reader.before : InRoom(k, reader.room)}

ReaderInv ==
  /\ reader \in [room : Nat, cursor : Int, keys : Seq(Nat), got : Seq(Messages), pages : Nat,
                 done : BOOLEAN, before : SUBSET DOMAIN db]
  /\ \A i \in DOMAIN reader.keys : reader.keys[i] \in DOMAIN db /\ InRoom(reader.keys[i], reader.room)
  /\ \A i, j \in DOMAIN reader.keys : i < j => reader.keys[i] > reader.keys[j]

\* Between two pages the cursor stands for the last key, and what is missing lies before it.
CursorInv ==
  /\ reader.pages = 0 => reader.keys = <<>> /\ reader.cursor = NoCursor /\ ~reader.done
  /\ reader.pages > 0 /\ ~reader.done =>
       /\ reader.keys # <<>>
       /\ reader.cursor = Offset(LastKey)
       /\ \A k \in Begun : k \in Range(reader.keys) \/ k < LastKey
  /\ reader.done => Begun \subseteq Range(reader.keys)

\* While SlicesLast, a message a reader was given was never under another key.
GotInv ==
  /\ Len(reader.got) = Len(reader.keys)
  /\ \A i \in DOMAIN reader.got :
       /\ reader.got[i] \in stored
       /\ \A k \in DOMAIN db : db[k] = reader.got[i] => k = reader.keys[i]
  /\ IsInjective(reader.got)

\* A key is in a room when it lies in the room's stretch of numbers; the
\* cursor made of it leads back to it.
LEMMA KeyFacts ==
  /\ Width \in Nat \ {0}
  /\ \A k, room \in Nat : InRoom(k, room) <=> room * Width <= k /\ k < room * Width + Width
  /\ \A k, room \in Nat : InRoom(k, room) => room * Width + Offset(k) = k
  /\ \A k \in Nat : Offset(k) \in Nat
  /\ \A room, at, id \in Nat : Key(room, at, id) \in Nat
<1>1. MaxTime + 1 \in Nat \ {0} /\ MaxId + 1 \in Nat \ {0}
  BY MessageRepositoryAssumption
<1>2. PICK w \in Nat \ {0} : w = Width
  BY <1>1 DEF Width
<1>3. ASSUME NEW k \in Nat
      PROVE  k \div w \in Nat /\ k % w \in 0 .. (w - 1) /\ k = (k \div w) * w + (k % w)
  OBVIOUS
<1>4. ASSUME NEW k \in Nat, NEW room \in Nat
      PROVE  k \div w = room <=> room * w <= k /\ k < room * w + w
  <2>1. PICK q \in Nat, r \in 0 .. (w - 1) : q = k \div w /\ k = q * w + r
    BY <1>3, Zenon
  <2>2. ASSUME room * w <= k, k < room * w + w PROVE q = room
    <3>1. ~(q > room)
      <4>1. SUFFICES ASSUME q >= room + 1 PROVE FALSE
        OBVIOUS
      <4>2. q * w >= (room + 1) * w
        BY <4>1
      <4> QED
        BY <2>1, <2>2, <4>2
    <3>2. ~(q < room)
      <4>1. SUFFICES ASSUME room >= q + 1 PROVE FALSE
        OBVIOUS
      <4>2. room * w >= (q + 1) * w
        BY <4>1
      <4> QED
        BY <2>1, <2>2, <4>2
    <3> QED
      BY <3>1, <3>2
  <2> QED
    BY <2>1, <2>2
<1>5. ASSUME NEW k \in Nat, NEW room \in Nat, k \div w = room PROVE room * w + (k % w) = k
  BY <1>3, <1>5, Zenon
<1>6. ASSUME NEW room \in Nat, NEW at \in Nat, NEW id \in Nat PROVE Key(room, at, id) \in Nat
  <2>1. room * w \in Nat /\ at * (MaxId + 1) \in Nat
    BY <1>1
  <2> QED
    BY <1>2, <2>1 DEF Key
<1> QED
  BY <1>2, <1>3, <1>4, <1>5, <1>6 DEF InRoom, Offset

\* Two-digit numbers compare by the first digit, then by the second.
LEMMA Digits ==
  ASSUME NEW w \in Nat \ {0}, NEW p \in Nat, NEW q \in Nat, NEW x \in 0 .. (w - 1), NEW y \in 0 .. (w - 1)
  PROVE  /\ p * w + x < q * w + y <=> p < q \/ (p = q /\ x < y)
         /\ p * w + x = q * w + y <=> p = q /\ x = y
<1>1. ASSUME NEW a \in Nat, NEW b \in Nat, a < b, NEW i \in 0 .. (w - 1), NEW j \in 0 .. (w - 1)
      PROVE  a * w + i < b * w + j
  <2>1. (a + 1) * w <= b * w
    BY <1>1
  <2>2. (a + 1) * w = a * w + w
    OBVIOUS
  <2>3. PICK n \in Nat, o \in Nat : n = a * w /\ o = b * w
    OBVIOUS
  <2>4. n + w <= o
    BY <2>1, <2>2, <2>3, Zenon
  <2>5. n + i < o + j
    BY <2>4
  <2> QED
    BY <2>3, <2>5, Zenon
<1>2. CASE p < q
  <2>1. p * w + x < q * w + y
    BY <1>1, <1>2, Zenon
  <2>2. p * w + x \in Int /\ q * w + y \in Int
    OBVIOUS
  <2> QED
    BY <1>2, <2>1, <2>2
<1>3. CASE q < p
  <2>1. q * w + y < p * w + x
    BY <1>1, <1>3, Zenon
  <2>2. p * w + x \in Int /\ q * w + y \in Int
    OBVIOUS
  <2> QED
    BY <1>3, <2>1, <2>2
<1>4. CASE p = q
  <2>1. PICK n \in Nat : n = p * w /\ n = q * w
    BY <1>4
  <2>2. (n + x < n + y <=> x < y) /\ (n + x = n + y <=> x = y)
    OBVIOUS
  <2> QED
    BY <1>4, <2>1, <2>2
<1> QED
  BY <1>2, <1>3, <1>4

\* The second digit is the remainder.
LEMMA LastDigit ==
  ASSUME NEW w \in Nat \ {0}, NEW p \in Nat, NEW x \in 0 .. (w - 1)
  PROVE  (p * w + x) % w = x
<1>1. PICK k \in Nat : k = p * w + x
  OBVIOUS
<1>2. k \div w \in Nat /\ k % w \in 0 .. (w - 1) /\ k = (k \div w) * w + (k % w)
  OBVIOUS
<1>3. PICK q \in Nat, r \in 0 .. (w - 1) : q = k \div w /\ r = k % w
  BY <1>2, Zenon
<1>4. q * w + r = p * w + x
  BY <1>1, <1>2, <1>3, Zenon
<1>5. r = x
  BY <1>4, Digits
<1> QED
  BY <1>1, <1>3, <1>5, Zenon

\* The part of a key after its room is smaller than Width.
LEMMA AfterRoom ==
  ASSUME NEW at \in 0 .. MaxTime, NEW id \in 0 .. MaxId
  PROVE  at * (MaxId + 1) + id \in 0 .. (Width - 1)
<1>1. PICK w \in Nat \ {0} : w = MaxId + 1 /\ id \in 0 .. (w - 1)
  BY MessageRepositoryAssumption
<1>2. PICK n \in Nat, o \in Nat : n = at * w /\ o = (MaxTime + 1) * w
  BY MessageRepositoryAssumption
<1>3. n + id < o
  <2>1. at < MaxTime + 1 /\ at \in Nat /\ MaxTime + 1 \in Nat /\ 0 \in 0 .. (w - 1)
    BY MessageRepositoryAssumption
  <2>2. at * w + id < (MaxTime + 1) * w + 0
    BY <1>1, <2>1, Digits, Zenon
  <2> QED
    BY <1>2, <2>2
<1>4. n + id \in 0 .. (o - 1)
  BY <1>1, <1>3
<1> QED
  BY <1>1, <1>2, <1>4, Zenon DEF Width

\* The keys of a room are one stretch, sorted by time and then by id as the texts
\* "msg:%d:%019d:%s" are, and two records share a key only if room, time and id
\* agree.  (Rooms are numbered in the order of their texts.)
THEOREM KeysSortLikeText ==
  ASSUME NEW r1 \in Nat, NEW r2 \in Nat, NEW t1 \in 0 .. MaxTime, NEW t2 \in 0 .. MaxTime,
         NEW i1 \in 0 .. MaxId, NEW i2 \in 0 .. MaxId
  PROVE  /\ Key(r1, t1, i1) < Key(r2, t2, i2) <=>
              r1 < r2 \/ (r1 = r2 /\ (t1 < t2 \/ (t1 = t2 /\ i1 < i2)))
         /\ Key(r1, t1, i1) = Key(r2, t2, i2) <=> r1 = r2 /\ t1 = t2 /\ i1 = i2
<1>1. PICK w \in Nat \ {0} : w = MaxId + 1 /\ i1 \in 0 .. (w - 1) /\ i2 \in 0 .. (w - 1)
  BY MessageRepositoryAssumption
<1>2. PICK x \in 0 .. (Width - 1), y \in 0 .. (Width - 1) : x = t1 * w + i1 /\ y = t2 * w + i2
  BY <1>1, AfterRoom, Zenon
<1>3. t1 \in Nat /\ t2 \in Nat
  BY MessageRepositoryAssumption
<1>4. (x < y <=> t1 < t2 \/ (t1 = t2 /\ i1 < i2)) /\ (x = y <=> t1 = t2 /\ i1 = i2)
  <2>1. t1 * w + i1 < t2 * w + i2 <=> t1 < t2 \/ (t1 = t2 /\ i1 < i2)
    BY <1>1, <1>3, Digits
  <2>2. t1 * w + i1 = t2 * w + i2 <=> t1 = t2 /\ i1 = i2
    BY <1>1, <1>3, Digits
  <2> QED
    BY <1>2, <2>1, <2>2, Zenon
<1>5. /\ r1 * Width + x < r2 * Width + y <=> r1 < r2 \/ (r1 = r2 /\ x < y)
      /\ r1 * Width + x = r2 * Width + y <=> r1 = r2 /\ x = y
  <2>1. PICK v \in Nat \ {0} : v = Width
    BY KeyFacts, Zenon
  <2>2. r1 * v + x < r2 * v + y <=> r1 < r2 \/ (r1 = r2 /\ x < y)
    BY <2>1, Digits
  <2>3. r1 * v + x = r2 * v + y <=> r1 = r2 /\ x = y
    BY <2>1, Digits
  <2> QED
    BY <2>1, <2>2, <2>3, Zenon
<1>6. Key(r1, t1, i1) = r1 * Width + x /\ Key(r2, t2, i2) = r2 * Width + y
  <2>1. PICK n1 \in Nat, n2 \in Nat : n1 = r1 * Width /\ n2 = r2 * Width
    BY KeyFacts
  <2>2. PICK o1 \in Nat, o2 \in Nat : o1 = t1 * w /\ o2 = t2 * w
    BY <1>3
  <2>3. n1 + o1 + i1 = n1 + (o1 + i1) /\ n2 + o2 + i2 = n2 + (o2 + i2)
    OBVIOUS
  <2> QED
    BY <1>1, <1>2, <2>1, <2>2, <2>3, Zenon DEF Key
<1> QED
  BY <1>4, <1>5, <1>6, Zenon

\* A sequence with an index is not empty.
LEMMA HasElement ==
  ASSUME NEW T, NEW s \in Seq(T), NEW i \in 1 .. Len(s)
  PROVE  s # <<>>
OBVIOUS

\* A count that is not zero is positive.
LEMMA Positive == \A n \in Nat : n # 0 => n > 0
OBVIOUS

\* The values under the keys of a page, one for each key: as GetMessages decodes them.
LEMMA ImageFacts ==
  ASSUME NEW T, NEW f, NEW s \in Seq(Nat), NEW got, got = [i \in DOMAIN s |-> f[s[i]]],
         \A i \in DOMAIN s : f[s[i]] \in T
  PROVE  got \in Seq(T) /\ Len(got) = Len(s)
<1>1. DOMAIN s = 1 .. Len(s) /\ Len(s) \in Nat
  OBVIOUS
<1>2. \A i \in 1 .. Len(s) : f[s[i]] \in T
  BY <1>1, Zenon
<1> QED
  BY <1>1, <1>2

\* What is added at the end of a sequence comes after what was there.
LEMMA ConcatFacts ==
  ASSUME NEW T, NEW s \in Seq(T), NEW t \in Seq(T)
  PROVE  /\ s \o t \in Seq(T)
         /\ Len(s \o t) = Len(s) + Len(t)
         /\ DOMAIN (s \o t) = 1 .. (Len(s) + Len(t))
         /\ \A i \in 1 .. Len(s) : (s \o t)[i] = s[i]
         /\ \A i \in 1 .. Len(t) : (s \o t)[Len(s) + i] = t[i]
         /\ \A i \in 1 .. (Len(s) + Len(t)) :
              i \in 1 .. Len(s) \/ \E j \in 1 .. Len(t) : i = Len(s) + j
         /\ Range(s \o t) = Range(s) \cup Range(t)
<1>1. s \o t \in Seq(T) /\ Len(s \o t) = Len(s) + Len(t) /\ DOMAIN (s \o t) = 1 .. (Len(s) + Len(t))
  OBVIOUS
<1>2. \A i \in 1 .. Len(s) : (s \o t)[i] = s[i]
  OBVIOUS
<1>3. \A i \in 1 .. Len(t) : (s \o t)[Len(s) + i] = t[i]
  OBVIOUS
<1>4. ASSUME NEW i \in 1 .. (Len(s) + Len(t)), i \notin 1 .. Len(s)
      PROVE  \E j \in 1 .. Len(t) : i = Len(s) + j
  <2>1. i - Len(s) \in 1 .. Len(t) /\ i = Len(s) + (i - Len(s))
    BY <1>4
  <2> QED
    BY <2>1, Zenon
<1>5. Range(s \o t) = Range(s) \cup Range(t)
  BY RangeConcatenation
<1> QED
  BY <1>1, <1>2, <1>3, <1>4, <1>5

\* A page is the first Limit of the keys ahead, from the greatest down.
LEMMA PageFacts ==
  ASSUME NEW A \in SUBSET Nat, IsFiniteSet(A)
  PROVE  /\ Page(A) \in Seq(Nat)
         /\ \A i \in DOMAIN Page(A) : Page(A)[i] \in A /\ Page(A)[i] = Descending(A)[i]
         /\ DOMAIN Page(A) \subseteq 1 .. Cardinality(A)
         /\ \A i, j \in DOMAIN Page(A) : i < j => Page(A)[i] > Page(A)[j]
         /\ A # {} => Page(A) # <<>>
         /\ Page(A) # <<>> => \A k \in A : k \in Range(Page(A)) \/ k < Page(A)[Len(Page(A))]
         /\ Cardinality(A) <= Limit => A \subseteq Range(Page(A))
<1>1. PICK n \in Nat : n = Cardinality(A)
  BY FS_CardinalityType
<1>2. A \in SUBSET Int
  OBVIOUS
<1>3. PICK d \in Seq(A) : /\ d = Descending(A) /\ Len(d) = n
                          /\ \A i, j \in 1 .. n : i < j => d[i] > d[j]
                          /\ Range(d) = A
  BY <1>1, <1>2, DescendingFacts
<1>4. PICK l \in 0 .. n : l = Min({Limit, n}) /\ (l = n \/ (l = Limit /\ l < n))
  <2>1. \E x \in {Limit, n} : \A y \in {Limit, n} : x <= y
    BY <1>1, MessageRepositoryAssumption
  <2>2. Min({Limit, n}) \in {Limit, n} /\ \A y \in {Limit, n} : Min({Limit, n}) <= y
    BY <2>1 DEF Min
  <2> QED
    BY <1>1, <2>2, MessageRepositoryAssumption
<1>5. Page(A) = SubSeq(d, 1, l)
  BY <1>1, <1>3, <1>4 DEF Page
<1>6. PICK p \in Seq(A) : p = Page(A) /\ Len(p) = l /\ DOMAIN p = 1 .. l /\ \A i \in 1 .. l : p[i] = d[i]
  <2>1. \A i \in 1 .. l : d[i] \in A
    BY <1>3
  <2>2. /\ SubSeq(d, 1, l) \in Seq(A)
        /\ Len(SubSeq(d, 1, l)) = IF 1 <= l THEN l - 1 + 1 ELSE 0
        /\ \A i \in 1 .. (l - 1 + 1) : SubSeq(d, 1, l)[i] = d[1 + i - 1]
    BY <2>1, SubSeqProperties
  <2>3. Len(SubSeq(d, 1, l)) = l /\ \A i \in 1 .. l : SubSeq(d, 1, l)[i] = d[i]
    BY <2>2
  <2> QED
    BY <1>5, <2>2, <2>3
<1>7. p \in Seq(Nat)
  BY <1>6, SeqMonotonic, Zenon
<1>8. \A i \in 1 .. l : p[i] \in A /\ i \in 1 .. n
  BY <1>6
<1>9. \A i, j \in 1 .. l : i < j => p[i] > p[j]
  BY <1>3, <1>6, <1>8
<1>10. ASSUME NEW k \in A PROVE \E i \in 1 .. n : k = d[i]
  BY <1>3 DEF Range
<1>11. A # {} => l # 0
  <2>1. A # {} => n # 0
    BY <1>1, FS_EmptySet
  <2> QED
    BY <1>4, <2>1, MessageRepositoryAssumption
<1>12. ASSUME NEW k \in A, l # 0 PROVE k \in Range(p) \/ k < p[l]
  <2>1. PICK i \in 1 .. n : k = d[i]
    BY <1>10
  <2>2. CASE i <= l
    <3>1. i \in 1 .. l
      BY <2>2
    <3> QED
      BY <1>6, <2>1, <3>1, Zenon DEF Range
  <2>3. CASE l < i
    <3>1. l \in 1 .. n /\ l \in 1 .. l
      BY <1>12
    <3>2. d[l] > d[i] /\ p[l] = d[l]
      BY <1>3, <1>6, <2>3, <3>1
    <3>3. d[l] \in A /\ d[i] \in A
      BY <1>3, <2>1, <3>1
    <3> QED
      BY <2>1, <3>2, <3>3
  <2> QED
    BY <2>2, <2>3
<1>13. n <= Limit => A \subseteq Range(p)
  <2>1. SUFFICES ASSUME n <= Limit, NEW k \in A PROVE k \in Range(p)
    OBVIOUS
  <2>2. l = n
    BY <1>4, <2>1, MessageRepositoryAssumption
  <2>3. PICK i \in 1 .. l : k = d[i]
    BY <1>10, <2>2
  <2> QED
    BY <1>6, <2>3, Zenon DEF Range
<1>14. p # <<>> <=> l # 0
  BY <1>6
<1> QED
  BY <1>1, <1>3, <1>6, <1>7, <1>8, <1>9, <1>11, <1>12, <1>13, <1>14, Zenon

\* No record is under two keys, so there are at most as many keys as messages.
LEMMA FewKeys ==
  ASSUME StoreInv
  PROVE  /\ IsFiniteSet(DOMAIN db) /\ IsFiniteSet(Messages)
         /\ Cardinality(DOMAIN db) <= Cardinality(Messages)
<1>1. IsFiniteSet(Messages)
  BY MessageRepositoryAssumption
<1>2. PICK D : D = DOMAIN db
  OBVIOUS
<1>3. db \in Injection(D, Messages)
  BY <1>2 DEF StoreInv, Injection
<1> QED
  BY <1>1, <1>2, <1>3, FS_Injection

\* The last key given is one of the room, and the others are greater.
LEMMA LastKeyFacts ==
  ASSUME ReaderInv, StoreInv, reader.keys # <<>>
  PROVE  /\ LastKey \in DOMAIN db /\ LastKey \in Nat /\ InRoom(LastKey, reader.room)
         /\ \A i \in DOMAIN reader.keys : reader.keys[i] >= LastKey
         /\ Len(reader.keys) \in DOMAIN reader.keys
<1>1. reader.keys \in Seq(Nat)
  BY DEF ReaderInv
<1>2. Len(reader.keys) \in DOMAIN reader.keys /\ DOMAIN reader.keys = 1 .. Len(reader.keys)
  BY <1>1
<1>3. LastKey \in DOMAIN db /\ LastKey \in Nat /\ InRoom(LastKey, reader.room)
  BY <1>2, Zenon DEF ReaderInv, StoreInv, LastKey
<1>4. ASSUME NEW i \in DOMAIN reader.keys PROVE reader.keys[i] >= LastKey
  <2>1. CASE i = Len(reader.keys)
    BY <1>3, <2>1 DEF LastKey
  <2>2. CASE i # Len(reader.keys)
    <3>1. i < Len(reader.keys)
      BY <1>2, <2>2
    <3>2. reader.keys[i] > LastKey /\ reader.keys[i] \in Nat
      <4>1. reader.keys[i] \in Nat
        BY <1>1, <1>2, ElementOfSeq, Zenon
      <4>2. reader.keys[i] > reader.keys[Len(reader.keys)]
        BY <1>2, <3>1, Zenon DEF ReaderInv
      <4> QED
        BY <4>1, <4>2, Zenon DEF LastKey
    <3> QED
      BY <1>3, <3>2
  <2> QED
    BY <2>1, <2>2
<1> QED
  BY <1>2, <1>3, <1>4, Zenon

\* The iteration starts at the end of the room, or just before the last key:
\* that one is still in the store, so it is the one the cursor's Seek finds
\* and skips.
LEMMA IteratedFacts ==
  ASSUME StoreInv, ReaderInv, CursorInv, NEW room \in Nat, Asks(room)
  PROVE  \E bound \in Int :
           /\ Iterated(room, reader.cursor) = {k \in DOMAIN db : k <= bound}
           /\ bound < room * Width + Width
           /\ reader.pages = 0 => bound = room * Width + Width - 1
           /\ reader.pages > 0 => bound = LastKey - 1
<1>1. reader.pages \in Nat /\ ~reader.done
  BY DEF ReaderInv, Asks
<1>2. PICK w \in Nat \ {0}, base \in Nat : w = Width /\ base = room * Width
  <2>1. room * Width \in Nat
    BY KeyFacts
  <2> QED
    BY <2>1, KeyFacts
<1>3. CASE reader.pages = 0
  <2>1. reader.cursor = NoCursor
    BY <1>3, Zenon DEF CursorInv
  <2>2. Iterated(room, reader.cursor) = {k \in DOMAIN db : k <= base + w - 1}
    <3>1. Seek(room, reader.cursor) = base + (w - 1) /\ base + (w - 1) = base + w - 1
      BY <1>2, <2>1 DEF Seek
    <3> QED
      BY <2>1, <3>1, Zenon DEF Iterated
  <2> QED
    BY <1>1, <1>2, <1>3, <2>2
<1>4. CASE reader.pages > 0
  <2>1. reader.keys # <<>> /\ reader.cursor = Offset(LastKey) /\ room = reader.room
    BY <1>1, <1>4, Zenon DEF CursorInv, Asks
  <2>2. PICK last \in Nat : last = LastKey /\ last \in DOMAIN db /\ InRoom(last, room)
    BY <2>1, LastKeyFacts, Zenon
  <2>3. reader.cursor # NoCursor /\ Seek(room, reader.cursor) = last
    <3>1. Offset(last) \in Nat /\ room * Width + Offset(last) = last
      BY <2>2, KeyFacts, Zenon
    <3>2. reader.cursor = Offset(last) /\ reader.cursor # NoCursor
      BY <2>1, <2>2, <3>1 DEF NoCursor
    <3> QED
      BY <3>1, <3>2 DEF Seek
  <2>4. PICK from : from = {k \in DOMAIN db : k <= last}
    BY Zenon
  <2>5. \A k \in DOMAIN db : k \in Nat
    BY DEF StoreInv
  <2>6. Max(from) = last /\ from # {}
    <3>1. last \in from /\ \A y \in from : last >= y
      BY <2>2, <2>4, <2>5
    <3>2. \A x \in from : (\A y \in from : x >= y) => x = last
      BY <2>4, <2>5, <3>1
    <3> QED
      BY <3>1, <3>2, Zenon DEF Max
  <2>7. Iterated(room, reader.cursor) = from \ {last}
    BY <2>2, <2>3, <2>4, <2>6, Zenon DEF Iterated
  <2>8. from \ {last} = {k \in DOMAIN db : k <= last - 1}
    BY <2>4, <2>5
  <2>9. last < base + w
    BY <1>2, <2>2, KeyFacts, Zenon
  <2> QED
    BY <1>1, <1>2, <1>4, <2>2, <2>7, <2>8, <2>9
<1> QED
  BY <1>1, <1>3, <1>4

\* The keys ahead are those of the room that were not given yet.
LEMMA AheadFacts ==
  ASSUME StoreInv, ReaderInv, CursorInv, NEW room \in Nat, Asks(room)
  PROVE  /\ Ahead(room, reader.cursor) \in SUBSET Nat
         /\ IsFiniteSet(Ahead(room, reader.cursor))
         /\ \A k \in Ahead(room, reader.cursor) :
              k \in DOMAIN db /\ InRoom(k, room) /\ (reader.pages > 0 => k < LastKey)
         /\ \A k \in DOMAIN db :
              InRoom(k, room) => k \in Ahead(room, reader.cursor) \/ (reader.pages > 0 /\ k >= LastKey)
<1>1. PICK bound \in Int :
        /\ Iterated(room, reader.cursor) = {k \in DOMAIN db : k <= bound}
        /\ bound < room * Width + Width
        /\ reader.pages = 0 => bound = room * Width + Width - 1
        /\ reader.pages > 0 => bound = LastKey - 1
  BY IteratedFacts
<1>2. PICK A : A = Ahead(room, reader.cursor)
  OBVIOUS
<1>3. A = {k \in DOMAIN db : k <= bound /\ InRoom(k, room)}
  BY <1>1, <1>2, Zenon DEF Ahead
<1>4. \A k \in DOMAIN db : k \in Nat
  BY DEF StoreInv
<1>5. IsFiniteSet(A)
  BY <1>3, FewKeys, FS_Subset
<1>6. reader.pages \in Nat /\ (reader.pages > 0 => LastKey \in Nat)
  <2>1. reader.pages \in Nat /\ (reader.pages > 0 => reader.keys # <<>>)
    BY DEF ReaderInv, CursorInv, Asks
  <2> QED
    BY <2>1, LastKeyFacts, Zenon
<1>7. ASSUME NEW k \in A PROVE k \in DOMAIN db /\ k \in Nat /\ InRoom(k, room) /\ (reader.pages > 0 => k < LastKey)
  <2>1. k \in DOMAIN db /\ k <= bound /\ InRoom(k, room)
    BY <1>3
  <2>2. k \in Nat
    BY <1>4, <2>1
  <2> QED
    BY <1>1, <1>6, <2>1, <2>2
<1>8. ASSUME NEW k \in DOMAIN db, InRoom(k, room), k \notin A PROVE reader.pages > 0 /\ k >= LastKey
  <2>1. k \in Nat /\ bound < k
    BY <1>1, <1>3, <1>4, <1>8
  <2>2. PICK base \in Nat, w \in Nat : base = room * Width /\ w = Width
    <3>1. room * Width \in Nat /\ Width \in Nat
      BY KeyFacts
    <3> QED
      BY <3>1
  <2>3. k < base + w
    BY <1>8, <2>1, <2>2, KeyFacts
  <2>4. reader.pages # 0
    BY <1>1, <2>1, <2>2, <2>3
  <2> QED
    BY <1>1, <1>6, <2>1, <2>4
<1>9. A \in SUBSET Nat
  BY <1>7
<1> QED
  BY <1>2, <1>5, <1>7, <1>8, <1>9, Zenon

\* What both calls do with the page of what is ahead of the cursor.
PageRead(room, page, got, cursor, done) ==
  /\ page = Page(Ahead(room, reader.cursor))
  /\ Read(room, page, got, cursor, done)
  /\ done => Ahead(room, reader.cursor) \subseteq Range(page)
  /\ ~done => page # <<>> /\ cursor = Offset(page[Len(page)])

\* A page goes to the end of what the reader has: the keys still go down, and
\* what was there when it began is given, or lies before the last key.
LEMMA ReadKeeps ==
  ASSUME StoreInv, ReaderInv, CursorInv, NEW room \in Nat, Asks(room), NEW page \in Seq(Nat),
         NEW got \in Seq(Messages), NEW cursor \in Int, NEW done \in BOOLEAN,
         PageRead(room, page, got, cursor, done), UNCHANGED <<db, stored>>
  PROVE  StoreInv' /\ ReaderInv' /\ CursorInv'
<1>1. PICK A \in SUBSET Nat :
        /\ A = Ahead(room, reader.cursor) /\ IsFiniteSet(A)
        /\ \A k \in A : k \in DOMAIN db /\ InRoom(k, room) /\ (reader.pages > 0 => k < LastKey)
        /\ \A k \in DOMAIN db : InRoom(k, room) => k \in A \/ (reader.pages > 0 /\ k >= LastKey)
  BY AheadFacts, Zenon
<1>2. /\ page = Page(A)
      /\ \A i \in DOMAIN page : page[i] \in A
      /\ \A i, j \in DOMAIN page : i < j => page[i] > page[j]
      /\ page # <<>> => \A k \in A : k \in Range(page) \/ k < page[Len(page)]
  <2>1. page = Page(A)
    BY <1>1, Zenon DEF PageRead
  <2> QED
    BY <1>1, <2>1, PageFacts, Zenon
<1>3. PICK keys \in Seq(Nat) : keys = reader.keys
  BY DEF ReaderInv
<1>4. PICK all \in Seq(Nat) : all = keys \o page
  BY <1>2, <1>3, ConcatFacts, Zenon
<1>5. /\ DOMAIN keys = 1 .. Len(keys) /\ DOMAIN page = 1 .. Len(page)
      /\ DOMAIN all = 1 .. (Len(keys) + Len(page)) /\ Len(all) = Len(keys) + Len(page)
      /\ Len(keys) \in Nat /\ Len(page) \in Nat
  <2>1. /\ DOMAIN keys = 1 .. Len(keys) /\ DOMAIN page = 1 .. Len(page)
        /\ Len(keys) \in Nat /\ Len(page) \in Nat
    BY LenProperties, Zenon
  <2>2. /\ DOMAIN (keys \o page) = 1 .. (Len(keys) + Len(page))
        /\ Len(keys \o page) = Len(keys) + Len(page)
    BY ConcatFacts
  <2> QED
    BY <1>4, <2>1, <2>2, Zenon
<1>6. /\ \A i \in 1 .. Len(keys) : all[i] = keys[i]
      /\ \A i \in 1 .. Len(page) : all[Len(keys) + i] = page[i]
      /\ \A i \in DOMAIN all : i \in 1 .. Len(keys) \/ \E j \in 1 .. Len(page) : i = Len(keys) + j
      /\ Range(all) = Range(keys) \cup Range(page)
  BY <1>4, <1>5, ConcatFacts, SMTT(30)
<1>7. /\ reader.pages \in Nat /\ reader.before \subseteq DOMAIN db
      /\ reader.pages = 0 => keys = <<>>
      /\ reader.pages > 0 => keys # <<>> /\ LastKey \in Nat /\ room = reader.room
  <2>1. reader.pages > 0 => keys # <<>> /\ room = reader.room
    BY <1>3, Zenon DEF CursorInv, Asks
  <2> QED
    BY <1>3, <2>1, LastKeyFacts, Zenon DEF ReaderInv, CursorInv
<1>8. PICK before \in SUBSET DOMAIN db : before = IF reader.pages = 0 THEN DOMAIN db ELSE reader.before
  BY <1>7, Zenon
<1>9. PICK gotten \in Seq(Messages) : gotten = reader.got \o got
  BY ConcatFacts, Zenon DEF ReaderInv
<1>10. reader' = [reader EXCEPT !.room = room, !.cursor = cursor, !.keys = all, !.got = gotten,
                               !.pages = @ + 1, !.done = done, !.before = before]
  BY <1>3, <1>4, <1>8, <1>9, Zenon DEF Read, PageRead
<1>11. /\ reader'.room = room /\ reader'.cursor = cursor /\ reader'.keys = all /\ reader'.got = gotten
       /\ reader'.pages = reader.pages + 1 /\ reader'.done = done /\ reader'.before = before
       /\ reader' \in [room : Nat, cursor : Int, keys : Seq(Nat), got : Seq(Messages), pages : Nat,
                       done : BOOLEAN, before : SUBSET DOMAIN db]
  <2>1. reader \in [room : Nat, cursor : Int, keys : Seq(Nat), got : Seq(Messages), pages : Nat,
                    done : BOOLEAN, before : SUBSET DOMAIN db]
    BY Zenon DEF ReaderInv
  <2>2. reader' = [room |-> room, cursor |-> cursor, keys |-> all, got |-> gotten,
                   pages |-> reader.pages + 1, done |-> done, before |-> before]
    BY <1>10, <2>1, Zenon
  <2> QED
    BY <1>7, <2>2
<1>12. StoreInv' /\ db' = db
  BY Zenon DEF StoreInv
<1>13. \A i \in DOMAIN keys : keys[i] \in DOMAIN db /\ InRoom(keys[i], room)
  <2>1. CASE reader.pages = 0
    BY <1>7, <2>1
  <2>2. CASE reader.pages # 0
    <3>1. reader.pages > 0
      BY <1>7, <2>2, Positive, Zenon
    <3> QED
      BY <1>3, <1>7, <3>1, Zenon DEF ReaderInv
  <2> QED
    BY <2>1, <2>2, Zenon
<1>14. ASSUME NEW i \in DOMAIN all PROVE all[i] \in DOMAIN db /\ InRoom(all[i], room)
  <2>1. CASE i \in 1 .. Len(keys)
    BY <1>5, <1>6, <1>13, <2>1, Zenon
  <2>2. ASSUME NEW j \in 1 .. Len(page), i = Len(keys) + j PROVE all[i] \in DOMAIN db /\ InRoom(all[i], room)
    BY <1>1, <1>2, <1>5, <1>6, <2>2, Zenon
  <2> QED
    BY <1>6, <2>1, <2>2, Zenon
<1>15. ASSUME NEW i \in 1 .. Len(keys), NEW j \in 1 .. Len(page) PROVE keys[i] > page[j]
  <2>1. reader.pages > 0 /\ keys # <<>>
    <3>1. keys # <<>>
      BY HasElement, Zenon
    <3>2. reader.pages # 0 /\ reader.pages \in Nat
      BY <1>7, <3>1, Zenon
    <3> QED
      BY <3>1, <3>2, Positive, Zenon
  <2>2. page[j] < LastKey /\ page[j] \in Nat /\ LastKey \in Nat
    BY <1>1, <1>2, <1>5, <1>7, <2>1, Zenon
  <2>3. keys[i] >= LastKey
    <3>1. reader.keys # <<>> /\ i \in DOMAIN reader.keys
      BY <1>3, <1>5, <2>1, Zenon
    <3> QED
      BY <1>3, <3>1, LastKeyFacts, Zenon
  <2>4. PICK x \in Nat, y \in Nat, last \in Nat : x = keys[i] /\ y = page[j] /\ last = LastKey
    BY <2>2, ElementOfSeq, Zenon
  <2>5. x >= last /\ y < last
    BY <2>2, <2>3, <2>4, Zenon
  <2>6. x > y
    BY <2>5
  <2> QED
    BY <2>4, <2>6, Zenon
<1>16. ASSUME NEW i \in DOMAIN all, NEW j \in DOMAIN all, i < j PROVE all[i] > all[j]
  <2>1. CASE j \in 1 .. Len(keys)
    <3>1. i \in 1 .. Len(keys)
      BY <1>5, <1>16, <2>1
    <3>2. keys[i] > keys[j]
      BY <1>3, <1>5, <1>16, <2>1, <3>1, Zenon DEF ReaderInv
    <3> QED
      BY <1>6, <2>1, <3>1, <3>2, Zenon
  <2>2. ASSUME NEW b \in 1 .. Len(page), j = Len(keys) + b, i \in 1 .. Len(keys) PROVE all[i] > all[j]
    BY <1>6, <1>15, <2>2, Zenon
  <2>3. ASSUME NEW a \in 1 .. Len(page), NEW b \in 1 .. Len(page), i = Len(keys) + a, j = Len(keys) + b
        PROVE  all[i] > all[j]
    <3>1. a < b
      BY <1>5, <1>16, <2>3
    <3>2. page[a] > page[b]
      BY <1>2, <1>5, <3>1, Zenon
    <3> QED
      BY <1>6, <2>3, <3>2, Zenon
  <2> QED
    BY <1>6, <2>1, <2>2, <2>3, Zenon
<1>17. ReaderInv'
  BY <1>11, <1>12, <1>14, <1>16, Zenon DEF ReaderInv
<1>18. ASSUME NEW k \in before, InRoom(k, room), k \notin Range(keys) PROVE k \in A
  <2>1. k \in DOMAIN db /\ k \in Nat
    BY DEF StoreInv
  <2>2. CASE reader.pages = 0
    BY <1>1, <1>18, <2>1, <2>2
  <2>3. CASE reader.pages # 0
    <3>1. reader.pages > 0 /\ ~reader.done /\ k \in reader.before /\ room = reader.room
      BY <1>7, <1>8, <2>3 DEF Asks
    <3>2. k \in Begun
      BY <1>18, <3>1, Zenon DEF Begun
    <3>3. k < LastKey /\ LastKey \in Nat
      BY <1>3, <1>7, <1>18, <3>1, <3>2, Zenon DEF CursorInv
    <3> QED
      BY <1>1, <1>18, <2>1, <3>3
  <2> QED
    BY <2>2, <2>3
<1>19. Begun' = {k \in before : InRoom(k, room)}
  BY <1>11 DEF Begun, InRoom, Width
<1>20. CASE done
  <2>1. A \subseteq Range(page)
    BY <1>1, <1>20, Zenon DEF PageRead
  <2>2. Begun' \subseteq Range(all)
    BY <1>6, <1>18, <1>19, <2>1, Zenon
  <2>3. reader'.pages # 0
    BY <1>7, <1>11
  <2> QED
    BY <1>11, <1>12, <1>17, <1>20, <2>2, <2>3, Zenon DEF CursorInv
<1>21. CASE ~done
  <2>1. page # <<>> /\ cursor = Offset(page[Len(page)])
    BY <1>21, Zenon DEF PageRead
  <2>2. Len(page) \in 1 .. Len(page) /\ Len(all) = Len(keys) + Len(page)
    BY <1>5, <2>1
  <2>3. LastKey' = page[Len(page)] /\ all # <<>>
    <3>1. all[Len(all)] = page[Len(page)] /\ Len(all) # 0
      <4>1. all[Len(all)] = page[Len(page)]
        BY <1>6, <2>2, Zenon
      <4>2. Len(all) # 0
        BY <1>5, <2>2
      <4> QED
        BY <4>1, <4>2, Zenon
    <3>2. LastKey' = all[Len(all)]
      BY <1>11, Zenon DEF LastKey
    <3> QED
      BY <3>1, <3>2
  <2>4. cursor = Offset(LastKey)'
    BY <2>1, <2>3, Zenon DEF Offset, Width
  <2>5. \A k \in Begun' : k \in Range(all) \/ k < LastKey'
    BY <1>2, <1>6, <1>18, <1>19, <2>1, <2>3, Zenon
  <2>6. reader'.pages # 0
    BY <1>7, <1>11
  <2>7. /\ ~reader'.done /\ reader'.keys # <<>> /\ reader'.cursor = Offset(LastKey)'
        /\ \A k \in Begun' : k \in Range(reader'.keys) \/ k < LastKey'
    BY <1>11, <1>21, <2>3, <2>4, <2>5, Zenon
  <2> QED
    BY <1>12, <1>17, <2>6, <2>7, Zenon DEF CursorInv
<1> QED
  BY <1>20, <1>21

\* Storing a message changes nothing a reader was given.
LEMMA SetKeeps ==
  ASSUME StoreInv, ReaderInv, CursorInv, NEW m \in Messages, NEW k \in Nat, Set(m, k)
  PROVE  StoreInv' /\ ReaderInv' /\ CursorInv' /\ (GotInv => GotInv')
<1>1. /\ m \notin stored /\ stored' = stored \cup {m} /\ reader' = reader
      /\ db' = [x \in DOMAIN db \cup {k} |-> IF x = k THEN m ELSE db[x]]
  BY Zenon DEF Set
<1>2. /\ DOMAIN db' = DOMAIN db \cup {k} /\ db'[k] = m
      /\ \A x \in DOMAIN db : x # k => db'[x] = db[x] /\ db[x] \in stored
  BY <1>1, Zenon DEF StoreInv, Injection
<1>3. db' \in [DOMAIN db' -> stored']
  BY <1>1, <1>2
<1>4. ASSUME NEW x \in DOMAIN db', NEW y \in DOMAIN db', db'[x] = db'[y] PROVE x = y
  <2>1. CASE x = k \/ y = k
    BY <1>1, <1>2, <1>4, <2>1
  <2>2. CASE x # k /\ y # k
    BY <1>2, <1>4, <2>2 DEF StoreInv, Injection, IsInjective
  <2> QED
    BY <2>1, <2>2
<1>5. StoreInv'
  BY <1>1, <1>2, <1>3, <1>4 DEF StoreInv, Injection, IsInjective
<1>6. ReaderInv'
  <2>1. reader' \in [room : Nat, cursor : Int, keys : Seq(Nat), got : Seq(Messages), pages : Nat,
                     done : BOOLEAN, before : SUBSET DOMAIN db']
    BY <1>1, <1>2, Zenon DEF ReaderInv
  <2>2. \A i \in DOMAIN reader.keys : reader.keys[i] \in DOMAIN db' /\ InRoom(reader.keys[i], reader.room)
    BY <1>2, Zenon DEF ReaderInv
  <2> QED
    BY <1>1, <2>1, <2>2, Zenon DEF ReaderInv, InRoom, Width
<1>7. CursorInv'
  BY <1>1, Zenon DEF CursorInv, Begun, LastKey, InRoom, Offset, Width
<1>8. ASSUME GotInv PROVE GotInv'
  <2>1. ASSUME NEW i \in DOMAIN reader.got, NEW x \in DOMAIN db', db'[x] = reader.got[i]
        PROVE  x = reader.keys[i]
    <3>1. reader.got[i] # m
      BY <1>1, <1>8, Zenon DEF GotInv
    <3>2. x # k /\ x \in DOMAIN db /\ db[x] = reader.got[i]
      BY <1>2, <2>1, <3>1, Zenon
    <3> QED
      BY <1>8, <3>2, Zenon DEF GotInv
  <2> QED
    BY <1>1, <1>8, <2>1 DEF GotInv
<1> QED
  BY <1>5, <1>6, <1>7, <1>8

\* GetMessages gives messages of the store.
LEMMA GetMessagesKeeps ==
  ASSUME StoreInv, ReaderInv, CursorInv, NEW room \in Rooms, GetMessages(room)
  PROVE  StoreInv' /\ ReaderInv' /\ CursorInv'
<1>1. room \in Nat /\ Asks(room) /\ UNCHANGED <<db, stored>>
  BY MessageRepositoryAssumption, Zenon DEF GetMessages
<1>2. PICK A \in SUBSET Nat : A = Ahead(room, reader.cursor) /\ IsFiniteSet(A)
  BY <1>1, AheadFacts
<1>3. PICK page \in Seq(Nat) : page = Page(A) /\ (A # {} => page # <<>>)
  BY <1>2, PageFacts, Zenon
<1>4. PICK got, cursor :
        /\ got \in [DOMAIN page -> stored]
        /\ cursor = IF page = <<>> THEN 0 ELSE Offset(page[Len(page)])
        /\ Read(room, page, got, cursor, page = <<>>)
  BY <1>2, <1>3, Zenon DEF GetMessages
<1>5. got \in Seq(Messages)
  BY <1>4 DEF StoreInv
<1>6. cursor \in Int
  <2>1. CASE page = <<>>
    BY <1>4, <2>1
  <2>2. CASE page # <<>>
    <3>1. page[Len(page)] \in Nat
      BY <2>2
    <3> QED
      BY <1>4, <2>2, <3>1, KeyFacts
  <2> QED
    BY <2>1, <2>2
<1>7. PICK done \in BOOLEAN : done <=> page = <<>>
  BY Zenon
<1>8. Read(room, page, got, cursor, done)
  BY <1>4, <1>7
<1>9. ~done => page # <<>> /\ cursor = Offset(page[Len(page)])
  BY <1>4, <1>7
<1>10. done => A \subseteq Range(page)
  BY <1>3, <1>7
<1>11. PageRead(room, page, got, cursor, done)
  BY <1>2, <1>3, <1>8, <1>9, <1>10, Zenon DEF PageRead
<1> QED
  BY <1>1, <1>5, <1>6, <1>11, ReadKeeps, Zenon

\* ScanAnalysesByRoom gives the records of the page; it ends the reading when
\* the page holds all that is ahead.
LEMMA ScanKeeps ==
  ASSUME StoreInv, ReaderInv, CursorInv, NEW room \in Rooms, ScanAnalysesByRoom(room)
  PROVE  StoreInv' /\ ReaderInv' /\ CursorInv'
<1>1. room \in Nat /\ Asks(room) /\ UNCHANGED <<db, stored>>
  BY MessageRepositoryAssumption, Zenon DEF ScanAnalysesByRoom
<1>2. PICK A \in SUBSET Nat : /\ A = Ahead(room, reader.cursor) /\ IsFiniteSet(A)
                              /\ \A k \in A : k \in DOMAIN db
  BY <1>1, AheadFacts
<1>3. PICK page \in Seq(Nat) : /\ page = Page(A) /\ (A # {} => page # <<>>)
                               /\ \A i \in DOMAIN page : page[i] \in A
                               /\ Cardinality(A) <= Limit => A \subseteq Range(page)
  BY <1>2, PageFacts
<1>4. PICK done, got, cursor :
        /\ done \in BOOLEAN
        /\ done <=> ~(Cardinality(A) > Limit)
        /\ got = [i \in DOMAIN page |-> db[page[i]]]
        /\ cursor = IF ~done THEN Offset(page[Len(page)]) ELSE NoCursor
        /\ Read(room, page, got, cursor, done)
  <2>1. PICK got, cursor :
          /\ got = [i \in DOMAIN page |-> db[page[i]]]
          /\ cursor = IF Cardinality(A) > Limit THEN Offset(page[Len(page)]) ELSE NoCursor
          /\ Read(room, page, got, cursor, ~(Cardinality(A) > Limit))
    BY <1>2, <1>3, Zenon DEF ScanAnalysesByRoom
  <2>2. PICK done \in BOOLEAN : done <=> ~(Cardinality(A) > Limit)
    BY Zenon
  <2>3. Read(room, page, got, cursor, done)
    BY <2>1, <2>2, Zenon
  <2>4. cursor = IF ~done THEN Offset(page[Len(page)]) ELSE NoCursor
    BY <2>1, <2>2, Zenon
  <2> QED
    BY <2>1, <2>2, <2>3, <2>4
<1>5. got \in Seq(Messages)
  <2>1. \A i \in DOMAIN page : db[page[i]] \in Messages
    BY <1>2, <1>3 DEF StoreInv, Injection
  <2> QED
    BY <1>4, <2>1, ImageFacts, Zenon
<1>6. Cardinality(A) \in Nat /\ (done => Cardinality(A) <= Limit) /\ (~done => A # {})
  BY <1>2, <1>4, FS_CardinalityType, FS_EmptySet, MessageRepositoryAssumption
<1>7. ~done => page # <<>> /\ cursor = Offset(page[Len(page)])
  BY <1>3, <1>4, <1>6, Zenon
<1>8. cursor \in Int
  <2>1. CASE done
    BY <1>4, <2>1 DEF NoCursor
  <2>2. CASE ~done
    <3>1. page[Len(page)] \in Nat
      BY <1>7, <2>2
    <3>2. Offset(page[Len(page)]) \in Nat
      BY <3>1, KeyFacts, Zenon
    <3> QED
      BY <1>7, <2>2, <3>2
  <2> QED
    BY <2>1, <2>2
<1>9. done => A \subseteq Range(page)
  BY <1>3, <1>6, Zenon
<1>10. PageRead(room, page, got, cursor, done)
  BY <1>2, <1>3, <1>4, <1>7, <1>9, Zenon DEF PageRead
<1> QED
  BY <1>1, <1>4, <1>5, <1>8, <1>10, ReadKeeps, Zenon

\* A reader starts with nothing.
LEMMA InitPages == ASSUME Init PROVE StoreInv /\ ReaderInv /\ CursorInv /\ GotInv
<1>1. /\ reader.keys = <<>> /\ reader.got = <<>> /\ reader.pages = 0 /\ reader.cursor = NoCursor
      /\ ~reader.done /\ DOMAIN db = {} /\ stored = {}
  BY DEF Init, NewReader
<1>2. StoreInv
  BY <1>1 DEF StoreInv, Init, Injection, IsInjective
<1>3. ReaderInv
  BY DEF Init, NewReader, ReaderInv, NoCursor
<1>4. CursorInv
  BY <1>1 DEF CursorInv
<1>5. GotInv
  BY <1>1 DEF GotInv, IsInjective
<1> QED
  BY <1>2, <1>3, <1>4, <1>5

PageInv == StoreInv /\ ReaderInv /\ CursorInv

\* Every step keeps the store, the reader and the cursor.
LEMMA NextPages == ASSUME PageInv, [Next]_vars PROVE PageInv'
<1> USE DEF PageInv
<1>1. ASSUME NEW m \in Messages, NEW room \in Rooms, NEW at \in 1 .. MaxTime, StoreMessage(m, room, at)
      PROVE  PageInv'
  <2>1. Key(room, at, NilId) \in Nat
    <3>1. room \in Nat /\ at \in Nat /\ NilId \in Nat
      BY MessageRepositoryAssumption DEF NilId
    <3> QED
      BY <3>1, KeyFacts, Zenon
  <2> QED
    BY <1>1, <2>1, SetKeeps DEF StoreMessage
<1>2. ASSUME NEW m \in Messages, NEW room \in Rooms, NEW at \in 1 .. MaxTime, NEW id \in 1 .. MaxId,
             StoreAnalysis(m, room, at, id)
      PROVE  PageInv'
  <2>1. Key(room, at, id) \in Nat
    <3>1. room \in Nat /\ at \in Nat /\ id \in Nat
      BY MessageRepositoryAssumption
    <3> QED
      BY <3>1, KeyFacts
  <2> QED
    BY <1>2, <2>1, SetKeeps DEF StoreAnalysis
<1>3. ASSUME NEW room \in Rooms, GetMessages(room) PROVE PageInv'
  BY <1>3, GetMessagesKeeps
<1>4. ASSUME NEW room \in Rooms, ScanAnalysesByRoom(room) PROVE PageInv'
  BY <1>4, ScanKeeps
<1>5. CASE UNCHANGED vars
  BY <1>5, Zenon DEF vars, StoreInv, ReaderInv, CursorInv, Begun, LastKey, InRoom, Offset, Width
<1> QED
  BY <1>1, <1>2, <1>3, <1>4, <1>5, Zenon DEF Next

\* A client that has paged to the end has seen every record that was in the
\* room when it began, whatever was stored or overwritten in between, and none
\* of another room.
THEOREM PagingReachesTheEnd == Spec => []PagingIsComplete
<1>1. Init => PageInv
  BY InitPages DEF PageInv
<1>2. PageInv /\ [Next]_vars => PageInv'
  BY NextPages
<1>3. PageInv => PagingIsComplete
  <2>1. SUFFICES ASSUME PageInv PROVE PagingIsComplete
    OBVIOUS
  <2>2. \A k \in Range(reader.keys) : InRoom(k, reader.room)
    BY <2>1, Zenon DEF PageInv, ReaderInv, Range
  <2>3. reader.done => {k \in reader.before : InRoom(k, reader.room)} \subseteq Range(reader.keys)
    BY <2>1, Zenon DEF PageInv, CursorInv, Begun
  <2> QED
    BY <2>2, <2>3, Zenon DEF PagingIsComplete
<1> QED
  BY <1>1, <1>2, <1>3, PTL DEF Spec

\* The messages are those under the keys of the page.
Under(page, got) ==
  /\ Len(got) = Len(page)
  /\ \A i \in DOMAIN page : page[i] \in DOMAIN db /\ got[i] = db[page[i]]

\* A page adds messages that stand under its keys, hence no message twice.
LEMMA ReadKeepsGot ==
  ASSUME StoreInv, ReaderInv, CursorInv, GotInv, NEW room, NEW page \in Seq(Nat), NEW cursor, NEW done,
         NEW got \in Seq(Messages), Under(page, got),
         Read(room, page, got, cursor, done), UNCHANGED <<db, stored>>, ReaderInv'
  PROVE  GotInv'
<1>1. PICK keys \in Seq(Nat), old \in Seq(Messages) : keys = reader.keys /\ old = reader.got
  BY Zenon DEF ReaderInv
<1>2. PICK n \in Nat, l \in Nat : n = Len(keys) /\ n = Len(old) /\ l = Len(page) /\ l = Len(got)
  BY <1>1 DEF GotInv, Under
<1>3. PICK all \in Seq(Nat) : all = keys \o page
  BY <1>1, ConcatFacts, Zenon
<1>4. PICK gotten \in Seq(Messages) : gotten = old \o got
  BY <1>1, ConcatFacts, Zenon
<1>5. /\ Len(all) = n + l /\ DOMAIN all = 1 .. (n + l)
      /\ \A i \in 1 .. n : all[i] = keys[i]
      /\ \A i \in 1 .. l : all[n + i] = page[i]
  <2>1. /\ Len(all) = Len(keys) + Len(page) /\ DOMAIN all = 1 .. (Len(keys) + Len(page))
        /\ \A i \in 1 .. Len(keys) : all[i] = keys[i]
        /\ \A i \in 1 .. Len(page) : all[Len(keys) + i] = page[i]
    BY <1>3, ConcatFacts
  <2> QED
    BY <1>2, <2>1, Zenon
<1>6. /\ Len(gotten) = n + l /\ DOMAIN gotten = 1 .. (n + l)
      /\ \A i \in 1 .. n : gotten[i] = old[i]
      /\ \A i \in 1 .. l : gotten[n + i] = got[i]
      /\ \A i \in 1 .. (n + l) : i \in 1 .. n \/ \E j \in 1 .. l : i = n + j
  <2>1. Len(gotten) = Len(old) + Len(got) /\ DOMAIN gotten = 1 .. (Len(old) + Len(got))
    <3>1. Len(gotten) = Len(old) + Len(got)
      BY <1>4, ConcatProperties, Zenon
    <3> QED
      BY <3>1, LenProperties, Zenon
  <2>3. \A i \in 1 .. Len(old) : gotten[i] = old[i]
    BY <1>4
  <2>4. \A i \in 1 .. Len(got) : gotten[Len(old) + i] = got[i]
    BY <1>4
  <2>2. ASSUME NEW i \in 1 .. (n + l), i \notin 1 .. n PROVE \E j \in 1 .. l : i = n + j
    <3>1. i - n \in 1 .. l /\ i = n + (i - n)
      BY <2>2
    <3> QED
      BY <3>1
  <2> QED
    BY <1>2, <2>1, <2>2, <2>3, <2>4, Zenon
<1>7. reader'.keys = all /\ reader'.got = gotten
  BY <1>1, <1>3, <1>4, Zenon DEF Read, ReaderInv
<1>8. \A i, j \in 1 .. (n + l) : i < j => all[i] > all[j]
  BY <1>5, <1>7, Zenon DEF ReaderInv
<1>9. ASSUME NEW i \in 1 .. (n + l)
      PROVE  /\ gotten[i] \in stored
             /\ \A k \in DOMAIN db : db[k] = gotten[i] => k = all[i]
             /\ i \notin 1 .. n => all[i] \in DOMAIN db /\ db[all[i]] = gotten[i]
  <2>1. CASE i \in 1 .. n
    <3>1. i \in DOMAIN old
      BY <1>2, <2>1
    <3>2. old[i] \in stored /\ \A k \in DOMAIN db : db[k] = old[i] => k = keys[i]
      BY <1>1, <3>1, Zenon DEF GotInv
    <3> QED
      BY <1>5, <1>6, <2>1, <3>2, Zenon
  <2>2. ASSUME NEW j \in 1 .. l, i = n + j
        PROVE  /\ gotten[i] \in stored
               /\ \A k \in DOMAIN db : db[k] = gotten[i] => k = all[i]
               /\ all[i] \in DOMAIN db /\ db[all[i]] = gotten[i]
    <3>1. all[i] = page[j] /\ gotten[i] = got[j] /\ page[j] \in DOMAIN db /\ got[j] = db[page[j]]
      <4>1. DOMAIN page = 1 .. Len(page)
        BY LenProperties, Zenon
      <4>2. j \in DOMAIN page
        BY <1>2, <4>1, Zenon
      <4> QED
        BY <1>5, <1>6, <2>2, <4>2, Zenon DEF Under
    <3>2. db[page[j]] \in stored /\ \A k \in DOMAIN db : db[k] = db[page[j]] => k = page[j]
      BY <3>1, Zenon DEF StoreInv, Injection, IsInjective
    <3> QED
      BY <3>1, <3>2, Zenon
  <2> QED
    BY <1>6, <2>1, <2>2, Zenon
<1>10. ASSUME NEW i \in 1 .. (n + l), NEW j \in 1 .. (n + l), gotten[i] = gotten[j] PROVE i = j
  <2>1. CASE i \in 1 .. n /\ j \in 1 .. n
    <3>1. i \in DOMAIN old /\ j \in DOMAIN old
      BY <1>2, <2>1
    <3>2. old[i] = old[j]
      BY <1>6, <1>10, <2>1, Zenon
    <3> QED
      BY <1>1, <3>1, <3>2, Zenon DEF GotInv, IsInjective
  <2>2. CASE ~(i \in 1 .. n /\ j \in 1 .. n)
    <3>1. all[i] = all[j]
      BY <1>9, <1>10, <2>2, Zenon
    <3>2. all[i] \in Nat /\ all[j] \in Nat
      BY <1>5, ElementOfSeq, Zenon
    <3>3. ~(i < j) /\ ~(j < i)
      <4>1. PICK x \in Nat : x = all[i] /\ x = all[j]
        BY <3>1, <3>2, Zenon
      <4>2. ~(x > x)
        OBVIOUS
      <4> QED
        BY <1>8, <4>1, <4>2, Zenon
    <3> QED
      BY <3>3
  <2> QED
    BY <2>1, <2>2, Zenon
<1>11. IsInjective(gotten)
  BY <1>6, <1>10, Zenon DEF IsInjective
<1>12. Len(reader'.got) = Len(reader'.keys) /\ DOMAIN reader'.got = 1 .. (n + l)
  BY <1>5, <1>6, <1>7, Zenon
<1> QED
  BY <1>7, <1>9, <1>11, <1>12, Zenon DEF GotInv

\* As long as the store holds no more records than Badger fetches ahead, the
\* slice kept of an item is not used again: the item of the page is the item
\* of the iteration, for the room's keys are the first that it meets.
LEMMA SliceStays ==
  ASSUME StoreInv, ReaderInv, CursorInv, Cardinality(DOMAIN db) <= Prefetch,
         NEW room \in Nat, Asks(room), NEW i \in DOMAIN Page(Ahead(room, reader.cursor))
  PROVE  /\ Page(Ahead(room, reader.cursor))[i] \in DOMAIN db
         /\ Kept(Descending(Iterated(room, reader.cursor)), i)
              = {db[Page(Ahead(room, reader.cursor))[i]]}
<1>1. PICK bound \in Int : /\ Iterated(room, reader.cursor) = {k \in DOMAIN db : k <= bound}
                           /\ bound < room * Width + Width
  BY IteratedFacts, Zenon
<1>2. PICK S : S = Iterated(room, reader.cursor)
  OBVIOUS
<1>3. /\ S \in SUBSET Int /\ S \in SUBSET DOMAIN db /\ IsFiniteSet(S)
      /\ Cardinality(S) <= Cardinality(DOMAIN db) /\ IsFiniteSet(DOMAIN db)
  BY <1>1, <1>2, FewKeys, FS_Subset DEF StoreInv
<1>4. PICK A \in SUBSET S : /\ A = Ahead(room, reader.cursor) /\ A \in SUBSET Nat /\ IsFiniteSet(A)
                            /\ A = {k \in S : InRoom(k, room)}
  BY <1>2, AheadFacts, Zenon DEF Ahead
<1>5. PICK base \in Nat, w \in Nat : base = room * Width /\ w = Width
  <2>1. room * Width \in Nat /\ Width \in Nat
    BY KeyFacts
  <2> QED
    BY <2>1
<1>6. ASSUME NEW x \in S \ A, NEW y \in A PROVE x < y
  <2>1. x \in Nat /\ y \in Nat /\ ~InRoom(x, room) /\ InRoom(y, room) /\ x <= bound
    BY <1>1, <1>2, <1>3, <1>4, Zenon DEF StoreInv
  <2>2. base <= y /\ ~(base <= x /\ x < base + w)
    BY <1>5, <2>1, KeyFacts, Zenon
  <2> QED
    BY <1>1, <1>5, <2>1, <2>2
<1>7. i \in 1 .. Cardinality(A) /\ Page(A)[i] = Descending(A)[i] /\ Page(A)[i] \in A
  BY <1>4, PageFacts, Zenon
<1>8. Descending(S)[i] = Page(A)[i] /\ i \in 1 .. Cardinality(S)
  BY <1>3, <1>6, <1>7, DescendingTop
<1>9. i + Prefetch \notin DOMAIN Descending(S)
  <2>1. PICK s \in Nat, d \in Nat : s = Cardinality(S) /\ d = Cardinality(DOMAIN db)
    BY <1>3, FS_CardinalityType, Zenon
  <2>2. s <= Prefetch
    BY <1>3, <2>1, MessageRepositoryAssumption
  <2>3. DOMAIN Descending(S) = 1 .. s
    BY <1>3, <2>1, DescendingFacts, Zenon
  <2> QED
    BY <1>8, <2>1, <2>2, <2>3, MessageRepositoryAssumption
<1> QED
  BY <1>2, <1>3, <1>4, <1>7, <1>8, <1>9, Zenon DEF Kept

\* The records GetMessages and ScanAnalysesByRoom give are those of the page.
LEMMA GetMessagesKeepsGot ==
  ASSUME StoreInv, ReaderInv, CursorInv, GotInv, SlicesLast,
         NEW room \in Rooms, GetMessages(room)
  PROVE  GotInv'
<1>1. room \in Nat /\ Asks(room) /\ UNCHANGED <<db, stored>>
  BY MessageRepositoryAssumption, Zenon DEF GetMessages
<1>2. ReaderInv'
  BY GetMessagesKeeps
<1>3. PICK A \in SUBSET Nat : A = Ahead(room, reader.cursor) /\ IsFiniteSet(A)
  BY <1>1, AheadFacts, Zenon
<1>4. PICK page \in Seq(Nat) : page = Page(A)
  BY <1>3, PageFacts, Zenon
<1>5. PICK got, cursor :
        /\ got \in [DOMAIN page -> stored]
        /\ \A i \in DOMAIN page : got[i] \in Kept(Descending(Iterated(room, reader.cursor)), i)
        /\ Read(room, page, got, cursor, page = <<>>)
  BY <1>3, <1>4, Zenon DEF GetMessages
<1>6. got \in Seq(Messages) /\ Len(got) = Len(page)
  BY <1>5 DEF StoreInv
<1>7. \A i \in DOMAIN page : page[i] \in DOMAIN db /\ got[i] = db[page[i]]
  <2>1. Cardinality(DOMAIN db) <= Prefetch
    BY Zenon DEF SlicesLast, GetMessages
  <2> QED
    BY <1>1, <1>3, <1>4, <1>5, <2>1, SliceStays, Zenon
<1>8. PICK done : done = (page = <<>>)
  OBVIOUS
<1>9. Under(page, got) /\ Read(room, page, got, cursor, done)
  BY <1>5, <1>6, <1>7, <1>8, Zenon DEF Under
<1> QED
  BY <1>1, <1>2, <1>6, <1>9, ReadKeepsGot, Zenon

\* ScanAnalysesByRoom keeps the values, since it decodes them inside the callback.
LEMMA ScanKeepsGot ==
  ASSUME StoreInv, ReaderInv, CursorInv, GotInv, NEW room \in Rooms, ScanAnalysesByRoom(room)
  PROVE  GotInv'
<1>1. room \in Nat /\ Asks(room) /\ UNCHANGED <<db, stored>>
  BY MessageRepositoryAssumption, Zenon DEF ScanAnalysesByRoom
<1>2. ReaderInv'
  BY ScanKeeps, Zenon
<1>3. PICK A \in SUBSET Nat : /\ A = Ahead(room, reader.cursor) /\ IsFiniteSet(A)
                              /\ \A k \in A : k \in DOMAIN db
  BY <1>1, AheadFacts, Zenon
<1>4. PICK page \in Seq(Nat) : page = Page(A) /\ \A i \in DOMAIN page : page[i] \in A
  BY <1>3, PageFacts, Zenon
<1>5. PICK got, cursor, done :
        /\ got = [i \in DOMAIN page |-> db[page[i]]]
        /\ Read(room, page, got, cursor, done)
  BY <1>3, <1>4, Zenon DEF ScanAnalysesByRoom
<1>6. \A i \in DOMAIN page : page[i] \in DOMAIN db /\ got[i] = db[page[i]]
  BY <1>3, <1>4, <1>5, Zenon
<1>7. got \in Seq(Messages) /\ Len(got) = Len(page)
  <2>1. \A i \in DOMAIN page : db[page[i]] \in Messages
    BY <1>6 DEF StoreInv, Injection
  <2>2. got = [i \in DOMAIN page |-> db[page[i]]]
    BY <1>5, Zenon
  <2>3. got \in Seq(Messages)
    BY <2>1, <2>2, ImageFacts, Zenon
  <2>4. Len(got) = Len(page)
    BY <2>1, <2>2, ImageFacts
  <2> QED
    BY <2>3, <2>4, Zenon
<1>8. Under(page, got)
  BY <1>6, <1>7, Zenon DEF Under
<1> QED
  BY <1>1, <1>2, <1>5, <1>7, <1>8, ReadKeepsGot, Zenon

\* The store does not shrink, so slices that last have lasted.
LEMMA SlicesLasted ==
  ASSUME PageInv, PageInv', [Next]_vars, SlicesLast'
  PROVE  SlicesLast
<1>1. DOMAIN db \subseteq DOMAIN db' /\ prefix' = prefix
  <2>1. ASSUME NEW m, NEW k, Set(m, k) PROVE DOMAIN db \subseteq DOMAIN db' /\ prefix' = prefix
    BY <2>1, Zenon DEF Set
  <2>2. CASE UNCHANGED <<db, prefix>>
    BY <2>2
  <2> QED
    BY <2>1, <2>2, Zenon DEF Next, StoreMessage, StoreAnalysis, GetMessages, ScanAnalysesByRoom, vars
<1>2. PICK D, E : D = DOMAIN db /\ E = DOMAIN db'
  OBVIOUS
<1>3. IsFiniteSet(E)
  <2>1. db' \in Injection(E, Messages) /\ IsFiniteSet(Messages)
    BY <1>2, MessageRepositoryAssumption, Zenon DEF PageInv, StoreInv, Injection
  <2> QED
    BY <2>1, FS_Injection, Zenon
<1>4. Cardinality(D) \in Nat /\ Cardinality(E) \in Nat /\ Cardinality(D) <= Cardinality(E)
  BY <1>1, <1>2, <1>3, FS_Subset, FS_CardinalityType, Zenon
<1> QED
  BY <1>1, <1>2, <1>4, MessageRepositoryAssumption DEF SlicesLast

\* Every step keeps the messages given apart.
LEMMA NextGot ==
  ASSUME SlicesLast, PageInv, GotInv, [Next]_vars
  PROVE  GotInv'
<1> USE DEF PageInv
<1>1. ASSUME NEW m \in Messages, NEW room \in Rooms, NEW at \in 1 .. MaxTime, StoreMessage(m, room, at)
      PROVE  GotInv'
  <2>1. Key(room, at, NilId) \in Nat
    <3>1. room \in Nat /\ at \in Nat /\ NilId \in Nat
      BY MessageRepositoryAssumption DEF NilId
    <3> QED
      BY <3>1, KeyFacts, Zenon
  <2> QED
    BY <1>1, <2>1, SetKeeps, Zenon DEF StoreMessage
<1>2. ASSUME NEW m \in Messages, NEW room \in Rooms, NEW at \in 1 .. MaxTime, NEW id \in 1 .. MaxId,
             StoreAnalysis(m, room, at, id)
      PROVE  GotInv'
  <2>1. Key(room, at, id) \in Nat
    <3>1. room \in Nat /\ at \in Nat /\ id \in Nat
      BY MessageRepositoryAssumption
    <3> QED
      BY <3>1, KeyFacts, Zenon
  <2> QED
    BY <1>2, <2>1, SetKeeps, Zenon DEF StoreAnalysis
<1>3. ASSUME NEW room \in Rooms, GetMessages(room) PROVE GotInv'
  BY <1>3, GetMessagesKeepsGot, Zenon
<1>4. ASSUME NEW room \in Rooms, ScanAnalysesByRoom(room) PROVE GotInv'
  BY <1>4, ScanKeepsGot
<1>5. CASE UNCHANGED vars
  BY <1>5, Zenon DEF vars, GotInv
<1> QED
  BY <1>1, <1>2, <1>3, <1>4, <1>5, Zenon DEF Next

\* Pages read one after the other go back in time and repeat neither a key nor,
\* while the store holds no more records than Badger's iterator fetches ahead, a
\* message, whatever is stored in between.
THEOREM PagesNeverRepeat == Spec => []PagesGoBack
<1> DEFINE Inv == PageInv /\ (SlicesLast => GotInv)
<1>1. Init => Inv
  BY InitPages DEF PageInv
<1>2. Inv /\ [Next]_vars => Inv'
  <2> SUFFICES ASSUME Inv, [Next]_vars PROVE Inv'
    BY Zenon
  <2>1. PageInv'
    BY NextPages, Zenon
  <2>2. ASSUME SlicesLast' PROVE GotInv'
    BY <2>1, <2>2, SlicesLasted, NextGot, Zenon
  <2> QED
    BY <2>1, <2>2, Zenon
<1>3. Inv => PagesGoBack
  BY Zenon DEF PageInv, ReaderInv, GotInv, PagesGoBack
<1> QED
  BY <1>1, <1>2, <1>3, PTL DEF Spec

\* The last part of a key is its id.
LEMMA KeyId ==
  ASSUME NEW room \in Nat, NEW at \in Nat, NEW id \in 0 .. MaxId
  PROVE  Key(room, at, id) % (MaxId + 1) = id
<1>1. PICK w \in Nat \ {0} : w = MaxId + 1 /\ id \in 0 .. (w - 1)
  BY MessageRepositoryAssumption
<1>2. PICK v \in Nat : v = MaxTime + 1
  BY MessageRepositoryAssumption
<1>3. PICK p \in Nat : p = room * v + at
  OBVIOUS
<1>4. Key(room, at, id) = p * w + id
  <2>1. room * (v * w) + at * w + id = (room * v + at) * w + id
    OBVIOUS
  <2> QED
    BY <1>1, <1>2, <1>3, <2>1, Zenon DEF Key, Width
<1>5. (p * w + id) % w = id
  BY <1>1, LastDigit, Zenon
<1> QED
  BY <1>1, <1>4, <1>5, Zenon

\* A record stored under a free key leaves those that are there.
LEMMA SetFree ==
  ASSUME StoredStays, NEW m, NEW k, k \notin DOMAIN db, Set(m, k)
  PROVE  StoredStays'
<1>1. /\ stored' = stored \cup {m}
      /\ db' = [x \in DOMAIN db \cup {k} |-> IF x = k THEN m ELSE db[x]]
  BY Zenon DEF Set
<1>2. /\ DOMAIN db' = DOMAIN db \cup {k} /\ db'[k] = m
      /\ \A x \in DOMAIN db : db'[x] = db[x]
  BY <1>1, Zenon
<1> QED
  BY <1>1, <1>2, Zenon DEF StoredStays

\* Where the id reaches the key, as that of an analysis does, it is the
\* "collision disconnector" message_repository.go speaks of: every record
\* stored is there, also when several of a room have the same nanosecond.
THEOREM AnalysesAreKept == Spec => [](prefix = "analysis" => StoredStays)
<1> DEFINE Inv == prefix = "analysis" => StoredStays
<1>1. Init => Inv
  BY Zenon DEF Init, StoredStays
<1>2. Inv /\ [Next]_vars => Inv'
  <2> SUFFICES ASSUME Inv, [Next]_vars, prefix' = "analysis" PROVE StoredStays'
    BY Zenon
  <2>1. ASSUME NEW m \in Messages, NEW room \in Rooms, NEW at \in 1 .. MaxTime, StoreMessage(m, room, at)
        PROVE  FALSE
    BY <2>1 DEF StoreMessage, Set
  <2>2. ASSUME NEW m \in Messages, NEW room \in Rooms, NEW at \in 1 .. MaxTime, NEW id \in 1 .. MaxId,
               StoreAnalysis(m, room, at, id)
        PROVE  StoredStays'
    <3>1. room \in Nat /\ at \in Nat /\ id \in 0 .. MaxId
      BY MessageRepositoryAssumption
    <3>2. Key(room, at, id) \notin DOMAIN db
      BY <2>2, <3>1, KeyId, Zenon DEF StoreAnalysis
    <3> QED
      BY <2>2, <3>2, SetFree, Zenon DEF StoreAnalysis
  <2>3. CASE UNCHANGED <<prefix, db, stored>>
    BY <2>3, Zenon DEF StoredStays
  <2> QED
    BY <2>1, <2>2, <2>3, Zenon DEF Next, GetMessages, ScanAnalysesByRoom, vars
<1> QED
  BY <1>1, <1>2, PTL DEF Spec
=============================================================================

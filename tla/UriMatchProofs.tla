---------------------------- MODULE UriMatchProofs ----------------------------
(***************************************************************************)
(* What the algorithms of UriMatch compute, for URIs and endpoints of any  *)
(* length over any characters.                                             *)
(***************************************************************************)
EXTENDS MCUriMatch, SequenceTheorems, FiniteSetTheorems, WellFoundedInduction, TLAPS

\* The equation of VmRESTMatchEndPointURI's recursion, for a table m.
Places(pattern, s) == (1..Len(pattern) + 1) \X (1..Len(s) + 1)

Compared(pattern, s, m, at) ==
  \/ at[1] = Len(pattern) + 1 /\ at[2] = Len(s) + 1
  \/ /\ at[1] < Len(pattern) + 1
     /\ ~(pattern[at[1]] = "*" /\ at[1] + 1 < Len(pattern) + 1 /\ at[2] = Len(s) + 1)
     /\ IF at[2] < Len(s) + 1 /\ pattern[at[1]] = s[at[2]] THEN m[<<at[1] + 1, at[2] + 1>>]
        ELSE /\ pattern[at[1]] = "*"
             /\ m[<<at[1] + 1, at[2]>>] \/ (at[2] < Len(s) + 1 /\ m[<<at[1], at[2] + 1>>])

IsTable(pattern, s, m) == m = [at \in Places(pattern, s) |-> Compared(pattern, s, m, at)]

\* VmRESTMatchEndPointURI returns the first entry of its table.
LEMMA MatchIsTable ==
  ASSUME NEW pattern, NEW s
  PROVE  MatchEndPointURI(pattern, s) = (CHOOSE m : IsTable(pattern, s, m))[<<1, 1>>]
BY DEF MatchEndPointURI, IsTable, Places, Compared

\* Every non-empty set of numbers has a least one: the induction of the proofs.
LEMMA LeastNumber ==
  ASSUME NEW S \in SUBSET Nat, S # {}
  PROVE  \E m \in S : \A n \in S : m <= n
<1>1. PICK m \in S : \A n \in S : <<n, m>> \notin OpToRel(<, Nat)
  BY WFMin, NatLessThanWellFounded, Zenon
<1>2. \A n \in S : ~(n < m)
  BY <1>1, Zenon DEF OpToRel
<1> QED
  BY <1>2

\* The recursion has one table only.
LEMMA TableIsUnique ==
  ASSUME NEW Char, NEW pattern \in Seq(Char), NEW s \in Seq(Char),
         NEW m, IsTable(pattern, s, m), NEW n, IsTable(pattern, s, n)
  PROVE  \A at \in Places(pattern, s) : m[at] = n[at]
<1> DEFINE P == Len(pattern) + 1
           U == Len(s) + 1
           Left(at) == (P - at[1]) + (U - at[2])
           Bad == {at \in Places(pattern, s) : m[at] # n[at]}
           Sizes == {Left(at) : at \in Bad}
<1>0. P \in Nat /\ U \in Nat /\ Places(pattern, s) = (1..P) \X (1..U)
  BY LenProperties DEF Places
<1>1. \A at \in Places(pattern, s) : Left(at) \in Nat /\ at[1] \in 1..P /\ at[2] \in 1..U
  BY <1>0
<1>2. /\ \A at \in Places(pattern, s) : m[at] = Compared(pattern, s, m, at)
      /\ \A at \in Places(pattern, s) : n[at] = Compared(pattern, s, n, at)
  BY DEF IsTable
<1> SUFFICES ASSUME Bad # {} PROVE FALSE
  OBVIOUS
<1>3. Sizes \in SUBSET Nat /\ Sizes # {}
  BY <1>1
<1> HIDE DEF Sizes
<1>4. PICK d \in Sizes : \A e \in Sizes : d <= e
  BY <1>3, LeastNumber
<1>5. PICK at \in Bad : d = Left(at)
  BY <1>4 DEF Sizes
<1>6. \A x \in Places(pattern, s) : Left(x) < Left(at) => m[x] = n[x]
  <2> SUFFICES ASSUME NEW x \in Places(pattern, s), Left(x) < Left(at), m[x] # n[x] PROVE FALSE
    OBVIOUS
  <2>1. Left(x) \in Sizes
    BY DEF Sizes
  <2> QED
    BY <1>1, <1>4, <1>5, <2>1
<1>7. at[1] \in 1..P /\ at[2] \in 1..U /\ Left(at) = (P - at[1]) + (U - at[2])
  BY <1>1, <1>5
<1>8. ASSUME NEW i \in 1..P, NEW j \in 1..U, (P - i) + (U - j) < (P - at[1]) + (U - at[2])
      PROVE  m[<<i, j>>] = n[<<i, j>>]
  <2>1. <<i, j>> \in Places(pattern, s)
    BY <1>0
  <2>2. Left(<<i, j>>) = (P - i) + (U - j)
    OBVIOUS
  <2> HIDE DEF Left
  <2> QED
    BY <1>6, <1>7, <1>8, <2>1, <2>2
<1>9. /\ at[1] < P => m[<<at[1] + 1, at[2]>>] = n[<<at[1] + 1, at[2]>>]
      /\ at[2] < U => m[<<at[1], at[2] + 1>>] = n[<<at[1], at[2] + 1>>]
      /\ at[1] < P /\ at[2] < U => m[<<at[1] + 1, at[2] + 1>>] = n[<<at[1] + 1, at[2] + 1>>]
  <2>1. ASSUME NEW a \in 1..P, NEW b \in 1..U, a = at[1], b = at[2]
        PROVE  /\ a < P => m[<<a + 1, b>>] = n[<<a + 1, b>>]
               /\ b < U => m[<<a, b + 1>>] = n[<<a, b + 1>>]
               /\ a < P /\ b < U => m[<<a + 1, b + 1>>] = n[<<a + 1, b + 1>>]
    <3>1. a < P => a + 1 \in 1..P /\ (P - (a + 1)) + (U - b) < (P - a) + (U - b)
      BY <1>0
    <3>2. b < U => b + 1 \in 1..U /\ (P - a) + (U - (b + 1)) < (P - a) + (U - b)
      BY <1>0
    <3>3. a < P /\ b < U => (P - (a + 1)) + (U - (b + 1)) < (P - a) + (U - b)
      BY <1>0
    <3> HIDE DEF P, U
    <3> QED
      BY <1>8, <2>1, <3>1, <3>2, <3>3
  <2> QED
    BY <1>7, <2>1
<1>10. Compared(pattern, s, m, at) = Compared(pattern, s, n, at)
  BY <1>9 DEF Compared
<1> QED
  BY <1>2, <1>5, <1>10

\* A table that satisfies the equation is the one the recursion fills.
LEMMA TableIsMatch ==
  ASSUME NEW Char, NEW pattern \in Seq(Char), NEW s \in Seq(Char),
         NEW m \in [Places(pattern, s) -> BOOLEAN],
         \A at \in Places(pattern, s) : m[at] <=> Compared(pattern, s, m, at)
  PROVE  MatchEndPointURI(pattern, s) <=> m[<<1, 1>>]
<1>1. \A at \in Places(pattern, s) : m[at] = Compared(pattern, s, m, at)
  <2> SUFFICES ASSUME NEW at \in Places(pattern, s) PROVE m[at] = Compared(pattern, s, m, at)
    OBVIOUS
  <2>1. Compared(pattern, s, m, at) \in BOOLEAN
    BY DEF Compared
  <2> QED
    BY <2>1
<1>2. IsTable(pattern, s, m)
  BY <1>1 DEF IsTable
<1>3. IsTable(pattern, s, CHOOSE f : IsTable(pattern, s, f))
  BY <1>2, Zenon
<1>4. <<1, 1>> \in Places(pattern, s)
  BY LenProperties DEF Places
<1>5. \A n : IsTable(pattern, s, n) => n[<<1, 1>>] = m[<<1, 1>>]
  BY <1>2, <1>4, TableIsUnique
<1>6. (CHOOSE f : IsTable(pattern, s, f))[<<1, 1>>] = m[<<1, 1>>]
  BY <1>3, <1>5, Zenon
<1> QED
  BY <1>6, MatchIsTable, Zenon

-----------------------------------------------------------------------------
(* A match is a choice of what the characters of the pattern stand for.    *)

\* The k-th character of the pattern stands for what is in s from a to b.
StandsFor(pattern, s, k, a, b) ==
  IF pattern[k] = "*" THEN a <= b ELSE a < Len(s) + 1 /\ s[a] = pattern[k] /\ b = a + 1

\* What is left of the pattern from i can stand for what is left of s from j.
Stands(pattern, s, i, j) ==
  \E c \in [i..Len(pattern) + 1 -> 1..Len(s) + 1] :
    /\ c[i] = j /\ c[Len(pattern) + 1] = Len(s) + 1
    /\ \A k \in i..Len(pattern) : StandsFor(pattern, s, k, c[k], c[k + 1])

\* A match from the i-th character on is one for it and one for the rest.
LEMMA StandsUnfolds ==
  ASSUME NEW Char, NEW pattern \in Seq(Char), NEW s \in Seq(Char),
         NEW i \in 1..Len(pattern), NEW j \in 1..Len(s) + 1
  PROVE  Stands(pattern, s, i, j)
           <=> \E b \in 1..Len(s) + 1 : StandsFor(pattern, s, i, j, b) /\ Stands(pattern, s, i + 1, b)
<1> DEFINE P == Len(pattern) + 1
           U == Len(s) + 1
<1>0. P \in Nat /\ U \in Nat /\ i \in 1..P - 1 /\ Len(pattern) = P - 1
  BY LenProperties
<1>1. ASSUME Stands(pattern, s, i, j)
      PROVE  \E b \in 1..U : StandsFor(pattern, s, i, j, b) /\ Stands(pattern, s, i + 1, b)
  <2>1. PICK c \in [i..P -> 1..U] :
          /\ c[i] = j /\ c[P] = U
          /\ \A k \in i..P - 1 : StandsFor(pattern, s, k, c[k], c[k + 1])
    BY <1>0, <1>1 DEF Stands
  <2> DEFINE d == [k \in i + 1..P |-> c[k]]
  <2>2. d \in [i + 1..P -> 1..U] /\ d[i + 1] = c[i + 1] /\ d[P] = U
    BY <1>0, <2>1
  <2>3. \A k \in i + 1..P - 1 : d[k] = c[k] /\ d[k + 1] = c[k + 1]
    BY <1>0
  <2>4. \A k \in i + 1..P - 1 : StandsFor(pattern, s, k, d[k], d[k + 1])
    BY <1>0, <2>1, <2>3
  <2>5. Stands(pattern, s, i + 1, c[i + 1])
    BY <1>0, <2>2, <2>4, Zenon DEF Stands
  <2>6. StandsFor(pattern, s, i, j, c[i + 1]) /\ c[i + 1] \in 1..U
    BY <1>0, <2>1
  <2> QED
    BY <2>5, <2>6
<1>2. ASSUME NEW b \in 1..U, StandsFor(pattern, s, i, j, b), Stands(pattern, s, i + 1, b)
      PROVE  Stands(pattern, s, i, j)
  <2>1. PICK c \in [i + 1..P -> 1..U] :
          /\ c[i + 1] = b /\ c[P] = U
          /\ \A k \in i + 1..P - 1 : StandsFor(pattern, s, k, c[k], c[k + 1])
    BY <1>0, <1>2 DEF Stands
  <2> DEFINE d == [k \in i..P |-> IF k = i THEN j ELSE c[k]]
  <2>2. d \in [i..P -> 1..U] /\ d[i] = j /\ d[P] = U /\ d[i + 1] = b
    BY <1>0, <2>1
  <2>3. \A k \in i + 1..P - 1 : d[k] = c[k] /\ d[k + 1] = c[k + 1]
    BY <1>0
  <2> HIDE DEF d
  <2>4. \A k \in i..P - 1 : StandsFor(pattern, s, k, d[k], d[k + 1])
    <3> SUFFICES ASSUME NEW k \in i..P - 1 PROVE StandsFor(pattern, s, k, d[k], d[k + 1])
      OBVIOUS
    <3>1. CASE k = i
      BY <1>2, <2>2, <3>1
    <3>2. CASE k # i
      BY <1>0, <2>1, <2>3, <3>2
    <3> QED
      BY <3>1, <3>2
  <2> QED
    BY <1>0, <2>2, <2>4 DEF Stands
<1> QED
  BY <1>1, <1>2

\* The whole pattern has nothing left, which stands for nothing.
LEMMA StandsAtEnd ==
  ASSUME NEW Char, NEW pattern \in Seq(Char), NEW s \in Seq(Char), NEW j \in 1..Len(s) + 1
  PROVE  Stands(pattern, s, Len(pattern) + 1, j) <=> j = Len(s) + 1
<1> DEFINE P == Len(pattern) + 1
           U == Len(s) + 1
<1>0. P \in Nat /\ U \in Nat /\ Len(pattern) = P - 1
  BY LenProperties
<1>1. Stands(pattern, s, P, j) => j = U
  BY <1>0 DEF Stands
<1>2. ASSUME j = U PROVE Stands(pattern, s, P, j)
  <2> DEFINE c == [k \in P..P |-> U]
  <2>1. c \in [P..P -> 1..U] /\ c[P] = U
    BY <1>0
  <2>2. \A k \in P..P - 1 : StandsFor(pattern, s, k, c[k], c[k + 1])
    BY <1>0
  <2> HIDE DEF c
  <2> QED
    BY <1>0, <1>2, <2>1, <2>2 DEF Stands
<1> QED
  BY <1>1, <1>2

\* A star stands for nothing, or for one character more than behind it.
LEMMA StarUnfolds ==
  ASSUME NEW Char, NEW pattern \in Seq(Char), NEW s \in Seq(Char),
         NEW i \in 1..Len(pattern), NEW j \in 1..Len(s) + 1, pattern[i] = "*"
  PROVE  Stands(pattern, s, i, j)
           <=> Stands(pattern, s, i + 1, j) \/ (j < Len(s) + 1 /\ Stands(pattern, s, i, j + 1))
<1> DEFINE U == Len(s) + 1
<1>0. U \in Nat
  BY LenProperties
<1>1. \A a \in 1..U, b \in 1..U : StandsFor(pattern, s, i, a, b) <=> a <= b
  BY DEF StandsFor
<1>2. \A a \in 1..U : Stands(pattern, s, i, a) <=> \E b \in 1..U : a <= b /\ Stands(pattern, s, i + 1, b)
  BY <1>1, StandsUnfolds
<1>3. j < U => j + 1 \in 1..U
  BY <1>0
<1>4. \A b \in 1..U : j <= b <=> b = j \/ (j < U /\ j + 1 <= b)
  BY <1>0
<1> HIDE DEF U
<1>5. Stands(pattern, s, i, j) <=> \E b \in 1..U : j <= b /\ Stands(pattern, s, i + 1, b)
  BY <1>2 DEF U
<1>6. j < U => (Stands(pattern, s, i, j + 1) <=> \E b \in 1..U : j + 1 <= b /\ Stands(pattern, s, i + 1, b))
  BY <1>2, <1>3
<1>7. Stands(pattern, s, i, j) <=> Stands(pattern, s, i + 1, j) \/ (j < U /\ Stands(pattern, s, i, j + 1))
  BY <1>4, <1>5, <1>6 DEF U
<1> QED
  BY <1>7 DEF U

\* Another character stands for itself.
LEMMA CharacterUnfolds ==
  ASSUME NEW Char, NEW pattern \in Seq(Char), NEW s \in Seq(Char),
         NEW i \in 1..Len(pattern), NEW j \in 1..Len(s) + 1, pattern[i] # "*"
  PROVE  Stands(pattern, s, i, j)
           <=> j < Len(s) + 1 /\ pattern[i] = s[j] /\ Stands(pattern, s, i + 1, j + 1)
<1> DEFINE U == Len(s) + 1
<1>0. U \in Nat
  BY LenProperties
<1>1. \A b \in 1..U : StandsFor(pattern, s, i, j, b) <=> j < U /\ s[j] = pattern[i] /\ b = j + 1
  BY DEF StandsFor
<1>2. j < U => j + 1 \in 1..U
  BY <1>0
<1> QED
  BY <1>1, <1>2, StandsUnfolds

\* The recursion computes Stands, for patterns in which no two stars are
\* adjacent and strings without stars.
LEMMA StandsIsCompared ==
  ASSUME NEW Char, NEW pattern \in Seq(Char), NEW s \in Seq(Char),
         ~AdjacentStars(pattern), \A k \in DOMAIN s : s[k] # "*",
         NEW at \in Places(pattern, s)
  PROVE  Stands(pattern, s, at[1], at[2])
           <=> Compared(pattern, s, [x \in Places(pattern, s) |-> Stands(pattern, s, x[1], x[2])], at)
<1> DEFINE P == Len(pattern) + 1
           U == Len(s) + 1
           m == [x \in Places(pattern, s) |-> Stands(pattern, s, x[1], x[2])]
<1>0. /\ P \in Nat /\ U \in Nat /\ Places(pattern, s) = (1..P) \X (1..U)
      /\ DOMAIN s = 1..U - 1 /\ Len(pattern) = P - 1 /\ Len(s) = U - 1
  BY LenProperties DEF Places
<1>1. PICK i \in 1..P, j \in 1..U : at = <<i, j>> /\ at[1] = i /\ at[2] = j
  BY <1>0
<1>2. ASSUME NEW a \in 1..P, NEW b \in 1..U
      PROVE  m[<<a, b>>] <=> Stands(pattern, s, a, b)
  <2>1. <<a, b>> \in Places(pattern, s) /\ <<a, b>>[1] = a /\ <<a, b>>[2] = b
    BY <1>0
  <2>2. m[<<a, b>>] = Stands(pattern, s, <<a, b>>[1], <<a, b>>[2])
    BY <2>1, Zenon
  <2> QED
    BY <2>1, <2>2, Zenon
<1> HIDE DEF m
<1>3. CASE i = P
  BY <1>0, <1>1, <1>3, StandsAtEnd DEF Compared
<1>4. CASE i # P /\ pattern[i] = "*"
  <2>1. i \in 1..Len(pattern) /\ i + 1 \in 1..P /\ (j < U => j + 1 \in 1..U)
    BY <1>0, <1>4
  <2>2. j < U => pattern[i] # s[j]
    BY <1>0, <1>4
  <2>3. i + 1 < P /\ j = U => ~Stands(pattern, s, i, j)
    <3> SUFFICES ASSUME i + 1 < P, j = U, Stands(pattern, s, i, j) PROVE FALSE
      OBVIOUS
    <3>1. Stands(pattern, s, i + 1, j)
      BY <1>0, <1>4, <2>1, StarUnfolds
    <3>2. pattern[i + 1] # "*" /\ i + 1 \in 1..Len(pattern)
      BY <1>0, <1>4, <2>1 DEF AdjacentStars
    <3> QED
      BY <1>0, <3>1, <3>2, CharacterUnfolds
  <2>4. Stands(pattern, s, i, j) <=> Stands(pattern, s, i + 1, j) \/ (j < U /\ Stands(pattern, s, i, j + 1))
    BY <1>4, <2>1, StarUnfolds
  <2>5. m[<<i + 1, j>>] <=> Stands(pattern, s, i + 1, j)
    BY <1>2, <2>1
  <2>6. j < U => (m[<<i, j + 1>>] <=> Stands(pattern, s, i, j + 1))
    BY <1>2, <2>1
  <2>7. Compared(pattern, s, m, at)
          <=> /\ ~(i + 1 < P /\ j = U)
              /\ m[<<i + 1, j>>] \/ (j < U /\ m[<<i, j + 1>>])
    BY <1>0, <1>1, <1>4, <2>2 DEF Compared
  <2> QED
    BY <1>1, <2>3, <2>4, <2>5, <2>6, <2>7 DEF m
<1>5. CASE i # P /\ pattern[i] # "*"
  <2>1. i \in 1..Len(pattern) /\ i + 1 \in 1..P /\ (j < U => j + 1 \in 1..U)
    BY <1>0, <1>5
  <2>2. Stands(pattern, s, i, j) <=> j < U /\ pattern[i] = s[j] /\ Stands(pattern, s, i + 1, j + 1)
    BY <1>5, <2>1, CharacterUnfolds
  <2>3. j < U => (m[<<i + 1, j + 1>>] <=> Stands(pattern, s, i + 1, j + 1))
    BY <1>2, <2>1
  <2>4. Compared(pattern, s, m, at) <=> j < U /\ pattern[i] = s[j] /\ m[<<i + 1, j + 1>>]
    BY <1>0, <1>1, <1>5 DEF Compared
  <2> QED
    BY <1>1, <2>2, <2>3, <2>4 DEF m
<1> QED
  BY <1>3, <1>4, <1>5 DEF m

\* What is found by backtracking is such a choice.
LEMMA MatchIsStands ==
  ASSUME NEW Char, NEW pattern \in Seq(Char), NEW s \in Seq(Char),
         ~AdjacentStars(pattern), \A k \in DOMAIN s : s[k] # "*"
  PROVE  MatchEndPointURI(pattern, s) <=> Stands(pattern, s, 1, 1)
<1> DEFINE m == [x \in Places(pattern, s) |-> Stands(pattern, s, x[1], x[2])]
<1>1. m \in [Places(pattern, s) -> BOOLEAN]
  BY DEF Stands
<1>2. \A at \in Places(pattern, s) : m[at] <=> Compared(pattern, s, m, at)
  <2> SUFFICES ASSUME NEW at \in Places(pattern, s) PROVE m[at] <=> Compared(pattern, s, m, at)
    OBVIOUS
  <2>1. Stands(pattern, s, at[1], at[2]) <=> Compared(pattern, s, m, at)
    BY StandsIsCompared
  <2>2. m[at] = Stands(pattern, s, at[1], at[2])
    BY Zenon
  <2> QED
    BY <2>1, <2>2, Zenon
<1>3. <<1, 1>> \in Places(pattern, s) /\ <<1, 1>>[1] = 1 /\ <<1, 1>>[2] = 1
  BY LenProperties DEF Places
<1>4. m[<<1, 1>>] <=> Stands(pattern, s, 1, 1)
  <2>1. m[<<1, 1>>] = Stands(pattern, s, <<1, 1>>[1], <<1, 1>>[2])
    BY <1>3, Zenon
  <2> QED
    BY <1>3, <2>1, Zenon
<1> HIDE DEF m
<1> QED
  BY <1>1, <1>2, <1>4, TableIsMatch

-----------------------------------------------------------------------------
(* The reference definition says the same.                                 *)

\* The last star before a character is the one right before it, or the last
\* star before the one right before it.
LEMMA LastStarMoves ==
  ASSUME NEW Char, NEW pattern \in Seq(Char), NEW i \in 1..Len(pattern) + 1
  PROVE  /\ LastStar(pattern, i) \in {0} \cup {k \in PlacesOf(pattern, "*") : k < i}
         /\ LastStar(pattern, 1) = 0
         /\ i > 1 /\ pattern[i - 1] = "*" => LastStar(pattern, i) = i - 1
         /\ i > 1 /\ pattern[i - 1] # "*" => LastStar(pattern, i) = LastStar(pattern, i - 1)
<1> DEFINE Stars(n) == {0} \cup {k \in PlacesOf(pattern, "*") : k < n}
<1>0. Len(pattern) \in Nat /\ DOMAIN pattern = 1..Len(pattern)
  BY LenProperties
<1>1. ASSUME NEW n \in Nat, NEW M \in Stars(n), \A k \in Stars(n) : k <= M
      PROVE  LastStar(pattern, n) = M
  <2>1. Stars(n) \subseteq Nat
    BY <1>0 DEF PlacesOf
  <2>2. \A x \in Stars(n) : (\A y \in Stars(n) : x >= y) => x = M
    BY <1>1, <2>1
  <2> QED
    BY <1>1, <2>1, <2>2 DEF LastStar, Max
<1>2. ASSUME NEW n \in 1..Len(pattern) + 1
      PROVE  \E M \in Stars(n) : \A k \in Stars(n) : k <= M
  <2> DEFINE D == {n - k : k \in Stars(n)}
  <2>1. Stars(n) \subseteq 0..n - 1 /\ 0 \in Stars(n)
    BY <1>0 DEF PlacesOf
  <2>2. D \in SUBSET Nat /\ D # {}
    BY <2>1
  <2> HIDE DEF Stars
  <2>3. PICK d \in D : \A e \in D : d <= e
    BY <2>2, LeastNumber
  <2>4. PICK M \in Stars(n) : d = n - M
    BY <2>3
  <2>5. ASSUME NEW k \in Stars(n) PROVE k <= M
    <3>1. n - M <= n - k
      BY <2>3, <2>4
    <3> QED
      BY <1>0, <2>1, <3>1
  <2> QED
    BY <2>5
<1>3. LastStar(pattern, i) \in Stars(i)
  <2>1. PICK M \in Stars(i) : \A k \in Stars(i) : k <= M
    BY <1>2
  <2>2. i \in Nat
    BY <1>0
  <2> HIDE DEF Stars
  <2> QED
    BY <1>1, <2>1, <2>2
<1>4. LastStar(pattern, 1) = 0
  BY <1>0, <1>1 DEF PlacesOf
<1>5. ASSUME i > 1, pattern[i - 1] = "*" PROVE LastStar(pattern, i) = i - 1
  <2>1. i - 1 \in Stars(i) /\ \A k \in Stars(i) : k <= i - 1
    BY <1>0, <1>5 DEF PlacesOf
  <2> QED
    BY <1>1, <2>1
<1>6. ASSUME i > 1, pattern[i - 1] # "*" PROVE LastStar(pattern, i) = LastStar(pattern, i - 1)
  <2>1. Stars(i) = Stars(i - 1)
    BY <1>0, <1>6 DEF PlacesOf
  <2> QED
    BY <2>1 DEF LastStar
<1> QED
  BY <1>3, <1>4, <1>5, <1>6

\* The pieces the stars of GlobMatches stand for make such a choice, and back.
LEMMA GlobIsStands ==
  ASSUME NEW Char, NEW pattern \in Seq(Char), NEW s \in Seq(Char)
  PROVE  GlobMatches(pattern, s) <=> Stands(pattern, s, 1, 1)
<1> DEFINE P == Len(pattern) + 1
           U == Len(s) + 1
           Stars == {0} \cup PlacesOf(pattern, "*")
           L(i) == LastStar(pattern, i)
<1>0. /\ Len(pattern) \in Nat /\ Len(s) \in Nat /\ DOMAIN pattern = 1..P - 1 /\ P - 1 = Len(pattern)
      /\ 1 \in 1..P /\ P \in 1..P /\ 1 \in 1..U /\ U \in 1..U
  BY LenProperties
<1>1. PlacesOf(pattern, "*") = {k \in 1..P - 1 : pattern[k] = "*"}
  BY <1>0 DEF PlacesOf
<1>2. \A i \in 1..P : L(i) \in Stars /\ L(i) \in 0..i - 1
  BY <1>0, <1>1, LastStarMoves
<1>3. L(1) = 0
  BY <1>0, LastStarMoves
<1>4. \A k \in 1..P - 1 : /\ pattern[k] = "*" => L(k + 1) = k
                          /\ pattern[k] # "*" => L(k + 1) = L(k)
  <2> SUFFICES ASSUME NEW k \in 1..P - 1
               PROVE  /\ pattern[k] = "*" => L(k + 1) = k
                      /\ pattern[k] # "*" => L(k + 1) = L(k)
    OBVIOUS
  <2>1. k + 1 \in 1..P /\ k + 1 > 1 /\ (k + 1) - 1 = k
    BY <1>0
  <2> QED
    BY <2>1, LastStarMoves
<1> HIDE DEF L
<1>5. \A after, i : Place(pattern, after, i) = after[L(i)] + (i - L(i) - 1)
  BY DEF Place, L
<1> HIDE DEF P, U
<1>6. ASSUME GlobMatches(pattern, s) PROVE Stands(pattern, s, 1, 1)
  <2>1. PICK after \in [Stars -> 1..U] :
          /\ after[0] = 1
          /\ \A i \in 1..P - 1 :
               IF pattern[i] = "*" THEN Place(pattern, after, i) <= after[i]
               ELSE Place(pattern, after, i) <= Len(s) /\ s[Place(pattern, after, i)] = pattern[i]
          /\ Place(pattern, after, P) = U
    BY <1>0, <1>6 DEF GlobMatches, P, U
  <2> DEFINE c == [i \in 1..P |-> Place(pattern, after, i)]
  <2>2. \A i \in 1..P : Place(pattern, after, i) \in Nat \ {0}
    <3> SUFFICES ASSUME NEW i \in 1..P PROVE Place(pattern, after, i) \in Nat \ {0}
      OBVIOUS
    <3>1. L(i) \in 0..i - 1 /\ after[L(i)] \in 1..U
      BY <1>2, <2>1
    <3>2. \A a \in 1..U, l \in 0..i - 1 : a + (i - l - 1) \in Nat \ {0}
      BY <1>0
    <3> QED
      BY <1>5, <3>1, <3>2
  <2>3. \A i \in 1..P - 1 : Place(pattern, after, i) <= U
    <3> SUFFICES ASSUME NEW i \in 1..P - 1 PROVE Place(pattern, after, i) <= U
      OBVIOUS
    <3>1. pattern[i] = "*" => after[i] \in 1..U
      BY <1>1, <2>1
    <3>2. Place(pattern, after, i) \in Nat /\ U \in Nat /\ Len(s) <= U
      BY <1>0, <2>2 DEF U
    <3> QED
      BY <2>1, <3>1, <3>2
  <2>4. c \in [1..P -> 1..U]
    <3> SUFFICES ASSUME NEW i \in 1..P PROVE Place(pattern, after, i) \in 1..U
      OBVIOUS
    <3>1. i = P \/ i \in 1..P - 1
      BY <1>0
    <3> QED
      BY <1>0, <2>1, <2>2, <2>3, <3>1
  <2>5. c[1] = 1 /\ c[P] = U
    BY <1>0, <1>3, <1>5, <2>1
  <2>6. ASSUME NEW k \in 1..P - 1 PROVE StandsFor(pattern, s, k, c[k], c[k + 1])
    <3>1. k \in 1..P /\ k + 1 \in 1..P /\ c[k] \in 1..U
      BY <1>0, <2>4 DEF P
    <3>2. c[k] = Place(pattern, after, k) /\ c[k + 1] = Place(pattern, after, k + 1)
      BY <3>1
    <3>3. CASE pattern[k] = "*"
      <4>1. k \in Stars /\ after[k] \in 1..U /\ L(k + 1) = k
        BY <1>1, <1>4, <2>1, <3>3
      <4>2. c[k + 1] = after[k]
        BY <1>0, <1>5, <3>2, <4>1
      <4> QED
        BY <2>1, <3>2, <3>3, <4>2 DEF StandsFor
    <3>4. CASE pattern[k] # "*"
      <4>1. L(k + 1) = L(k) /\ after[L(k)] \in 1..U /\ L(k) \in 0..k - 1
        BY <1>2, <1>4, <2>1, <3>1, <3>4
      <4>2. c[k + 1] = c[k] + 1
        BY <1>5, <3>2, <4>1, <1>0
      <4>3. c[k] <= Len(s) /\ s[c[k]] = pattern[k]
        BY <2>1, <3>2, <3>4
      <4>4. c[k] < Len(s) + 1
        BY <1>0, <3>1, <4>3
      <4> QED
        BY <3>4, <4>2, <4>3, <4>4 DEF StandsFor
    <3> QED
      BY <3>3, <3>4
  <2> HIDE DEF c
  <2> QED
    BY <1>0, <2>4, <2>5, <2>6 DEF Stands, P, U
<1>7. ASSUME Stands(pattern, s, 1, 1) PROVE GlobMatches(pattern, s)
  <2>1. PICK c \in [1..P -> 1..U] :
          /\ c[1] = 1 /\ c[P] = U
          /\ \A k \in 1..P - 1 : StandsFor(pattern, s, k, c[k], c[k + 1])
    BY <1>0, <1>7 DEF Stands, P, U
  <2> DEFINE after == [k \in Stars |-> IF k = 0 THEN 1 ELSE c[k + 1]]
  <2>2. after \in [Stars -> 1..U] /\ after[0] = 1
    BY <1>0, <1>1, <2>1 DEF P
  <2>3. \A k \in 1..P - 1 : pattern[k] = "*" => after[k] = c[k + 1]
    BY <1>1
  <2> HIDE DEF after
  <2>4. \A i \in 1..P : Place(pattern, after, i) = c[i]
    <3> DEFINE Bad == {i \in 1..P : Place(pattern, after, i) # c[i]}
    <3> SUFFICES ASSUME Bad # {} PROVE FALSE
      OBVIOUS
    <3>1. Bad \in SUBSET Nat
      BY <1>0
    <3>2. PICK i \in Bad : \A n \in Bad : i <= n
      BY <3>1, LeastNumber
    <3>3. i # 1
      BY <1>0, <1>3, <1>5, <2>1, <2>2
    <3>4. PICK k \in 1..P - 1 : i = k + 1
      <4>1. i \in 1..P /\ i # 1
        BY <3>2, <3>3
      <4>2. i - 1 \in 1..P - 1 /\ i = (i - 1) + 1
        BY <1>0, <4>1
      <4> QED
        BY <4>2
    <3>5. k \in 1..P /\ k + 1 \in 1..P /\ c[k] \in 1..U
      <4>1. k + 1 \in 1..P
        BY <3>2, <3>4
      <4>2. k \in 1..P
        BY <1>0, <4>1
      <4> QED
        BY <2>1, <4>1, <4>2
    <3>6. Place(pattern, after, k) = c[k]
      BY <3>2, <3>4, <3>5
    <3>7. CASE pattern[k] = "*"
      <4>1. L(k + 1) = k /\ after[k] = c[k + 1] /\ c[k + 1] \in 1..U
        BY <1>4, <2>1, <2>3, <3>5, <3>7
      <4>2. \A a \in 1..U, n \in 1..P : a + ((n + 1) - n - 1) = a
        BY <1>0
      <4>3. Place(pattern, after, k + 1) = c[k + 1]
        BY <1>5, <3>5, <4>1, <4>2
      <4> QED
        BY <3>2, <3>4, <4>3
    <3>8. CASE pattern[k] # "*"
      <4>1. L(k + 1) = L(k) /\ after[L(k)] \in 1..U /\ L(k) \in 0..k - 1
        BY <1>2, <1>4, <2>2, <3>5, <3>8
      <4>2. c[k + 1] = c[k] + 1
        BY <2>1, <3>8 DEF StandsFor
      <4> QED
        <5>1. \A a \in 1..U, n \in 1..P, l \in 0..P : a + ((n + 1) - l - 1) = (a + (n - l - 1)) + 1
          BY <1>0
        <5>2. L(k) \in 0..P
          BY <1>0, <3>5, <4>1
        <5>3. Place(pattern, after, k + 1) = Place(pattern, after, k) + 1
          BY <1>5, <3>5, <4>1, <5>1, <5>2
        <5> QED
          BY <3>2, <3>4, <3>6, <4>2, <5>3
    <3> QED
      BY <3>7, <3>8
  <2>5. ASSUME NEW i \in 1..P - 1
        PROVE  IF pattern[i] = "*" THEN Place(pattern, after, i) <= after[i]
               ELSE Place(pattern, after, i) <= Len(s) /\ s[Place(pattern, after, i)] = pattern[i]
    <3>1. i \in 1..P /\ c[i] \in 1..U
      BY <1>0, <2>1 DEF P
    <3>2. c[i] < Len(s) + 1 => c[i] <= Len(s)
      BY <1>0, <3>1 DEF U
    <3> QED
      BY <2>1, <2>3, <2>4, <3>1, <3>2 DEF StandsFor
  <2> QED
    BY <1>0, <2>1, <2>2, <2>4, <2>5 DEF GlobMatches, P, U
<1> QED
  BY <1>6, <1>7

\* The backtracking of VmRESTMatchEndPointURI finds a match exactly when there
\* is one, for every endpoint without adjacent stars and every URI without
\* stars, of any length over any characters.
THEOREM MatchingIsGlob ==
  ASSUME NEW Char, endpoint \in Seq(Char), uri \in Seq(Char), \A k \in DOMAIN uri : uri[k] # "*"
  PROVE  MatchIsGlob
BY MatchIsStands, GlobIsStands DEF MatchIsGlob

-----------------------------------------------------------------------------
(* strchr, and the two ways of a text: encoded by a client, decoded here.  *)

\* strchr(s + from, c) is the first c at or behind from, or there is none.
LEMMA FirstFromFinds ==
  ASSUME NEW Char, NEW s \in Seq(Char), NEW from \in Nat, NEW c
  PROVE  \/ /\ FirstFrom(s, from, c) = 0
            /\ \A i \in 1..Len(s) : i >= from => s[i] # c
         \/ /\ FirstFrom(s, from, c) \in 1..Len(s) /\ FirstFrom(s, from, c) >= from
            /\ s[FirstFrom(s, from, c)] = c
            /\ \A i \in 1..Len(s) : i >= from /\ s[i] = c => FirstFrom(s, from, c) <= i
<1> DEFINE later == {i \in PlacesOf(s, c) : i >= from}
<1>0. DOMAIN s = 1..Len(s) /\ Len(s) \in Nat
  BY LenProperties
<1>1. later = {i \in 1..Len(s) : s[i] = c /\ i >= from}
  BY <1>0 DEF PlacesOf
<1>2. CASE later = {}
  BY <1>1, <1>2 DEF FirstFrom
<1>3. CASE later # {}
  <2>1. later \in SUBSET Nat
    BY <1>0, <1>1
  <2>2. PICK m \in later : \A n \in later : m <= n
    BY <1>3, <2>1, LeastNumber
  <2>3. \A x \in later : (\A y \in later : x <= y) => x = m
    BY <2>1, <2>2
  <2>4. Min(later) = m
    BY <2>2, <2>3 DEF Min
  <2>5. FirstFrom(s, from, c) = m
    BY <1>3, <2>4 DEF FirstFrom
  <2> QED
    BY <1>1, <2>2, <2>5
<1> QED
  BY <1>2, <1>3

\* A character is found where it stands for the first time.
LEMMA FirstFromIs ==
  ASSUME NEW Char, NEW s \in Seq(Char), NEW from \in Nat, NEW c, NEW p \in 1..Len(s),
         p >= from, s[p] = c, \A i \in 1..Len(s) : i >= from /\ i < p => s[i] # c
  PROVE  FirstFrom(s, from, c) = p
<1>1. Len(s) \in Nat
  BY LenProperties
<1>2. FirstFrom(s, from, c) \in 1..Len(s) /\ FirstFrom(s, from, c) >= from
      /\ s[FirstFrom(s, from, c)] = c /\ FirstFrom(s, from, c) <= p
  BY FirstFromFinds
<1> QED
  BY <1>1, <1>2

\* strchr returns NULL when the character is not there.
LEMMA FirstFromNone ==
  ASSUME NEW Char, NEW s \in Seq(Char), NEW from \in Nat, NEW c,
         \A i \in 1..Len(s) : i >= from => s[i] # c
  PROVE  FirstFrom(s, from, c) = 0
BY FirstFromFinds

\* A NULL from strchr means that the character is nowhere.
LEMMA FirstFromNothing ==
  ASSUME NEW Char, NEW s \in Seq(Char), NEW c, FirstFrom(s, 1, c) = 0
  PROVE  \A i \in 1..Len(s) : s[i] # c
<1>1. FirstFrom(s, 1, c) \notin 1..Len(s)
  OBVIOUS
<1> QED
  BY <1>1, FirstFromFinds

Escapes == {"%3F", "%26", "%3D", "%2B"}
Delimiters == {"?", "&", "=", " "}

\* Decoding undoes a client's encoding, which leaves no delimiters.
LEMMA EncodingIsUndone ==
  ASSUME NEW Char, Char \cap Escapes = {}, NEW text \in Seq(Char)
  PROVE  /\ Encoded(text) \in Seq(Char \cup Escapes \cup {"+"})
         /\ Len(Encoded(text)) = Len(text)
         /\ \A i \in 1..Len(text) : Encoded(text)[i] \notin Delimiters
         /\ DecodeEncodedURLString(Encoded(text)) = text
<1> DEFINE e == Encoded(text)
<1>0. Len(text) \in Nat /\ DOMAIN text = 1..Len(text) /\ text \in [1..Len(text) -> Char]
  BY LenProperties
<1>1. /\ DOMAIN DecodedCharacter = Escapes \cup {"+"}
      /\ DecodedCharacter["%3F"] = "?" /\ DecodedCharacter["%26"] = "&" /\ DecodedCharacter["%3D"] = "="
      /\ DecodedCharacter["%2B"] = "+" /\ DecodedCharacter["+"] = " "
  BY DEF DecodedCharacter, Escapes
<1>2. ASSUME NEW i \in 1..Len(text)
      PROVE  /\ e[i] \in Char \cup Escapes \cup {"+"} /\ e[i] \notin Delimiters
             /\ (IF e[i] \in DOMAIN DecodedCharacter THEN DecodedCharacter[e[i]] ELSE e[i]) = text[i]
  <2>1. text[i] \in Char /\ text[i] \notin Escapes
    BY <1>0
  <2>2. e[i] = CASE text[i] = "?" -> "%3F" [] text[i] = "&" -> "%26" [] text[i] = "=" -> "%3D"
                 [] text[i] = "+" -> "%2B" [] text[i] = " " -> "+" [] OTHER -> text[i]
    BY <1>0 DEF Encoded
  <2>3. CASE text[i] \in {"?", "&", "=", "+", " "}
    BY <1>1, <2>2, <2>3 DEF Escapes, Delimiters
  <2>4. CASE text[i] \notin {"?", "&", "=", "+", " "}
    BY <1>1, <2>1, <2>2, <2>4 DEF Escapes, Delimiters
  <2> QED
    BY <2>3, <2>4
<1>3. DOMAIN e = 1..Len(text)
  BY <1>0 DEF Encoded
<1>4. e = [i \in 1..Len(text) |-> e[i]]
  BY <1>0 DEF Encoded
<1> HIDE DEF e
<1>5. e \in Seq(Char \cup Escapes \cup {"+"})
  <2>1. [i \in 1..Len(text) |-> e[i]] \in Seq(Char \cup Escapes \cup {"+"})
    BY <1>0, <1>2, IsASeq
  <2> QED
    BY <1>4, <2>1
<1>6. Len(e) = Len(text)
  BY <1>0, <1>3, <1>5, LenProperties
<1>7. DecodeEncodedURLString(e) = text
  <2>1. DecodeEncodedURLString(e) = [i \in 1..Len(text) |-> text[i]]
    BY <1>2, <1>3 DEF DecodeEncodedURLString
  <2> QED
    BY <1>0, <2>1
<1> QED
  BY <1>2, <1>5, <1>6, <1>7 DEF e

\* Decoding works on each character alone.
LEMMA DecodingIsLocal ==
  ASSUME NEW Char, NEW s \in Seq(Char), NEW t \in Seq(Char),
         \A i \in 1..Len(s) : s[i] = t[i], Len(s) <= Len(t)
  PROVE  \A i \in 1..Len(s) : DecodeEncodedURLString(s)[i] = DecodeEncodedURLString(t)[i]
<1>1. Len(s) \in Nat /\ Len(t) \in Nat /\ DOMAIN s = 1..Len(s) /\ DOMAIN t = 1..Len(t)
  BY LenProperties
<1> QED
  BY <1>1 DEF DecodeEncodedURLString

\* Decoding keeps the length and the question marks.
LEMMA DecodedIsText ==
  ASSUME NEW Char, NEW s \in Seq(Char)
  PROVE  /\ DecodeEncodedURLString(s) \in Seq(Char \cup Delimiters \cup {"+"})
         /\ Len(DecodeEncodedURLString(s)) = Len(s)
         /\ \A i \in 1..Len(s) : s[i] = "?" => DecodeEncodedURLString(s)[i] = "?"
<1> DEFINE d == DecodeEncodedURLString(s)
           T == Char \cup Delimiters \cup {"+"}
<1>0. Len(s) \in Nat /\ DOMAIN s = 1..Len(s) /\ s \in [1..Len(s) -> Char]
  BY LenProperties
<1>1. \A c \in DOMAIN DecodedCharacter : DecodedCharacter[c] \in Delimiters \cup {"+"} /\ c # "?"
  BY DEF DecodedCharacter, Delimiters
<1>2. DOMAIN d = 1..Len(s) /\ d = [i \in 1..Len(s) |-> d[i]]
  BY <1>0 DEF DecodeEncodedURLString
<1>3. \A i \in 1..Len(s) : d[i] \in T /\ (s[i] = "?" => d[i] = "?")
  BY <1>0, <1>1 DEF DecodeEncodedURLString
<1> HIDE DEF d, T
<1>4. ASSUME NEW i \in 1..Len(s) PROVE d[i] \in T
  BY <1>3
<1>5. d \in Seq(T)
  <2>1. [i \in 1..Len(s) |-> d[i]] \in Seq(T)
    BY <1>0, <1>4, IsASeq
  <2> QED
    BY <1>2, <2>1
<1>6. Len(d) = Len(s)
  <2>1. 1..Len(d) = 1..Len(s) /\ Len(d) \in Nat
    BY <1>2, <1>5, LenProperties
  <2>2. \A a \in Nat, b \in Nat : 1..a = 1..b => a = b
    OBVIOUS
  <2> QED
    BY <1>0, <2>1, <2>2
<1> QED
  BY <1>3, <1>5, <1>6 DEF d, T

\* What ends a path, and what it may not hold.
Stops == {"?", " "}

\* What comes before the first '?' of a decoded URI is the path a client
\* encoded in front of it, whatever the query is.
LEMMA PathSurvives ==
  ASSUME NEW Char, Char \cap Escapes = {}, NEW path \in Seq(Char), NEW query \in Seq(Char),
         \A i \in 1..Len(path) : path[i] \notin Stops
  PROVE  GetEndPointURIfromRequestURI(DecodeEncodedURLString(Encoded(path) \o <<"?">> \o query))
           = {path}
<1> DEFINE e == Encoded(path)
           sent == e \o <<"?">> \o query
           d == DecodeEncodedURLString(sent)
           All == Char \cup Escapes \cup {"+", "?"}
           Text == All \cup Delimiters \cup {"+"}
           n == Len(path)
<1>0. n \in Nat /\ Len(query) \in Nat /\ DOMAIN path = 1..n /\ path \in [1..n -> Char]
  BY LenProperties
<1>1. e \in Seq(All) /\ Len(e) = n /\ DecodeEncodedURLString(e) = path
  <2>1. e \in Seq(Char \cup Escapes \cup {"+"}) /\ Len(e) = n /\ DecodeEncodedURLString(e) = path
    BY EncodingIsUndone
  <2>2. Char \cup Escapes \cup {"+"} \subseteq All
    OBVIOUS
  <2> HIDE DEF e, All
  <2> QED
    BY <2>1, <2>2
<1>2. query \in Seq(All) /\ <<"?">> \in Seq(All)
  OBVIOUS
<1> HIDE DEF e, All
<1>3. /\ sent \in Seq(All) /\ Len(sent) = n + 1 + Len(query)
      /\ \A i \in 1..n : sent[i] = e[i]
      /\ sent[n + 1] = "?"
  BY <1>0, <1>1, <1>2
<1> HIDE DEF sent
<1>4. /\ d \in Seq(Text) /\ Len(d) = n + 1 + Len(query)
      /\ d[n + 1] = "?"
  <2>1. /\ d \in Seq(Text) /\ Len(d) = Len(sent)
        /\ \A i \in 1..Len(sent) : sent[i] = "?" => d[i] = "?"
    BY <1>3, DecodedIsText
  <2>2. n + 1 \in 1..Len(sent)
    BY <1>0, <1>3
  <2> QED
    BY <1>3, <2>1, <2>2
<1>5. \A i \in 1..n : d[i] = path[i] /\ path[i] # "?"
  <2>1. \A i \in 1..Len(e) : e[i] = sent[i] /\ Len(e) <= Len(sent)
    BY <1>0, <1>1, <1>3
  <2>2. \A i \in 1..Len(e) : DecodeEncodedURLString(e)[i] = d[i]
    <3>1. Len(e) <= Len(sent)
      BY <1>0, <1>1, <1>3
    <3> QED
      BY <1>1, <1>3, <2>1, <3>1, DecodingIsLocal
  <2>3. "?" \in Stops
    BY DEF Stops
  <2> QED
    BY <1>1, <2>2, <2>3
<1> HIDE DEF d, Text
<1>7. FirstFrom(d, 1, "?") = n + 1
  <2>1. \A i \in 1..Len(d) : i >= 1 /\ i < n + 1 => d[i] # "?"
    BY <1>0, <1>4, <1>5
  <2>2. n + 1 \in 1..Len(d) /\ n + 1 >= 1 /\ 1 \in Nat
    BY <1>0, <1>4
  <2> QED
    BY <1>4, <2>1, <2>2, FirstFromIs
<1>8. SubSeq(d, 1, n) = path
  <2>1. SubSeq(d, 1, n) = [i \in 1..n |-> d[i]]
    BY <1>0, <1>4
  <2> QED
    BY <1>0, <1>5, <2>1
<1>9. d # <<>> /\ (n + 1) - 1 = n /\ n + 1 # 0
  BY <1>0, <1>4
<1>6. FirstFrom(path, 1, " ") = 0
  <2>1. \A i \in 1..Len(path) : path[i] # " "
    BY Zenon DEF Stops
  <2> QED
    BY <2>1, FirstFromNone, Zenon
<1>10. GetEndPointURIfromRequestURI(d) = {path}
  BY <1>6, <1>7, <1>8, <1>9, Zenon DEF GetEndPointURIfromRequestURI
<1> QED
  BY <1>10 DEF d, sent, e

\* The path of a request survives its query: for texts of any length, over any
\* characters that are not escapes themselves.
THEOREM PathIsKept ==
  ASSUME NEW Char, Char \cap Escapes = {}, uri \in Seq(Char)
  PROVE  QueryDoesNotReachPath
<1>1. Len(uri) \in Nat
  BY LenProperties
<1>2. \A i \in 1..Len(uri) : SubSeq(uri, 1, i) \in Seq(Char) /\ SubSeq(uri, i + 1, Len(uri)) \in Seq(Char)
  <2> SUFFICES ASSUME NEW i \in 1..Len(uri)
               PROVE  SubSeq(uri, 1, i) \in Seq(Char) /\ SubSeq(uri, i + 1, Len(uri)) \in Seq(Char)
    OBVIOUS
  <2>1. /\ SubSeq(uri, 1, i) = [k \in 1..i |-> uri[k]]
        /\ \A k \in 1..i : uri[k] \in Char
    BY <1>1
  <2>2. SubSeq(uri, i + 1, Len(uri)) = [k \in 1..Len(uri) - i |-> uri[k + i]]
    BY <1>1
  <2> QED
    BY <1>1, SubSeqProperties
<1>3. \A path \in Seq(Char) : FirstFrom(path, 1, "?") = 0 /\ FirstFrom(path, 1, " ") = 0
                              => \A i \in 1..Len(path) : path[i] \notin Stops
  <2> SUFFICES ASSUME NEW path \in Seq(Char), FirstFrom(path, 1, "?") = 0, FirstFrom(path, 1, " ") = 0
               PROVE  \A i \in 1..Len(path) : path[i] # "?" /\ path[i] # " "
    BY Zenon DEF Stops
  <2>1. \A c : FirstFrom(path, 1, c) = 0 => \A i \in 1..Len(path) : path[i] # c
    BY FirstFromNothing, Zenon
  <2> QED
    BY <2>1, Zenon
<1> QED
  BY <1>2, <1>3, PathSurvives, Zenon DEF QueryDoesNotReachPath


-----------------------------------------------------------------------------
(* The pair of a query.                                                    *)

\* The recursion of VmRestParseParams, for a table pairs.
AreRows(s, count, pairs) ==
  pairs = [n \in 0..count |-> IF n = 0 THEN [key \in 0..Len(s) |-> {<<>>}]
                              ELSE PairsBehind(s, pairs[n - 1])]

\* VmRestParseParams returns an entry of such a table.
LEMMA ParamsAreRows ==
  ASSUME NEW s, NEW count, ~(count > MaxParams)
  PROVE  ParseParams(s, count) = (CHOOSE pairs : AreRows(s, count, pairs))[count][QueryMark(s)]
BY Zenon DEF ParseParams, AreRows

\* The only parameter is what one turn of the loop finds.
LEMMA ParamOfOne ==
  ASSUME NEW s, ~(1 > MaxParams)
  PROVE  ParseParams(s, 1) = PairsBehind(s, [key \in 0..Len(s) |-> {<<>>}])[QueryMark(s)]
<1> DEFINE none == [key \in 0..Len(s) |-> {<<>>}]
           f == [n \in 0..1 |-> IF n = 0 THEN none ELSE PairsBehind(s, none)]
           pairs == CHOOSE g : AreRows(s, 1, g)
<1>1. f[0] = none /\ \A n \in 0..1 : n # 0 => n - 1 = 0
  OBVIOUS
<1>2. AreRows(s, 1, f)
  <2> HIDE DEF none
  <2>1. \A n \in 0..1 : n # 0 => f[n - 1] = none
    BY <1>1, Zenon
  <2>2. f = [n \in 0..1 |-> IF n = 0 THEN none ELSE PairsBehind(s, f[n - 1])]
    BY <2>1
  <2> QED
    BY <2>2, Zenon DEF AreRows, none
<1>3. AreRows(s, 1, pairs)
  BY <1>2, Zenon
<1> HIDE DEF pairs
<1>4. pairs[0] = none /\ pairs[1] = PairsBehind(s, pairs[0])
  <2>1. 0 \in 0..1 /\ 1 \in 0..1 /\ 1 # 0 /\ 1 - 1 = 0
    OBVIOUS
  <2>2. \A n \in 0..1 : pairs[n] = IF n = 0 THEN none ELSE PairsBehind(s, pairs[n - 1])
    BY <1>3, Zenon DEF AreRows
  <2> QED
    BY <2>1, <2>2, Zenon
<1>5. ParseParams(s, 1) = pairs[1][QueryMark(s)]
  BY ParamsAreRows, Zenon DEF pairs
<1> QED
  BY <1>4, <1>5, Zenon

\* With one '=' and no '&' the two counts agree.
LEMMA EnoughDelimiters ==
  \A eqCnt, ampCnt : eqCnt = 1 /\ ampCnt = 0 => ~(eqCnt > 0 /\ ampCnt # eqCnt - 1)
OBVIOUS

\* A URI with one '=' has one parameter.
LEMMA CountIsOne ==
  ASSUME NEW s, s # <<>>, FirstFrom(s, 1, " ") = 0, Occurrences(s, "=") = 1, Occurrences(s, "&") = 0
  PROVE  GetParamsCountInReqURI(s) = {1}
BY EnoughDelimiters, Zenon DEF GetParamsCountInReqURI

\* The delimiters of a URI that a client sends with one pair.
LEMMA DelimitersOfPair ==
  ASSUME NEW All, NEW s \in Seq(All), NEW k \in Nat, k >= 3, k <= Len(s),
         s[1] = "/", s[2] = "?", s[k] = "=",
         \A i \in 1..Len(s) : i # 1 /\ i # 2 /\ i # k => s[i] \notin Delimiters
  PROVE  /\ GetParamsCountInReqURI(s) = {1}
         /\ QueryMark(s) = 2 /\ FirstFrom(s, 2, "=") = k /\ FirstFrom(s, k, "&") = 0
<1>0. Len(s) \in Nat /\ DOMAIN s = 1..Len(s)
  BY LenProperties
<1>1. /\ "?" \in Delimiters /\ "=" \in Delimiters /\ "&" \in Delimiters /\ " " \in Delimiters
      /\ "/" \notin Delimiters /\ " " # "?" /\ " " # "="
  BY DEF Delimiters
<1>2. ASSUME NEW c \in Delimiters, c # "?", c # "=" PROVE \A i \in 1..Len(s) : s[i] # c
  <2>1. "/" # c
    BY <1>1, Zenon
  <2> QED
    BY <2>1, <1>2
<1>3. s # <<>>
  BY <1>0
<1>4. \A c \in Delimiters : c # "?" /\ c # "=" => FirstFrom(s, 1, c) = 0 /\ FirstFrom(s, k, c) = 0
  BY <1>2, FirstFromNone
<1>5. FirstFrom(s, 1, " ") = 0
  BY <1>1, <1>4, Zenon
<1>6. FirstFrom(s, k, "&") = 0
  <2>1. "&" # "?" /\ "&" # "=" /\ "&" \in Delimiters
    BY DEF Delimiters
  <2> QED
    BY <1>4, <2>1, Zenon
<1>7. \A i \in 1..Len(s) : s[i] = "=" <=> i = k
  <2>1. "=" \in Delimiters
    BY Zenon DEF Delimiters
  <2> QED
    BY <1>0, <2>1
<1>8. Occurrences(s, "=") = 1
  <2>1. PlacesOf(s, "=") = {k}
    BY <1>0, <1>7 DEF PlacesOf
  <2> QED
    BY <2>1, FS_Singleton, Zenon DEF Occurrences
<1>9. Occurrences(s, "&") = 0
  <2>1. "&" # "?" /\ "&" # "=" /\ "&" \in Delimiters
    BY DEF Delimiters
  <2>2. \A i \in 1..Len(s) : s[i] # "&"
    BY <1>2, <2>1, Zenon
  <2>3. PlacesOf(s, "&") = {}
    BY <1>0, <2>2 DEF PlacesOf
  <2> QED
    BY <2>3, FS_EmptySet, Zenon DEF Occurrences
<1>10. FirstFrom(s, 2, "=") = k
  BY <1>0, <1>7, FirstFromIs
<1>11. QueryMark(s) = 2
  <2>1. 2 \in 1..Len(s) /\ \A i \in 1..Len(s) : i < 2 => s[i] # "?"
    BY <1>0
  <2>2. FirstFrom(s, 1, "?") = 2
    BY <2>1, FirstFromIs
  <2> QED
    BY <2>2 DEF QueryMark
<1>12. GetParamsCountInReqURI(s) = {1}
  BY <1>3, <1>5, <1>8, <1>9, CountIsOne, Zenon
<1> QED
  BY <1>6, <1>10, <1>11, <1>12, Zenon

\* What a client sends for one pair.
LEMMA SentPair ==
  ASSUME NEW All, NEW k \in Seq(All), NEW v \in Seq(All),
         "/" \in All, "?" \in All, "=" \in All,
         NEW s, s = <<"/", "?">> \o k \o <<"=">> \o v
  PROVE  /\ s \in Seq(All) /\ Len(s) = Len(k) + 3 + Len(v)
         /\ s[1] = "/" /\ s[2] = "?" /\ s[Len(k) + 3] = "="
         /\ \A i \in 1..Len(k) : s[i + 2] = k[i]
         /\ \A i \in 1..Len(v) : s[i + (Len(k) + 3)] = v[i]
<1>0. Len(k) \in Nat /\ Len(v) \in Nat
  BY LenProperties
<1>1. <<"/", "?">> \in Seq(All) /\ <<"=">> \in Seq(All)
  OBVIOUS
<1> DEFINE a == <<"/", "?">> \o k
           b == a \o <<"=">>
<1>2. /\ a \in Seq(All) /\ Len(a) = Len(k) + 2 /\ a[1] = "/" /\ a[2] = "?"
      /\ \A i \in 1..Len(k) : a[i + 2] = k[i]
  BY <1>0, <1>1
<1> HIDE DEF a
<1>3. /\ b \in Seq(All) /\ Len(b) = Len(k) + 3 /\ b[1] = "/" /\ b[2] = "?" /\ b[Len(k) + 3] = "="
      /\ \A i \in 1..Len(k) : b[i + 2] = k[i]
  BY <1>0, <1>1, <1>2
<1>4. s = b \o v
  BY DEF a
<1> HIDE DEF b
<1>5. s \in Seq(All) /\ Len(s) = Len(k) + 3 + Len(v)
  BY <1>0, <1>3, <1>4
<1>6. \A i \in 1..Len(k) + 3 : s[i] = b[i]
  BY <1>0, <1>3, <1>4
<1>7. \A i \in 1..Len(v) : s[i + (Len(k) + 3)] = v[i]
  BY <1>0, <1>3, <1>4
<1>8. 1 \in 1..Len(k) + 3 /\ 2 \in 1..Len(k) + 3 /\ Len(k) + 3 \in 1..Len(k) + 3
      /\ \A i \in 1..Len(k) : i + 2 \in 1..Len(k) + 3
  BY <1>0
<1> QED
  BY <1>3, <1>5, <1>6, <1>7, <1>8

\* A pair that a client encodes comes back as it was.
LEMMA PairSurvives ==
  ASSUME NEW Char, Char \cap Escapes = {}, NEW key \in Seq(Char), NEW value \in Seq(Char),
         key # <<>>, Len(key) < MaxKeyLen, Len(value) < MaxKeyLen, MaxParams >= 1
  PROVE  \E params \in RequestParams(<<"/", "?">> \o Encoded(key) \o <<"=">> \o Encoded(value)) :
           GetParamsByIndex(params, 1) = {[key |-> key, value |-> value]}
<1> DEFINE All == Char \cup Escapes \cup {"+"} \cup {"/", "?", "="}
           k == Encoded(key)
           v == Encoded(value)
           s == <<"/", "?">> \o k \o <<"=">> \o v
           n == Len(key)
<1>0. n \in Nat /\ Len(value) \in Nat /\ n # 0
  BY LenProperties
<1>1. /\ k \in Seq(All) /\ Len(k) = n /\ DecodeEncodedURLString(k) = key
      /\ \A i \in 1..n : k[i] \notin Delimiters
  <2>1. /\ k \in Seq(Char \cup Escapes \cup {"+"}) /\ Len(k) = n
        /\ \A i \in 1..n : k[i] \notin Delimiters
        /\ DecodeEncodedURLString(k) = key
    BY EncodingIsUndone
  <2> HIDE DEF k
  <2>2. \A T : k \in Seq(T) => k \in Seq(T \cup {"/", "?", "="})
    OBVIOUS
  <2> QED
    BY <2>1, <2>2, Zenon
<1>2. /\ v \in Seq(All) /\ Len(v) = Len(value) /\ DecodeEncodedURLString(v) = value
      /\ \A i \in 1..Len(value) : v[i] \notin Delimiters
  <2>1. /\ v \in Seq(Char \cup Escapes \cup {"+"}) /\ Len(v) = Len(value)
        /\ \A i \in 1..Len(value) : v[i] \notin Delimiters
        /\ DecodeEncodedURLString(v) = value
    BY EncodingIsUndone
  <2> HIDE DEF v
  <2>2. \A T : v \in Seq(T) => v \in Seq(T \cup {"/", "?", "="})
    OBVIOUS
  <2> QED
    BY <2>1, <2>2, Zenon
<1>3. "/" \in All /\ "?" \in All /\ "=" \in All
  BY Zenon
<1> HIDE DEF k, v, All
<1>4. /\ s \in Seq(All) /\ Len(s) = n + 3 + Len(value)
      /\ s[1] = "/" /\ s[2] = "?" /\ s[n + 3] = "="
      /\ \A i \in 1..n : s[i + 2] = k[i]
      /\ \A i \in 1..Len(value) : s[i + (n + 3)] = v[i]
  <2>0. s = <<"/", "?">> \o k \o <<"=">> \o v
    OBVIOUS
  <2> HIDE DEF n, s
  <2>1. /\ s \in Seq(All) /\ Len(s) = Len(k) + 3 + Len(v)
        /\ s[1] = "/" /\ s[2] = "?" /\ s[Len(k) + 3] = "="
        /\ \A i \in 1..Len(k) : s[i + 2] = k[i]
        /\ \A i \in 1..Len(v) : s[i + (Len(k) + 3)] = v[i]
    <3>1. k \in Seq(All) /\ v \in Seq(All)
      BY <1>1, <1>2, Zenon
    <3> QED
      BY <1>3, <2>0, <3>1, SentPair
  <2> QED
    BY <1>1, <1>2, <2>1, Zenon
<1> HIDE DEF s
<1>5. \A i \in 1..Len(s) : i # 1 /\ i # 2 /\ i # n + 3 => s[i] \notin Delimiters
  <2> SUFFICES ASSUME NEW i \in 1..Len(s), i # 1, i # 2, i # n + 3 PROVE s[i] \notin Delimiters
    OBVIOUS
  <2>1. CASE i < n + 3
    <3>1. i - 2 \in 1..n /\ (i - 2) + 2 = i
      BY <1>0, <2>1
    <3> QED
      BY <1>1, <1>4, <3>1
  <2>2. CASE ~(i < n + 3)
    <3>1. i - (n + 3) \in 1..Len(value) /\ (i - (n + 3)) + (n + 3) = i
      BY <1>0, <1>4, <2>2
    <3> QED
      BY <1>2, <1>4, <3>1
  <2> QED
    BY <2>1, <2>2
<1>6. /\ GetParamsCountInReqURI(s) = {1}
      /\ QueryMark(s) = 2 /\ FirstFrom(s, 2, "=") = n + 3 /\ FirstFrom(s, n + 3, "&") = 0
  <2>1. n + 3 \in Nat /\ n + 3 >= 3 /\ n + 3 <= Len(s)
    BY <1>0, <1>4
  <2> HIDE DEF n
  <2> QED
    BY <1>4, <1>5, <2>1, DelimitersOfPair
<1>7. Between(s, 2, n + 3) = k
  <2>1. SubSeq(s, 3, n + 2) = [i \in 1..n |-> s[i + 2]]
    BY <1>0, <1>4
  <2>2. k = [i \in 1..n |-> k[i]]
    BY <1>1
  <2>3. SubSeq(s, 3, n + 2) = k
    BY <1>4, <2>1, <2>2
  <2>4. 2 + 1 = 3 /\ (n + 3) - 1 = n + 2 /\ n + 3 # 0
    BY <1>0
  <2> QED
    BY <2>3, <2>4 DEF Between
<1>8. Between(s, n + 3, 0) = v
  <2>1. SubSeq(s, (n + 3) + 1, Len(s)) = [i \in 1..Len(value) |-> s[i + (n + 3)]]
    BY <1>0, <1>4
  <2>2. v = [i \in 1..Len(value) |-> v[i]]
    BY <1>2
  <2> QED
    BY <1>4, <2>1, <2>2 DEF Between
<1> DEFINE none == [x \in 0..Len(s) |-> {<<>>}]
           pair == [key |-> k, value |-> v]
<1>9. PairsBehind(s, none)[2] = {<<pair>>}
  <2>1. 2 \in 0..Len(s) /\ 0 \in 0..Len(s) /\ 2 # 0 /\ n + 3 # 0
    BY <1>0, <1>4
  <2>2. none[0] = {<<>>}
    BY <2>1
  <2>3. Len(k) < MaxKeyLen /\ Len(v) < MaxKeyLen
    BY <1>1, <1>2
  <2> HIDE DEF none
  <2>4. pair.key = k /\ pair.value = v
    OBVIOUS
  <2>5. PairsBehind(s, none)[2] = {<<pair>> \o rest : rest \in none[0]}
    BY <1>6, <1>7, <1>8, <2>1, <2>3, <2>4, Zenon DEF PairsBehind
  <2> HIDE DEF pair
  <2>6. <<pair>> \o <<>> = <<pair>>
    OBVIOUS
  <2> QED
    BY <2>2, <2>5, <2>6
<1>10. RequestParams(s) = {<<pair>>}
  <2>1. ~(1 > MaxParams) /\ 1 # 0
    BY UriLimits
  <2>2. ParseParams(s, 1) = {<<pair>>}
    BY <1>6, <1>9, <2>1, ParamOfOne, Zenon
  <2>3. RequestParams(s) = UNION {IF x = 0 THEN {<<>>} ELSE ParseParams(s, x) : x \in {1}}
    BY <1>6, Zenon DEF RequestParams
  <2> HIDE DEF pair
  <2> QED
    BY <2>1, <2>2, <2>3
<1>11. GetParamsByIndex(<<pair>>, 1) = {[key |-> key, value |-> value]}
  <2>1. 1 \in DOMAIN <<pair>> /\ <<pair>>[1] = pair /\ pair.key = k /\ pair.value = v
    OBVIOUS
  <2>2. k # <<>>
    BY <1>0, <1>1
  <2> HIDE DEF pair
  <2> QED
    BY <1>1, <1>2, <2>1, <2>2, Zenon DEF GetParamsByIndex
<1>12. <<pair>> \in RequestParams(s)
  BY <1>10, Zenon
<1> HIDE DEF pair
<1>13. \E params \in RequestParams(s) : GetParamsByIndex(params, 1) = {[key |-> key, value |-> value]}
  BY <1>11, <1>12, Zenon
<1> QED
  BY <1>13 DEF s, k, v

\* A key and a value survive being sent: for texts of any length, over any
\* characters that are not escapes themselves.
THEOREM PairIsKept ==
  ASSUME NEW Char, Char \cap Escapes = {}, uri \in Seq(Char), MaxParams >= 1
  PROVE  EncodedPairSurvives
<1>1. Len(uri) \in Nat
  BY LenProperties
<1>2. \A i \in 1..Len(uri) : /\ SubSeq(uri, 1, i) \in Seq(Char) /\ SubSeq(uri, 1, i) # <<>>
                             /\ SubSeq(uri, i + 1, Len(uri)) \in Seq(Char)
  <2> SUFFICES ASSUME NEW i \in 1..Len(uri)
               PROVE  /\ SubSeq(uri, 1, i) \in Seq(Char) /\ SubSeq(uri, 1, i) # <<>>
                      /\ SubSeq(uri, i + 1, Len(uri)) \in Seq(Char)
    OBVIOUS
  <2>1. \A k \in 1..i : uri[k] \in Char
    BY <1>1
  <2>2. Len(SubSeq(uri, 1, i)) = i
    BY <1>1, <2>1, SubSeqProperties
  <2> QED
    BY <1>1, <2>1, <2>2, SubSeqProperties
<1> QED
  BY <1>2, PairSurvives, Zenon DEF EncodedPairSurvives

-----------------------------------------------------------------------------
(* Sets of numbers, counted from the smallest.                             *)

\* The elements of S before i, and its n-th element.
Below(S, i) == {j \in S : j < i}
Nth(S, n) == CHOOSE i \in S : Cardinality(Below(S, i)) = n - 1

\* The elements before i are finitely many.
LEMMA BelowIsFinite ==
  ASSUME NEW S, IsFiniteSet(S), NEW i
  PROVE  /\ IsFiniteSet(Below(S, i)) /\ Cardinality(Below(S, i)) \in Nat
         /\ Cardinality(Below(S, i)) <= Cardinality(S) /\ Cardinality(S) \in Nat
<1>1. Below(S, i) \in SUBSET S
  BY DEF Below
<1> QED
  BY <1>1, FS_Subset, FS_CardinalityType, Zenon

\* One more is before what follows i.
LEMMA OneMoreBelow ==
  ASSUME NEW S \in SUBSET Nat, IsFiniteSet(S), NEW i \in S, NEW k \in Nat, i < k,
         \A j \in S : i < j => ~(j < k)
  PROVE  Cardinality(Below(S, k)) = Cardinality(Below(S, i)) + 1
<1>1. Below(S, k) = Below(S, i) \cup {i}
  <2>1. \A j \in S : j \in Nat
    OBVIOUS
  <2>2. \A j \in S : j < k <=> j < i \/ j = i
    BY <2>1
  <2> QED
    BY <2>2 DEF Below
<1>2. IsFiniteSet(Below(S, i)) /\ i \notin Below(S, i)
  <2>1. i \notin Below(S, i)
    BY DEF Below
  <2> QED
    BY <2>1, BelowIsFinite, Zenon
<1> QED
  BY <1>1, <1>2, FS_AddElement, Zenon

\* Fewer are before i than before what is behind it.
LEMMA FewerBelow ==
  ASSUME NEW S \in SUBSET Nat, IsFiniteSet(S), NEW i \in S, NEW k \in Nat, i < k
  PROVE  Cardinality(Below(S, i)) < Cardinality(Below(S, k))
<1>1. Below(S, i) \cup {i} \in SUBSET Below(S, k)
  <2>1. \A j \in S : j \in Nat
    OBVIOUS
  <2>2. \A j \in S : j < i \/ j = i => j < k
    BY <2>1
  <2> QED
    BY <2>2 DEF Below
<1>2. IsFiniteSet(Below(S, i)) /\ i \notin Below(S, i) /\ Cardinality(Below(S, i)) \in Nat
      /\ IsFiniteSet(Below(S, k)) /\ Cardinality(Below(S, k)) \in Nat
  <2>1. i \notin Below(S, i)
    BY DEF Below
  <2> QED
    BY <2>1, BelowIsFinite, Zenon
<1>3. Cardinality(Below(S, i) \cup {i}) = Cardinality(Below(S, i)) + 1
  BY <1>2, FS_AddElement, Zenon
<1>4. Cardinality(Below(S, i) \cup {i}) <= Cardinality(Below(S, k))
  BY <1>1, <1>2, FS_Subset, Zenon
<1> QED
  BY <1>2, <1>3, <1>4

\* A set of n numbers has a first, a second, ..., an n-th one.
LEMMA NthExists ==
  ASSUME NEW S \in SUBSET Nat, IsFiniteSet(S), NEW n \in 1..Cardinality(S)
  PROVE  \E i \in S : Cardinality(Below(S, i)) = n - 1
<1> DEFINE Bad == {k \in 1..Cardinality(S) : ~\E i \in S : Cardinality(Below(S, i)) = k - 1}
<1>0. Cardinality(S) \in Nat
  BY FS_CardinalityType, Zenon
<1>1. SUFFICES ASSUME Bad # {} PROVE FALSE
  OBVIOUS
<1>2. Bad \in SUBSET Nat
  BY <1>0
<1>3. PICK k \in Bad : \A l \in Bad : k <= l
  BY <1>1, <1>2, LeastNumber, Zenon
<1>4. k \in 1..Cardinality(S) /\ ~\E i \in S : Cardinality(Below(S, i)) = k - 1
  OBVIOUS
<1>5. CASE k = 1
  <2>1. S # {}
    BY <1>4, FS_EmptySet, <1>5
  <2>2. PICK i \in S : \A j \in S : i <= j
    BY <2>1, LeastNumber, Zenon
  <2>3. Below(S, i) = {}
    <3>1. \A j \in S : j \in Nat
      OBVIOUS
    <3>2. \A j \in S : ~(j < i)
      BY <2>2, <3>1
    <3> QED
      BY <3>2 DEF Below
  <2> QED
    BY <1>4, <1>5, <2>3, FS_EmptySet
<1>6. CASE k # 1
  <2>1. k - 1 \in 1..Cardinality(S) /\ ~(k <= k - 1)
    BY <1>0, <1>4, <1>6
  <2>2. PICK i \in S : Cardinality(Below(S, i)) = (k - 1) - 1
    BY <1>3, <2>1
  <2>3. PICK T : T = {j \in S : i < j}
    OBVIOUS
  <2>4. T # {}
    <3>1. SUFFICES ASSUME T = {} PROVE FALSE
      OBVIOUS
    <3>2. S = Below(S, i) \cup {i} /\ i \notin Below(S, i)
      <4>1. \A j \in S : j \in Nat /\ ~(i < j)
        BY <2>3, <3>1
      <4>2. \A j \in S : (j < i \/ j = i) /\ ~(i < i)
        BY <4>1
      <4> QED
        BY <4>2 DEF Below
    <3>3. IsFiniteSet(Below(S, i))
      BY BelowIsFinite, Zenon
    <3>4. Cardinality(S) = Cardinality(Below(S, i)) + 1
      BY <3>2, <3>3, FS_AddElement, Zenon
    <3> QED
      BY <1>0, <1>4, <2>2, <3>4
  <2>5. T \in SUBSET Nat
    BY <2>3
  <2>6. PICK j \in T : \A l \in T : j <= l
    BY <2>4, <2>5, LeastNumber, Zenon
  <2>7. j \in S /\ j \in Nat /\ i < j /\ \A l \in S : i < l => ~(l < j)
    BY <2>3, <2>6
  <2>8. Cardinality(Below(S, j)) = Cardinality(Below(S, i)) + 1
    BY <2>7, OneMoreBelow, Zenon
  <2>9. Cardinality(Below(S, j)) = k - 1
    BY <1>0, <1>4, <2>2, <2>8
  <2> QED
    BY <1>4, <2>7, <2>9
<1> QED
  BY <1>5, <1>6

\* The n-th element is one with n - 1 before it, and the only one.
LEMMA NthIs ==
  ASSUME NEW S \in SUBSET Nat, IsFiniteSet(S), NEW n \in 1..Cardinality(S)
  PROVE  /\ Nth(S, n) \in S /\ Cardinality(Below(S, Nth(S, n))) = n - 1
         /\ \A i \in S : Cardinality(Below(S, i)) = n - 1 => i = Nth(S, n)
<1>1. Nth(S, n) \in S /\ Cardinality(Below(S, Nth(S, n))) = n - 1
  BY NthExists, Zenon DEF Nth
<1>2. ASSUME NEW i \in S, Cardinality(Below(S, i)) = n - 1, i # Nth(S, n) PROVE FALSE
  <2>1. PICK k : k = Nth(S, n)
    OBVIOUS
  <2>2. k \in S /\ Cardinality(Below(S, k)) = n - 1 /\ i # k /\ i \in Nat /\ k \in Nat
    BY <1>1, <1>2, <2>1
  <2>3. i < k \/ k < i
    BY <2>2
  <2>4. Cardinality(Below(S, i)) < Cardinality(Below(S, k)) \/ Cardinality(Below(S, k)) < Cardinality(Below(S, i))
    BY <2>2, <2>3, FewerBelow, Zenon
  <2>5. Cardinality(Below(S, i)) \in Nat
    BY BelowIsFinite, Zenon
  <2> QED
    BY <1>2, <2>2, <2>4, <2>5
<1> QED
  BY <1>1, <1>2, Zenon

\* Each element has a number.
LEMMA NumberIs ==
  ASSUME NEW S \in SUBSET Nat, IsFiniteSet(S), NEW i \in S
  PROVE  /\ Cardinality(Below(S, i)) + 1 \in 1..Cardinality(S)
         /\ i = Nth(S, Cardinality(Below(S, i)) + 1)
<1>1. Cardinality(Below(S, i)) \in Nat /\ Cardinality(S) \in Nat /\ IsFiniteSet(Below(S, i))
  BY BelowIsFinite, Zenon
<1>2. i \notin Below(S, i) /\ Below(S, i) \cup {i} \in SUBSET S
  BY DEF Below
<1>3. Cardinality(Below(S, i) \cup {i}) = Cardinality(Below(S, i)) + 1
  BY <1>1, <1>2, FS_AddElement, Zenon
<1>4. Cardinality(Below(S, i) \cup {i}) <= Cardinality(S)
  BY <1>2, FS_Subset, Zenon
<1>5. Cardinality(Below(S, i)) + 1 \in 1..Cardinality(S)
  BY <1>1, <1>3, <1>4
<1>6. PICK n : n = Cardinality(Below(S, i)) + 1
  OBVIOUS
<1>7. Cardinality(Below(S, i)) = n - 1 /\ n \in 1..Cardinality(S)
  BY <1>1, <1>5, <1>6
<1>8. i = Nth(S, n)
  BY <1>7, NthIs, Zenon
<1> QED
  BY <1>5, <1>6, <1>8, Zenon

\* The elements come in order, and nothing is between one and the next.
LEMMA NthGrows ==
  ASSUME NEW S \in SUBSET Nat, IsFiniteSet(S), NEW n \in 1..Cardinality(S), NEW k \in 1..Cardinality(S), n < k
  PROVE  Nth(S, n) < Nth(S, k)
<1>1. PICK i, j : i = Nth(S, n) /\ j = Nth(S, k)
  OBVIOUS
<1>2. i \in S /\ j \in S /\ Cardinality(Below(S, i)) = n - 1 /\ Cardinality(Below(S, j)) = k - 1
  BY <1>1, NthIs, Zenon
<1>3. Cardinality(S) \in Nat /\ i \in Nat /\ j \in Nat
  BY <1>2, FS_CardinalityType
<1>4. ~(j < i)
  <2>1. SUFFICES ASSUME j < i PROVE FALSE
    OBVIOUS
  <2>2. Cardinality(Below(S, j)) < Cardinality(Below(S, i))
    BY <1>2, <1>3, <2>1, FewerBelow, Zenon
  <2> QED
    BY <1>2, <1>3, <2>2
<1>5. i # j
  <2>1. SUFFICES ASSUME i = j PROVE FALSE
    OBVIOUS
  <2>2. n - 1 = k - 1
    BY <1>2, <2>1, Zenon
  <2> QED
    BY <1>3, <2>2
<1>6. i < j
  BY <1>3, <1>4, <1>5
<1> QED
  BY <1>1, <1>6, Zenon

\* Nothing lies between an element and the next.
LEMMA NthNext ==
  ASSUME NEW S \in SUBSET Nat, IsFiniteSet(S), NEW n \in 1..Cardinality(S), n + 1 \in 1..Cardinality(S),
         NEW j \in S, Nth(S, n) < j
  PROVE  Nth(S, n + 1) <= j
<1>1. PICK i, k : i = Nth(S, n) /\ k = Nth(S, n + 1)
  OBVIOUS
<1>2. i \in S /\ k \in S /\ Cardinality(Below(S, i)) = n - 1 /\ Cardinality(Below(S, k)) = (n + 1) - 1
  BY <1>1, NthIs, Zenon
<1>3. Cardinality(S) \in Nat /\ i \in Nat /\ k \in Nat /\ j \in Nat
  BY <1>2, FS_CardinalityType
<1>4. Cardinality(Below(S, j)) \in Nat
  BY BelowIsFinite, Zenon
<1>5. ~(j < k)
  <2>1. SUFFICES ASSUME j < k PROVE FALSE
    OBVIOUS
  <2>2. i < j
    BY <1>1
  <2>3. Cardinality(Below(S, i)) < Cardinality(Below(S, j)) /\ Cardinality(Below(S, j)) < Cardinality(Below(S, k))
    BY <1>2, <1>3, <2>1, <2>2, FewerBelow, Zenon
  <2> QED
    BY <1>2, <1>3, <1>4, <2>3
<1>6. k <= j
  BY <1>3, <1>5
<1> QED
  BY <1>1, <1>6, Zenon

-----------------------------------------------------------------------------
(* A string and its parts.                                                 *)

\* Where a string is cut at the characters c.
Cuts(s, c) == {0, Len(s) + 1} \cup PlacesOf(s, c)

\* The parts of a string are what stands between its cuts.
LEMMA SplitIs ==
  ASSUME NEW s, NEW c
  PROVE  Split(s, c) = [n \in 1..Occurrences(s, c) + 1 |->
                          SubSeq(s, Nth(Cuts(s, c), n) + 1, Nth(Cuts(s, c), n + 1) - 1)]
BY Zenon DEF Split, Nth, Below, Cuts

\* The places of a character are finitely many numbers.
LEMMA PlacesAre ==
  ASSUME NEW Char, NEW s \in Seq(Char), NEW c
  PROVE  /\ PlacesOf(s, c) \in SUBSET (1..Len(s)) /\ PlacesOf(s, c) \in SUBSET Nat
         /\ IsFiniteSet(PlacesOf(s, c)) /\ Occurrences(s, c) \in Nat
         /\ Occurrences(s, c) = Cardinality(PlacesOf(s, c)) /\ Len(s) \in Nat
         /\ \A i \in 1..Len(s) : i \in PlacesOf(s, c) <=> s[i] = c
<1>1. Len(s) \in Nat /\ DOMAIN s = 1..Len(s)
  BY LenProperties
<1>2. PlacesOf(s, c) \in SUBSET (1..Len(s)) /\ PlacesOf(s, c) \in SUBSET Nat
      /\ \A i \in 1..Len(s) : i \in PlacesOf(s, c) <=> s[i] = c
  BY <1>1 DEF PlacesOf
<1>3. IsFiniteSet(1..Len(s))
  BY <1>1, FS_Interval
<1>4. IsFiniteSet(PlacesOf(s, c))
  BY <1>2, <1>3, FS_Subset, Zenon
<1>5. Occurrences(s, c) = Cardinality(PlacesOf(s, c)) /\ Occurrences(s, c) \in Nat
  BY <1>4, FS_CardinalityType, Zenon DEF Occurrences
<1> QED
  BY <1>1, <1>2, <1>4, <1>5, Zenon

\* Before a place in the string, or its end, one more cut is than characters c.
LEMMA CutsBelow ==
  ASSUME NEW Char, NEW s \in Seq(Char), NEW c, NEW i \in 1..Len(s) + 1
  PROVE  Cardinality(Below(Cuts(s, c), i)) = Cardinality(Below(PlacesOf(s, c), i)) + 1
<1>1. /\ PlacesOf(s, c) \in SUBSET (1..Len(s)) /\ IsFiniteSet(PlacesOf(s, c)) /\ Len(s) \in Nat
  BY PlacesAre, Zenon
<1>2. Below(Cuts(s, c), i) = Below(PlacesOf(s, c), i) \cup {0}
  <2>1. 0 < i /\ ~(Len(s) + 1 < i)
    BY <1>1
  <2> QED
    BY <2>1 DEF Below, Cuts
<1>3. 0 \notin Below(PlacesOf(s, c), i)
  BY <1>1 DEF Below
<1>4. IsFiniteSet(Below(PlacesOf(s, c), i))
  BY <1>1, BelowIsFinite, Zenon
<1> QED
  BY <1>2, <1>3, <1>4, FS_AddElement, Zenon

\* The cuts, the first and the last of them, and the ones between.
LEMMA CutsAre ==
  ASSUME NEW Char, NEW s \in Seq(Char), NEW c, NEW S, S = Cuts(s, c), NEW n, n = Occurrences(s, c)
  PROVE  /\ S \in SUBSET Nat /\ IsFiniteSet(S) /\ n \in Nat /\ Cardinality(S) = n + 2
         /\ Nth(S, 1) = 0 /\ Nth(S, n + 2) = Len(s) + 1
         /\ \A k \in 2..n + 1 : Nth(S, k) \in PlacesOf(s, c)
<1>1. /\ PlacesOf(s, c) \in SUBSET (1..Len(s)) /\ IsFiniteSet(PlacesOf(s, c)) /\ Len(s) \in Nat
      /\ PlacesOf(s, c) \in SUBSET Nat /\ n \in Nat /\ n = Cardinality(PlacesOf(s, c))
  BY PlacesAre, Zenon
<1>2. PICK T : T = PlacesOf(s, c) \cup {0}
  OBVIOUS
<1>3. 0 \notin PlacesOf(s, c) /\ Len(s) + 1 \notin T /\ S = T \cup {Len(s) + 1}
  BY <1>1, <1>2 DEF Cuts
<1>4. IsFiniteSet(T) /\ Cardinality(T) = n + 1
  BY <1>1, <1>2, <1>3, FS_AddElement, Zenon
<1>5. IsFiniteSet(S) /\ Cardinality(S) = n + 1 + 1
  <2>1. IsFiniteSet(T \cup {Len(s) + 1}) /\ Cardinality(T \cup {Len(s) + 1}) = Cardinality(T) + 1
    BY <1>3, <1>4, FS_AddElement, Zenon
  <2> QED
    BY <1>3, <1>4, <2>1
<1>6. S \in SUBSET Nat
  BY <1>1, <1>2, <1>3
<1>7. 0 \in S /\ Len(s) + 1 \in S
  BY <1>2, <1>3
<1>8. n + 1 + 1 = n + 2 /\ 1 \in 1..n + 2 /\ n + 2 \in 1..n + 2 /\ 1 - 1 = 0 /\ (n + 2) - 1 = n + 1
  BY <1>1
<1>9. Nth(S, 1) = 0
  <2>1. Below(S, 0) = {}
    BY <1>6 DEF Below
  <2>2. Cardinality(Below(S, 0)) = 1 - 1
    BY <1>8, <2>1, FS_EmptySet
  <2>3. 1 \in 1..Cardinality(S)
    BY <1>1, <1>5
  <2>4. \A i \in S : Cardinality(Below(S, i)) = 1 - 1 => i = Nth(S, 1)
    BY <1>5, <1>6, <2>3, NthIs, Zenon
  <2> QED
    BY <1>7, <2>2, <2>4, Zenon
<1>10. Nth(S, n + 2) = Len(s) + 1
  <2>1. Below(S, Len(s) + 1) = T
    BY <1>1, <1>2, <1>3 DEF Below
  <2>2. Cardinality(Below(S, Len(s) + 1)) = (n + 2) - 1
    BY <1>4, <1>8, <2>1, Zenon
  <2>3. n + 2 \in 1..Cardinality(S)
    BY <1>5, <1>8, Zenon
  <2>4. \A i \in S : Cardinality(Below(S, i)) = (n + 2) - 1 => i = Nth(S, n + 2)
    BY <1>5, <1>6, <2>3, NthIs, Zenon
  <2> QED
    BY <1>7, <2>2, <2>4, Zenon
<1>11. ASSUME NEW k \in 2..n + 1 PROVE Nth(S, k) \in PlacesOf(s, c)
  <2>1. /\ k \in 1..Cardinality(S) /\ 1 \in 1..Cardinality(S) /\ n + 2 \in 1..Cardinality(S)
        /\ 1 < k /\ k < n + 2
    BY <1>1, <1>5
  <2>2. Nth(S, k) \in S
    BY <1>5, <1>6, <2>1, NthIs, Zenon
  <2>3. Nth(S, 1) < Nth(S, k) /\ Nth(S, k) < Nth(S, n + 2)
    BY <1>5, <1>6, <2>1, NthGrows, Zenon
  <2>4. Nth(S, k) # 0 /\ Nth(S, k) # Len(s) + 1
    <3>1. Nth(S, k) \in Nat
      BY <1>6, <2>2
    <3> QED
      BY <1>1, <1>9, <1>10, <2>3, <3>1
  <2> QED
    BY <1>2, <1>3, <2>2, <2>4
<1> QED
  BY <1>1, <1>5, <1>6, <1>8, <1>9, <1>10, <1>11, Zenon

\* A part of a string: between two cuts that follow each other.
LEMMA PartIs ==
  ASSUME NEW Char, NEW s \in Seq(Char), NEW c, NEW m \in 1..Occurrences(s, c) + 1,
         NEW a, NEW b, a = Nth(Cuts(s, c), m), b = Nth(Cuts(s, c), m + 1)
  PROVE  /\ Split(s, c)[m] = SubSeq(s, a + 1, b - 1) /\ DOMAIN Split(s, c) = 1..Occurrences(s, c) + 1
         /\ a \in 0..Len(s) /\ b \in 1..Len(s) + 1 /\ a < b
         /\ \A i \in 1..Len(s) : a < i /\ i < b => s[i] # c
         /\ m > 1 => a \in 1..Len(s) /\ s[a] = c
         /\ m = 1 => a = 0
         /\ m < Occurrences(s, c) + 1 => b \in 1..Len(s) /\ s[b] = c
         /\ m = Occurrences(s, c) + 1 => b = Len(s) + 1
<1>1. PICK S, n : S = Cuts(s, c) /\ n = Occurrences(s, c)
  OBVIOUS
<1>2. /\ S \in SUBSET Nat /\ IsFiniteSet(S) /\ n \in Nat /\ Cardinality(S) = n + 2
      /\ Nth(S, 1) = 0 /\ Nth(S, n + 2) = Len(s) + 1
      /\ \A k \in 2..n + 1 : Nth(S, k) \in PlacesOf(s, c)
  BY <1>1, CutsAre
<1>3. /\ PlacesOf(s, c) \in SUBSET (1..Len(s)) /\ Len(s) \in Nat
      /\ \A i \in 1..Len(s) : i \in PlacesOf(s, c) <=> s[i] = c
  BY PlacesAre, Zenon
<1>4. Split(s, c)[m] = SubSeq(s, a + 1, b - 1) /\ DOMAIN Split(s, c) = 1..Occurrences(s, c) + 1
  BY SplitIs
<1>5. m \in 1..n + 1 /\ m \in 1..n + 2 /\ m + 1 \in 1..n + 2 /\ m < m + 1
  BY <1>1, <1>2
<1>6. a \in S /\ b \in S /\ a < b
  BY <1>1, <1>2, <1>5, NthIs, NthGrows, Zenon
<1>7. a \in 0..Len(s) + 1 /\ b \in 0..Len(s) + 1
  BY <1>1, <1>3, <1>6 DEF Cuts
<1>8. a \in 0..Len(s) /\ b \in 1..Len(s) + 1
  BY <1>3, <1>6, <1>7
<1>9. ASSUME NEW i \in 1..Len(s), a < i, i < b, s[i] = c PROVE FALSE
  <2>1. i \in S
    BY <1>1, <1>3, <1>9 DEF Cuts
  <2>2. b <= i
    BY <1>1, <1>2, <1>5, <1>9, <2>1, NthNext, Zenon
  <2> QED
    BY <1>8, <1>9, <2>2
<1>10. ASSUME NEW k \in 2..n + 1 PROVE Nth(S, k) \in 1..Len(s) /\ s[Nth(S, k)] = c
  BY <1>2, <1>3
<1>11. m > 1 => a \in 1..Len(s) /\ s[a] = c
  BY <1>1, <1>5, <1>10
<1>12. m = 1 => a = 0
  BY <1>1, <1>2
<1>13. m < n + 1 => b \in 1..Len(s) /\ s[b] = c
  BY <1>1, <1>2, <1>5, <1>10
<1>14. m = n + 1 => b = Len(s) + 1
  BY <1>1, <1>2
<1> QED
  BY <1>1, <1>4, <1>6, <1>8, <1>9, <1>11, <1>12, <1>13, <1>14

\* The part that holds a place which is no cut.
LEMMA PartOf ==
  ASSUME NEW Char, NEW s \in Seq(Char), NEW c, NEW k \in 1..Len(s), s[k] # c
  PROVE  \E m \in 1..Occurrences(s, c) + 1 :
           /\ m = Cardinality(Below(PlacesOf(s, c), k)) + 1
           /\ Nth(Cuts(s, c), m) < k /\ k < Nth(Cuts(s, c), m + 1)
<1>1. PICK S, n : S = Cuts(s, c) /\ n = Occurrences(s, c)
  OBVIOUS
<1>2. /\ S \in SUBSET Nat /\ IsFiniteSet(S) /\ n \in Nat /\ Cardinality(S) = n + 2
  BY <1>1, CutsAre
<1>3. PICK m : m = Cardinality(Below(PlacesOf(s, c), k)) + 1
  OBVIOUS
<1>4. Cardinality(Below(S, k)) = m
  BY <1>1, <1>3, CutsBelow, PlacesAre
<1>5. /\ Len(s) \in Nat /\ IsFiniteSet(PlacesOf(s, c)) /\ n = Cardinality(PlacesOf(s, c))
      /\ \A i \in 1..Len(s) : i \in PlacesOf(s, c) <=> s[i] = c
  BY <1>1, PlacesAre, Zenon
<1>6. m \in 1..n + 1
  <2>1. PICK e : e = Cardinality(Below(PlacesOf(s, c), k))
    OBVIOUS
  <2>2. e \in Nat /\ e <= n
    BY <1>5, <2>1, BelowIsFinite, Zenon
  <2> QED
    BY <1>2, <1>3, <2>1, <2>2
<1>7. m \in 1..Cardinality(S) /\ m + 1 \in 1..Cardinality(S)
  BY <1>2, <1>6
<1>8. PICK a, b : a = Nth(S, m) /\ b = Nth(S, m + 1)
  OBVIOUS
<1>9. a \in S /\ b \in S /\ Cardinality(Below(S, a)) = m - 1 /\ Cardinality(Below(S, b)) = (m + 1) - 1
  BY <1>2, <1>7, <1>8, NthIs, Zenon
<1>10. k \notin S /\ k \in Nat /\ a \in Nat /\ b \in Nat
  BY <1>1, <1>2, <1>5, <1>9 DEF Cuts
<1>11. a < k
  <2>1. SUFFICES ASSUME ~(a < k) PROVE FALSE
    OBVIOUS
  <2>2. Below(S, k) \in SUBSET Below(S, a)
    <3>1. \A j \in S : j \in Nat
      BY <1>2
    <3>2. \A j \in S : j < k => j < a
      BY <1>10, <2>1, <3>1
    <3> QED
      BY <3>2 DEF Below
  <2>3. IsFiniteSet(Below(S, a))
    BY <1>2, BelowIsFinite, Zenon
  <2>4. Cardinality(Below(S, k)) <= Cardinality(Below(S, a))
    BY <2>2, <2>3, FS_Subset, Zenon
  <2> QED
    BY <1>2, <1>4, <1>6, <1>9, <2>4
<1>12. k < b
  <2>1. SUFFICES ASSUME ~(k < b) PROVE FALSE
    OBVIOUS
  <2>2. b # k
    BY <1>9, <1>10, Zenon
  <2>3. b < k
    BY <1>10, <2>1, <2>2
  <2>4. Cardinality(Below(S, b)) < Cardinality(Below(S, k))
    BY <1>2, <1>9, <1>10, <2>3, FewerBelow, Zenon
  <2> QED
    BY <1>2, <1>4, <1>6, <1>9, <2>4
<1> QED
  BY <1>1, <1>3, <1>6, <1>8, <1>11, <1>12, Zenon

-----------------------------------------------------------------------------
(* What a wild card stands for.                                            *)

\* The elements of S up to i.
UpTo(S, i) == {j \in S : j <= i}

\* Up to i there is one more than before i, and fewer up to any earlier number.
LEMMA UpToIs ==
  ASSUME NEW S \in SUBSET Nat, IsFiniteSet(S), NEW k \in S
  PROVE  /\ Cardinality(UpTo(S, k)) = Cardinality(Below(S, k)) + 1
         /\ \A j \in Nat : j < k => Cardinality(UpTo(S, j)) # Cardinality(UpTo(S, k))
<1>0. \A j \in S : j \in Nat
  OBVIOUS
<1>1. UpTo(S, k) = Below(S, k) \cup {k} /\ k \notin Below(S, k)
  <2>1. \A j \in S : j <= k <=> j < k \/ j = k
    BY <1>0
  <2>2. ~(k < k)
    BY <1>0
  <2> QED
    BY <2>1, <2>2 DEF UpTo, Below
<1>2. IsFiniteSet(Below(S, k)) /\ Cardinality(Below(S, k)) \in Nat
  BY BelowIsFinite, Zenon
<1>3. Cardinality(UpTo(S, k)) = Cardinality(Below(S, k)) + 1
  BY <1>1, <1>2, FS_AddElement, Zenon
<1>4. ASSUME NEW j \in Nat, j < k PROVE Cardinality(UpTo(S, j)) # Cardinality(UpTo(S, k))
  <2>1. UpTo(S, j) \in SUBSET Below(S, k)
    <3>1. \A i \in S : i <= j => i < k
      BY <1>0, <1>4
    <3> QED
      BY <3>1 DEF UpTo, Below
  <2>2. Cardinality(UpTo(S, j)) <= Cardinality(Below(S, k)) /\ Cardinality(UpTo(S, j)) \in Nat
    BY <1>2, <2>1, FS_Subset, FS_CardinalityType, Zenon
  <2> QED
    BY <1>2, <1>3, <2>2
<1> QED
  BY <1>3, <1>4

\* The slashes before a star, counted without knowing where the star is.
LEMMA PreSlashes ==
  ASSUME NEW Char, NEW p \in Seq(Char), NEW k \in PlacesOf(p, "*"),
         NEW index, index = Cardinality(UpTo(PlacesOf(p, "*"), k))
  PROVE  GetPreSlashIndex(p, index) = Cardinality(Below(PlacesOf(p, "/"), k))
<1>1. /\ PlacesOf(p, "*") \in SUBSET (1..Len(p)) /\ PlacesOf(p, "/") \in SUBSET (1..Len(p))
      /\ PlacesOf(p, "*") \in SUBSET Nat /\ IsFiniteSet(PlacesOf(p, "*")) /\ Len(p) \in Nat
  BY PlacesAre, Zenon
<1>2. \A j \in Nat : j < k => Cardinality(UpTo(PlacesOf(p, "*"), j)) # index
  BY <1>1, UpToIs, Zenon
<1>3. k \notin PlacesOf(p, "/")
  BY DEF PlacesOf
<1>4. k \in 1..Len(p) /\ \A i \in PlacesOf(p, "/") : i \in 1..Len(p)
  BY <1>1
<1>5. ASSUME NEW i \in PlacesOf(p, "/")
      PROVE  (\A j \in 1..i : Cardinality(UpTo(PlacesOf(p, "*"), j)) # index) <=> i < k
  <2>1. ASSUME i < k, NEW j \in 1..i PROVE Cardinality(UpTo(PlacesOf(p, "*"), j)) # index
    <3>1. j \in Nat /\ j < k
      BY <1>1, <1>4, <2>1
    <3> QED
      BY <1>2, <3>1
  <2>2. ASSUME ~(i < k) PROVE k \in 1..i
    BY <1>1, <1>4, <2>2
  <2> QED
    BY <2>1, <2>2
<1>6. {i \in PlacesOf(p, "/") : \A j \in 1..i : Cardinality(UpTo(PlacesOf(p, "*"), j)) # index}
        = Below(PlacesOf(p, "/"), k)
  BY <1>5 DEF Below
<1> QED
  BY <1>6, Zenon DEF GetPreSlashIndex, UpTo

\* The copy starts behind the slash that begins the part of that number.
LEMMA CopyStartIs ==
  ASSUME NEW Char, NEW s \in Seq(Char), NEW m \in 2..Occurrences(s, "/") + 1,
         NEW a, a = Nth(Cuts(s, "/"), m)
  PROVE  CopyStart(s, m - 1) = a + 1
<1>1. PICK S, P, n : S = Cuts(s, "/") /\ P = PlacesOf(s, "/") /\ n = Occurrences(s, "/")
  OBVIOUS
<1>2. /\ S \in SUBSET Nat /\ IsFiniteSet(S) /\ n \in Nat /\ Cardinality(S) = n + 2
      /\ \A k \in 2..n + 1 : Nth(S, k) \in P
  BY <1>1, CutsAre
<1>3. /\ P \in SUBSET (1..Len(s)) /\ P \in SUBSET Nat /\ IsFiniteSet(P) /\ Len(s) \in Nat
  BY <1>1, PlacesAre, Zenon
<1>4. a \in P /\ m \in 1..Cardinality(S) /\ m \in Nat
  BY <1>1, <1>2
<1>5. a \in 1..Len(s) /\ a \in 1..Len(s) + 1
  BY <1>3, <1>4
<1>6. Cardinality(Below(P, a)) + 1 = m - 1
  <2>1. Cardinality(Below(S, a)) = m - 1
    BY <1>1, <1>2, <1>4, NthIs, Zenon
  <2>2. Cardinality(Below(S, a)) = Cardinality(Below(P, a)) + 1
    BY <1>1, <1>5, CutsBelow, Zenon
  <2> QED
    BY <2>1, <2>2
<1>7. PICK seen : seen = {i \in 1..Len(s) : Cardinality(UpTo(P, i)) = m - 1}
  OBVIOUS
<1>8. Cardinality(UpTo(P, a)) = m - 1 /\ \A j \in Nat : j < a => Cardinality(UpTo(P, j)) # Cardinality(UpTo(P, a))
  BY <1>3, <1>4, <1>6, UpToIs, Zenon
<1>9. a \in seen /\ \A i \in seen : a <= i
  <2>1. ASSUME NEW i \in seen PROVE a <= i
    <3>1. i \in Nat /\ Cardinality(UpTo(P, i)) = m - 1
      BY <1>7
    <3>2. ~(i < a)
      BY <1>8, <3>1
    <3> QED
      BY <1>5, <3>1, <3>2
  <2> QED
    BY <1>5, <1>7, <1>8, <2>1
<1>10. Min(seen) = a
  <2>1. \A x \in seen : (\A y \in seen : x <= y) => x = a
    BY <1>5, <1>7, <1>9
  <2> QED
    BY <1>9, <2>1 DEF Min
<1>11. seen = {i \in DOMAIN s : Cardinality({j \in PlacesOf(s, "/") : j <= i}) = m - 1}
  <2>1. DOMAIN s = 1..Len(s)
    BY LenProperties
  <2> QED
    BY <1>1, <1>7, <2>1, Zenon DEF UpTo
<1>12. CopyStart(s, m - 1) = IF seen = {} THEN Len(s) + 1 ELSE Min(seen) + 1
  BY <1>11, Zenon DEF CopyStart
<1> QED
  BY <1>9, <1>10, <1>12

\* What is copied is that part of the path.
LEMMA CopyIsPart ==
  ASSUME NEW Char, NEW s \in Seq(Char), NEW m \in 2..Occurrences(s, "/") + 1, NEW index, NEW total,
         m = Occurrences(s, "/") + 1 => index = total
  PROVE  CopyWCStringByIndex(s, index, total, m - 1) = {Split(s, "/")[m]}
<1>1. PICK a, b, n : a = Nth(Cuts(s, "/"), m) /\ b = Nth(Cuts(s, "/"), m + 1) /\ n = Occurrences(s, "/")
  OBVIOUS
<1>2. n \in Nat /\ Len(s) \in Nat
  BY <1>1, PlacesAre, Zenon
<1>3. m \in 1..n + 1 /\ m > 1 /\ (m < n + 1 \/ m = n + 1)
  BY <1>1, <1>2
<1>4. /\ Split(s, "/")[m] = SubSeq(s, a + 1, b - 1)
      /\ a \in 0..Len(s) /\ b \in 1..Len(s) + 1 /\ a < b
      /\ \A i \in 1..Len(s) : a < i /\ i < b => s[i] # "/"
      /\ m < n + 1 => b \in 1..Len(s) /\ s[b] = "/"
      /\ m = n + 1 => b = Len(s) + 1
  BY <1>1, <1>3, PartIs
<1>5. PICK start, slash : start = CopyStart(s, m - 1) /\ slash = FirstFrom(s, start, "/")
  OBVIOUS
<1>6. start = a + 1
  BY <1>1, <1>5, CopyStartIs, Zenon
<1>7. start \in Nat
  BY <1>4, <1>6
<1>8. CopyWCStringByIndex(s, index, total, m - 1) =
        CASE start > Len(s) -> {<<>>}
          [] start <= Len(s) /\ slash # 0 -> {SubSeq(s, start, slash - 1)}
          [] start <= Len(s) /\ slash = 0 /\ index = total -> {SubSeq(s, start, Len(s))}
          [] OTHER -> {}
  BY <1>5, Zenon DEF CopyWCStringByIndex
<1>9. CASE m < n + 1
  <2>1. b \in 1..Len(s) /\ s[b] = "/" /\ b >= start
    BY <1>4, <1>6, <1>9
  <2>2. \A i \in 1..Len(s) : i >= start /\ i < b => s[i] # "/"
    BY <1>4, <1>6
  <2>3. slash = b
    <3>1. FirstFrom(s, start, "/") = b
      BY <1>7, <2>1, <2>2, FirstFromIs
    <3> QED
      BY <1>5, <3>1, Zenon
  <2>4. start <= Len(s) /\ ~(start > Len(s)) /\ slash # 0
    BY <1>2, <1>7, <2>1, <2>3
  <2> QED
    BY <1>4, <1>6, <1>8, <2>3, <2>4
<1>10. CASE m = n + 1
  <2>1. b = Len(s) + 1 /\ index = total
    BY <1>1, <1>4, <1>10
  <2>2. slash = 0
    <3>1. \A i \in 1..Len(s) : i >= start => s[i] # "/"
      BY <1>2, <1>4, <1>6, <2>1
    <3> QED
      BY <1>5, <1>7, <3>1, FirstFromNone, Zenon
  <2>3. b - 1 = Len(s)
    BY <1>2, <2>1
  <2>4. CASE start > Len(s)
    <3>1. SubSeq(s, start, Len(s)) = <<>>
      BY <1>2, <1>7, <2>4
    <3>2. ~(start <= Len(s))
      BY <1>2, <1>7, <2>4
    <3>3. CopyWCStringByIndex(s, index, total, m - 1) = {<<>>}
      BY <1>8, <2>4, <3>2, Zenon
    <3> QED
      BY <1>4, <1>6, <2>3, <3>1, <3>3, Zenon
  <2>5. CASE start <= Len(s)
    <3>1. ~(start > Len(s))
      BY <1>2, <1>7, <2>5
    <3> QED
      BY <1>4, <1>6, <1>8, <2>1, <2>2, <2>3, <2>5, <3>1
  <2> QED
    BY <1>2, <1>7, <2>4, <2>5
<1> QED
  BY <1>3, <1>9, <1>10

\* What stands in a piece of a string.
LEMMA PieceIs ==
  ASSUME NEW Char, NEW s \in Seq(Char), NEW a \in 0..Len(s), NEW b \in 1..Len(s) + 1, a < b
  PROVE  /\ SubSeq(s, a + 1, b - 1) \in Seq(Char)
         /\ Len(SubSeq(s, a + 1, b - 1)) = (b - 1) - a
         /\ \A i \in 1..(b - 1) - a : SubSeq(s, a + 1, b - 1)[i] = s[a + i]
<1>1. Len(s) \in Nat
  BY LenProperties
<1>2. a + 1 \in 1..Len(s) + 1 /\ b - 1 \in 0..Len(s) /\ a + 1 <= (b - 1) + 1
  BY <1>1
<1> QED
  BY <1>1, <1>2

\* The parts are one more than the characters they are cut at.
LEMMA SplitLength ==
  ASSUME NEW Char, NEW s \in Seq(Char), NEW c
  PROVE  /\ Len(Split(s, c)) = Occurrences(s, c) + 1 /\ DOMAIN Split(s, c) = 1..Occurrences(s, c) + 1
         /\ Occurrences(s, c) \in Nat
<1>1. PICK n : n = Occurrences(s, c) + 1
  OBVIOUS
<1>2. n \in Nat /\ Occurrences(s, c) \in Nat
  BY <1>1, PlacesAre
<1>3. PICK parts : parts = Split(s, c)
  OBVIOUS
<1>4. parts = [m \in 1..n |-> SubSeq(s, Nth(Cuts(s, c), m) + 1, Nth(Cuts(s, c), m + 1) - 1)]
  BY <1>1, <1>3, SplitIs, Zenon
<1>5. \A m \in 1..n : SubSeq(s, Nth(Cuts(s, c), m) + 1, Nth(Cuts(s, c), m + 1) - 1) \in Seq(Char)
  <2>1. SUFFICES ASSUME NEW m \in 1..n
                 PROVE  SubSeq(s, Nth(Cuts(s, c), m) + 1, Nth(Cuts(s, c), m + 1) - 1) \in Seq(Char)
    OBVIOUS
  <2>2. PICK a, b : a = Nth(Cuts(s, c), m) /\ b = Nth(Cuts(s, c), m + 1)
    OBVIOUS
  <2>3. a \in 0..Len(s) /\ b \in 1..Len(s) + 1 /\ a < b
    BY <1>1, <2>1, <2>2, PartIs
  <2>4. SubSeq(s, a + 1, b - 1) \in Seq(Char)
    BY <2>3, PieceIs
  <2> QED
    BY <2>2, <2>4, Zenon
<1>6. parts \in [1..n -> Seq(Char)]
  BY <1>4, <1>5
<1>7. parts \in Seq(Seq(Char)) /\ DOMAIN parts = 1..n
  BY <1>2, <1>6, SeqDef
<1>8. Len(parts) = n
  BY <1>2, <1>7, LenProperties
<1> QED
  BY <1>1, <1>2, <1>3, <1>7, <1>8, Zenon

\* No part of a string without a star holds one.
LEMMA NoStarInPart ==
  ASSUME NEW Char, NEW s \in Seq(Char), \A k \in DOMAIN s : s[k] # "*",
         NEW m \in 1..Occurrences(s, "/") + 1
  PROVE  \A i \in 1..Len(Split(s, "/")[m]) : Split(s, "/")[m][i] # "*"
<1>1. PICK a, b : a = Nth(Cuts(s, "/"), m) /\ b = Nth(Cuts(s, "/"), m + 1)
  OBVIOUS
<1>2. /\ Split(s, "/")[m] = SubSeq(s, a + 1, b - 1)
      /\ a \in 0..Len(s) /\ b \in 1..Len(s) + 1 /\ a < b
  BY <1>1, PartIs
<1>3. PICK part : part = SubSeq(s, a + 1, b - 1)
  OBVIOUS
<1>4. Len(part) = (b - 1) - a /\ \A i \in 1..(b - 1) - a : part[i] = s[a + i]
  BY <1>2, <1>3, PieceIs
<1>5. DOMAIN s = 1..Len(s) /\ Len(s) \in Nat
  BY LenProperties
<1>6. \A i \in 1..(b - 1) - a : a + i \in DOMAIN s
  BY <1>2, <1>5
<1>7. \A i \in 1..Len(part) : part[i] # "*"
  BY <1>4, <1>6
<1> QED
  BY <1>2, <1>3, <1>7, Zenon

\* A part that is a star is the character between two cuts.
LEMMA StarPart ==
  ASSUME NEW Char, NEW p \in Seq(Char), NEW m \in 1..Occurrences(p, "/") + 1,
         Split(p, "/")[m] = <<"*">>, NEW a, a = Nth(Cuts(p, "/"), m)
  PROVE  a \in Nat /\ a + 1 \in PlacesOf(p, "*")
<1>1. PICK b : b = Nth(Cuts(p, "/"), m + 1)
  OBVIOUS
<1>2. /\ Split(p, "/")[m] = SubSeq(p, a + 1, b - 1)
      /\ a \in 0..Len(p) /\ b \in 1..Len(p) + 1 /\ a < b
  BY <1>1, PartIs
<1>3. PICK part : part = SubSeq(p, a + 1, b - 1)
  OBVIOUS
<1>4. Len(part) = (b - 1) - a /\ \A i \in 1..(b - 1) - a : part[i] = p[a + i]
  BY <1>2, <1>3, PieceIs
<1>5. Len(part) = 1 /\ part[1] = "*"
  <2>1. part = <<"*">>
    BY <1>2, <1>3, Zenon
  <2> QED
    BY <2>1
<1>6. DOMAIN p = 1..Len(p) /\ Len(p) \in Nat
  BY LenProperties
<1>7. 1 \in 1..(b - 1) - a /\ a + 1 \in 1..Len(p) /\ a \in Nat
  <2>1. (b - 1) - a = 1
    BY <1>4, <1>5, Zenon
  <2> QED
    BY <1>2, <1>6, <2>1
<1>8. p[a + 1] = "*"
  BY <1>4, <1>5, <1>7, Zenon
<1> QED
  BY <1>6, <1>7, <1>8 DEF PlacesOf

\* A star is a part of its own when the wild cards are whole segments.
LEMMA StarIsAlone ==
  ASSUME NEW Char, NEW p \in Seq(Char), NEW s \in Seq(Char), \A k \in DOMAIN s : s[k] # "*",
         WholeSegments(p, s), NEW k \in PlacesOf(p, "*"), NEW m \in 1..Occurrences(p, "/") + 1,
         NEW a, a = Nth(Cuts(p, "/"), m), NEW b, b = Nth(Cuts(p, "/"), m + 1), a < k, k < b
  PROVE  /\ a = k - 1 /\ b = k + 1 /\ m > 1 /\ Split(p, "/")[m] = <<"*">>
<1>1. /\ Split(p, "/")[m] = SubSeq(p, a + 1, b - 1) /\ DOMAIN Split(p, "/") = 1..Occurrences(p, "/") + 1
      /\ a \in 0..Len(p) /\ b \in 1..Len(p) + 1 /\ a < b
  BY PartIs
<1>2. k \in 1..Len(p) /\ p[k] = "*" /\ Len(p) \in Nat
  BY LenProperties DEF PlacesOf
<1>3. PICK part : part = SubSeq(p, a + 1, b - 1)
  OBVIOUS
<1>4. Len(part) = (b - 1) - a /\ \A i \in 1..(b - 1) - a : part[i] = p[a + i]
  <2>1. \A x \in 0..Len(p), y \in 1..Len(p) + 1 :
          x < y => /\ Len(SubSeq(p, x + 1, y - 1)) = (y - 1) - x
                   /\ \A i \in 1..(y - 1) - x : SubSeq(p, x + 1, y - 1)[i] = p[x + i]
    BY PieceIs
  <2> QED
    BY <1>1, <1>3, <2>1, Zenon
<1>5. k - a \in 1..(b - 1) - a /\ a + (k - a) = k
  BY <1>1, <1>2
<1>6. part[k - a] = "*" /\ k - a \in 1..Len(part)
  <2>1. part[k - a] = p[a + (k - a)]
    BY <1>4, <1>5
  <2> QED
    BY <1>2, <1>4, <1>5, <2>1
<1>7. Len(Split(p, "/")) = Len(Split(s, "/")) /\ Split(p, "/")[1] = <<>>
      /\ (Split(p, "/")[m] = Split(s, "/")[m] \/ Split(p, "/")[m] = <<"*">>)
  BY <1>1 DEF WholeSegments
<1>8. part # Split(s, "/")[m]
  <2>1. Occurrences(s, "/") = Occurrences(p, "/")
    BY <1>7, SplitLength
  <2>2. \A i \in 1..Len(Split(s, "/")[m]) : Split(s, "/")[m][i] # "*"
    BY <2>1, NoStarInPart, Zenon
  <2> QED
    BY <1>6, <2>2, Zenon
<1>9. part = <<"*">>
  BY <1>1, <1>3, <1>7, <1>8, Zenon
<1>10. Len(part) = 1
  BY <1>9
<1>11. m # 1
  <2>1. SUFFICES ASSUME m = 1 PROVE FALSE
    OBVIOUS
  <2>2. part = <<>>
    BY <1>1, <1>3, <1>7, <2>1, Zenon
  <2> QED
    BY <1>10, <2>2
<1>12. m \in Nat /\ m >= 1
  BY PlacesAre
<1>13. (b - 1) - a = 1
  BY <1>4, <1>10, Zenon
<1>14. a = k - 1 /\ b = k + 1
  <2>1. \A x, y, z \in Nat : x < y /\ y < z /\ (z - 1) - x = 1 => x = y - 1 /\ z = y + 1
    OBVIOUS
  <2>2. a \in Nat /\ k \in Nat /\ b \in Nat
    BY <1>1, <1>2
  <2> QED
    BY <1>13, <2>1, <2>2, Zenon
<1>15. m > 1
  BY <1>11, <1>12
<1> QED
  BY <1>1, <1>3, <1>9, <1>14, <1>15, Zenon

\* A growing numbering of one set by another keeps how many come before.
LEMMA SameNumber ==
  ASSUME NEW S \in SUBSET Nat, IsFiniteSet(S), NEW T \in SUBSET Nat, IsFiniteSet(T), NEW f \in [T -> S],
         \A i, j \in T : i < j => f[i] < f[j],
         NEW m \in T, \A k \in S : k <= f[m] => \E i \in T : f[i] = k
  PROVE  Cardinality(UpTo(T, m)) = Cardinality(UpTo(S, f[m]))
<1>1. PICK A, B : A = UpTo(T, m) /\ B = UpTo(S, f[m])
  OBVIOUS
<1>2. \A i \in T : i \in Nat /\ f[i] \in Nat /\ f[i] \in S
  OBVIOUS
<1>3. \A i, j \in T : (i <= j <=> f[i] <= f[j]) /\ (f[i] = f[j] => i = j)
  BY <1>2
<1>4. A \in SUBSET T /\ B \in SUBSET S /\ IsFiniteSet(A)
  <2>1. A \in SUBSET T /\ B \in SUBSET S
    BY <1>1 DEF UpTo
  <2> QED
    BY <2>1, FS_Subset, Zenon
<1>5. PICK g : g = [i \in A |-> f[i]]
  OBVIOUS
<1>6. \A i \in A : g[i] = f[i] /\ f[i] \in B
  BY <1>1, <1>2, <1>3, <1>4, <1>5 DEF UpTo
<1>7. g \in [A -> B]
  BY <1>5, <1>6
<1>8. \A i, j \in A : g[i] = g[j] => i = j
  BY <1>3, <1>4, <1>6
<1>9. \A k \in B : \E i \in A : g[i] = k
  <2>1. SUFFICES ASSUME NEW k \in B PROVE \E i \in A : g[i] = k
    OBVIOUS
  <2>2. k \in S /\ k <= f[m]
    BY <1>1, <2>1 DEF UpTo
  <2>3. PICK i \in T : f[i] = k
    BY <2>2
  <2>4. i \in A
    BY <1>1, <1>3, <2>2, <2>3 DEF UpTo
  <2> QED
    BY <1>6, <2>3, <2>4
<1>10. ExistsBijection(A, B)
  BY <1>7, <1>8, <1>9, Zenon DEF ExistsBijection, Bijection, Injection, Surjection, IsInjective
<1> QED
  BY <1>1, <1>4, <1>10, FS_Bijection, Zenon

\* The star of that number is the part of that number among the parts
\* that are stars.
LEMMA StarSegmentIs ==
  ASSUME NEW Char, NEW p \in Seq(Char), NEW s \in Seq(Char), \A k \in DOMAIN s : s[k] # "*",
         WholeSegments(p, s), NEW k \in PlacesOf(p, "*"), NEW m \in 1..Occurrences(p, "/") + 1,
         Nth(Cuts(p, "/"), m) < k, k < Nth(Cuts(p, "/"), m + 1),
         NEW index, index = Cardinality(UpTo(PlacesOf(p, "*"), k))
  PROVE  StarSegment(p, index) = m
<1>1. PICK n, S, C : n = Occurrences(p, "/") /\ S = PlacesOf(p, "*") /\ C = Cuts(p, "/")
  OBVIOUS
<1>2. n \in Nat /\ DOMAIN Split(p, "/") = 1..n + 1
  BY <1>1, SplitLength
<1>3. S \in SUBSET Nat /\ IsFiniteSet(S) /\ S \in SUBSET (1..Len(p))
      /\ \A i \in 1..Len(p) : i \in S <=> p[i] = "*"
  BY <1>1, PlacesAre, Zenon
<1>4. C \in SUBSET Nat /\ IsFiniteSet(C) /\ Cardinality(C) = n + 2
  BY <1>1, CutsAre
<1>5. PICK T : T = {i \in 1..n + 1 : Split(p, "/")[i] = <<"*">>}
  OBVIOUS
<1>6. T \in SUBSET (1..n + 1) /\ T \in SUBSET Nat /\ IsFiniteSet(T)
  <2>1. T \in SUBSET (1..n + 1)
    BY <1>5
  <2>2. T \in SUBSET Nat
    BY <1>2, <2>1
  <2>3. IsFiniteSet(1..n + 1)
    BY <1>2, FS_Interval
  <2> QED
    BY <2>1, <2>2, <2>3, FS_Subset, Zenon
<1>7. PICK f : f = [i \in T |-> Nth(C, i) + 1]
  OBVIOUS
<1>8. \A i \in T : Nth(C, i) \in Nat /\ f[i] = Nth(C, i) + 1 /\ f[i] \in S
  BY <1>1, <1>5, <1>7, StarPart
<1>9. f \in [T -> S]
  BY <1>7, <1>8
<1>10. ASSUME NEW i \in 1..n + 1, NEW j \in 1..n + 1, i < j PROVE Nth(C, i) < Nth(C, j)
  <2>1. i \in 1..Cardinality(C) /\ j \in 1..Cardinality(C)
    BY <1>2, <1>4
  <2> QED
    BY <1>4, <1>10, <2>1, NthGrows, Zenon
<1>11. \A i, j \in T : i < j => f[i] < f[j]
  <2>1. SUFFICES ASSUME NEW i \in T, NEW j \in T, i < j PROVE f[i] < f[j]
    OBVIOUS
  <2>2. Nth(C, i) < Nth(C, j)
    BY <1>6, <1>10, <2>1
  <2> QED
    BY <1>8, <2>2
<1>12. ASSUME NEW y \in S PROVE \E i \in T : f[i] = y
  <2>1. y \in 1..Len(p) /\ p[y] = "*"
    BY <1>3
  <2>2. PICK i \in 1..n + 1 : Nth(C, i) < y /\ y < Nth(C, i + 1)
    <3>1. p[y] # "/"
      BY <2>1
    <3> QED
      BY <1>1, <2>1, <3>1, PartOf, Zenon
  <2>3. Nth(C, i) = y - 1 /\ Split(p, "/")[i] = <<"*">>
    BY <1>1, <1>12, <2>2, StarIsAlone
  <2>4. i \in T
    BY <1>5, <2>3
  <2>5. (y - 1) + 1 = y
    BY <2>1
  <2> QED
    BY <1>8, <2>3, <2>4, <2>5
<1>13. m \in T /\ f[m] = k
  <2>1. Nth(C, m) = k - 1 /\ Split(p, "/")[m] = <<"*">>
    BY <1>1, StarIsAlone
  <2>2. m \in T
    BY <1>1, <1>5, <2>1
  <2>3. (k - 1) + 1 = k
    BY <1>1, <1>3
  <2> QED
    BY <1>8, <2>1, <2>2, <2>3
<1>14. Cardinality(UpTo(T, m)) = index
  <2>1. Cardinality(UpTo(T, m)) = Cardinality(UpTo(S, f[m]))
    BY <1>3, <1>6, <1>9, <1>11, <1>12, <1>13, SameNumber
  <2> QED
    BY <1>1, <1>13, <2>1, Zenon
<1>15. ASSUME NEW i \in T, Cardinality(UpTo(T, i)) = index PROVE i = m
  <2>1. ~(i < m) /\ ~(m < i)
    <3>1. i \in Nat /\ m \in Nat
      BY <1>6, <1>13
    <3> QED
      BY <1>6, <1>13, <1>14, <1>15, <3>1, UpToIs, Zenon
  <2> QED
    BY <1>6, <1>13, <2>1
<1>16. StarSegment(p, index) = CHOOSE i \in T : Cardinality(UpTo(T, i)) = index
  <2>1. T = {i \in DOMAIN Split(p, "/") : Split(p, "/")[i] = <<"*">>}
    BY <1>2, <1>5, Zenon
  <2> QED
    BY <2>1, Zenon DEF StarSegment, UpTo
<1> QED
  BY <1>13, <1>14, <1>15, <1>16, Zenon

\* WildCardIsSegment of MCUriMatch for every endpoint and every path without
\* a star: the counting of VmRESTGetPreSlashIndex and the copying of
\* VmRESTCopyWCStringByIndex return the segment the wild card stands for.
THEOREM WildCardsAreSegments ==
  ASSUME NEW Char, endpoint \in Seq(Char), uri \in Seq(Char), \A k \in DOMAIN uri : uri[k] # "*"
  PROVE  WildCardIsSegment
<1>1. SUFFICES ASSUME WholeSegments(endpoint, uri), NEW index \in 1..GetWildCardCount(endpoint)
               PROVE  GetWildCardByIndex(endpoint, uri, index)
                        = {Split(uri, "/")[StarSegment(endpoint, index)]}
  BY Zenon DEF WildCardIsSegment
<1>2. PICK S, n, total : S = PlacesOf(endpoint, "*") /\ n = Occurrences(endpoint, "/")
                          /\ total = GetWildCardCount(endpoint)
  OBVIOUS
<1>3. /\ S \in SUBSET (1..Len(endpoint)) /\ S \in SUBSET Nat /\ IsFiniteSet(S)
      /\ total = Cardinality(S) /\ total \in Nat /\ Len(endpoint) \in Nat
      /\ \A i \in 1..Len(endpoint) : i \in S <=> endpoint[i] = "*"
  BY <1>2, PlacesAre, Zenon DEF GetWildCardCount
<1>4. PICK k : k = Nth(S, index)
  OBVIOUS
<1>5. k \in S /\ Cardinality(Below(S, k)) = index - 1
  BY <1>1, <1>2, <1>3, <1>4, NthIs
<1>6. index = Cardinality(UpTo(S, k))
  <2>1. Cardinality(UpTo(S, k)) = Cardinality(Below(S, k)) + 1
    BY <1>3, <1>5, UpToIs
  <2>2. (index - 1) + 1 = index
    BY <1>1, <1>2, <1>3
  <2> QED
    BY <1>5, <2>1, <2>2
<1>7. k \in 1..Len(endpoint) /\ endpoint[k] = "*" /\ endpoint[k] # "/"
  BY <1>3, <1>5
<1>8. PICK m \in 1..n + 1 : /\ m = Cardinality(Below(PlacesOf(endpoint, "/"), k)) + 1
                           /\ Nth(Cuts(endpoint, "/"), m) < k /\ k < Nth(Cuts(endpoint, "/"), m + 1)
  BY <1>2, <1>7, PartOf, Zenon
<1>9. /\ Nth(Cuts(endpoint, "/"), m + 1) = k + 1 /\ m > 1
  BY <1>1, <1>2, <1>5, <1>8, StarIsAlone
<1>10. StarSegment(endpoint, index) = m
  BY <1>1, <1>2, <1>5, <1>6, <1>8, StarSegmentIs
<1>11. GetPreSlashIndex(endpoint, index) = m - 1
  <2>1. GetPreSlashIndex(endpoint, index) = Cardinality(Below(PlacesOf(endpoint, "/"), k))
    BY <1>2, <1>5, <1>6, PreSlashes, Zenon
  <2>2. Cardinality(Below(PlacesOf(endpoint, "/"), k)) \in Nat
    BY PlacesAre, BelowIsFinite, Zenon
  <2> QED
    BY <1>8, <2>1, <2>2
<1>12. m = n + 1 => index = total
  <2>1. SUFFICES ASSUME m = n + 1 PROVE index = total
    OBVIOUS
  <2>2. Nth(Cuts(endpoint, "/"), m + 1) = Len(endpoint) + 1
    BY <1>2, <2>1, PartIs
  <2>3. k = Len(endpoint)
    BY <1>3, <1>7, <1>9, <2>2
  <2>4. UpTo(S, k) = S
    <3>1. \A j \in S : j <= k
      BY <1>3, <2>3
    <3> QED
      BY <3>1 DEF UpTo
  <2> QED
    BY <1>3, <1>6, <2>4, Zenon
<1>13. Occurrences(uri, "/") = n /\ n \in Nat
  <2>1. Len(Split(endpoint, "/")) = Len(Split(uri, "/"))
    BY <1>1, Zenon DEF WholeSegments
  <2>2. /\ Len(Split(endpoint, "/")) = n + 1 /\ n \in Nat
        /\ Len(Split(uri, "/")) = Occurrences(uri, "/") + 1 /\ Occurrences(uri, "/") \in Nat
    BY <1>2, SplitLength
  <2> QED
    BY <2>1, <2>2
<1>14. CopyWCStringByIndex(uri, index, total, m - 1) = {Split(uri, "/")[m]}
  <2>1. m \in 2..Occurrences(uri, "/") + 1
    BY <1>8, <1>9, <1>13
  <2>2. m = Occurrences(uri, "/") + 1 => index = total
    BY <1>12, <1>13
  <2> QED
    BY <2>1, <2>2, CopyIsPart, Zenon
<1>15. ~(index > GetWildCardCount(endpoint))
  BY <1>1, <1>2, <1>3
<1> QED
  BY <1>2, <1>10, <1>11, <1>14, <1>15, Zenon DEF GetWildCardByIndex

-----------------------------------------------------------------------------
(* The rows of VmRestParseParams.                                          *)

\* There are such rows for every number of parameters.
LEMMA RowsExist ==
  ASSUME NEW s, NEW count \in Nat
  PROVE  \E pairs : AreRows(s, count, pairs)
<1> DEFINE Bad == {n \in Nat : ~\E pairs : AreRows(s, n, pairs)}
           none == [key \in 0..Len(s) |-> {<<>>}]
<1>1. SUFFICES ASSUME Bad # {} PROVE FALSE
  OBVIOUS
<1>2. PICK n \in Bad : \A k \in Bad : n <= k
  <2>1. Bad \in SUBSET Nat
    OBVIOUS
  <2> QED
    BY <1>1, <2>1, LeastNumber, Zenon
<1>3. n # 0
  <2>1. SUFFICES ASSUME n = 0 PROVE FALSE
    OBVIOUS
  <2>2. PICK rows : rows = [k \in 0..0 |-> IF k = 0 THEN none ELSE {}]
    OBVIOUS
  <2>3. rows = [k \in 0..0 |-> IF k = 0 THEN none ELSE PairsBehind(s, rows[k - 1])]
    <3>1. \A k \in 0..0 : k = 0
      OBVIOUS
    <3> HIDE DEF none
    <3> QED
      BY <2>2, <3>1
  <2> QED
    BY <1>2, <2>1, <2>3, Zenon DEF AreRows
<1>4. n - 1 \in Nat /\ n \in Nat /\ ~(n <= n - 1)
  BY <1>2, <1>3
<1>5. n - 1 \notin Bad
  BY <1>2, <1>4, Zenon
<1>6. PICK pairs : AreRows(s, n - 1, pairs)
  BY <1>4, <1>5
<1>7. PICK rows : rows = [k \in 0..n |-> IF k = n THEN PairsBehind(s, pairs[n - 1]) ELSE pairs[k]]
  OBVIOUS
<1>8. \A k \in 0..n - 1 : pairs[k] = IF k = 0 THEN none ELSE PairsBehind(s, pairs[k - 1])
  <2> HIDE DEF none
  <2>1. pairs = [k \in 0..n - 1 |-> IF k = 0 THEN none ELSE PairsBehind(s, pairs[k - 1])]
    BY <1>6, Zenon DEF AreRows, none
  <2> QED
    BY <2>1, Zenon
<1> HIDE DEF none, Bad
<1>9. ASSUME NEW k \in 0..n PROVE rows[k] = IF k = 0 THEN none ELSE PairsBehind(s, rows[k - 1])
  <2>1. CASE k = n
    <3>1. rows[k] = PairsBehind(s, pairs[n - 1])
      BY <1>7, <2>1
    <3>2. n - 1 \in 0..n /\ n - 1 # n
      BY <1>4
    <3>3. rows[n - 1] = pairs[n - 1]
      BY <1>7, <3>2
    <3> QED
      BY <1>3, <2>1, <3>1, <3>3, Zenon
  <2>2. CASE k # n
    <3>1. k \in 0..n - 1
      BY <1>4, <2>2
    <3>2. rows[k] = pairs[k]
      BY <1>7, <2>2
    <3>3. k # 0 => rows[k - 1] = pairs[k - 1]
      <4>1. k # 0 => k - 1 \in 0..n /\ k - 1 # n
        BY <1>4, <3>1
      <4> QED
        BY <1>7, <4>1
    <3> QED
      BY <1>8, <3>1, <3>2, <3>3, Zenon
  <2> QED
    BY <2>1, <2>2
<1>10. rows = [k \in 0..n |-> IF k = 0 THEN none ELSE PairsBehind(s, rows[k - 1])]
  BY <1>7, <1>9
<1>11. AreRows(s, n, rows)
  BY <1>10, Zenon DEF AreRows, none
<1> QED
  BY <1>2, <1>11, Zenon DEF Bad

\* The parameters are an entry of rows that obey the recursion.
LEMMA ParamsHaveRows ==
  ASSUME NEW s, NEW count \in Nat, ~(count > MaxParams)
  PROVE  \E pairs : /\ ParseParams(s, count) = pairs[count][QueryMark(s)]
                    /\ pairs[0] = [key \in 0..Len(s) |-> {<<>>}]
                    /\ \A n \in 1..count : pairs[n] = PairsBehind(s, pairs[n - 1])
<1>1. PICK pairs : pairs = CHOOSE rows : AreRows(s, count, rows)
  OBVIOUS
<1>2. AreRows(s, count, pairs)
  BY <1>1, RowsExist, Zenon
<1>3. \A n \in 0..count : pairs[n] = IF n = 0 THEN [key \in 0..Len(s) |-> {<<>>}] ELSE PairsBehind(s, pairs[n - 1])
  BY <1>2, Zenon DEF AreRows
<1>4. 0 \in 0..count /\ \A n \in 1..count : n \in 0..count /\ n # 0
  OBVIOUS
<1>5. ParseParams(s, count) = pairs[count][QueryMark(s)]
  BY <1>1, ParamsAreRows, Zenon
<1> QED
  BY <1>3, <1>4, <1>5, Zenon

-----------------------------------------------------------------------------
(* Numbers one after the other, and parts of parts.                        *)

\* What grows at each step grows.
LEMMA StepwiseGrows ==
  ASSUME NEW a \in Nat, NEW n \in Nat, NEW g, \A i \in a..n : g[i] \in Nat,
         \A i \in a..n - 1 : g[i] < g[i + 1]
  PROVE  \A i, j \in a..n : i < j => g[i] < g[j]
<1>1. SUFFICES ASSUME NEW i \in a..n, NEW k \in a..n, i < k, ~(g[i] < g[k]) PROVE FALSE
  OBVIOUS
<1>2. PICK Bad : Bad = {j \in a..n : i < j /\ ~(g[i] < g[j])}
  OBVIOUS
<1>3. PICK j \in Bad : \A m \in Bad : j <= m
  <2>1. Bad \in SUBSET Nat /\ Bad # {}
    BY <1>1, <1>2
  <2> QED
    BY <2>1, LeastNumber, Zenon
<1>4. j \in a..n /\ i < j /\ ~(g[i] < g[j])
  BY <1>2, <1>3, Zenon
<1>5. j - 1 \in a..n /\ j - 1 \in a..n - 1 /\ (j - 1) + 1 = j /\ ~(j <= j - 1)
  BY <1>1, <1>4
<1>6. g[j - 1] < g[j] /\ g[j - 1] \in Nat /\ g[j] \in Nat /\ g[i] \in Nat
  BY <1>1, <1>4, <1>5
<1>7. i = j - 1 \/ i < j - 1
  BY <1>1, <1>4
<1>8. j - 1 \notin Bad
  BY <1>3, <1>5, Zenon
<1>9. i < j - 1 => g[i] < g[j - 1]
  BY <1>2, <1>5, <1>8, Zenon
<1>10. g[i] <= g[j - 1]
  BY <1>6, <1>7, <1>9
<1> QED
  BY <1>4, <1>6, <1>10

\* Counting a set of numbers off in their order.
LEMMA EnumerationIs ==
  ASSUME NEW S \in SUBSET Nat, NEW n \in Nat, NEW g \in [1..n -> S],
         \A i, j \in 1..n : i < j => g[i] < g[j],
         \A x \in S : \E i \in 1..n : g[i] = x
  PROVE  /\ IsFiniteSet(S) /\ Cardinality(S) = n
         /\ \A i \in 1..n : Nth(S, i) = g[i]
<1>1. \A i \in 1..n : g[i] \in S /\ g[i] \in Nat
  OBVIOUS
<1>2. \A i, j \in 1..n : (i < j <=> g[i] < g[j]) /\ (g[i] = g[j] => i = j)
  BY <1>1
<1>3. ExistsBijection(1..n, S)
  BY <1>2, Zenon DEF ExistsBijection, Bijection, Injection, Surjection, IsInjective
<1>4. IsFiniteSet(S) /\ Cardinality(S) = n
  BY <1>3, FS_NatBijection, FS_CountingElements, Zenon
<1>5. ASSUME NEW i \in 1..n PROVE Nth(S, i) = g[i]
  <2>1. PICK B, h : B = Below(S, g[i]) /\ h = [j \in 1..i - 1 |-> g[j]]
    OBVIOUS
  <2>2. \A j \in 1..i - 1 : j \in 1..n /\ j < i
    OBVIOUS
  <2>3. \A j \in 1..i - 1 : g[j] \in B
    BY <1>1, <1>2, <2>1, <2>2 DEF Below
  <2>4. h \in [1..i - 1 -> B]
    BY <2>1, <2>3
  <2>5. \A j, k \in 1..i - 1 : h[j] = h[k] => j = k
    BY <1>2, <2>1, <2>2
  <2>6. \A x \in B : \E j \in 1..i - 1 : h[j] = x
    <3>1. SUFFICES ASSUME NEW x \in B PROVE \E j \in 1..i - 1 : h[j] = x
      OBVIOUS
    <3>2. x \in S /\ x < g[i]
      BY <2>1, <3>1 DEF Below
    <3>3. PICK j \in 1..n : g[j] = x
      BY <3>2
    <3>4. j < i
      BY <1>2, <3>2, <3>3
    <3>5. j \in 1..i - 1
      BY <3>4
    <3> QED
      BY <2>1, <3>3, <3>5
  <2>7. ExistsBijection(1..i - 1, B)
    BY <2>4, <2>5, <2>6, Zenon DEF ExistsBijection, Bijection, Injection, Surjection, IsInjective
  <2>8. i - 1 \in Nat
    OBVIOUS
  <2>9. Cardinality(Below(S, g[i])) = i - 1
    BY <2>1, <2>7, <2>8, FS_CountingElements, Zenon
  <2>10. i \in 1..Cardinality(S)
    BY <1>4, Zenon
  <2>11. \A x \in S : Cardinality(Below(S, x)) = i - 1 => x = Nth(S, i)
    BY <1>4, <2>10, NthIs, Zenon
  <2> QED
    BY <1>1, <2>9, <2>11, Zenon
<1> QED
  BY <1>4, <1>5, Zenon

\* As many numbers as the set has are all of them.
LEMMA EnumeratesAll ==
  ASSUME NEW S \in SUBSET Nat, IsFiniteSet(S), NEW n \in Nat, Cardinality(S) = n, NEW g \in [1..n -> S],
         \A i, j \in 1..n : i < j => g[i] < g[j]
  PROVE  \A x \in S : \E i \in 1..n : g[i] = x
<1>1. \A i \in 1..n : g[i] \in S /\ g[i] \in Nat
  OBVIOUS
<1>2. \A i, j \in 1..n : g[i] = g[j] => i = j
  BY <1>1
<1>3. g \in Injection(1..n, S)
  BY <1>2, Zenon DEF Injection, IsInjective
<1>4. Cardinality(1..n) = n
  <2>1. Cardinality(1..n) = IF 1 > n THEN 0 ELSE n - 1 + 1
    BY FS_Interval
  <2> QED
    BY <2>1
<1>5. g \in Surjection(1..n, S)
  BY <1>3, <1>4, FS_Injection, Zenon
<1> QED
  BY <1>5, Zenon DEF Surjection

\* What is counted one by one.
LEMMA CountedIs ==
  ASSUME NEW S \in SUBSET Nat, NEW n \in Nat, NEW g \in [1..n -> Nat],
         \A i, j \in 1..n : i < j => g[i] < g[j],
         \A x : x \in S <=> \E i \in 1..n : g[i] = x
  PROVE  IsFiniteSet(S) /\ Cardinality(S) = n
<1>1. g \in [1..n -> S]
  OBVIOUS
<1>2. \A x \in S : \E i \in 1..n : g[i] = x
  OBVIOUS
<1> QED
  BY <1>1, <1>2, EnumerationIs, Zenon

-----------------------------------------------------------------------------
(* Pieces of a string.                                                     *)

\* What stands between two places.
Piece(s, x, y) == SubSeq(s, x + 1, y - 1)

\* Of a part of a string, and a part of that.
LEMMA PieceOfPiece ==
  ASSUME NEW Char, NEW s \in Seq(Char), NEW x \in 0..Len(s), NEW y \in 1..Len(s) + 1, x < y,
         NEW t, t = Piece(s, x, y)
  PROVE  /\ t \in Seq(Char) /\ Len(t) = (y - 1) - x /\ \A i \in 1..Len(t) : t[i] = s[x + i]
         /\ \A a \in 0..Len(t), b \in 1..Len(t) + 1 : a < b => Piece(t, a, b) = Piece(s, x + a, x + b)
<1>1. Len(s) \in Nat
  BY LenProperties
<1>2. t \in Seq(Char) /\ Len(t) = (y - 1) - x /\ \A i \in 1..(y - 1) - x : t[i] = s[x + i]
  <2>1. \A k \in 0..Len(s), l \in 1..Len(s) + 1 :
          k < l => /\ SubSeq(s, k + 1, l - 1) \in Seq(Char) /\ Len(SubSeq(s, k + 1, l - 1)) = (l - 1) - k
                   /\ \A i \in 1..(l - 1) - k : SubSeq(s, k + 1, l - 1)[i] = s[k + i]
    BY PieceIs
  <2> QED
    BY <2>1, Zenon DEF Piece
<1>3. ASSUME NEW a \in 0..Len(t), NEW b \in 1..Len(t) + 1, a < b
      PROVE  Piece(t, a, b) = Piece(s, x + a, x + b)
  <2>1. x + a \in 0..Len(s) /\ x + b \in 1..Len(s) + 1 /\ x + a < x + b /\ Len(t) \in Nat
        /\ a + 1 \in Nat /\ b - 1 \in Nat
    BY <1>1, <1>2, <1>3
  <2>2. Piece(t, a, b) = [i \in 1..(b - 1) - a |-> t[a + i]]
    BY <1>2, <1>3, <2>1 DEF Piece
  <2>3. Piece(s, x + a, x + b) = [i \in 1..(b - 1) - a |-> s[(x + a) + i]]
    BY <1>1, <1>3, <2>1 DEF Piece
  <2>4. \A i \in 1..(b - 1) - a : t[a + i] = s[(x + a) + i]
    <3>1. SUFFICES ASSUME NEW i \in 1..(b - 1) - a PROVE t[a + i] = s[(x + a) + i]
      OBVIOUS
    <3>2. a + i \in 1..(y - 1) - x /\ x + (a + i) = (x + a) + i
      BY <1>2, <1>3, <2>1
    <3> QED
      BY <1>2, <3>2
  <2> QED
    BY <2>2, <2>3, <2>4
<1> QED
  BY <1>2, <1>3

\* A string with one cut has two parts.
LEMMA SplitInTwo ==
  ASSUME NEW Char, NEW t \in Seq(Char), NEW c, NEW e \in 1..Len(t),
         \A i \in 1..Len(t) : t[i] = c <=> i = e
  PROVE  /\ Occurrences(t, c) = 1
         /\ Split(t, c)[1] = Piece(t, 0, e) /\ Split(t, c)[2] = Piece(t, e, Len(t) + 1)
<1>1. PlacesOf(t, c) = {e} /\ Len(t) \in Nat
  BY LenProperties DEF PlacesOf
<1>2. Occurrences(t, c) = 1
  BY <1>1, FS_Singleton, Zenon DEF Occurrences
<1>3. PICK S, L : S = Cuts(t, c) /\ L = Len(t) + 1
  OBVIOUS
<1>4. S = {0, e, L} /\ 0 < e /\ e < L /\ L \in Nat /\ e \in Nat
  BY <1>1, <1>3 DEF Cuts
<1>5. PICK g : g = [i \in 1..3 |-> IF i = 1 THEN 0 ELSE IF i = 2 THEN e ELSE L]
  OBVIOUS
<1>6. g[1] = 0 /\ g[2] = e /\ g[3] = L /\ g \in [1..3 -> S]
  BY <1>4, <1>5
<1>7. \A i, j \in 1..3 : i < j => g[i] < g[j]
  BY <1>4, <1>5
<1>8. \A x \in S : \E i \in 1..3 : g[i] = x
  <2>1. 1 \in 1..3 /\ 2 \in 1..3 /\ 3 \in 1..3
    OBVIOUS
  <2> QED
    BY <1>4, <1>6, <2>1, Zenon
<1>9. Nth(S, 1) = 0 /\ Nth(S, 2) = e /\ Nth(S, 3) = L
  <2>1. S \in SUBSET Nat /\ 3 \in Nat
    BY <1>4
  <2>2. \A i \in 1..3 : Nth(S, i) = g[i]
    BY <1>6, <1>7, <1>8, <2>1, EnumerationIs, Zenon
  <2> QED
    BY <1>6, <2>2
<1>10. Split(t, c) = [m \in 1..2 |-> Piece(t, Nth(S, m), Nth(S, m + 1))]
  <2>1. Split(t, c) = [m \in 1..Occurrences(t, c) + 1 |-> Piece(t, Nth(S, m), Nth(S, m + 1))]
    BY <1>3, SplitIs, Zenon DEF Piece
  <2>2. 1 + 1 = 2
    OBVIOUS
  <2> QED
    BY <1>2, <2>1, <2>2, Zenon
<1>11. 1 \in 1..2 /\ 2 \in 1..2 /\ 1 + 1 = 2 /\ 2 + 1 = 3
  OBVIOUS
<1>12. Split(t, c)[1] = Piece(t, Nth(S, 1), Nth(S, 1 + 1)) /\ Split(t, c)[2] = Piece(t, Nth(S, 2), Nth(S, 2 + 1))
  BY <1>10, <1>11, Zenon
<1> QED
  BY <1>2, <1>3, <1>9, <1>11, <1>12, Zenon

-----------------------------------------------------------------------------
(* A query of pairs: a '=' between any two delimiters.                     *)

\* d[0] is the mark of the query, d[i] the '&' behind the i-th pair or the
\* end of the URI, v[i] the '=' of the i-th pair; there is no other '=' or '&'.
Alternates(s, n, d, v) ==
  /\ n \in Nat \ {0} /\ d \in [0..n -> Nat] /\ v \in [1..n -> Nat]
  /\ QueryMark(s) # 0 /\ d[0] = QueryMark(s) /\ d[n] = Len(s) + 1
  /\ \A i \in 1..n : d[i - 1] < v[i] /\ v[i] < d[i]
  /\ PlacesOf(s, "=") = {v[i] : i \in 1..n}
  /\ PlacesOf(s, "&") = {d[i] : i \in 1..n - 1}

\* The mark of a query is a place of its own.
LEMMA MarkIs ==
  ASSUME NEW Char, NEW s \in Seq(Char), NEW Q, Q = QueryMark(s), Q # 0
  PROVE  Q \in 1..Len(s) /\ Len(s) \in Nat /\ s[Q] # "=" /\ s[Q] # "&"
<1>1. \A c : \/ FirstFrom(s, 1, c) = 0
             \/ FirstFrom(s, 1, c) \in 1..Len(s) /\ s[FirstFrom(s, 1, c)] = c
  BY FirstFromFinds
<1>2. Q = FirstFrom(s, 1, "?") \/ Q = FirstFrom(s, 1, "%3F")
  BY Zenon DEF QueryMark
<1>3. Q \in 1..Len(s) /\ (s[Q] = "?" \/ s[Q] = "%3F")
  BY <1>1, <1>2, Zenon
<1>4. Len(s) \in Nat
  BY LenProperties
<1> QED
  BY <1>3, <1>4

\* The delimiters stand in order.
LEMMA InOrder ==
  ASSUME NEW Char, NEW s \in Seq(Char), NEW n, NEW d, NEW v, Alternates(s, n, d, v)
  PROVE  /\ n \in Nat \ {0} /\ Len(s) \in Nat /\ d[0] \in 1..Len(s) /\ d[n] = Len(s) + 1
         /\ \A i \in 0..n : d[i] \in 1..Len(s) + 1
         /\ \A i \in 1..n : v[i] \in 1..Len(s) /\ i - 1 \in 0..n /\ d[i - 1] < v[i] /\ v[i] < d[i]
         /\ \A i, j \in 0..n : i < j => d[i] < d[j]
         /\ \A i, j \in 1..n : i < j => v[i] < v[j]
<1>1. /\ n \in Nat \ {0} /\ Len(s) \in Nat /\ d \in [0..n -> Nat] /\ v \in [1..n -> Nat]
      /\ d[0] \in 1..Len(s) /\ d[n] = Len(s) + 1
      /\ \A i \in 1..n : d[i - 1] < v[i] /\ v[i] < d[i]
  BY MarkIs DEF Alternates
<1>2. (\A i \in 0..n : d[i] \in Nat) /\ (\A i \in 1..n : v[i] \in Nat)
  BY <1>1
<1>3. \A i \in 0..n - 1 : d[i] < d[i + 1]
  <2>1. SUFFICES ASSUME NEW i \in 0..n - 1 PROVE d[i] < d[i + 1]
    OBVIOUS
  <2>2. i + 1 \in 1..n /\ (i + 1) - 1 = i /\ i \in 0..n /\ i + 1 \in 0..n
    BY <1>1
  <2>3. d[i] < v[i + 1] /\ v[i + 1] < d[i + 1]
    BY <1>1, <2>2
  <2> QED
    BY <1>2, <2>2, <2>3
<1>4. \A i, j \in 0..n : i < j => d[i] < d[j]
  BY <1>1, <1>2, <1>3, StepwiseGrows
<1>5. \A i \in 1..n - 1 : v[i] < v[i + 1]
  <2>1. SUFFICES ASSUME NEW i \in 1..n - 1 PROVE v[i] < v[i + 1]
    OBVIOUS
  <2>2. i + 1 \in 1..n /\ (i + 1) - 1 = i /\ i \in 1..n /\ i \in 0..n
    BY <1>1
  <2>3. v[i] < d[i] /\ d[i] < v[i + 1]
    BY <1>1, <2>2
  <2> QED
    BY <1>2, <2>2, <2>3
<1>6. \A i, j \in 1..n : i < j => v[i] < v[j]
  BY <1>1, <1>2, <1>5, StepwiseGrows
<1>7. \A i \in 0..n : d[i] \in 1..Len(s) + 1
  <2>1. SUFFICES ASSUME NEW i \in 0..n PROVE d[i] \in 1..Len(s) + 1
    OBVIOUS
  <2>2. i = 0 \/ d[0] < d[i]
    BY <1>1, <1>4
  <2>3. i = n \/ d[i] < d[n]
    BY <1>1, <1>4
  <2> QED
    BY <1>1, <1>2, <2>2, <2>3
<1>8. ASSUME NEW i \in 1..n PROVE v[i] \in 1..Len(s) /\ i - 1 \in 0..n /\ d[i - 1] < v[i] /\ v[i] < d[i]
  <2>1. i \in 0..n /\ i - 1 \in 0..n /\ d[i - 1] < v[i] /\ v[i] < d[i]
    BY <1>1
  <2>2. d[i - 1] \in 1..Len(s) + 1 /\ d[i] \in 1..Len(s) + 1 /\ v[i] \in Nat
    BY <1>2, <1>7, <2>1
  <2> QED
    BY <1>1, <2>1, <2>2
<1> QED
  BY <1>1, <1>4, <1>6, <1>7, <1>8

\* Between two delimiters there is one '=', and nothing else that counts.
LEMMA OneBetween ==
  ASSUME NEW Char, NEW s \in Seq(Char), NEW n, NEW d, NEW v, Alternates(s, n, d, v)
  PROVE  /\ \A x \in 1..Len(s) : x < d[0] => s[x] # "=" /\ s[x] # "&"
         /\ \A i \in 1..n, x \in 1..Len(s) :
              d[i - 1] < x /\ x < d[i] => s[x] # "&" /\ (s[x] = "=" <=> x = v[i])
         /\ \A i \in 1..n - 1 : d[i] \in 1..Len(s) /\ s[d[i]] = "&"
         /\ \A i \in 1..n : s[v[i]] = "="
<1>1. /\ n \in Nat \ {0} /\ Len(s) \in Nat /\ d[0] \in 1..Len(s) /\ d[n] = Len(s) + 1
      /\ \A i \in 0..n : d[i] \in 1..Len(s) + 1
      /\ \A i \in 1..n : v[i] \in 1..Len(s) /\ i - 1 \in 0..n /\ d[i - 1] < v[i] /\ v[i] < d[i]
      /\ \A i, j \in 0..n : i < j => d[i] < d[j]
      /\ \A i, j \in 1..n : i < j => v[i] < v[j]
  BY InOrder
<1>2. /\ \A x \in 1..Len(s) : s[x] = "=" <=> \E j \in 1..n : x = v[j]
      /\ \A x \in 1..Len(s) : s[x] = "&" <=> \E j \in 1..n - 1 : x = d[j]
  <2>2. PlacesOf(s, "=") = {v[i] : i \in 1..n} /\ PlacesOf(s, "&") = {d[i] : i \in 1..n - 1}
    BY Zenon DEF Alternates
  <2>3. \A x \in 1..Len(s) : s[x] = "=" <=> x \in PlacesOf(s, "=")
    BY LenProperties DEF PlacesOf
  <2>4. \A x \in 1..Len(s) : s[x] = "&" <=> x \in PlacesOf(s, "&")
    BY LenProperties DEF PlacesOf
  <2> QED
    BY <2>2, <2>3, <2>4
<1>3. ASSUME NEW x \in 1..Len(s), x < d[0] PROVE s[x] # "=" /\ s[x] # "&"
  <2>1. ASSUME NEW j \in 1..n, x = v[j] PROVE FALSE
    <3>1. j - 1 = 0 \/ d[0] < d[j - 1]
      BY <1>1
    <3>2. d[j - 1] < v[j] /\ d[j - 1] \in 1..Len(s) + 1
      BY <1>1
    <3> QED
      BY <1>1, <1>3, <2>1, <3>1, <3>2
  <2>2. ASSUME NEW j \in 1..n - 1, x = d[j] PROVE FALSE
    <3>1. d[0] < d[j] /\ d[j] \in 1..Len(s) + 1
      BY <1>1
    <3> QED
      BY <1>1, <1>3, <2>2, <3>1
  <2> QED
    BY <1>2, <2>1, <2>2
<1>4. ASSUME NEW i \in 1..n, NEW x \in 1..Len(s), d[i - 1] < x, x < d[i]
      PROVE  s[x] # "&" /\ (s[x] = "=" <=> x = v[i])
  <2>0. d[i - 1] \in 1..Len(s) + 1 /\ d[i] \in 1..Len(s) + 1 /\ i - 1 \in 0..n /\ i \in 0..n
    BY <1>1
  <2>1. ASSUME NEW j \in 1..n, x = v[j] PROVE j = i
    <3>1. v[j] \in 1..Len(s) /\ d[j - 1] < v[j] /\ v[j] < d[j] /\ j \in 0..n /\ j - 1 \in 0..n
          /\ d[j - 1] \in 1..Len(s) + 1 /\ d[j] \in 1..Len(s) + 1
      BY <1>1
    <3>2. j < i => j = i - 1 \/ d[j] < d[i - 1]
      <4>1. j < i => j = i - 1 \/ j < i - 1
        BY <1>1
      <4> QED
        BY <1>1, <2>0, <3>1, <4>1
    <3>3. i < j => i = j - 1 \/ d[i] < d[j - 1]
      <4>1. i < j => i = j - 1 \/ i < j - 1
        BY <1>1
      <4> QED
        BY <1>1, <2>0, <3>1, <4>1
    <3>4. ~(j < i)
      BY <1>4, <2>0, <2>1, <3>1, <3>2
    <3>5. ~(i < j)
      BY <1>4, <2>0, <2>1, <3>1, <3>3
    <3> QED
      BY <1>1, <3>4, <3>5
  <2>2. ASSUME NEW j \in 1..n - 1, x = d[j] PROVE FALSE
    <3>1. j \in 0..n /\ d[j] \in 1..Len(s) + 1
      BY <1>1
    <3>2. j = i - 1 \/ j = i \/ j < i - 1 \/ i < j
      BY <1>1
    <3>3. x \in Nat /\ d[i - 1] \in Nat /\ d[i] \in Nat
      BY <1>1, <2>0
    <3>4. j # i - 1 /\ j # i
      BY <1>4, <2>2, <3>3
    <3>5. j < i - 1 => d[j] < d[i - 1]
      BY <1>1, <2>0, <3>1, Zenon
    <3>6. i < j => d[i] < d[j]
      BY <1>1, <2>0, <3>1, Zenon
    <3> QED
      BY <1>4, <2>2, <3>2, <3>3, <3>4, <3>5, <3>6
  <2> QED
    BY <1>2, <2>1, <2>2
<1>5. ASSUME NEW i \in 1..n - 1 PROVE d[i] \in 1..Len(s) /\ s[d[i]] = "&"
  <2>1. i \in 0..n /\ n \in 0..n /\ i < n
    BY <1>1
  <2>2. d[i] < d[n] /\ d[i] \in 1..Len(s) + 1
    BY <1>1, <2>1
  <2>3. d[i] \in 1..Len(s)
    BY <1>1, <2>2
  <2> QED
    BY <1>2, <2>3
<1>6. ASSUME NEW i \in 1..n PROVE s[v[i]] = "="
  BY <1>1, <1>2
<1> QED
  BY <1>3, <1>4, <1>5, <1>6

\* How often the two characters stand in the URI.
LEMMA CountsAre ==
  ASSUME NEW Char, NEW s \in Seq(Char), NEW n, NEW d, NEW v, Alternates(s, n, d, v)
  PROVE  Occurrences(s, "=") = n /\ Occurrences(s, "&") = n - 1
<1>1. /\ n \in Nat \ {0} /\ d \in [0..n -> Nat] /\ v \in [1..n -> Nat]
      /\ PlacesOf(s, "=") = {v[i] : i \in 1..n} /\ PlacesOf(s, "&") = {d[i] : i \in 1..n - 1}
  BY Zenon DEF Alternates
<1>2. (\A i, j \in 0..n : i < j => d[i] < d[j]) /\ (\A i, j \in 1..n : i < j => v[i] < v[j])
  BY InOrder, Zenon
<1>3. PlacesOf(s, "=") \in SUBSET Nat /\ PlacesOf(s, "&") \in SUBSET Nat
  BY PlacesAre, Zenon
<1>4. Cardinality(PlacesOf(s, "=")) = n
  <2>1. \A x : x \in PlacesOf(s, "=") <=> \E i \in 1..n : v[i] = x
    BY <1>1
  <2>2. n \in Nat
    BY <1>1
  <2> QED
    BY <1>1, <1>2, <1>3, <2>1, <2>2, CountedIs, Zenon
<1>5. Cardinality(PlacesOf(s, "&")) = n - 1
  <2>1. PICK g, m : g = [i \in 1..n - 1 |-> d[i]] /\ m = n - 1
    OBVIOUS
  <2>2. m \in Nat /\ \A i \in 1..m : i \in 0..n /\ g[i] = d[i] /\ d[i] \in Nat
    BY <1>1, <2>1
  <2>3. g \in [1..m -> Nat]
    BY <2>1, <2>2
  <2>4. \A i, j \in 1..m : i < j => g[i] < g[j]
    BY <1>2, <2>2
  <2>5. \A x : x \in PlacesOf(s, "&") <=> \E i \in 1..m : g[i] = x
    BY <1>1, <2>1, <2>2
  <2> QED
    BY <1>3, <2>1, <2>2, <2>3, <2>4, <2>5, CountedIs, Zenon
<1> QED
  BY <1>4, <1>5, Zenon DEF Occurrences

\* strchr finds the delimiters one after the other.
LEMMA FoundInTurn ==
  ASSUME NEW Char, NEW s \in Seq(Char), NEW n, NEW d, NEW v, Alternates(s, n, d, v), NEW i \in 1..n
  PROVE  /\ FirstFrom(s, d[i - 1], "=") = v[i]
         /\ FirstFrom(s, v[i], "&") = (IF i = n THEN 0 ELSE d[i])
         /\ Between(s, d[i - 1], v[i]) = Piece(s, d[i - 1], v[i])
         /\ Between(s, v[i], IF i = n THEN 0 ELSE d[i]) = Piece(s, v[i], d[i])
<1>1. /\ n \in Nat \ {0} /\ Len(s) \in Nat /\ d[0] \in 1..Len(s) /\ d[n] = Len(s) + 1
      /\ \A k \in 0..n : d[k] \in 1..Len(s) + 1
      /\ \A k \in 1..n : v[k] \in 1..Len(s) /\ k - 1 \in 0..n /\ d[k - 1] < v[k] /\ v[k] < d[k]
  BY InOrder, Zenon
<1>2. /\ \A k \in 1..n, x \in 1..Len(s) :
           d[k - 1] < x /\ x < d[k] => s[x] # "&" /\ (s[x] = "=" <=> x = v[k])
      /\ \A k \in 1..n - 1 : d[k] \in 1..Len(s) /\ s[d[k]] = "&"
      /\ \A k \in 1..n : s[v[k]] = "="
  BY OneBetween
<1>3. PICK a, e, b : a = d[i - 1] /\ e = v[i] /\ b = d[i]
  OBVIOUS
<1>4. /\ a \in 1..Len(s) + 1 /\ b \in 1..Len(s) + 1 /\ e \in 1..Len(s) /\ a < e /\ e < b /\ s[e] = "="
      /\ \A x \in 1..Len(s) : a < x /\ x < b => s[x] # "&" /\ (s[x] = "=" <=> x = e)
  <2>1. i \in 0..n
    BY <1>1
  <2> QED
    BY <1>1, <1>2, <1>3, <2>1, Zenon
<1>5. a \in Nat /\ e \in Nat /\ b \in Nat /\ a \in 1..Len(s)
  BY <1>1, <1>4
<1>6. s[a] # "="
  <2>1. CASE i = 1
    <3>1. a = QueryMark(s) /\ QueryMark(s) # 0
      BY <1>3, <2>1 DEF Alternates
    <3> QED
      BY <3>1, MarkIs, Zenon
  <2>2. CASE i # 1
    <3>1. i - 1 \in 1..n - 1
      BY <1>1, <2>2
    <3>2. s[a] = "&"
      BY <1>2, <1>3, <3>1, Zenon
    <3> QED
      BY <3>2
  <2> QED
    BY <2>1, <2>2
<1>7. FirstFrom(s, a, "=") = e
  <2>1. \A x \in 1..Len(s) : x >= a /\ x < e => s[x] # "="
    <3>1. SUFFICES ASSUME NEW x \in 1..Len(s), x >= a, x < e PROVE s[x] # "="
      OBVIOUS
    <3>2. x = a \/ (a < x /\ x < b /\ x # e)
      <4>1. a < e /\ e < b /\ x \in Nat
        BY <1>4, <3>1
      <4> QED
        BY <1>5, <3>1, <4>1
    <3> QED
      BY <1>4, <1>6, <3>2, Zenon
  <2>2. e >= a
    BY <1>4, <1>5
  <2> QED
    BY <1>4, <1>5, <2>1, <2>2, FirstFromIs
<1>8. \A x \in 1..Len(s) : x >= e /\ x < b => s[x] # "&"
  BY <1>4, <1>5
<1>9. ASSUME i = n PROVE FirstFrom(s, e, "&") = 0 /\ Between(s, e, 0) = Piece(s, e, b)
  <2>1. b = Len(s) + 1 /\ b - 1 = Len(s)
    BY <1>1, <1>3, <1>9
  <2>2. \A x \in 1..Len(s) : x >= e => s[x] # "&"
    BY <1>1, <1>8, <2>1
  <2>3. FirstFrom(s, e, "&") = 0
    BY <1>5, <2>2, FirstFromNone
  <2> QED
    BY <2>1, <2>3, Zenon DEF Between, Piece
<1>10. ASSUME i # n PROVE FirstFrom(s, e, "&") = b /\ Between(s, e, b) = Piece(s, e, b)
  <2>1. i \in 1..n - 1
    BY <1>1, <1>10
  <2>2. b \in 1..Len(s) /\ s[b] = "&"
    BY <1>2, <1>3, <2>1, Zenon
  <2>3. b >= e /\ b # 0
    BY <1>4, <1>5
  <2>4. FirstFrom(s, e, "&") = b
    BY <1>5, <1>8, <2>2, <2>3, FirstFromIs
  <2> QED
    BY <2>3, <2>4, Zenon DEF Between, Piece
<1>11. Between(s, a, e) = Piece(s, a, e)
  <2>1. e # 0
    BY <1>4
  <2> QED
    BY <2>1, Zenon DEF Between, Piece
<1> QED
  BY <1>3, <1>7, <1>9, <1>10, <1>11, Zenon

\* A key and its value.
KeyValue(key, value) == [key |-> key, value |-> value]
KeyValues(Char) == [key : Seq(Char), value : Seq(Char)]

\* A pair the buffers of VmRestParseParams hold.
Fits(pair) == Len(pair.key) < MaxKeyLen /\ Len(pair.value) < MaxKeyLen

\* The pairs between those delimiters.
PairsAt(s, n, d, v) ==
  [i \in 1..n |-> KeyValue(Piece(s, d[i - 1], v[i]), Piece(s, v[i], d[i]))]

\* The pairs are keys and values out of the URI.
LEMMA PairsAtIs ==
  ASSUME NEW Char, NEW s \in Seq(Char), NEW n, NEW d, NEW v, Alternates(s, n, d, v)
  PROVE  /\ PairsAt(s, n, d, v) \in Seq(KeyValues(Char))
         /\ Len(PairsAt(s, n, d, v)) = n /\ DOMAIN PairsAt(s, n, d, v) = 1..n
         /\ \A i \in 1..n : PairsAt(s, n, d, v)[i]
                           = KeyValue(Piece(s, d[i - 1], v[i]), Piece(s, v[i], d[i]))
<1>0. PICK all : all = PairsAt(s, n, d, v)
  OBVIOUS
<1>1. /\ n \in Nat \ {0} /\ Len(s) \in Nat
      /\ \A k \in 0..n : d[k] \in 1..Len(s) + 1
      /\ \A k \in 1..n : v[k] \in 1..Len(s) /\ k - 1 \in 0..n /\ d[k - 1] < v[k] /\ v[k] < d[k]
  BY InOrder, Zenon
<1>2. \A i \in 1..n : all[i] = KeyValue(Piece(s, d[i - 1], v[i]), Piece(s, v[i], d[i]))
  BY <1>0, Zenon DEF PairsAt
<1>3. \A x \in 0..Len(s), y \in 1..Len(s) + 1 : x < y => Piece(s, x, y) \in Seq(Char)
  BY PieceOfPiece, Zenon
<1>4. ASSUME NEW i \in 1..n PROVE all[i] \in KeyValues(Char)
  <2>1. i \in 0..n /\ v[i] \in 1..Len(s) /\ d[i - 1] \in 1..Len(s) + 1 /\ d[i] \in 1..Len(s) + 1
        /\ d[i - 1] < v[i] /\ v[i] < d[i]
    BY <1>1
  <2>2. d[i - 1] \in 0..Len(s) /\ v[i] \in 1..Len(s) + 1 /\ v[i] \in 0..Len(s)
    BY <1>1, <2>1
  <2>3. Piece(s, d[i - 1], v[i]) \in Seq(Char) /\ Piece(s, v[i], d[i]) \in Seq(Char)
    BY <1>3, <2>1, <2>2, Zenon
  <2>4. \A k, w \in Seq(Char) : KeyValue(k, w) \in KeyValues(Char)
    BY DEF KeyValue, KeyValues
  <2> QED
    BY <1>2, <2>3, <2>4, Zenon
<1>5. all = [i \in 1..n |-> all[i]] /\ n \in Nat /\ DOMAIN all = 1..n
  BY <1>0, <1>1 DEF PairsAt
<1>6. all \in [1..n -> KeyValues(Char)]
  BY <1>4, <1>5
<1>7. all \in Seq(KeyValues(Char))
  BY <1>5, <1>6, SeqDef
<1>8. Len(all) = n
  BY <1>5, <1>7, LenProperties
<1> QED
  BY <1>0, <1>2, <1>5, <1>7, <1>8, Zenon

\* One turn of the loop at a delimiter.
LEMMA TurnIs ==
  ASSUME NEW s, NEW later, NEW key \in 0..Len(s)
  PROVE  \A value, next, pair :
           /\ value = FirstFrom(s, key, "=") /\ next = FirstFrom(s, value, "&")
           /\ pair = KeyValue(Between(s, key, value), Between(s, value, next))
           => PairsBehind(s, later)[key] = IF key # 0 /\ value # 0 /\ Fits(pair)
                                           THEN {<<pair>> \o rest : rest \in later[next]} ELSE {}
BY Zenon DEF PairsBehind, Fits, KeyValue

\* The loop collects the pairs, if each of them fits.
LEMMA RowIs ==
  ASSUME NEW Char, NEW s \in Seq(Char), NEW n, NEW d, NEW v, Alternates(s, n, d, v),
         NEW pairs, pairs[0] = [key \in 0..Len(s) |-> {<<>>}],
         \A k \in 1..n : pairs[k] = PairsBehind(s, pairs[k - 1]),
         NEW all, all = PairsAt(s, n, d, v)
  PROVE  pairs[n][d[0]] = IF \A i \in 1..n : Fits(all[i]) THEN {all} ELSE {}
<1> DEFINE At(i) == IF i = n THEN 0 ELSE d[i]
           Right(k) == pairs[k][At(n - k)] = IF \A i \in n - k + 1..n : Fits(all[i])
                                             THEN {SubSeq(all, n - k + 1, n)} ELSE {}
<1>1. /\ n \in Nat \ {0} /\ Len(s) \in Nat /\ d[0] \in 1..Len(s) /\ d[n] = Len(s) + 1
      /\ \A k \in 0..n : d[k] \in 1..Len(s) + 1
      /\ \A i, j \in 0..n : i < j => d[i] < d[j]
      /\ \A k \in 1..n : v[k] \in 1..Len(s)
  BY InOrder, Zenon
<1>2. /\ all \in Seq(KeyValues(Char)) /\ Len(all) = n /\ DOMAIN all = 1..n
      /\ \A i \in 1..n : all[i] = KeyValue(Piece(s, d[i - 1], v[i]), Piece(s, v[i], d[i]))
  <2>1. /\ PairsAt(s, n, d, v) \in Seq(KeyValues(Char))
        /\ Len(PairsAt(s, n, d, v)) = n /\ DOMAIN PairsAt(s, n, d, v) = 1..n
        /\ \A i \in 1..n : PairsAt(s, n, d, v)[i]
                          = KeyValue(Piece(s, d[i - 1], v[i]), Piece(s, v[i], d[i]))
    BY PairsAtIs
  <2> QED
    BY <2>1, Zenon
<1>3. Right(0)
  <2>1. n - 0 = n /\ n - 0 + 1 = n + 1 /\ 0 \in 0..Len(s)
    BY <1>1
  <2>2. SubSeq(all, n + 1, n) = <<>>
    BY <1>1, <1>2, SubSeqEmpty
  <2>3. \A i \in n + 1..n : Fits(all[i])
    BY <1>1
  <2>4. pairs[0][0] = {<<>>}
    BY <2>1
  <2> QED
    BY <2>1, <2>2, <2>3, <2>4, Zenon
<1>4. ASSUME NEW k \in 1..n, Right(k - 1) PROVE Right(k)
  <2>1. PICK i : i = n - k + 1
    OBVIOUS
  <2>2. /\ i \in 1..n /\ n - (k - 1) = i /\ n - k = i - 1 /\ i - 1 \in 0..n - 1 /\ i - 1 # n
        /\ n - (k - 1) + 1 = i + 1 /\ k \in Nat
    BY <1>1, <2>1
  <2>3. pairs[k - 1][At(i)] = IF \A j \in i + 1..n : Fits(all[j]) THEN {SubSeq(all, i + 1, n)} ELSE {}
    BY <1>4, <2>2, Zenon
  <2>4. At(n - k) = d[i - 1]
    BY <2>2, Zenon
  <2>5. d[i - 1] \in 0..Len(s) /\ d[i - 1] # 0 /\ v[i] # 0
    <3>1. i - 1 \in 0..n /\ n \in 0..n /\ i - 1 < n
      BY <1>1, <2>2
    <3>2. d[i - 1] < d[n] /\ d[i - 1] \in 1..Len(s) + 1
      BY <1>1, <3>1
    <3>3. v[i] \in 1..Len(s)
      BY <1>1, <2>2
    <3> QED
      BY <1>1, <3>2, <3>3
  <2>6. /\ v[i] = FirstFrom(s, d[i - 1], "=") /\ At(i) = FirstFrom(s, v[i], "&")
        /\ all[i] = KeyValue(Between(s, d[i - 1], v[i]), Between(s, v[i], At(i)))
    <3>1. /\ FirstFrom(s, d[i - 1], "=") = v[i]
          /\ FirstFrom(s, v[i], "&") = (IF i = n THEN 0 ELSE d[i])
          /\ Between(s, d[i - 1], v[i]) = Piece(s, d[i - 1], v[i])
          /\ Between(s, v[i], IF i = n THEN 0 ELSE d[i]) = Piece(s, v[i], d[i])
      BY <2>2, FoundInTurn
    <3>2. At(i) = IF i = n THEN 0 ELSE d[i]
      OBVIOUS
    <3> HIDE DEF At
    <3> QED
      BY <1>2, <2>2, <3>1, <3>2, Zenon
  <2>7. pairs[k] = PairsBehind(s, pairs[k - 1])
    OBVIOUS
  <2> HIDE DEF At
  <2>8. pairs[k][d[i - 1]] = IF Fits(all[i]) THEN {<<all[i]>> \o rest : rest \in pairs[k - 1][At(i)]} ELSE {}
    <3>1. PairsBehind(s, pairs[k - 1])[d[i - 1]]
            = IF d[i - 1] # 0 /\ v[i] # 0 /\ Fits(all[i])
              THEN {<<all[i]>> \o rest : rest \in pairs[k - 1][At(i)]} ELSE {}
      <4>1. \A value, next, pair :
              /\ value = FirstFrom(s, d[i - 1], "=") /\ next = FirstFrom(s, value, "&")
              /\ pair = KeyValue(Between(s, d[i - 1], value), Between(s, value, next))
              => PairsBehind(s, pairs[k - 1])[d[i - 1]]
                   = IF d[i - 1] # 0 /\ value # 0 /\ Fits(pair)
                     THEN {<<pair>> \o rest : rest \in pairs[k - 1][next]} ELSE {}
        BY <2>5, TurnIs
      <4> QED
        BY <2>6, <4>1
    <3> QED
      BY <2>5, <2>7, <3>1, Zenon
  <2>9. <<all[i]>> \o SubSeq(all, i + 1, n) = SubSeq(all, i, n)
    <3>1. i \in 1..Len(all) /\ n \in i..Len(all)
      BY <1>1, <1>2, <2>2
    <3> QED
      BY <1>2, <3>1, SubSeqRecursiveFirst, Zenon
  <2>10. (\A j \in i..n : Fits(all[j])) <=> Fits(all[i]) /\ \A j \in i + 1..n : Fits(all[j])
    <3>1. \A j : j \in i..n <=> j = i \/ j \in i + 1..n
      BY <1>1, <2>2
    <3> QED
      BY <3>1, Zenon
  <2>11. pairs[k][d[i - 1]] = IF \A j \in i..n : Fits(all[j]) THEN {SubSeq(all, i, n)} ELSE {}
    <3>1. CASE Fits(all[i]) /\ \A j \in i + 1..n : Fits(all[j])
      <4>1. pairs[k][d[i - 1]] = {<<all[i]>> \o rest : rest \in {SubSeq(all, i + 1, n)}}
        BY <2>3, <2>8, <3>1, Zenon
      <4>2. {<<all[i]>> \o rest : rest \in {SubSeq(all, i + 1, n)}} = {<<all[i]>> \o SubSeq(all, i + 1, n)}
        OBVIOUS
      <4> QED
        BY <2>9, <2>10, <3>1, <4>1, <4>2, Zenon
    <3>2. CASE Fits(all[i]) /\ ~\A j \in i + 1..n : Fits(all[j])
      <4>1. pairs[k][d[i - 1]] = {<<all[i]>> \o rest : rest \in {}}
        BY <2>3, <2>8, <3>2, Zenon
      <4> QED
        BY <2>10, <3>2, <4>1
    <3>3. CASE ~Fits(all[i])
      BY <2>8, <2>10, <3>3, Zenon
    <3> QED
      BY <3>1, <3>2, <3>3
  <2> QED
    BY <2>1, <2>4, <2>11, Zenon
<1>5. PICK Bad : Bad = {k \in 0..n : ~Right(k)}
  OBVIOUS
<1> HIDE DEF Right
<1>6. Bad = {}
  <2>1. SUFFICES ASSUME Bad # {} PROVE FALSE
    OBVIOUS
  <2>2. PICK k \in Bad : \A j \in Bad : k <= j
    <3>1. Bad \in SUBSET Nat
      BY <1>1, <1>5
    <3> QED
      BY <2>1, <3>1, LeastNumber, Zenon
  <2>3. k \in 0..n /\ ~Right(k)
    BY <1>5, <2>2, Zenon
  <2>4. k # 0
    BY <1>3, <2>3
  <2>5. k \in 1..n /\ k - 1 \in 0..n /\ ~(k <= k - 1)
    BY <1>1, <2>3, <2>4
  <2>6. Right(k - 1)
    BY <1>5, <2>2, <2>5, Zenon
  <2> QED
    BY <1>4, <2>3, <2>5, <2>6, Zenon
<1>7. Right(n)
  <2>1. n \in 0..n
    BY <1>1
  <2> QED
    BY <1>5, <1>6, <2>1, Zenon
<1>8. n - n = 0 /\ n - n + 1 = 1 /\ n # 0
  BY <1>1
<1>9. SubSeq(all, 1, n) = all
  BY <1>2, SubSeqFull, Zenon
<1> QED
  BY <1>7, <1>8, <1>9, Zenon DEF Right

\* The parts of the query are what stands between the delimiters.
LEMMA QueryPartsAre ==
  ASSUME NEW Char, NEW s \in Seq(Char), NEW n, NEW d, NEW v, Alternates(s, n, d, v)
  PROVE  LET q == SubSeq(s, QueryMark(s) + 1, Len(s))
         IN /\ Occurrences(q, "&") = n - 1
            /\ \A i \in 1..n : Split(q, "&")[i] = Piece(s, d[i - 1], d[i])
<1>0. PICK q : q = SubSeq(s, QueryMark(s) + 1, Len(s))
  OBVIOUS
<1>1. /\ n \in Nat \ {0} /\ Len(s) \in Nat /\ d[0] \in 1..Len(s) /\ d[n] = Len(s) + 1
      /\ \A k \in 0..n : d[k] \in 1..Len(s) + 1
      /\ \A k \in 1..n : v[k] \in 1..Len(s) /\ k - 1 \in 0..n /\ d[k - 1] < v[k] /\ v[k] < d[k]
      /\ \A i, j \in 0..n : i < j => d[i] < d[j]
  BY InOrder, Zenon
<1>2. PICK Q, L : Q = d[0] /\ L = Len(s)
  OBVIOUS
<1>3. Q \in 1..L /\ L \in Nat /\ d[0] = Q /\ d[n] = L + 1 /\ Q = QueryMark(s)
  <2>1. d[0] = QueryMark(s)
    BY Zenon DEF Alternates
  <2> QED
    BY <1>1, <1>2, <2>1
<1>4. q = Piece(s, Q, L + 1)
  <2>1. (L + 1) - 1 = L
    BY <1>3
  <2> QED
    BY <1>0, <1>2, <1>3, <2>1, Zenon DEF Piece
<1>5. /\ q \in Seq(Char) /\ Len(q) = L - Q /\ \A i \in 1..Len(q) : q[i] = s[Q + i]
      /\ \A a \in 0..Len(q), b \in 1..Len(q) + 1 : a < b => Piece(q, a, b) = Piece(s, Q + a, Q + b)
  <2>1. Q \in 0..Len(s) /\ L + 1 \in 1..Len(s) + 1 /\ Q < L + 1 /\ ((L + 1) - 1) - Q = L - Q
    BY <1>2, <1>3
  <2> QED
    <3>1. /\ q \in Seq(Char) /\ Len(q) = ((L + 1) - 1) - Q /\ \A i \in 1..Len(q) : q[i] = s[Q + i]
          /\ \A a \in 0..Len(q), b \in 1..Len(q) + 1 : a < b => Piece(q, a, b) = Piece(s, Q + a, Q + b)
      <4>1. \A x \in 0..Len(s), y \in 1..Len(s) + 1 : x < y =>
              /\ Piece(s, x, y) \in Seq(Char) /\ Len(Piece(s, x, y)) = (y - 1) - x
              /\ \A i \in 1..Len(Piece(s, x, y)) : Piece(s, x, y)[i] = s[x + i]
              /\ \A a \in 0..Len(Piece(s, x, y)), b \in 1..Len(Piece(s, x, y)) + 1 :
                   a < b => Piece(Piece(s, x, y), a, b) = Piece(s, x + a, x + b)
        BY PieceOfPiece
      <4>2. PICK t : t = Piece(s, Q, L + 1)
        OBVIOUS
      <4>3. /\ t \in Seq(Char) /\ Len(t) = ((L + 1) - 1) - Q /\ \A i \in 1..Len(t) : t[i] = s[Q + i]
            /\ \A a \in 0..Len(t), b \in 1..Len(t) + 1 : a < b => Piece(t, a, b) = Piece(s, Q + a, Q + b)
        BY <2>1, <4>1, <4>2
      <4> QED
        BY <1>4, <4>2, <4>3, Zenon
    <3> QED
      BY <2>1, <3>1, Zenon
<1>6. L - Q \in Nat /\ DOMAIN q = 1..L - Q
  BY <1>3, <1>5, LenProperties
<1>7. \A x : x \in PlacesOf(q, "&") <=> \E i \in 1..n - 1 : d[i] - Q = x
  <2>1. ASSUME NEW x \in PlacesOf(q, "&") PROVE \E i \in 1..n - 1 : d[i] - Q = x
    <3>1. x \in 1..L - Q /\ q[x] = "&"
      BY <1>6 DEF PlacesOf
    <3>2. s[Q + x] = "&" /\ Q + x \in 1..L
      <4>1. q[x] = s[Q + x]
        BY <1>5, <3>1, Zenon
      <4>2. Q + x \in 1..L
        BY <1>3, <3>1
      <4> QED
        BY <3>1, <4>1, <4>2, Zenon
    <3>3. Q + x \in PlacesOf(s, "&")
      BY <1>2, <3>2, LenProperties DEF PlacesOf
    <3>4. PICK i \in 1..n - 1 : d[i] = Q + x
      BY <3>3 DEF Alternates
    <3>5. (Q + x) - Q = x
      BY <1>3, <3>1
    <3> QED
      BY <3>4, <3>5, Zenon
  <2>2. ASSUME NEW x, NEW i \in 1..n - 1, d[i] - Q = x PROVE x \in PlacesOf(q, "&")
    <3>1. d[i] \in 1..L /\ s[d[i]] = "&"
      BY <1>2, OneBetween
    <3>2. 0 \in 0..n /\ i \in 0..n /\ 0 < i
      BY <1>1
    <3>3. d[0] < d[i]
      BY <1>1, <3>2, Zenon
    <3>4. x \in 1..L - Q /\ Q + x = d[i]
      BY <1>3, <2>2, <3>1, <3>3
    <3>5. q[x] = "&"
      BY <1>5, <3>1, <3>4
    <3> QED
      BY <1>6, <3>4, <3>5 DEF PlacesOf
  <2> QED
    BY <2>1, <2>2, Zenon
<1>8. \A i \in 0..n : d[i] - Q \in 0..L - Q + 1
  <2>1. SUFFICES ASSUME NEW i \in 0..n PROVE d[i] - Q \in 0..L - Q + 1
    OBVIOUS
  <2>2. i = 0 \/ d[0] < d[i]
    BY <1>1
  <2>3. d[i] \in 1..L + 1 /\ (d[i] = Q \/ Q < d[i])
    BY <1>1, <1>2, <2>2
  <2> QED
    BY <1>3, <2>3
<1>9. \A i, j \in 0..n : i < j => d[i] - Q < d[j] - Q
  <2>1. SUFFICES ASSUME NEW i \in 0..n, NEW j \in 0..n, i < j PROVE d[i] - Q < d[j] - Q
    OBVIOUS
  <2>2. d[i] < d[j] /\ d[i] \in 1..L + 1 /\ d[j] \in 1..L + 1
    BY <1>1, <1>2, <2>1
  <2> QED
    BY <1>3, <2>2
<1>10. Occurrences(q, "&") = n - 1
  <2>1. PICK m, g : m = n - 1 /\ g = [i \in 1..m |-> d[i] - Q]
    OBVIOUS
  <2>2. m \in Nat /\ \A i \in 1..m : i \in 0..n /\ g[i] = d[i] - Q
    BY <1>1, <2>1
  <2>3. \A i \in 1..m : g[i] \in Nat
    BY <1>6, <1>8, <2>2
  <2>4. g \in [1..m -> Nat]
    BY <2>1, <2>3
  <2>5. \A i, j \in 1..m : i < j => g[i] < g[j]
    BY <1>9, <2>2, Zenon
  <2>6. \A x : x \in PlacesOf(q, "&") <=> \E i \in 1..m : g[i] = x
    BY <1>7, <2>1, <2>2, Zenon
  <2>7. PlacesOf(q, "&") \in SUBSET Nat
    BY <1>5, PlacesAre, Zenon
  <2>8. Cardinality(PlacesOf(q, "&")) = m
    BY <2>2, <2>4, <2>5, <2>6, <2>7, CountedIs, Zenon
  <2> QED
    BY <2>1, <2>8, Zenon DEF Occurrences
<1>11. \A i \in 1..n + 1 : Nth(Cuts(q, "&"), i) = d[i - 1] - Q
  <2>1. PICK S, g : S = Cuts(q, "&") /\ g = [i \in 1..n + 1 |-> d[i - 1] - Q]
    OBVIOUS
  <2>2. \A x : x \in S <=> \E i \in 0..n : d[i] - Q = x
    <3>1. S = {0, L - Q + 1} \cup PlacesOf(q, "&")
      BY <1>5, <2>1, Zenon DEF Cuts
    <3>2. d[0] - Q = 0 /\ d[n] - Q = L - Q + 1 /\ 0 \in 0..n /\ n \in 0..n
      BY <1>1, <1>3
    <3>3. \A i : i \in 0..n <=> i = 0 \/ i = n \/ i \in 1..n - 1
      BY <1>1
    <3> QED
      BY <1>7, <3>1, <3>2, <3>3
  <2>3. \A i \in 1..n + 1 : i - 1 \in 0..n /\ g[i] = d[i - 1] - Q
    BY <1>1, <2>1
  <2>4. g \in [1..n + 1 -> S] /\ n + 1 \in Nat
    BY <1>1, <2>1, <2>2, <2>3
  <2>5. \A i, j \in 1..n + 1 : i < j => g[i] < g[j]
    <3>1. \A i, j \in 1..n + 1 : i < j => i - 1 < j - 1
      BY <1>1
    <3> QED
      BY <1>9, <2>3, <3>1, Zenon
  <2>6. \A x \in S : \E i \in 1..n + 1 : g[i] = x
    <3>1. SUFFICES ASSUME NEW x \in S PROVE \E i \in 1..n + 1 : g[i] = x
      OBVIOUS
    <3>2. PICK j \in 0..n : d[j] - Q = x
      BY <2>2
    <3>3. j + 1 \in 1..n + 1 /\ (j + 1) - 1 = j
      BY <1>1
    <3> QED
      BY <2>3, <3>2, <3>3, Zenon
  <2>7. S \in SUBSET Nat
    BY <1>6, <1>8, <2>2
  <2>8. \A i \in 1..n + 1 : Nth(S, i) = g[i]
    BY <2>4, <2>5, <2>6, <2>7, EnumerationIs, Zenon
  <2> QED
    BY <2>1, <2>3, <2>8, Zenon
<1>12. ASSUME NEW i \in 1..n PROVE Split(q, "&")[i] = Piece(s, d[i - 1], d[i])
  <2>1. i \in 1..n + 1 /\ i + 1 \in 1..n + 1 /\ (i + 1) - 1 = i /\ i - 1 \in 0..n /\ i \in 0..n
        /\ i - 1 < i /\ (n - 1) + 1 = n
    BY <1>1
  <2>2. Split(q, "&")[i] = Piece(q, d[i - 1] - Q, d[i] - Q)
    <3>1. Split(q, "&") = [k \in 1..n |-> Piece(q, Nth(Cuts(q, "&"), k), Nth(Cuts(q, "&"), k + 1))]
      BY <1>10, <2>1, SplitIs, Zenon DEF Piece
    <3> QED
      BY <1>11, <2>1, <3>1, Zenon
  <2>3. d[i - 1] - Q < d[i] - Q
    BY <1>9, <2>1, Zenon
  <2>4. PICK a, b : a = d[i - 1] - Q /\ b = d[i] - Q
    OBVIOUS
  <2>5. a \in 0..L - Q + 1 /\ b \in 0..L - Q + 1 /\ a < b
    BY <1>8, <2>1, <2>3, <2>4, Zenon
  <2>6. a \in 0..Len(q) /\ b \in 1..Len(q) + 1
    BY <1>5, <1>6, <2>5
  <2>7. Piece(q, a, b) = Piece(s, Q + a, Q + b)
    BY <1>5, <2>5, <2>6, Zenon
  <2>8. Q + a = d[i - 1] /\ Q + b = d[i]
    <3>1. d[i - 1] \in 1..L + 1 /\ d[i] \in 1..L + 1
      BY <1>1, <1>2, <2>1, Zenon
    <3>2. \A y, z \in Nat : z + (y - z) = y
      OBVIOUS
    <3>3. d[i - 1] \in Nat /\ d[i] \in Nat /\ Q \in Nat
      BY <1>3, <3>1
    <3> QED
      BY <2>4, <3>2, <3>3, Zenon
  <2> QED
    BY <2>2, <2>4, <2>7, <2>8, Zenon
<1> QED
  BY <1>0, <1>10, <1>12, Zenon

-----------------------------------------------------------------------------
(* What VmRestParseParams makes of such a query.                           *)

\* Each part of the query has one '=', between the key and the value.
LEMMA PartHasOne ==
  ASSUME NEW Char, NEW s \in Seq(Char), NEW n, NEW d, NEW v, Alternates(s, n, d, v), NEW i \in 1..n,
         NEW t, t = Piece(s, d[i - 1], d[i])
  PROVE  /\ Occurrences(t, "=") = 1
         /\ Split(t, "=")[1] = Piece(s, d[i - 1], v[i]) /\ Split(t, "=")[2] = Piece(s, v[i], d[i])
<1>1. PICK a, e, b : a = d[i - 1] /\ e = v[i] /\ b = d[i]
  OBVIOUS
<1>2. /\ Len(s) \in Nat /\ a \in 1..Len(s) + 1 /\ b \in 1..Len(s) + 1 /\ e \in 1..Len(s) /\ a < e /\ e < b
  <2>1. /\ n \in Nat \ {0} /\ Len(s) \in Nat
        /\ \A k \in 0..n : d[k] \in 1..Len(s) + 1
        /\ \A k \in 1..n : v[k] \in 1..Len(s) /\ k - 1 \in 0..n /\ d[k - 1] < v[k] /\ v[k] < d[k]
    BY InOrder, Zenon
  <2>2. i \in 0..n
    BY <2>1
  <2> QED
    BY <1>1, <2>1, <2>2, Zenon
<1>3. \A x \in 1..Len(s) : a < x /\ x < b => s[x] # "&" /\ (s[x] = "=" <=> x = e)
  <2>1. \A k \in 1..n, x \in 1..Len(s) :
          d[k - 1] < x /\ x < d[k] => s[x] # "&" /\ (s[x] = "=" <=> x = v[k])
    BY OneBetween
  <2> QED
    BY <1>1, <2>1, Zenon
<1>4. /\ t \in Seq(Char) /\ Len(t) = (b - 1) - a /\ \A k \in 1..Len(t) : t[k] = s[a + k]
      /\ \A x \in 0..Len(t), y \in 1..Len(t) + 1 : x < y => Piece(t, x, y) = Piece(s, a + x, a + y)
  <2>1. a \in 0..Len(s) /\ a < b /\ t = Piece(s, a, b)
    BY <1>1, <1>2
  <2> QED
    <3>1. \A x \in 0..Len(s), y \in 1..Len(s) + 1 : x < y =>
            /\ Piece(s, x, y) \in Seq(Char) /\ Len(Piece(s, x, y)) = (y - 1) - x
            /\ \A k \in 1..Len(Piece(s, x, y)) : Piece(s, x, y)[k] = s[x + k]
            /\ \A k \in 0..Len(Piece(s, x, y)), l \in 1..Len(Piece(s, x, y)) + 1 :
                 k < l => Piece(Piece(s, x, y), k, l) = Piece(s, x + k, x + l)
      BY PieceOfPiece
    <3>2. PICK w : w = Piece(s, a, b)
      OBVIOUS
    <3>3. /\ w \in Seq(Char) /\ Len(w) = (b - 1) - a /\ \A k \in 1..Len(w) : w[k] = s[a + k]
          /\ \A x \in 0..Len(w), y \in 1..Len(w) + 1 : x < y => Piece(w, x, y) = Piece(s, a + x, a + y)
      BY <1>2, <2>1, <3>1, <3>2
    <3> QED
      BY <2>1, <3>2, <3>3, Zenon
<1>5. PICK l, f : l = Len(t) /\ f = e - a
  OBVIOUS
<1>6. /\ l = (b - 1) - a /\ l \in Nat /\ f \in 1..l /\ a + f = e /\ a + (l + 1) = b /\ a + 0 = a
      /\ a \in Nat /\ e \in Nat /\ b \in Nat
  <2>1. l = (b - 1) - a
    BY <1>4, <1>5, Zenon
  <2> QED
    BY <1>2, <1>5, <2>1
<1>7. \A k \in 1..Len(t) : t[k] = "=" <=> k = f
  <2>1. SUFFICES ASSUME NEW k \in 1..l PROVE t[k] = "=" <=> k = f
    BY <1>5
  <2>2. a + k \in 1..Len(s) /\ a < a + k /\ a + k < b /\ (a + k = e <=> k = f)
    BY <1>2, <1>6
  <2>3. t[k] = s[a + k]
    BY <1>4, <1>5, Zenon
  <2> QED
    BY <1>3, <2>2, <2>3, Zenon
<1>8. /\ Occurrences(t, "=") = 1
      /\ Split(t, "=")[1] = Piece(t, 0, f) /\ Split(t, "=")[2] = Piece(t, f, Len(t) + 1)
  <2>1. f \in 1..Len(t)
    BY <1>5, <1>6
  <2> QED
    <3>1. \A x \in 1..Len(t) : (\A k \in 1..Len(t) : t[k] = "=" <=> k = x) =>
            /\ Occurrences(t, "=") = 1
            /\ Split(t, "=")[1] = Piece(t, 0, x) /\ Split(t, "=")[2] = Piece(t, x, Len(t) + 1)
      BY <1>4, SplitInTwo
    <3> QED
      BY <1>7, <2>1, <3>1, Zenon
<1>9. Piece(t, 0, f) = Piece(s, a, e)
  <2>1. 0 \in 0..Len(t) /\ f \in 1..Len(t) + 1 /\ 0 < f
    BY <1>5, <1>6
  <2>2. Piece(t, 0, f) = Piece(s, a + 0, a + f)
    BY <1>4, <2>1, Zenon
  <2> QED
    BY <1>6, <2>2, Zenon
<1>10. Piece(t, f, Len(t) + 1) = Piece(s, e, b)
  <2>1. f \in 0..Len(t) /\ l + 1 \in 1..Len(t) + 1 /\ f < l + 1
    BY <1>5, <1>6
  <2>2. Piece(t, f, l + 1) = Piece(s, a + f, a + (l + 1))
    BY <1>4, <2>1, Zenon
  <2> QED
    BY <1>5, <1>6, <2>2, Zenon
<1> QED
  BY <1>1, <1>8, <1>9, <1>10, Zenon

\* Nothing in the path looks like a delimiter of pairs.
LEMMA PathHasNone ==
  ASSUME NEW Char, NEW s \in Seq(Char), NEW n, NEW d, NEW v, Alternates(s, n, d, v),
         NEW path, path = SubSeq(s, 1, QueryMark(s) - 1)
  PROVE  Occurrences(path, "=") = 0 /\ Occurrences(path, "&") = 0
<1>1. PICK Q : Q = QueryMark(s)
  OBVIOUS
<1>2. Q \in 1..Len(s) /\ Len(s) \in Nat /\ d[0] = Q
  BY <1>1, MarkIs DEF Alternates
<1>3. \A x \in 1..Len(s) : x < Q => s[x] # "=" /\ s[x] # "&"
  BY <1>2, OneBetween
<1>4. DOMAIN path = 1..Q - 1 /\ \A x \in 1..Q - 1 : path[x] = s[x]
  BY <1>1, <1>2
<1>5. \A x \in 1..Q - 1 : x \in 1..Len(s) /\ x < Q
  BY <1>2
<1>6. PlacesOf(path, "=") = {} /\ PlacesOf(path, "&") = {}
  BY <1>3, <1>4, <1>5 DEF PlacesOf
<1> QED
  BY <1>6, FS_EmptySet, Zenon DEF Occurrences

\* Such a query is well formed if the pairs are few and short enough, and
\* these are its pairs.
LEMMA PairsAreThose ==
  ASSUME NEW Char, NEW s \in Seq(Char), NEW n, NEW d, NEW v, Alternates(s, n, d, v),
         NEW all, all = PairsAt(s, n, d, v)
  PROVE  /\ Pairs(SubSeq(s, QueryMark(s) + 1, Len(s))) = all
         /\ WellFormed(s) <=> n <= MaxParams /\ \A i \in 1..n : Fits(all[i])
<1>1. PICK q : q = SubSeq(s, QueryMark(s) + 1, Len(s))
  OBVIOUS
<1>2. n \in Nat \ {0} /\ (n - 1) + 1 = n
  BY InOrder
<1>3. /\ Occurrences(q, "&") = n - 1
      /\ \A i \in 1..n : Split(q, "&")[i] = Piece(s, d[i - 1], d[i])
  <2>1. /\ Occurrences(SubSeq(s, QueryMark(s) + 1, Len(s)), "&") = n - 1
        /\ \A i \in 1..n : Split(SubSeq(s, QueryMark(s) + 1, Len(s)), "&")[i] = Piece(s, d[i - 1], d[i])
    BY QueryPartsAre
  <2> QED
    BY <1>1, <2>1, Zenon
<1>4. Occurrences(q, "&") + 1 = n
  BY <1>2, <1>3
<1>5. \A i \in 1..n : /\ Occurrences(Split(q, "&")[i], "=") = 1
                      /\ Split(Split(q, "&")[i], "=")[1] = Piece(s, d[i - 1], v[i])
                      /\ Split(Split(q, "&")[i], "=")[2] = Piece(s, v[i], d[i])
  <2>1. SUFFICES ASSUME NEW i \in 1..n
                 PROVE  /\ Occurrences(Split(q, "&")[i], "=") = 1
                        /\ Split(Split(q, "&")[i], "=")[1] = Piece(s, d[i - 1], v[i])
                        /\ Split(Split(q, "&")[i], "=")[2] = Piece(s, v[i], d[i])
    OBVIOUS
  <2>2. PICK t : t = Piece(s, d[i - 1], d[i])
    OBVIOUS
  <2>3. /\ Occurrences(t, "=") = 1
        /\ Split(t, "=")[1] = Piece(s, d[i - 1], v[i]) /\ Split(t, "=")[2] = Piece(s, v[i], d[i])
    BY <2>2, PartHasOne
  <2> QED
    BY <1>3, <2>2, <2>3, Zenon
<1>6. all = [i \in 1..n |-> KeyValue(Piece(s, d[i - 1], v[i]), Piece(s, v[i], d[i]))]
  BY Zenon DEF PairsAt
<1>7. Pairs(q) = all
  <2>1. Pairs(q) = [i \in 1..n |-> KeyValue(Split(Split(q, "&")[i], "=")[1], Split(Split(q, "&")[i], "=")[2])]
    BY <1>4, Zenon DEF Pairs, KeyValue
  <2>2. \A i \in 1..n : KeyValue(Split(Split(q, "&")[i], "=")[1], Split(Split(q, "&")[i], "=")[2])
                        = KeyValue(Piece(s, d[i - 1], v[i]), Piece(s, v[i], d[i]))
    BY <1>5
  <2> QED
    BY <1>6, <2>1, <2>2
<1>8. Len(all) = n /\ DOMAIN all = 1..n
  BY PairsAtIs
<1>9. PICK path : path = SubSeq(s, 1, QueryMark(s) - 1)
  OBVIOUS
<1>10. Occurrences(path, "=") = 0 /\ Occurrences(path, "&") = 0
  BY <1>9, PathHasNone
<1>11. QueryMark(s) # 0
  BY Zenon DEF Alternates
<1>12. WellFormed(s) <=> n <= MaxParams /\ \A i \in 1..n : Fits(all[i])
  <2>1. WellFormed(s) <=>
          /\ QueryMark(s) # 0
          /\ Occurrences(path, "=") = 0 /\ Occurrences(path, "&") = 0
          /\ \A i \in 1..Occurrences(q, "&") + 1 : Occurrences(Split(q, "&")[i], "=") = 1
          /\ Len(Pairs(q)) <= MaxParams
          /\ \A i \in DOMAIN Pairs(q) : Fits(Pairs(q)[i])
    BY <1>1, <1>9, Zenon DEF WellFormed, Fits
  <2> QED
    BY <1>4, <1>5, <1>7, <1>8, <1>10, <1>11, <2>1, Zenon
<1> QED
  BY <1>1, <1>7, <1>12, Zenon

\* The URI is one token of the request line.
NoSpace(s) == FirstFrom(s, 1, " ") = 0

\* What the callback gets of such a query.
LEMMA RequestHasPairs ==
  ASSUME NEW Char, NEW s \in Seq(Char), NoSpace(s),
         NEW n, NEW d, NEW v, Alternates(s, n, d, v)
  PROVE  RequestParams(s) = IF WellFormed(s) THEN {Pairs(SubSeq(s, QueryMark(s) + 1, Len(s)))} ELSE {}
<1>1. PICK all : all = PairsAt(s, n, d, v)
  OBVIOUS
<1>2. /\ Pairs(SubSeq(s, QueryMark(s) + 1, Len(s))) = all
      /\ WellFormed(s) <=> n <= MaxParams /\ \A i \in 1..n : Fits(all[i])
  <2>1. /\ Pairs(SubSeq(s, QueryMark(s) + 1, Len(s))) = PairsAt(s, n, d, v)
        /\ WellFormed(s) <=> n <= MaxParams /\ \A i \in 1..n : Fits(PairsAt(s, n, d, v)[i])
    BY PairsAreThose
  <2> QED
    BY <1>1, <2>1, Zenon
<1>3. n \in Nat \ {0} /\ Len(s) \in Nat /\ d[0] \in 1..Len(s) /\ d[0] = QueryMark(s) /\ DOMAIN s = 1..Len(s)
  BY InOrder, LenProperties DEF Alternates
<1>4. Occurrences(s, "=") = n /\ Occurrences(s, "&") = n - 1
  BY CountsAre, Zenon
<1>5. s # <<>>
  BY <1>3
<1>6. GetParamsCountInReqURI(s) = {n}
  BY <1>4, <1>5, Zenon DEF GetParamsCountInReqURI, NoSpace
<1>7. RequestParams(s) = ParseParams(s, n)
  <2>1. RequestParams(s) = UNION {IF x = 0 THEN {<<>>} ELSE ParseParams(s, x) : x \in {n}}
    BY <1>6, Zenon DEF RequestParams
  <2>2. n # 0
    BY <1>3
  <2> QED
    BY <2>1, <2>2
<1>8. CASE n > MaxParams
  <2>1. ParseParams(s, n) = {}
    BY <1>8, Zenon DEF ParseParams
  <2>2. ~(n <= MaxParams)
    <3>1. \A k, l \in Nat : k > l => ~(k <= l)
      OBVIOUS
    <3>2. n \in Nat
      BY <1>3
    <3> QED
      BY <1>8, <3>1, <3>2, UriLimits, Zenon
  <2> QED
    BY <1>2, <1>7, <2>1, <2>2, Zenon
<1>9. CASE ~(n > MaxParams)
  <2>1. PICK pairs : /\ ParseParams(s, n) = pairs[n][QueryMark(s)]
                     /\ pairs[0] = [key \in 0..Len(s) |-> {<<>>}]
                     /\ \A k \in 1..n : pairs[k] = PairsBehind(s, pairs[k - 1])
    BY <1>3, <1>9, ParamsHaveRows
  <2>2. pairs[n][d[0]] = IF \A i \in 1..n : Fits(all[i]) THEN {all} ELSE {}
    <3>1. pairs[n][d[0]] = IF \A i \in 1..n : Fits(PairsAt(s, n, d, v)[i]) THEN {PairsAt(s, n, d, v)} ELSE {}
      BY <2>1, RowIs
    <3> QED
      BY <1>1, <3>1, Zenon
  <2>3. n <= MaxParams
    <3>1. \A k, l \in Nat : ~(k > l) => k <= l
      OBVIOUS
    <3>2. n \in Nat
      BY <1>3
    <3> QED
      BY <1>9, <3>1, <3>2, UriLimits, Zenon
  <2> QED
    BY <1>2, <1>3, <1>7, <2>1, <2>2, <2>3, Zenon
<1> QED
  BY <1>8, <1>9

-----------------------------------------------------------------------------
(* Where it yields anything, the query is such a one.                      *)

\* The delimiters one after the other, as the loop finds them from key on.
IsChain(s, n, key, d, v) ==
  /\ d \in [0..n -> 0..Len(s)] /\ v \in [1..n -> 1..Len(s)] /\ d[0] = key
  /\ \A i \in 1..n : /\ d[i - 1] # 0 /\ v[i] = FirstFrom(s, d[i - 1], "=")
                     /\ d[i] = FirstFrom(s, v[i], "&")

\* What strchr returns is a place or 0.
LEMMA FoundIsPlace ==
  ASSUME NEW Char, NEW s \in Seq(Char), NEW from \in Nat, NEW c
  PROVE  FirstFrom(s, from, c) \in 0..Len(s) /\ Len(s) \in Nat
<1>1. Len(s) \in Nat
  BY LenProperties
<1>2. FirstFrom(s, from, c) = 0 \/ FirstFrom(s, from, c) \in 1..Len(s)
  BY FirstFromFinds
<1> QED
  BY <1>1, <1>2

\* One delimiter more in front of a chain.
LEMMA LongerChain ==
  ASSUME NEW s, Len(s) \in Nat, NEW n \in Nat \ {0}, NEW key \in 1..Len(s), NEW value \in 1..Len(s),
         value = FirstFrom(s, key, "="), NEW next, next = FirstFrom(s, value, "&"),
         NEW d, NEW v, IsChain(s, n - 1, next, d, v)
  PROVE  \E e, w : IsChain(s, n, key, e, w)
<1>1. /\ d \in [0..n - 1 -> 0..Len(s)] /\ v \in [1..n - 1 -> 1..Len(s)] /\ d[0] = next
      /\ \A i \in 1..n - 1 : /\ d[i - 1] # 0 /\ v[i] = FirstFrom(s, d[i - 1], "=")
                             /\ d[i] = FirstFrom(s, v[i], "&")
  BY Zenon DEF IsChain
<1>2. PICK e, w : /\ e = [i \in 0..n |-> IF i = 0 THEN key ELSE d[i - 1]]
                  /\ w = [i \in 1..n |-> IF i = 1 THEN value ELSE v[i - 1]]
  OBVIOUS
<1>3. e[0] = key /\ \A i \in 1..n : e[i] = d[i - 1] /\ i - 1 \in 0..n - 1
  BY <1>2
<1>4. w[1] = value /\ \A i \in 2..n : w[i] = v[i - 1] /\ i - 1 \in 1..n - 1
  BY <1>2
<1>5. e \in [0..n -> 0..Len(s)]
  BY <1>1, <1>2
<1>6. w \in [1..n -> 1..Len(s)]
  BY <1>1, <1>2
<1>7. ASSUME NEW i \in 1..n
      PROVE  e[i - 1] # 0 /\ w[i] = FirstFrom(s, e[i - 1], "=") /\ e[i] = FirstFrom(s, w[i], "&")
  <2>1. CASE i = 1
    <3>1. i - 1 = 0 /\ 1 \in 1..n /\ key # 0
      BY <2>1
    <3>2. e[1] = next
      BY <1>1, <1>3, <2>1, <3>1
    <3> QED
      BY <1>3, <1>4, <2>1, <3>1, <3>2, Zenon
  <2>2. CASE i # 1
    <3>1. i \in 2..n /\ i - 1 \in 1..n - 1 /\ i - 1 \in 1..n
      BY <2>2
    <3>2. e[i] = d[i - 1] /\ e[i - 1] = d[(i - 1) - 1] /\ w[i] = v[i - 1]
      BY <1>3, <1>4, <3>1, Zenon
    <3> QED
      BY <1>1, <3>1, <3>2, Zenon
  <2> QED
    BY <2>1, <2>2
<1>8. IsChain(s, n, key, e, w)
  BY <1>3, <1>5, <1>6, <1>7 DEF IsChain
<1> QED
  BY <1>8, Zenon

\* A turn of the loop that yields something has found a delimiter and a '=',
\* and so has the next one.
LEMMA TurnNeeds ==
  ASSUME NEW s, NEW later, NEW key \in 0..Len(s), PairsBehind(s, later)[key] # {}
  PROVE  /\ key # 0 /\ FirstFrom(s, key, "=") # 0
         /\ later[FirstFrom(s, FirstFrom(s, key, "="), "&")] # {}
<1> DEFINE value == FirstFrom(s, key, "=")
           next  == FirstFrom(s, value, "&")
           pair  == KeyValue(Between(s, key, value), Between(s, value, next))
<1>1. PairsBehind(s, later)[key] = IF key # 0 /\ value # 0 /\ Fits(pair)
                                   THEN {<<pair>> \o rest : rest \in later[next]} ELSE {}
  BY Zenon DEF PairsBehind, Fits, KeyValue
<1> HIDE DEF value, next, pair
<1>2. {<<pair>> \o rest : rest \in {}} = {}
  OBVIOUS
<1>3. key # 0 /\ value # 0 /\ later[next] # {}
  <2>1. CASE later[next] = {}
    <3>1. {<<pair>> \o rest : rest \in later[next]} = {}
      BY <2>1
    <3> QED
      BY <1>1, <3>1, Zenon
  <2>2. CASE later[next] # {}
    BY <1>1, <2>2
  <2> QED
    BY <2>1, <2>2
<1> QED
  BY <1>3, Zenon DEF value, next

\* Where the loop of VmRestParseParams succeeds there is a chain.
LEMMA ChainExists ==
  ASSUME NEW Char, NEW s \in Seq(Char), NEW count \in Nat,
         NEW pairs, pairs[0] = [key \in 0..Len(s) |-> {<<>>}],
         \A k \in 1..count : pairs[k] = PairsBehind(s, pairs[k - 1])
  PROVE  \A n \in 0..count, key \in 0..Len(s) :
           pairs[n][key] # {} => \E d, v : IsChain(s, n, key, d, v)
<1> DEFINE Right(n) == \A key \in 0..Len(s) : pairs[n][key] # {} => \E d, v : IsChain(s, n, key, d, v)
<1>1. Len(s) \in Nat
  BY LenProperties
<1>2. Right(0)
  <2>1. SUFFICES ASSUME NEW key \in 0..Len(s) PROVE \E d, v : IsChain(s, 0, key, d, v)
    BY Zenon
  <2>2. PICK d, v : d = [i \in 0..0 |-> key] /\ v = [i \in 1..0 |-> 1]
    OBVIOUS
  <2>3. d \in [0..0 -> 0..Len(s)] /\ d[0] = key
    BY <2>2
  <2>4. v \in [1..0 -> 1..Len(s)] /\ \A i : i \notin 1..0
    BY <2>2
  <2> QED
    BY <2>3, <2>4, Zenon DEF IsChain
<1>3. ASSUME NEW n \in 1..count, Right(n - 1) PROVE Right(n)
  <2>1. SUFFICES ASSUME NEW key \in 0..Len(s), pairs[n][key] # {} PROVE \E d, v : IsChain(s, n, key, d, v)
    BY Zenon
  <2>2. PICK value, next : value = FirstFrom(s, key, "=") /\ next = FirstFrom(s, value, "&")
    OBVIOUS
  <2>5. key # 0 /\ value # 0 /\ pairs[n - 1][next] # {}
    <3>1. PairsBehind(s, pairs[n - 1])[key] # {}
      BY <2>1
    <3>2. /\ key # 0 /\ FirstFrom(s, key, "=") # 0
          /\ pairs[n - 1][FirstFrom(s, FirstFrom(s, key, "="), "&")] # {}
      BY <3>1, TurnNeeds
    <3> QED
      BY <2>2, <3>2, Zenon
  <2>6. key \in 1..Len(s) /\ value \in 1..Len(s) /\ next \in 0..Len(s)
    <3>1. key \in Nat
      BY <1>1
    <3>2. value \in 0..Len(s)
      BY <2>2, <3>1, FoundIsPlace
    <3>3. value \in Nat
      BY <1>1, <3>2
    <3>4. next \in 0..Len(s)
      BY <2>2, <3>3, FoundIsPlace
    <3> QED
      BY <1>1, <2>5, <3>2, <3>4
  <2>7. PICK d, v : IsChain(s, n - 1, next, d, v)
    BY <1>3, <2>5, <2>6, Zenon
  <2>8. n \in Nat \ {0}
    OBVIOUS
  <2> QED
    BY <1>1, <2>2, <2>6, <2>7, <2>8, LongerChain, Zenon
<1>4. PICK Bad : Bad = {n \in 0..count : ~Right(n)}
  OBVIOUS
<1> HIDE DEF Right
<1>5. Bad = {}
  <2>1. SUFFICES ASSUME Bad # {} PROVE FALSE
    OBVIOUS
  <2>2. PICK n \in Bad : \A j \in Bad : n <= j
    <3>1. Bad \in SUBSET Nat
      BY <1>4
    <3> QED
      BY <2>1, <3>1, LeastNumber, Zenon
  <2>3. n \in 0..count /\ ~Right(n)
    BY <1>4, <2>2, Zenon
  <2>4. n # 0
    BY <1>2, <2>3
  <2>5. n \in 1..count /\ n - 1 \in 0..count /\ ~(n <= n - 1)
    BY <2>3, <2>4
  <2>6. Right(n - 1)
    BY <1>4, <2>2, <2>5, Zenon
  <2> QED
    BY <1>3, <2>3, <2>5, <2>6, Zenon
<1> QED
  BY <1>4, <1>5, Zenon DEF Right

\* A chain from the mark of the query through as many '=' as there are, with
\* one '&' less, leaves no other '=' or '&'.
LEMMA ChainAlternates ==
  ASSUME NEW Char, NEW s \in Seq(Char), NEW n \in Nat \ {0}, NEW d, NEW v,
         IsChain(s, n, QueryMark(s), d, v), Occurrences(s, "=") = n, Occurrences(s, "&") = n - 1
  PROVE  \E e : Alternates(s, n, e, v)
<1>1. /\ d \in [0..n -> 0..Len(s)] /\ v \in [1..n -> 1..Len(s)] /\ d[0] = QueryMark(s)
      /\ \A i \in 1..n : /\ d[i - 1] # 0 /\ v[i] = FirstFrom(s, d[i - 1], "=")
                         /\ d[i] = FirstFrom(s, v[i], "&")
  BY Zenon DEF IsChain
<1>2. Len(s) \in Nat /\ DOMAIN s = 1..Len(s)
  BY LenProperties
<1>3. \A i \in 0..n - 1 : d[i] # 0 /\ d[i] \in 1..Len(s)
  <2>1. SUFFICES ASSUME NEW i \in 0..n - 1 PROVE d[i] # 0 /\ d[i] \in 1..Len(s)
    OBVIOUS
  <2>2. i + 1 \in 1..n /\ (i + 1) - 1 = i /\ i \in 0..n
    OBVIOUS
  <2>3. d[i] # 0 /\ d[i] \in 0..Len(s)
    BY <1>1, <2>2
  <2> QED
    BY <1>2, <2>3
<1>4. \A from \in Nat : \A c : FirstFrom(s, from, c) # 0 =>
        /\ FirstFrom(s, from, c) >= from /\ s[FirstFrom(s, from, c)] = c
  BY FirstFromFinds
<1>5. \A i \in 1..n - 1 : s[d[i]] = "&" /\ d[i] >= v[i]
  <2>1. SUFFICES ASSUME NEW i \in 1..n - 1 PROVE s[d[i]] = "&" /\ d[i] >= v[i]
    OBVIOUS
  <2>2. i \in 1..n /\ i \in 0..n - 1
    OBVIOUS
  <2>3. d[i] = FirstFrom(s, v[i], "&") /\ d[i] # 0 /\ v[i] \in Nat
    BY <1>1, <1>2, <1>3, <2>2
  <2> QED
    BY <1>4, <2>3, Zenon
<1>6. \A i \in 1..n : s[v[i]] = "=" /\ v[i] >= d[i - 1]
  <2>1. SUFFICES ASSUME NEW i \in 1..n PROVE s[v[i]] = "=" /\ v[i] >= d[i - 1]
    OBVIOUS
  <2>2. i - 1 \in 0..n - 1
    OBVIOUS
  <2>3. v[i] = FirstFrom(s, d[i - 1], "=") /\ v[i] # 0 /\ d[i - 1] \in Nat
    BY <1>1, <1>2, <1>3, <2>2
  <2> QED
    BY <1>4, <2>3, Zenon
<1>7. \A i \in 0..n - 1 : s[d[i]] # "="
  <2>1. SUFFICES ASSUME NEW i \in 0..n - 1 PROVE s[d[i]] # "="
    OBVIOUS
  <2>2. CASE i = 0
    <3>1. d[i] = QueryMark(s) /\ QueryMark(s) # 0
      BY <1>1, <1>3, <2>1, <2>2
    <3> QED
      BY <3>1, MarkIs
  <2>3. CASE i # 0
    <3>1. i \in 1..n - 1
      BY <2>3
    <3> QED
      BY <1>5, <3>1
  <2> QED
    BY <2>2, <2>3
<1>8. PICK e : e = [i \in 0..n |-> IF i = n THEN Len(s) + 1 ELSE d[i]]
  OBVIOUS
<1>9. e \in [0..n -> Nat] /\ v \in [1..n -> Nat] /\ e[n] = Len(s) + 1
      /\ \A i \in 0..n - 1 : e[i] = d[i]
  <2>1. \A i \in 0..n : d[i] \in Nat
    BY <1>1, <1>2
  <2>2. \A i \in 1..n : v[i] \in Nat
    BY <1>1, <1>2
  <2> QED
    BY <1>1, <1>2, <1>8, <2>1, <2>2
<1>10. \A i \in 1..n : e[i - 1] < v[i] /\ v[i] < e[i]
  <2>1. SUFFICES ASSUME NEW i \in 1..n PROVE e[i - 1] < v[i] /\ v[i] < e[i]
    OBVIOUS
  <2>2. i - 1 \in 0..n - 1 /\ v[i] \in 1..Len(s)
    BY <1>1
  <2>3. e[i - 1] = d[i - 1] /\ d[i - 1] \in 1..Len(s)
    BY <1>3, <1>9, <2>2
  <2>4. d[i - 1] # v[i]
    BY <1>6, <1>7, <2>2, Zenon
  <2>5. v[i] >= d[i - 1]
    BY <1>6
  <2>6. e[i - 1] < v[i]
    BY <1>2, <2>2, <2>3, <2>4, <2>5
  <2>7. v[i] < e[i]
    <3>1. CASE i = n
      BY <1>2, <1>9, <2>2, <3>1
    <3>2. CASE i # n
      <4>1. i \in 1..n - 1 /\ i \in 0..n - 1
        BY <3>2
      <4>2. s[d[i]] = "&" /\ d[i] >= v[i] /\ e[i] = d[i] /\ d[i] \in 1..Len(s)
        BY <1>3, <1>5, <1>9, <4>1
      <4>3. d[i] # v[i]
        <5>1. s[v[i]] = "="
          BY <1>6
        <5> QED
          BY <4>2, <5>1
      <4> QED
        BY <1>2, <2>2, <4>2, <4>3
    <3> QED
      BY <3>1, <3>2
  <2> QED
    BY <2>6, <2>7
<1>11. (\A i, j \in 0..n : i < j => e[i] < e[j]) /\ (\A i, j \in 1..n : i < j => v[i] < v[j])
  <2>1. \A i \in 0..n : e[i] \in Nat
    BY <1>9
  <2>2. \A i \in 1..n : v[i] \in Nat
    BY <1>9
  <2>3. \A i \in 0..n - 1 : e[i] < e[i + 1]
    <3>1. SUFFICES ASSUME NEW i \in 0..n - 1 PROVE e[i] < e[i + 1]
      OBVIOUS
    <3>2. i + 1 \in 1..n /\ (i + 1) - 1 = i /\ i \in 0..n /\ i + 1 \in 0..n
      OBVIOUS
    <3>3. e[i] < v[i + 1] /\ v[i + 1] < e[i + 1]
      BY <1>10, <3>2
    <3> QED
      BY <2>1, <2>2, <3>2, <3>3
  <2>4. \A i \in 1..n - 1 : v[i] < v[i + 1]
    <3>1. SUFFICES ASSUME NEW i \in 1..n - 1 PROVE v[i] < v[i + 1]
      OBVIOUS
    <3>2. i + 1 \in 1..n /\ (i + 1) - 1 = i /\ i \in 1..n /\ i \in 0..n
      OBVIOUS
    <3>3. v[i] < e[i] /\ e[i] < v[i + 1]
      BY <1>10, <3>2
    <3> QED
      BY <2>1, <2>2, <3>2, <3>3
  <2>5. n \in Nat
    OBVIOUS
  <2>6. \A i, j \in 0..n : i < j => e[i] < e[j]
    BY <2>1, <2>3, <2>5, StepwiseGrows
  <2>7. \A i, j \in 1..n : i < j => v[i] < v[j]
    BY <2>2, <2>4, <2>5, StepwiseGrows
  <2> QED
    BY <2>6, <2>7
<1>12. PlacesOf(s, "=") = {v[i] : i \in 1..n}
  <2>1. PICK S : S = PlacesOf(s, "=")
    OBVIOUS
  <2>2. S \in SUBSET Nat /\ IsFiniteSet(S) /\ Cardinality(S) = n
    BY <2>1, PlacesAre
  <2>3. \A i \in 1..n : v[i] \in S
    BY <1>1, <1>2, <1>6, <2>1 DEF PlacesOf
  <2>4. v \in [1..n -> S] /\ n \in Nat
    BY <1>1, <2>3
  <2>5. \A x \in S : \E i \in 1..n : v[i] = x
    <3>1. \A f \in [1..n -> S] : (\A i, j \in 1..n : i < j => f[i] < f[j]) => \A x \in S : \E i \in 1..n : f[i] = x
      BY <2>2, <2>4, EnumeratesAll
    <3> QED
      BY <1>11, <2>4, <3>1, Zenon
  <2> QED
    BY <2>1, <2>3, <2>5
<1>13. PlacesOf(s, "&") = {e[i] : i \in 1..n - 1}
  <2>1. PICK S, m, g : S = PlacesOf(s, "&") /\ m = n - 1 /\ g = [i \in 1..m |-> e[i]]
    OBVIOUS
  <2>2. S \in SUBSET Nat /\ IsFiniteSet(S) /\ Cardinality(S) = m /\ m \in Nat
    BY <2>1, PlacesAre
  <2>3. \A i \in 1..m : g[i] = e[i] /\ i \in 0..n /\ i \in 1..n - 1 /\ i \in 0..n - 1
    BY <2>1
  <2>4. \A i \in 1..m : e[i] \in S
    BY <1>2, <1>3, <1>5, <1>9, <2>1, <2>3 DEF PlacesOf
  <2>5. g \in [1..m -> S]
    BY <2>1, <2>4
  <2>6. \A i, j \in 1..m : i < j => g[i] < g[j]
    BY <1>11, <2>3, Zenon
  <2>7. \A x \in S : \E i \in 1..m : g[i] = x
    <3>1. \A f \in [1..m -> S] : (\A i, j \in 1..m : i < j => f[i] < f[j]) => \A x \in S : \E i \in 1..m : f[i] = x
      BY <2>2, EnumeratesAll
    <3> QED
      BY <2>5, <2>6, <3>1, Zenon
  <2> QED
    BY <2>1, <2>3, <2>4, <2>7
<1>14. QueryMark(s) # 0 /\ e[0] = QueryMark(s)
  BY <1>1, <1>3, <1>9
<1> QED
  BY <1>9, <1>10, <1>12, <1>13, <1>14, Zenon DEF Alternates

\* A URI the handler finds parameters in has such a query.
LEMMA RequestAlternates ==
  ASSUME NEW Char, NEW s \in Seq(Char), Occurrences(s, "=") > 0, RequestParams(s) # {}
  PROVE  \E n, d, v : Alternates(s, n, d, v)
<1>1. PICK n : n = Occurrences(s, "=")
  OBVIOUS
<1>2. n \in Nat \ {0} /\ Len(s) \in Nat /\ Occurrences(s, "&") \in Nat
  <2>1. Occurrences(s, "=") \in Nat /\ Len(s) \in Nat /\ Occurrences(s, "&") \in Nat
    BY PlacesAre
  <2> QED
    BY <1>1, <2>1
<1>3. GetParamsCountInReqURI(s) # {}
  <2>1. UNION {IF x = 0 THEN {<<>>} ELSE ParseParams(s, x) : x \in {}} = {}
    OBVIOUS
  <2> QED
    BY <2>1, Zenon DEF RequestParams
<1>4. GetParamsCountInReqURI(s) = {n} /\ Occurrences(s, "&") = n - 1
  <2>1. ~(Occurrences(s, "=") > 0 /\ Occurrences(s, "&") # Occurrences(s, "=") - 1)
    BY <1>3, Zenon DEF GetParamsCountInReqURI
  <2>2. GetParamsCountInReqURI(s) = {n}
    BY <1>1, <1>3, Zenon DEF GetParamsCountInReqURI
  <2> QED
    BY <1>1, <2>1, <2>2, Zenon
<1>5. ParseParams(s, n) # {}
  <2>1. RequestParams(s) = UNION {IF x = 0 THEN {<<>>} ELSE ParseParams(s, x) : x \in {n}}
    BY <1>4, Zenon DEF RequestParams
  <2>2. n # 0
    BY <1>2
  <2>3. RequestParams(s) = ParseParams(s, n)
    BY <2>1, <2>2
  <2> QED
    BY <2>3, Zenon
<1>6. ~(n > MaxParams)
  BY <1>5, Zenon DEF ParseParams
<1>7. PICK pairs : /\ ParseParams(s, n) = pairs[n][QueryMark(s)]
                   /\ pairs[0] = [key \in 0..Len(s) |-> {<<>>}]
                   /\ \A k \in 1..n : pairs[k] = PairsBehind(s, pairs[k - 1])
  BY <1>2, <1>6, ParamsHaveRows
<1>8. QueryMark(s) \in 0..Len(s) /\ n \in 0..n /\ n \in Nat
  <2>1. FirstFrom(s, 1, "?") \in 0..Len(s) /\ FirstFrom(s, 1, "%3F") \in 0..Len(s)
    BY FoundIsPlace
  <2>2. QueryMark(s) \in 0..Len(s)
    BY <2>1, Zenon DEF QueryMark
  <2> QED
    BY <1>2, <2>2
<1>9. \A k \in 0..n, key \in 0..Len(s) : pairs[k][key] # {} => \E d, v : IsChain(s, k, key, d, v)
  BY <1>7, <1>8, ChainExists
<1>10. PICK d, v : IsChain(s, n, QueryMark(s), d, v)
  BY <1>5, <1>7, <1>8, <1>9, Zenon
<1>11. \E e : Alternates(s, n, e, v)
  BY <1>1, <1>2, <1>4, <1>10, ChainAlternates
<1> QED
  BY <1>11, Zenon

\* A well-formed query is one of pairs between delimiters.
LEMMA WellFormedAlternates ==
  ASSUME NEW Char, NEW s \in Seq(Char), WellFormed(s)
  PROVE  \E n, d, v : Alternates(s, n, d, v)
<1>1. PICK Q, L, q, m : /\ Q = QueryMark(s) /\ L = Len(s) /\ q = SubSeq(s, Q + 1, L)
                        /\ m = Occurrences(q, "&")
  OBVIOUS
<1>2. /\ Q # 0 /\ Occurrences(SubSeq(s, 1, Q - 1), "=") = 0 /\ Occurrences(SubSeq(s, 1, Q - 1), "&") = 0
      /\ \A i \in 1..m + 1 : Occurrences(Split(q, "&")[i], "=") = 1
  BY <1>1, Zenon DEF WellFormed
<1>3. Q \in 1..L /\ L \in Nat /\ s[Q] # "=" /\ s[Q] # "&" /\ DOMAIN s = 1..L
  BY <1>1, <1>2, MarkIs, LenProperties
<1>4. /\ q \in Seq(Char) /\ Len(q) = L - Q /\ L - Q \in Nat
      /\ \A i \in 1..L - Q : q[i] = s[Q + i]
      /\ \A a \in 0..L - Q, b \in 1..L - Q + 1 : a < b =>
           /\ Piece(q, a, b) \in Seq(Char) /\ Len(Piece(q, a, b)) = (b - 1) - a
           /\ \A k \in 1..(b - 1) - a : Piece(q, a, b)[k] = q[a + k]
  <2>1. (L + 1) - 1 = L /\ ((L + 1) - 1) - Q = L - Q /\ L - Q \in Nat /\ Q < L + 1
        /\ Q \in 0..L /\ L + 1 \in 1..L + 1
    BY <1>3
  <2>2. \A t \in Seq(Char) : \A x \in 0..Len(t), y \in 1..Len(t) + 1 : x < y =>
          /\ Piece(t, x, y) \in Seq(Char) /\ Len(Piece(t, x, y)) = (y - 1) - x
          /\ \A k \in 1..(y - 1) - x : Piece(t, x, y)[k] = t[x + k]
    BY PieceIs DEF Piece
  <2>3. q = Piece(s, Q, L + 1)
    BY <1>1, <2>1, Zenon DEF Piece
  <2>4. q \in Seq(Char) /\ Len(q) = L - Q /\ \A i \in 1..L - Q : q[i] = s[Q + i]
    <3>1. \A x \in 0..L, y \in 1..L + 1 : x < y =>
            /\ Piece(s, x, y) \in Seq(Char) /\ Len(Piece(s, x, y)) = (y - 1) - x
            /\ \A k \in 1..(y - 1) - x : Piece(s, x, y)[k] = s[x + k]
      BY <1>1, <2>2
    <3>2. /\ Piece(s, Q, L + 1) \in Seq(Char) /\ Len(Piece(s, Q, L + 1)) = ((L + 1) - 1) - Q
          /\ \A k \in 1..((L + 1) - 1) - Q : Piece(s, Q, L + 1)[k] = s[Q + k]
      BY <2>1, <3>1
    <3> QED
      BY <2>1, <2>3, <3>2
  <2>5. \A a \in 0..L - Q, b \in 1..L - Q + 1 : a < b =>
          /\ Piece(q, a, b) \in Seq(Char) /\ Len(Piece(q, a, b)) = (b - 1) - a
          /\ \A k \in 1..(b - 1) - a : Piece(q, a, b)[k] = q[a + k]
    <3>1. \A a \in 0..Len(q), b \in 1..Len(q) + 1 : a < b =>
            /\ Piece(q, a, b) \in Seq(Char) /\ Len(Piece(q, a, b)) = (b - 1) - a
            /\ \A k \in 1..(b - 1) - a : Piece(q, a, b)[k] = q[a + k]
      BY <2>2, <2>4
    <3> QED
      BY <2>4, <3>1
  <2> QED
    BY <2>1, <2>4, <2>5, Zenon
<1>5. m \in Nat /\ PlacesOf(q, "&") \in SUBSET (1..L - Q)
      /\ \A i \in 1..L - Q : i \in PlacesOf(q, "&") <=> q[i] = "&"
  <2>1. /\ Occurrences(q, "&") \in Nat /\ PlacesOf(q, "&") \in SUBSET (1..Len(q))
        /\ \A i \in 1..Len(q) : i \in PlacesOf(q, "&") <=> q[i] = "&"
    BY <1>4, PlacesAre
  <2>2. Len(q) = L - Q
    BY <1>4
  <2> QED
    BY <1>1, <2>1, <2>2
<1>6. \A x \in 1..L : x < Q => s[x] # "=" /\ s[x] # "&"
  <2>1. PICK path : path = SubSeq(s, 1, Q - 1)
    OBVIOUS
  <2>2. path \in Seq(Char) /\ Len(path) = Q - 1 /\ \A x \in 1..Q - 1 : path[x] = s[x]
    BY <1>1, <1>3, <2>1
  <2>3. \A c : IsFiniteSet(PlacesOf(path, c)) /\ Occurrences(path, c) = Cardinality(PlacesOf(path, c))
    BY <2>2, PlacesAre
  <2>4. PlacesOf(path, "=") = {} /\ PlacesOf(path, "&") = {}
    BY <1>2, <2>1, <2>3, FS_EmptySet, Zenon
  <2>5. DOMAIN path = 1..Q - 1
    BY <2>2, LenProperties
  <2>6. \A x \in 1..Q - 1 : path[x] # "=" /\ path[x] # "&"
    BY <2>4, <2>5 DEF PlacesOf
  <2>7. \A x \in 1..L : x < Q => x \in 1..Q - 1
    BY <1>3
  <2> QED
    BY <2>2, <2>6, <2>7, Zenon
<1>7. PICK C : C = [i \in 1..m + 2 |-> Nth(Cuts(q, "&"), i)]
  OBVIOUS
<1>8. \A i \in 1..m + 1 : i \in 1..m + 2 /\ i + 1 \in 1..m + 2 /\ C[i] = Nth(Cuts(q, "&"), i)
                          /\ C[i + 1] = Nth(Cuts(q, "&"), i + 1)
  BY <1>5, <1>7
<1>9. /\ \A i \in 1..m + 1 :
           /\ Split(q, "&")[i] = Piece(q, C[i], C[i + 1])
           /\ C[i] \in 0..L - Q /\ C[i + 1] \in 1..L - Q + 1 /\ C[i] < C[i + 1]
           /\ \A j \in 1..L - Q : C[i] < j /\ j < C[i + 1] => q[j] # "&"
           /\ i > 1 => q[C[i]] = "&"
           /\ i = 1 => C[i] = 0
           /\ i = m + 1 => C[i + 1] = L - Q + 1
  <2>1. SUFFICES ASSUME NEW i \in 1..m + 1
                 PROVE  /\ Split(q, "&")[i] = Piece(q, C[i], C[i + 1])
                        /\ C[i] \in 0..L - Q /\ C[i + 1] \in 1..L - Q + 1 /\ C[i] < C[i + 1]
                        /\ \A j \in 1..L - Q : C[i] < j /\ j < C[i + 1] => q[j] # "&"
                        /\ i > 1 => q[C[i]] = "&"
                        /\ i = 1 => C[i] = 0
                        /\ i = m + 1 => C[i + 1] = L - Q + 1
    OBVIOUS
  <2>2. PICK a, b : a = C[i] /\ b = C[i + 1]
    OBVIOUS
  <2>3. a = Nth(Cuts(q, "&"), i) /\ b = Nth(Cuts(q, "&"), i + 1)
    BY <1>8, <2>2, Zenon
  <2>4. /\ Split(q, "&")[i] = SubSeq(q, a + 1, b - 1)
        /\ a \in 0..Len(q) /\ b \in 1..Len(q) + 1 /\ a < b
        /\ \A k \in 1..Len(q) : a < k /\ k < b => q[k] # "&"
        /\ i > 1 => a \in 1..Len(q) /\ q[a] = "&"
        /\ i = 1 => a = 0
        /\ i = Occurrences(q, "&") + 1 => b = Len(q) + 1
    <3>1. i \in 1..Occurrences(q, "&") + 1
      BY <1>1
    <3>2. /\ Split(q, "&")[i] = SubSeq(q, Nth(Cuts(q, "&"), i) + 1, Nth(Cuts(q, "&"), i + 1) - 1)
          /\ Nth(Cuts(q, "&"), i) \in 0..Len(q) /\ Nth(Cuts(q, "&"), i + 1) \in 1..Len(q) + 1
          /\ Nth(Cuts(q, "&"), i) < Nth(Cuts(q, "&"), i + 1)
          /\ \A k \in 1..Len(q) : Nth(Cuts(q, "&"), i) < k /\ k < Nth(Cuts(q, "&"), i + 1) => q[k] # "&"
          /\ i > 1 => Nth(Cuts(q, "&"), i) \in 1..Len(q) /\ q[Nth(Cuts(q, "&"), i)] = "&"
          /\ i = 1 => Nth(Cuts(q, "&"), i) = 0
          /\ i = Occurrences(q, "&") + 1 => Nth(Cuts(q, "&"), i + 1) = Len(q) + 1
      <4>1. q \in Seq(Char)
        BY <1>4
      <4> QED
        BY <3>1, <4>1, PartIs
    <3> QED
      BY <2>3, <3>2, Zenon
  <2> QED
    BY <1>1, <1>4, <2>2, <2>4, Zenon DEF Piece
<1>10. \A i \in 1..m + 1 : \E k \in 1..(C[i + 1] - 1) - C[i] :
         /\ q[C[i] + k] = "="
         /\ \A l \in 1..(C[i + 1] - 1) - C[i] : q[C[i] + l] = "=" => l = k
  <2>1. SUFFICES ASSUME NEW i \in 1..m + 1
                 PROVE  \E k \in 1..(C[i + 1] - 1) - C[i] :
                          /\ q[C[i] + k] = "="
                          /\ \A l \in 1..(C[i + 1] - 1) - C[i] : q[C[i] + l] = "=" => l = k
    OBVIOUS
  <2>2. PICK t, a, b : t = Split(q, "&")[i] /\ a = C[i] /\ b = C[i + 1]
    OBVIOUS
  <2>3. t \in Seq(Char) /\ Len(t) = (b - 1) - a /\ \A k \in 1..(b - 1) - a : t[k] = q[a + k]
    <3>1. t = Piece(q, a, b) /\ a \in 0..L - Q /\ b \in 1..L - Q + 1 /\ a < b
      BY <1>9, <2>2
    <3>2. /\ Piece(q, a, b) \in Seq(Char) /\ Len(Piece(q, a, b)) = (b - 1) - a
          /\ \A k \in 1..(b - 1) - a : Piece(q, a, b)[k] = q[a + k]
      BY <1>4, <3>1
    <3> QED
      BY <3>1, <3>2
  <2>4. /\ IsFiniteSet(PlacesOf(t, "=")) /\ Cardinality(PlacesOf(t, "=")) = 1
        /\ \A k \in 1..Len(t) : k \in PlacesOf(t, "=") <=> t[k] = "="
        /\ PlacesOf(t, "=") \in SUBSET (1..Len(t))
    <3>1. Occurrences(t, "=") = 1
      BY <1>2, <2>2, Zenon
    <3> QED
      BY <2>3, <3>1, PlacesAre
  <2>5. PICK k : PlacesOf(t, "=") = {k}
    BY <2>4, FS_Singleton, Zenon
  <2>6. k \in 1..(b - 1) - a /\ t[k] = "=" /\ \A l \in 1..(b - 1) - a : t[l] = "=" => l = k
    <3>1. k \in 1..Len(t) /\ t[k] = "=" /\ \A l \in 1..Len(t) : t[l] = "=" => l = k
      <4>1. \A l : l \in PlacesOf(t, "=") <=> l = k
        BY <2>5
      <4>2. k \in 1..Len(t) /\ k \in PlacesOf(t, "=")
        BY <2>4, <4>1
      <4>3. \A l \in 1..Len(t) : l \in PlacesOf(t, "=") <=> t[l] = "="
        BY <2>4
      <4> QED
        BY <4>1, <4>2, <4>3
    <3>2. Len(t) = (b - 1) - a
      BY <2>3
    <3> QED
      BY <3>1, <3>2
  <2>7. k \in 1..(b - 1) - a /\ q[a + k] = "=" /\ \A l \in 1..(b - 1) - a : q[a + l] = "=" => l = k
    BY <2>3, <2>6, Zenon
  <2> QED
    BY <2>2, <2>7
<1>11. PICK n : n = m + 1
  OBVIOUS
<1>12. n \in Nat \ {0} /\ n = m + 1 /\ n + 1 = m + 2
  BY <1>5, <1>11
<1>13. PICK E : /\ E = [i \in 1..n |-> CHOOSE k \in 1..(C[i + 1] - 1) - C[i] :
                          /\ q[C[i] + k] = "="
                          /\ \A l \in 1..(C[i + 1] - 1) - C[i] : q[C[i] + l] = "=" => l = k]
  OBVIOUS
<1>14. \A i \in 1..n : /\ E[i] \in 1..(C[i + 1] - 1) - C[i] /\ q[C[i] + E[i]] = "="
                       /\ \A l \in 1..(C[i + 1] - 1) - C[i] : q[C[i] + l] = "=" => l = E[i]
  <2>1. SUFFICES ASSUME NEW i \in 1..n
                 PROVE  /\ E[i] \in 1..(C[i + 1] - 1) - C[i] /\ q[C[i] + E[i]] = "="
                        /\ \A l \in 1..(C[i + 1] - 1) - C[i] : q[C[i] + l] = "=" => l = E[i]
    OBVIOUS
  <2>2. E[i] = CHOOSE k \in 1..(C[i + 1] - 1) - C[i] :
                 /\ q[C[i] + k] = "="
                 /\ \A l \in 1..(C[i + 1] - 1) - C[i] : q[C[i] + l] = "=" => l = k
    BY <1>13, Zenon
  <2> QED
    BY <1>10, <1>11, <2>2, Zenon
<1>15. /\ \A i \in 1..n + 1 : C[i] \in 0..L - Q + 1 /\ C[i] \in Nat
       /\ \A i \in 1..n : /\ i \in 1..n + 1 /\ i + 1 \in 1..n + 1 /\ i \in 0..n /\ i - 1 \in 0..n
                          /\ C[i] \in 0..L - Q /\ C[i + 1] \in 1..L - Q + 1 /\ C[i] < C[i + 1]
                          /\ \A j \in 1..L - Q : C[i] < j /\ j < C[i + 1] => q[j] # "&"
                          /\ i > 1 => q[C[i]] = "&"
       /\ C[1] = 0 /\ C[n + 1] = L - Q + 1
  <2>1. /\ \A i \in 1..n : /\ C[i] \in 0..L - Q /\ C[i + 1] \in 1..L - Q + 1 /\ C[i] < C[i + 1]
                           /\ \A j \in 1..L - Q : C[i] < j /\ j < C[i + 1] => q[j] # "&"
                           /\ i > 1 => q[C[i]] = "&"
                           /\ i = 1 => C[i] = 0
                           /\ i = m + 1 => C[i + 1] = L - Q + 1
    BY <1>9, <1>11, Zenon
  <2>2. 1 \in 1..n /\ n \in 1..n
    BY <1>12
  <2>3. C[1] = 0 /\ C[n + 1] = L - Q + 1
    BY <1>11, <2>1, <2>2, Zenon
  <2>4. ASSUME NEW i \in 1..n
        PROVE  i \in 1..n + 1 /\ i + 1 \in 1..n + 1 /\ i \in 0..n /\ i - 1 \in 0..n
    BY <1>12
  <2>5. ASSUME NEW i \in 1..n + 1 PROVE C[i] \in 0..L - Q + 1 /\ C[i] \in Nat
    <3>1. i = n + 1 \/ i \in 1..n
      BY <1>12
    <3>2. \A y \in Nat : \A x \in 0..y : x \in 0..y + 1 /\ x \in Nat /\ y + 1 \in 0..y + 1 /\ y + 1 \in Nat
      OBVIOUS
    <3>3. CASE i = n + 1
      <4>1. C[i] = L - Q + 1
        BY <2>3, <3>3
      <4> QED
        BY <1>4, <3>2, <4>1
    <3>4. CASE i \in 1..n
      <4>1. C[i] \in 0..L - Q
        BY <2>1, <3>4
      <4> QED
        BY <1>4, <3>2, <4>1
    <3> QED
      BY <3>1, <3>3, <3>4
  <2> QED
    BY <2>1, <2>3, <2>4, <2>5, Zenon
<1>16. ASSUME NEW j \in 1..L - Q PROVE \E i \in 1..n : C[i] <= j /\ j < C[i + 1]
  <2>1. PICK Later : Later = {i \in 1..n : j < C[i + 1]}
    OBVIOUS
  <2>2. n \in 1..n /\ j < C[n + 1] /\ j \in Nat
    BY <1>4, <1>12, <1>15
  <2>3. n \in Later /\ Later \in SUBSET Nat
    BY <2>1, <2>2
  <2>4. PICK i \in Later : \A k \in Later : i <= k
    BY <2>3, LeastNumber, Zenon
  <2>5. i \in 1..n /\ j < C[i + 1]
    BY <2>1, <2>4, Zenon
  <2>6. CASE i = 1
    BY <1>15, <2>2, <2>5, <2>6
  <2>7. CASE i # 1
    <3>1. i - 1 \in 1..n /\ (i - 1) + 1 = i /\ ~(i <= i - 1)
      BY <1>12, <2>5, <2>7
    <3>2. ~(j < C[i])
      BY <2>1, <2>4, <3>1, Zenon
    <3>3. C[i] \in Nat
      BY <1>15, <2>5, Zenon
    <3> QED
      BY <2>2, <2>5, <3>2, <3>3
  <2> QED
    BY <2>6, <2>7
<1>17. PICK d, v : d = [i \in 0..n |-> Q + C[i + 1]] /\ v = [i \in 1..n |-> Q + (C[i] + E[i])]
  OBVIOUS
<1>18. ASSUME NEW i \in 1..n
       PROVE  /\ d[i - 1] = Q + C[i] /\ d[i] = Q + C[i + 1] /\ v[i] = Q + (C[i] + E[i])
              /\ C[i] + E[i] \in 1..L - Q /\ C[i] < C[i] + E[i] /\ C[i] + E[i] < C[i + 1]
              /\ d[i - 1] < v[i] /\ v[i] < d[i] /\ v[i] \in Nat
  <2>1. i \in 0..n /\ i - 1 \in 0..n /\ (i - 1) + 1 = i
    BY <1>12
  <2>2. d[i - 1] = Q + C[i] /\ d[i] = Q + C[i + 1] /\ v[i] = Q + (C[i] + E[i])
    BY <1>17, <2>1
  <2>3. PICK x, y, z : x = C[i] /\ y = C[i + 1] /\ z = E[i]
    OBVIOUS
  <2>4. x \in 0..L - Q /\ y \in 1..L - Q + 1 /\ x < y /\ z \in 1..(y - 1) - x
    BY <1>14, <1>15, <2>3, Zenon
  <2>5. /\ x + z \in 1..L - Q /\ x < x + z /\ x + z < y
        /\ Q + x < Q + (x + z) /\ Q + (x + z) < Q + y /\ Q + (x + z) \in Nat
    BY <1>3, <1>4, <2>4
  <2> QED
    BY <2>2, <2>3, <2>5, Zenon
<1>19. d \in [0..n -> Nat] /\ v \in [1..n -> Nat] /\ d[0] = Q /\ d[n] = L + 1
  <2>1. ASSUME NEW i \in 0..n PROVE Q + C[i + 1] \in Nat
    <3>1. i + 1 \in 1..n + 1
      BY <1>12
    <3>2. C[i + 1] \in Nat
      BY <1>15, <3>1, Zenon
    <3> QED
      BY <1>3, <3>2
  <2>2. d \in [0..n -> Nat]
    BY <1>17, <2>1
  <2>3. v \in [1..n -> Nat]
    BY <1>17, <1>18
  <2>4. d[0] = Q + 0 /\ d[n] = Q + (L - Q + 1)
    <3>1. d[0] = Q + C[0 + 1] /\ d[n] = Q + C[n + 1] /\ 0 + 1 = 1
      BY <1>12, <1>17
    <3> QED
      BY <1>15, <3>1, Zenon
  <2> QED
    BY <1>3, <2>2, <2>3, <2>4
<1>20. \A x \in 1..L : s[x] = "=" \/ s[x] = "&" =>
         \E j \in 1..L - Q : x = Q + j /\ q[j] = s[x]
  <2>1. SUFFICES ASSUME NEW x \in 1..L, s[x] = "=" \/ s[x] = "&"
                 PROVE  \E j \in 1..L - Q : x = Q + j /\ q[j] = s[x]
    OBVIOUS
  <2>2. ~(x < Q) /\ x # Q
    BY <1>3, <1>6, <2>1
  <2>3. x - Q \in 1..L - Q /\ x = Q + (x - Q)
    BY <1>3, <2>2
  <2> QED
    BY <1>4, <2>3, Zenon
<1>21. /\ PlacesOf(s, "=") \in SUBSET (1..L) /\ PlacesOf(s, "&") \in SUBSET (1..L)
       /\ \A x \in 1..L : /\ x \in PlacesOf(s, "=") <=> s[x] = "="
                          /\ x \in PlacesOf(s, "&") <=> s[x] = "&"
  BY <1>3 DEF PlacesOf
<1>22. \A j \in 1..L - Q : Q + j \in 1..L /\ s[Q + j] = q[j]
  BY <1>3, <1>4
<1>23. PlacesOf(s, "=") = {v[i] : i \in 1..n}
  <2>1. ASSUME NEW i \in 1..n PROVE v[i] \in PlacesOf(s, "=")
    <3>1. v[i] \in 1..L /\ s[v[i]] = q[C[i] + E[i]]
      BY <1>18, <1>22, Zenon
    <3> QED
      BY <1>14, <1>21, <3>1, Zenon
  <2>2. ASSUME NEW x \in PlacesOf(s, "=") PROVE \E i \in 1..n : x = v[i]
    <3>1. x \in 1..L /\ s[x] = "="
      BY <1>21, <2>2
    <3>2. PICK j \in 1..L - Q : x = Q + j /\ q[j] = "="
      BY <1>20, <3>1
    <3>3. PICK i \in 1..n : C[i] <= j /\ j < C[i + 1]
      BY <1>16, Zenon
    <3>4. PICK a, b : a = C[i] /\ b = C[i + 1]
      OBVIOUS
    <3>5. a \in Nat /\ b \in Nat /\ j \in Nat /\ a <= j /\ j < b
      BY <1>4, <1>15, <3>3, <3>4
    <3>6. a # j
      <4>1. CASE i = 1
        BY <1>15, <3>4, <4>1
      <4>2. CASE i # 1
        <5>1. i > 1
          BY <1>12, <4>2
        <5>2. q[a] = "&"
          BY <1>15, <3>4, <5>1, Zenon
        <5> QED
          BY <3>2, <5>2
      <4> QED
        BY <4>1, <4>2
    <3>7. j - a \in 1..(b - 1) - a /\ a + (j - a) = j
      BY <3>5, <3>6
    <3>8. j - a = E[i]
      BY <1>14, <3>2, <3>4, <3>7, Zenon
    <3>9. x = v[i]
      BY <1>18, <3>2, <3>4, <3>7, <3>8, Zenon
    <3> QED
      BY <3>9
  <2> QED
    BY <2>1, <2>2
<1>24. PlacesOf(s, "&") = {d[i] : i \in 1..n - 1}
  <2>1. ASSUME NEW i \in 1..n - 1 PROVE d[i] \in PlacesOf(s, "&")
    <3>1. i \in 1..n /\ i + 1 \in 1..n /\ i + 1 > 1
      BY <1>12
    <3>2. d[i] = Q + C[i + 1] /\ C[i + 1] \in 0..L - Q /\ C[i] \in Nat /\ C[i] < C[i + 1]
          /\ q[C[i + 1]] = "&"
      BY <1>15, <1>18, <3>1, Zenon
    <3>3. C[i + 1] \in 1..L - Q
      BY <1>4, <3>2
    <3>4. d[i] \in 1..L /\ s[d[i]] = "&"
      BY <1>22, <3>2, <3>3, Zenon
    <3> QED
      BY <1>21, <3>4, Zenon
  <2>2. ASSUME NEW x \in PlacesOf(s, "&") PROVE \E i \in 1..n - 1 : x = d[i]
    <3>1. x \in 1..L /\ s[x] = "&"
      BY <1>21, <2>2
    <3>2. PICK j \in 1..L - Q : x = Q + j /\ q[j] = "&"
      BY <1>20, <3>1
    <3>3. PICK i \in 1..n : C[i] <= j /\ j < C[i + 1]
      BY <1>16, Zenon
    <3>4. C[i] \in Nat /\ j \in Nat /\ j # 0
      BY <1>4, <1>15
    <3>5. ~(C[i] < j)
      BY <1>15, <3>2, <3>3, Zenon
    <3>6. C[i] = j
      BY <3>3, <3>4, <3>5
    <3>7. i # 1
      BY <1>15, <3>4, <3>6
    <3>8. i - 1 \in 1..n - 1
      BY <1>12, <3>7
    <3>9. x = d[i - 1]
      BY <1>18, <3>2, <3>6, Zenon
    <3> QED
      BY <3>8, <3>9
  <2> QED
    BY <2>1, <2>2
<1>25. n \in Nat \ {0} /\ QueryMark(s) # 0 /\ d[0] = QueryMark(s) /\ d[n] = Len(s) + 1
       /\ \A i \in 1..n : d[i - 1] < v[i] /\ v[i] < d[i]
  BY <1>1, <1>2, <1>12, <1>18, <1>19, Zenon
<1>26. Alternates(s, n, d, v)
  BY <1>19, <1>23, <1>24, <1>25, Zenon DEF Alternates
<1> QED
  BY <1>26, Zenon

-----------------------------------------------------------------------------
(* Any URI.                                                                *)

\* A character that stands nowhere is not found.
LEMMA NoneIsFound ==
  ASSUME NEW Char, NEW s \in Seq(Char)
  PROVE  \A c : (\A k \in DOMAIN s : s[k] # c) => FirstFrom(s, 1, c) = 0
<1>1. \A c : \/ FirstFrom(s, 1, c) = 0
             \/ FirstFrom(s, 1, c) \in 1..Len(s) /\ s[FirstFrom(s, 1, c)] = c
  BY FirstFromFinds
<1>2. DOMAIN s = 1..Len(s)
  BY LenProperties
<1> QED
  BY <1>1, <1>2, Zenon

\* What the handler finds in a URI without a space.
LEMMA QueryIsParsed ==
  ASSUME NEW Char, NEW s \in Seq(Char), NoSpace(s), Occurrences(s, "=") > 0
  PROVE  RequestParams(s) = IF WellFormed(s) THEN {Pairs(SubSeq(s, QueryMark(s) + 1, Len(s)))} ELSE {}
<1>1. CASE \E n, d, v : Alternates(s, n, d, v)
  BY <1>1, RequestHasPairs
<1>2. CASE ~\E n, d, v : Alternates(s, n, d, v)
  <2>1. ~WellFormed(s)
    BY <1>2, WellFormedAlternates, Zenon
  <2>2. RequestParams(s) = {}
    BY <1>2, RequestAlternates, Zenon
  <2> QED
    BY <2>1, <2>2, Zenon
<1> QED
  BY <1>1, <1>2

\* Over any alphabet, for URIs of any length that hold no space (the request
\* line ends the URI at one): counting the '=' and '&' of the whole URI and
\* cutting the query from the left accepts exactly the well-formed queries,
\* and the callback gets their pairs in order.
THEOREM QueriesAreParsed ==
  ASSUME NEW Char, uri \in Seq(Char), \A k \in DOMAIN uri : uri[k] # " "
  PROVE  ParamsArePairs
<1>1. NoSpace(uri)
  BY NoneIsFound, Zenon DEF NoSpace
<1> QED
  BY <1>1, QueryIsParsed, Zenon DEF ParamsArePairs

=============================================================================

----------------------------- MODULE SumsProofs -----------------------------
(***************************************************************************)
(* What the proofs of the other modules use about SumOver and Max, for     *)
(* every finite set.  The library's induction theorems are stated for an   *)
(* operator, which the provers at hand cannot instantiate.  These lemmas   *)
(* rest on Smallest instead: a smallest counterexample leads to a smaller. *)
(***************************************************************************)
EXTENDS Sums, FiniteSetTheorems, TLAPS

\* Among subsets of a finite set there is one with no smaller one among them.
LEMMA Smallest ==
  ASSUME NEW S, IsFiniteSet(S), NEW F, F \subseteq SUBSET S, F # {}
  PROVE  \E T \in F : \A U \in F : U \subseteq T => U = T
  <1>1. FiniteSubsetsOf(S) = SUBSET S
    BY FS_FiniteSubsetsOfFinite
  <1>2. IsWellFoundedOn(StrictSubsetOrdering(S), SUBSET S)
    BY <1>1, FS_StrictSubsetOrderingWellFounded
  <1>3. PICK T \in F : \A U \in F : ~(<<U, T>> \in StrictSubsetOrdering(S))
    BY <1>2, WFMin
  <1>4. QED
    BY <1>3 DEF StrictSubsetOrdering

Chosen(s) == CHOOSE x \in s : TRUE

\* g is the table of the sums of f over the subsets of S.
Tabulates(g, f, S) ==
  g = [s \in SUBSET S |-> IF s = {} THEN 0 ELSE f[Chosen(s)] + g[s \ {Chosen(s)}]]

Table(f, S) == CHOOSE g : Tabulates(g, f, S)

\* SumOver reads its result off the table of the sums of all subsets, which the
\* recursive function in MapThenFoldSet stands for.
LEMMA SumIsTabled == ASSUME NEW f, NEW S PROVE SumOver(f, S) = Table(f, S)[S]
  BY DEF SumOver, MapThenSumSet, MapThenFoldSet, Table, Tabulates, Chosen

\* The element at which a sum is continued is one of the set.
LEMMA ChosenIn == ASSUME NEW s, s # {} PROVE Chosen(s) \in s
  BY DEF Chosen

\* There is at most one table.
LEMMA TableUnique ==
  ASSUME NEW S, IsFiniteSet(S), NEW f, NEW g, Tabulates(g, f, S), NEW h, Tabulates(h, f, S)
  PROVE  g = h
  <1> DEFINE F == {s \in SUBSET S : g[s] # h[s]}
  <1>1. /\ g[{}] = 0 /\ h[{}] = 0
        /\ \A s \in SUBSET S : s # {} =>
             /\ g[s] = f[Chosen(s)] + g[s \ {Chosen(s)}]
             /\ h[s] = f[Chosen(s)] + h[s \ {Chosen(s)}]
        /\ g = [s \in SUBSET S |-> g[s]] /\ h = [s \in SUBSET S |-> h[s]]
    BY DEF Tabulates
  <1>2. F = {}
    <2> SUFFICES ASSUME F # {} PROVE FALSE
      OBVIOUS
    <2>0. F \subseteq SUBSET S
      OBVIOUS
    <2>1. PICK T \in F : \A U \in F : U \subseteq T => U = T
      <3> HIDE DEF F
      <3> QED  BY <2>0, Smallest
    <2>2. T # {} /\ T \in SUBSET S /\ g[T] # h[T]
      BY <1>1, <2>1
    <2>3. T \ {Chosen(T)} \notin F
      BY <2>1, <2>2, ChosenIn
    <2>4. g[T \ {Chosen(T)}] = h[T \ {Chosen(T)}]
      BY <2>2, <2>3
    <2>5. QED
      BY <1>1, <2>2, <2>4
  <1>3. \A s \in SUBSET S : g[s] = h[s]
    BY <1>2
  <1>4. QED
    BY <1>1, <1>3

\* A part of a table is a table.
LEMMA TableRestricted ==
  ASSUME NEW S, NEW f, NEW g, Tabulates(g, f, S), NEW T \in SUBSET S
  PROVE  Tabulates([s \in SUBSET T |-> g[s]], f, T)
  <1> DEFINE h == [s \in SUBSET T |-> g[s]]
  <1>1. ASSUME NEW s \in SUBSET T
        PROVE  h[s] = IF s = {} THEN 0 ELSE f[Chosen(s)] + h[s \ {Chosen(s)}]
    <2>1. g[s] = IF s = {} THEN 0 ELSE f[Chosen(s)] + g[s \ {Chosen(s)}]
      BY <1>1 DEF Tabulates
    <2>2. QED
      BY <1>1, <2>1
  <1>2. h = [s \in SUBSET T |-> h[s]]
    OBVIOUS
  <1> HIDE DEF h
  <1>3. h = [s \in SUBSET T |-> IF s = {} THEN 0 ELSE f[Chosen(s)] + h[s \ {Chosen(s)}]]
    BY <1>1, <1>2
  <1>4. Tabulates(h, f, T)
    BY <1>3 DEF Tabulates
  <1>5. QED
    BY <1>4 DEF h

\* There is a table: those of the smaller sets make one.
LEMMA TableExists ==
  ASSUME NEW S, IsFiniteSet(S), NEW f
  PROVE  Tabulates(Table(f, S), f, S)
  <1> DEFINE F == {s \in SUBSET S : ~Tabulates(Table(f, s), f, s)}
  <1> SUFFICES ASSUME F # {} PROVE FALSE
    BY DEF F
  <1>0. F \subseteq SUBSET S
    OBVIOUS
  <1>1. PICK T \in F : \A U \in F : U \subseteq T => U = T
    <2> HIDE DEF F
    <2> QED  BY <1>0, Smallest
  <1>2. \A s \in SUBSET T : s # T => Tabulates(Table(f, s), f, s)
    BY <1>1
  <1> DEFINE part(s) == Table(f, s)[s]
             sum(s) == IF s = {} THEN 0 ELSE f[Chosen(s)] + part(s \ {Chosen(s)})
             g == [s \in SUBSET T |-> sum(s)]
  <1>3. ASSUME NEW s \in SUBSET T, s # T PROVE part(s) = sum(s)
    <2>1. Tabulates(Table(f, s), f, s)
      BY <1>2, <1>3
    <2>2. CASE s = {}
      BY <2>1, <2>2 DEF Tabulates
    <2>3. CASE s # {}
      <3> DEFINE r == s \ {Chosen(s)}
      <3>1. r \in SUBSET s /\ r \in SUBSET T /\ r # T
        BY <1>3, <2>3, ChosenIn
      <3>2. part(s) = f[Chosen(s)] + Table(f, s)[r]
        BY <2>1, <2>3 DEF Tabulates
      <3>3. Tabulates([u \in SUBSET r |-> Table(f, s)[u]], f, r)
        <4> HIDE DEF r
        <4> QED  BY <2>1, <3>1, TableRestricted
      <3>4. Tabulates(Table(f, r), f, r)
        BY <1>2, <3>1
      <3>5. IsFiniteSet(r)
        BY <3>1, FS_Subset
      <3>6. Table(f, r) = [u \in SUBSET r |-> Table(f, s)[u]]
        BY <3>3, <3>4, <3>5, TableUnique
      <3>7. part(r) = Table(f, s)[r]
        BY <3>6
      <3>8. QED
        BY <2>3, <3>2, <3>7
    <2>4. QED
      BY <2>2, <2>3
  <1>4. ASSUME NEW s \in SUBSET T, s # {} PROVE part(s \ {Chosen(s)}) = g[s \ {Chosen(s)}]
    <2>1. s \ {Chosen(s)} \in SUBSET T /\ s \ {Chosen(s)} # T
      BY <1>4, ChosenIn
    <2>2. QED
      BY <1>3, <2>1
  <1> HIDE DEF part
  <1>5. g = [s \in SUBSET T |-> IF s = {} THEN 0 ELSE f[Chosen(s)] + g[s \ {Chosen(s)}]]
    BY <1>4
  <1>6. Tabulates(g, f, T)
    BY <1>5 DEF Tabulates
  <1>7. Tabulates(Table(f, T), f, T)
    BY <1>6 DEF Table
  <1>8. QED
    BY <1>1, <1>7

\* The empty sum.
LEMMA SumOfNone == ASSUME NEW f PROVE SumOver(f, {}) = 0
  <1>1. Tabulates(Table(f, {}), f, {})
    BY TableExists, FS_EmptySet
  <1>2. Table(f, {})[{}] = 0
    BY <1>1 DEF Tabulates
  <1>3. QED
    BY <1>2, SumIsTabled

\* The sum as the recursion computes it.
LEMMA SumFromChosen ==
  ASSUME NEW f, NEW S, IsFiniteSet(S), S # {}
  PROVE  SumOver(f, S) = f[Chosen(S)] + SumOver(f, S \ {Chosen(S)})
  <1> DEFINE r == S \ {Chosen(S)}
  <1>1. r \in SUBSET S /\ IsFiniteSet(r)
    BY FS_Subset
  <1>2. Tabulates(Table(f, S), f, S) /\ Tabulates(Table(f, r), f, r)
    <2> HIDE DEF r
    <2> QED  BY <1>1, TableExists
  <1>3. Table(f, S)[S] = f[Chosen(S)] + Table(f, S)[r]
    BY <1>2 DEF Tabulates
  <1> HIDE DEF r
  <1>4. Tabulates([u \in SUBSET r |-> Table(f, S)[u]], f, r)
    BY <1>1, <1>2, TableRestricted
  <1>5. Table(f, r) = [u \in SUBSET r |-> Table(f, S)[u]]
    BY <1>1, <1>2, <1>4, TableUnique
  <1>6. Table(f, r)[r] = Table(f, S)[r]
    BY <1>5
  <1>7. QED
    BY <1>3, <1>6, SumIsTabled DEF r

\* A sum of integers is an integer.
LEMMA SumIsInt ==
  ASSUME NEW S, IsFiniteSet(S), NEW f, \A x \in S : f[x] \in Int
  PROVE  SumOver(f, S) \in Int
  <1> DEFINE F == {s \in SUBSET S : SumOver(f, s) \notin Int}
  <1> SUFFICES ASSUME F # {} PROVE FALSE
    BY DEF F
  <1>1. F \subseteq SUBSET S
    OBVIOUS
  <1>2. PICK T \in F : \A U \in F : U \subseteq T => U = T
    <2> HIDE DEF F
    <2> QED  BY <1>1, Smallest
  <1>3. T # {} /\ T \in SUBSET S /\ IsFiniteSet(T)
    <2>1. SumOver(f, T) \notin Int /\ T \in SUBSET S
      BY <1>2
    <2>2. T # {}
      BY <2>1, SumOfNone, 0 \in Int
    <2>3. QED
      BY <2>1, <2>2, FS_Subset
  <1> DEFINE r == T \ {Chosen(T)}
  <1>4. r \subseteq T /\ r # T /\ Chosen(T) \in S
    BY <1>3, ChosenIn
  <1>5. SumOver(f, r) \in Int
    BY <1>2, <1>3, <1>4
  <1>6. SumOver(f, T) = f[Chosen(T)] + SumOver(f, r)
    BY <1>3, SumFromChosen
  <1>7. SumOver(f, T) \in Int
    <2> HIDE DEF r
    <2> QED  BY <1>4, <1>5, <1>6
  <1>8. QED
    BY <1>2, <1>7

\* The order in which a sum is taken does not matter.
LEMMA SumSplit ==
  ASSUME NEW S, IsFiniteSet(S), NEW f, \A x \in S : f[x] \in Int, NEW x \in S
  PROVE  SumOver(f, S) = f[x] + SumOver(f, S \ {x})
  <1> DEFINE F == {s \in SUBSET S : \E y \in s : SumOver(f, s) # f[y] + SumOver(f, s \ {y})}
  <1> SUFFICES ASSUME F # {} PROVE FALSE
    BY DEF F
  <1>1. F \subseteq SUBSET S
    OBVIOUS
  <1>2. PICK T \in F : \A U \in F : U \subseteq T => U = T
    <2> HIDE DEF F
    <2> QED  BY <1>1, Smallest
  <1>3. PICK y \in T : SumOver(f, T) # f[y] + SumOver(f, T \ {y})
    BY <1>2
  <1> DEFINE c == Chosen(T)
  <1>4. T \in SUBSET S /\ T # {} /\ IsFiniteSet(T) /\ c \in T
    BY <1>2, <1>3, ChosenIn, FS_Subset
  <1>5. SumOver(f, T) = f[c] + SumOver(f, T \ {c})
    BY <1>4, SumFromChosen
  <1>6. c # y
    BY <1>3, <1>5
  <1> HIDE DEF c
  <1>7. T \ {c} \notin F /\ T \ {y} \notin F
    BY <1>2, <1>3, <1>4
  <1>8. /\ SumOver(f, T \ {c}) = f[y] + SumOver(f, (T \ {c}) \ {y})
        /\ SumOver(f, T \ {y}) = f[c] + SumOver(f, (T \ {y}) \ {c})
    BY <1>3, <1>4, <1>6, <1>7
  <1>9. (T \ {c}) \ {y} = (T \ {y}) \ {c}
    OBVIOUS
  <1> DEFINE r == (T \ {y}) \ {c}
  <1>10. IsFiniteSet(r) /\ r \subseteq S
    BY <1>4, FS_Subset
  <1>11. SumOver(f, r) \in Int
    BY <1>10, SumIsInt
  <1>12. f[c] \in Int /\ f[y] \in Int
    BY <1>3, <1>4
  <1> HIDE DEF r
  <1>13. SumOver(f, T \ {c}) = f[y] + SumOver(f, r) /\ SumOver(f, T \ {y}) = f[c] + SumOver(f, r)
    BY <1>8, <1>9 DEF r
  <1>14. SumOver(f, T) = f[y] + SumOver(f, T \ {y})
    BY <1>5, <1>11, <1>12, <1>13
  <1>15. QED
    BY <1>3, <1>14

\* A sum depends on the values at its elements only.
LEMMA SumAgrees ==
  ASSUME NEW S, IsFiniteSet(S), NEW f, NEW g, \A x \in S : f[x] = g[x]
  PROVE  SumOver(f, S) = SumOver(g, S)
  <1> DEFINE F == {s \in SUBSET S : SumOver(f, s) # SumOver(g, s)}
  <1> SUFFICES ASSUME F # {} PROVE FALSE
    BY DEF F
  <1>1. F \subseteq SUBSET S
    OBVIOUS
  <1>2. PICK T \in F : \A U \in F : U \subseteq T => U = T
    <2> HIDE DEF F
    <2> QED  BY <1>1, Smallest
  <1>3. T # {} /\ T \in SUBSET S /\ IsFiniteSet(T)
    BY <1>2, SumOfNone, FS_Subset
  <1> DEFINE r == T \ {Chosen(T)}
  <1>4. r \subseteq T /\ r # T /\ Chosen(T) \in S
    BY <1>3, ChosenIn
  <1>5. SumOver(f, r) = SumOver(g, r)
    BY <1>2, <1>3, <1>4
  <1>6. SumOver(f, T) = f[Chosen(T)] + SumOver(f, r) /\ SumOver(g, T) = g[Chosen(T)] + SumOver(g, r)
    BY <1>3, SumFromChosen
  <1>7. QED
    BY <1>2, <1>4, <1>5, <1>6

\* What an element contributes to a sum.
Part(f, S, x) == IF x \in S THEN f[x] ELSE 0

\* When only the part of one element changes, by its value or by joining or
\* leaving, the sum changes by the difference.
LEMMA SumChange ==
  ASSUME NEW S, IsFiniteSet(S), NEW f, \A y \in S : f[y] \in Int,
         NEW T, IsFiniteSet(T), NEW g, \A y \in T : g[y] \in Int,
         NEW x, S \ {x} = T \ {x}, \A y \in S \ {x} : f[y] = g[y]
  PROVE  /\ SumOver(f, S) \in Int /\ SumOver(g, T) \in Int
         /\ Part(f, S, x) \in Int /\ Part(g, T, x) \in Int
         /\ SumOver(g, T) = SumOver(f, S) - Part(f, S, x) + Part(g, T, x)
  <1> DEFINE r == S \ {x}
  <1>1. IsFiniteSet(r)
    BY FS_Subset
  <1>2. \A y \in r : f[y] \in Int
    OBVIOUS
  <1>3. SumOver(f, r) = SumOver(g, r) /\ SumOver(f, r) \in Int
    <2> HIDE DEF r
    <2>1. \A y \in r : f[y] = g[y]
      BY DEF r
    <2> QED  BY <1>1, <1>2, <2>1, SumAgrees, SumIsInt
  <1>4. SumOver(f, S) = Part(f, S, x) + SumOver(f, r) /\ Part(f, S, x) \in Int
    <2>1. CASE x \in S
      BY <2>1, SumSplit DEF Part
    <2>2. CASE x \notin S
      <3>1. r = S
        BY <2>2
      <3> HIDE DEF r
      <3>2. QED
        BY <1>3, <2>2, <3>1 DEF Part
    <2>3. QED
      BY <2>1, <2>2
  <1>5. SumOver(g, T) = Part(g, T, x) + SumOver(g, r) /\ Part(g, T, x) \in Int
    <2>1. r = T \ {x}
      OBVIOUS
    <2> HIDE DEF r
    <2>2. CASE x \in T
      BY <2>1, <2>2, SumSplit DEF Part
    <2>3. CASE x \notin T
      <3>1. r = T
        BY <2>1, <2>3
      <3>2. QED
        BY <1>3, <2>3, <3>1 DEF Part
    <2>4. QED
      BY <2>2, <2>3
  <1> HIDE DEF r
  <1>6. QED
    BY <1>3, <1>4, <1>5

\* A sum of natural numbers is at least each of them.
LEMMA SumCovers ==
  ASSUME NEW S, IsFiniteSet(S), NEW f, \A y \in S : f[y] \in Nat
  PROVE  SumOver(f, S) \in Nat /\ \A x \in S : SumOver(f, S) >= f[x]
  <1> DEFINE F == {s \in SUBSET S : SumOver(f, s) \notin Nat}
  <1>0. F \subseteq SUBSET S
    OBVIOUS
  <1>1. F = {}
    <2> SUFFICES ASSUME F # {} PROVE FALSE
      OBVIOUS
    <2>1. PICK T \in F : \A U \in F : U \subseteq T => U = T
      <3> HIDE DEF F
      <3> QED  BY <1>0, Smallest
    <2>2. SumOver(f, T) \notin Nat /\ T \in SUBSET S
      BY <2>1
    <2>3. T # {} /\ IsFiniteSet(T)
      BY <2>2, SumOfNone, FS_Subset, 0 \in Nat
    <2> DEFINE r == T \ {Chosen(T)}
    <2>4. r \subseteq T /\ r # T /\ Chosen(T) \in S
      BY <2>2, <2>3, ChosenIn
    <2>5. SumOver(f, r) \in Nat
      BY <2>1, <2>2, <2>4
    <2>6. SumOver(f, T) = f[Chosen(T)] + SumOver(f, r)
      BY <2>3, SumFromChosen
    <2>7. SumOver(f, T) \in Nat
      <3> HIDE DEF r
      <3> QED  BY <2>4, <2>5, <2>6
    <2>8. QED
      BY <2>2, <2>7
  <1>2. \A s \in SUBSET S : SumOver(f, s) \in Nat
    BY <1>1
  <1> HIDE DEF F
  <1>3. ASSUME NEW x \in S PROVE SumOver(f, S) >= f[x]
    <2>1. SumOver(f, S) = f[x] + SumOver(f, S \ {x})
      BY SumSplit, \A y \in Nat : y \in Int
    <2>2. SumOver(f, S \ {x}) \in Nat
      BY <1>2
    <2>3. QED
      BY <2>1, <2>2
  <1>4. QED
    BY <1>2, <1>3

\* A sum of numbers none of which exceeds m is at most m for each element.
LEMMA SumAtMost ==
  ASSUME NEW S, IsFiniteSet(S), NEW f, NEW m \in Nat, \A y \in S : f[y] \in 0..m
  PROVE  SumOver(f, S) <= Cardinality(S) * m
  <1> DEFINE F == {s \in SUBSET S : ~(SumOver(f, s) <= Cardinality(s) * m)}
  <1>0. F \subseteq SUBSET S
    OBVIOUS
  <1> SUFFICES ASSUME F # {} PROVE FALSE
    BY DEF F
  <1>1. PICK T \in F : \A U \in F : U \subseteq T => U = T
    <2> HIDE DEF F
    <2> QED  BY <1>0, Smallest
  <1>2. T \in SUBSET S /\ ~(SumOver(f, T) <= Cardinality(T) * m)
    BY <1>1
  <1>3. IsFiniteSet(T) /\ Cardinality(T) \in Nat
    BY <1>2, FS_Subset, FS_CardinalityType
  <1>4. T # {}
    <2>1. 0 <= 0 * m
      OBVIOUS
    <2>2. QED
      BY <1>2, <2>1, SumOfNone, FS_EmptySet
  <1> DEFINE r == T \ {Chosen(T)}
  <1>5. r \subseteq T /\ r # T /\ Chosen(T) \in T /\ f[Chosen(T)] \in 0..m
    BY <1>2, <1>4, ChosenIn
  <1>6. SumOver(f, r) <= Cardinality(r) * m
    BY <1>1, <1>2, <1>5
  <1>7. SumOver(f, T) = f[Chosen(T)] + SumOver(f, r)
    BY <1>3, <1>4, SumFromChosen
  <1>8. IsFiniteSet(r) /\ Cardinality(r) = Cardinality(T) - 1
    BY <1>3, <1>5, FS_RemoveElement
  <1>9. SumOver(f, r) \in Int
    <2>1. \A y \in r : f[y] \in Int
      BY <1>2
    <2> HIDE DEF r
    <2>2. QED
      BY <1>8, <2>1, SumIsInt
  <1> DEFINE n == Cardinality(T)
  <1>10. n \in Nat /\ (n - 1) * m = n * m - m
    BY <1>3
  <1>11. SumOver(f, r) <= n * m - m
    BY <1>6, <1>8, <1>10
  <1>12. n * m \in Int
    BY <1>10
  <1>13. SumOver(f, T) <= n * m
    <2> DEFINE z == n * m
               d == f[Chosen(T)]
    <2>1. z \in Int /\ d \in 0..m /\ SumOver(f, r) <= z - m /\ SumOver(f, T) = d + SumOver(f, r)
      BY <1>5, <1>7, <1>11, <1>12
    <2> HIDE DEF z, d, r
    <2>2. SumOver(f, T) <= z
      BY <1>9, <2>1
    <2>3. QED
      BY <2>2 DEF z
  <1>14. QED
    BY <1>2, <1>13

\* A sum of zeros.
LEMMA SumOfZeros ==
  ASSUME NEW S, IsFiniteSet(S), NEW f, \A x \in S : f[x] = 0
  PROVE  SumOver(f, S) = 0
  <1> DEFINE F == {s \in SUBSET S : SumOver(f, s) # 0}
  <1> SUFFICES ASSUME F # {} PROVE FALSE
    BY DEF F
  <1>1. F \subseteq SUBSET S
    OBVIOUS
  <1>2. PICK T \in F : \A U \in F : U \subseteq T => U = T
    <2> HIDE DEF F
    <2> QED  BY <1>1, Smallest
  <1>3. T # {} /\ T \in SUBSET S /\ IsFiniteSet(T)
    BY <1>2, SumOfNone, FS_Subset
  <1> DEFINE r == T \ {Chosen(T)}
  <1>4. r \subseteq T /\ r # T /\ Chosen(T) \in S
    BY <1>3, ChosenIn
  <1>5. SumOver(f, r) = 0
    BY <1>2, <1>3, <1>4
  <1>6. SumOver(f, T) = f[Chosen(T)] + SumOver(f, r)
    BY <1>3, SumFromChosen
  <1>7. QED
    BY <1>2, <1>4, <1>5, <1>6

\* Every finite set of integers has a greatest element.
LEMMA MaxIsMax ==
  ASSUME NEW S, IsFiniteSet(S)
  PROVE  S # {} /\ S \subseteq Int => Max(S) \in S /\ \A x \in S : x <= Max(S)
  <1>0. \A F \in SUBSET SUBSET S : F # {} => \E T \in F : \A U \in F : U \subseteq T => U = T
    BY Smallest
  <1> SUFFICES ASSUME S # {}, S \subseteq Int PROVE Max(S) \in S /\ \A x \in S : x <= Max(S)
    OBVIOUS
  <1> DEFINE Top(s, x) == x \in s /\ \A y \in s : y <= x
             F == {s \in SUBSET S : s # {} /\ ~ \E x \in s : Top(s, x)}
  <1>1. F \subseteq SUBSET S
    OBVIOUS
  <1>2. F = {}
    <2> SUFFICES ASSUME F # {} PROVE FALSE
      OBVIOUS
    <2>1. PICK T \in F : \A U \in F : U \subseteq T => U = T
      <3> HIDE DEF F, Top
      <3>1. F \subseteq SUBSET S
        BY <1>1
      <3>2. F \in SUBSET SUBSET S
        BY <3>1
      <3>3. F # {}
        OBVIOUS
      <3>4. QED  BY <1>0, <3>2, <3>3
    <2>2. PICK x \in T : T \in SUBSET S
      BY <2>1
    <2>3. CASE T = {x}
      BY <2>1, <2>2, <2>3
    <2>4. CASE T # {x}
      <3>1. T \ {x} \notin F
        BY <2>1, <2>2
      <3>2. PICK y \in T \ {x} : Top(T \ {x}, y)
        BY <2>2, <2>4, <3>1
      <3>3. Top(T, IF x <= y THEN y ELSE x)
        BY <2>2, <3>2
      <3>4. QED
        BY <2>1, <2>2, <3>2, <3>3
    <2>5. QED
      BY <2>3, <2>4
  <1>3. PICK x \in S : Top(S, x)
    BY <1>2
  <1>4. \E z \in S : \A y \in S : z >= y
    BY <1>3
  <1>5. QED
    BY <1>4 DEF Max
=============================================================================

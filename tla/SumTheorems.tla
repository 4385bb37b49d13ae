---------------------------- MODULE SumTheorems -----------------------------
(***************************************************************************)
(* Induction over the natural numbers and over a finite set, stated with   *)
(* sets in the place of predicates, and from it what a sum over a finite   *)
(* set comes to: element by element, part by part, class by class.         *)
(***************************************************************************)
EXTENDS Sums, FiniteSets, WellFoundedInduction, FiniteSetTheorems, TLAPS

\* A nonempty set of natural numbers has a least one.
LEMMA LeastOf ==
  ASSUME NEW T \in SUBSET Nat, T # {}
  PROVE  \E n \in T : \A m \in T : n <= m
<1> DEFINE R == OpToRel(<, Nat)
<1>1. IsWellFoundedOn(R, Nat)
  BY NatLessThanWellFounded
<1>2. \A m, n \in Nat : <<m, n>> \in R <=> m < n
  BY DEF OpToRel
<1> HIDE DEF R
<1>3. PICK n \in T : \A m \in T : ~ (<<m, n>> \in R)
  BY <1>1, WFMin
<1>4. \A m \in T : m \in Nat /\ n \in Nat /\ ~(m < n)
  BY <1>2, <1>3
<1>5. \A m \in T : n <= m
  BY <1>4
<1> QED BY <1>5

\* The greatest of a finite set of natural numbers.
LEMMA HighestOf ==
  ASSUME NEW T \in SUBSET Nat, T # {}, IsFiniteSet(T)
  PROVE  \E n \in T : \A m \in T : m <= n
<1> DEFINE Above(S) == \A n \in S : \E m \in S : m > n
           Counts == {Cardinality(S) : S \in {U \in SUBSET T : U # {} /\ Above(U)}}
<1> SUFFICES ASSUME \A n \in T : \E m \in T : m > n PROVE FALSE
  OBVIOUS
<1>1. Counts \in SUBSET Nat
  BY FS_Subset, FS_CardinalityType
<1>2. Cardinality(T) \in Counts
  OBVIOUS
<1>3. PICK k \in Counts : \A j \in Counts : k <= j
  BY <1>1, <1>2, LeastOf
<1>4. PICK S \in SUBSET T : S # {} /\ Above(S) /\ Cardinality(S) = k
  BY <1>3
<1>5. PICK n \in S : \A m \in S : n <= m
  BY <1>4, LeastOf
<1>6. PICK m \in S : m > n
  BY <1>4
<1>7. S \ {n} # {} /\ Above(S \ {n})
  <2>1. ASSUME NEW x \in S \ {n} PROVE \E y \in S \ {n} : y > x
    <3>1. PICK y \in S : y > x
      BY <1>4
    <3>2. x > n
      BY <1>5
    <3> QED BY <3>1, <3>2
  <2> QED BY <2>1, <1>6
<1>8. IsFiniteSet(S) /\ Cardinality(S \ {n}) = Cardinality(S) - 1
  BY FS_Subset, FS_RemoveElement
<1>9. Cardinality(S \ {n}) \in Counts
  BY <1>7
<1>10. k \in Nat /\ k - 1 \in Counts
  BY <1>1, <1>3, <1>4, <1>8, <1>9
<1>11. k <= k - 1
  BY <1>3, <1>10
<1> QED BY <1>10, <1>11

\* Induction, for the numbers in a set.
LEMMA AllOf ==
  ASSUME NEW T, 0 \in T, \A n \in Nat : n \in T => n + 1 \in T
  PROVE  Nat \subseteq T
<1> SUFFICES ASSUME Nat \ T # {} PROVE FALSE
  OBVIOUS
<1>1. PICK n \in Nat \ T : \A m \in Nat \ T : n <= m
  BY LeastOf
<1>2. n - 1 \in Nat /\ n - 1 < n
  BY <1>1
<1>3. n - 1 \in T
  BY <1>1, <1>2
<1> QED BY <1>1, <1>2, <1>3

-----------------------------------------------------------------------------
\* The fold of SumOver takes an element, and then the rest.
Pick(s) == CHOOSE x \in s : TRUE

Adds(f, D, g) ==
  g = [s \in D |-> IF s = {} THEN 0 ELSE f[Pick(s)] + g[s \ {Pick(s)}]]

\* The subsets of S of at most k elements.
Small(S, k) == {s \in SUBSET S : Cardinality(s) <= k}

LEMMA SumIs ==
  ASSUME NEW f, NEW S
  PROVE  SumOver(f, S) = (CHOOSE g : Adds(f, SUBSET S, g))[S]
BY DEF SumOver, FoldFunctionOnSet, MapThenFoldSet, Adds, Pick

LEMMA OneLess ==
  ASSUME NEW S, IsFiniteSet(S), NEW k \in Nat, NEW s \in Small(S, k + 1), NEW x \in s
  PROVE  s \ {x} \in Small(S, k)
<1>1. IsFiniteSet(s) /\ s \in SUBSET S
  BY FS_Subset DEF Small
<1>2. Cardinality(s \ {x}) = Cardinality(s) - 1 /\ Cardinality(s) \in Nat
  BY <1>1, FS_RemoveElement, FS_CardinalityType
<1> QED BY <1>1, <1>2 DEF Small

LEMMA AddsExists ==
  ASSUME NEW f, NEW S, IsFiniteSet(S)
  PROVE  \E g : Adds(f, SUBSET S, g)
<1> DEFINE T == {k \in Nat : \E g : Adds(f, Small(S, k), g)}
<1>0. \A s : s # {} => Pick(s) \in s
  BY DEF Pick
<1>1. 0 \in T
  <2> DEFINE g == [s \in Small(S, 0) |-> 0]
  <2>1. Small(S, 0) = {{}}
    BY FS_EmptySet, FS_Subset, FS_CardinalityType DEF Small
  <2>2. Adds(f, Small(S, 0), g)
    BY <2>1 DEF Adds
  <2> QED BY <2>2
<1>2. ASSUME NEW k \in Nat, k \in T PROVE k + 1 \in T
  <2>1. PICK h : Adds(f, Small(S, k), h)
    BY <1>2
  <2> DEFINE g == [s \in Small(S, k + 1) |-> IF s = {} THEN 0 ELSE f[Pick(s)] + h[s \ {Pick(s)}]]
  <2>2. Small(S, k) \subseteq Small(S, k + 1)
    BY FS_Subset, FS_CardinalityType DEF Small
  <2>3. \A s \in Small(S, k) : g[s] = h[s]
    BY <2>1, <2>2 DEF Adds
  <2>4. \A s \in Small(S, k + 1) : s # {} => s \ {Pick(s)} \in Small(S, k)
    BY <1>0, OneLess
  <2>5. \A s \in Small(S, k + 1) : s # {} => h[s \ {Pick(s)}] = g[s \ {Pick(s)}]
    BY <2>3, <2>4
  <2>6. g = [s \in Small(S, k + 1) |-> IF s = {} THEN 0 ELSE f[Pick(s)] + g[s \ {Pick(s)}]]
    BY <2>5
  <2>7. Adds(f, Small(S, k + 1), g)
    BY <2>6 DEF Adds
  <2> HIDE DEF g
  <2> QED BY <2>7
<1>3. Cardinality(S) \in Nat
  BY FS_CardinalityType
<1>4. Cardinality(S) \in T
  <2> HIDE DEF T
  <2> QED BY <1>1, <1>2, <1>3, AllOf
<1>5. SUBSET S = Small(S, Cardinality(S))
  BY FS_Subset, FS_CardinalityType DEF Small
<1> QED BY <1>4, <1>5

\* Two such functions agree where both are defined.
LEMMA AddsAgree ==
  ASSUME NEW f, NEW g, NEW h, NEW S, NEW T \in SUBSET S, IsFiniteSet(S), NEW e,
         \A x \in T : e[x] = f[x],
         Adds(f, SUBSET S, g), Adds(e, SUBSET T, h)
  PROVE  g[T] = h[T]
<1> DEFINE U == {k \in Nat : \A s \in Small(T, k) : g[s] = h[s]}
<1>0. \A s : s # {} => Pick(s) \in s
  BY DEF Pick
<1>1. \A s \in SUBSET T : /\ g[s] = IF s = {} THEN 0 ELSE f[Pick(s)] + g[s \ {Pick(s)}]
                          /\ h[s] = IF s = {} THEN 0 ELSE e[Pick(s)] + h[s \ {Pick(s)}]
  BY DEF Adds
<1>2. 0 \in U
  <2>1. Small(T, 0) = {{}}
    BY FS_EmptySet, FS_Subset, FS_CardinalityType DEF Small
  <2> QED BY <2>1, <1>1
<1>3. IsFiniteSet(T)
  BY FS_Subset
<1>4. ASSUME NEW k \in Nat, k \in U PROVE k + 1 \in U
  <2>1. ASSUME NEW s \in Small(T, k + 1), s # {} PROVE g[s] = h[s]
    <3>1. s \ {Pick(s)} \in Small(T, k)
      BY <1>0, <1>3, <2>1, OneLess
    <3>2. g[s \ {Pick(s)}] = h[s \ {Pick(s)}]
      BY <1>4, <3>1
    <3>3. s \in SUBSET T /\ Pick(s) \in T
      BY <1>0, <2>1 DEF Small
    <3> QED BY <1>1, <2>1, <3>2, <3>3
  <2>2. {} \in SUBSET T
    OBVIOUS
  <2>3. g[{}] = h[{}]
    BY <1>1, <2>2
  <2> QED BY <2>1, <2>3
<1>5. Cardinality(T) \in Nat /\ T \in Small(T, Cardinality(T))
  BY <1>3, FS_CardinalityType DEF Small
<1> HIDE DEF U
<1>6. Cardinality(T) \in U
  BY <1>2, <1>4, <1>5, AllOf
<1> QED BY <1>5, <1>6 DEF U

\* Induction over a finite set, for the subsets in a set.
LEMMA SetInduction ==
  ASSUME NEW S, IsFiniteSet(S), NEW G, {} \in G,
         \A s \in SUBSET S, x \in S : s \in G /\ x \notin s => s \cup {x} \in G
  PROVE  S \in G
<1> DEFINE T == {k \in Nat : \A s \in SUBSET S : Cardinality(s) = k => s \in G}
<1>1. \A s \in SUBSET S : IsFiniteSet(s) /\ Cardinality(s) \in Nat
  BY FS_Subset, FS_CardinalityType
<1>2. 0 \in T
  BY <1>1, FS_EmptySet
<1>3. ASSUME NEW k \in Nat, k \in T PROVE k + 1 \in T
  <2>1. ASSUME NEW s \in SUBSET S, Cardinality(s) = k + 1 PROVE s \in G
    <3>1. s # {}
      BY <2>1, FS_EmptySet
    <3>2. PICK x \in s : TRUE
      BY <3>1
    <3>3. Cardinality(s \ {x}) = k
      <4>1. Cardinality(s \ {x}) = Cardinality(s) - 1
        BY <1>1, <3>2, FS_RemoveElement
      <4> QED BY <2>1, <4>1
    <3>4. s \ {x} \in G /\ s = (s \ {x}) \cup {x} /\ s \ {x} \in SUBSET S /\ x \in S
      BY <1>3, <3>3, <3>2
    <3> QED BY <3>4
  <2> QED BY <2>1
<1>4. Cardinality(S) \in Nat
  BY <1>1
<1> HIDE DEF T
<1>5. Cardinality(S) \in T
  BY <1>2, <1>3, <1>4, AllOf
<1> QED BY <1>5 DEF T

-----------------------------------------------------------------------------
LEMMA SumEmpty == ASSUME NEW f PROVE SumOver(f, {}) = 0
<1>1. PICK g : Adds(f, SUBSET {}, g)
  BY AddsExists, FS_EmptySet
<1>2. Adds(f, SUBSET {}, CHOOSE h : Adds(f, SUBSET {}, h))
  BY <1>1
<1> QED BY <1>2, SumIs DEF Adds

\* Equal on the set, the functions have equal sums.
LEMMA SumSame ==
  ASSUME NEW S, IsFiniteSet(S), NEW f, NEW e, \A x \in S : e[x] = f[x]
  PROVE  SumOver(f, S) = SumOver(e, S)
<1>1. /\ \E g : Adds(f, SUBSET S, g)
      /\ \E g : Adds(e, SUBSET S, g)
  BY AddsExists
<1>2. /\ Adds(f, SUBSET S, CHOOSE g : Adds(f, SUBSET S, g))
      /\ Adds(e, SUBSET S, CHOOSE g : Adds(e, SUBSET S, g))
  BY <1>1
<1>3. (CHOOSE g : Adds(f, SUBSET S, g))[S] = (CHOOSE g : Adds(e, SUBSET S, g))[S]
  BY <1>2, AddsAgree
<1> QED BY <1>3, SumIs

LEMMA SumPick ==
  ASSUME NEW S, IsFiniteSet(S), NEW f, S # {}
  PROVE  SumOver(f, S) = f[Pick(S)] + SumOver(f, S \ {Pick(S)})
<1> DEFINE T == S \ {Pick(S)}
           g == CHOOSE h : Adds(f, SUBSET S, h)
           e == CHOOSE h : Adds(f, SUBSET T, h)
<1>0. IsFiniteSet(T) /\ T \in SUBSET S
  BY FS_Subset
<1>1. (\E h : Adds(f, SUBSET S, h)) /\ (\E h : Adds(f, SUBSET T, h))
  BY <1>0, AddsExists
<1>2. Adds(f, SUBSET S, g) /\ Adds(f, SUBSET T, e)
  BY <1>1
<1>3. SumOver(f, S) = g[S] /\ SumOver(f, T) = e[T]
  BY SumIs
<1> HIDE DEF g, e, T
<1>4. g[T] = e[T]
  BY <1>0, <1>2, AddsAgree
<1>5. g[S] = f[Pick(S)] + g[T]
  BY <1>2 DEF Adds, T
<1> QED BY <1>3, <1>4, <1>5 DEF T

\* A sum of integers is one, and can be taken apart at any element.
LEMMA SumStep ==
  ASSUME NEW S, IsFiniteSet(S), NEW f, \A x \in S : f[x] \in Int
  PROVE  /\ SumOver(f, S) \in Int
         /\ \A x \in S : SumOver(f, S) = f[x] + SumOver(f, S \ {x})
<1> DEFINE Sound(s) == /\ SumOver(f, s) \in Int
                       /\ \A x \in s : SumOver(f, s) = f[x] + SumOver(f, s \ {x})
           T == {k \in Nat : \A s \in SUBSET S : Cardinality(s) <= k => Sound(s)}
<1>1. \A s \in SUBSET S : IsFiniteSet(s) /\ Cardinality(s) \in Nat
  BY FS_Subset, FS_CardinalityType
<1>2. 0 \in T
  BY <1>1, FS_EmptySet, SumEmpty
<1>3. ASSUME NEW k \in Nat, k \in T PROVE k + 1 \in T
  <2>1. ASSUME NEW s \in SUBSET S, Cardinality(s) <= k + 1, s # {} PROVE Sound(s)
    <3> DEFINE y == Pick(s)
    <3>1. y \in s
      BY <2>1 DEF Pick
    <3>2. SumOver(f, s) = f[y] + SumOver(f, s \ {y})
      BY <1>1, <2>1, SumPick
    <3> HIDE DEF y
    <3>3. \A x \in s : s \ {x} \in SUBSET S /\ Cardinality(s \ {x}) <= k
      BY <1>1, <2>1, FS_RemoveElement
    <3>4. \A x \in s : Sound(s \ {x})
      BY <1>3, <3>3
    <3>5. f[y] \in Int /\ SumOver(f, s \ {y}) \in Int
      BY <3>1, <3>4
    <3>6. SumOver(f, s) \in Int
      BY <3>2, <3>5
    <3>7. ASSUME NEW x \in s, x # y PROVE SumOver(f, s) = f[x] + SumOver(f, s \ {x})
      <4>1. SumOver(f, s \ {y}) = f[x] + SumOver(f, (s \ {y}) \ {x})
        BY <3>1, <3>4, <3>7
      <4>2. SumOver(f, s \ {x}) = f[y] + SumOver(f, (s \ {x}) \ {y})
        BY <3>1, <3>4, <3>7
      <4>3. (s \ {x}) \ {y} = (s \ {y}) \ {x} /\ f[x] \in Int
        OBVIOUS
      <4>6. SumOver(f, (s \ {x}) \ {y}) = SumOver(f, (s \ {y}) \ {x})
        BY <4>3, Zenon
      <4>4. (s \ {y}) \ {x} \in SUBSET S /\ Cardinality((s \ {y}) \ {x}) <= k
        <5>1. IsFiniteSet(s \ {y}) /\ Cardinality(s \ {y}) <= k /\ x \in s \ {y}
          BY <1>1, <3>1, <3>3, <3>7
        <5>2. Cardinality((s \ {y}) \ {x}) = Cardinality(s \ {y}) - 1
          BY <5>1, FS_RemoveElement
        <5>3. Cardinality(s \ {y}) \in Nat
          BY <5>1, FS_CardinalityType
        <5> QED BY <5>1, <5>2, <5>3
      <4>5. SumOver(f, (s \ {y}) \ {x}) \in Int
        BY <1>3, <4>4
      <4> HIDE DEF Sound, T
      <4> QED BY <3>2, <3>5, <4>1, <4>2, <4>3, <4>5, <4>6
    <3> QED BY <3>2, <3>6, <3>7
  <2>2. Sound({})
    BY SumEmpty
  <2> QED BY <2>1, <2>2
<1>4. Cardinality(S) \in Nat
  BY <1>1
<1> HIDE DEF T
<1>5. Cardinality(S) \in T
  BY <1>2, <1>3, <1>4, AllOf
<1>6. Sound(S)
  BY <1>4, <1>5 DEF T
<1> QED BY <1>6

\* One more element.
LEMMA SumMore ==
  ASSUME NEW S, IsFiniteSet(S), NEW x, x \notin S, NEW f, \A y \in S \cup {x} : f[y] \in Int
  PROVE  SumOver(f, S \cup {x}) = f[x] + SumOver(f, S)
<1>1. IsFiniteSet(S \cup {x})
  BY FS_AddElement
<1>2. SumOver(f, S \cup {x}) = f[x] + SumOver(f, (S \cup {x}) \ {x})
  BY <1>1, SumStep
<1>3. (S \cup {x}) \ {x} = S
  OBVIOUS
<1> QED BY <1>2, <1>3

LEMMA SumSplit ==
  ASSUME NEW S, IsFiniteSet(S), NEW T, IsFiniteSet(T), S \cap T = {},
         NEW f, \A x \in S \cup T : f[x] \in Int
  PROVE  SumOver(f, S \cup T) = SumOver(f, S) + SumOver(f, T)
<1> DEFINE G == {s \in SUBSET S : SumOver(f, s \cup T) = SumOver(f, s) + SumOver(f, T)}
<1>1. {} \in G
  <2>1. SumOver(f, T) \in Int /\ {} \cup T = T
    BY SumStep
  <2> QED BY <2>1, SumEmpty
<1>2. ASSUME NEW s \in SUBSET S, NEW x \in S, s \in G, x \notin s PROVE s \cup {x} \in G
  <2>1. IsFiniteSet(s) /\ IsFiniteSet(s \cup T)
    BY FS_Subset, FS_Union
  <2>2. SumOver(f, s \cup {x}) = f[x] + SumOver(f, s)
    BY <1>2, <2>1, SumMore
  <2>3. SumOver(f, (s \cup T) \cup {x}) = f[x] + SumOver(f, s \cup T)
    BY <1>2, <2>1, SumMore
  <2>4. (s \cup T) \cup {x} = (s \cup {x}) \cup T
    OBVIOUS
  <2>5. SumOver(f, s) \in Int /\ SumOver(f, T) \in Int /\ f[x] \in Int
    BY <2>1, SumStep
  <2>6. SumOver(f, (s \cup {x}) \cup T) = SumOver(f, s \cup {x}) + SumOver(f, T)
    <3>1. SumOver(f, (s \cup {x}) \cup T) = SumOver(f, (s \cup T) \cup {x})
      BY <2>4, Zenon
    <3>2. SumOver(f, s \cup T) = SumOver(f, s) + SumOver(f, T)
      BY <1>2
    <3> QED BY <2>2, <2>3, <2>5, <3>1, <3>2
  <2> QED BY <2>6
<1> HIDE DEF G
<1>3. S \in G
  BY <1>1, <1>2, SetInduction
<1> QED BY <1>3 DEF G

\* Where the rest is zero.
LEMMA SumNull ==
  ASSUME NEW S, IsFiniteSet(S), NEW T \in SUBSET S,
         NEW f, \A x \in S : f[x] \in Int, \A x \in S \ T : f[x] = 0
  PROVE  SumOver(f, S) = SumOver(f, T)
<1> DEFINE G == {s \in SUBSET (S \ T) : SumOver(f, s \cup T) = SumOver(f, T)}
<1>0. IsFiniteSet(T) /\ IsFiniteSet(S \ T)
  BY FS_Subset
<1>1. {} \in G
  OBVIOUS
<1>2. ASSUME NEW s \in SUBSET (S \ T), NEW x \in S \ T, s \in G, x \notin s PROVE s \cup {x} \in G
  <2>1. IsFiniteSet(s \cup T)
    BY FS_Subset
  <2>2. SumOver(f, (s \cup T) \cup {x}) = f[x] + SumOver(f, s \cup T)
    BY <1>2, <2>1, SumMore
  <2>3. (s \cup T) \cup {x} = (s \cup {x}) \cup T /\ f[x] = 0
    OBVIOUS
  <2>4. SumOver(f, s \cup T) \in Int
    BY <2>1, SumStep
  <2>5. SumOver(f, (s \cup {x}) \cup T) = SumOver(f, (s \cup T) \cup {x})
    BY <2>3, Zenon
  <2>6. SumOver(f, s \cup T) = SumOver(f, T)
    BY <1>2
  <2>7. SumOver(f, (s \cup {x}) \cup T) = SumOver(f, T)
    BY <2>2, <2>3, <2>4, <2>5, <2>6
  <2> QED BY <2>7
<1> HIDE DEF G
<1>3. S \ T \in G
  BY <1>0, <1>1, <1>2, SetInduction
<1>4. S = (S \ T) \cup T
  OBVIOUS
<1> QED BY <1>3, <1>4 DEF G

\* Term by term no more.
LEMMA SumAtMost ==
  ASSUME NEW S, IsFiniteSet(S), NEW f, NEW e,
         \A x \in S : f[x] \in Int /\ e[x] \in Int /\ f[x] <= e[x]
  PROVE  SumOver(f, S) <= SumOver(e, S)
<1> DEFINE G == {s \in SUBSET S : SumOver(f, s) <= SumOver(e, s)}
<1>1. {} \in G
  BY SumEmpty
<1>2. ASSUME NEW s \in SUBSET S, NEW x \in S, s \in G, x \notin s PROVE s \cup {x} \in G
  <2>1. IsFiniteSet(s)
    BY FS_Subset
  <2>2. SumOver(f, s \cup {x}) = f[x] + SumOver(f, s) /\ SumOver(e, s \cup {x}) = e[x] + SumOver(e, s)
    BY <1>2, <2>1, SumMore
  <2>3. SumOver(f, s) \in Int /\ SumOver(e, s) \in Int /\ f[x] \in Int /\ e[x] \in Int /\ f[x] <= e[x]
    BY <2>1, SumStep
  <2>4. SumOver(f, s) <= SumOver(e, s)
    BY <1>2
  <2>5. SumOver(f, s \cup {x}) <= SumOver(e, s \cup {x})
    BY <2>2, <2>3, <2>4
  <2> QED BY <2>5
<1> HIDE DEF G
<1>3. S \in G
  BY <1>1, <1>2, SetInduction
<1> QED BY <1>3 DEF G

\* By way of an injection onto another set.
LEMMA SumRenamed ==
  ASSUME NEW S, IsFiniteSet(S), NEW b, \A x, y \in S : b[x] = b[y] => x = y,
         NEW f, NEW e, \A x \in S : f[x] \in Int /\ e[b[x]] = f[x]
  PROVE  SumOver(f, S) = SumOver(e, {b[x] : x \in S})
<1> DEFINE G == {s \in SUBSET S : /\ IsFiniteSet({b[x] : x \in s})
                                  /\ SumOver(f, s) = SumOver(e, {b[x] : x \in s})}
<1>1. {} \in G
  <2>1. {b[x] : x \in {}} = {}
    OBVIOUS
  <2> QED BY <2>1, SumEmpty, FS_EmptySet
<1>2. ASSUME NEW s \in SUBSET S, NEW x \in S, s \in G, x \notin s PROVE s \cup {x} \in G
  <2> DEFINE t == {b[y] : y \in s}
  <2>1. IsFiniteSet(s) /\ IsFiniteSet(t)
    BY <1>2, FS_Subset
  <2>2. {b[y] : y \in s \cup {x}} = t \cup {b[x]} /\ b[x] \notin t
    BY <1>2
  <2>3. SumOver(f, s \cup {x}) = f[x] + SumOver(f, s)
    BY <1>2, <2>1, SumMore
  <2>4. \A y \in t \cup {b[x]} : e[y] \in Int
    OBVIOUS
  <2>5. SumOver(f, s) = SumOver(e, t)
    BY <1>2
  <2> HIDE DEF t
  <2>6. SumOver(e, t \cup {b[x]}) = e[b[x]] + SumOver(e, t)
    BY <2>1, <2>2, <2>4, SumMore
  <2>7. IsFiniteSet(t \cup {b[x]})
    BY <2>1, FS_AddElement
  <2> QED BY <2>2, <2>3, <2>5, <2>6, <2>7
<1> HIDE DEF G
<1>3. S \in G
  BY <1>1, <1>2, SetInduction
<1> QED BY <1>3 DEF G

\* Class by class.
LEMMA SumByClass ==
  ASSUME NEW S, IsFiniteSet(S), NEW T, IsFiniteSet(T), NEW p, \A x \in S : p[x] \in T,
         NEW f, \A x \in S : f[x] \in Int
  PROVE  SumOver(f, S) = SumOver([t \in T |-> SumOver(f, {x \in S : p[x] = t})], T)
<1> DEFINE part(s, t) == {x \in s : p[x] = t}
           by(s) == [t \in T |-> SumOver(f, part(s, t))]
           G == {s \in SUBSET S : SumOver(f, s) = SumOver(by(s), T)}
<1>0. ASSUME NEW s \in SUBSET S
      PROVE  /\ IsFiniteSet(s) /\ \A t : IsFiniteSet(part(s, t))
             /\ \A t : SumOver(f, part(s, t)) \in Int
  <2>1. IsFiniteSet(s) /\ \A t : IsFiniteSet(part(s, t))
    BY FS_Subset
  <2>2. ASSUME NEW t PROVE SumOver(f, part(s, t)) \in Int
    <3>1. IsFiniteSet(part(s, t)) /\ \A x \in part(s, t) : f[x] \in Int
      BY <2>1
    <3> HIDE DEF part
    <3> QED BY <3>1, SumStep
  <2> QED BY <2>1, <2>2
<1>1. {} \in G
  <2>1. \A t : part({}, t) = {}
    OBVIOUS
  <2>2. \A t \in T : by({})[t] = 0
    BY <2>1, SumEmpty
  <2>3. SumOver(by({}), T) = SumOver(by({}), {})
    <3> HIDE DEF by
    <3>1. \A t \in T : by({})[t] \in Int
      BY <2>2
    <3> QED BY <2>2, <3>1, SumNull
  <2> QED BY <2>3, SumEmpty
<1>2. ASSUME NEW s \in SUBSET S, NEW x \in S, s \in G, x \notin s PROVE s \cup {x} \in G
  <2> DEFINE u == s \cup {x}
             R == T \ {p[x]}
  <2>1. u \in SUBSET S /\ p[x] \in T
    OBVIOUS
  <2>2. part(u, p[x]) = part(s, p[x]) \cup {x} /\ x \notin part(s, p[x])
    BY <1>2
  <2>3. by(u)[p[x]] = f[x] + by(s)[p[x]]
    <3>1. IsFiniteSet(part(s, p[x])) /\ \A y \in part(s, p[x]) \cup {x} : f[y] \in Int
      BY <1>0
    <3>2. SumOver(f, part(s, p[x]) \cup {x}) = f[x] + SumOver(f, part(s, p[x]))
      <4> HIDE DEF part
      <4> QED BY <2>2, <3>1, SumMore
    <3> QED BY <2>1, <2>2, <3>2
  <2>4. \A t \in R : part(u, t) = part(s, t)
    OBVIOUS
  <2>5. \A t \in R : by(u)[t] = by(s)[t]
    BY <2>4
  <2>6. \A t \in T : by(u)[t] \in Int /\ by(s)[t] \in Int
    BY <1>0, <2>1
  <2>7. SumOver(f, u) = f[x] + SumOver(f, s) /\ SumOver(f, s) \in Int /\ f[x] \in Int
    BY <1>0, <1>2, SumMore, SumStep
  <2>8. SumOver(f, s) = SumOver(by(s), T)
    BY <1>2
  <2> HIDE DEF by, u
  <2>9. IsFiniteSet(R)
    BY FS_Subset
  <2>10. SumOver(by(u), R) = SumOver(by(s), R)
    BY <2>5, <2>9, SumSame
  <2>11. /\ SumOver(by(u), T) = by(u)[p[x]] + SumOver(by(u), R)
         /\ SumOver(by(s), T) = by(s)[p[x]] + SumOver(by(s), R)
    BY <2>1, <2>6, SumStep
  <2>12. SumOver(by(s), R) \in Int /\ by(s)[p[x]] \in Int
    BY <2>1, <2>6, <2>9, SumStep
  <2>13. SumOver(f, u) = SumOver(by(u), T)
    BY <2>3, <2>7, <2>8, <2>10, <2>11, <2>12
  <2> QED BY <2>1, <2>13 DEF u
<1> HIDE DEF G
<1>3. S \in G
  BY <1>1, <1>2, SetInduction
<1> QED BY <1>3 DEF G
=============================================================================

------------------------------ MODULE SumTheorems ------------------------------
(***************************************************************************)
(* Sums of a function over a finite set, as the community module Functions *)
(* defines them: by a recursive function over the subsets of the set.      *)
(* Induction over the subsets is the choice of a least one for which a     *)
(* lemma would fail.                                                       *)
(***************************************************************************)
EXTENDS Integers, FiniteSets, Functions, FiniteSetTheorems, TLAPS

\* A family of subsets of a finite set has a least member.
LEMMA LeastSubset ==
  ASSUME NEW S, IsFiniteSet(S), NEW C, C \subseteq SUBSET S, C # {}
  PROVE  \E m \in C : \A c \in C : c \subseteq m => c = m
  <1>1. IsWellFoundedOn(StrictSubsetOrdering(S), FiniteSubsetsOf(S))
    BY FS_StrictSubsetOrderingWellFounded
  <1>2. C \subseteq FiniteSubsetsOf(S)
    BY FS_Subset DEF FiniteSubsetsOf
  <1>3. \E m \in C : \A c \in C : <<c, m>> \notin StrictSubsetOrdering(S)
    BY <1>1, <1>2, WFMin
  <1>4. QED
    BY <1>3 DEF StrictSubsetOrdering

\* The element a sum begins with, and the recursive function that adds up.
Any(s) == CHOOSE x \in s : TRUE
IsSum(f, g, S) == g = [s \in SUBSET S |-> IF s = {} THEN 0 ELSE f[Any(s)] + g[s \ {Any(s)}]]

LEMMA SumByFunction ==
  ASSUME NEW f, NEW S
  PROVE  SumFunctionOnSet(f, S) = (CHOOSE g : IsSum(f, g, S))[S]
  BY DEF SumFunctionOnSet, FoldFunctionOnSet, MapThenFoldSet, IsSum, Any

LEMMA AnyIsMember == ASSUME NEW s, s # {} PROVE Any(s) \in s
  BY DEF Any

\* Two such functions agree where both are defined.
LEMMA SumUnique ==
  ASSUME NEW f, NEW S, NEW T, NEW g, NEW h, IsSum(f, g, S), IsSum(f, h, T), IsFiniteSet(S),
         NEW s, s \subseteq S, s \subseteq T
  PROVE  g[s] = h[s]
  <1> DEFINE C == {c \in SUBSET S : c \subseteq T /\ g[c] # h[c]}
  <1>1. SUFFICES ASSUME C # {} PROVE FALSE
    OBVIOUS
  <1>2. PICK m \in C : \A c \in C : c \subseteq m => c = m
    <2> HIDE DEF C
    <2>1. C \subseteq SUBSET S
      BY DEF C
    <2>2. QED
      BY <1>1, <2>1, LeastSubset
  <1>3. /\ m \in SUBSET S /\ m \in SUBSET T /\ g[m] # h[m]
        /\ g[m] = IF m = {} THEN 0 ELSE f[Any(m)] + g[m \ {Any(m)}]
        /\ h[m] = IF m = {} THEN 0 ELSE f[Any(m)] + h[m \ {Any(m)}]
    BY <1>2 DEF IsSum
  <1>4. m # {}
    BY <1>3
  <1>5. Any(m) \in m
    BY <1>4, AnyIsMember
  <1>6. m \ {Any(m)} \notin C
    BY <1>2, <1>5
  <1>7. g[m \ {Any(m)}] = h[m \ {Any(m)}]
    BY <1>3, <1>6
  <1>8. QED
    BY <1>3, <1>7

\* There is such a function for each finite set.
LEMMA SumExists ==
  ASSUME NEW f, NEW S, IsFiniteSet(S)
  PROVE  \E g : IsSum(f, g, S)
  <1> DEFINE C == {c \in SUBSET S : ~ \E g : IsSum(f, g, c)}
  <1>1. SUFFICES ASSUME C # {} PROVE FALSE
    OBVIOUS
  <1>2. PICK m \in C : \A c \in C : c \subseteq m => c = m
    <2> HIDE DEF C
    <2>1. C \subseteq SUBSET S
      BY DEF C
    <2>2. QED
      BY <1>1, <2>1, LeastSubset
  <1>3. IsFiniteSet(m)
    BY <1>2, FS_Subset
  <1>4. \A c \in SUBSET m : c # m => \E g : IsSum(f, g, c)
    BY <1>2
  <1> DEFINE G(c) == CHOOSE g : IsSum(f, g, c)
             h == [c \in SUBSET m |-> IF c = {} THEN 0 ELSE f[Any(c)] + G(c \ {Any(c)})[c \ {Any(c)}]]
  <1>5. \A c \in SUBSET m : c # m => IsSum(f, G(c), c)
    BY <1>4
  <1>6. \A c \in SUBSET m : c # m => h[c] = G(c)[c]
    <2> SUFFICES ASSUME NEW c \in SUBSET m, c # m, c # {} PROVE h[c] = G(c)[c]
      <3>1. ASSUME {} # m PROVE h[{}] = G({})[{}]
        <4>1. IsSum(f, G({}), {})
          BY <1>5, <3>1
        <4>2. G({})[{}] = 0
          BY <4>1 DEF IsSum
        <4>3. QED
          BY <4>2
      <3>2. QED
        BY <3>1
    <2> DEFINE d == c \ {Any(c)}
    <2>1. Any(c) \in c
      BY AnyIsMember
    <2>2. d \in SUBSET m /\ d # m /\ d \in SUBSET c
      BY <2>1
    <2>3. IsSum(f, G(c), c) /\ IsSum(f, G(d), d)
      BY <1>5, <2>2
    <2>4. IsFiniteSet(c)
      BY <1>3, FS_Subset
    <2>5. G(c)[d] = G(d)[d]
      <3> HIDE DEF d, G
      <3>1. d \subseteq c /\ d \subseteq d
        BY <2>2
      <3>2. QED
        BY <2>3, <2>4, <3>1, SumUnique
    <2>6. G(c)[c] = f[Any(c)] + G(c)[d]
      <3> HIDE DEF G
      <3>1. QED
        BY <2>3 DEF IsSum
    <2>7. h[c] = f[Any(c)] + G(d)[d]
      BY DEF h
    <2>8. QED
      BY <2>5, <2>6, <2>7
  <1>7. \A c \in SUBSET m : h[c] = IF c = {} THEN 0 ELSE f[Any(c)] + h[c \ {Any(c)}]
    <2>0. {} \in SUBSET m => h[{}] = 0
      OBVIOUS
    <2> SUFFICES ASSUME NEW c \in SUBSET m, c # {} PROVE h[c] = f[Any(c)] + h[c \ {Any(c)}]
      <3> HIDE DEF h
      <3> QED
        BY <2>0
    <2>1. Any(c) \in c
      BY AnyIsMember
    <2>2. c \ {Any(c)} \in SUBSET m /\ c \ {Any(c)} # m
      BY <2>1
    <2>3. h[c \ {Any(c)}] = G(c \ {Any(c)})[c \ {Any(c)}]
      BY <1>6, <2>2
    <2>4. QED
      BY <2>3 DEF h
  <1>8. IsSum(f, h, m)
    <2>1. h = [c \in SUBSET m |-> h[c]]
      OBVIOUS
    <2> HIDE DEF h
    <2>2. [c \in SUBSET m |-> h[c]] = [c \in SUBSET m |-> IF c = {} THEN 0 ELSE f[Any(c)] + h[c \ {Any(c)}]]
      BY <1>7
    <2>3. QED
      BY <2>1, <2>2 DEF IsSum
  <1>9. QED
    BY <1>2, <1>8

-----------------------------------------------------------------------------

\* A sum over a set that is not empty begins with one of its elements.
LEMMA SumOfEmpty == ASSUME NEW f PROVE SumFunctionOnSet(f, {}) = 0
  <1>1. PICK g : g = CHOOSE h : IsSum(f, h, {})
    OBVIOUS
  <1>2. IsSum(f, g, {})
    BY <1>1, SumExists, FS_EmptySet
  <1>3. g[{}] = 0
    BY <1>2 DEF IsSum
  <1>4. QED
    BY <1>1, <1>3, SumByFunction

LEMMA SumBegins ==
  ASSUME NEW f, NEW S, IsFiniteSet(S), S # {}
  PROVE  SumFunctionOnSet(f, S) = f[Any(S)] + SumFunctionOnSet(f, S \ {Any(S)})
  <1>1. PICK T : T = S \ {Any(S)}
    OBVIOUS
  <1>2. IsFiniteSet(T) /\ T \subseteq S
    BY <1>1, FS_Subset
  <1>3. PICK g, h : g = (CHOOSE k : IsSum(f, k, S)) /\ h = (CHOOSE k : IsSum(f, k, T))
    OBVIOUS
  <1>4. IsSum(f, g, S)
    BY <1>3, SumExists
  <1>5. IsSum(f, h, T)
    BY <1>2, <1>3, SumExists
  <1>6. g[T] = h[T]
    BY <1>2, <1>4, <1>5, SumUnique
  <1>7. g[S] = f[Any(S)] + g[T]
    BY <1>1, <1>4 DEF IsSum
  <1>8. SumFunctionOnSet(f, S) = g[S] /\ SumFunctionOnSet(f, T) = h[T]
    BY <1>3, SumByFunction
  <1>9. QED
    BY <1>1, <1>6, <1>7, <1>8

\* Integers add up to an integer.
LEMMA SumType ==
  ASSUME NEW f, NEW S, IsFiniteSet(S), \A x \in S : f[x] \in Int
  PROVE  SumFunctionOnSet(f, S) \in Int
  <1> DEFINE C == {c \in SUBSET S : SumFunctionOnSet(f, c) \notin Int}
  <1>1. SUFFICES ASSUME C # {} PROVE FALSE
    OBVIOUS
  <1>2. PICK m \in C : \A c \in C : c \subseteq m => c = m
    <2> HIDE DEF C
    <2>1. C \subseteq SUBSET S
      BY DEF C
    <2>2. QED
      BY <1>1, <2>1, LeastSubset
  <1>3. IsFiniteSet(m) /\ m \subseteq S /\ SumFunctionOnSet(f, m) \notin Int
    BY <1>2, FS_Subset
  <1>4. m # {}
    BY <1>3, SumOfEmpty
  <1>5. Any(m) \in m
    BY <1>4, AnyIsMember
  <1>6. m \ {Any(m)} \notin C
    BY <1>2, <1>5
  <1>7. SumFunctionOnSet(f, m \ {Any(m)}) \in Int
    BY <1>3, <1>6
  <1>8. SumFunctionOnSet(f, m) = f[Any(m)] + SumFunctionOnSet(f, m \ {Any(m)})
    BY <1>3, <1>4, SumBegins
  <1>9. f[Any(m)] \in Int
    BY <1>3, <1>5
  <1>10. QED
    BY <1>3, <1>7, <1>8, <1>9

\* A sum can begin with any of them.
LEMMA SumSplit ==
  ASSUME NEW f, NEW S, IsFiniteSet(S), \A x \in S : f[x] \in Int, NEW y \in S
  PROVE  SumFunctionOnSet(f, S) = f[y] + SumFunctionOnSet(f, S \ {y})
  <1> DEFINE C == {c \in SUBSET S : \E z \in c : SumFunctionOnSet(f, c) # f[z] + SumFunctionOnSet(f, c \ {z})}
  <1>1. SUFFICES ASSUME C # {} PROVE FALSE
    OBVIOUS
  <1>2. PICK m \in C : \A c \in C : c \subseteq m => c = m
    <2> HIDE DEF C
    <2>1. C \subseteq SUBSET S
      BY DEF C
    <2>2. QED
      BY <1>1, <2>1, LeastSubset
  <1>3. PICK z \in m : SumFunctionOnSet(f, m) # f[z] + SumFunctionOnSet(f, m \ {z})
    BY <1>2
  <1>4. IsFiniteSet(m) /\ m \subseteq S
    BY <1>2, FS_Subset
  <1>5. PICK x : x = Any(m)
    OBVIOUS
  <1>6. x \in m
    BY <1>3, <1>5, AnyIsMember
  <1>7. SumFunctionOnSet(f, m) = f[x] + SumFunctionOnSet(f, m \ {x})
    BY <1>3, <1>4, <1>5, SumBegins
  <1>8. x # z
    BY <1>3, <1>7
  <1>9. /\ SumFunctionOnSet(f, m \ {x}) = f[z] + SumFunctionOnSet(f, (m \ {x}) \ {z})
        /\ SumFunctionOnSet(f, m \ {z}) = f[x] + SumFunctionOnSet(f, (m \ {z}) \ {x})
    <2>1. m \ {x} \notin C /\ m \ {z} \notin C
      BY <1>2, <1>3, <1>6
    <2>2. m \ {x} \in SUBSET S /\ m \ {z} \in SUBSET S /\ z \in m \ {x} /\ x \in m \ {z}
      BY <1>3, <1>4, <1>6, <1>8
    <2>3. QED
      BY <2>1, <2>2
  <1>10. (m \ {x}) \ {z} = (m \ {z}) \ {x}
    OBVIOUS
  <1>11. PICK rest : rest = SumFunctionOnSet(f, (m \ {x}) \ {z})
    OBVIOUS
  <1>12. rest \in Int
    <2>1. IsFiniteSet((m \ {x}) \ {z})
      BY <1>4, FS_Subset
    <2>2. \A w \in (m \ {x}) \ {z} : f[w] \in Int
      BY <1>4
    <2>3. QED
      BY <1>11, <2>1, <2>2, SumType
  <1>13. f[x] \in Int /\ f[z] \in Int
    BY <1>3, <1>4, <1>6
  <1>14. SumFunctionOnSet(f, m) = f[x] + (f[z] + rest) /\ SumFunctionOnSet(f, m \ {z}) = f[x] + rest
    BY <1>7, <1>9, <1>10, <1>11
  <1>15. QED
    BY <1>3, <1>12, <1>13, <1>14

\* One more summand.
LEMMA SumAdd ==
  ASSUME NEW f, NEW S, IsFiniteSet(S), NEW y, y \notin S, \A x \in S \cup {y} : f[x] \in Int
  PROVE  SumFunctionOnSet(f, S \cup {y}) = f[y] + SumFunctionOnSet(f, S)
  <1>1. IsFiniteSet(S \cup {y})
    BY FS_AddElement
  <1>2. (S \cup {y}) \ {y} = S
    OBVIOUS
  <1>3. QED
    BY <1>1, <1>2, SumSplit

\* Functions that agree on a set have one sum over it.
LEMMA SumSame ==
  ASSUME NEW f, NEW h, NEW S, IsFiniteSet(S), \A x \in S : f[x] = h[x]
  PROVE  SumFunctionOnSet(f, S) = SumFunctionOnSet(h, S)
  <1> DEFINE C == {c \in SUBSET S : SumFunctionOnSet(f, c) # SumFunctionOnSet(h, c)}
  <1>1. SUFFICES ASSUME C # {} PROVE FALSE
    OBVIOUS
  <1>2. PICK m \in C : \A c \in C : c \subseteq m => c = m
    <2> HIDE DEF C
    <2>1. C \subseteq SUBSET S
      BY DEF C
    <2>2. QED
      BY <1>1, <2>1, LeastSubset
  <1>3. IsFiniteSet(m) /\ m \subseteq S /\ SumFunctionOnSet(f, m) # SumFunctionOnSet(h, m)
    BY <1>2, FS_Subset
  <1>4. m # {}
    BY <1>3, SumOfEmpty
  <1>5. Any(m) \in m
    BY <1>4, AnyIsMember
  <1>6. m \ {Any(m)} \notin C
    BY <1>2, <1>5
  <1>7. SumFunctionOnSet(f, m \ {Any(m)}) = SumFunctionOnSet(h, m \ {Any(m)})
    BY <1>3, <1>6
  <1>8. /\ SumFunctionOnSet(f, m) = f[Any(m)] + SumFunctionOnSet(f, m \ {Any(m)})
        /\ SumFunctionOnSet(h, m) = h[Any(m)] + SumFunctionOnSet(h, m \ {Any(m)})
    BY <1>3, <1>4, SumBegins
  <1>9. f[Any(m)] = h[Any(m)]
    BY <1>3, <1>5
  <1>10. QED
    BY <1>3, <1>7, <1>8, <1>9

\* One summand changes.
LEMMA SumChange ==
  ASSUME NEW f, NEW h, NEW S, IsFiniteSet(S), \A x \in S : f[x] \in Int,
         NEW y \in S, h[y] \in Int, \A x \in S \ {y} : h[x] = f[x]
  PROVE  SumFunctionOnSet(h, S) = SumFunctionOnSet(f, S) - f[y] + h[y]
  <1>1. PICK rest : rest = SumFunctionOnSet(f, S \ {y})
    OBVIOUS
  <1>2. IsFiniteSet(S \ {y})
    BY FS_Subset
  <1>3. rest \in Int
    BY <1>1, <1>2, SumType
  <1>4. SumFunctionOnSet(f, S) = f[y] + rest
    BY <1>1, SumSplit
  <1>5. SumFunctionOnSet(h, S \ {y}) = rest
    BY <1>1, <1>2, SumSame
  <1>6. SumFunctionOnSet(h, S) = h[y] + rest
    <2>1. \A x \in S : h[x] \in Int
      OBVIOUS
    <2>2. SumFunctionOnSet(h, S) = h[y] + SumFunctionOnSet(h, S \ {y})
      BY <2>1, SumSplit
    <2>3. QED
      BY <1>5, <2>2
  <1>7. f[y] \in Int
    OBVIOUS
  <1>8. QED
    BY <1>3, <1>4, <1>6, <1>7

\* All summands grow by one.
LEMMA SumTick ==
  ASSUME NEW f, NEW h, NEW S, IsFiniteSet(S), \A x \in S : f[x] \in Int /\ h[x] = f[x] + 1
  PROVE  SumFunctionOnSet(h, S) = SumFunctionOnSet(f, S) + Cardinality(S)
  <1> DEFINE C == {c \in SUBSET S : SumFunctionOnSet(h, c) # SumFunctionOnSet(f, c) + Cardinality(c)}
  <1>1. SUFFICES ASSUME C # {} PROVE FALSE
    OBVIOUS
  <1>2. PICK m \in C : \A c \in C : c \subseteq m => c = m
    <2> HIDE DEF C
    <2>1. C \subseteq SUBSET S
      BY DEF C
    <2>2. QED
      BY <1>1, <2>1, LeastSubset
  <1>3. IsFiniteSet(m) /\ m \subseteq S /\ SumFunctionOnSet(h, m) # SumFunctionOnSet(f, m) + Cardinality(m)
    BY <1>2, FS_Subset
  <1>4. m # {}
    <2>1. SumFunctionOnSet(h, {}) = 0 /\ SumFunctionOnSet(f, {}) = 0 /\ Cardinality({}) = 0
      BY SumOfEmpty, FS_EmptySet
    <2>2. SumFunctionOnSet(h, {}) = SumFunctionOnSet(f, {}) + Cardinality({})
      BY <2>1
    <2>3. QED
      BY <1>3, <2>2, Zenon
  <1>5. PICK x : x = Any(m)
    OBVIOUS
  <1>6. x \in m
    BY <1>4, <1>5, AnyIsMember
  <1>7. PICK rest : rest = m \ {x}
    OBVIOUS
  <1>8. IsFiniteSet(rest) /\ rest \subseteq S /\ rest # m /\ rest \subseteq m
    BY <1>3, <1>6, <1>7, FS_Subset
  <1>9. SumFunctionOnSet(h, rest) = SumFunctionOnSet(f, rest) + Cardinality(rest)
    BY <1>2, <1>8
  <1>10. /\ SumFunctionOnSet(f, m) = f[x] + SumFunctionOnSet(f, rest)
         /\ SumFunctionOnSet(h, m) = h[x] + SumFunctionOnSet(h, rest)
    BY <1>3, <1>4, <1>5, <1>7, SumBegins
  <1>11. Cardinality(m) = Cardinality(rest) + 1
    <2>1. Cardinality(m \ {x}) = Cardinality(m) - 1
      BY <1>3, <1>6, FS_RemoveElement
    <2>2. Cardinality(m) \in Nat
      BY <1>3, FS_CardinalityType
    <2>3. QED
      BY <1>7, <2>1, <2>2
  <1>12. f[x] \in Int /\ h[x] = f[x] + 1
    BY <1>3, <1>6
  <1>13. SumFunctionOnSet(f, rest) \in Int
    <2>1. \A y \in rest : f[y] \in Int
      BY <1>8
    <2>2. QED
      BY <1>8, <2>1, SumType
  <1>14. Cardinality(rest) \in Nat
    BY <1>8, FS_CardinalityType
  <1>15. QED
    BY <1>3, <1>9, <1>10, <1>11, <1>12, <1>13, <1>14
-----------------------------------------------------------------------------
(***************************************************************************)
(* Sums of differences.                                                    *)
(***************************************************************************)

\* What has happened to each member of S since its s, by n.
SumOver(n, s, S) == SumFunctionOnSet([m \in S |-> n - s[m]], S)

LEMMA OverSame ==
  ASSUME NEW n, NEW s, NEW k, NEW u, NEW S, IsFiniteSet(S), \A m \in S : n - s[m] = k - u[m]
  PROVE  SumOver(n, s, S) = SumOver(k, u, S)
  <1>1. PICK f, h : f = [m \in S |-> n - s[m]] /\ h = [m \in S |-> k - u[m]]
    OBVIOUS
  <1>2. \A m \in S : f[m] = h[m]
    BY <1>1
  <1>3. SumFunctionOnSet(f, S) = SumFunctionOnSet(h, S)
    BY <1>2, SumSame
  <1>4. QED
    BY <1>1, <1>3 DEF SumOver

LEMMA OverType ==
  ASSUME NEW n \in Int, NEW s, NEW S, IsFiniteSet(S), \A m \in S : s[m] \in Int
  PROVE  SumOver(n, s, S) \in Int
  <1>1. PICK f : f = [m \in S |-> n - s[m]]
    OBVIOUS
  <1>2. \A m \in S : f[m] \in Int
    BY <1>1
  <1>3. SumFunctionOnSet(f, S) \in Int
    BY <1>2, SumType
  <1>4. QED
    BY <1>1, <1>3 DEF SumOver

LEMMA OverNone == ASSUME NEW n, NEW s PROVE SumOver(n, s, {}) = 0
  BY SumOfEmpty DEF SumOver

LEMMA OverSplit ==
  ASSUME NEW n \in Int, NEW s, NEW S, IsFiniteSet(S), \A m \in S : s[m] \in Int, NEW y \in S
  PROVE  SumOver(n, s, S) = (n - s[y]) + SumOver(n, s, S \ {y})
  <1>1. PICK f, h : f = [m \in S |-> n - s[m]] /\ h = [m \in S \ {y} |-> n - s[m]]
    OBVIOUS
  <1>2. \A m \in S : f[m] \in Int
    BY <1>1
  <1>3. SumFunctionOnSet(f, S) = f[y] + SumFunctionOnSet(f, S \ {y})
    BY <1>2, SumSplit
  <1>4. SumFunctionOnSet(f, S \ {y}) = SumFunctionOnSet(h, S \ {y})
    <2>1. IsFiniteSet(S \ {y})
      BY FS_Subset
    <2>2. \A m \in S \ {y} : f[m] = h[m]
      BY <1>1
    <2>3. QED
      BY <2>1, <2>2, SumSame
  <1>5. f[y] = n - s[y]
    BY <1>1
  <1>6. QED
    BY <1>1, <1>3, <1>4, <1>5 DEF SumOver

LEMMA OverTick ==
  ASSUME NEW n \in Int, NEW s, NEW S, IsFiniteSet(S), \A m \in S : s[m] \in Int
  PROVE  SumOver(n + 1, s, S) = SumOver(n, s, S) + Cardinality(S)
  <1>1. PICK f, h : f = [m \in S |-> n - s[m]] /\ h = [m \in S |-> (n + 1) - s[m]]
    OBVIOUS
  <1>2. \A m \in S : f[m] \in Int /\ h[m] = f[m] + 1
    BY <1>1
  <1>3. SumFunctionOnSet(h, S) = SumFunctionOnSet(f, S) + Cardinality(S)
    BY <1>2, SumTick
  <1>4. QED
    BY <1>1, <1>3 DEF SumOver

\* A sum of equal summands.
LEMMA SumEqual ==
  ASSUME NEW f, NEW S, IsFiniteSet(S), NEW c \in Int, \A x \in S : f[x] = c
  PROVE  SumFunctionOnSet(f, S) = c * Cardinality(S)
  <1> DEFINE C == {s \in SUBSET S : SumFunctionOnSet(f, s) # c * Cardinality(s)}
  <1>1. SUFFICES ASSUME C # {} PROVE FALSE
    OBVIOUS
  <1>2. PICK m \in C : \A s \in C : s \subseteq m => s = m
    <2>1. C \subseteq SUBSET S
      OBVIOUS
    <2> HIDE DEF C
    <2>2. QED
      BY <1>1, <2>1, LeastSubset
  <1>3. m \subseteq S /\ IsFiniteSet(m) /\ SumFunctionOnSet(f, m) # c * Cardinality(m)
    BY <1>2, FS_Subset
  <1>4. m # {}
    <2>1. SumFunctionOnSet(f, {}) = 0 /\ Cardinality({}) = 0 /\ c * 0 = 0
      BY SumOfEmpty, FS_EmptySet
    <2>2. QED
      BY <1>3, <2>1
  <1>5. PICK x : x \in m
    BY <1>4
  <1>6. m \ {x} \subseteq m /\ m \ {x} # m /\ m \ {x} \in SUBSET S
    BY <1>3, <1>5
  <1>7. SumFunctionOnSet(f, m \ {x}) = c * Cardinality(m \ {x})
    BY <1>2, <1>6
  <1>8. \A y \in m : f[y] \in Int
    BY <1>3
  <1>9. SumFunctionOnSet(f, m) = c + SumFunctionOnSet(f, m \ {x})
    BY <1>3, <1>5, <1>8, SumSplit
  <1>10. Cardinality(m \ {x}) = Cardinality(m) - 1 /\ Cardinality(m) \in Nat
    BY <1>3, <1>5, FS_RemoveElement, FS_CardinalityType
  <1>11. \A k \in Int : c + c * (k - 1) = c * k
    OBVIOUS
  <1>12. QED
    BY <1>3, <1>7, <1>9, <1>10, <1>11

=============================================================================

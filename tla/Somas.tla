-------------------------------- MODULE Somas --------------------------------
(***************************************************************************)
(* Lemmas about SumFunctionOnSet(f, S), the sum of f[x] over a finite set, *)
(* which the models use for the loops that add up the rows of a form.      *)
(*                                                                         *)
(* The prover has no induction over sets, so each lemma that needs one     *)
(* takes a smallest counterexample: a set of finite sets that is not empty *)
(* has a member none of whose proper subsets belongs to it.                *)
(***************************************************************************)
EXTENDS Integers, FiniteSets, Functions, FiniteSetTheorems, TLAPS

\* Among some finite sets there is one with no proper subset among them.
LEMMA ConjuntoMinimo ==
  ASSUME NEW D, D # {}, \A w \in D : IsFiniteSet(w)
  PROVE  \E w \in D : \A v \in D : v \subseteq w => v = w
<1> DEFINE U == UNION D
<1>1. D \subseteq FiniteSubsetsOf(U)
  BY DEF FiniteSubsetsOf
<1>2. IsWellFoundedOn(StrictSubsetOrdering(U), FiniteSubsetsOf(U))
  BY FS_StrictSubsetOrderingWellFounded
<1>3. PICK w \in D : \A v \in D : ~(<<v, w>> \in StrictSubsetOrdering(U))
  BY <1>1, <1>2, WFMin
<1>4. \A v \in D : v \subseteq w => v = w
  BY <1>3 DEF StrictSubsetOrdering
<1>5. QED BY <1>4

-----------------------------------------------------------------------------
(* The fold is well defined. *)

Um(s) == CHOOSE x \in s : TRUE

\* One unfolding of the sum: what it makes of the sums g of smaller sets.
Desdobrada(f, S, g) ==
  [s \in SUBSET S |-> IF s = {} THEN 0 ELSE f[Um(s)] + g[s \ {Um(s)}]]

Parciais(f, S) == CHOOSE g : g = Desdobrada(f, S, g)

\* The library's sum is the value at S of that recursive function.
LEMMA SomaDesdobrada ==
  ASSUME NEW f, NEW S
  PROVE  SumFunctionOnSet(f, S) = Parciais(f, S)[S]
BY DEF SumFunctionOnSet, FoldFunctionOnSet, MapThenFoldSet, Parciais, Desdobrada, Um

\* The recursive functions for a set and for one of its subsets agree.
LEMMA ParciaisConcordam ==
  ASSUME NEW f, NEW S, NEW T \in SUBSET S, IsFiniteSet(T),
         NEW g, g = Desdobrada(f, S, g), NEW h, h = Desdobrada(f, T, h)
  PROVE  \A w \in SUBSET T : g[w] = h[w]
<1> DEFINE D == {w \in SUBSET T : g[w] # h[w]}
<1> SUFFICES ASSUME D # {} PROVE FALSE
  OBVIOUS
<1>1. \A w \in D : IsFiniteSet(w)
  BY FS_Subset
<1>2. PICK w \in D : \A v \in D : v \subseteq w => v = w
  <2> HIDE DEF D
  <2>1. QED BY <1>1, ConjuntoMinimo
<1>3. w \in SUBSET S /\ w \in SUBSET T
  OBVIOUS
<1>4. CASE w = {}
  BY <1>3, <1>4 DEF Desdobrada
<1>5. CASE w # {}
  <2>1. Um(w) \in w
    BY <1>5 DEF Um
  <2>2. w \ {Um(w)} \in SUBSET T /\ w \ {Um(w)} # w
    BY <2>1
  <2>3. g[w \ {Um(w)}] = h[w \ {Um(w)}]
    BY <1>2, <2>2
  <2>4. g[w] = f[Um(w)] + g[w \ {Um(w)}] /\ h[w] = f[Um(w)] + h[w \ {Um(w)}]
    BY <1>3, <1>5 DEF Desdobrada
  <2>5. QED BY <2>3, <2>4
<1>6. QED BY <1>4, <1>5

\* Such a function exists for every finite set.
LEMMA ParciaisExistem ==
  ASSUME NEW f, NEW S, IsFiniteSet(S)
  PROVE  Parciais(f, S) = Desdobrada(f, S, Parciais(f, S))
<1> DEFINE D == {w \in SUBSET S : ~\E g : g = Desdobrada(f, w, g)}
<1> SUFFICES ASSUME D # {} PROVE FALSE
  <2>1. D = {} => \E g : g = Desdobrada(f, S, g)
    OBVIOUS
  <2>2. QED BY <2>1 DEF Parciais
<1>1. \A w \in D : IsFiniteSet(w)
  BY FS_Subset
<1>2. PICK w \in D : \A v \in D : v \subseteq w => v = w
  <2> HIDE DEF D
  <2>1. QED BY <1>1, ConjuntoMinimo
<1> DEFINE P(v) == Parciais(f, v)
           g == [s \in SUBSET w |->
                  IF s = {} THEN 0 ELSE f[Um(s)] + P(s \ {Um(s)})[s \ {Um(s)}]]
<1>3. \A v \in SUBSET w : v # w => P(v) = Desdobrada(f, v, P(v))
  <2>1. \A v \in SUBSET w : v # w => \E h : h = Desdobrada(f, v, h)
    BY <1>2
  <2>2. QED BY <2>1 DEF Parciais
<1>4. \A v \in SUBSET w : v # w => g[v] = P(v)[v]
  <2> SUFFICES ASSUME NEW v \in SUBSET w, v # w PROVE g[v] = P(v)[v]
    OBVIOUS
  <2>1. P(v)[v] = IF v = {} THEN 0 ELSE f[Um(v)] + P(v)[v \ {Um(v)}]
    <3> HIDE DEF P
    <3>1. P(v) = Desdobrada(f, v, P(v)) /\ v \in SUBSET v
      BY <1>3
    <3>2. QED BY <3>1 DEF Desdobrada
  <2>2. CASE v = {}
    BY <2>1, <2>2
  <2>3. CASE v # {}
    <3> DEFINE u == v \ {Um(v)}
    <3>1. u \in SUBSET v /\ u # w /\ u \in SUBSET w
      OBVIOUS
    <3>2. IsFiniteSet(u)
      BY <1>1, FS_Subset
    <3>3. P(v)[u] = P(u)[u]
      <4> HIDE DEF P, u
      <4>1. P(v) = Desdobrada(f, v, P(v)) /\ P(u) = Desdobrada(f, u, P(u))
        BY <1>3, <3>1
      <4>2. QED BY <3>1, <3>2, <4>1, ParciaisConcordam
    <3>4. g[v] = f[Um(v)] + P(u)[u]
      BY <2>3
    <3>5. QED BY <2>1, <2>3, <3>3, <3>4
  <2>4. QED BY <2>2, <2>3
<1>5. g = Desdobrada(f, w, g)
  <2>1. \A s \in SUBSET w : s # {} =>
          /\ s \ {Um(s)} \in SUBSET w /\ s \ {Um(s)} # w
    BY DEF Um
  <2>2. \A s \in SUBSET w : s # {} => g[s \ {Um(s)}] = P(s \ {Um(s)})[s \ {Um(s)}]
    <3> HIDE DEF g, P
    <3>1. QED BY <1>4, <2>1
  <2> DEFINE d == [s \in SUBSET w |-> IF s = {} THEN 0 ELSE f[Um(s)] + g[s \ {Um(s)}]]
  <2>3. \A s \in SUBSET w : g[s] = d[s]
    <3> SUFFICES ASSUME NEW s \in SUBSET w PROVE g[s] = d[s]
      OBVIOUS
    <3>1. CASE s = {}
      BY <3>1
    <3>2. CASE s # {}
      <4>1. g[s] = f[Um(s)] + P(s \ {Um(s)})[s \ {Um(s)}]
        BY <3>2
      <4>2. d[s] = f[Um(s)] + g[s \ {Um(s)}]
        <5> HIDE DEF g
        <5>1. QED BY <3>2
      <4>3. QED BY <2>2, <3>2, <4>1, <4>2
    <3>3. QED BY <3>1, <3>2
  <2>4. g = [s \in SUBSET w |-> g[s]] /\ d = [s \in SUBSET w |-> d[s]]
    <3>1. g = [s \in SUBSET w |-> g[s]]
      OBVIOUS
    <3>2. d = [s \in SUBSET w |-> d[s]]
      <4> HIDE DEF g
      <4>1. QED OBVIOUS
    <3>3. QED BY <3>1, <3>2
  <2>5. g = d
    <3> HIDE DEF g, d
    <3>1. QED BY <2>3, <2>4
  <2>6. d = Desdobrada(f, w, g)
    BY DEF Desdobrada
  <2>7. QED BY <2>5, <2>6
<1>6. QED
  <2> HIDE DEF g
  <2>1. QED BY <1>2, <1>5

-----------------------------------------------------------------------------
(* What the sum is. *)

\* The sum over no elements is zero.
LEMMA SomaVazia ==
  ASSUME NEW f
  PROVE  SumFunctionOnSet(f, {}) = 0
<1>1. Parciais(f, {}) = Desdobrada(f, {}, Parciais(f, {}))
  BY FS_EmptySet, ParciaisExistem
<1>2. QED BY <1>1, SomaDesdobrada DEF Desdobrada

\* Taking out the element that the fold picks first.
LEMMA SomaPrimeiro ==
  ASSUME NEW f, NEW S, IsFiniteSet(S), S # {}
  PROVE  SumFunctionOnSet(f, S) = f[Um(S)] + SumFunctionOnSet(f, S \ {Um(S)})
<1> DEFINE T == S \ {Um(S)}
<1>1. T \in SUBSET S /\ IsFiniteSet(T)
  BY FS_Subset
<1>2. /\ Parciais(f, S) = Desdobrada(f, S, Parciais(f, S))
      /\ Parciais(f, T) = Desdobrada(f, T, Parciais(f, T))
  <2> HIDE DEF T
  <2>1. QED BY <1>1, ParciaisExistem
<1>3. Parciais(f, S)[T] = Parciais(f, T)[T]
  <2> HIDE DEF T
  <2>1. QED BY <1>1, <1>2, ParciaisConcordam
<1>4. Parciais(f, S)[S] = f[Um(S)] + Parciais(f, S)[T]
  BY <1>2 DEF Desdobrada
<1>5. QED BY <1>3, <1>4, SomaDesdobrada

\* A sum of integers is an integer.
LEMMA SomaInteira ==
  ASSUME NEW f, NEW S, IsFiniteSet(S), \A x \in S : f[x] \in Int
  PROVE  SumFunctionOnSet(f, S) \in Int
<1> DEFINE D == {w \in SUBSET S : SumFunctionOnSet(f, w) \notin Int}
<1> SUFFICES ASSUME D # {} PROVE FALSE
  OBVIOUS
<1>1. \A w \in D : IsFiniteSet(w)
  BY FS_Subset
<1>2. PICK w \in D : \A v \in D : v \subseteq w => v = w
  <2> HIDE DEF D
  <2>1. QED BY <1>1, ConjuntoMinimo
<1>3. w # {}
  BY SomaVazia
<1>4. Um(w) \in w
  BY <1>3 DEF Um
<1>5. SumFunctionOnSet(f, w \ {Um(w)}) \in Int
  BY <1>2, <1>4
<1>6. SumFunctionOnSet(f, w) = f[Um(w)] + SumFunctionOnSet(f, w \ {Um(w)})
  BY <1>1, <1>3, SomaPrimeiro
<1>7. QED BY <1>4, <1>5, <1>6

\* Any element may be taken out: the order of the fold does not matter.
LEMMA SomaRetira ==
  ASSUME NEW f, NEW S, IsFiniteSet(S), \A x \in S : f[x] \in Int, NEW a \in S
  PROVE  SumFunctionOnSet(f, S) = f[a] + SumFunctionOnSet(f, S \ {a})
<1> DEFINE D == {w \in SUBSET S :
                   \E x \in w : SumFunctionOnSet(f, w) # f[x] + SumFunctionOnSet(f, w \ {x})}
<1> SUFFICES ASSUME D # {} PROVE FALSE
  OBVIOUS
<1>1. \A w \in D : IsFiniteSet(w)
  BY FS_Subset
<1>2. PICK w \in D : \A v \in D : v \subseteq w => v = w
  <2> HIDE DEF D
  <2>1. QED BY <1>1, ConjuntoMinimo
<1>3. PICK x \in w : SumFunctionOnSet(f, w) # f[x] + SumFunctionOnSet(f, w \ {x})
  BY <1>2
<1> DEFINE y == Um(w)
<1>4. y \in w /\ w \in SUBSET S
  BY <1>2, <1>3 DEF Um
<1>5. SumFunctionOnSet(f, w) = f[y] + SumFunctionOnSet(f, w \ {y})
  BY <1>1, <1>3, SomaPrimeiro
<1>6. x # y
  BY <1>3, <1>5
<1>7. \A v \in SUBSET w : v # w =>
        \A z \in v : SumFunctionOnSet(f, v) = f[z] + SumFunctionOnSet(f, v \ {z})
  BY <1>2
<1> HIDE DEF D, y
<1>8. SumFunctionOnSet(f, w \ {y}) = f[x] + SumFunctionOnSet(f, (w \ {y}) \ {x})
  BY <1>3, <1>4, <1>6, <1>7
<1>9. SumFunctionOnSet(f, w \ {x}) = f[y] + SumFunctionOnSet(f, (w \ {x}) \ {y})
  BY <1>3, <1>4, <1>6, <1>7
<1>10. (w \ {x}) \ {y} = (w \ {y}) \ {x}
  OBVIOUS
<1>11. SumFunctionOnSet(f, (w \ {y}) \ {x}) \in Int /\ f[x] \in Int /\ f[y] \in Int
  BY <1>3, <1>4, SomaInteira, FS_Subset
<1> DEFINE s == SumFunctionOnSet(f, (w \ {y}) \ {x})
<1>12. /\ SumFunctionOnSet(f, w) = f[y] + (f[x] + s)
       /\ SumFunctionOnSet(f, w \ {x}) = f[y] + s
  BY <1>5, <1>8, <1>9, <1>10
<1>13. s \in Int
  BY <1>11
<1> HIDE DEF s
<1>14. f[y] + (f[x] + s) = f[x] + (f[y] + s)
  BY <1>11, <1>13
<1>15. QED BY <1>3, <1>12, <1>14

\* An element that was not there adds its value.
LEMMA SomaAcrescenta ==
  ASSUME NEW f, NEW S, IsFiniteSet(S), NEW a, a \notin S, \A x \in S \cup {a} : f[x] \in Int
  PROVE  SumFunctionOnSet(f, S \cup {a}) = f[a] + SumFunctionOnSet(f, S)
<1>1. IsFiniteSet(S \cup {a}) /\ (S \cup {a}) \ {a} = S
  BY FS_AddElement
<1>2. QED BY <1>1, SomaRetira

\* The sum depends on nothing but the values over S.
LEMMA SomaIgual ==
  ASSUME NEW f, NEW g, NEW S, IsFiniteSet(S), \A x \in S : f[x] = g[x]
  PROVE  SumFunctionOnSet(f, S) = SumFunctionOnSet(g, S)
<1> DEFINE D == {w \in SUBSET S : SumFunctionOnSet(f, w) # SumFunctionOnSet(g, w)}
<1> SUFFICES ASSUME D # {} PROVE FALSE
  OBVIOUS
<1>1. \A w \in D : IsFiniteSet(w)
  BY FS_Subset
<1>2. PICK w \in D : \A v \in D : v \subseteq w => v = w
  <2> HIDE DEF D
  <2>1. QED BY <1>1, ConjuntoMinimo
<1>3. w # {}
  BY SomaVazia
<1>4. Um(w) \in w
  BY <1>3 DEF Um
<1>5. /\ SumFunctionOnSet(f, w) = f[Um(w)] + SumFunctionOnSet(f, w \ {Um(w)})
      /\ SumFunctionOnSet(g, w) = g[Um(w)] + SumFunctionOnSet(g, w \ {Um(w)})
  BY <1>1, <1>3, SomaPrimeiro
<1>6. SumFunctionOnSet(f, w \ {Um(w)}) = SumFunctionOnSet(g, w \ {Um(w)})
  BY <1>2, <1>4
<1>7. QED BY <1>2, <1>4, <1>5, <1>6

\* Functions that differ at one element only have sums that differ by as much.
LEMMA SomaTroca ==
  ASSUME NEW f, NEW g, NEW S, IsFiniteSet(S), NEW a \in S,
         \A x \in S : f[x] \in Int /\ g[x] \in Int, \A x \in S \ {a} : f[x] = g[x]
  PROVE  SumFunctionOnSet(g, S) = SumFunctionOnSet(f, S) - f[a] + g[a]
<1>1. IsFiniteSet(S \ {a})
  BY FS_Subset
<1>2. /\ SumFunctionOnSet(f, S) = f[a] + SumFunctionOnSet(f, S \ {a})
      /\ SumFunctionOnSet(g, S) = g[a] + SumFunctionOnSet(g, S \ {a})
  BY SomaRetira
<1>3. SumFunctionOnSet(f, S \ {a}) = SumFunctionOnSet(g, S \ {a})
  BY <1>1, SomaIgual
<1>4. SumFunctionOnSet(f, S \ {a}) \in Int
  BY <1>1, SomaInteira
<1>5. QED BY <1>2, <1>3, <1>4

\* The sum of values that are all zero is zero.
LEMMA SomaZero ==
  ASSUME NEW f, NEW S, IsFiniteSet(S), \A x \in S : f[x] = 0
  PROVE  SumFunctionOnSet(f, S) = 0
<1> DEFINE D == {w \in SUBSET S : SumFunctionOnSet(f, w) # 0}
<1> SUFFICES ASSUME D # {} PROVE FALSE
  OBVIOUS
<1>1. \A w \in D : IsFiniteSet(w)
  BY FS_Subset
<1>2. PICK w \in D : \A v \in D : v \subseteq w => v = w
  <2> HIDE DEF D
  <2>1. QED BY <1>1, ConjuntoMinimo
<1>3. w # {}
  BY SomaVazia
<1>4. Um(w) \in w
  BY <1>3 DEF Um
<1>5. SumFunctionOnSet(f, w) = f[Um(w)] + SumFunctionOnSet(f, w \ {Um(w)})
  BY <1>1, <1>3, SomaPrimeiro
<1>6. SumFunctionOnSet(f, w \ {Um(w)}) = 0
  BY <1>2, <1>4
<1>7. QED BY <1>2, <1>4, <1>5, <1>6

\* The sum of values of at most m is at most m for each element.
LEMMA SomaLimitada ==
  ASSUME NEW f, NEW S, IsFiniteSet(S), NEW m \in Int, \A x \in S : f[x] \in Int /\ f[x] <= m
  PROVE  SumFunctionOnSet(f, S) <= Cardinality(S) * m
<1> DEFINE D == {w \in SUBSET S : ~(SumFunctionOnSet(f, w) <= Cardinality(w) * m)}
<1> SUFFICES ASSUME D # {} PROVE FALSE
  OBVIOUS
<1>1. \A w \in D : IsFiniteSet(w)
  BY FS_Subset
<1>2. PICK w \in D : \A v \in D : v \subseteq w => v = w
  <2> HIDE DEF D
  <2>1. QED BY <1>1, ConjuntoMinimo
<1>3. w # {}
  <2>1. SumFunctionOnSet(f, {}) <= Cardinality({}) * m
    <3>1. Cardinality({}) * m = 0
      BY FS_EmptySet
    <3>2. QED BY <3>1, SomaVazia
  <2>2. QED BY <1>2, <2>1
<1> DEFINE u == w \ {Um(w)}
           c == Cardinality(u)
<1>4. Um(w) \in w
  BY <1>3 DEF Um
<1>5. SumFunctionOnSet(f, w) = f[Um(w)] + SumFunctionOnSet(f, u)
  BY <1>1, <1>3, SomaPrimeiro
<1>6. SumFunctionOnSet(f, u) <= c * m
  BY <1>2, <1>4
<1>7. IsFiniteSet(u) /\ Cardinality(w) = c + 1 /\ c \in Nat
  BY <1>1, <1>4, FS_RemoveElement, FS_CardinalityType
<1>8. SumFunctionOnSet(f, u) \in Int /\ f[Um(w)] \in Int /\ f[Um(w)] <= m
  BY <1>4, <1>7, SomaInteira
<1> HIDE DEF u, c
<1>9. (c + 1) * m = c * m + m /\ c * m \in Int
  BY <1>7
<1>10. ~(SumFunctionOnSet(f, w) <= (c + 1) * m)
  BY <1>2, <1>7
<1>11. QED BY <1>5, <1>6, <1>8, <1>9, <1>10

\* A sum of values that are not negative is at least each of them.
LEMMA SomaNatural ==
  ASSUME NEW f, NEW S, IsFiniteSet(S), \A x \in S : f[x] \in Nat
  PROVE  /\ SumFunctionOnSet(f, S) \in Nat
         /\ \A a \in S : f[a] <= SumFunctionOnSet(f, S)
<1> DEFINE D == {w \in SUBSET S : SumFunctionOnSet(f, w) \notin Nat}
<1>1. D = {}
  <2> SUFFICES ASSUME D # {} PROVE FALSE
    OBVIOUS
  <2>1. \A w \in D : IsFiniteSet(w)
    BY FS_Subset
  <2>2. PICK w \in D : \A v \in D : v \subseteq w => v = w
    <3> HIDE DEF D
    <3>1. QED BY <2>1, ConjuntoMinimo
  <2>3. w # {}
    BY SomaVazia
  <2>4. Um(w) \in w
    BY <2>3 DEF Um
  <2>5. SumFunctionOnSet(f, w) = f[Um(w)] + SumFunctionOnSet(f, w \ {Um(w)})
    BY <2>1, <2>3, SomaPrimeiro
  <2>6. SumFunctionOnSet(f, w \ {Um(w)}) \in Nat
    BY <2>2, <2>4
  <2>7. QED BY <2>2, <2>4, <2>5, <2>6
<1>2. ASSUME NEW a \in S
      PROVE  f[a] <= SumFunctionOnSet(f, S)
  <2>1. SumFunctionOnSet(f, S) = f[a] + SumFunctionOnSet(f, S \ {a})
    BY SomaRetira
  <2>2. SumFunctionOnSet(f, S \ {a}) \in Nat
    BY <1>1
  <2>3. QED BY <2>1, <2>2
<1>3. QED BY <1>1, <1>2

\* A constant factor may be taken out of a sum.
LEMMA SomaFator ==
  ASSUME NEW f, NEW g, NEW S, IsFiniteSet(S), NEW c \in Int,
         \A x \in S : f[x] \in Int /\ g[x] = c * f[x]
  PROVE  SumFunctionOnSet(g, S) = c * SumFunctionOnSet(f, S)
<1> DEFINE D == {w \in SUBSET S : SumFunctionOnSet(g, w) # c * SumFunctionOnSet(f, w)}
<1> SUFFICES ASSUME D # {} PROVE FALSE
  OBVIOUS
<1>1. \A w \in D : IsFiniteSet(w)
  BY FS_Subset
<1>2. PICK w \in D : \A v \in D : v \subseteq w => v = w
  <2> HIDE DEF D
  <2>1. QED BY <1>1, ConjuntoMinimo
<1>3. w # {}
  <2>1. SumFunctionOnSet(g, {}) = c * SumFunctionOnSet(f, {})
    <3>1. c * 0 = 0
      OBVIOUS
    <3>2. QED BY <3>1, SomaVazia
  <2>2. QED BY <1>2, <2>1
<1> DEFINE u == w \ {Um(w)}
           s == SumFunctionOnSet(f, u)
           y == f[Um(w)]
<1>4. Um(w) \in w /\ w \in SUBSET S
  BY <1>3 DEF Um
<1>5. SumFunctionOnSet(f, w) = y + s /\ SumFunctionOnSet(g, w) = g[Um(w)] + SumFunctionOnSet(g, u)
  BY <1>1, <1>3, SomaPrimeiro
<1>6. SumFunctionOnSet(g, u) = c * s
  BY <1>2, <1>4
<1>7. IsFiniteSet(u)
  BY <1>1, FS_RemoveElement
<1>8. s \in Int /\ y \in Int /\ g[Um(w)] = c * y
  BY <1>4, <1>7, SomaInteira
<1>9. SumFunctionOnSet(g, w) # c * SumFunctionOnSet(f, w)
  BY <1>2
<1> HIDE DEF u, s, y
<1>10. c * (y + s) = c * y + c * s
  BY <1>8
<1>11. QED BY <1>5, <1>6, <1>8, <1>9, <1>10

\* Leaving out values that are not negative does not increase a sum.
LEMMA SomaSubconjunto ==
  ASSUME NEW f, NEW S, IsFiniteSet(S), \A x \in S : f[x] \in Nat, NEW T \in SUBSET S
  PROVE  SumFunctionOnSet(f, T) <= SumFunctionOnSet(f, S)
<1> DEFINE D == {w \in SUBSET S : T \subseteq w /\
                   ~(SumFunctionOnSet(f, T) <= SumFunctionOnSet(f, w))}
<1> SUFFICES ASSUME D # {} PROVE FALSE
  OBVIOUS
<1>1. \A w \in D : IsFiniteSet(w)
  BY FS_Subset
<1>2. PICK w \in D : \A v \in D : v \subseteq w => v = w
  <2> HIDE DEF D
  <2>1. QED BY <1>1, ConjuntoMinimo
<1>3. T \subseteq w /\ w \in SUBSET S /\ IsFiniteSet(w) /\ IsFiniteSet(T)
  BY <1>1, FS_Subset
<1>4. SumFunctionOnSet(f, T) \in Nat /\ SumFunctionOnSet(f, w) \in Nat
  BY <1>3, SomaNatural
<1>5. w # T
  BY <1>2, <1>4
<1>6. PICK x \in w : x \notin T
  BY <1>3, <1>5
<1>7. SumFunctionOnSet(f, w) = f[x] + SumFunctionOnSet(f, w \ {x})
  BY <1>3, SomaRetira
<1>8. SumFunctionOnSet(f, T) <= SumFunctionOnSet(f, w \ {x})
  BY <1>2, <1>3, <1>6
<1>9. IsFiniteSet(w \ {x})
  BY <1>3, FS_RemoveElement
<1>10. SumFunctionOnSet(f, w \ {x}) \in Nat /\ f[x] \in Nat
  BY <1>3, <1>9, SomaNatural
<1>11. QED BY <1>2, <1>4, <1>7, <1>8, <1>10

\* A finite set of integers that is not empty has a largest element.
LEMMA MaiorExiste ==
  ASSUME NEW S, IsFiniteSet(S), S # {}, S \subseteq Int
  PROVE  \E m \in S : \A x \in S : m >= x
<1> DEFINE D == {w \in SUBSET S : w # {} /\ ~\E m \in w : \A x \in w : m >= x}
<1> SUFFICES ASSUME D # {} PROVE FALSE
  OBVIOUS
<1>1. \A w \in D : IsFiniteSet(w)
  BY FS_Subset
<1>2. PICK w \in D : \A v \in D : v \subseteq w => v = w
  <2> HIDE DEF D
  <2>1. QED BY <1>1, ConjuntoMinimo
<1>3. PICK a \in w : TRUE
  BY <1>2
<1>4. CASE w \ {a} = {}
  BY <1>2, <1>3, <1>4
<1>5. CASE w \ {a} # {}
  <2>1. PICK m \in w \ {a} : \A x \in w \ {a} : m >= x
    <3>1. w \ {a} \in SUBSET S /\ w \ {a} \notin D
      BY <1>2, <1>3
    <3>2. QED BY <1>5, <3>1
  <2>2. a \in Int /\ m \in Int /\ \A x \in w : x \in Int
    BY <1>2
  <2>3. CASE m >= a
    BY <1>2, <2>1, <2>2, <2>3
  <2>4. CASE a >= m
    <3>1. \A x \in w : a >= x
      BY <2>1, <2>2, <2>4
    <3>2. QED BY <1>2, <1>3, <3>1
  <2>5. QED BY <2>2, <2>3, <2>4
<1>6. QED BY <1>4, <1>5

\* A set of natural numbers that is not empty has a smallest element.
LEMMA MenorExiste ==
  ASSUME NEW S, S # {}, S \subseteq Nat
  PROVE  \E m \in S : \A x \in S : m <= x
<1>1. PICK m \in S : \A x \in S : ~(<<x, m>> \in OpToRel(<, Nat))
  BY NatLessThanWellFounded, WFMin
<1>2. \A x \in S : ~(x < m)
  BY <1>1 DEF OpToRel
<1>3. \A x \in S : m <= x
  BY <1>2
<1>4. QED BY <1>3

=============================================================================

----------------------------- MODULE FiniteSums -----------------------------
(***************************************************************************)
(* Facts about SumFunctionOnSet(f, S), the sum of f over a finite set that *)
(* the counters and the block sizes of this program are stated with.       *)
(*                                                                         *)
(* The library's induction theorems quantify over a predicate, which the   *)
(* provers cannot instantiate.  Here induction is stated for a set in the  *)
(* predicate's place, and derived from the well-foundedness of < on Nat:   *)
(* a set of counterexamples would have a smallest one.                     *)
(***************************************************************************)
EXTENDS Integers, FiniteSetTheorems, FunctionTheorems, TLAPS

\* Induction over the natural numbers, for a set in the place of a predicate.
LEMMA NatSetInduction ==
  ASSUME NEW S, 0 \in S, \A n \in Nat : n \in S => n + 1 \in S
  PROVE  Nat \subseteq S
<1> DEFINE R == OpToRel(<, Nat)
           T == Nat \ S
<1>1. IsWellFoundedOn(R, Nat)
  BY NatLessThanWellFounded
<1>2. \A x, y \in Nat : <<y, x>> \in R <=> y < x
  BY DEF OpToRel
<1> HIDE DEF R
<1> SUFFICES ASSUME T # {} PROVE FALSE
  OBVIOUS
<1>3. T \subseteq Nat
  OBVIOUS
<1>4. \E x \in T : \A y \in T : ~ (<<y, x>> \in R)
  BY <1>1, <1>3, WFMin
<1>5. PICK x \in T : \A y \in T : ~ (y < x)
  BY <1>2, <1>3, <1>4
<1>6. x # 0 /\ x \in Nat /\ x - 1 \in Nat /\ x - 1 \notin S
  OBVIOUS
<1> QED BY <1>5, <1>6

\* Induction over the subsets of a finite set.
LEMMA FiniteSetInduction ==
  ASSUME NEW S, IsFiniteSet(S), NEW C, {} \in C,
         \A T \in SUBSET S : \A x \in S \ T : T \in C => T \cup {x} \in C
  PROVE  S \in C
<1> DEFINE N == {n \in Nat : \A T \in SUBSET S : Cardinality(T) = n => T \in C}
<1>1. \A T \in SUBSET S : IsFiniteSet(T) /\ Cardinality(T) \in Nat
  BY FS_Subset, FS_CardinalityType
<1>2. 0 \in N
  BY <1>1, FS_EmptySet
<1>3. ASSUME NEW n \in Nat, n \in N PROVE n + 1 \in N
  <2> SUFFICES ASSUME NEW T \in SUBSET S, Cardinality(T) = n + 1 PROVE T \in C
    OBVIOUS
  <2>1. T # {}
    BY <1>1, FS_EmptySet
  <2>2. PICK x \in T : TRUE
    BY <2>1
  <2>3. Cardinality(T \ {x}) = n
    <3>1. Cardinality(T \ {x}) = Cardinality(T) - 1
      BY <1>1, FS_RemoveElement
    <3> QED BY <3>1
  <2>4. T \ {x} \in C
    BY <1>3, <2>3
  <2>5. (T \ {x}) \cup {x} = T
    OBVIOUS
  <2> QED BY <2>4, <2>5
<1>4. Nat \subseteq N
  <2> HIDE DEF N
  <2> QED BY <1>2, <1>3, NatSetInduction
<1>5. Cardinality(S) \in N
  BY <1>1, <1>4
<1> QED BY <1>5

-----------------------------------------------------------------------------
(* Sums *)

Chosen(s) == CHOOSE x \in s : TRUE

\* What the recursion of the community modules' sums asks of a function.
SumStep(f, g, s) == IF s = {} THEN 0 ELSE f[Chosen(s)] + g[s \ {Chosen(s)}]

IsSum(f, S, g) == g = [s \in SUBSET S |-> SumStep(f, g, s)]

\* There is such a function, on the subsets of a finite set.
LEMMA SumExists ==
  ASSUME NEW S, IsFiniteSet(S), NEW f
  PROVE  \E g : IsSum(f, S, g)
<1> DEFINE Good(g, n) == \A s \in SUBSET S : Cardinality(s) < n => g[s] = SumStep(f, g, s)
           N == {n \in Nat : \E g : g = [s \in SUBSET S |-> g[s]] /\ Good(g, n)}
<1>1. \A s \in SUBSET S : IsFiniteSet(s) /\ Cardinality(s) \in Nat
  BY FS_Subset, FS_CardinalityType
<1>2. 0 \in N
  <2> DEFINE g == [s \in SUBSET S |-> 0]
  <2>1. g = [s \in SUBSET S |-> g[s]] /\ Good(g, 0)
    BY <1>1
  <2> QED BY <2>1
<1>3. ASSUME NEW n \in Nat, n \in N PROVE n + 1 \in N
  <2>1. PICK g : g = [s \in SUBSET S |-> g[s]] /\ Good(g, n)
    BY <1>3
  <2> DEFINE h == [s \in SUBSET S |-> SumStep(f, g, s)]
  <2>2. h = [s \in SUBSET S |-> h[s]]
    OBVIOUS
  <2>3. ASSUME NEW s \in SUBSET S, Cardinality(s) < n + 1 PROVE h[s] = SumStep(f, h, s)
    <3>1. CASE s = {}
      BY <3>1 DEF SumStep
    <3>2. CASE s # {}
      <4> DEFINE r == s \ {Chosen(s)}
      <4>1. Chosen(s) \in s
        BY <3>2 DEF Chosen
      <4>2. Cardinality(r) = Cardinality(s) - 1
        BY <1>1, <4>1, FS_RemoveElement
      <4>3. r \in SUBSET S /\ Cardinality(r) < n
        BY <1>1, <2>3, <4>2
      <4>4. g[r] = SumStep(f, g, r)
        BY <2>1, <4>3
      <4>5. h[r] = g[r]
        BY <4>3, <4>4
      <4> QED BY <3>2, <4>5 DEF SumStep
    <3> QED BY <3>1, <3>2
  <2> HIDE DEF h
  <2>4. h = [s \in SUBSET S |-> h[s]] /\ Good(h, n + 1)
    BY <2>2, <2>3
  <2>5. \E k : k = [s \in SUBSET S |-> k[s]] /\ Good(k, n + 1)
    <3> HIDE DEF Good
    <3> QED BY <2>4, Zenon
  <2>6. n + 1 \in Nat
    OBVIOUS
  <2> HIDE DEF Good
  <2> QED BY <2>5, <2>6
<1>4. Nat \subseteq N
  <2> HIDE DEF N
  <2> QED BY <1>2, <1>3, NatSetInduction
<1>5. PICK g : g = [s \in SUBSET S |-> g[s]] /\ Good(g, Cardinality(S) + 1)
  <2>1. Cardinality(S) + 1 \in Nat
    BY FS_CardinalityType
  <2>2. Cardinality(S) + 1 \in N
    <3> HIDE DEF N
    <3> QED BY <2>1, <1>4
  <2> HIDE DEF Good
  <2> QED BY <2>2, Zenon
<1>6. ASSUME NEW s \in SUBSET S PROVE g[s] = SumStep(f, g, s)
  <2>1. Cardinality(s) <= Cardinality(S)
    BY FS_Subset
  <2>2. Cardinality(s) < Cardinality(S) + 1
    BY <1>1, <2>1
  <2> QED BY <1>5, <2>2
<1> QED BY <1>5, <1>6 DEF IsSum

\* It is the one the sum is computed by.
LEMMA SumByIter ==
  ASSUME NEW S, NEW f
  PROVE  SumFunctionOnSet(f, S) = (CHOOSE g : IsSum(f, S, g))[S]
BY DEF SumFunctionOnSet, FoldFunctionOnSet, MapThenFoldSet, IsSum, SumStep, Chosen

\* Two such functions agree where both are defined.
LEMMA SumUnique ==
  ASSUME NEW S, NEW T, IsFiniteSet(S), S \subseteq T, NEW f,
         NEW g, IsSum(f, S, g), NEW h, IsSum(f, T, h)
  PROVE  g[S] = h[S]
<1> DEFINE N == {n \in Nat : \A s \in SUBSET S : Cardinality(s) <= n => g[s] = h[s]}
<1>1. \A s \in SUBSET S : IsFiniteSet(s) /\ Cardinality(s) \in Nat
  BY FS_Subset, FS_CardinalityType
<1>2. \A s \in SUBSET S : g[s] = SumStep(f, g, s) /\ h[s] = SumStep(f, h, s)
  <2>1. \A s \in SUBSET S : g[s] = SumStep(f, g, s)
    BY DEF IsSum
  <2>2. \A s \in SUBSET S : s \in SUBSET T
    OBVIOUS
  <2>3. \A s \in SUBSET T : h[s] = SumStep(f, h, s)
    BY DEF IsSum
  <2> QED BY <2>1, <2>2, <2>3
<1>3. 0 \in N
  <2>1. ASSUME NEW s \in SUBSET S, Cardinality(s) <= 0 PROVE g[s] = h[s]
    <3>1. s = {}
      BY <1>1, <2>1, FS_EmptySet
    <3> QED BY <1>2, <3>1 DEF SumStep
  <2> QED BY <2>1
<1>4. ASSUME NEW n \in Nat, n \in N PROVE n + 1 \in N
  <2>1. ASSUME NEW s \in SUBSET S, Cardinality(s) <= n + 1 PROVE g[s] = h[s]
    <3>1. CASE s = {}
      BY <1>2, <3>1 DEF SumStep
    <3>2. CASE s # {}
      <4> DEFINE r == s \ {Chosen(s)}
      <4>1. Chosen(s) \in s
        BY <3>2 DEF Chosen
      <4>2. Cardinality(r) = Cardinality(s) - 1
        BY <1>1, <4>1, FS_RemoveElement
      <4>3. r \in SUBSET S /\ Cardinality(r) <= n
        BY <1>1, <2>1, <4>2
      <4>4. g[r] = h[r]
        BY <1>4, <4>3
      <4> QED BY <1>2, <3>2, <4>4 DEF SumStep
    <3> QED BY <3>1, <3>2
  <2> QED BY <2>1
<1>5. Nat \subseteq N
  <2> HIDE DEF N
  <2> QED BY <1>3, <1>4, NatSetInduction
<1> QED BY <1>1, <1>5

\* The sum over a set, by one element that is chosen.
LEMMA SumByChosen ==
  ASSUME NEW S, IsFiniteSet(S), NEW f
  PROVE  SumFunctionOnSet(f, S)
           = IF S = {} THEN 0 ELSE f[Chosen(S)] + SumFunctionOnSet(f, S \ {Chosen(S)})
<1> DEFINE sum(T) == CHOOSE g : IsSum(f, T, g)
           r == S \ {Chosen(S)}
<1>1. IsSum(f, S, sum(S))
  BY SumExists
<1>2. IsFiniteSet(r) /\ r \subseteq S
  BY FS_Subset
<1>3. IsSum(f, r, sum(r))
  BY <1>2, SumExists
<1>4. sum(r)[r] = sum(S)[r]
  BY <1>1, <1>2, <1>3, SumUnique
<1>5. sum(S)[S] = SumStep(f, sum(S), S)
  BY <1>1 DEF IsSum
<1>6. SumFunctionOnSet(f, S) = sum(S)[S] /\ SumFunctionOnSet(f, r) = sum(r)[r]
  BY SumByIter
<1> QED BY <1>4, <1>5, <1>6 DEF SumStep

-----------------------------------------------------------------------------
\* The empty sum.
LEMMA SumEmpty ==
  ASSUME NEW f
  PROVE  SumFunctionOnSet(f, {}) = 0
BY SumByChosen, FS_EmptySet

\* A sum of natural numbers is one.
LEMMA SumType ==
  ASSUME NEW S, IsFiniteSet(S), NEW f, \A x \in S : f[x] \in Nat
  PROVE  SumFunctionOnSet(f, S) \in Nat
<1> DEFINE N == {n \in Nat : \A T \in SUBSET S :
                   Cardinality(T) = n => SumFunctionOnSet(f, T) \in Nat}
<1>1. \A T \in SUBSET S : IsFiniteSet(T) /\ Cardinality(T) \in Nat
  BY FS_Subset, FS_CardinalityType
<1>2. 0 \in N
  BY <1>1, FS_EmptySet, SumEmpty
<1>3. ASSUME NEW n \in Nat, n \in N PROVE n + 1 \in N
  <2> SUFFICES ASSUME NEW T \in SUBSET S, Cardinality(T) = n + 1
               PROVE  SumFunctionOnSet(f, T) \in Nat
    OBVIOUS
  <2> DEFINE r == T \ {Chosen(T)}
  <2>1. Chosen(T) \in T
    BY <1>1, FS_EmptySet DEF Chosen
  <2>2. Cardinality(r) = Cardinality(T) - 1
    BY <1>1, <2>1, FS_RemoveElement
  <2>3. SumFunctionOnSet(f, r) \in Nat
    BY <1>3, <2>2
  <2>4. SumFunctionOnSet(f, T) = f[Chosen(T)] + SumFunctionOnSet(f, r)
    BY <1>1, <2>1, SumByChosen
  <2> QED BY <2>1, <2>3, <2>4
<1>4. Nat \subseteq N
  <2> HIDE DEF N
  <2> QED BY <1>2, <1>3, NatSetInduction
<1> QED BY <1>1, <1>4

\* Any element may be taken out of a sum first, not only the chosen one.
LEMMA SumTakeOut ==
  ASSUME NEW S, IsFiniteSet(S), NEW f, \A x \in S : f[x] \in Nat, NEW x \in S
  PROVE  SumFunctionOnSet(f, S) = f[x] + SumFunctionOnSet(f, S \ {x})
<1> DEFINE sum(T) == SumFunctionOnSet(f, T)
           N == {n \in Nat : \A T \in SUBSET S : Cardinality(T) = n =>
                   \A y \in T : sum(T) = f[y] + sum(T \ {y})}
<1>1. \A T \in SUBSET S : IsFiniteSet(T) /\ Cardinality(T) \in Nat
  BY FS_Subset, FS_CardinalityType
<1>2. \A T \in SUBSET S : sum(T) \in Nat
  BY <1>1, SumType
<1>3. \A T \in SUBSET S : T # {} => /\ Chosen(T) \in T
                                   /\ sum(T) = f[Chosen(T)] + sum(T \ {Chosen(T)})
  BY <1>1, SumByChosen DEF Chosen
<1> HIDE DEF sum
<1>4. 0 \in N
  BY <1>1, FS_EmptySet
<1>5. ASSUME NEW n \in Nat, n \in N PROVE n + 1 \in N
  <2> SUFFICES ASSUME NEW T \in SUBSET S, Cardinality(T) = n + 1, NEW y \in T
               PROVE  sum(T) = f[y] + sum(T \ {y})
    OBVIOUS
  <2> DEFINE c == Chosen(T)
  <2>1. c \in T /\ sum(T) = f[c] + sum(T \ {c})
    BY <1>3
  <2> HIDE DEF c
  <2>2. CASE c = y
    BY <2>1, <2>2
  <2>3. CASE c # y
    <3>1. Cardinality(T \ {c}) = n /\ Cardinality(T \ {y}) = n
      <4>1. IsFiniteSet(T) /\ c \in T /\ y \in T
        BY <1>1, <2>1
      <4>2. /\ Cardinality(T \ {c}) = Cardinality(T) - 1
            /\ Cardinality(T \ {y}) = Cardinality(T) - 1
        BY <4>1, FS_RemoveElement
      <4> QED BY <4>2
    <3>2. sum(T \ {c}) = f[y] + sum((T \ {c}) \ {y})
      BY <1>5, <2>3, <3>1
    <3>3. sum(T \ {y}) = f[c] + sum((T \ {y}) \ {c})
      BY <1>5, <2>1, <2>3, <3>1
    <3>4. (T \ {c}) \ {y} = (T \ {y}) \ {c}
      OBVIOUS
    <3>5. f[c] \in Nat /\ f[y] \in Nat /\ sum((T \ {y}) \ {c}) \in Nat
      BY <1>2, <2>1
    <3> QED BY <2>1, <3>2, <3>3, <3>4, <3>5
  <2> QED BY <2>2, <2>3
<1>6. Nat \subseteq N
  <2> HIDE DEF N
  <2> QED BY <1>4, <1>5, NatSetInduction
<1>7. sum(S) = f[x] + sum(S \ {x})
  BY <1>1, <1>6
<1> QED BY <1>7 DEF sum

\* One more element.
LEMMA SumAdd ==
  ASSUME NEW S, IsFiniteSet(S), NEW x, x \notin S,
         NEW f, \A y \in S \cup {x} : f[y] \in Nat
  PROVE  /\ SumFunctionOnSet(f, S \cup {x}) = SumFunctionOnSet(f, S) + f[x]
         /\ SumFunctionOnSet(f, S) \in Nat
<1>1. IsFiniteSet(S \cup {x}) /\ (S \cup {x}) \ {x} = S
  BY FS_AddElement
<1>2. SumFunctionOnSet(f, S \cup {x}) = f[x] + SumFunctionOnSet(f, S)
  BY <1>1, SumTakeOut
<1>3. SumFunctionOnSet(f, S) \in Nat
  BY SumType
<1> QED BY <1>2, <1>3

\* The elements may be renamed: a bijection that carries one function to the
\* other carries the sum.
LEMMA SumRenamed ==
  ASSUME NEW S, IsFiniteSet(S), NEW T, NEW pi \in Bijection(S, T),
         NEW f, NEW g, \A x \in S : f[x] \in Nat /\ f[x] = g[pi[x]]
  PROVE  SumFunctionOnSet(f, S) = SumFunctionOnSet(g, T)
<1> DEFINE image(R) == {pi[x] : x \in R}
           C == {R \in SUBSET S : SumFunctionOnSet(f, R) = SumFunctionOnSet(g, image(R))}
<1>1. /\ pi \in [S -> T]
      /\ \A x, y \in S : x # y => pi[x] # pi[y]
      /\ \A y \in T : \E x \in S : pi[x] = y
  BY Fun_IsBij DEF Bijection, Injection, Surjection, IsInjective
<1>2. {} \in C
  <2>1. image({}) = {}
    OBVIOUS
  <2> QED BY <2>1, SumEmpty
<1>3. ASSUME NEW R \in SUBSET S, NEW x \in S \ R, R \in C
      PROVE  R \cup {x} \in C
  <2>1. IsFiniteSet(R) /\ IsFiniteSet(image(R))
    <3>1. IsFiniteSet(T)
      BY FS_Bijection, Fun_IsBij DEF ExistsBijection
    <3>2. image(R) \subseteq T
      BY <1>1
    <3> QED BY <3>1, <3>2, FS_Subset
  <2>2. image(R \cup {x}) = image(R) \cup {pi[x]} /\ pi[x] \notin image(R)
    BY <1>1
  <2>3. SumFunctionOnSet(f, R \cup {x}) = SumFunctionOnSet(f, R) + f[x]
    BY <2>1, SumAdd
  <2>4. \A y \in image(R) \cup {pi[x]} : g[y] \in Nat
    OBVIOUS
  <2>5. SumFunctionOnSet(g, image(R) \cup {pi[x]}) = SumFunctionOnSet(g, image(R)) + g[pi[x]]
    <3> DEFINE I == image(R)
               y == pi[x]
    <3>1. IsFiniteSet(I) /\ y \notin I /\ \A z \in I \cup {y} : g[z] \in Nat
      BY <2>1, <2>2, <2>4
    <3> HIDE DEF I, y
    <3>2. SumFunctionOnSet(g, I \cup {y}) = SumFunctionOnSet(g, I) + g[y]
      BY <3>1, SumAdd
    <3> QED BY <3>2 DEF I, y
  <2> QED BY <1>3, <2>2, <2>3, <2>5
<1>4. S \in C
  <2> HIDE DEF C
  <2> QED BY <1>2, <1>3, FiniteSetInduction
<1>5. image(S) = T
  BY <1>1
<1> QED BY <1>4, <1>5

\* Only the values on the set count.
LEMMA SumSame ==
  ASSUME NEW S, IsFiniteSet(S), NEW f, NEW g, \A x \in S : f[x] \in Nat /\ f[x] = g[x]
  PROVE  SumFunctionOnSet(f, S) = SumFunctionOnSet(g, S)
<1> DEFINE pi == [x \in S |-> x]
<1>1. pi \in Bijection(S, S)
  BY DEF Bijection, Injection, Surjection, IsInjective
<1>2. \A x \in S : f[x] = g[pi[x]]
  OBVIOUS
<1> HIDE DEF pi
<1> QED BY <1>1, <1>2, SumRenamed

\* A sum over a part is no larger than the sum over the whole.
LEMMA SumOfPart ==
  ASSUME NEW S, IsFiniteSet(S), NEW R \in SUBSET S, NEW f, \A x \in S : f[x] \in Nat
  PROVE  SumFunctionOnSet(f, R) <= SumFunctionOnSet(f, S)
<1> DEFINE C == {T \in SUBSET (S \ R) :
                   SumFunctionOnSet(f, R) <= SumFunctionOnSet(f, R \cup T)}
<1>1. IsFiniteSet(S \ R) /\ \A T \in SUBSET (S \ R) : IsFiniteSet(R \cup T)
  BY FS_Subset
<1>2. {} \in C
  BY SumType, FS_Subset
<1>3. ASSUME NEW T \in SUBSET (S \ R), NEW x \in (S \ R) \ T, T \in C
      PROVE  T \cup {x} \in C
  <2>1. /\ SumFunctionOnSet(f, (R \cup T) \cup {x}) = SumFunctionOnSet(f, R \cup T) + f[x]
        /\ SumFunctionOnSet(f, R \cup T) \in Nat
    BY <1>1, SumAdd
  <2>2. (R \cup T) \cup {x} = R \cup (T \cup {x})
    OBVIOUS
  <2>3. SumFunctionOnSet(f, R) \in Nat
    BY FS_Subset, SumType
  <2>4. f[x] \in Nat /\ SumFunctionOnSet(f, R) <= SumFunctionOnSet(f, R \cup T)
    BY <1>3
  <2>5. SumFunctionOnSet(f, R \cup (T \cup {x})) = SumFunctionOnSet(f, R \cup T) + f[x]
    BY <2>1, <2>2, Zenon
  <2> DEFINE part == SumFunctionOnSet(f, R)
             most == SumFunctionOnSet(f, R \cup T)
             whole == SumFunctionOnSet(f, R \cup (T \cup {x}))
  <2>6. /\ part \in Nat /\ most \in Nat /\ f[x] \in Nat
        /\ part <= most /\ whole = most + f[x]
    BY <2>1, <2>3, <2>4, <2>5
  <2>7. part <= whole
    <3> HIDE DEF part, most, whole
    <3> QED BY <2>6
  <2> QED BY <2>7
<1>4. S \ R \in C
  <2> HIDE DEF C
  <2> QED BY <1>1, <1>2, <1>3, FiniteSetInduction
<1>5. R \cup (S \ R) = S
  OBVIOUS
<1> QED BY <1>4, <1>5
=============================================================================

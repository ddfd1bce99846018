----------------------------- MODULE SumTheorems -----------------------------
(***************************************************************************)
(* What a sum over a finite set is, whatever order its elements are added  *)
(* in.  The models add powers, amounts, fees and tokens with MapThenSumSet *)
(* of the community modules; here the numbers are given by a function w,   *)
(* and a model's own sum is shown equal to one (SolutionGivesSums).        *)
(* Induction goes by a smallest counterexample, with WFMin of the library. *)
(***************************************************************************)
EXTENDS Integers, FiniteSets, FiniteSetsExt, FiniteSetTheorems, TLAPS

Sum(w, S) == MapThenSumSet(LAMBDA x : w[x], S)

\* The element a sum over s takes first.
Pick(s) == CHOOSE x \in s : TRUE

\* f gives the sums of w over the subsets of S.
Sums(f, w, S) ==
  f = [s \in SUBSET S |-> IF s = {} THEN 0 ELSE w[Pick(s)] + f[s \ {Pick(s)}]]

\* A non-empty set has an element.
LEMMA PickInSet == \A s : s # {} => Pick(s) \in s
  BY DEF Pick

\* A function has finitely many values on a finite set.
LEMMA ImageIsFinite ==
  ASSUME NEW S, IsFiniteSet(S), NEW f
  PROVE  IsFiniteSet({f[x] : x \in S})
<1> DEFINE T == {f[x] : x \in S}
           g == [x \in S |-> f[x]]
<1>1. g \in Surjection(S, T)
  BY DEF Surjection
<1> QED  BY <1>1, FS_Surjection

\* Every non-empty set of subsets of a finite set has a smallest one.
LEMMA SmallestSubset ==
  ASSUME NEW S, IsFiniteSet(S), NEW T, T \subseteq SUBSET S, T # {}
  PROVE  \E x \in T : \A y \in T : y \subseteq x => y = x
<1>1. IsWellFoundedOn(StrictSubsetOrdering(S), FiniteSubsetsOf(S))
  BY FS_StrictSubsetOrderingWellFounded
<1>2. T \subseteq FiniteSubsetsOf(S)
  BY FS_FiniteSubsetsOfFinite
<1>3. \E x \in T : \A y \in T : ~ (<<y, x>> \in StrictSubsetOrdering(S))
  BY <1>1, <1>2, WFMin
<1> QED BY <1>3 DEF StrictSubsetOrdering

\* A function of sums, applied.
LEMMA SumsAt ==
  ASSUME NEW f, NEW w, NEW S, Sums(f, w, S)
  PROVE  /\ f[{}] = 0
         /\ \A s : s \subseteq S /\ s # {} =>
              Pick(s) \in s /\ f[s] = w[Pick(s)] + f[s \ {Pick(s)}]
<1>1. \A s \in SUBSET S : f[s] = IF s = {} THEN 0 ELSE w[Pick(s)] + f[s \ {Pick(s)}]
  BY DEF Sums
<1> QED  BY <1>1, PickInSet

\* A sum depends only on the numbers added.
LEMMA SumsAgree ==
  ASSUME NEW f, NEW v, NEW S, Sums(f, v, S), NEW g, NEW w, NEW T, Sums(g, w, T),
         NEW R, IsFiniteSet(R), R \subseteq S, R \subseteq T, \A x \in R : v[x] = w[x]
  PROVE  f[R] = g[R]
<1> DEFINE wrong == {s \in SUBSET R : f[s] # g[s]}
<1> SUFFICES ASSUME wrong # {} PROVE FALSE
  OBVIOUS
<1>1. PICK s \in wrong : \A y \in wrong : y \subseteq s => y = s
  <2>1. wrong \subseteq SUBSET R
    OBVIOUS
  <2> HIDE DEF wrong
  <2> QED  BY <2>1, SmallestSubset
<1>2. s # {} /\ s \subseteq R
  BY <1>1, SumsAt
<1>3. /\ Pick(s) \in s
      /\ f[s] = v[Pick(s)] + f[s \ {Pick(s)}]
      /\ g[s] = w[Pick(s)] + g[s \ {Pick(s)}]
  BY <1>2, SumsAt
<1>4. f[s \ {Pick(s)}] = g[s \ {Pick(s)}]
  BY <1>1, <1>2, <1>3
<1> QED  BY <1>1, <1>2, <1>3, <1>4

\* The recursion of a sum over a finite set has a solution.
LEMMA SumsExist ==
  ASSUME NEW w, NEW S, IsFiniteSet(S)
  PROVE  \E f : Sums(f, w, S)
<1> DEFINE wrong == {s \in SUBSET S : ~\E f : Sums(f, w, s)}
<1> SUFFICES ASSUME wrong # {} PROVE FALSE
  OBVIOUS
<1>1. PICK T \in wrong : \A y \in wrong : y \subseteq T => y = T
  <2>1. wrong \subseteq SUBSET S
    OBVIOUS
  <2> HIDE DEF wrong
  <2> QED  BY <2>1, SmallestSubset
<1> DEFINE F(s) == CHOOSE g : Sums(g, w, s)
           Rest(s) == s \ {Pick(s)}
           value(s) == IF s = {} THEN 0 ELSE w[Pick(s)] + F(Rest(s))[Rest(s)]
           f == [s \in SUBSET T |-> value(s)]
<1>2. ASSUME NEW s \in SUBSET T, s # T PROVE Sums(F(s), w, s)
  <2>1. \E g : Sums(g, w, s)
    BY <1>1, <1>2
  <2> QED  BY <2>1
<1>3. ASSUME NEW s \in SUBSET T, s # {} PROVE f[Rest(s)] = F(Rest(s))[Rest(s)]
  <2> DEFINE u == Rest(s)
  <2>1. u \in SUBSET T /\ u # T
    BY <1>3, PickInSet
  <2>2. Sums(F(u), w, u)
    BY <1>2, <2>1
  <2>3. f[u] = value(u)
    BY <2>1
  <2>4. CASE u = {}
    <3>1. F(u)[u] = 0
      BY <2>2, <2>4, SumsAt
    <3> QED  BY <2>3, <2>4, <3>1
  <2>5. CASE u # {}
    <3> DEFINE r == Rest(u)
    <3>1. Pick(u) \in u /\ F(u)[u] = w[Pick(u)] + F(u)[r]
      <4> HIDE DEF F, u
      <4> QED  BY <2>2, <2>5, SumsAt
    <3>2. r \in SUBSET T /\ r # T /\ r \subseteq u /\ r \subseteq r
      BY <2>1, <3>1
    <3>3. Sums(F(r), w, r)
      BY <1>2, <3>2
    <3>4. IsFiniteSet(r)
      BY <3>2, FS_Subset
    <3>5. F(u)[r] = F(r)[r]
      <4> HIDE DEF F, r, u
      <4> QED  BY <2>2, <3>2, <3>3, <3>4, SumsAgree
    <3>6. value(u) = w[Pick(u)] + F(r)[r]
      BY <2>5
    <3> QED  BY <2>3, <3>1, <3>5, <3>6
  <2> QED  BY <2>4, <2>5
<1>4. f = [s \in SUBSET T |-> IF s = {} THEN 0 ELSE w[Pick(s)] + f[s \ {Pick(s)}]]
  <2>1. \A s \in SUBSET T : value(s) = IF s = {} THEN 0 ELSE w[Pick(s)] + f[s \ {Pick(s)}]
    <3> TAKE s \in SUBSET T
    <3>1. CASE s = {}
      BY <3>1
    <3>2. CASE s # {}
      <4>1. f[Rest(s)] = F(Rest(s))[Rest(s)]
        BY <1>3, <3>2
      <4> HIDE DEF F, f
      <4> QED  BY <3>2, <4>1
    <3> QED  BY <3>1, <3>2
  <2> HIDE DEF value
  <2> QED  BY <2>1
<1>5. Sums(f, w, T)
  BY <1>4 DEF Sums
<1> QED  BY <1>1, <1>5

\* The sum of w over a finite set is the value its recursion gives.
LEMMA SumIsSolution ==
  ASSUME NEW w, NEW S, IsFiniteSet(S)
  PROVE  \E f : Sums(f, w, S) /\ Sum(w, S) = f[S]
<1>1. Sum(w, S) = (CHOOSE f : Sums(f, w, S))[S]
  BY DEF Sum, Sums, Pick, MapThenSumSet, MapThenFoldSet
<1> QED  BY <1>1, SumsExist

\* Any solution gives the sums of all subsets.
LEMMA SolutionGivesSums ==
  ASSUME NEW f, NEW v, NEW S, Sums(f, v, S), NEW w, NEW R, IsFiniteSet(R), R \subseteq S,
         \A x \in R : v[x] = w[x]
  PROVE  f[R] = Sum(w, R)
<1>1. PICK g : Sums(g, w, R) /\ Sum(w, R) = g[R]
  BY SumIsSolution
<1> QED  BY <1>1, SumsAgree

\* The sum over nothing is zero.
LEMMA SumOfNone == \A w : Sum(w, {}) = 0
<1> TAKE w
<1>1. PICK f : Sums(f, w, {}) /\ Sum(w, {}) = f[{}]
  BY SumIsSolution, FS_EmptySet
<1> QED  BY <1>1, SumsAt

\* Equal numbers have equal sums.
LEMMA SumOfEquals ==
  ASSUME NEW v, NEW w, NEW S, IsFiniteSet(S), \A x \in S : v[x] = w[x]
  PROVE  Sum(v, S) = Sum(w, S)
<1>1. PICK f : Sums(f, v, S) /\ Sum(v, S) = f[S]
  BY SumIsSolution
<1> QED  BY <1>1, SolutionGivesSums

\* The first element taken, and the rest.
LEMMA SumTakesFirst ==
  ASSUME NEW w, NEW S, IsFiniteSet(S), S # {}
  PROVE  /\ Pick(S) \in S /\ IsFiniteSet(S \ {Pick(S)})
         /\ Sum(w, S) = w[Pick(S)] + Sum(w, S \ {Pick(S)})
<1> DEFINE rest == S \ {Pick(S)}
<1>1. PICK f : Sums(f, w, S) /\ Sum(w, S) = f[S]
  BY SumIsSolution
<1>2. Pick(S) \in S /\ f[S] = w[Pick(S)] + f[rest]
  <2>1. \A s : s \subseteq S /\ s # {} =>
          Pick(s) \in s /\ f[s] = w[Pick(s)] + f[s \ {Pick(s)}]
    BY <1>1, SumsAt
  <2>2. S \subseteq S
    OBVIOUS
  <2> QED  BY <2>1, <2>2
<1>3. IsFiniteSet(rest)
  BY FS_Subset
<1>4. f[rest] = Sum(w, rest)
  <2>1. rest \subseteq S
    OBVIOUS
  <2> HIDE DEF rest
  <2> QED  BY <1>1, <1>3, <2>1, SolutionGivesSums
<1> QED  BY <1>1, <1>2, <1>3, <1>4

\* A sum of natural numbers is one.
LEMMA SumIsNat ==
  ASSUME NEW w, NEW S, IsFiniteSet(S), \A x \in S : w[x] \in Nat
  PROVE  Sum(w, S) \in Nat
<1> DEFINE wrong == {s \in SUBSET S : Sum(w, s) \notin Nat}
<1> SUFFICES ASSUME wrong # {} PROVE FALSE
  OBVIOUS
<1>1. PICK s \in wrong : \A y \in wrong : y \subseteq s => y = s
  <2>1. wrong \subseteq SUBSET S
    OBVIOUS
  <2> HIDE DEF wrong
  <2> QED  BY <2>1, SmallestSubset
<1>2. s # {} /\ s \subseteq S
  <2>1. Sum(w, {}) \in Nat
    BY SumOfNone
  <2> QED  BY <1>1, <2>1
<1>3. IsFiniteSet(s)
  BY <1>2, FS_Subset
<1>4. Pick(s) \in s /\ Sum(w, s) = w[Pick(s)] + Sum(w, s \ {Pick(s)})
  BY <1>2, <1>3, SumTakesFirst
<1>5. Sum(w, s \ {Pick(s)}) \in Nat
  BY <1>1, <1>2, <1>4
<1> QED  BY <1>1, <1>2, <1>4, <1>5

\* Any element may be taken first.
LEMMA SumTakesAny ==
  ASSUME NEW w, NEW S, IsFiniteSet(S), \A x \in S : w[x] \in Nat, NEW a \in S
  PROVE  Sum(w, S) = w[a] + Sum(w, S \ {a})
<1> DEFINE wrong == {s \in SUBSET S : \E x \in s : Sum(w, s) # w[x] + Sum(w, s \ {x})}
<1> SUFFICES ASSUME wrong # {} PROVE FALSE
  OBVIOUS
<1>1. PICK s \in wrong : \A y \in wrong : y \subseteq s => y = s
  <2>1. wrong \subseteq SUBSET S
    OBVIOUS
  <2> HIDE DEF wrong
  <2> QED  BY <2>1, SmallestSubset
<1>2. PICK x \in s : Sum(w, s) # w[x] + Sum(w, s \ {x})
  BY <1>1
<1> DEFINE p == Pick(s)
           both == s \ {p, x}
<1>3. s \subseteq S /\ IsFiniteSet(s) /\ IsFiniteSet(s \ {p}) /\ IsFiniteSet(s \ {x}) /\ IsFiniteSet(both)
  <2>1. s \subseteq S
    OBVIOUS
  <2> QED  BY <2>1, FS_Subset
<1>4. p \in s /\ Sum(w, s) = w[p] + Sum(w, s \ {p})
  BY <1>2, <1>3, SumTakesFirst
<1>5. x # p
  BY <1>2, <1>4
<1> HIDE DEF p
<1>6. Sum(w, s \ {p}) = w[x] + Sum(w, both)
  <2>1. s \ {p} \in SUBSET S /\ s \ {p} \notin wrong /\ x \in s \ {p}
    BY <1>1, <1>3, <1>4, <1>5
  <2>2. (s \ {p}) \ {x} = both
    OBVIOUS
  <2> QED  BY <2>1, <2>2
<1>7. Sum(w, s \ {x}) = w[p] + Sum(w, both)
  <2>1. s \ {x} \in SUBSET S /\ s \ {x} \notin wrong /\ p \in s \ {x}
    BY <1>1, <1>3, <1>4, <1>5
  <2>2. (s \ {x}) \ {p} = both
    OBVIOUS
  <2> QED  BY <2>1, <2>2
<1>8. w[x] \in Nat /\ w[p] \in Nat /\ Sum(w, both) \in Nat
  <2>1. both \subseteq S
    BY <1>3
  <2>2. Sum(w, both) \in Nat
    <3> HIDE DEF both
    <3> QED  BY <1>3, <2>1, SumIsNat
  <2> QED  BY <1>3, <1>4, <2>2
<1> HIDE DEF both
<1> QED  BY <1>2, <1>4, <1>6, <1>7, <1>8

\* One more element.
LEMMA SumAdds ==
  ASSUME NEW w, NEW S, IsFiniteSet(S), NEW a, a \notin S, \A x \in S \cup {a} : w[x] \in Nat
  PROVE  Sum(w, S \cup {a}) = w[a] + Sum(w, S)
<1>1. IsFiniteSet(S \cup {a})
  BY FS_AddElement
<1>2. (S \cup {a}) \ {a} = S
  OBVIOUS
<1>3. Sum(w, S \cup {a}) = w[a] + Sum(w, (S \cup {a}) \ {a})
  <2> DEFINE more == S \cup {a}
  <2>1. a \in more /\ IsFiniteSet(more) /\ \A x \in more : w[x] \in Nat
    BY <1>1
  <2> HIDE DEF more
  <2>2. Sum(w, more) = w[a] + Sum(w, more \ {a})
    BY <2>1, SumTakesAny
  <2> QED  BY <2>2 DEF more
<1> QED  BY <1>2, <1>3

\* The sum over a union of disjoint sets is the sum of both.
LEMMA SumOfUnion ==
  ASSUME NEW w, NEW S, IsFiniteSet(S), NEW T, IsFiniteSet(T), S \cap T = {},
         \A x \in S \cup T : w[x] \in Nat
  PROVE  Sum(w, S \cup T) = Sum(w, S) + Sum(w, T)
<1> DEFINE wrong == {s \in SUBSET S : Sum(w, s \cup T) # Sum(w, s) + Sum(w, T)}
<1> SUFFICES ASSUME wrong # {} PROVE FALSE
  OBVIOUS
<1>1. PICK s \in wrong : \A y \in wrong : y \subseteq s => y = s
  <2>1. wrong \subseteq SUBSET S
    OBVIOUS
  <2> HIDE DEF wrong
  <2> QED  BY <2>1, SmallestSubset
<1>2. Sum(w, T) \in Nat
  BY SumIsNat
<1>3. s # {}
  <2>1. Sum(w, {}) = 0 /\ {} \cup T = T
    BY SumOfNone
  <2>2. Sum(w, {} \cup T) = Sum(w, {}) + Sum(w, T)
    BY <1>2, <2>1
  <2> QED  BY <1>1, <2>2
<1> DEFINE p == Pick(s)
           r == s \ {p}
<1>4. p \in s
  BY <1>3, PickInSet
<1> HIDE DEF p
<1>5. /\ s = r \cup {p} /\ s \cup T = (r \cup T) \cup {p}
      /\ p \notin r /\ p \notin r \cup T /\ r \subseteq S
  BY <1>1, <1>4
<1>6. IsFiniteSet(r) /\ IsFiniteSet(r \cup T)
  <2>1. IsFiniteSet(r)
    BY <1>5, FS_Subset
  <2> QED  BY <2>1, FS_Union
<1>7. w[p] \in Nat /\ (\A x \in r \cup {p} : w[x] \in Nat) /\ \A x \in (r \cup T) \cup {p} : w[x] \in Nat
  BY <1>1, <1>4
<1>8. Sum(w, r \cup T) = Sum(w, r) + Sum(w, T)
  BY <1>1, <1>4, <1>5
<1> HIDE DEF r
<1>9. Sum(w, s) = w[p] + Sum(w, r) /\ Sum(w, s \cup T) = w[p] + Sum(w, r \cup T)
  <2>1. Sum(w, s) = w[p] + Sum(w, r)
    BY <1>5, <1>6, <1>7, SumAdds
  <2> DEFINE u == r \cup T
  <2>2. IsFiniteSet(u) /\ p \notin u /\ (\A x \in u \cup {p} : w[x] \in Nat) /\ s \cup T = u \cup {p}
    BY <1>5, <1>6, <1>7
  <2> HIDE DEF u
  <2>3. Sum(w, s \cup T) = w[p] + Sum(w, u)
    BY <2>2, SumAdds
  <2> QED  BY <2>1, <2>3 DEF u
<1>10. Sum(w, r) \in Nat
  BY <1>6, <1>7, SumIsNat
<1> QED  BY <1>1, <1>2, <1>7, <1>8, <1>9, <1>10

\* What holds of no element, and of a set when it holds of the set less one of
\* its elements, holds of a finite set.
LEMMA ByElements ==
  ASSUME NEW S, IsFiniteSet(S), NEW good, {} \in good,
         \A s \in SUBSET S : \A a \in s : s \ {a} \in good => s \in good
  PROVE  S \in good
<1> DEFINE wrong == {s \in SUBSET S : s \notin good}
<1> SUFFICES ASSUME wrong # {} PROVE FALSE
  OBVIOUS
<1>1. PICK s \in wrong : \A y \in wrong : y \subseteq s => y = s
  <2>1. wrong \subseteq SUBSET S
    OBVIOUS
  <2> HIDE DEF wrong
  <2> QED  BY <2>1, SmallestSubset
<1>2. PICK a \in s : TRUE
  BY <1>1
<1>3. s \ {a} \notin wrong
  BY <1>1, <1>2
<1> QED  BY <1>1, <1>2, <1>3

\* A set has as many elements as ones are added for them.
LEMMA SumOfOnes ==
  ASSUME NEW w, NEW S, IsFiniteSet(S), \A x \in S : w[x] = 1
  PROVE  Sum(w, S) = Cardinality(S)
<1> DEFINE good == {s \in SUBSET S : Sum(w, s) = Cardinality(s)}
<1>1. {} \in good
  BY SumOfNone, FS_EmptySet
<1>2. ASSUME NEW s \in SUBSET S, NEW a \in s, s \ {a} \in good PROVE s \in good
  <2>1. IsFiniteSet(s) /\ \A x \in s : w[x] \in Nat
    BY FS_Subset
  <2>2. Sum(w, s) = 1 + Sum(w, s \ {a})
    BY <2>1, SumTakesAny
  <2>3. Cardinality(s \ {a}) = Cardinality(s) - 1 /\ Cardinality(s) \in Nat
    BY <2>1, FS_RemoveElement, FS_CardinalityType
  <2> QED  BY <1>2, <2>2, <2>3
<1>3. S \in good
  <2> HIDE DEF good
  <2> QED  BY <1>1, <1>2, ByElements
<1> QED  BY <1>3

\* A sum may be added up part by part.
LEMMA SumOfParts ==
  ASSUME NEW w, NEW S, IsFiniteSet(S), \A x \in S : w[x] \in Nat,
         NEW C, IsFiniteSet(C), NEW part,
         \A c \in C : part[c] \subseteq S,
         \A x \in S : \E c \in C : x \in part[c],
         \A c, d \in C : c # d => part[c] \cap part[d] = {},
         NEW v, \A c \in C : v[c] = Sum(w, part[c])
  PROVE  Sum(v, C) = Sum(w, S)
<1> DEFINE In(D) == {x \in S : \E c \in D : x \in part[c]}
           good == {D \in SUBSET C : Sum(v, D) = Sum(w, In(D))}
<1>1. {} \in good
  <2>1. In({}) = {}
    OBVIOUS
  <2> QED  BY <2>1, SumOfNone
<1>2. \A c \in C : IsFiniteSet(part[c]) /\ v[c] \in Nat
  <2> TAKE c \in C
  <2>1. IsFiniteSet(part[c]) /\ \A x \in part[c] : w[x] \in Nat
    BY FS_Subset
  <2> QED  BY <2>1, SumIsNat
<1>3. ASSUME NEW D \in SUBSET C, NEW a \in D, D \ {a} \in good PROVE D \in good
  <2> DEFINE rest == In(D \ {a})
  <2>1. IsFiniteSet(D) /\ \A c \in D : v[c] \in Nat
    BY <1>2, FS_Subset
  <2>2. Sum(v, D) = v[a] + Sum(v, D \ {a})
    BY <2>1, SumTakesAny
  <2>3. part[a] \subseteq S /\ rest \subseteq S
    OBVIOUS
  <2>4. In(D) = part[a] \cup rest
    BY <2>3
  <2>5. part[a] \cap rest = {}
    OBVIOUS
  <2>6. IsFiniteSet(part[a]) /\ IsFiniteSet(rest) /\ \A x \in part[a] \cup rest : w[x] \in Nat
    BY <1>2, <2>3, FS_Subset
  <2>7. Sum(v, D \ {a}) = Sum(w, rest) /\ v[a] = Sum(w, part[a])
    BY <1>3
  <2> HIDE DEF rest
  <2>8. Sum(w, part[a] \cup rest) = Sum(w, part[a]) + Sum(w, rest)
    BY <2>5, <2>6, SumOfUnion
  <2>9. Sum(v, D) = Sum(w, In(D))
    <3> HIDE DEF In
    <3> QED  BY <2>2, <2>4, <2>7, <2>8
  <2> QED  BY <2>9
<1>4. C \in good
  <2> HIDE DEF good
  <2> QED  BY <1>1, <1>3, ByElements
<1>5. In(C) = S
  OBVIOUS
<1> QED  BY <1>4, <1>5

\* Sets whose elements correspond one to one have as many.
LEMMA SameCardinality ==
  ASSUME NEW S, IsFiniteSet(S), NEW f, \A x, y \in S : f[x] = f[y] => x = y
  PROVE  IsFiniteSet({f[x] : x \in S}) /\ Cardinality({f[x] : x \in S}) = Cardinality(S)
<1> DEFINE T == {f[x] : x \in S}
           g == [x \in S |-> f[x]]
<1>1. g \in Surjection(S, T) /\ g \in Injection(S, T)
  BY DEF Surjection, Injection, IsInjective
<1>2. IsFiniteSet(T) /\ Cardinality(T) = Cardinality(S)
  <2> HIDE DEF g, T
  <2> QED  BY <1>1, FS_Surjection
<1> QED  BY <1>2
=============================================================================

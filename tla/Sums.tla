-------------------------------- MODULE Sums --------------------------------
(***************************************************************************)
(* Facts about the sum of a function's values over a finite set, as the    *)
(* community modules define it (Functions.tla, SumFunctionOnSet): the      *)
(* money in a set of wallets, the units in a set of accounts.  The         *)
(* definition is a recursive function on the subsets; induction over them  *)
(* is stated of sets of numbers and of subsets, never of an operator.      *)
(***************************************************************************)
EXTENDS Integers, FiniteSets, Functions, FiniteSetTheorems, WellFoundedInduction, TLAPS

\* The element a sum takes first.
Chosen(s) == CHOOSE x \in s : TRUE

\* What the total of a set is, given the totals g of the smaller sets.
TotalOf(f, g, s) == IF s = {} THEN 0 ELSE f[Chosen(s)] + g[s \ {Chosen(s)}]

\* g gives the total of f over each subset of S.
AreTotals(f, g, S) ==
  g \in [SUBSET S -> Int] /\ \A s \in SUBSET S : g[s] = TotalOf(f, g, s)

\* A set of naturals that is not empty has a least element.
LEMMA NatWF ==
  ASSUME NEW T \in SUBSET Nat, T # {}
  PROVE  \E n \in T : \A m \in T : n <= m
<1> DEFINE R == OpToRel(<, Nat)
<1>1. IsWellFoundedOn(R, Nat)
  BY NatLessThanWellFounded
<1>2. \A x, y \in Nat : x < y => <<x, y>> \in R
  BY DEF OpToRel
<1> HIDE DEF R
<1>3. PICK x \in T : \A y \in T : ~ (<<y, x>> \in R)
  BY <1>1, WFMin
<1>4. ASSUME NEW m \in T
      PROVE  x <= m
  <2>1. ~ (m < x)
    BY <1>2, <1>3
  <2> QED BY <2>1
<1> QED BY <1>4

\* Induction, as a fact about a set of naturals, so that nothing takes
\* an operator as a parameter.
LEMMA SetInduction ==
  ASSUME NEW T \in SUBSET Nat, 0 \in T, \A n \in T : n + 1 \in T
  PROVE  T = Nat
<1> SUFFICES ASSUME Nat \ T # {}
             PROVE  FALSE
  OBVIOUS
<1>1. PICK n \in Nat \ T : \A m \in Nat \ T : n <= m
  BY NatWF
<1>2. n # 0 /\ n - 1 \in Nat
  BY <1>1
<1>3. n - 1 \in T
  BY <1>1, <1>2
<1> QED BY <1>1, <1>3

\* Induction on the subsets of a finite set, as a fact about a set of
\* them.
LEMMA SubsetInduction ==
  ASSUME NEW S, IsFiniteSet(S), NEW Q,
         {} \in Q,
         \A s \in SUBSET S : \A x \in s : s \ {x} \in Q /\ (\A y \in s : s \ {y} \in Q) => s \in Q
  PROVE  SUBSET S \subseteq Q
<1> DEFINE T == {n \in Nat : \A s \in SUBSET S : Cardinality(s) = n => s \in Q}
<1>1. \A s \in SUBSET S : IsFiniteSet(s) /\ Cardinality(s) \in Nat
  BY FS_Subset, FS_CardinalityType
<1>2. 0 \in T
  BY <1>1, FS_EmptySet
<1>3. ASSUME NEW n \in T
      PROVE  n + 1 \in T
  <2> SUFFICES ASSUME NEW s \in SUBSET S, Cardinality(s) = n + 1
               PROVE  s \in Q
    OBVIOUS
  <2>1. \A x \in s : s \ {x} \in Q
    <3> SUFFICES ASSUME NEW x \in s PROVE s \ {x} \in Q
      OBVIOUS
    <3>1. Cardinality(s \ {x}) = n
      BY <1>1, FS_RemoveElement
    <3> QED BY <3>1
  <2>2. s # {}
    <3>1. Cardinality(s) # 0
      OBVIOUS
    <3> QED BY <3>1, FS_EmptySet
  <2> QED BY <2>1, <2>2
<1>4. T = Nat
  <2> HIDE DEF T
  <2>1. T \in SUBSET Nat BY DEF T
  <2> QED BY <1>2, <1>3, <2>1, SetInduction
<1> QED BY <1>1, <1>4

\* The element taken first is there.
LEMMA ChosenIn ==
  ASSUME NEW s, s # {}
  PROVE  Chosen(s) \in s
BY DEF Chosen

\* The recursion that defines a sum has a solution.
LEMMA TotalsExist ==
  ASSUME NEW S, IsFiniteSet(S), NEW f, \A x \in S : f[x] \in Int
  PROVE  \E g : AreTotals(f, g, S)
<1> DEFINE Good(g, n) == \A s \in SUBSET S : Cardinality(s) <= n => g[s] = TotalOf(f, g, s)
<1> DEFINE T == {n \in Nat : \E g \in [SUBSET S -> Int] : Good(g, n)}
<1>1. \A s \in SUBSET S : IsFiniteSet(s) /\ Cardinality(s) \in Nat
  BY FS_Subset, FS_CardinalityType
<1>0. \A g \in [SUBSET S -> Int] : \A s \in SUBSET S : TotalOf(f, g, s) \in Int
  BY ChosenIn DEF TotalOf
<1>2. 0 \in T
  <2> DEFINE g == [s \in SUBSET S |-> 0]
  <2>1. \A s \in SUBSET S : Cardinality(s) <= 0 => s = {}
    BY <1>1, FS_EmptySet
  <2>2. g \in [SUBSET S -> Int] /\ Good(g, 0)
    BY <2>1 DEF TotalOf
  <2> HIDE DEF g, Good
  <2> QED BY <2>2
<1>3. ASSUME NEW n \in T
      PROVE  n + 1 \in T
  <2>1. PICK g \in [SUBSET S -> Int] : Good(g, n)
    OBVIOUS
  <2> DEFINE h == [s \in SUBSET S |-> TotalOf(f, g, s)]
  <2>2. h \in [SUBSET S -> Int]
    BY <1>0
  <2>3. ASSUME NEW s \in SUBSET S, Cardinality(s) <= n + 1
        PROVE  h[s] = TotalOf(f, h, s)
    <3>1. CASE s = {}
      BY <3>1 DEF TotalOf
    <3>2. CASE s # {}
      <4>1. Chosen(s) \in s
        BY <3>2, ChosenIn
      <4>2. Cardinality(s \ {Chosen(s)}) <= n
        BY <4>1, <1>1, <2>3, FS_RemoveElement
      <4>3. h[s \ {Chosen(s)}] = g[s \ {Chosen(s)}]
        BY <2>1, <4>2
      <4> QED BY <3>2, <4>3 DEF TotalOf
    <3> QED BY <3>1, <3>2
  <2>4. Good(h, n + 1)
    BY <2>3
  <2>5. n + 1 \in Nat
    OBVIOUS
  <2> HIDE DEF h, Good
  <2> QED BY <2>2, <2>4, <2>5
<1>4. Cardinality(S) \in T
  <2> HIDE DEF T
  <2>1. T = Nat
    <3>1. T \in SUBSET Nat BY DEF T
    <3> QED BY <1>2, <1>3, <3>1, SetInduction
  <2> QED BY <2>1, FS_CardinalityType
<1>5. PICK g \in [SUBSET S -> Int] : Good(g, Cardinality(S))
  BY <1>4
<1>6. \A s \in SUBSET S : Cardinality(s) <= Cardinality(S)
  BY FS_Subset
<1> QED BY <1>5, <1>6 DEF AreTotals

\* The sum of the community modules is the one the recursion's solution
\* gives.
LEMMA Unfold ==
  ASSUME NEW S, IsFiniteSet(S), NEW f, \A x \in S : f[x] \in Int
  PROVE  \E g : /\ g = [s \in SUBSET S |-> TotalOf(f, g, s)]
                /\ SumFunctionOnSet(f, S) = g[S]
<1> DEFINE it == CHOOSE g : g = [s \in SUBSET S |->
                   IF s = {} THEN 0
                   ELSE f[CHOOSE x \in s : TRUE] + g[s \ {CHOOSE x \in s : TRUE}]]
<1>1. SumFunctionOnSet(f, S) = it[S]
  BY DEF SumFunctionOnSet, FoldFunctionOnSet, MapThenFoldSet
<1>2. PICK h : AreTotals(f, h, S)
  BY TotalsExist
<1>3. h = [s \in SUBSET S |-> TotalOf(f, h, s)]
  BY <1>2 DEF AreTotals
<1>4. it = [s \in SUBSET S |-> TotalOf(f, it, s)]
  BY <1>3 DEF TotalOf, Chosen
<1> QED BY <1>1, <1>4

\* Two solutions agree where the values summed do.
LEMMA TotalsAgree ==
  ASSUME NEW S, IsFiniteSet(S), NEW f1, NEW f2, NEW g1, NEW g2,
         \A x \in S : f1[x] = f2[x],
         \A s \in SUBSET S : g1[s] = TotalOf(f1, g1, s) /\ g2[s] = TotalOf(f2, g2, s)
  PROVE  g1[S] = g2[S]
<1> DEFINE Q == {s \in SUBSET S : g1[s] = g2[s]}
<1>1. {} \in Q
  BY DEF TotalOf
<1>2. ASSUME NEW s \in SUBSET S, NEW x \in s, \A y \in s : s \ {y} \in Q
      PROVE  s \in Q
  <2>1. Chosen(s) \in s /\ s # {}
    BY <1>2, ChosenIn
  <2>2. g1[s \ {Chosen(s)}] = g2[s \ {Chosen(s)}]
    BY <1>2, <2>1
  <2> QED BY <2>1, <2>2 DEF TotalOf
<1>3. SUBSET S \subseteq Q
  <2> HIDE DEF Q
  <2> QED BY <1>1, <1>2, SubsetInduction
<1> QED BY <1>3

\* A solution on S gives the sum over each of its subsets.
LEMMA SumIsTotal ==
  ASSUME NEW S, IsFiniteSet(S), NEW f, \A x \in S : f[x] \in Int,
         NEW g, \A s \in SUBSET S : g[s] = TotalOf(f, g, s)
  PROVE  \A s \in SUBSET S : SumFunctionOnSet(f, s) = g[s] /\ g[s] \in Int
<1> SUFFICES ASSUME NEW s \in SUBSET S
             PROVE  SumFunctionOnSet(f, s) = g[s] /\ g[s] \in Int
  OBVIOUS
<1>1. IsFiniteSet(s)
  BY FS_Subset
<1>0. \A x \in s : f[x] \in Int
  OBVIOUS
<1>2. PICK h : /\ h = [t \in SUBSET s |-> TotalOf(f, h, t)]
               /\ SumFunctionOnSet(f, s) = h[s]
  BY <1>0, <1>1, Unfold
<1>3. PICK k : AreTotals(f, k, s)
  BY <1>0, <1>1, TotalsExist
<1>4. \A t \in SUBSET s : h[t] = TotalOf(f, h, t) /\ g[t] = TotalOf(f, g, t)
  BY <1>2
<1>5. g[s] = h[s]
  BY <1>1, <1>4, TotalsAgree
<1>6. g[s] = k[s]
  BY <1>1, <1>3, <1>4, TotalsAgree DEF AreTotals
<1> QED BY <1>2, <1>3, <1>5, <1>6 DEF AreTotals

\* A sum is an integer, and takes out its chosen element.
LEMMA SumByChosen ==
  ASSUME NEW S, IsFiniteSet(S), NEW f, \A x \in S : f[x] \in Int
  PROVE  /\ SumFunctionOnSet(f, S) \in Int
         /\ SumFunctionOnSet(f, S) =
              IF S = {} THEN 0
              ELSE f[Chosen(S)] + SumFunctionOnSet(f, S \ {Chosen(S)})
<1>1. PICK g : AreTotals(f, g, S)
  BY TotalsExist
<1>2. \A s \in SUBSET S : SumFunctionOnSet(f, s) = g[s] /\ g[s] \in Int
  BY <1>1, SumIsTotal DEF AreTotals
<1> QED BY <1>1, <1>2 DEF TotalOf, AreTotals

\* Nothing sums to 0.
LEMMA SumEmpty == ASSUME NEW f PROVE SumFunctionOnSet(f, {}) = 0
BY FS_EmptySet, SumByChosen

\* Any element may be taken out of a sum.
LEMMA SumRemove ==
  ASSUME NEW S, IsFiniteSet(S), NEW f, \A x \in S : f[x] \in Int, NEW x \in S
  PROVE  SumFunctionOnSet(f, S) = f[x] + SumFunctionOnSet(f, S \ {x})
<1> DEFINE Total(s) == SumFunctionOnSet(f, s)
           Q == {s \in SUBSET S : \A y \in s : Total(s) = f[y] + Total(s \ {y})}
<1>a. \A s \in SUBSET S : /\ Total(s) \in Int
                          /\ s # {} => Total(s) = f[Chosen(s)] + Total(s \ {Chosen(s)})
  BY SumByChosen, FS_Subset
<1> HIDE DEF Total
<1>1. {} \in Q
  OBVIOUS
<1>2. ASSUME NEW s \in SUBSET S, NEW z \in s, \A y \in s : s \ {y} \in Q
      PROVE  s \in Q
  <2> SUFFICES ASSUME NEW y \in s
               PROVE  Total(s) = f[y] + Total(s \ {y})
    OBVIOUS
  <2> DEFINE c == Chosen(s)
  <2>1. c \in s /\ Total(s) = f[c] + Total(s \ {c})
    BY <1>a, ChosenIn
  <2> HIDE DEF c
  <2>2. CASE c # y
    <3>1. Total(s \ {c}) = f[y] + Total((s \ {c}) \ {y})
      <4>1. y \in s \ {c} /\ s \ {c} \in Q
        BY <1>2, <2>1, <2>2
      <4> QED BY <4>1
    <3>2. Total(s \ {y}) = f[c] + Total((s \ {y}) \ {c})
      <4>1. c \in s \ {y} /\ s \ {y} \in Q
        BY <1>2, <2>1, <2>2
      <4> QED BY <4>1
    <3>3. (s \ {c}) \ {y} = (s \ {y}) \ {c}
      OBVIOUS
    <3> DEFINE rest == Total((s \ {y}) \ {c})
    <3>4. f[c] \in Int /\ f[y] \in Int /\ rest \in Int
      BY <1>a, <2>1
    <3>5. Total(s) = f[c] + (f[y] + rest) /\ Total(s \ {y}) = f[c] + rest
      BY <2>1, <3>1, <3>2, <3>3
    <3> HIDE DEF rest
    <3> QED BY <3>4, <3>5
  <2> QED BY <2>1, <2>2
<1>3. SUBSET S \subseteq Q
  <2> HIDE DEF Q
  <2> QED BY <1>1, <1>2, SubsetInduction
<1>4. S \in Q
  BY <1>3
<1> QED BY <1>4 DEF Total

\* The same values have the same sum.
LEMMA SumSame ==
  ASSUME NEW S, IsFiniteSet(S), NEW f, NEW g, \A x \in S : f[x] \in Int /\ f[x] = g[x]
  PROVE  SumFunctionOnSet(f, S) = SumFunctionOnSet(g, S)
<1>a. \A x \in S : f[x] \in Int
  OBVIOUS
<1>b. \A x \in S : g[x] \in Int
  OBVIOUS
<1>1. PICK F : AreTotals(f, F, S)
  BY <1>a, TotalsExist
<1>2. PICK G : AreTotals(g, G, S)
  BY <1>b, TotalsExist
<1>3. F[S] = G[S]
  BY <1>1, <1>2, TotalsAgree DEF AreTotals
<1>4. SumFunctionOnSet(f, S) = F[S]
  BY <1>a, <1>1, SumIsTotal DEF AreTotals
<1>5. SumFunctionOnSet(g, S) = G[S]
  BY <1>b, <1>2, SumIsTotal DEF AreTotals
<1> QED BY <1>3, <1>4, <1>5

\* A sum of sums is summed value by value.
LEMMA SumAdd ==
  ASSUME NEW S, IsFiniteSet(S), NEW f, NEW g, NEW h,
         \A x \in S : f[x] \in Int /\ g[x] \in Int /\ h[x] = f[x] + g[x]
  PROVE  SumFunctionOnSet(h, S) = SumFunctionOnSet(f, S) + SumFunctionOnSet(g, S)
<1> DEFINE F(s) == SumFunctionOnSet(f, s)
           G(s) == SumFunctionOnSet(g, s)
           H(s) == SumFunctionOnSet(h, s)
           Q == {s \in SUBSET S : H(s) = F(s) + G(s)}
<1>a. ASSUME NEW s \in SUBSET S, NEW x \in s
      PROVE  /\ F(s) = f[x] + F(s \ {x}) /\ F(s \ {x}) \in Int
             /\ G(s) = g[x] + G(s \ {x}) /\ G(s \ {x}) \in Int
             /\ H(s) = h[x] + H(s \ {x}) /\ H(s \ {x}) \in Int
  <2>1. IsFiniteSet(s) /\ IsFiniteSet(s \ {x})
    BY FS_Subset
  <2>2. \A y \in s : f[y] \in Int /\ g[y] \in Int /\ h[y] \in Int
    OBVIOUS
  <2>3. F(s) = f[x] + F(s \ {x}) /\ F(s \ {x}) \in Int
    BY <2>1, <2>2, SumRemove, SumByChosen
  <2>4. G(s) = g[x] + G(s \ {x}) /\ G(s \ {x}) \in Int
    BY <2>1, <2>2, SumRemove, SumByChosen
  <2>5. H(s) = h[x] + H(s \ {x}) /\ H(s \ {x}) \in Int
    BY <2>1, <2>2, SumRemove, SumByChosen
  <2> QED BY <2>3, <2>4, <2>5
<1>1. {} \in Q
  BY SumEmpty
<1> HIDE DEF F, G, H
<1>2. ASSUME NEW s \in SUBSET S, NEW x \in s, \A y \in s : s \ {y} \in Q
      PROVE  s \in Q
  <2>1. H(s \ {x}) = F(s \ {x}) + G(s \ {x})
    BY <1>2
  <2>2. f[x] \in Int /\ g[x] \in Int /\ h[x] = f[x] + g[x]
    OBVIOUS
  <2> QED BY <1>a, <2>1, <2>2
<1>3. SUBSET S \subseteq Q
  <2> HIDE DEF Q
  <2> QED BY <1>1, <1>2, SubsetInduction
<1>4. S \in Q
  BY <1>3
<1> QED BY <1>4 DEF F, G, H

\* What is 0 does not count.
LEMMA SumSupport ==
  ASSUME NEW S, IsFiniteSet(S), NEW f, \A x \in S : f[x] \in Int,
         NEW T \in SUBSET S, \A x \in S \ T : f[x] = 0
  PROVE  SumFunctionOnSet(f, S) = SumFunctionOnSet(f, T)
<1> DEFINE F(s) == SumFunctionOnSet(f, s)
           Q == {s \in SUBSET S : F(s) = F(s \cap T)}
<1>1. {} \in Q
  <2>1. {} \cap T = {} OBVIOUS
  <2> QED BY <2>1
<1>2. ASSUME NEW s \in SUBSET S, NEW x \in s, \A y \in s : s \ {y} \in Q
      PROVE  s \in Q
  <2>1. /\ IsFiniteSet(s) /\ IsFiniteSet(s \cap T)
        /\ \A y \in s : f[y] \in Int
    BY FS_Subset
  <2>2. F(s) = f[x] + F(s \ {x}) /\ F(s \ {x}) \in Int
    <3>1. IsFiniteSet(s \ {x}) /\ \A y \in s \ {x} : f[y] \in Int
      BY <2>1, FS_RemoveElement
    <3>2. F(s) = f[x] + F(s \ {x})
      BY <2>1, SumRemove
    <3>3. F(s \ {x}) \in Int
      BY <3>1, SumByChosen
    <3> QED BY <3>2, <3>3
  <2>3. F(s \ {x}) = F((s \ {x}) \cap T)
    BY <1>2
  <2>4. CASE x \in T
    <3>1. F(s \cap T) = f[x] + F((s \cap T) \ {x})
      BY <2>1, <2>4, SumRemove
    <3>2. (s \cap T) \ {x} = (s \ {x}) \cap T
      OBVIOUS
    <3> HIDE DEF F
    <3> QED BY <2>2, <2>3, <3>1, <3>2
  <2>5. CASE x \notin T
    <3>1. (s \ {x}) \cap T = s \cap T /\ f[x] = 0
      BY <2>5
    <3> HIDE DEF F
    <3>2. F(s) = F((s \ {x}) \cap T)
      BY <2>2, <2>3, <3>1
    <3> QED BY <3>1, <3>2
  <2> QED BY <2>4, <2>5
<1>3. SUBSET S \subseteq Q
  <2> HIDE DEF Q
  <2> QED BY <1>1, <1>2, SubsetInduction
<1>4. S \in Q /\ S \cap T = T
  BY <1>3
<1> QED BY <1>4

\* A sum changes by what its one changed value does.
LEMMA SumUpdate ==
  ASSUME NEW S, IsFiniteSet(S), NEW f, NEW g, \A x \in S : f[x] \in Int /\ g[x] \in Int,
         NEW x \in S, \A y \in S \ {x} : g[y] = f[y]
  PROVE  SumFunctionOnSet(g, S) = SumFunctionOnSet(f, S) - f[x] + g[x]
<1>1. IsFiniteSet(S \ {x})
  BY FS_RemoveElement
<1>2. SumFunctionOnSet(f, S \ {x}) = SumFunctionOnSet(g, S \ {x})
  BY <1>1, SumSame
<1>3. SumFunctionOnSet(f, S) = f[x] + SumFunctionOnSet(f, S \ {x})
  BY SumRemove
<1>4. SumFunctionOnSet(g, S) = g[x] + SumFunctionOnSet(g, S \ {x})
  BY SumRemove
<1>5. SumFunctionOnSet(f, S \ {x}) \in Int
  BY <1>1, SumByChosen
<1> QED BY <1>2, <1>3, <1>4, <1>5
\* What is summed splits in two.
LEMMA SumSplit ==
  ASSUME NEW S, IsFiniteSet(S), NEW f, \A x \in S : f[x] \in Int, NEW T \in SUBSET S
  PROVE  SumFunctionOnSet(f, S) = SumFunctionOnSet(f, T) + SumFunctionOnSet(f, S \ T)
<1> DEFINE g == [x \in S |-> IF x \in T THEN f[x] ELSE 0]
           h == [x \in S |-> IF x \in T THEN 0 ELSE f[x]]
<1>1. \A x \in S : g[x] \in Int /\ h[x] \in Int /\ f[x] = g[x] + h[x]
  OBVIOUS
<1>2. (\A x \in T : g[x] = f[x]) /\ (\A x \in S \ T : g[x] = 0)
  OBVIOUS
<1>3. (\A x \in S \ T : h[x] = f[x]) /\ (\A x \in S \ (S \ T) : h[x] = 0)
  OBVIOUS
<1> HIDE DEF g, h
<1>4. IsFiniteSet(T) /\ IsFiniteSet(S \ T)
  BY FS_Subset
<1>5. SumFunctionOnSet(f, S) = SumFunctionOnSet(g, S) + SumFunctionOnSet(h, S)
  BY <1>1, SumAdd
<1>6. SumFunctionOnSet(g, S) = SumFunctionOnSet(g, T)
  BY <1>1, <1>2, SumSupport
<1>7. S \ T \in SUBSET S
  OBVIOUS
<1>8. SumFunctionOnSet(h, S) = SumFunctionOnSet(h, S \ T)
  BY <1>1, <1>3, <1>7, SumSupport
<1>9. \A x \in T : g[x] \in Int /\ g[x] = f[x]
  BY <1>1, <1>2
<1>10. \A x \in S \ T : h[x] \in Int /\ h[x] = f[x]
  BY <1>1, <1>3
<1>11. SumFunctionOnSet(g, T) = SumFunctionOnSet(f, T)
  BY <1>4, <1>9, SumSame
<1>12. SumFunctionOnSet(h, S \ T) = SumFunctionOnSet(f, S \ T)
  BY <1>4, <1>10, SumSame
<1> QED BY <1>5, <1>6, <1>8, <1>11, <1>12

\* A sum of one value is that value.
LEMMA SumOne ==
  ASSUME NEW x, NEW f, f[x] \in Int
  PROVE  SumFunctionOnSet(f, {x}) = f[x]
<1>1. IsFiniteSet({x}) /\ x \in {x} /\ {x} \ {x} = {} /\ \A y \in {x} : f[y] \in Int
  BY FS_Singleton
<1>2. SumFunctionOnSet(f, {x}) = f[x] + SumFunctionOnSet(f, {x} \ {x})
  BY <1>1, SumRemove
<1> QED BY <1>1, <1>2, SumEmpty

\* A sum of naturals is a natural.
LEMMA SumNat ==
  ASSUME NEW S, IsFiniteSet(S), NEW f, \A x \in S : f[x] \in Nat
  PROVE  SumFunctionOnSet(f, S) \in Nat
<1> DEFINE F(s) == SumFunctionOnSet(f, s)
           Q == {s \in SUBSET S : F(s) \in Nat}
<1>1. {} \in Q
  BY SumEmpty
<1>2. ASSUME NEW s \in SUBSET S, NEW x \in s, \A y \in s : s \ {y} \in Q
      PROVE  s \in Q
  <2>1. IsFiniteSet(s) /\ \A y \in s : f[y] \in Int
    BY FS_Subset
  <2>2. F(s) = f[x] + F(s \ {x})
    BY <2>1, SumRemove
  <2> HIDE DEF F
  <2>3. F(s \ {x}) \in Nat /\ f[x] \in Nat
    BY <1>2
  <2> QED BY <2>2, <2>3
<1>3. SUBSET S \subseteq Q
  <2> HIDE DEF Q
  <2> QED BY <1>1, <1>2, SubsetInduction
<1>4. S \in Q
  BY <1>3
<1> QED BY <1>4

\* So many times each value is so many times the sum.
LEMMA SumTimes ==
  ASSUME NEW S, IsFiniteSet(S), NEW c \in Int, NEW f, NEW g,
         \A x \in S : f[x] \in Int /\ g[x] = c * f[x]
  PROVE  SumFunctionOnSet(g, S) = c * SumFunctionOnSet(f, S)
<1> DEFINE F(s) == SumFunctionOnSet(f, s)
           G(s) == SumFunctionOnSet(g, s)
           Q == {s \in SUBSET S : G(s) = c * F(s)}
<1>0. \A n \in Int : c * n \in Int
  OBVIOUS
<1>1. {} \in Q
  BY SumEmpty
<1>2. ASSUME NEW s \in SUBSET S, NEW x \in s, \A y \in s : s \ {y} \in Q
      PROVE  s \in Q
  <2>1. IsFiniteSet(s) /\ (\A y \in s : f[y] \in Int) /\ (\A y \in s : g[y] \in Int)
    BY <1>0, FS_Subset
  <2>2. F(s) = f[x] + F(s \ {x})
    BY <2>1, SumRemove
  <2>3. G(s) = g[x] + G(s \ {x})
    BY <2>1, SumRemove
  <2>4. IsFiniteSet(s \ {x}) /\ \A y \in s \ {x} : f[y] \in Int
    BY <2>1, FS_Subset
  <2>5. F(s \ {x}) \in Int
    BY <2>4, SumByChosen
  <2>6. G(s \ {x}) = c * F(s \ {x})
    BY <1>2
  <2>7. \A p, q \in Int : c * (p + q) = c * p + c * q
    OBVIOUS
  <2>8. f[x] \in Int /\ g[x] = c * f[x]
    OBVIOUS
  <2> HIDE DEF F, G
  <2> QED BY <2>2, <2>3, <2>5, <2>6, <2>7, <2>8
<1>3. SUBSET S \subseteq Q
  <2> HIDE DEF Q
  <2> QED BY <1>1, <1>2, SubsetInduction
<1>4. S \in Q
  BY <1>3
<1> QED BY <1>4

\* The sum over each group of S: k says which group is whose.
GroupSums(f, S, k, A) == [a \in A |-> SumFunctionOnSet(f, {x \in S : k[x] = a})]

\* A sum may be taken group by group.
LEMMA SumByGroup ==
  ASSUME NEW S, IsFiniteSet(S), NEW A, IsFiniteSet(A), NEW k \in [S -> A],
         NEW f, \A x \in S : f[x] \in Int
  PROVE  SumFunctionOnSet(f, S) = SumFunctionOnSet(GroupSums(f, S, k, A), A)
<1> DEFINE group(s, a) == {x \in s : k[x] = a}
           by(s) == [a \in A |-> SumFunctionOnSet(f, group(s, a))]
           Q == {s \in SUBSET S : SumFunctionOnSet(f, s) = SumFunctionOnSet(by(s), A)}
<1>0. \A s \in SUBSET S : \A a \in A : by(s)[a] \in Int
  <2> SUFFICES ASSUME NEW s \in SUBSET S, NEW a \in A
               PROVE  SumFunctionOnSet(f, group(s, a)) \in Int
    OBVIOUS
  <2>1. IsFiniteSet(group(s, a)) /\ \A x \in group(s, a) : f[x] \in Int
    BY FS_Subset
  <2> QED BY <2>1, SumByChosen
<1>1. {} \in Q
  <2>1. \A a \in A : by({})[a] = 0
    <3> SUFFICES ASSUME NEW a \in A PROVE SumFunctionOnSet(f, group({}, a)) = 0
      OBVIOUS
    <3>1. group({}, a) = {}
      OBVIOUS
    <3> QED BY <3>1, SumEmpty
  <2>2. SumFunctionOnSet(by({}), A) = SumFunctionOnSet(by({}), {})
    <3> HIDE DEF by
    <3>1. (\A a \in A : by({})[a] \in Int) /\ (\A a \in A \ {} : by({})[a] = 0) /\ {} \in SUBSET A
      BY <2>1
    <3> QED BY <3>1, SumSupport
  <2>3. SumFunctionOnSet(by({}), {}) = 0 /\ SumFunctionOnSet(f, {}) = 0
    BY SumEmpty
  <2> QED BY <2>2, <2>3
<1>2. ASSUME NEW s \in SUBSET S, NEW x \in s, \A y \in s : s \ {y} \in Q
      PROVE  s \in Q
  <2> DEFINE r == s \ {x}
  <2>1. IsFiniteSet(s) /\ \A y \in s : f[y] \in Int
    BY FS_Subset
  <2>2. SumFunctionOnSet(f, s) = f[x] + SumFunctionOnSet(f, r)
    BY <2>1, SumRemove
  <2>3. \A a \in A \ {k[x]} : by(s)[a] = by(r)[a]
    <3> SUFFICES ASSUME NEW a \in A \ {k[x]} PROVE group(s, a) = group(r, a)
      OBVIOUS
    <3> QED OBVIOUS
  <2>4. by(s)[k[x]] = f[x] + by(r)[k[x]]
    <3>1. IsFiniteSet(group(s, k[x])) /\ (\A y \in group(s, k[x]) : f[y] \in Int)
          /\ x \in group(s, k[x])
      BY <2>1, FS_Subset
    <3>2. group(s, k[x]) \ {x} = group(r, k[x]) /\ k[x] \in A
      OBVIOUS
    <3>3. SumFunctionOnSet(f, group(s, k[x]))
            = f[x] + SumFunctionOnSet(f, group(s, k[x]) \ {x})
      <4> HIDE DEF group
      <4> QED BY <3>1, SumRemove
    <3> QED BY <3>2, <3>3
  <2>5. r \in SUBSET S /\ r \in Q /\ k[x] \in A
    BY <1>2
  <2>6. SumFunctionOnSet(f, r) = SumFunctionOnSet(by(r), A)
    BY <2>5
  <2>7. \A a \in A : by(r)[a] \in Int /\ by(s)[a] \in Int
    BY <1>0, <2>5
  <2>8. f[x] \in Int
    OBVIOUS
  <2>9. SumFunctionOnSet(by(r), A) \in Int
    <3> HIDE DEF by
    <3> QED BY <2>7, SumByChosen
  <2>10. SumFunctionOnSet(by(s), A) = SumFunctionOnSet(by(r), A) - by(r)[k[x]] + by(s)[k[x]]
    <3> HIDE DEF by, r
    <3> QED BY <2>3, <2>5, <2>7, SumUpdate
  <2>11. by(r)[k[x]] \in Int
    BY <2>5, <2>7
  <2>12. SumFunctionOnSet(f, s) = SumFunctionOnSet(by(s), A)
    <3> HIDE DEF by, r
    <3> QED BY <2>2, <2>4, <2>6, <2>8, <2>9, <2>10, <2>11
  <2> QED BY <2>12
<1>3. SUBSET S \subseteq Q
  <2> HIDE DEF Q
  <2> QED BY <1>1, <1>2, SubsetInduction
<1>4. S \in Q
  BY <1>3
<1> QED BY <1>4 DEF GroupSums

\* The sum of a function defined on part of a set.
LEMMA SumOfPart ==
  ASSUME NEW S, IsFiniteSet(S), NEW T \in SUBSET S, NEW f, \A x \in S : f[x] \in Int,
         NEW g, DOMAIN g = T, \A x \in T : g[x] = f[x]
  PROVE  SumFunction(g) = SumFunctionOnSet(f, T)
<1>1. SumFunction(g) = SumFunctionOnSet(g, T)
  BY DEF SumFunction, SumFunctionOnSet
<1>2. IsFiniteSet(T) /\ \A x \in T : f[x] \in Int /\ f[x] = g[x]
  BY FS_Subset
<1>3. SumFunctionOnSet(f, T) = SumFunctionOnSet(g, T)
  BY <1>2, SumSame
<1> QED BY <1>1, <1>3

\* A product of naturals is one.
LEMMA NatTimes ==
  ASSUME NEW a \in Nat, NEW b \in Nat
  PROVE  a * b \in Nat
OBVIOUS
=============================================================================

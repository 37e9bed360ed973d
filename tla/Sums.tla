---------------------------------- MODULE Sums ----------------------------------
(***************************************************************************)
(* Induction over finite sets and naturals, in a form without operator     *)
(* parameters (the set of what satisfies the hypothesis is the parameter), *)
(* and what follows by it for the sums and extrema of FiniteSetsExt and    *)
(* for Ranks; and the division of naturals.                                *)
(***************************************************************************)
EXTENDS Integers, Ranks, FiniteSetsExt, FiniteSetTheorems, WellFoundedInduction, TLAPS

(* The sum of f over S, as the modules write it with MapThenSumSet.        *)
SumOver(f, S) == MapThenSumSet(LAMBDA x : f[x], S)

--------------------------------------------------------------------------------
(* Induction.                                                              *)

\* A set of naturals that has a member has a least one.
LEMMA LeastNatural ==
    ASSUME NEW T \in SUBSET Nat, T # {}
    PROVE  \E n \in T : \A m \in T : n <= m
<1>1. PICK n \in T : \A m \in T : ~ <<m, n>> \in OpToRel(<, Nat)
  BY NatLessThanWellFounded, WFMin
<1>2. \A m \in T : ~ m < n
  BY <1>1 DEF OpToRel
<1> QED BY <1>2

\* A set of finite sets that has a member has a smallest one.
LEMMA SmallestSet ==
    ASSUME NEW F, F # {}, \A T \in F : IsFiniteSet(T)
    PROVE  \E T \in F : \A U \in F : Cardinality(T) <= Cardinality(U)
<1> DEFINE N == {Cardinality(T) : T \in F}
<1>1. N \in SUBSET Nat /\ N # {}
  BY FS_CardinalityType
<1>2. PICK n \in N : \A m \in N : n <= m
  BY <1>1, LeastNatural
<1> QED BY <1>2

\* What holds of the empty set and of a set with one more element holds of a finite set.
LEMMA FiniteInduction ==
    ASSUME NEW S, IsFiniteSet(S), NEW Good \in SUBSET SUBSET S, {} \in Good,
           \A T \in Good : \A x \in S \ T : T \cup {x} \in Good
    PROVE  S \in Good
<1> DEFINE F == {S \ T : T \in Good}
<1>1. F # {} /\ \A U \in F : IsFiniteSet(U)
  <2>1. \A T : IsFiniteSet(S \ T)
    BY FS_Difference
  <2>2. S \ {} \in F
    OBVIOUS
  <2>3. ASSUME NEW U \in F PROVE IsFiniteSet(U)
    <3>1. PICK T \in Good : U = S \ T
      OBVIOUS
    <3> QED BY <2>1, <3>1
  <2> QED BY <2>2, <2>3
<1>2. PICK R \in F : \A U \in F : Cardinality(R) <= Cardinality(U)
  BY <1>1, SmallestSet, Zenon
<1>3. PICK T \in Good : R = S \ T
  OBVIOUS
<1>4. ASSUME NEW x \in S \ T PROVE FALSE
  <2>1. S \ (T \cup {x}) \in F
    OBVIOUS
  <2>2. S \ (T \cup {x}) = R \ {x} /\ x \in R
    BY <1>3
  <2>3. Cardinality(R \ {x}) = Cardinality(R) - 1 /\ Cardinality(R) \in Nat
    BY <1>1, <2>2, FS_RemoveElement, FS_CardinalityType
  <2> QED BY <1>2, <2>1, <2>2, <2>3
<1> QED BY <1>3, <1>4

\* Induction over the naturals.
LEMMA NaturalInduction ==
    ASSUME NEW T \in SUBSET Nat, 0 \in T, \A n \in T : n + 1 \in T
    PROVE  T = Nat
<1>1. SUFFICES ASSUME Nat \ T # {} PROVE FALSE
  OBVIOUS
<1>2. PICK n \in Nat \ T : \A m \in Nat \ T : n <= m
  BY <1>1, LeastNatural
<1>3. n # 0 /\ n - 1 \in Nat
  BY <1>2
<1>4. n - 1 \in T
  BY <1>2, <1>3
<1> QED BY <1>2, <1>3, <1>4

--------------------------------------------------------------------------------
(* Extrema.                                                                *)

\* A finite set of naturals with a member has a greatest and a least one.
LEMMA FiniteHasGreatest ==
    ASSUME NEW S \in SUBSET Nat, IsFiniteSet(S), S # {}
    PROVE  \E x \in S : \A y \in S : x >= y
<1> DEFINE Good == {T \in SUBSET S : T = {} \/ \E x \in T : \A y \in T : x >= y}
<1>1. ASSUME NEW T \in Good, NEW x \in S \ T PROVE T \cup {x} \in Good
  <2>1. CASE T = {}
    BY <2>1
  <2>2. CASE T # {}
    <3>1. PICK m \in T : \A y \in T : m >= y
      BY <2>2
    <3>2. CASE x >= m
      BY <3>1, <3>2
    <3>3. CASE ~ x >= m
      BY <3>1, <3>3
    <3> QED BY <3>2, <3>3
  <2> QED BY <2>1, <2>2
<1>2. S \in Good
  BY <1>1, FiniteInduction, Zenon
<1> QED BY <1>2

\* Max and Min of a set of naturals.
LEMMA MaxIsGreatest ==
    ASSUME NEW S \in SUBSET Nat, IsFiniteSet(S), S # {}
    PROVE  Max(S) \in S /\ \A y \in S : y <= Max(S)
  BY FiniteHasGreatest DEF Max

\* For Min the set may be infinite.
LEMMA MinIsLeast ==
    ASSUME NEW S \in SUBSET Nat, S # {}
    PROVE  Min(S) \in S /\ \A y \in S : Min(S) <= y
  BY LeastNatural DEF Min


--------------------------------------------------------------------------------
(* Division.                                                               *)

\* Division with remainder, as the provers know it.
LEMMA DivMod ==
    ASSUME NEW a \in Nat, NEW d \in Nat \ {0}
    PROVE  /\ a % d \in 0..(d - 1)
           /\ a \div d \in Nat
           /\ a = d * (a \div d) + (a % d)
  OBVIOUS

\* Division by a positive number keeps the order.
LEMMA DivMonotone ==
    ASSUME NEW a \in Nat, NEW b \in Nat, NEW d \in Nat \ {0}, a <= b
    PROVE  a \div d <= b \div d
<1>1. ASSUME b \div d < a \div d PROVE FALSE
  <2> DEFINE p == a \div d
             q == b \div d
  <2>1. p \in Nat /\ q \in Nat /\ q + 1 <= p BY <1>1, DivMod
  <2>2. a >= d * p  BY DivMod
  <2>3. b < d * q + d BY DivMod
  <2> HIDE DEF p, q
  <2>4. d * (q + 1) <= d * p /\ d * (q + 1) = d * q + d BY <2>1
  <2> QED BY <2>1, <2>2, <2>3, <2>4
<1> QED BY <1>1, DivMod

--------------------------------------------------------------------------------
(* Sums.  SumFcn is the recursive function inside the fold.                *)

Pick(s) == CHOOSE x \in s : TRUE
SumStep(f, g, s) == IF s = {} THEN 0 ELSE f[Pick(s)] + g[s \ {Pick(s)}]
SumFcn(f, S) == CHOOSE g : g = [s \in SUBSET S |-> SumStep(f, g, s)]

\* A sum is the recursive function's value at the whole set.
LEMMA SumOverDef == \A f, S : SumOver(f, S) = SumFcn(f, S)[S]
  BY DEF SumOver, SumFcn, SumStep, Pick, MapThenSumSet, MapThenFoldSet

\* The recursive function exists: by induction on the size of the subsets it is given for.
LEMMA SumFcnExists ==
    ASSUME NEW f, NEW S, IsFiniteSet(S)
    PROVE  \A s \in SUBSET S : SumFcn(f, S)[s] = SumStep(f, SumFcn(f, S), s)
<1> DEFINE Lev(n) == {s \in SUBSET S : Cardinality(s) <= n}
           T == {n \in Nat : \E g : g = [s \in Lev(n) |-> SumStep(f, g, s)]}
<1>0. \A s \in SUBSET S : IsFiniteSet(s) /\ Cardinality(s) \in Nat
  BY FS_Subset, FS_CardinalityType
<1>1. 0 \in T
  <2> DEFINE g == [s \in Lev(0) |-> 0]
  <2>1. \A s \in Lev(0) : s = {}
    BY <1>0, FS_EmptySet
  <2>2. \A s \in Lev(0) : SumStep(f, g, s) = 0
    BY <2>1 DEF SumStep
  <2>3. g = [s \in Lev(0) |-> SumStep(f, g, s)]
    BY <2>2
  <2> QED BY <2>3
<1>2. ASSUME NEW n \in T PROVE n + 1 \in T
  <2>1. PICK g : g = [s \in Lev(n) |-> SumStep(f, g, s)]
    OBVIOUS
  <2> DEFINE next == [s \in Lev(n + 1) |-> SumStep(f, g, s)]
  <2>2. ASSUME NEW s \in Lev(n + 1) PROVE SumStep(f, next, s) = SumStep(f, g, s)
    <3>1. CASE s = {}
      BY <3>1 DEF SumStep
    <3>2. CASE s # {}
      <4> DEFINE r == s \ {Pick(s)}
      <4>1. Pick(s) \in s
        BY <3>2 DEF Pick
      <4>2. r \in Lev(n) /\ r \in Lev(n + 1)
        BY <1>0, <4>1, FS_RemoveElement
      <4>3. next[r] = SumStep(f, g, r) /\ g[r] = SumStep(f, g, r)
        BY <2>1, <4>2
      <4> QED BY <3>2, <4>3 DEF SumStep
    <3> QED BY <3>1, <3>2
  <2>3. next = [s \in Lev(n + 1) |-> SumStep(f, next, s)]
    BY <2>2
  <2>4. \E k : k = [s \in Lev(n + 1) |-> SumStep(f, k, s)]
    <3> HIDE DEF next
    <3> QED BY <2>3, Zenon
  <2>5. n + 1 \in Nat
    OBVIOUS
  <2> HIDE DEF Lev
  <2> QED BY <2>4, <2>5, Zenon
<1>3. T = Nat
  BY <1>1, <1>2, NaturalInduction, Zenon
<1>4. PICK g : g = [s \in Lev(Cardinality(S)) |-> SumStep(f, g, s)]
  BY <1>0, <1>3
<1>5. Lev(Cardinality(S)) = SUBSET S
  BY FS_Subset
<1>6. g = [s \in SUBSET S |-> SumStep(f, g, s)]
  BY <1>4, <1>5
<1> DEFINE h == SumFcn(f, S)
<1>7. h = [s \in SUBSET S |-> SumStep(f, h, s)]
  BY <1>6 DEF SumFcn
<1> HIDE DEF h
<1>8. \A s \in SUBSET S : h[s] = SumStep(f, h, s)
  BY <1>7
<1> QED BY <1>8 DEF h

\* One step of the recursive function.
LEMMA SumFcnStep ==
    ASSUME NEW f, NEW S, IsFiniteSet(S), NEW s \in SUBSET S
    PROVE  SumFcn(f, S)[s] = SumStep(f, SumFcn(f, S), s)
  BY SumFcnExists

\* What the sum of a set has to do with the sums of smaller ones.
LEMMA SumFcnAgrees ==
    ASSUME NEW f, NEW S, IsFiniteSet(S), NEW T \in SUBSET S
    PROVE  SumFcn(f, S)[T] = SumOver(f, T)
<1> DEFINE g == SumFcn(f, S)
           h == SumFcn(f, T)
           F == {u \in SUBSET T : g[u] # h[u]}
<1>1. SUFFICES ASSUME F # {} PROVE FALSE
  BY SumOverDef
<1>2. \A u \in F : IsFiniteSet(u)
  BY FS_Subset
<1>3. PICK u \in F : \A w \in F : Cardinality(u) <= Cardinality(w)
  BY <1>1, <1>2, SmallestSet, Zenon
<1>4. IsFiniteSet(T)
  BY FS_Subset
<1>5. g[u] = SumStep(f, g, u) /\ h[u] = SumStep(f, h, u)
  BY <1>4, SumFcnStep
<1>6. u # {}
  BY <1>5 DEF SumStep
<1>7. Pick(u) \in u
  BY <1>6 DEF Pick
<1>8. u \ {Pick(u)} \notin F
  BY <1>2, <1>3, <1>7, FS_RemoveElement, FS_CardinalityType
<1>9. g[u \ {Pick(u)}] = h[u \ {Pick(u)}]
  BY <1>8
<1> QED BY <1>5, <1>6, <1>9 DEF SumStep

\* The sum of nothing is 0.
LEMMA SumEmpty == \A f : SumOver(f, {}) = 0
<1>1. TAKE f
<1>2. SumFcn(f, {})[{}] = SumStep(f, SumFcn(f, {}), {})
  BY SumFcnStep, FS_EmptySet
<1> QED BY <1>2, SumOverDef DEF SumStep

\* The sum is that of one element, the one the fold takes first, and of the rest.
LEMMA SumPick ==
    ASSUME NEW f, NEW S, IsFiniteSet(S), S # {}
    PROVE  \E x \in S : SumOver(f, S) = f[x] + SumOver(f, S \ {x})
<1>1. SumFcn(f, S)[S] = SumStep(f, SumFcn(f, S), S)
  BY SumFcnStep
<1>2. Pick(S) \in S
  BY DEF Pick
<1>3. SumOver(f, S) = f[Pick(S)] + SumFcn(f, S)[S \ {Pick(S)}]
  BY <1>1, SumOverDef DEF SumStep
<1>4. SumFcn(f, S)[S \ {Pick(S)}] = SumOver(f, S \ {Pick(S)})
  BY SumFcnAgrees
<1> QED BY <1>2, <1>3, <1>4

\* A sum of naturals is a natural.
LEMMA SumType ==
    ASSUME NEW S, IsFiniteSet(S), NEW f, \A x \in S : f[x] \in Nat
    PROVE  SumOver(f, S) \in Nat
<1> DEFINE F == {T \in SUBSET S : SumOver(f, T) \notin Nat}
<1>1. SUFFICES ASSUME F # {} PROVE FALSE
  OBVIOUS
<1>2. \A u \in F : IsFiniteSet(u)
  BY FS_Subset
<1>3. PICK u \in F : \A w \in F : Cardinality(u) <= Cardinality(w)
  BY <1>1, <1>2, SmallestSet, Zenon
<1>4. u # {}
  BY SumEmpty
<1>5. \E x \in u : SumOver(f, u) = f[x] + SumOver(f, u \ {x})
  <2>1. IsFiniteSet(u)
    BY <1>2
  <2> HIDE DEF F
  <2> QED BY <1>4, <2>1, SumPick
<1>6. PICK x \in u : SumOver(f, u) = f[x] + SumOver(f, u \ {x})
  BY <1>5
<1>7. u \ {x} \notin F
  <2>1. IsFiniteSet(u)
    BY <1>2
  <2> HIDE DEF F
  <2>2. Cardinality(u \ {x}) = Cardinality(u) - 1 /\ Cardinality(u) \in Nat
    BY <2>1, FS_RemoveElement, FS_CardinalityType
  <2> QED BY <1>3, <2>2
<1> QED BY <1>6, <1>7

\* The sum is that of any one element and of the rest.
LEMMA SumRemove ==
    ASSUME NEW S, IsFiniteSet(S), NEW f, \A z \in S : f[z] \in Nat, NEW x \in S
    PROVE  SumOver(f, S) = f[x] + SumOver(f, S \ {x})
<1> DEFINE F == {T \in SUBSET S : \E z \in T : SumOver(f, T) # f[z] + SumOver(f, T \ {z})}
<1>1. SUFFICES ASSUME F # {} PROVE FALSE
  OBVIOUS
<1>2. \A u \in F : IsFiniteSet(u)
  BY FS_Subset
<1>3. PICK u \in F : \A w \in F : Cardinality(u) <= Cardinality(w)
  BY <1>1, <1>2, SmallestSet, Zenon
<1>4. PICK z \in u : SumOver(f, u) # f[z] + SumOver(f, u \ {z})
  OBVIOUS
<1>5. IsFiniteSet(u) /\ u \subseteq S
  BY <1>2
<1>6. PICK y \in u : SumOver(f, u) = f[y] + SumOver(f, u \ {y})
  BY <1>5, SumPick
<1>7. y # z
  BY <1>4, <1>6
<1>8. ASSUME NEW w \in u PROVE u \ {w} \notin F
  <2>1. Cardinality(u \ {w}) = Cardinality(u) - 1
    BY <1>5, FS_RemoveElement
  <2>2. Cardinality(u) \in Nat /\ Cardinality(u \ {w}) \in Nat
    BY <1>5, FS_RemoveElement, FS_CardinalityType
  <2> QED BY <1>3, <2>1, <2>2
<1>9. SumOver(f, u \ {y}) = f[z] + SumOver(f, (u \ {y}) \ {z})
  BY <1>5, <1>7, <1>8
<1>10. SumOver(f, u \ {z}) = f[y] + SumOver(f, (u \ {z}) \ {y})
  BY <1>5, <1>7, <1>8
<1>11. (u \ {y}) \ {z} = (u \ {z}) \ {y}
  OBVIOUS
<1>12. SumOver(f, (u \ {y}) \ {z}) \in Nat /\ f[y] \in Nat /\ f[z] \in Nat
  BY <1>5, FS_Subset, SumType
<1> QED BY <1>4, <1>6, <1>9, <1>10, <1>11, <1>12


\* A set with one more element.
LEMMA SumAdd ==
    ASSUME NEW S, IsFiniteSet(S), NEW x, x \notin S,
           NEW f, \A z \in S \cup {x} : f[z] \in Nat
    PROVE  SumOver(f, S \cup {x}) = f[x] + SumOver(f, S)
<1>1. IsFiniteSet(S \cup {x})
  BY FS_AddElement
<1>2. SumOver(f, S \cup {x}) = f[x] + SumOver(f, (S \cup {x}) \ {x})
  BY <1>1, SumRemove
<1>3. (S \cup {x}) \ {x} = S
  OBVIOUS
<1> QED BY <1>2, <1>3

\* The sum of sums, element by element.
LEMMA SumPlus ==
    ASSUME NEW S, IsFiniteSet(S), NEW f, NEW g, NEW h,
           \A x \in S : f[x] \in Nat /\ g[x] \in Nat /\ h[x] = f[x] + g[x]
    PROVE  SumOver(h, S) = SumOver(f, S) + SumOver(g, S)
<1> DEFINE Good == {T \in SUBSET S : SumOver(h, T) = SumOver(f, T) + SumOver(g, T)}
<1>1. {} \in Good
  BY SumEmpty
<1>2. ASSUME NEW T \in Good, NEW x \in S \ T PROVE T \cup {x} \in Good
  <2>1. IsFiniteSet(T) /\ T \subseteq S
    BY FS_Subset
  <2>2. SumOver(f, T) \in Nat /\ SumOver(g, T) \in Nat
    BY <2>1, SumType
  <2>3. /\ SumOver(f, T \cup {x}) = f[x] + SumOver(f, T)
        /\ SumOver(g, T \cup {x}) = g[x] + SumOver(g, T)
    BY <2>1, SumAdd
  <2>4. SumOver(h, T \cup {x}) = h[x] + SumOver(h, T)
    <3>1. \A z \in T \cup {x} : h[z] \in Nat
      BY <2>1
    <3> QED BY <2>1, <3>1, SumAdd
  <2> QED BY <2>2, <2>3, <2>4
<1>3. S \in Good
  BY <1>1, <1>2, FiniteInduction, Zenon
<1> QED BY <1>3

\* Sums are monotonic.
LEMMA SumLeq ==
    ASSUME NEW S, IsFiniteSet(S), NEW f, NEW g,
           \A x \in S : f[x] \in Nat /\ g[x] \in Nat /\ f[x] <= g[x]
    PROVE  SumOver(f, S) <= SumOver(g, S)
<1> DEFINE d == [x \in S |-> g[x] - f[x]]
<1>1. SumOver(g, S) = SumOver(f, S) + SumOver(d, S)
  BY SumPlus
<1>2. SumOver(f, S) \in Nat
  BY SumType
<1>3. SumOver(d, S) \in Nat
  BY SumType
<1> QED BY <1>1, <1>2, <1>3

\* The sum depends on the values of the function on the set only.
LEMMA SumSame ==
    ASSUME NEW S, IsFiniteSet(S), NEW f, NEW g,
           \A x \in S : f[x] \in Nat /\ g[x] = f[x]
    PROVE  SumOver(f, S) = SumOver(g, S)
<1>1. SumOver(f, S) <= SumOver(g, S) /\ SumOver(g, S) <= SumOver(f, S)
  BY SumLeq
<1>2. SumOver(f, S) \in Nat
  BY SumType
<1>3. SumOver(g, S) \in Nat
  BY SumType
<1> QED BY <1>1, <1>2, <1>3

\* A sum of zeros is zero.
LEMMA SumZero ==
    ASSUME NEW S, IsFiniteSet(S), NEW f, \A x \in S : f[x] = 0
    PROVE  SumOver(f, S) = 0
<1>1. \A x \in S : f[x] \in Nat /\ f[x] = f[x] + f[x]
  OBVIOUS
<1>2. SumOver(f, S) = SumOver(f, S) + SumOver(f, S)
  BY <1>1, SumPlus
<1>3. SumOver(f, S) \in Nat
  BY <1>1, SumType
<1>4. \A a \in Nat : a = a + a => a = 0
  OBVIOUS
<1> QED BY <1>2, <1>3, <1>4, Zenon

\* The sum over a set is the sum over a part of it and over the rest.
LEMMA SumSplit ==
    ASSUME NEW S, IsFiniteSet(S), NEW f, \A x \in S : f[x] \in Nat, NEW A \in SUBSET S
    PROVE  SumOver(f, S) = SumOver(f, A) + SumOver(f, S \ A)
<1> DEFINE Good == {T \in SUBSET A : SumOver(f, S) = SumOver(f, T) + SumOver(f, S \ T)}
<1>0. IsFiniteSet(A)
  BY FS_Subset
<1>1. {} \in Good
  <2>1. SumOver(f, S) \in Nat
    BY SumType
  <2>2. S \ {} = S
    OBVIOUS
  <2> QED BY <2>1, <2>2, SumEmpty
<1>2. ASSUME NEW T \in Good, NEW x \in A \ T PROVE T \cup {x} \in Good
  <2>1. IsFiniteSet(T) /\ IsFiniteSet(S \ T) /\ x \in S \ T
    BY <1>0, FS_Subset, FS_Difference
  <2>2. SumOver(f, T \cup {x}) = f[x] + SumOver(f, T)
    BY <2>1, SumAdd
  <2>3. SumOver(f, S \ T) = f[x] + SumOver(f, (S \ T) \ {x})
    BY <2>1, SumRemove
  <2>4. SumOver(f, T) \in Nat
    BY <2>1, SumType
  <2>5. SumOver(f, (S \ T) \ {x}) \in Nat
    BY <2>1, FS_RemoveElement, SumType
  <2>6. (S \ T) \ {x} = S \ (T \cup {x})
    OBVIOUS
  <2> QED BY <2>2, <2>3, <2>4, <2>5, <2>6
<1>3. A \in Good
  BY <1>0, <1>1, <1>2, FiniteInduction, Zenon
<1> QED BY <1>3

\* A set has as many elements as its parts have together.
LEMMA CountByParts ==
    ASSUME NEW P, IsFiniteSet(P), NEW B, IsFiniteSet(B), NEW c \in [P -> B]
    PROVE  Cardinality(P) = SumOver([b \in B |-> Cardinality({p \in P : c[p] = b})], B)
<1> DEFINE Parts(T) == [b \in B |-> Cardinality({p \in T : c[p] = b})]
           Good == {T \in SUBSET P : Cardinality(T) = SumOver(Parts(T), B)}
<1>0. \A T \in SUBSET P : \A b \in B : IsFiniteSet({p \in T : c[p] = b}) /\ Parts(T)[b] \in Nat
  BY FS_Subset, FS_CardinalityType
<1>1. {} \in Good
  <2>1. \A b \in B : Parts({})[b] = 0
    BY FS_EmptySet
  <2>2. SumOver(Parts({}), B) = 0
    BY <2>1, SumZero
  <2> QED BY <2>2, FS_EmptySet
<1>2. ASSUME NEW T \in Good, NEW x \in P \ T PROVE T \cup {x} \in Good
  <2> DEFINE U == T \cup {x}
             f == Parts(T)
             g == Parts(U)
             r == B \ {c[x]}
  <2>0. T \in SUBSET P /\ U \in SUBSET P /\ x \notin T /\ c[x] \in B
    OBVIOUS
  <2>1. /\ \A b \in B : f[b] \in Nat
        /\ \A b \in B : g[b] \in Nat
    BY <1>0, <2>0
  <2>2. g[c[x]] = f[c[x]] + 1
    <3>1. {p \in U : c[p] = c[x]} = {p \in T : c[p] = c[x]} \cup {x}
      OBVIOUS
    <3>2. Cardinality({p \in T : c[p] = c[x]} \cup {x}) = Cardinality({p \in T : c[p] = c[x]}) + 1
      <4>1. IsFiniteSet({p \in T : c[p] = c[x]}) /\ x \notin {p \in T : c[p] = c[x]}
        BY <1>0, <2>0
      <4> QED BY <4>1, FS_AddElement
    <3> QED BY <2>0, <3>1, <3>2
  <2>3. \A b \in r : g[b] = f[b]
    <3>1. TAKE b \in r
    <3>2. {p \in U : c[p] = b} = {p \in T : c[p] = b}
      OBVIOUS
    <3> QED BY <3>2
  <2>4. SumOver(f, r) = SumOver(g, r) /\ SumOver(f, r) \in Nat
    <3>1. IsFiniteSet(r)
      BY FS_RemoveElement
    <3> HIDE DEF f, g
    <3> QED BY <2>1, <2>3, <3>1, SumSame, SumType
  <2>5. SumOver(f, B) = f[c[x]] + SumOver(f, r) /\ SumOver(g, B) = g[c[x]] + SumOver(g, r)
    <3> HIDE DEF f, g
    <3> QED BY <2>0, <2>1, SumRemove
  <2>6. Cardinality(U) = Cardinality(T) + 1
    BY <2>0, FS_Subset, FS_AddElement
  <2>7. Cardinality(T) = SumOver(f, B)
    OBVIOUS
  <2>8. Cardinality(U) = SumOver(g, B)
    <3> HIDE DEF f, g
    <3> QED BY <2>0, <2>1, <2>2, <2>4, <2>5, <2>6, <2>7
  <2> QED BY <2>0, <2>8
<1>3. P \in Good
  BY <1>1, <1>2, FiniteInduction, Zenon
<1> QED BY <1>3

--------------------------------------------------------------------------------
(* Ranks.                                                                  *)

\* The rank of a number in a set is how many are at most as large: Nth has rank i.
LEMMA NthHasRank ==
    ASSUME NEW K \in SUBSET Nat, IsFiniteSet(K)
    PROVE  /\ Cardinality(K) \in Nat
           /\ \A k \in K : CountTo(K, k) \in 1..Cardinality(K)
           /\ \A k, j \in K : k < j => CountTo(K, k) < CountTo(K, j)
           /\ \A i \in 1..Cardinality(K) : Nth(K, i) \in K /\ CountTo(K, Nth(K, i)) = i
           /\ \A k \in K : Nth(K, CountTo(K, k)) = k
<1> DEFINE N == Cardinality(K)
           upTo(k) == {x \in K : x <= k}
           r == [k \in K |-> Cardinality(upTo(k))]
<1>1. N \in Nat /\ \A k \in K : IsFiniteSet(upTo(k)) /\ Cardinality(upTo(k)) \in 1..N
  <2>1. \A U \in SUBSET K : IsFiniteSet(U) /\ Cardinality(U) \in Nat /\ Cardinality(U) <= N
    BY FS_Subset, FS_CardinalityType
  <2>2. ASSUME NEW k \in K PROVE Cardinality(upTo(k)) # 0
    <3>1. k \in upTo(k)
      OBVIOUS
    <3>2. IsFiniteSet(upTo(k))
      BY <2>1
    <3> HIDE DEF upTo
    <3> QED BY <3>1, <3>2, FS_EmptySet
  <2>3. \A k \in K : upTo(k) \in SUBSET K
    OBVIOUS
  <2>4. N \in Nat
    BY <2>1
  <2> HIDE DEF N, upTo
  <2> QED BY <2>1, <2>2, <2>3, <2>4
<1>2. ASSUME NEW k \in K, NEW j \in K, k < j PROVE r[k] < r[j]
  <2>1. upTo(k) \subseteq upTo(j) \ {j} /\ j \in upTo(j)
    <3>1. k \in Nat /\ j \in Nat /\ j <= j
      OBVIOUS
    <3>2. \A x \in K : x <= k => x <= j /\ x # j
      BY <1>2, <3>1
    <3> QED BY <3>1, <3>2
  <2>2. IsFiniteSet(upTo(j)) /\ IsFiniteSet(upTo(j) \ {j})
    BY <1>1, FS_RemoveElement
  <2>3. Cardinality(upTo(j) \ {j}) = Cardinality(upTo(j)) - 1
    BY <2>1, <2>2, FS_RemoveElement
  <2>4. Cardinality(upTo(k)) <= Cardinality(upTo(j) \ {j})
    BY <2>1, <2>2, FS_Subset
  <2>5. Cardinality(upTo(k)) \in Nat /\ Cardinality(upTo(j)) \in Nat
    BY <1>1
  <2>6. Cardinality(upTo(k)) < Cardinality(upTo(j))
    <3> DEFINE a == Cardinality(upTo(k))
               b == Cardinality(upTo(j))
               c == Cardinality(upTo(j) \ {j})
    <3>1. a <= c /\ c = b - 1 /\ a \in Nat /\ b \in Nat
      BY <2>3, <2>4, <2>5
    <3> HIDE DEF a, b, c
    <3>2. a < b
      BY <3>1
    <3> QED BY <3>2 DEF a, b
  <2>7. r[k] = Cardinality(upTo(k)) /\ r[j] = Cardinality(upTo(j))
    OBVIOUS
  <2> QED BY <2>6, <2>7
<1>3. r \in Injection(K, 1..N)
  <2>1. r \in [K -> 1..N]
    BY <1>1
  <2>2. \A k, j \in K : r[k] = r[j] => k = j
    <3>1. \A k \in K : r[k] \in Nat
      BY <2>1
    <3>2. \A k, j \in K : k < j => r[k] < r[j]
      BY <1>2
    <3> HIDE DEF r
    <3> QED BY <3>1, <3>2
  <2> HIDE DEF r, N
  <2> QED BY <2>1, <2>2 DEF Injection, IsInjective
<1>4. r \in Surjection(K, 1..N)
  <2>1. IsFiniteSet(1..N) /\ Cardinality(1..N) = N
    <3>1. Cardinality(1..N) = IF 1 > N THEN 0 ELSE N - 1 + 1
      BY <1>1, FS_Interval
    <3> HIDE DEF N
    <3> QED BY <1>1, <3>1, FS_Interval
  <2> HIDE DEF r
  <2> QED BY <1>3, <2>1, FS_Injection
<1>5. \A i \in 1..N : \E k \in K : r[k] = i
  <2> HIDE DEF r, N
  <2> QED BY <1>4 DEF Surjection
<1>6. \A k, j \in K : r[k] = r[j] => k = j
  <2> HIDE DEF r, N
  <2> QED BY <1>3 DEF Injection, IsInjective
<1>7. \A i : Nth(K, i) = CHOOSE k \in K : r[k] = i
  BY DEF Nth, CountTo
<1>8. \A k \in K : r[k] \in 1..N
  BY <1>1
<1> HIDE DEF r, N
<1>9. ASSUME NEW i \in 1..N PROVE Nth(K, i) \in K /\ r[Nth(K, i)] = i
  BY <1>5, <1>7
<1>10. ASSUME NEW k \in K PROVE Nth(K, r[k]) = k
  BY <1>6, <1>8, <1>9
<1>11. \A k \in K : r[k] = CountTo(K, k)
  BY DEF r, CountTo
<1>12. \A i \in 1..N : Nth(K, i) \in K /\ CountTo(K, Nth(K, i)) = i
  BY <1>9, <1>11
<1>13. \A k, j \in K : k < j => CountTo(K, k) < CountTo(K, j)
  BY <1>2, <1>11
<1>14. \A k \in K : CountTo(K, k) \in 1..N /\ Nth(K, CountTo(K, k)) = k
  BY <1>8, <1>10, <1>11
<1>15. N \in Nat
  BY <1>1
<1> QED BY <1>12, <1>13, <1>14, <1>15 DEF N

\* Nth counts a set of numbers off,
LEMMA NthIs ==
    ASSUME NEW K \in SUBSET Nat, IsFiniteSet(K)
    PROVE  /\ Cardinality(K) \in Nat
           /\ \A i \in 1..Cardinality(K) : Nth(K, i) \in K
           /\ \A k \in K : \E i \in 1..Cardinality(K) : Nth(K, i) = k
  BY NthHasRank

\* rising,
LEMMA NthRises ==
    ASSUME NEW K \in SUBSET Nat, IsFiniteSet(K),
           NEW i \in 1..Cardinality(K), NEW j \in 1..Cardinality(K)
    PROVE  i < j <=> Nth(K, i) < Nth(K, j)
<1> DEFINE a == Nth(K, i)
           b == Nth(K, j)
<1>1. a \in K /\ b \in K /\ CountTo(K, a) = i /\ CountTo(K, b) = j
  BY NthHasRank
<1>2. (a < b => CountTo(K, a) < CountTo(K, b)) /\ (b < a => CountTo(K, b) < CountTo(K, a))
  BY <1>1, NthHasRank
<1>3. a \in Nat /\ b \in Nat /\ i \in Nat /\ j \in Nat
  <2>1. a \in K /\ b \in K
    BY <1>1
  <2> HIDE DEF a, b
  <2>2. a \in Nat /\ b \in Nat
    BY <2>1
  <2>3. i \in 1..Cardinality(K) /\ j \in 1..Cardinality(K)
    OBVIOUS
  <2>4. i \in Nat /\ j \in Nat
    BY ONLY <2>3
  <2> QED BY <2>2, <2>4
<1> HIDE DEF a, b
<1>4. i < j <=> a < b
  BY <1>1, <1>2, <1>3
<1> QED BY <1>4 DEF a, b

\* and those up to a bound come first.
LEMMA UpToABound ==
    ASSUME NEW K \in SUBSET Nat, IsFiniteSet(K), NEW x \in Int
    PROVE  /\ CountTo(K, x) \in 0..Cardinality(K)
           /\ \A i \in 1..Cardinality(K) : Nth(K, i) <= x <=> i <= CountTo(K, x)
<1> DEFINE N == Cardinality(K)
           S == {k \in K : k <= x}
           c == Cardinality(S)
<1>0. c = CountTo(K, x)
  BY DEF CountTo
<1>1. IsFiniteSet(S) /\ S \in SUBSET Nat /\ N \in Nat /\ c \in Nat /\ c <= N
  <2>1. S \subseteq K
    OBVIOUS
  <2>2. IsFiniteSet(S) /\ c <= N
    BY <2>1, FS_Subset
  <2>3. N \in Nat /\ c \in Nat
    BY <2>2, FS_CardinalityType
  <2> QED BY <2>1, <2>2, <2>3
<1>2. ASSUME NEW i \in 1..N PROVE Nth(K, i) <= x <=> i <= c
  <2>1. Nth(K, i) \in K /\ Nth(K, i) \in Nat /\ i \in Nat /\ i > 0
    <3> DEFINE k == Nth(K, i)
    <3>1. k \in K
      BY NthHasRank
    <3> HIDE DEF k
    <3>2. k \in Nat
      BY <3>1
    <3>3. i \in 1..N
      OBVIOUS
    <3>4. i \in Nat /\ i > 0
      BY ONLY <3>3
    <3> QED BY <3>1, <3>2, <3>4 DEF k
  <2>2. CASE S = {}
    <3>1. c = 0
      BY <2>2, FS_EmptySet
    <3>2. ~ Nth(K, i) <= x
      BY <2>1, <2>2
    <3> HIDE DEF c
    <3> QED BY <2>1, <3>1, <3>2
  <2>3. CASE S # {}
    <3>1. PICK m \in S : \A y \in S : m >= y
      BY <1>1, <2>3, FiniteHasGreatest
    <3>2. {y \in K : y <= m} = S
      <4>1. m \in K /\ m \in Nat /\ m <= x
        OBVIOUS
      <4>2. \A y \in K : y \in Nat /\ (y <= m <=> y <= x)
        BY <3>1, <4>1
      <4> QED BY <4>2
    <3>3. c \in 1..N /\ Nth(K, c) = m
      <4>1. m \in K
        OBVIOUS
      <4>2. CountTo(K, m) = c
        BY <3>2 DEF CountTo
      <4> HIDE DEF S, c
      <4> QED BY <4>1, <4>2, NthHasRank
    <3>4. c < i <=> m < Nth(K, i)
      BY <3>3, NthRises
    <3>5. Nth(K, i) <= x <=> Nth(K, i) <= m
      <4>1. Nth(K, i) <= x => Nth(K, i) \in S
        BY <2>1
      <4>2. m \in Nat /\ m <= x
        OBVIOUS
      <4> HIDE DEF S
      <4> QED BY <2>1, <3>1, <4>1, <4>2
    <3>6. m \in Nat
      OBVIOUS
    <3> HIDE DEF S, N, c
    <3> QED BY <1>1, <2>1, <3>4, <3>5, <3>6
  <2> QED BY <2>2, <2>3
<1> HIDE DEF N, c
<1>3. c \in 0..N
  BY <1>1
<1> QED BY <1>0, <1>2, <1>3 DEF N

\* InOrder is a sequence of the set's members,
LEMMA InOrderIs ==
    ASSUME NEW K \in SUBSET Nat, IsFiniteSet(K)
    PROVE  /\ DOMAIN InOrder(K) = 1..Cardinality(K) /\ Cardinality(K) \in Nat
           /\ \A i \in 1..Cardinality(K) : InOrder(K)[i] = Nth(K, i) /\ InOrder(K)[i] \in K
           /\ \A k \in K : \E i \in 1..Cardinality(K) : InOrder(K)[i] = k
<1>1. /\ Cardinality(K) \in Nat
      /\ \A i \in 1..Cardinality(K) : Nth(K, i) \in K
      /\ \A k \in K : \E i \in 1..Cardinality(K) : Nth(K, i) = k
  BY NthIs
<1>2. DOMAIN InOrder(K) = 1..Cardinality(K)
  BY DEF InOrder
<1>3. \A i \in 1..Cardinality(K) : InOrder(K)[i] = Nth(K, i)
  BY DEF InOrder
<1> QED BY <1>1, <1>2, <1>3

\* How many are up to one bound but not up to another.
LEMMA CountBetween ==
    ASSUME NEW K \in SUBSET Nat, IsFiniteSet(K), NEW a \in Int, NEW b \in Int, a <= b
    PROVE  /\ CountTo(K, a) <= CountTo(K, b)
           /\ Cardinality({k \in K : a < k /\ k <= b}) = CountTo(K, b) - CountTo(K, a)
<1> DEFINE A == {k \in K : k <= a}
           B == {k \in K : k <= b}
           W == {k \in K : a < k /\ k <= b}
<1>1. \A U \in SUBSET K : IsFiniteSet(U) /\ Cardinality(U) \in Nat
  BY FS_Subset, FS_CardinalityType
<1>2. W = B \ A /\ B \cap A = A
  <2>1. \A k \in K : (a < k /\ k <= b <=> k <= b /\ ~ k <= a) /\ (k <= a => k <= b)
    OBVIOUS
  <2>2. \A k : k \in W <=> k \in B /\ k \notin A
    BY <2>1
  <2>3. \A k \in A : k \in B
    BY <2>1
  <2> HIDE DEF A, B, W
  <2> QED BY <2>2, <2>3
<1>3. IsFiniteSet(B) /\ Cardinality(A) \in Nat /\ Cardinality(B) \in Nat /\ Cardinality(W) \in Nat
  BY <1>1
<1>4. A = {k \in K : k <= a} /\ B = {k \in K : k <= b} /\ W = {k \in K : a < k /\ k <= b}
  OBVIOUS
<1> HIDE DEF A, B, W
<1>5. Cardinality(B \ A) = Cardinality(B) - Cardinality(B \cap A)
  BY <1>3, FS_Difference
<1> QED BY <1>2, <1>3, <1>4, <1>5 DEF CountTo

\* A stretch of the numbers counted off is that of those between its bounds.
LEMMA NthBetween ==
    ASSUME NEW K \in SUBSET Nat, IsFiniteSet(K), NEW a \in Int, NEW b \in Int, a <= b,
           NEW W, W = {k \in K : a < k /\ k <= b}
    PROVE  \A i \in 1..Cardinality(W) : /\ CountTo(K, a) + i \in 1..Cardinality(K)
                                        /\ Nth(W, i) = Nth(K, CountTo(K, a) + i)
<1> SUFFICES ASSUME NEW i \in 1..Cardinality(W)
             PROVE  /\ CountTo(K, a) + i \in 1..Cardinality(K)
                    /\ Nth(W, i) = Nth(K, CountTo(K, a) + i)
  OBVIOUS
<1>1. W \in SUBSET Nat /\ IsFiniteSet(W) /\ W \subseteq K
  <2>1. W \subseteq K
    OBVIOUS
  <2>2. IsFiniteSet(W)
    BY <2>1, FS_Subset
  <2> QED BY <2>1, <2>2
<1> DEFINE w == Nth(W, i)
<1>2. w \in W /\ CountTo(W, w) = i
  BY <1>1, NthHasRank
<1> HIDE DEF w
<1>3. w \in K /\ w \in Nat /\ a <= w /\ w <= b
  <2>1. w \in K /\ a < w /\ w <= b
    BY <1>2
  <2> QED BY <2>1
<1>4. {k \in K : a < k /\ k <= w} = {k \in W : k <= w}
  <2>1. \A k \in K : k \in Nat /\ (a < k /\ k <= w <=> (a < k /\ k <= b) /\ k <= w)
    BY <1>3
  <2> QED BY <2>1
<1>5. Cardinality({k \in K : a < k /\ k <= w}) = CountTo(K, w) - CountTo(K, a)
  BY <1>3, CountBetween
<1>6. CountTo(W, w) = CountTo(K, w) - CountTo(K, a)
  BY <1>4, <1>5 DEF CountTo
<1>7. CountTo(K, w) \in 1..Cardinality(K) /\ Nth(K, CountTo(K, w)) = w
  BY <1>3, NthHasRank
<1>8. CountTo(K, a) \in 0..Cardinality(K) /\ Cardinality(K) \in Nat
  BY UpToABound, NthIs
<1>9. CountTo(K, a) \in Nat /\ CountTo(K, w) \in Nat
  BY <1>7, <1>8
<1>10. CountTo(K, w) = CountTo(K, a) + i
  BY <1>2, <1>6, <1>9
<1> QED BY <1>7, <1>10 DEF w

================================================================================

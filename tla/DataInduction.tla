---------------------------- MODULE DataInduction ----------------------------
(***************************************************************************)
(* Induction over data, stated with sets and functions in the place of     *)
(* operators, and what follows for the folds of the community modules: a   *)
(* fold is a recursive function on the subsets of a finite set, so that it *)
(* satisfies its equation has to be proved before anything else.           *)
(***************************************************************************)
EXTENDS Integers, FiniteSets, Functions, FiniteSetTheorems, TLAPS

-----------------------------------------------------------------------------
(* Induction *)

\* A set of naturals with 0 and all successors has all naturals.
LEMMA InductionOnNat ==
    ASSUME NEW P \in SUBSET Nat, 0 \in P, \A n \in P : n + 1 \in P
    PROVE  P = Nat
<1> DEFINE bad == Nat \ P
<1> SUFFICES ASSUME bad # {} PROVE FALSE OBVIOUS
<1>1. PICK n \in bad : \A m \in bad : ~(<<m, n>> \in OpToRel(<, Nat))
  <2>1. bad \subseteq Nat OBVIOUS
  <2> HIDE DEF bad
  <2> QED BY <2>1, NatLessThanWellFounded, WFMin
<1>2. n \in Nat \ {0} /\ n - 1 \in bad OBVIOUS
<1>3. <<n - 1, n>> \in OpToRel(<, Nat) BY <1>2 DEF OpToRel
<1> QED BY <1>1, <1>2, <1>3

\* Among the subsets of a finite set that are bad there is a least one.
LEMMA LeastSubset ==
    ASSUME NEW S, IsFiniteSet(S), NEW bad \in SUBSET SUBSET S, bad # {}
    PROVE  \E T \in bad : \A x \in T : T \ {x} \notin bad
<1>1. PICK T \in bad : \A U \in bad : ~(<<U, T>> \in StrictSubsetOrdering(S))
  BY FS_StrictSubsetOrderingWellFounded, FS_FiniteSubsetsOfFinite, WFMin
<1>2. ASSUME NEW x \in T PROVE <<T \ {x}, T>> \in StrictSubsetOrdering(S)
  BY DEF StrictSubsetOrdering
<1> QED BY <1>1, <1>2

-----------------------------------------------------------------------------
(* Recursion on the naturals *)

\* f starts with b and takes every next value from the place and the value before.
Iterates(f, b, next) == f[0] = b /\ \A n \in Nat : f[n + 1] = next[<<n, f[n]>>]

\* There is such a function.
LEMMA NatRecursion ==
    ASSUME NEW V, NEW b \in V, NEW next \in [Nat \X V -> V]
    PROVE  \E f \in [Nat -> V] : Iterates(f, b, next)
<1> DEFINE UpTo(g, n) == g[0] = b /\ \A m \in Nat : m < n => g[m + 1] = next[<<m, g[m]>>]
           P == {n \in Nat : \E g \in [Nat -> V] : UpTo(g, n)}
<1>1. 0 \in P
  <2>1. UpTo([n \in Nat |-> b], 0) OBVIOUS
  <2> QED BY <2>1
<1>2. ASSUME NEW n \in P PROVE n + 1 \in P
  <2>1. n \in Nat OBVIOUS
  <2>2. PICK g \in [Nat -> V] : UpTo(g, n) OBVIOUS
  <2> HIDE DEF P
  <2> DEFINE h == [g EXCEPT ![n + 1] = next[<<n, g[n]>>]]
  <2>3. h \in [Nat -> V] BY <2>1
  <2>4. UpTo(h, n + 1) BY <2>1, <2>2
  <2> HIDE DEF UpTo, h
  <2> QED BY <2>1, <2>3, <2>4 DEF P
<1>3. P = Nat
  <2>1. P \subseteq Nat OBVIOUS
  <2> HIDE DEF P
  <2> QED BY <1>1, <1>2, <2>1, InductionOnNat
<1>4. ASSUME NEW g \in [Nat -> V], NEW h \in [Nat -> V], NEW n \in Nat, NEW k \in Nat,
             UpTo(g, n), UpTo(h, k)
      PROVE  \A m \in Nat : m <= n /\ m <= k => g[m] = h[m]
  <2> DEFINE Q == {m \in Nat : m <= n /\ m <= k => g[m] = h[m]}
  <2>1. 0 \in Q BY <1>4
  <2>2. ASSUME NEW m \in Q PROVE m + 1 \in Q
    <3>1. m \in Nat /\ m + 1 \in Nat OBVIOUS
    <3>2. ASSUME m + 1 <= n, m + 1 <= k PROVE g[m + 1] = h[m + 1]
      <4>1. m < n /\ m < k /\ m <= n /\ m <= k BY <3>1, <3>2
      <4>2. g[m] = h[m] BY <4>1
      <4>3. g[m + 1] = next[<<m, g[m]>>] /\ h[m + 1] = next[<<m, h[m]>>] BY <1>4, <3>1, <4>1
      <4> QED BY <4>2, <4>3, Zenon
    <3> QED BY <3>1, <3>2
  <2>3. Q = Nat
    <3>1. Q \subseteq Nat OBVIOUS
    <3> HIDE DEF Q
    <3> QED BY <2>1, <2>2, <3>1, InductionOnNat
  <2> QED BY <2>3
<1> DEFINE best(n) == CHOOSE g \in [Nat -> V] : UpTo(g, n)
           f == [n \in Nat |-> best(n)[n]]
<1>5. ASSUME NEW n \in Nat PROVE best(n) \in [Nat -> V] /\ UpTo(best(n), n)
  <2>1. \E g \in [Nat -> V] : UpTo(g, n) BY <1>3
  <2> HIDE DEF UpTo
  <2> QED BY <2>1
<1> HIDE DEF best
<1>6. f \in [Nat -> V] BY <1>5
<1>7. f[0] = b BY <1>5
<1>8. ASSUME NEW n \in Nat PROVE f[n + 1] = next[<<n, f[n]>>]
  <2>1. best(n + 1) \in [Nat -> V] /\ UpTo(best(n + 1), n + 1)
    <3>1. n + 1 \in Nat OBVIOUS
    <3> QED BY <1>5, <3>1
  <2>2. best(n) \in [Nat -> V] /\ UpTo(best(n), n) BY <1>5
  <2>3. n + 1 \in Nat /\ n <= n /\ n <= n + 1 OBVIOUS
  <2>4. PICK g \in [Nat -> V], h \in [Nat -> V] : g = best(n + 1) /\ h = best(n)
    BY <2>1, <2>2
  <2>5. UpTo(g, n + 1) /\ UpTo(h, n) BY <2>1, <2>2, <2>4
  <2>6. g[n] = h[n]
    <3> HIDE DEF UpTo
    <3> QED BY <1>4, <2>3, <2>5
  <2> QED BY <2>1, <2>3, <2>4, <2>6
<1>9. Iterates(f, b, next) BY <1>7, <1>8 DEF Iterates
<1> QED BY <1>6, <1>9

-----------------------------------------------------------------------------
(* Recursion on the subsets of a finite set *)

\* g follows the recursion that takes the elements of a set in the order of
\* ch, starting with b.
Follows(g, S, b, ch, step) ==
    /\ g[{}] = b
    /\ \A T \in SUBSET S : T # {} => g[T] = step[<<ch[T], g[T \ {ch[T]}]>>]

\* There is such a function.
LEMMA RecursionExists ==
    ASSUME NEW S, IsFiniteSet(S), NEW V, NEW b \in V,
           NEW ch, \A T \in SUBSET S : T # {} => ch[T] \in T,
           NEW step \in [S \X V -> V]
    PROVE  \E g \in [SUBSET S -> V] : Follows(g, S, b, ch, step)
<1> DEFINE UpTo(g, n) ==
             /\ g[{}] = b
             /\ \A T \in SUBSET S : T # {} /\ Cardinality(T) <= n =>
                  g[T] = step[<<ch[T], g[T \ {ch[T]}]>>]
           P == {n \in Nat : \E g \in [SUBSET S -> V] : UpTo(g, n)}
<1>1. \A T \in SUBSET S : IsFiniteSet(T) /\ Cardinality(T) \in Nat
  BY FS_Subset, FS_CardinalityType
<1>2. 0 \in P
  <2>1. UpTo([T \in SUBSET S |-> b], 0) BY <1>1, FS_EmptySet
  <2> QED BY <2>1
<1>3. ASSUME NEW n \in P PROVE n + 1 \in P
  <2>0. n \in Nat OBVIOUS
  <2>1. PICK g \in [SUBSET S -> V] : UpTo(g, n) OBVIOUS
  <2> HIDE DEF P
  <2> DEFINE rest(T) == T \ {ch[T]}
  <2>2. ASSUME NEW T \in SUBSET S, T # {}
        PROVE  /\ ch[T] \in S /\ rest(T) \in SUBSET S /\ Cardinality(T) \in Nat \ {0}
               /\ Cardinality(rest(T)) = Cardinality(T) - 1
    <3>1. PICK x \in T : x = ch[T] BY <2>2
    <3>2. IsFiniteSet(T) BY <1>1
    <3>3. Cardinality(T \ {x}) = Cardinality(T) - 1 BY <3>2, FS_RemoveElement, Zenon
    <3>4. Cardinality(T) \in Nat \ {0} BY <1>1, <2>2, <3>2, FS_EmptySet
    <3> QED BY <3>1, <3>3, <3>4
  <2>3. \A T \in SUBSET S : T = {} => Cardinality(T) = 0 BY FS_EmptySet
  <2> HIDE DEF rest
  <2> DEFINE next(T) == step[<<ch[T], g[rest(T)]>>]
             h == [T \in SUBSET S |-> IF Cardinality(T) <= n THEN g[T] ELSE next(T)]
  <2>4. h \in [SUBSET S -> V]
    <3>1. ASSUME NEW T \in SUBSET S, ~(Cardinality(T) <= n) PROVE next(T) \in V
      <4>1. T # {} BY <2>0, <2>3, <3>1
      <4>2. <<ch[T], g[rest(T)]>> \in S \X V BY <2>1, <2>2, <4>1
      <4> QED BY <4>2
    <3> QED BY <2>1, <3>1
  <2>5. \A T \in SUBSET S : h[T] = IF Cardinality(T) <= n THEN g[T] ELSE next(T) OBVIOUS
  <2>6. {} \in SUBSET S OBVIOUS
  <2>7. g[{}] = b /\ \A T \in SUBSET S : T # {} /\ Cardinality(T) <= n => g[T] = next(T)
    BY <2>1 DEF rest
  <2> HIDE DEF h
  <2>8. ASSUME NEW T \in SUBSET S, T # {}, Cardinality(T) <= n + 1
        PROVE  h[T] = step[<<ch[T], h[rest(T)]>>]
    <3>0. rest(T) \in SUBSET S /\ Cardinality(rest(T)) <= n BY <2>0, <2>2, <2>8
    <3>1. h[rest(T)] = g[rest(T)] BY <2>5, <3>0
    <3> QED BY <2>5, <2>7, <2>8, <3>1
  <2>9. h[{}] = b
    <3>1. Cardinality({}) <= n BY <2>0, FS_EmptySet
    <3> QED BY <2>5, <2>6, <2>7, <3>1, Zenon
  <2>10. UpTo(h, n + 1) BY <2>8, <2>9 DEF rest
  <2> HIDE DEF UpTo
  <2> QED BY <2>0, <2>4, <2>10 DEF P
<1>4. P = Nat
  <2>1. P \subseteq Nat OBVIOUS
  <2> HIDE DEF P
  <2> QED BY <1>2, <1>3, <2>1, InductionOnNat
<1>5. PICK g \in [SUBSET S -> V] : UpTo(g, Cardinality(S))
  BY <1>1, <1>4
<1>6. \A T \in SUBSET S : Cardinality(T) <= Cardinality(S) BY FS_Subset
<1> QED BY <1>5, <1>6 DEF Follows

-----------------------------------------------------------------------------
(* Sums *)

\* The sum of the values of f.
Total(f) == FoldFunction(+, 0, f)

Chosen(S) == [T \in SUBSET S |-> CHOOSE x \in T : TRUE]

\* What the sums over the subsets of S do: g is the fold behind FoldFunction.
Sums(g, f, S) ==
    /\ g \in [SUBSET S -> Int]
    /\ g[{}] = 0
    /\ \A T \in SUBSET S : T # {} => g[T] = f[Chosen(S)[T]] + g[T \ {Chosen(S)[T]}]

\* The sum of a function on a set is the value of such a g at the set.
LEMMA SumOnSetIsFold ==
    ASSUME NEW S, IsFiniteSet(S), NEW h, NEW f \in [S -> Int], \A x \in S : h[x] = f[x]
    PROVE  \E g : Sums(g, f, S) /\ SumFunctionOnSet(h, S) = g[S]
<1> DEFINE ch == Chosen(S)
           step == [p \in S \X Int |-> f[p[1]] + p[2]]
           Solves(r) == r = [T \in SUBSET S |->
             IF T = {} THEN 0 ELSE h[CHOOSE x \in T : TRUE] + r[T \ {CHOOSE x \in T : TRUE}]]
           it == CHOOSE r : Solves(r)
<1>1. SumFunctionOnSet(h, S) = it[S]
  BY DEF SumFunctionOnSet, FoldFunctionOnSet, MapThenFoldSet
<1>2. \A T \in SUBSET S : T # {} => ch[T] \in T BY DEF Chosen
<1>3. PICK g \in [SUBSET S -> Int] : Follows(g, S, 0, ch, step)
  <2>1. step \in [S \X Int -> Int] OBVIOUS
  <2>2. 0 \in Int OBVIOUS
  <2> HIDE DEF ch, step
  <2> QED BY <1>2, <2>1, <2>2, RecursionExists, Zenon
<1>4. ASSUME NEW T \in SUBSET S, T # {} PROVE g[T] = f[ch[T]] + g[T \ {ch[T]}]
  <2>1. ch[T] \in S /\ T \ {ch[T]} \in SUBSET S BY <1>2, <1>4
  <2> HIDE DEF ch
  <2>2. <<ch[T], g[T \ {ch[T]}]>> \in S \X Int BY <2>1
  <2> QED BY <1>3, <1>4, <2>2 DEF Follows
<1>5. Solves(g)
  <2>1. g[{}] = 0 BY <1>3 DEF Follows
  <2>2. \A T \in SUBSET S : ch[T] = CHOOSE x \in T : TRUE BY DEF Chosen
  <2> HIDE DEF ch
  <2>3. ASSUME NEW T \in SUBSET S
        PROVE  g[T] = IF T = {} THEN 0 ELSE h[CHOOSE x \in T : TRUE] + g[T \ {CHOOSE x \in T : TRUE}]
    <3>1. ASSUME T # {} PROVE f[ch[T]] = h[ch[T]]
      <4>1. ch[T] \in S BY <1>2, <3>1
      <4> QED BY <4>1
    <3>2. CASE T = {} BY <2>1, <3>2
    <3>3. CASE T # {}
      <4>1. g[T] = h[ch[T]] + g[T \ {ch[T]}] BY <1>4, <3>1, <3>3
      <4>2. ch[T] = CHOOSE x \in T : TRUE BY <2>2
      <4> QED BY <3>3, <4>1, <4>2, Zenon
    <3> QED BY <3>2, <3>3
  <2> QED BY <2>3, Zenon
<1>6. Solves(it)
  <2> HIDE DEF Solves
  <2> QED BY <1>5, Zenon
<1>7. it[S] = g[S]
  <2> HIDE DEF it
  <2>1. it[{}] = 0 /\ g[{}] = 0 BY <1>5, <1>6, Zenon
  <2> DEFINE bad == {T \in SUBSET S : it[T] # g[T]}
  <2> SUFFICES ASSUME bad # {} PROVE FALSE OBVIOUS
  <2>2. PICK T \in bad : \A x \in T : T \ {x} \notin bad
    <3>1. bad \in SUBSET SUBSET S OBVIOUS
    <3> HIDE DEF bad
    <3> QED BY <3>1, LeastSubset
  <2>3. T \in SUBSET S /\ it[T] # g[T] /\ T # {} BY <2>1
  <2>4. PICK x \in T : x = CHOOSE y \in T : TRUE BY <2>3
  <2>5. it[T] = h[x] + it[T \ {x}] BY <1>6, <2>3, <2>4, Zenon
  <2>6. g[T] = h[x] + g[T \ {x}] BY <1>5, <2>3, <2>4, Zenon
  <2>7. it[T \ {x}] = g[T \ {x}] BY <2>2, <2>3
  <2> QED BY <2>3, <2>5, <2>6, <2>7, Zenon
<1> QED BY <1>1, <1>3, <1>4, <1>7 DEF Sums, Follows

\* The sum of a function is the value of such a g at the whole domain.
LEMMA SumIsFold ==
    ASSUME NEW S, IsFiniteSet(S), NEW f \in [S -> Int]
    PROVE  \E g : Sums(g, f, S) /\ Total(f) = g[S]
<1>1. PICK g : Sums(g, f, S) /\ SumFunctionOnSet(f, S) = g[S] BY SumOnSetIsFold
<1>2. Total(f) = SumFunctionOnSet(f, S) BY DEF Total, FoldFunction, SumFunctionOnSet
<1> QED BY <1>1, <1>2

\* Any element of a set may be taken first.
LEMMA SumsTakeAny ==
    ASSUME NEW S, IsFiniteSet(S), NEW f \in [S -> Int], NEW g, Sums(g, f, S),
           NEW T \in SUBSET S, NEW x \in T
    PROVE  g[T] = f[x] + g[T \ {x}]
<1> DEFINE bad == {U \in SUBSET S : \E y \in U : g[U] # f[y] + g[U \ {y}]}
<1> SUFFICES ASSUME bad # {} PROVE FALSE OBVIOUS
<1>1. PICK U \in bad : \A y \in U : U \ {y} \notin bad
  <2>1. bad \in SUBSET SUBSET S OBVIOUS
  <2> HIDE DEF bad
  <2> QED BY <2>1, LeastSubset
<1>2. PICK y \in U : g[U] # f[y] + g[U \ {y}] OBVIOUS
<1>3. PICK z \in U : g[U] = f[z] + g[U \ {z}] BY <1>2 DEF Sums, Chosen
<1>4. y # z BY <1>2, <1>3
<1>5. g[U \ {z}] = f[y] + g[(U \ {z}) \ {y}] BY <1>1, <1>4
<1>6. g[U \ {y}] = f[z] + g[(U \ {y}) \ {z}] BY <1>1, <1>4
<1>7. (U \ {z}) \ {y} = (U \ {y}) \ {z} OBVIOUS
<1>8. f[y] \in Int /\ f[z] \in Int /\ g[(U \ {y}) \ {z}] \in Int BY DEF Sums
<1> DEFINE rest == g[(U \ {y}) \ {z}]
<1>9. g[U] # f[y] + (f[z] + rest) /\ g[U] = f[z] + (f[y] + rest)
  BY <1>2, <1>3, <1>5, <1>6, <1>7, Zenon
<1>10. rest \in Int BY <1>8
<1> HIDE DEF rest, bad
<1>11. f[y] + (f[z] + rest) = f[z] + (f[y] + rest) BY <1>8, <1>10
<1> QED BY <1>9, <1>11, Zenon

\* Sums of functions that agree on a set are equal there.
LEMMA SumsAgree ==
    ASSUME NEW S, IsFiniteSet(S), NEW f, NEW h, NEW F, NEW H, Sums(F, f, S), Sums(H, h, S),
           NEW T \in SUBSET S, \A x \in T : f[x] = h[x]
    PROVE  F[T] = H[T]
<1> DEFINE bad == {U \in SUBSET T : F[U] # H[U]}
<1> SUFFICES ASSUME bad # {} PROVE FALSE OBVIOUS
<1>1. PICK U \in bad : \A x \in U : U \ {x} \notin bad
  <2>1. bad \in SUBSET SUBSET T /\ IsFiniteSet(T) BY FS_Subset
  <2> HIDE DEF bad
  <2> QED BY <2>1, LeastSubset
<1>2. U \in SUBSET T /\ F[U] # H[U] OBVIOUS
<1>3. U # {} BY <1>2 DEF Sums
<1>4. PICK x \in U : x = Chosen(S)[U] BY <1>2, <1>3 DEF Chosen
<1>5. F[U] = f[x] + F[U \ {x}] /\ H[U] = h[x] + H[U \ {x}]
  BY <1>2, <1>3, <1>4, Zenon DEF Sums
<1>6. F[U \ {x}] = H[U \ {x}] BY <1>1, <1>2
<1>7. f[x] = h[x] BY <1>2
<1> QED BY <1>2, <1>5, <1>6, <1>7, Zenon

\* The sum of a function on a finite set is an integer.
LEMMA SumType ==
    ASSUME NEW S, IsFiniteSet(S), NEW f \in [S -> Int] PROVE Total(f) \in Int
<1>1. PICK g : Sums(g, f, S) /\ Total(f) = g[S] BY SumIsFold
<1>2. g[S] \in Int BY <1>1 DEF Sums
<1> QED BY <1>1, <1>2, Zenon

\* The sum of a function on a set is that of its values there.
LEMMA SumOnSet ==
    ASSUME NEW S, IsFiniteSet(S), NEW h, NEW f \in [S -> Int], \A x \in S : h[x] = f[x]
    PROVE  SumFunctionOnSet(h, S) = Total(f)
<1>1. PICK F : Sums(F, f, S) /\ Total(f) = F[S] BY SumIsFold
<1>2. PICK H : Sums(H, f, S) /\ SumFunctionOnSet(h, S) = H[S] BY SumOnSetIsFold
<1>3. S \in SUBSET S OBVIOUS
<1>4. F[S] = H[S] BY <1>1, <1>2, <1>3, SumsAgree
<1> QED BY <1>1, <1>2, <1>4

\* A sum of ones and zeros counts the ones.
LEMMA SumCounts ==
    ASSUME NEW S, IsFiniteSet(S), NEW f \in [S -> Int], NEW T \in SUBSET S,
           \A x \in S : f[x] = IF x \in T THEN 1 ELSE 0
    PROVE  Total(f) = Cardinality(T)
<1>1. PICK F : Sums(F, f, S) /\ Total(f) = F[S] BY SumIsFold
<1> DEFINE bad == {U \in SUBSET S : F[U] # Cardinality(U \cap T)}
<1> SUFFICES ASSUME bad # {} PROVE FALSE
  <2>1. S \in SUBSET S /\ S \cap T = T OBVIOUS
  <2> QED BY <1>1, <2>1
<1>2. PICK U \in bad : \A x \in U : U \ {x} \notin bad
  <2>1. bad \in SUBSET SUBSET S OBVIOUS
  <2> HIDE DEF bad
  <2> QED BY <2>1, LeastSubset
<1>3. U \in SUBSET S /\ F[U] # Cardinality(U \cap T) OBVIOUS
<1>4. U # {}
  <2>1. {} \cap T = {} OBVIOUS
  <2>2. F[{}] = 0 /\ Cardinality({}) = 0 BY <1>1, FS_EmptySet DEF Sums
  <2> QED BY <1>3, <2>1, <2>2
<1>5. PICK x \in U : TRUE BY <1>4
<1>6. F[U \ {x}] = Cardinality((U \ {x}) \cap T) BY <1>2, <1>3
<1>7. F[U] = f[x] + F[U \ {x}] BY <1>1, <1>3, SumsTakeAny
<1>8. PICK V : V = U \cap T OBVIOUS
<1>9. IsFiniteSet(V) /\ Cardinality(V) \in Nat
  <2>1. V \subseteq S BY <1>3, <1>8
  <2>2. IsFiniteSet(V) BY <2>1, FS_Subset
  <2> QED BY <2>2, FS_CardinalityType
<1>10. CASE x \in T
  <2>1. x \in V /\ (U \ {x}) \cap T = V \ {x} BY <1>8, <1>10
  <2>2. Cardinality(V \ {x}) = Cardinality(V) - 1 BY <1>9, <2>1, FS_RemoveElement
  <2>3. f[x] = 1 BY <1>3, <1>10
  <2>4. F[U \ {x}] = Cardinality(V) - 1 BY <1>6, <2>1, <2>2, Zenon
  <2>5. F[U] = Cardinality(V) BY <1>7, <1>9, <2>3, <2>4
  <2> QED BY <1>3, <1>8, <2>5
<1>11. CASE x \notin T
  <2>1. (U \ {x}) \cap T = V BY <1>8, <1>11
  <2>2. f[x] = 0 BY <1>3, <1>11
  <2>3. F[U \ {x}] = Cardinality(V) BY <1>6, <2>1
  <2>4. F[U] = Cardinality(V) BY <1>7, <1>9, <2>2, <2>3
  <2> QED BY <1>3, <1>8, <2>4
<1> QED BY <1>10, <1>11

\* A function that is zero everywhere has the sum zero.
LEMMA SumOfZeros ==
    ASSUME NEW S, IsFiniteSet(S), NEW f \in [S -> Int], \A x \in S : f[x] = 0
    PROVE  Total(f) = 0
<1>1. PICK g : Sums(g, f, S) /\ Total(f) = g[S] BY SumIsFold
<1> DEFINE bad == {T \in SUBSET S : g[T] # 0}
<1> SUFFICES ASSUME bad # {} PROVE FALSE BY <1>1
<1>2. PICK T \in bad : \A x \in T : T \ {x} \notin bad
  <2>1. bad \in SUBSET SUBSET S OBVIOUS
  <2> HIDE DEF bad
  <2> QED BY <2>1, LeastSubset
<1>3. T # {} /\ T \in SUBSET S BY <1>1 DEF Sums
<1>4. PICK x \in T : g[T] = f[x] + g[T \ {x}] BY <1>1, <1>3 DEF Sums, Chosen
<1>5. f[x] = 0 /\ g[T \ {x}] = 0 BY <1>2, <1>3, <1>4
<1> QED BY <1>2, <1>4, <1>5

\* A function that differs from another in one place has a sum that differs by as much.
LEMMA SumOfUpdate ==
    ASSUME NEW S, IsFiniteSet(S), NEW f \in [S -> Int], NEW h \in [S -> Int], NEW x \in S,
           \A y \in S \ {x} : h[y] = f[y]
    PROVE  Total(h) = Total(f) + h[x] - f[x]
<1>1. PICK F : Sums(F, f, S) /\ Total(f) = F[S] BY SumIsFold
<1>2. PICK H : Sums(H, h, S) /\ Total(h) = H[S] BY SumIsFold
<1>3. S \in SUBSET S /\ S \ {x} \in SUBSET S /\ \A y \in S \ {x} : f[y] = h[y] OBVIOUS
<1>4. Sums(F, f, S) /\ Sums(H, h, S) BY <1>1, <1>2
<1>5. F[S] = f[x] + F[S \ {x}] BY <1>3, <1>4, SumsTakeAny
<1>6. H[S] = h[x] + H[S \ {x}] BY <1>3, <1>4, SumsTakeAny
<1>7. F[S \ {x}] = H[S \ {x}] BY <1>3, <1>4, SumsAgree
<1>8. F[S \ {x}] \in Int BY <1>3, <1>4 DEF Sums
<1>9. f[x] \in Int /\ h[x] \in Int OBVIOUS
<1>10. h[x] + F[S \ {x}] = f[x] + F[S \ {x}] + h[x] - f[x] BY <1>8, <1>9
<1> QED BY <1>1, <1>2, <1>5, <1>6, <1>7, <1>10, Zenon

\* The sum over the numbers up to n, term by term.
LEMMA SumInOrder ==
    ASSUME NEW n \in Nat, NEW f \in [1 .. n -> Int], NEW F, F[0] = 0,
           \A i \in 1 .. n : F[i] = F[i - 1] + f[i]
    PROVE  Total(f) = F[n]
<1>1. IsFiniteSet(1 .. n) BY FS_Interval
<1>2. PICK g : Sums(g, f, 1 .. n) /\ Total(f) = g[1 .. n] BY <1>1, SumIsFold
<1> DEFINE P == {m \in Nat : m <= n => g[1 .. m] = F[m]}
<1>3. 0 \in P
  <2>1. 1 .. 0 = {} OBVIOUS
  <2> QED BY <1>2, <2>1 DEF Sums
<1>4. ASSUME NEW m \in P PROVE m + 1 \in P
  <2> SUFFICES ASSUME m + 1 <= n PROVE g[1 .. m + 1] = F[m + 1] OBVIOUS
  <2>1. m \in Nat /\ m + 1 \in 1 .. n /\ (m + 1) - 1 = m /\ g[1 .. m] = F[m] OBVIOUS
  <2>2. /\ 1 .. m + 1 \in SUBSET (1 .. n) /\ m + 1 \in 1 .. m + 1 /\ 1 .. m \in SUBSET (1 .. n)
        /\ (1 .. m + 1) \ {m + 1} = 1 .. m
    BY <2>1
  <2> HIDE DEF P
  <2>3. g[1 .. m + 1] = f[m + 1] + g[1 .. m]
    <3>1. PICK S, T, x : S = 1 .. n /\ T = 1 .. m + 1 /\ x = m + 1 OBVIOUS
    <3>2. /\ IsFiniteSet(S) /\ f \in [S -> Int] /\ Sums(g, f, S) /\ T \in SUBSET S /\ x \in T
          /\ T \ {x} = 1 .. m
      BY <1>1, <1>2, <2>2, <3>1
    <3>3. g[T] = f[x] + g[T \ {x}] BY <3>2, SumsTakeAny
    <3> QED BY <3>1, <3>2, <3>3
  <2>4. f[m + 1] \in Int /\ g[1 .. m] \in Int BY <1>2, <2>1, <2>2 DEF Sums
  <2>5. F[m + 1] = F[m] + f[m + 1] BY <2>1
  <2> QED BY <2>1, <2>3, <2>4, <2>5
<1>5. P = Nat
  <2>1. P \subseteq Nat OBVIOUS
  <2> HIDE DEF P
  <2> QED BY <1>3, <1>4, <2>1, InductionOnNat
<1>6. n \in P BY <1>5
<1> QED BY <1>2, <1>6

\* The terms of f under the names h gives them.
Along(f, h) == [x \in DOMAIN h |-> f[h[x]]]

\* A sum does not depend on the names of its terms.
LEMMA SumOverBijection ==
    ASSUME NEW S, IsFiniteSet(S), NEW R, IsFiniteSet(R), NEW f \in [R -> Int],
           NEW h \in Bijection(S, R)
    PROVE  Total(Along(f, h)) = Total(f)
<1> /\ h \in [S -> R] /\ \A x, y \in S : h[x] = h[y] => x = y
    /\ \A z \in R : \E x \in S : h[x] = z
  BY DEF Bijection, Injection, Surjection, IsInjective
<1>0. PICK e \in [S -> Int] : e = Along(f, h)
  <2>1. Along(f, h) \in [S -> Int] BY DEF Along
  <2> QED BY <2>1, Zenon
<1>1. \A x \in S : e[x] = f[h[x]] BY <1>0 DEF Along
<1>2. PICK E : Sums(E, e, S) /\ Total(e) = E[S] BY SumIsFold
<1>3. PICK F : Sums(F, f, R) /\ Total(f) = F[R] BY SumIsFold
<1> DEFINE Image(T) == {h[x] : x \in T}
           bad == {T \in SUBSET S : E[T] # F[Image(T)]}
<1>4. bad = {}
  <2> SUFFICES ASSUME bad # {} PROVE FALSE OBVIOUS
  <2>1. PICK T \in bad : \A x \in T : T \ {x} \notin bad
    <3>1. bad \in SUBSET SUBSET S OBVIOUS
    <3> HIDE DEF bad
    <3> QED BY <3>1, LeastSubset
  <2>2. T \in SUBSET S /\ E[T] # F[Image(T)] OBVIOUS
  <2>3. T # {}
    <3>1. Image({}) = {} OBVIOUS
    <3> QED BY <1>2, <1>3, <2>2, <3>1 DEF Sums
  <2>4. PICK x \in T : TRUE BY <2>3
  <2>5. E[T \ {x}] = F[Image(T \ {x})] BY <2>1, <2>2
  <2>6. Image(T) \in SUBSET R /\ h[x] \in Image(T) /\ Image(T) \ {h[x]} = Image(T \ {x}) BY <2>2
  <2> HIDE DEF bad, Image
  <2>7. E[T] = e[x] + E[T \ {x}] BY <1>2, <2>2, SumsTakeAny
  <2>8. F[Image(T)] = f[h[x]] + F[Image(T) \ {h[x]}]
    <3>1. PICK U, y : U = Image(T) /\ y = h[x] OBVIOUS
    <3>2. U \in SUBSET R /\ y \in U BY <2>6, <3>1
    <3>3. F[U] = f[y] + F[U \ {y}] BY <1>3, <3>2, SumsTakeAny
    <3> QED BY <3>1, <3>3
  <2>9. e[x] = f[h[x]] BY <1>1, <2>2
  <2> QED BY <2>2, <2>5, <2>6, <2>7, <2>8, <2>9
<1>5. Image(S) = R OBVIOUS
<1>6. E[S] = F[Image(S)]
  <2>1. S \in SUBSET S OBVIOUS
  <2> QED BY <1>4, <2>1
<1> QED BY <1>0, <1>2, <1>3, <1>5, <1>6, Zenon

\* The terms of f that p puts into part z.
PartOf(f, p, z) == [x \in {y \in DOMAIN f : p[y] = z} |-> f[x]]

\* A sum may be taken part by part.
LEMMA SumByParts ==
    ASSUME NEW S, IsFiniteSet(S), NEW R, IsFiniteSet(R), NEW f \in [S -> Int], NEW p \in [S -> R]
    PROVE  Total(f) = Total([z \in R |-> Total(PartOf(f, p, z))])
<1> DEFINE Part(T, z) == {y \in T : p[y] = z}
<1>1. PICK F : Sums(F, f, S) /\ Total(f) = F[S] BY SumIsFold
<1>2. \A T \in SUBSET S, z \in R : Part(T, z) \in SUBSET S OBVIOUS
<1>3. ASSUME NEW T \in SUBSET S, NEW x \in T
      PROVE  /\ p[x] \in R
             /\ x \in Part(T, p[x]) /\ Part(T, p[x]) \ {x} = Part(T \ {x}, p[x])
             /\ \A z \in R \ {p[x]} : Part(T, z) = Part(T \ {x}, z)
  OBVIOUS
<1> DEFINE Sum(T) == [z \in R |-> F[Part(T, z)]]
           bad == {T \in SUBSET S : F[T] # Total(Sum(T))}
<1>4. \A T \in SUBSET S : Sum(T) \in [R -> Int] BY <1>1, <1>2 DEF Sums
<1>5. bad = {}
  <2> SUFFICES ASSUME bad # {} PROVE FALSE OBVIOUS
  <2>1. PICK T \in bad : \A x \in T : T \ {x} \notin bad
    <3>1. bad \in SUBSET SUBSET S OBVIOUS
    <3> HIDE DEF bad
    <3> QED BY <3>1, LeastSubset
  <2>2. T \in SUBSET S /\ F[T] # Total(Sum(T)) OBVIOUS
  <2>3. T # {}
    <3> SUFFICES ASSUME T = {} PROVE FALSE OBVIOUS
    <3>1. \A z \in R : Part({}, z) = {} OBVIOUS
    <3>2. \A z \in R : Sum({})[z] = 0 BY <1>1, <3>1 DEF Sums
    <3>3. Sum({}) \in [R -> Int] BY <1>4
    <3> HIDE DEF Sum, bad
    <3>4. Total(Sum({})) = 0 BY <3>2, <3>3, SumOfZeros
    <3> QED BY <1>1, <2>2, <3>4 DEF Sums
  <2>4. PICK x \in T : TRUE BY <2>3
  <2>5. F[T \ {x}] = Total(Sum(T \ {x})) /\ T \ {x} \in SUBSET S BY <2>1, <2>2
  <2>6. F[T] = f[x] + F[T \ {x}] BY <1>1, <2>2, SumsTakeAny
  <2>7. Sum(T)[p[x]] = f[x] + Sum(T \ {x})[p[x]]
    <3>1. F[Part(T, p[x])] = f[x] + F[Part(T, p[x]) \ {x}]
      <4>1. PICK U \in SUBSET S : U = Part(T, p[x]) /\ x \in U
        <5>1. Part(T, p[x]) \in SUBSET S /\ x \in Part(T, p[x]) BY <2>2
        <5> HIDE DEF Part
        <5> QED BY <5>1, Zenon
      <4>2. F[U] = f[x] + F[U \ {x}] BY <1>1, <4>1, SumsTakeAny
      <4> QED BY <4>1, <4>2
    <3>2. Part(T, p[x]) \ {x} = Part(T \ {x}, p[x]) /\ p[x] \in R BY <1>3, <2>2
    <3> HIDE DEF Part
    <3> QED BY <3>1, <3>2
  <2>8. \A z \in R \ {p[x]} : Sum(T)[z] = Sum(T \ {x})[z]
    <3>1. \A z \in R \ {p[x]} : Part(T, z) = Part(T \ {x}, z) BY <1>3, <2>2
    <3> HIDE DEF Part
    <3> QED BY <3>1
  <2>9. PICK G, H : G = Sum(T) /\ H = Sum(T \ {x}) OBVIOUS
  <2>10. G \in [R -> Int] /\ H \in [R -> Int] /\ p[x] \in R BY <1>3, <1>4, <2>2, <2>5, <2>9
  <2>11. Total(G) = Total(H) + G[p[x]] - H[p[x]]
    <3>1. \A z \in R \ {p[x]} : G[z] = H[z] BY <2>8, <2>9
    <3> QED BY <2>10, <3>1, SumOfUpdate
  <2>12. Total(H) \in Int /\ G[p[x]] \in Int /\ H[p[x]] \in Int BY <2>10, SumType
  <2>13. f[x] \in Int /\ F[T \ {x}] = Total(H) /\ F[T] # Total(G) /\ G[p[x]] = f[x] + H[p[x]]
    BY <2>2, <2>5, <2>7, <2>9
  <2> HIDE DEF Sum, bad
  <2> QED BY <2>6, <2>11, <2>12, <2>13
<1>6. ASSUME NEW z \in R
      PROVE  F[Part(S, z)] = Total(PartOf(f, p, z))
  <2>1. PICK U \in SUBSET S : U = Part(S, z) /\ U = {y \in S : p[y] = z} OBVIOUS
  <2>2. PICK e \in [U -> Int] : e = [x \in U |-> f[x]] /\ e = PartOf(f, p, z)
    <3>1. [x \in U |-> f[x]] \in [U -> Int] OBVIOUS
    <3>2. [x \in U |-> f[x]] = PartOf(f, p, z) BY <2>1 DEF PartOf
    <3> QED BY <3>1, <3>2, Zenon
  <2>3. IsFiniteSet(U) BY FS_Subset
  <2>4. PICK E : Sums(E, e, U) /\ Total(e) = E[U] BY <2>3, SumIsFold
  <2>5. E[U] = F[U]
    <3> DEFINE worse == {T \in SUBSET U : E[T] # F[T]}
    <3> SUFFICES ASSUME worse # {} PROVE FALSE
      <4>1. U \in SUBSET U OBVIOUS
      <4> QED BY <4>1
    <3>1. PICK T \in worse : \A x \in T : T \ {x} \notin worse
      <4>1. worse \in SUBSET SUBSET U OBVIOUS
      <4> HIDE DEF worse
      <4> QED BY <2>3, <4>1, LeastSubset
    <3>2. T \in SUBSET U /\ T \in SUBSET S /\ E[T] # F[T] /\ T # {} BY <1>1, <2>4 DEF Sums
    <3>3. PICK x \in T : TRUE BY <3>2
    <3>4. E[T \ {x}] = F[T \ {x}] BY <3>1, <3>2
    <3>5. E[T] = e[x] + E[T \ {x}] BY <2>3, <2>4, <3>2, SumsTakeAny
    <3>6. F[T] = f[x] + F[T \ {x}]
      <4>1. T \in SUBSET S /\ x \in T BY <3>2
      <4> QED BY <1>1, <4>1, SumsTakeAny
    <3>7. e[x] = f[x]
      <4>1. x \in U BY <3>2
      <4> QED BY <2>2, <4>1
    <3> QED BY <3>2, <3>4, <3>5, <3>6, <3>7
  <2> QED BY <2>1, <2>2, <2>4, <2>5
<1>7. S \in SUBSET S OBVIOUS
<1>8. F[S] = Total(Sum(S)) BY <1>5, <1>7
<1>9. Sum(S) = [z \in R |-> Total(PartOf(f, p, z))] BY <1>6, Zenon
<1> QED BY <1>1, <1>8, <1>9

\* The sums, whichever element is taken first.
TakesAny(g, f, S) == \A T \in SUBSET S : \A x \in T : g[T] = f[x] + g[T \ {x}]
LEMMA SumsTakeEvery ==
    ASSUME NEW S, IsFiniteSet(S), NEW f \in [S -> Int], NEW g, Sums(g, f, S)
    PROVE  TakesAny(g, f, S)
<1>1. ASSUME NEW T \in SUBSET S, NEW x \in T PROVE g[T] = f[x] + g[T \ {x}] BY SumsTakeAny
<1> QED BY <1>1, Zenon DEF TakesAny

\* A sum of larger terms is larger.
LEMMA SumOfLarger ==
    ASSUME NEW S, IsFiniteSet(S), NEW f \in [S -> Int], NEW h \in [S -> Int],
           \A x \in S : f[x] <= h[x]
    PROVE  Total(f) <= Total(h)
<1>1. PICK F : Sums(F, f, S) /\ Total(f) = F[S] BY SumIsFold
<1>2. PICK H : Sums(H, h, S) /\ Total(h) = H[S] BY SumIsFold
<1>0. TakesAny(F, f, S) /\ TakesAny(H, h, S) BY <1>1, <1>2, SumsTakeEvery, Zenon
<1> DEFINE bad == {U \in SUBSET S : ~(F[U] <= H[U])}
<1> SUFFICES ASSUME bad # {} PROVE FALSE
  <2>1. S \in SUBSET S OBVIOUS
  <2> QED BY <1>1, <1>2, <2>1
<1>3. PICK T \in bad : \A x \in T : T \ {x} \notin bad
  <2>1. bad \in SUBSET SUBSET S OBVIOUS
  <2> HIDE DEF bad
  <2> QED BY <2>1, LeastSubset
<1>4. T \in SUBSET S /\ ~(F[T] <= H[T]) /\ T # {}
  <2>1. T \in SUBSET S /\ ~(F[T] <= H[T]) OBVIOUS
  <2>2. F[{}] = 0 /\ H[{}] = 0 BY <1>1, <1>2 DEF Sums
  <2> HIDE DEF bad
  <2> QED BY <2>1, <2>2
<1>5. PICK x \in T : TRUE BY <1>4
<1>6. F[T \ {x}] <= H[T \ {x}] /\ T \ {x} \in SUBSET S BY <1>3, <1>4
<1>7. F[T] = f[x] + F[T \ {x}] BY <1>0, <1>4, Zenon DEF TakesAny
<1>8. H[T] = h[x] + H[T \ {x}] BY <1>0, <1>4, Zenon DEF TakesAny
<1>9. f[x] \in Int /\ h[x] \in Int /\ f[x] <= h[x] BY <1>4
<1>10. F[T \ {x}] \in Int /\ H[T \ {x}] \in Int BY <1>1, <1>2, <1>6 DEF Sums
<1> QED BY <1>4, <1>6, <1>7, <1>8, <1>9, <1>10
=============================================================================

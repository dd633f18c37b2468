----------------------------- MODULE DataProofs -----------------------------
(***************************************************************************)
(* Proofs about the data of a job: the folds over sequences, the lines of  *)
(* a text and its chunks, sums of pairs by key, the shuffle, the sort, the *)
(* streaming reduce and the merge, and URLs dealt to the slots.            *)
(***************************************************************************)
EXTENDS StreamReduce, DataInduction

-----------------------------------------------------------------------------
(* Sequences *)

\* Induction up to a bound.
LEMMA InductionUpTo ==
    ASSUME NEW L \in Nat, NEW P, 0 \in P, \A n \in 1 .. L : n - 1 \in P => n \in P
    PROVE  \A n \in 0 .. L : n \in P
<1> DEFINE Q == {n \in Nat : n <= L => n \in P}
<1>1. 0 \in Q OBVIOUS
<1>2. ASSUME NEW n \in Q PROVE n + 1 \in Q
  <2>1. CASE n + 1 <= L
    <3>1. n + 1 \in 1 .. L /\ (n + 1) - 1 = n /\ n \in P BY <2>1
    <3> QED BY <3>1
  <2>2. CASE ~(n + 1 <= L) BY <2>2
  <2> QED BY <2>1, <2>2
<1>3. Q = Nat
  <2>1. Q \subseteq Nat OBVIOUS
  <2> HIDE DEF Q
  <2> QED BY <1>1, <1>2, <2>1, InductionOnNat
<1> QED BY <1>3

\* Induction along a sequence.
LEMMA InductionOnSeq ==
    ASSUME NEW A, NEW P, <<>> \in P,
           \A s \in Seq(A), e \in A : s \in P => Append(s, e) \in P
    PROVE  \A s \in Seq(A) : s \in P
<1> DEFINE Q == {n \in Nat : \A s \in Seq(A) : Len(s) = n => s \in P}
<1>1. 0 \in Q
  <2>1. \A s \in Seq(A) : Len(s) = 0 => s = <<>> OBVIOUS
  <2> QED BY <2>1
<1>2. ASSUME NEW n \in Q PROVE n + 1 \in Q
  <2> SUFFICES ASSUME NEW s \in Seq(A), Len(s) = n + 1 PROVE s \in P OBVIOUS
  <2>1. PICK t \in Seq(A), e \in A : s = Append(t, e) /\ Len(t) = n
    <3>1. SubSeq(s, 1, n) \in Seq(A) /\ s[n + 1] \in A /\ Len(SubSeq(s, 1, n)) = n OBVIOUS
    <3>2. s = Append(SubSeq(s, 1, n), s[n + 1]) OBVIOUS
    <3> QED BY <3>1, <3>2
  <2>2. t \in P BY <2>1
  <2> QED BY <2>1, <2>2
<1>3. Q = Nat
  <2>1. Q \subseteq Nat OBVIOUS
  <2> HIDE DEF Q
  <2> QED BY <1>1, <1>2, <2>1, InductionOnNat
<1> SUFFICES ASSUME NEW s \in Seq(A) PROVE s \in P OBVIOUS
<1>4. Len(s) \in Q BY <1>3
<1> QED BY <1>4

-----------------------------------------------------------------------------
(* Folds over sequences *)

\* A set of positions that is not empty has a largest one.
LEMMA MaxPosition ==
    ASSUME NEW n \in Nat, NEW T \in SUBSET (1 .. n), T # {}
    PROVE  Max(T) \in T /\ \A i \in T : i <= Max(T)
<1> DEFINE bound == {m \in Nat : \A i \in T : i <= m}
<1>1. n \in bound OBVIOUS
<1>2. PICK m \in bound : \A k \in bound : ~(<<k, m>> \in OpToRel(<, Nat))
  <2>1. bound \subseteq Nat /\ bound # {} BY <1>1
  <2> HIDE DEF bound
  <2> QED BY <2>1, NatLessThanWellFounded, WFMin
<1>3. PICK i \in T : TRUE OBVIOUS
<1>4. m \in Nat /\ m >= i /\ i >= 1 /\ m - 1 \in Nat BY <1>3
<1>5. <<m - 1, m>> \in OpToRel(<, Nat) BY <1>4 DEF OpToRel
<1>6. m - 1 \notin bound BY <1>2, <1>5
<1>7. m \in T
  <2>1. PICK j \in T : ~(j <= m - 1) BY <1>4, <1>6
  <2> QED BY <1>4, <2>1
<1> QED BY <1>7 DEF Max

\* The last position of a prefix, and the prefix without it.
LEMMA PrefixSteps ==
    ASSUME NEW n \in Nat, n # 0 PROVE Max(1 .. n) = n /\ (1 .. n) \ {n} = 1 .. (n - 1) /\ 1 .. n # {}
<1>1. n \in 1 .. n /\ \A i \in 1 .. n : i <= n OBVIOUS
<1>2. Max(1 .. n) \in 1 .. n /\ \A i \in 1 .. n : i <= Max(1 .. n)
  BY <1>1, MaxPosition
<1> QED BY <1>1, <1>2

\* The last of some positions of a sequence is one of them.
LEMMA LastOfSome ==
    ASSUME NEW A, NEW s \in Seq(A), NEW T \in SUBSET DOMAIN s, T # {}
    PROVE  Max(T) \in T
<1>1. Len(s) \in Nat /\ DOMAIN s = 1 .. Len(s) OBVIOUS
<1> QED BY <1>1, MaxPosition

\* g takes the positions of s in their order, starting with b.
Folds(g, s, b, step) ==
    /\ g[{}] = b
    /\ \A T \in SUBSET DOMAIN s : T # {} => g[T] = step[<<g[T \ {Max(T)}], s[Max(T)]>>]

\* The recursion behind FoldLeft has a solution.
LEMMA FoldExists ==
    ASSUME NEW A, NEW V, NEW s \in Seq(A), NEW b \in V, NEW step \in [V \X A -> V]
    PROVE  \E g \in [SUBSET DOMAIN s -> V] : Folds(g, s, b, step)
<1> DEFINE ch == [T \in SUBSET DOMAIN s |-> Max(T)]
           turned == [p \in (DOMAIN s) \X V |-> step[<<p[2], s[p[1]]>>]]
<1>1. Len(s) \in Nat /\ DOMAIN s = 1 .. Len(s) OBVIOUS
<1>2. \A T \in SUBSET DOMAIN s : T # {} => ch[T] \in T BY <1>1, MaxPosition
<1>3. turned \in [(DOMAIN s) \X V -> V] OBVIOUS
<1>4. IsFiniteSet(DOMAIN s) BY <1>1, FS_Interval
<1>5. PICK g \in [SUBSET DOMAIN s -> V] : Follows(g, DOMAIN s, b, ch, turned)
  <2> HIDE DEF ch, turned
  <2> QED BY <1>2, <1>3, <1>4, RecursionExists, Zenon
<1>6. ASSUME NEW T \in SUBSET DOMAIN s, T # {}
      PROVE  g[T] = step[<<g[T \ {Max(T)}], s[Max(T)]>>]
  <2>1. PICK m \in T : m = Max(T) /\ ch[T] = m BY <1>2, <1>6
  <2>2. g[T] = turned[<<m, g[T \ {m}]>>] BY <1>5, <1>6, <2>1 DEF Follows
  <2>3. <<m, g[T \ {m}]>> \in (DOMAIN s) \X V BY <2>1
  <2> QED BY <2>1, <2>2, <2>3
<1> QED BY <1>5, <1>6 DEF Follows, Folds

\* v is what is left when g has taken all positions.
FoldsTo(s, b, step, v) == \E g : Folds(g, s, b, step) /\ v = g[DOMAIN s]

\* A sequence of elements of a set is one of elements of a larger set.
LEMMA SeqSubset == ASSUME NEW A, NEW B, A \subseteq B, NEW s \in Seq(A) PROVE s \in Seq(B)
OBVIOUS

\* A function on the positions of a sequence is a sequence.
LEMMA MappedSeq == ASSUME NEW A, NEW V, NEW s \in Seq(A), NEW f \in [DOMAIN s -> V] PROVE f \in Seq(V)
<1>1. Len(s) \in Nat /\ f \in [1 .. Len(s) -> V] OBVIOUS
<1> QED BY <1>1

\* Two solutions of one recursion on the positions are equal at the whole sequence.
LEMMA SolutionsAgree ==
    ASSUME NEW A, NEW s \in Seq(A), NEW f, NEW g, f[{}] = g[{}],
           \A T \in SUBSET DOMAIN s : T # {} /\ f[T \ {Max(T)}] = g[T \ {Max(T)}] => f[T] = g[T]
    PROVE  f[DOMAIN s] = g[DOMAIN s]
<1> DEFINE bad == {T \in SUBSET DOMAIN s : f[T] # g[T]}
<1> SUFFICES ASSUME bad # {} PROVE FALSE OBVIOUS
<1>1. IsFiniteSet(DOMAIN s)
  <2>1. Len(s) \in Nat /\ DOMAIN s = 1 .. Len(s) OBVIOUS
  <2> QED BY <2>1, FS_Interval
<1>2. PICK T \in bad : \A x \in T : T \ {x} \notin bad
  <2>1. bad \in SUBSET SUBSET DOMAIN s OBVIOUS
  <2> HIDE DEF bad
  <2> QED BY <1>1, <2>1, LeastSubset
<1>3. T \in SUBSET DOMAIN s /\ f[T] # g[T] /\ T # {} OBVIOUS
<1>4. PICK m \in T : m = Max(T) BY <1>3, LastOfSome
<1>5. f[T \ {m}] = g[T \ {m}] BY <1>2, <1>3
<1> QED BY <1>3, <1>4, <1>5

\* A fold over no element is the start.
LEMMA FoldsToStart == ASSUME NEW b, NEW step, NEW v, FoldsTo(<<>>, b, step, v) PROVE v = b
<1>1. DOMAIN <<>> = {} OBVIOUS
<1> QED BY <1>1 DEF FoldsTo, Folds

\* A fold over one more element takes one more step.
LEMMA FoldsToAppend ==
    ASSUME NEW A, NEW s \in Seq(A), NEW e \in A, NEW b, NEW step, NEW v, NEW w,
           FoldsTo(s, b, step, v), FoldsTo(Append(s, e), b, step, w)
    PROVE  w = step[<<v, e>>]
<1>1. PICK t \in Seq(A) : t = Append(s, e)
  <2>1. Append(s, e) \in Seq(A) OBVIOUS
  <2> QED BY <2>1, Zenon
<1>2. /\ Len(s) \in Nat /\ DOMAIN s = 1 .. Len(s) /\ DOMAIN t = 1 .. (Len(s) + 1)
      /\ t[Len(s) + 1] = e /\ \A i \in DOMAIN s : t[i] = s[i]
  BY <1>1
<1>3. PICK f : Folds(f, s, b, step) /\ v = f[DOMAIN s] BY DEF FoldsTo
<1>4. PICK g : Folds(g, t, b, step) /\ w = g[DOMAIN t] BY <1>1 DEF FoldsTo
<1>5. f[DOMAIN s] = g[DOMAIN s]
  <2>1. f[{}] = g[{}] BY <1>3, <1>4 DEF Folds
  <2>2. ASSUME NEW T \in SUBSET DOMAIN s, T # {}, f[T \ {Max(T)}] = g[T \ {Max(T)}] PROVE f[T] = g[T]
    <3>1. PICK m \in T : m = Max(T) BY <2>2, LastOfSome
    <3>2. T \in SUBSET DOMAIN t BY <1>2
    <3>3. f[T] = step[<<f[T \ {m}], s[m]>>] BY <1>3, <2>2, <3>1 DEF Folds
    <3>4. g[T] = step[<<g[T \ {m}], t[m]>>] BY <1>4, <2>2, <3>1, <3>2 DEF Folds
    <3> QED BY <1>2, <2>2, <3>1, <3>3, <3>4
  <2> QED BY <2>1, <2>2, SolutionsAgree
<1>6. Max(DOMAIN t) = Len(s) + 1 /\ DOMAIN t \ {Len(s) + 1} = DOMAIN s /\ DOMAIN t # {}
  <2>1. Len(s) + 1 \in Nat /\ Len(s) + 1 # 0 /\ (Len(s) + 1) - 1 = Len(s) BY <1>2
  <2>2. \A n \in Nat : n # 0 => Max(1 .. n) = n /\ (1 .. n) \ {n} = 1 .. (n - 1) /\ 1 .. n # {}
    BY PrefixSteps
  <2> QED BY <1>2, <2>1, <2>2
<1>7. g[DOMAIN t] = step[<<g[DOMAIN t \ {Max(DOMAIN t)}], t[Max(DOMAIN t)]>>]
  BY <1>4, <1>6, Zenon DEF Folds
<1> QED BY <1>2, <1>3, <1>4, <1>5, <1>6, <1>7


\* SumOf is a fold.
LEMMA SumOfFolds ==
    ASSUME NEW A, \A a \in A : a.value \in Nat, NEW k, NEW s \in Seq(A)
    PROVE  FoldsTo(s, 0, [p \in (Nat) \X A |-> IF p[2].key = k THEN p[1] + p[2].value ELSE p[1]], SumOf(s, k))
<1> DEFINE Op(acc, x) == IF x.key = k THEN acc + x.value ELSE acc
           step == [p \in (Nat) \X A |-> IF p[2].key = k THEN p[1] + p[2].value ELSE p[1]]
           it == CHOOSE h : h = [T \in SUBSET DOMAIN s |->
                   IF T = {} THEN 0 ELSE Op(h[T \ {Max(T)}], s[Max(T)])]
<1>1. SumOf(s, k) = it[DOMAIN s] BY DEF SumOf, FoldLeft, MapThenFoldSet
<1>2. PICK g \in [SUBSET DOMAIN s -> Nat] : Folds(g, s, 0, step)
  <2>1. 0 \in Nat /\ step \in [(Nat) \X A -> Nat] OBVIOUS
  <2> HIDE DEF step
  <2> QED BY <2>1, FoldExists, Zenon
<1>3. ASSUME NEW T \in SUBSET DOMAIN s, T # {} PROVE g[T] = Op(g[T \ {Max(T)}], s[Max(T)])
  <2>1. PICK m \in T : m = Max(T) BY <1>3, LastOfSome
  <2>2. <<g[T \ {m}], s[m]>> \in (Nat) \X A BY <2>1
  <2>3. g[T] = step[<<g[T \ {m}], s[m]>>] BY <1>2, <1>3, <2>1 DEF Folds
  <2> HIDE DEF Op
  <2> QED BY <2>1, <2>2, <2>3 DEF Op
<1>4. g = [T \in SUBSET DOMAIN s |-> IF T = {} THEN 0 ELSE Op(g[T \ {Max(T)}], s[Max(T)])]
  <2>1. g[{}] = 0 BY <1>2 DEF Folds
  <2> HIDE DEF Op
  <2> QED BY <1>3, <2>1, Zenon
<1> HIDE DEF Op, step
<1>5. it = [T \in SUBSET DOMAIN s |-> IF T = {} THEN 0 ELSE Op(it[T \ {Max(T)}], s[Max(T)])]
  BY <1>4, Zenon
<1> HIDE DEF it
<1>6. it[DOMAIN s] = g[DOMAIN s]
  <2>1. it[{}] = g[{}] BY <1>4, <1>5, Zenon
  <2>2. \A T \in SUBSET DOMAIN s : T # {} /\ it[T \ {Max(T)}] = g[T \ {Max(T)}] => it[T] = g[T]
    BY <1>3, <1>5, Zenon
  <2> QED BY <2>1, <2>2, SolutionsAgree
<1>7. FoldsTo(s, 0, step, SumOf(s, k)) BY <1>1, <1>2, <1>6 DEF FoldsTo
<1> QED BY <1>7 DEF step

\* Only is a fold.
LEMMA OnlyFolds ==
    ASSUME NEW A, NEW B, NEW s \in Seq(A)
    PROVE  FoldsTo(s, <<>>, [p \in (Seq(A \cap B)) \X A |-> IF p[2] \in B THEN Append(p[1], p[2]) ELSE p[1]], Only(s, B))
<1> DEFINE Op(acc, x) == IF x \in B THEN Append(acc, x) ELSE acc
           step == [p \in (Seq(A \cap B)) \X A |-> IF p[2] \in B THEN Append(p[1], p[2]) ELSE p[1]]
           it == CHOOSE h : h = [T \in SUBSET DOMAIN s |->
                   IF T = {} THEN <<>> ELSE Op(h[T \ {Max(T)}], s[Max(T)])]
<1>1. Only(s, B) = it[DOMAIN s] BY DEF Only, FoldLeft, MapThenFoldSet
<1>2. PICK g \in [SUBSET DOMAIN s -> Seq(A \cap B)] : Folds(g, s, <<>>, step)
  <2>1. <<>> \in Seq(A \cap B) /\ step \in [(Seq(A \cap B)) \X A -> Seq(A \cap B)] OBVIOUS
  <2> HIDE DEF step
  <2> QED BY <2>1, FoldExists, Zenon
<1>3. ASSUME NEW T \in SUBSET DOMAIN s, T # {} PROVE g[T] = Op(g[T \ {Max(T)}], s[Max(T)])
  <2>1. PICK m \in T : m = Max(T) BY <1>3, LastOfSome
  <2>2. <<g[T \ {m}], s[m]>> \in (Seq(A \cap B)) \X A BY <2>1
  <2>3. g[T] = step[<<g[T \ {m}], s[m]>>] BY <1>2, <1>3, <2>1 DEF Folds
  <2> HIDE DEF Op
  <2> QED BY <2>1, <2>2, <2>3 DEF Op
<1>4. g = [T \in SUBSET DOMAIN s |-> IF T = {} THEN <<>> ELSE Op(g[T \ {Max(T)}], s[Max(T)])]
  <2>1. g[{}] = <<>> BY <1>2 DEF Folds
  <2> HIDE DEF Op
  <2> QED BY <1>3, <2>1, Zenon
<1> HIDE DEF Op, step
<1>5. it = [T \in SUBSET DOMAIN s |-> IF T = {} THEN <<>> ELSE Op(it[T \ {Max(T)}], s[Max(T)])]
  BY <1>4, Zenon
<1> HIDE DEF it
<1>6. it[DOMAIN s] = g[DOMAIN s]
  <2>1. it[{}] = g[{}] BY <1>4, <1>5, Zenon
  <2>2. \A T \in SUBSET DOMAIN s : T # {} /\ it[T \ {Max(T)}] = g[T \ {Max(T)}] => it[T] = g[T]
    BY <1>3, <1>5, Zenon
  <2> QED BY <2>1, <2>2, SolutionsAgree
<1>7. FoldsTo(s, <<>>, step, Only(s, B)) BY <1>1, <1>2, <1>6 DEF FoldsTo
<1> QED BY <1>7 DEF step

\* SumReduce is a fold.
LEMMA SumReduceFolds ==
    ASSUME NEW A, A = Nat, NEW s \in Seq(A)
    PROVE  FoldsTo(s, 0, [p \in (Nat) \X A |-> p[1] + p[2]], SumReduce(s))
<1> DEFINE Op(acc, x) == acc + x
           step == [p \in (Nat) \X A |-> p[1] + p[2]]
           it == CHOOSE h : h = [T \in SUBSET DOMAIN s |->
                   IF T = {} THEN 0 ELSE Op(h[T \ {Max(T)}], s[Max(T)])]
<1>1. SumReduce(s) = it[DOMAIN s] BY DEF SumReduce, FoldLeft, MapThenFoldSet
<1>2. PICK g \in [SUBSET DOMAIN s -> Nat] : Folds(g, s, 0, step)
  <2>1. 0 \in Nat /\ step \in [(Nat) \X A -> Nat] OBVIOUS
  <2> HIDE DEF step
  <2> QED BY <2>1, FoldExists, Zenon
<1>3. ASSUME NEW T \in SUBSET DOMAIN s, T # {} PROVE g[T] = Op(g[T \ {Max(T)}], s[Max(T)])
  <2>1. PICK m \in T : m = Max(T) BY <1>3, LastOfSome
  <2>2. <<g[T \ {m}], s[m]>> \in (Nat) \X A BY <2>1
  <2>3. g[T] = step[<<g[T \ {m}], s[m]>>] BY <1>2, <1>3, <2>1 DEF Folds
  <2> HIDE DEF Op
  <2> QED BY <2>1, <2>2, <2>3 DEF Op
<1>4. g = [T \in SUBSET DOMAIN s |-> IF T = {} THEN 0 ELSE Op(g[T \ {Max(T)}], s[Max(T)])]
  <2>1. g[{}] = 0 BY <1>2 DEF Folds
  <2> HIDE DEF Op
  <2> QED BY <1>3, <2>1, Zenon
<1> HIDE DEF Op, step
<1>5. it = [T \in SUBSET DOMAIN s |-> IF T = {} THEN 0 ELSE Op(it[T \ {Max(T)}], s[Max(T)])]
  BY <1>4, Zenon
<1> HIDE DEF it
<1>6. it[DOMAIN s] = g[DOMAIN s]
  <2>1. it[{}] = g[{}] BY <1>4, <1>5, Zenon
  <2>2. \A T \in SUBSET DOMAIN s : T # {} /\ it[T \ {Max(T)}] = g[T \ {Max(T)}] => it[T] = g[T]
    BY <1>3, <1>5, Zenon
  <2> QED BY <2>1, <2>2, SolutionsAgree
<1>7. FoldsTo(s, 0, step, SumReduce(s)) BY <1>1, <1>2, <1>6 DEF FoldsTo
<1> QED BY <1>7 DEF step

\* A longer run, or one more.
LEMMA GrownType ==
    ASSUME NEW A, NEW B, NEW runs \in Seq(Seq(A \cap B)) \ {<<>>}, NEW c \in A
    PROVE  Grown(runs, c, B) \in Seq(Seq(A \cap B)) \ {<<>>}
<1>1. Len(runs) \in 1 .. Len(runs) /\ Len(runs) \in Nat OBVIOUS
<1>2. runs[Len(runs)] \in Seq(A \cap B) BY <1>1
<1>3. ASSUME c \in B PROVE [runs EXCEPT ![Len(runs)] = Append(@, c)] \in Seq(Seq(A \cap B)) \ {<<>>}
  <2>1. PICK r \in Seq(A \cap B) : r = Append(runs[Len(runs)], c)
    <3>1. Append(runs[Len(runs)], c) \in Seq(A \cap B) BY <1>2, <1>3
    <3> QED BY <3>1, Zenon
  <2>2. [runs EXCEPT ![Len(runs)] = r] \in Seq(Seq(A \cap B)) \ {<<>>} BY <1>1
  <2> QED BY <2>1, <2>2
<1>4. <<>> \in Seq(A \cap B) OBVIOUS
<1>5. Append(runs, <<>>) \in Seq(Seq(A \cap B)) \ {<<>>} BY <1>4
<1> QED BY <1>3, <1>5 DEF Grown

\* Split is a fold.
LEMMA SplitFolds ==
    ASSUME NEW A, NEW B, NEW s \in Seq(A)
    PROVE  FoldsTo(s, << <<>> >>, [p \in (Seq(Seq(A \cap B)) \ {<<>>}) \X A |-> Grown(p[1], p[2], B)], Split(s, B))
<1> DEFINE Op(acc, x) == Grown(acc, x, B)
           step == [p \in (Seq(Seq(A \cap B)) \ {<<>>}) \X A |-> Grown(p[1], p[2], B)]
           it == CHOOSE h : h = [T \in SUBSET DOMAIN s |->
                   IF T = {} THEN << <<>> >> ELSE Op(h[T \ {Max(T)}], s[Max(T)])]
<1>1. Split(s, B) = it[DOMAIN s] BY DEF Split, FoldLeft, MapThenFoldSet
<1>2. PICK g \in [SUBSET DOMAIN s -> Seq(Seq(A \cap B)) \ {<<>>}] : Folds(g, s, << <<>> >>, step)
  <2>1. << <<>> >> \in Seq(Seq(A \cap B)) \ {<<>>}
    <3>1. <<>> \in Seq(A) OBVIOUS
    <3> QED BY <3>1
  <2>2. \A q \in Seq(Seq(A \cap B)) \ {<<>>}, c \in A : Grown(q, c, B) \in Seq(Seq(A \cap B)) \ {<<>>}
    BY GrownType
  <2>3. step \in [(Seq(Seq(A \cap B)) \ {<<>>}) \X A -> Seq(Seq(A \cap B)) \ {<<>>}] BY <2>2, Zenon
  <2> HIDE DEF step
  <2> QED BY <2>1, <2>3, FoldExists, Zenon
<1>3. ASSUME NEW T \in SUBSET DOMAIN s, T # {} PROVE g[T] = Op(g[T \ {Max(T)}], s[Max(T)])
  <2>1. PICK m \in T : m = Max(T) BY <1>3, LastOfSome
  <2>2. <<g[T \ {m}], s[m]>> \in (Seq(Seq(A \cap B)) \ {<<>>}) \X A
    <3>1. T \ {m} \in SUBSET DOMAIN s /\ m \in DOMAIN s /\ s[m] \in A BY <2>1
    <3> QED BY <3>1, Zenon
  <2>3. g[T] = step[<<g[T \ {m}], s[m]>>] BY <1>2, <1>3, <2>1 DEF Folds
  <2> HIDE DEF Op
  <2> QED BY <2>1, <2>2, <2>3 DEF Op
<1>4. g = [T \in SUBSET DOMAIN s |-> IF T = {} THEN << <<>> >> ELSE Op(g[T \ {Max(T)}], s[Max(T)])]
  <2>1. g[{}] = << <<>> >> BY <1>2 DEF Folds
  <2> HIDE DEF Op
  <2> QED BY <1>3, <2>1, Zenon
<1> HIDE DEF Op, step
<1>5. it = [T \in SUBSET DOMAIN s |-> IF T = {} THEN << <<>> >> ELSE Op(it[T \ {Max(T)}], s[Max(T)])]
  BY <1>4, Zenon
<1> HIDE DEF it
<1>6. it[DOMAIN s] = g[DOMAIN s]
  <2>1. it[{}] = g[{}] BY <1>4, <1>5, Zenon
  <2>2. \A T \in SUBSET DOMAIN s : T # {} /\ it[T \ {Max(T)}] = g[T \ {Max(T)}] => it[T] = g[T]
    BY <1>3, <1>5, Zenon
  <2> QED BY <2>1, <2>2, SolutionsAgree
<1>7. FoldsTo(s, << <<>> >>, step, Split(s, B)) BY <1>1, <1>2, <1>6 DEF FoldsTo
<1> QED BY <1>7 DEF step

\* SumOf adds the values of the pairs with the key.
LEMMA SumOfSteps ==
    ASSUME NEW A, \A a \in A : a.value \in Nat, NEW k
    PROVE  /\ SumOf(<<>>, k) = 0
           /\ \A s \in Seq(A), e \in A : SumOf(Append(s, e), k) = IF e.key = k THEN SumOf(s, k) + e.value ELSE SumOf(s, k)
           /\ \A s \in Seq(A) : SumOf(s, k) \in Nat
<1> DEFINE step == [p \in (Nat) \X A |-> IF p[2].key = k THEN p[1] + p[2].value ELSE p[1]]
           P == {s \in Seq(A) : SumOf(s, k) \in Nat}
<1>1. \A s \in Seq(A) : FoldsTo(s, 0, step, SumOf(s, k))
  BY SumOfFolds
<1>2. SumOf(<<>>, k) = 0 /\ 0 \in Nat
  <2>1. FoldsTo(<<>>, 0, step, SumOf(<<>>, k))
    <3>1. <<>> \in Seq(A) OBVIOUS
    <3> QED BY <1>1, <3>1, Zenon
  <2> HIDE DEF step
  <2>2. SumOf(<<>>, k) = 0 BY <2>1, FoldsToStart
  <2> QED BY <2>2
<1>3. ASSUME NEW s \in Seq(A), NEW e \in A, s \in P PROVE SumOf(Append(s, e), k) = IF e.key = k THEN SumOf(s, k) + e.value ELSE SumOf(s, k)
  <2>1. FoldsTo(s, 0, step, SumOf(s, k)) /\ FoldsTo(Append(s, e), 0, step, SumOf(Append(s, e), k))
    <3>1. Append(s, e) \in Seq(A) OBVIOUS
    <3> QED BY <1>1, <3>1, Zenon
  <2>2. SumOf(Append(s, e), k) = step[<<SumOf(s, k), e>>]
    <3> HIDE DEF step, P
    <3> QED BY <2>1, FoldsToAppend
  <2>3. <<SumOf(s, k), e>> \in (Nat) \X A BY <1>3
  <2> QED BY <2>2, <2>3
<1>4. \A s \in Seq(A) : s \in P
  <2>1. <<>> \in P
    <3>1. <<>> \in Seq(A) OBVIOUS
    <3> QED BY <1>2, <3>1
  <2>2. ASSUME NEW s \in Seq(A), NEW e \in A, s \in P PROVE Append(s, e) \in P
    <3>1. SumOf(s, k) \in Nat /\ SumOf(Append(s, e), k) = IF e.key = k THEN SumOf(s, k) + e.value ELSE SumOf(s, k) BY <1>3, <2>2
    <3>2. (IF e.key = k THEN SumOf(s, k) + e.value ELSE SumOf(s, k)) \in Nat BY <3>1
    <3>3. Append(s, e) \in Seq(A) OBVIOUS
    <3> QED BY <3>1, <3>2, <3>3
  <2> HIDE DEF P
  <2> QED BY <2>1, <2>2, InductionOnSeq
<1>5. ASSUME NEW s \in Seq(A), NEW e \in A PROVE SumOf(Append(s, e), k) = IF e.key = k THEN SumOf(s, k) + e.value ELSE SumOf(s, k)
  <2>1. s \in P BY <1>4
  <2> HIDE DEF P
  <2> QED BY <1>3, <2>1
<1>6. \A s \in Seq(A) : SumOf(s, k) \in Nat BY <1>4
<1> QED BY <1>2, <1>5, <1>6

\* Only takes over what is in the set.
LEMMA OnlySteps ==
    ASSUME NEW A, NEW B
    PROVE  /\ Only(<<>>, B) = <<>>
           /\ \A s \in Seq(A), e \in A : Only(Append(s, e), B) = IF e \in B THEN Append(Only(s, B), e) ELSE Only(s, B)
           /\ \A s \in Seq(A) : Only(s, B) \in Seq(A \cap B)
<1> DEFINE step == [p \in (Seq(A \cap B)) \X A |-> IF p[2] \in B THEN Append(p[1], p[2]) ELSE p[1]]
           P == {s \in Seq(A) : Only(s, B) \in Seq(A \cap B)}
<1>1. \A s \in Seq(A) : FoldsTo(s, <<>>, step, Only(s, B))
  BY OnlyFolds
<1>2. Only(<<>>, B) = <<>> /\ <<>> \in Seq(A \cap B)
  <2>1. FoldsTo(<<>>, <<>>, step, Only(<<>>, B))
    <3>1. <<>> \in Seq(A) OBVIOUS
    <3> QED BY <1>1, <3>1, Zenon
  <2> HIDE DEF step
  <2>2. Only(<<>>, B) = <<>> BY <2>1, FoldsToStart
  <2> QED BY <2>2
<1>3. ASSUME NEW s \in Seq(A), NEW e \in A, s \in P PROVE Only(Append(s, e), B) = IF e \in B THEN Append(Only(s, B), e) ELSE Only(s, B)
  <2>1. FoldsTo(s, <<>>, step, Only(s, B)) /\ FoldsTo(Append(s, e), <<>>, step, Only(Append(s, e), B))
    <3>1. Append(s, e) \in Seq(A) OBVIOUS
    <3> QED BY <1>1, <3>1, Zenon
  <2>2. Only(Append(s, e), B) = step[<<Only(s, B), e>>]
    <3> HIDE DEF step, P
    <3> QED BY <2>1, FoldsToAppend
  <2>3. <<Only(s, B), e>> \in (Seq(A \cap B)) \X A BY <1>3
  <2> QED BY <2>2, <2>3
<1>4. \A s \in Seq(A) : s \in P
  <2>1. <<>> \in P
    <3>1. <<>> \in Seq(A) OBVIOUS
    <3> QED BY <1>2, <3>1
  <2>2. ASSUME NEW s \in Seq(A), NEW e \in A, s \in P PROVE Append(s, e) \in P
    <3>1. Only(s, B) \in Seq(A \cap B) /\ Only(Append(s, e), B) = IF e \in B THEN Append(Only(s, B), e) ELSE Only(s, B) BY <1>3, <2>2
    <3>2. (IF e \in B THEN Append(Only(s, B), e) ELSE Only(s, B)) \in Seq(A \cap B) BY <3>1
    <3>3. Append(s, e) \in Seq(A) OBVIOUS
    <3> QED BY <3>1, <3>2, <3>3
  <2> HIDE DEF P
  <2> QED BY <2>1, <2>2, InductionOnSeq
<1>5. ASSUME NEW s \in Seq(A), NEW e \in A PROVE Only(Append(s, e), B) = IF e \in B THEN Append(Only(s, B), e) ELSE Only(s, B)
  <2>1. s \in P BY <1>4
  <2> HIDE DEF P
  <2> QED BY <1>3, <2>1
<1>6. \A s \in Seq(A) : Only(s, B) \in Seq(A \cap B) BY <1>4
<1> QED BY <1>2, <1>5, <1>6

\* SumReduce adds the values up.
LEMMA SumReduceSteps ==
    ASSUME NEW A, A = Nat
    PROVE  /\ SumReduce(<<>>) = 0
           /\ \A s \in Seq(A), e \in A : SumReduce(Append(s, e)) = SumReduce(s) + e
           /\ \A s \in Seq(A) : SumReduce(s) \in Nat
<1> DEFINE step == [p \in (Nat) \X A |-> p[1] + p[2]]
           P == {s \in Seq(A) : SumReduce(s) \in Nat}
<1>1. \A s \in Seq(A) : FoldsTo(s, 0, step, SumReduce(s))
  BY SumReduceFolds
<1>2. SumReduce(<<>>) = 0 /\ 0 \in Nat
  <2>1. FoldsTo(<<>>, 0, step, SumReduce(<<>>))
    <3>1. <<>> \in Seq(A) OBVIOUS
    <3> QED BY <1>1, <3>1, Zenon
  <2> HIDE DEF step
  <2>2. SumReduce(<<>>) = 0 BY <2>1, FoldsToStart
  <2> QED BY <2>2
<1>3. ASSUME NEW s \in Seq(A), NEW e \in A, s \in P PROVE SumReduce(Append(s, e)) = SumReduce(s) + e
  <2>1. FoldsTo(s, 0, step, SumReduce(s)) /\ FoldsTo(Append(s, e), 0, step, SumReduce(Append(s, e)))
    <3>1. Append(s, e) \in Seq(A) OBVIOUS
    <3> QED BY <1>1, <3>1, Zenon
  <2>2. SumReduce(Append(s, e)) = step[<<SumReduce(s), e>>]
    <3> HIDE DEF step, P
    <3> QED BY <2>1, FoldsToAppend
  <2>3. <<SumReduce(s), e>> \in (Nat) \X A BY <1>3
  <2> QED BY <2>2, <2>3
<1>4. \A s \in Seq(A) : s \in P
  <2>1. <<>> \in P
    <3>1. <<>> \in Seq(A) OBVIOUS
    <3> QED BY <1>2, <3>1
  <2>2. ASSUME NEW s \in Seq(A), NEW e \in A, s \in P PROVE Append(s, e) \in P
    <3>1. SumReduce(s) \in Nat /\ SumReduce(Append(s, e)) = SumReduce(s) + e BY <1>3, <2>2
    <3>2. SumReduce(s) + e \in Nat BY <3>1
    <3>3. Append(s, e) \in Seq(A) OBVIOUS
    <3> QED BY <3>1, <3>2, <3>3
  <2> HIDE DEF P
  <2> QED BY <2>1, <2>2, InductionOnSeq
<1>5. ASSUME NEW s \in Seq(A), NEW e \in A PROVE SumReduce(Append(s, e)) = SumReduce(s) + e
  <2>1. s \in P BY <1>4
  <2> HIDE DEF P
  <2> QED BY <1>3, <2>1
<1>6. \A s \in Seq(A) : SumReduce(s) \in Nat BY <1>4
<1> QED BY <1>2, <1>5, <1>6

\* Split looks at one symbol after the other.
LEMMA SplitSteps ==
    ASSUME NEW A, NEW B
    PROVE  /\ Split(<<>>, B) = << <<>> >>
           /\ \A s \in Seq(A), e \in A : Split(Append(s, e), B) = Grown(Split(s, B), e, B)
           /\ \A s \in Seq(A) : Split(s, B) \in Seq(Seq(A \cap B)) \ {<<>>}
<1> DEFINE step == [p \in (Seq(Seq(A \cap B)) \ {<<>>}) \X A |-> Grown(p[1], p[2], B)]
           P == {s \in Seq(A) : Split(s, B) \in Seq(Seq(A \cap B)) \ {<<>>}}
<1>1. \A s \in Seq(A) : FoldsTo(s, << <<>> >>, step, Split(s, B))
  BY SplitFolds
<1>2. Split(<<>>, B) = << <<>> >> /\ << <<>> >> \in Seq(Seq(A \cap B)) \ {<<>>}
  <2>1. FoldsTo(<<>>, << <<>> >>, step, Split(<<>>, B))
    <3>1. <<>> \in Seq(A) OBVIOUS
    <3> QED BY <1>1, <3>1, Zenon
  <2> HIDE DEF step
  <2>2. Split(<<>>, B) = << <<>> >> BY <2>1, FoldsToStart
  <2> QED BY <2>2
<1>3. ASSUME NEW s \in Seq(A), NEW e \in A, s \in P PROVE Split(Append(s, e), B) = Grown(Split(s, B), e, B)
  <2>1. FoldsTo(s, << <<>> >>, step, Split(s, B)) /\ FoldsTo(Append(s, e), << <<>> >>, step, Split(Append(s, e), B))
    <3>1. Append(s, e) \in Seq(A) OBVIOUS
    <3> QED BY <1>1, <3>1, Zenon
  <2>2. Split(Append(s, e), B) = step[<<Split(s, B), e>>]
    <3> HIDE DEF step, P
    <3> QED BY <2>1, FoldsToAppend
  <2>3. <<Split(s, B), e>> \in (Seq(Seq(A \cap B)) \ {<<>>}) \X A BY <1>3
  <2> QED BY <2>2, <2>3
<1>4. \A s \in Seq(A) : s \in P
  <2>1. <<>> \in P
    <3>1. <<>> \in Seq(A) OBVIOUS
    <3> QED BY <1>2, <3>1
  <2>2. ASSUME NEW s \in Seq(A), NEW e \in A, s \in P PROVE Append(s, e) \in P
    <3>1. Split(s, B) \in Seq(Seq(A \cap B)) \ {<<>>} /\ Split(Append(s, e), B) = Grown(Split(s, B), e, B) BY <1>3, <2>2
    <3>2. Grown(Split(s, B), e, B) \in Seq(Seq(A \cap B)) \ {<<>>} BY <3>1, GrownType
    <3>3. Append(s, e) \in Seq(A) OBVIOUS
    <3> QED BY <3>1, <3>2, <3>3
  <2> HIDE DEF P
  <2> QED BY <2>1, <2>2, InductionOnSeq
<1>5. ASSUME NEW s \in Seq(A), NEW e \in A PROVE Split(Append(s, e), B) = Grown(Split(s, B), e, B)
  <2>1. s \in P BY <1>4
  <2> HIDE DEF P
  <2> QED BY <1>3, <2>1
<1>6. \A s \in Seq(A) : Split(s, B) \in Seq(Seq(A \cap B)) \ {<<>>} BY <1>4
<1> QED BY <1>2, <1>5, <1>6

-----------------------------------------------------------------------------
(* Concatenation *)

\* v is what is left when f has appended all elements of ss.
FlattensTo(ss, v) ==
    \E f : f[0] = <<>> /\ (\A i \in 1 .. Len(ss) : f[i] = f[i - 1] \o ss[i]) /\ v = f[Len(ss)]

\* FlattenSeq does that.
LEMMA FlattenRuns == ASSUME NEW A, NEW ss \in Seq(Seq(A)) PROVE FlattensTo(ss, FlattenSeq(ss))
<1>1. Len(ss) \in Nat /\ DOMAIN ss = 1 .. Len(ss) /\ (Len(ss) = 0 => ss = <<>>) OBVIOUS
<1> DEFINE next == [p \in Nat \X Seq(A) |-> IF p[1] + 1 \in 1 .. Len(ss) THEN p[2] \o ss[p[1] + 1] ELSE p[2]]
<1>2. PICK f \in [Nat -> Seq(A)] : Iterates(f, <<>>, next)
  <2>1. <<>> \in Seq(A) OBVIOUS
  <2>2. \A n \in 1 .. Len(ss) : ss[n] \in Seq(A) OBVIOUS
  <2>3. next \in [Nat \X Seq(A) -> Seq(A)] BY <2>2
  <2> HIDE DEF next
  <2> QED BY <2>1, <2>3, NatRecursion, Zenon
<1>3. ASSUME NEW i \in 1 .. Len(ss) PROVE f[i] = f[i - 1] \o ss[i]
  <2>1. i - 1 \in Nat /\ (i - 1) + 1 = i OBVIOUS
  <2>2. f[i] = next[<<i - 1, f[i - 1]>>] BY <1>2, <2>1 DEF Iterates
  <2>3. <<i - 1, f[i - 1]>> \in Nat \X Seq(A) BY <2>1
  <2> QED BY <2>1, <2>2, <2>3
<1>4. f[0] = <<>> BY <1>2 DEF Iterates
<1>5. ASSUME NEW i \in 1 .. Len(ss) PROVE f[i] = IF i = 1 THEN ss[i] ELSE f[i - 1] \o ss[i]
  <2>1. ss[i] \in Seq(A) OBVIOUS
  <2>2. i = 1 => <<>> \o ss[i] = ss[i] BY <2>1
  <2>3. i = 1 => i - 1 = 0 OBVIOUS
  <2> QED BY <1>3, <1>4, <2>2, <2>3, Zenon
<1> DEFINE g == [i \in 1 .. Len(ss) |-> f[i]]
           it == CHOOSE h : h = [i \in 1 .. Len(ss) |-> IF i = 1 THEN ss[i] ELSE h[i - 1] \o ss[i]]
<1> HIDE DEF next
<1>6. g = [i \in 1 .. Len(ss) |-> IF i = 1 THEN ss[i] ELSE g[i - 1] \o ss[i]]
  <2>1. \A i \in 1 .. Len(ss) : i # 1 => i - 1 \in 1 .. Len(ss) OBVIOUS
  <2> QED BY <1>5, <2>1, Zenon
<1>7. it = [i \in 1 .. Len(ss) |-> IF i = 1 THEN ss[i] ELSE it[i - 1] \o ss[i]] BY <1>6, Zenon
<1>8. Len(ss) # 0 => FlattenSeq(ss) = it[Len(ss)] BY DEF FlattenSeq
<1>9. ASSUME Len(ss) # 0 PROVE it[Len(ss)] = f[Len(ss)]
  <2> HIDE DEF it, g
  <2> DEFINE P == {i \in Nat : i = 0 \/ it[i] = f[i]}
  <2>1. 0 \in P OBVIOUS
  <2>2. ASSUME NEW i \in 1 .. Len(ss), i - 1 \in P PROVE i \in P
    <3>1. i \in Nat /\ (i = 1 \/ it[i - 1] = f[i - 1]) BY <2>2
    <3> HIDE DEF P
    <3>2. it[i] = IF i = 1 THEN ss[i] ELSE it[i - 1] \o ss[i] BY <1>7, Zenon
    <3>3. f[i] = IF i = 1 THEN ss[i] ELSE f[i - 1] \o ss[i] BY <1>5
    <3>4. it[i] = f[i] BY <3>1, <3>2, <3>3, Zenon
    <3> QED BY <3>1, <3>4 DEF P
  <2>3. Len(ss) \in P
    <3>1. \A i \in 0 .. Len(ss) : i \in P
      <4> HIDE DEF P
      <4> QED BY <1>1, <2>1, <2>2, InductionUpTo
    <3> QED BY <1>1, <3>1
  <2> QED BY <1>9, <2>3
<1>10. FlattenSeq(ss) = f[Len(ss)]
  <2>1. CASE Len(ss) = 0
    <3>1. FlattenSeq(ss) = ss BY <2>1 DEF FlattenSeq
    <3> QED BY <1>1, <1>4, <2>1, <3>1, Zenon
  <2> QED BY <1>8, <1>9, <2>1, Zenon
<1> QED BY <1>3, <1>4, <1>10 DEF FlattensTo

\* The concatenation of one more sequence is longer by that sequence.
LEMMA FlattenSteps ==
    ASSUME NEW A
    PROVE  /\ FlattenSeq(<<>>) = <<>>
           /\ \A ss \in Seq(Seq(A)), t \in Seq(A) : FlattenSeq(Append(ss, t)) = FlattenSeq(ss) \o t
           /\ \A ss \in Seq(Seq(A)) : FlattenSeq(ss) \in Seq(A)
<1>1. FlattenSeq(<<>>) = <<>>
  <2>1. Len(<<>>) = 0 OBVIOUS
  <2> QED BY <2>1 DEF FlattenSeq
<1>2. ASSUME NEW ss \in Seq(Seq(A)), NEW t \in Seq(A)
      PROVE  FlattenSeq(Append(ss, t)) = FlattenSeq(ss) \o t
  <2>1. PICK tt \in Seq(Seq(A)) : tt = Append(ss, t)
    <3>1. Append(ss, t) \in Seq(Seq(A)) OBVIOUS
    <3> QED BY <3>1, Zenon
  <2>2. FlattensTo(ss, FlattenSeq(ss)) /\ FlattensTo(tt, FlattenSeq(tt)) BY FlattenRuns
  <2>3. PICK f : f[0] = <<>> /\ (\A i \in 1 .. Len(ss) : f[i] = f[i - 1] \o ss[i])
                 /\ FlattenSeq(ss) = f[Len(ss)]
    BY <2>2 DEF FlattensTo
  <2>4. PICK g : g[0] = <<>> /\ (\A i \in 1 .. Len(tt) : g[i] = g[i - 1] \o tt[i])
                 /\ FlattenSeq(tt) = g[Len(tt)]
    BY <2>2 DEF FlattensTo
  <2>5. /\ Len(ss) \in Nat /\ Len(tt) = Len(ss) + 1 /\ tt[Len(ss) + 1] = t
        /\ \A i \in 1 .. Len(ss) : tt[i] = ss[i] /\ i \in 1 .. Len(tt)
    BY <2>1
  <2> DEFINE P == {i \in Nat : f[i] = g[i]}
  <2>6. 0 \in P BY <2>3, <2>4
  <2>7. \A i \in 1 .. Len(ss) : i - 1 \in P => i \in P
    <3> SUFFICES ASSUME NEW i \in 1 .. Len(ss), i - 1 \in P PROVE f[i] = g[i] OBVIOUS
    <3>1. f[i - 1] = g[i - 1] OBVIOUS
    <3> HIDE DEF P
    <3> QED BY <2>3, <2>4, <2>5, <3>1, Zenon
  <2>8. Len(ss) \in P
    <3>1. \A i \in 0 .. Len(ss) : i \in P
      <4> HIDE DEF P
      <4> QED BY <2>5, <2>6, <2>7, InductionUpTo
    <3> QED BY <2>5, <3>1
  <2>9. f[Len(ss)] = g[Len(ss)] BY <2>8
  <2>10. Len(tt) \in 1 .. Len(tt) /\ Len(tt) - 1 = Len(ss) BY <2>5
  <2>11. g[Len(tt)] = g[Len(ss)] \o t BY <2>4, <2>5, <2>10
  <2> QED BY <2>1, <2>3, <2>4, <2>9, <2>11, Zenon
<1>3. \A ss \in Seq(Seq(A)) : FlattenSeq(ss) \in Seq(A)
  <2> DEFINE P == {ss \in Seq(Seq(A)) : FlattenSeq(ss) \in Seq(A)}
  <2>1. <<>> \in P
    <3>1. <<>> \in Seq(A) /\ <<>> \in Seq(Seq(A)) OBVIOUS
    <3> QED BY <1>1, <3>1
  <2>2. ASSUME NEW ss \in Seq(Seq(A)), NEW t \in Seq(A), ss \in P PROVE Append(ss, t) \in P
    <3>1. FlattenSeq(ss) \in Seq(A) /\ FlattenSeq(Append(ss, t)) = FlattenSeq(ss) \o t BY <1>2, <2>2
    <3>2. FlattenSeq(ss) \o t \in Seq(A) BY <3>1
    <3>3. Append(ss, t) \in Seq(Seq(A)) OBVIOUS
    <3> QED BY <3>1, <3>2, <3>3
  <2>3. \A ss \in Seq(Seq(A)) : ss \in P
    <3> HIDE DEF P
    <3> QED BY <2>1, <2>2, InductionOnSeq
  <2> QED BY <2>3
<1> QED BY <1>1, <1>2, <1>3

-----------------------------------------------------------------------------
(* What the jobs emit *)

KeyParts ==
    Symbols \cup DOMAIN StopWords
      \cup {"site", "lang:", "unknown", "hist:len.", "+", "stat:lines"}
      \cup {"stat:chars.total", "stat:chars.alnum", "stat:chars.other"}
Keys == Seq(KeyParts) \ {EmptyKey}
JobPairs == [key : Keys, value : Nat]

\* A set of positions that is not empty has a smallest one.
LEMMA MinPosition ==
    ASSUME NEW n \in Nat, NEW T \in SUBSET (1 .. n), T # {}
    PROVE  Min(T) \in T /\ \A i \in T : Min(T) <= i
<1>1. PICK m \in T : \A k \in T : ~(<<k, m>> \in OpToRel(<, Nat))
  <2>1. T \subseteq Nat /\ T # {} OBVIOUS
  <2> QED BY <2>1, NatLessThanWellFounded, WFMin
<1>2. \A k \in T : m <= k
  <2> SUFFICES ASSUME NEW k \in T, k < m PROVE FALSE OBVIOUS
  <2>1. <<k, m>> \in OpToRel(<, Nat) BY DEF OpToRel
  <2> QED BY <1>1, <2>1
<1> QED BY <1>1, <1>2 DEF Min

\* The lines of a text.
LEMMA LinesType == ASSUME NEW text \in Seq(Symbols) PROVE LinesOf(text) \in Seq(Seq(Symbols))
<1>1. PICK all \in Seq(Seq(Symbols \cap (Symbols \ {NL}))) \ {<<>>} : all = Split(text, Symbols \ {NL})
  BY SplitSteps, Zenon
<1>2. Symbols \cap (Symbols \ {NL}) \subseteq Symbols OBVIOUS
<1>3. all \in Seq(Seq(Symbols))
  <2>1. PICK R : R = Symbols \cap (Symbols \ {NL}) OBVIOUS
  <2>2. R \subseteq Symbols /\ all \in Seq(Seq(R)) BY <1>1, <1>2, <2>1
  <2> QED BY <2>2
<1>4. Front(all) \in Seq(Seq(Symbols))
  <2>1. Len(all) - 1 \in Nat /\ Len(all) - 1 <= Len(all) BY <1>1
  <2> QED BY <1>3, <2>1 DEF Front
<1> QED BY <1>1, <1>3, <1>4 DEF LinesOf

\* The parts of a text are not empty and have only the symbols that belong to them.
LEMMA FieldsType ==
    ASSUME NEW text \in Seq(Symbols), NEW inner
    PROVE  Fields(text, inner) \in Seq(Seq(Symbols \cap inner) \ {<<>>})
<1>1. PICK runs \in Seq(Seq(Symbols \cap inner)) : runs = Split(text, inner)
  BY SplitSteps, Zenon
<1>2. Only(runs, Range(runs) \ {<<>>}) \in Seq(Seq(Symbols \cap inner) \cap (Range(runs) \ {<<>>}))
  BY OnlySteps, Zenon
<1>3. PICK R, Q : R = Seq(Symbols \cap inner) \cap (Range(runs) \ {<<>>}) /\ Q = Seq(Symbols \cap inner) \ {<<>>} OBVIOUS
<1>4. R \subseteq Q BY <1>3
<1>5. Only(runs, Range(runs) \ {<<>>}) \in Seq(Q) BY <1>2, <1>3, <1>4
<1> QED BY <1>1, <1>3, <1>5 DEF Fields

\* A line without the blanks around it.
LEMMA TrimType == ASSUME NEW line \in Seq(Symbols) PROVE TrimSpace(line) \in Seq(Symbols)
<1> DEFINE solid == {i \in DOMAIN line : line[i] # Blank}
<1>1. Len(line) \in Nat /\ DOMAIN line = 1 .. Len(line) /\ solid \in SUBSET (1 .. Len(line)) OBVIOUS
<1>2. CASE solid = {} BY <1>2 DEF TrimSpace
<1>3. CASE solid # {}
  <2>1. Min(solid) \in solid /\ Max(solid) \in solid
    <3> HIDE DEF solid
    <3> QED BY <1>1, <1>3, MinPosition, MaxPosition
  <2>2. Min(solid) \in 1 .. Len(line) /\ Max(solid) \in 1 .. Len(line) BY <1>1, <2>1
  <2>3. SubSeq(line, Min(solid), Max(solid)) \in Seq(Symbols)
    <3> HIDE DEF solid
    <3> QED BY <2>2
  <2> QED BY <1>3, <2>3 DEF TrimSpace
<1> QED BY <1>2, <1>3

\* Words in lower case.
LEMMA LoweredType == ASSUME NEW word \in Seq(Symbols \cap Alnum) \ {<<>>} PROVE Lowered(word) \in Keys
<1>1. \A c \in Alnum : Lower[c] \in KeyParts BY DEF Alnum, Lower, KeyParts, Symbols
<1>2. Len(word) \in Nat \ {0} /\ DOMAIN word = 1 .. Len(word) OBVIOUS
<1>3. \A i \in DOMAIN word : word[i] \in Alnum OBVIOUS
<1>4. Lowered(word) \in Seq(KeyParts) /\ Len(Lowered(word)) # 0 BY <1>1, <1>2, <1>3 DEF Lowered
<1> QED BY <1>4 DEF Keys, EmptyKey

\* A sequence of pairs with such keys and values.
LEMMA WordCountType == ASSUME NEW line \in Seq(Symbols) PROVE WordCountMap(line) \in Seq(JobPairs)
<1>1. PICK words \in Seq(Seq(Symbols \cap Alnum) \ {<<>>}) : words = Fields(line, Alnum)
  BY FieldsType, Zenon
<1>2. ASSUME NEW i \in DOMAIN words PROVE Pair(Lowered(words[i]), 1) \in JobPairs
  <2>1. words[i] \in Seq(Symbols \cap Alnum) \ {<<>>} OBVIOUS
  <2> QED BY <2>1, LoweredType DEF Pair, JobPairs
<1>3. [i \in DOMAIN words |-> Pair(Lowered(words[i]), 1)] \in Seq(JobPairs)
  <2>1. [i \in DOMAIN words |-> Pair(Lowered(words[i]), 1)] \in [DOMAIN words -> JobPairs] BY <1>2, Zenon
  <2> QED BY <2>1, MappedSeq, Zenon
<1> QED BY <1>1, <1>3 DEF WordCountMap

\* docdensity's counts of characters make sense.
LEMMA DocDensityType == ASSUME NEW text \in Seq(Symbols) PROVE DocDensityMap(text) \in Seq(JobPairs)
<1>1. PICK line \in Seq(Symbols) : line = TrimSpace(text) BY TrimType, Zenon
<1> DEFINE total == Len(line)
           chars == {i \in DOMAIN line : line[i] \in Alnum}
           reached == {b \in LengthBounds : b <= total}
<1>2. /\ total \in Nat /\ Cardinality(chars) \in Nat /\ total - Cardinality(chars) \in Nat
      /\ Cardinality(reached) \in Nat
  <2>1. total \in Nat /\ DOMAIN line = 1 .. total /\ chars \subseteq 1 .. total OBVIOUS
  <2>2. IsFiniteSet(1 .. total) /\ Cardinality(1 .. total) = total
    <3> HIDE DEF total, chars
    <3>1. 1 \in Int /\ total \in Int /\ total - 1 + 1 = total /\ (1 > total => total = 0) BY <2>1
    <3> QED BY <3>1, FS_Interval
  <2>3. IsFiniteSet(reached) BY TextJobsAssumption, FS_Subset
  <2>4. IsFiniteSet(chars) /\ Cardinality(chars) <= total
    <3> HIDE DEF chars, total
    <3>1. PICK S : S = 1 .. total OBVIOUS
    <3>2. IsFiniteSet(chars) /\ Cardinality(chars) <= Cardinality(S)
      BY <2>1, <2>2, <3>1, FS_Subset
    <3> QED BY <2>2, <3>1, <3>2
  <2>5. Cardinality(chars) \in Nat /\ Cardinality(reached) \in Nat
    BY <2>3, <2>4, FS_CardinalityType
  <2> HIDE DEF chars, total, reached
  <2> QED BY <2>1, <2>4, <2>5
<1>3. LengthBucket(total) \in Keys
  <2>1. PICK c \in Nat : c = Cardinality(reached) BY <1>2
  <2>2. LengthBucket(total) = <<"hist:len.">> \o [i \in 1 .. c |-> "+"] BY <2>1 DEF LengthBucket
  <2>3. [i \in 1 .. c |-> "+"] \in Seq(KeyParts) BY DEF KeyParts
  <2>4. <<"hist:len.">> \o [i \in 1 .. c |-> "+"] \in Seq(KeyParts)
    <3>1. <<"hist:len.">> \in Seq(KeyParts) BY DEF KeyParts
    <3> QED BY <2>3, <3>1
  <2>5. Len(<<"hist:len.">> \o [i \in 1 .. c |-> "+"]) = 1 + c BY <2>3
  <2> QED BY <2>2, <2>4, <2>5 DEF Keys, EmptyKey
<1>4. << Pair(<<"stat:lines">>, 1), Pair(<<"stat:chars.total">>, total),
         Pair(<<"stat:chars.alnum">>, Cardinality(chars)),
         Pair(<<"stat:chars.other">>, total - Cardinality(chars)),
         Pair(LengthBucket(total), 1) >> \in Seq(JobPairs)
  <2> HIDE DEF chars, total
  <2>1. /\ <<"stat:lines">> \in Keys /\ <<"stat:chars.total">> \in Keys
        /\ <<"stat:chars.alnum">> \in Keys /\ <<"stat:chars.other">> \in Keys
    BY DEF Keys, EmptyKey, KeyParts
  <2>2. /\ Pair(<<"stat:lines">>, 1) \in JobPairs /\ Pair(<<"stat:chars.total">>, total) \in JobPairs
        /\ Pair(<<"stat:chars.alnum">>, Cardinality(chars)) \in JobPairs
        /\ Pair(<<"stat:chars.other">>, total - Cardinality(chars)) \in JobPairs
        /\ Pair(LengthBucket(total), 1) \in JobPairs
    BY <1>2, <1>3, <2>1 DEF Pair, JobPairs
  <2> QED BY <2>2
<1>5. <<>> \in Seq(JobPairs) OBVIOUS
<1> QED BY <1>1, <1>4, <1>5 DEF DocDensityMap

\* langdetect emits one of its languages.
LEMMA LangDetectType == ASSUME NEW text \in Seq(Symbols) PROVE LangDetectMap(text) \in Seq(JobPairs)
<1>1. ASSUME NEW best \in KeyParts PROVE << Pair(<<"lang:", best>>, 1) >> \in Seq(JobPairs)
  <2>1. <<"lang:", best>> \in Keys
    <3>1. <<"lang:", best>> \in Seq(KeyParts) /\ Len(<<"lang:", best>>) = 2 BY DEF KeyParts
    <3> QED BY <3>1 DEF Keys, EmptyKey
  <2>2. Pair(<<"lang:", best>>, 1) \in JobPairs BY <2>1 DEF Pair, JobPairs
  <2> QED BY <2>2
<1>2. ASSUME NEW winners \in SUBSET DOMAIN Languages
      PROVE  (IF winners = {} THEN "unknown" ELSE Languages[Min(winners)]) \in KeyParts
  <2>1. Len(Languages) \in Nat /\ DOMAIN Languages = 1 .. Len(Languages) BY TextJobsAssumption
  <2>2. winners # {} => Min(winners) \in DOMAIN Languages BY <1>2, <2>1, MinPosition
  <2>3. \A i \in DOMAIN Languages : Languages[i] \in KeyParts BY TextJobsAssumption DEF KeyParts
  <2>4. CASE winners = {} BY <2>4 DEF KeyParts
  <2>5. CASE winners # {}
    <3>1. Languages[Min(winners)] \in KeyParts BY <2>2, <2>3, <2>5
    <3> QED BY <2>5, <3>1
  <2> QED BY <2>4, <2>5
<1>3. <<>> \in Seq(JobPairs) OBVIOUS
<1> QED BY <1>1, <1>2, <1>3 DEF LangDetectMap

\* domainpop emits hosts.
LEMMA DomainPopType == ASSUME NEW text \in Seq(Symbols) PROVE DomainPopMap(text) \in Seq(JobPairs)
<1>1. ASSUME NEW url \in Seq(Symbols) PROVE DomainOf(url) \in Seq(KeyParts)
  <2>1. <<>> \in Seq(KeyParts) OBVIOUS
  <2>2. url # <<>> => Tail(url) \in Seq(Symbols) OBVIOUS
  <2>3. \A t \in Seq(Symbols) : <<"site">> \o t \in Seq(KeyParts)
    <3>1. <<"site">> \in Seq(KeyParts) /\ Symbols \subseteq KeyParts BY DEF KeyParts
    <3>2. \A t \in Seq(Symbols) : t \in Seq(KeyParts) BY <3>1
    <3> QED BY <3>1, <3>2
  <2> QED BY <2>1, <2>2, <2>3 DEF DomainOf, NoDomain, IsURL
<1>2. ASSUME NEW t \in Seq(Symbols), IsURL(t) PROVE TrimDots(t) \in Seq(Symbols)
  <2> DEFINE solid == {i \in DOMAIN t : t[i] # "."}
  <2>1. Len(t) \in Nat /\ DOMAIN t = 1 .. Len(t) /\ 1 \in solid /\ solid \in SUBSET (1 .. Len(t))
    BY <1>2 DEF IsURL
  <2>2. Max(solid) \in 1 .. Len(t)
    <3> HIDE DEF solid
    <3> QED BY <2>1, MaxPosition
  <2>3. SubSeq(t, 1, Max(solid)) \in Seq(Symbols)
    <3> HIDE DEF solid
    <3> QED BY <2>2
  <2> QED BY <2>3 DEF TrimDots
<1>3. PICK line \in Seq(Symbols) : line = TrimSpace(text) BY TrimType, Zenon
<1>4. PICK tokens \in Seq(Seq(Symbols)) : tokens = Fields(line, Symbols \ {Blank})
  <2>1. PICK R : R = Seq(Symbols \cap (Symbols \ {Blank})) \ {<<>>} OBVIOUS
  <2>2. R \subseteq Seq(Symbols) BY <2>1
  <2>3. Fields(line, Symbols \ {Blank}) \in Seq(R) BY <2>1, FieldsType
  <2> QED BY <2>2, <2>3
<1> DEFINE isURL == {t \in Range(tokens) : IsURL(t)}
<1>5. PICK urls \in Seq(Seq(Symbols) \cap isURL) : urls = Only(tokens, isURL)
  BY OnlySteps, Zenon
<1> DEFINE trimmed == [i \in DOMAIN urls |-> DomainOf(TrimDots(urls[i]))]
           found == IF line = <<>> \/ line[1] = "W" THEN <<>>
                    ELSE IF line[1] = "T" THEN << DomainOf(TrimSpace(Tail(line))) >>
                    ELSE trimmed
<1>6. trimmed \in Seq(Seq(KeyParts))
  <2>1. ASSUME NEW i \in DOMAIN urls PROVE DomainOf(TrimDots(urls[i])) \in Seq(KeyParts)
    <3>1. urls[i] \in Seq(Symbols) /\ IsURL(urls[i]) BY <1>5
    <3> QED BY <1>1, <1>2, <3>1
  <2>2. trimmed \in [DOMAIN urls -> Seq(KeyParts)] BY <2>1, Zenon
  <2> HIDE DEF trimmed, isURL
  <2> QED BY <1>5, <2>2, MappedSeq, Zenon
<1>7. found \in Seq(Seq(KeyParts))
  <2>1. <<>> \in Seq(Seq(KeyParts)) OBVIOUS
  <2>2. ASSUME line # <<>> PROVE << DomainOf(TrimSpace(Tail(line))) >> \in Seq(Seq(KeyParts))
    <3>1. Tail(line) \in Seq(Symbols) BY <2>2
    <3>2. DomainOf(TrimSpace(Tail(line))) \in Seq(KeyParts) BY <1>1, <3>1, TrimType
    <3> QED BY <3>2
  <2> HIDE DEF trimmed
  <2> QED BY <1>6, <2>1, <2>2
<1>8. ASSUME NEW f \in Seq(Seq(KeyParts)), NEW hosts, hosts = Only(f, Range(f) \ {NoDomain})
      PROVE  [i \in DOMAIN hosts |-> Pair(hosts[i], 1)] \in Seq(JobPairs)
  <2>1. hosts \in Seq(Seq(KeyParts) \cap (Range(f) \ {NoDomain})) BY <1>8, OnlySteps, Zenon
  <2>2. ASSUME NEW i \in DOMAIN hosts PROVE Pair(hosts[i], 1) \in JobPairs
    <3>1. hosts[i] \in Seq(KeyParts) \ {<<>>} BY <2>1 DEF NoDomain
    <3> QED BY <3>1 DEF Pair, JobPairs, Keys, EmptyKey
  <2>3. [i \in DOMAIN hosts |-> Pair(hosts[i], 1)] \in [DOMAIN hosts -> JobPairs] BY <2>2, Zenon
  <2> QED BY <2>1, <2>3, MappedSeq, Zenon
<1>9. DomainPopMap(text) =
        LET hosts == Only(found, Range(found) \ {NoDomain}) IN [i \in DOMAIN hosts |-> Pair(hosts[i], 1)]
  BY <1>3, <1>4, <1>5 DEF DomainPopMap
<1> HIDE DEF found
<1> QED BY <1>7, <1>8, <1>9

\* A mapper emits pairs with a key that is not empty.
LEMMA JobMapType ==
    ASSUME NEW job \in JobNames, NEW line \in Seq(Symbols) PROVE JobMap(job, line) \in Seq(JobPairs)
<1>1. CASE job = "wordcount" BY <1>1, WordCountType DEF JobMap
<1>2. CASE job = "docdensity" BY <1>2, DocDensityType DEF JobMap
<1>3. CASE job = "langdetect" BY <1>3, LangDetectType DEF JobMap
<1>4. CASE job = "domainpop" BY <1>4, DomainPopType DEF JobMap
<1> QED BY <1>1, <1>2, <1>3, <1>4 DEF JobNames

-----------------------------------------------------------------------------
(* The worker's algorithms *)

\* Where runReduce can be.
StreamStates == [out : Seq(JobPairs), key : Seq(KeyParts), values : Seq(Nat)]

\* The value of a key is a natural number.
LEMMA JobReduceType == ASSUME NEW job, NEW values \in Seq(Nat) PROVE JobReduce(job, values) \in Nat
<1>1. SumReduce(values) \in Nat BY SumReduceSteps
<1>2. Len(values) \in Nat OBVIOUS
<1> QED BY <1>1, <1>2 DEF JobReduce, CountReduce

\* What runReduce writes for a key.
LEMMA EmitType ==
    ASSUME NEW job, NEW acc \in StreamStates, acc.key # EmptyKey PROVE Emit(job, acc) \in Seq(JobPairs)
<1>1. acc.out \in Seq(JobPairs) /\ acc.key \in Keys /\ acc.values \in Seq(Nat)
  BY DEF StreamStates, Keys
<1>2. JobReduce(job, acc.values) \in Nat BY <1>1, JobReduceType
<1>3. PICK kv \in JobPairs : kv = Pair(acc.key, JobReduce(job, acc.values))
  <2>1. Pair(acc.key, JobReduce(job, acc.values)) \in JobPairs BY <1>1, <1>2 DEF Pair, JobPairs
  <2> QED BY <2>1, Zenon
<1>4. Append(acc.out, kv) \in Seq(JobPairs) BY <1>1
<1> QED BY <1>3, <1>4 DEF Emit

\* One more pair.
LEMMA TakePairType ==
    ASSUME NEW job, NEW acc \in StreamStates, NEW kv \in JobPairs
    PROVE  TakePair(job, acc, kv) \in StreamStates
<1>1. kv.key \in Keys /\ kv.value \in Nat BY DEF JobPairs
<1>2. kv.key \in Seq(KeyParts) BY <1>1 DEF Keys
<1>3. CASE acc.key \in {EmptyKey, kv.key}
  <2>1. Append(acc.values, kv.value) \in Seq(Nat) BY <1>1 DEF StreamStates
  <2>2. TakePair(job, acc, kv) = [acc EXCEPT !.key = kv.key, !.values = Append(@, kv.value)]
    BY <1>3 DEF TakePair
  <2>3. TakePair(job, acc, kv) = [out |-> acc.out, key |-> kv.key, values |-> Append(acc.values, kv.value)]
    BY <2>2 DEF StreamStates
  <2> QED BY <1>2, <2>1, <2>3 DEF StreamStates
<1>4. CASE acc.key \notin {EmptyKey, kv.key}
  <2>1. Emit(job, acc) \in Seq(JobPairs) BY <1>4, EmitType
  <2>2. <<kv.value>> \in Seq(Nat) BY <1>1
  <2>3. TakePair(job, acc, kv) = [out |-> Emit(job, acc), key |-> kv.key, values |-> <<kv.value>>]
    BY <1>4 DEF TakePair
  <2> QED BY <1>2, <2>1, <2>2, <2>3 DEF StreamStates
<1> QED BY <1>3, <1>4

\* No pair yet.
LEMMA NoKeyYetType == NoKeyYet \in StreamStates
<1>1. <<>> \in Seq(JobPairs) /\ <<>> \in Seq(KeyParts) /\ <<>> \in Seq(Nat) OBVIOUS
<1> QED BY <1>1 DEF NoKeyYet, StreamStates, EmptyKey

\* The loop of runReduce is a fold.
LEMMA StreamedFolds ==
    ASSUME NEW A, A = JobPairs, NEW job, NEW s \in Seq(A)
    PROVE  FoldsTo(s, NoKeyYet, [p \in StreamStates \X A |-> TakePair(job, p[1], p[2])], Streamed(job, s))
<1> DEFINE Op(acc, x) == TakePair(job, acc, x)
           step == [p \in StreamStates \X A |-> TakePair(job, p[1], p[2])]
           it == CHOOSE h : h = [T \in SUBSET DOMAIN s |->
                   IF T = {} THEN NoKeyYet ELSE Op(h[T \ {Max(T)}], s[Max(T)])]
<1>1. Streamed(job, s) = it[DOMAIN s] BY DEF Streamed, FoldLeft, MapThenFoldSet
<1>2. PICK g \in [SUBSET DOMAIN s -> StreamStates] : Folds(g, s, NoKeyYet, step)
  <2>1. NoKeyYet \in StreamStates BY NoKeyYetType
  <2>2. \A q \in StreamStates, c \in A : Op(q, c) \in StreamStates BY TakePairType
  <2>3. step \in [StreamStates \X A -> StreamStates] BY <2>2, Zenon
  <2> HIDE DEF step
  <2> QED BY <2>1, <2>3, FoldExists, Zenon
<1>3. ASSUME NEW T \in SUBSET DOMAIN s, T # {} PROVE g[T] = Op(g[T \ {Max(T)}], s[Max(T)])
  <2>1. PICK m \in T : m = Max(T) BY <1>3, LastOfSome
  <2>2. <<g[T \ {m}], s[m]>> \in StreamStates \X A
    <3>1. T \ {m} \in SUBSET DOMAIN s /\ m \in DOMAIN s /\ s[m] \in A BY <2>1
    <3> QED BY <3>1, Zenon
  <2>3. g[T] = step[<<g[T \ {m}], s[m]>>] BY <1>2, <1>3, <2>1 DEF Folds
  <2> HIDE DEF Op
  <2> QED BY <2>1, <2>2, <2>3 DEF Op
<1>4. g = [T \in SUBSET DOMAIN s |-> IF T = {} THEN NoKeyYet ELSE Op(g[T \ {Max(T)}], s[Max(T)])]
  <2>1. g[{}] = NoKeyYet BY <1>2 DEF Folds
  <2> HIDE DEF Op
  <2> QED BY <1>3, <2>1, Zenon
<1> HIDE DEF Op, step
<1>5. it = [T \in SUBSET DOMAIN s |-> IF T = {} THEN NoKeyYet ELSE Op(it[T \ {Max(T)}], s[Max(T)])]
  BY <1>4, Zenon
<1> HIDE DEF it
<1>6. it[DOMAIN s] = g[DOMAIN s]
  <2>1. it[{}] = g[{}] BY <1>4, <1>5, Zenon
  <2>2. \A T \in SUBSET DOMAIN s : T # {} /\ it[T \ {Max(T)}] = g[T \ {Max(T)}] => it[T] = g[T]
    BY <1>3, <1>5, Zenon
  <2> QED BY <2>1, <2>2, SolutionsAgree
<1>7. FoldsTo(s, NoKeyYet, step, Streamed(job, s)) BY <1>1, <1>2, <1>6 DEF FoldsTo
<1> QED BY <1>7 DEF step

\* runReduce takes one pair after the other.
LEMMA StreamedSteps ==
    ASSUME NEW A, A = JobPairs, NEW job
    PROVE  /\ Streamed(job, <<>>) = NoKeyYet
           /\ \A s \in Seq(A), e \in A : Streamed(job, Append(s, e)) = TakePair(job, Streamed(job, s), e)
           /\ \A s \in Seq(A) : Streamed(job, s) \in StreamStates
<1> DEFINE step == [p \in StreamStates \X A |-> TakePair(job, p[1], p[2])]
           P == {s \in Seq(A) : Streamed(job, s) \in StreamStates}
<1>1. \A s \in Seq(A) : FoldsTo(s, NoKeyYet, step, Streamed(job, s))
  BY StreamedFolds
<1>2. Streamed(job, <<>>) = NoKeyYet /\ NoKeyYet \in StreamStates
  <2>1. FoldsTo(<<>>, NoKeyYet, step, Streamed(job, <<>>))
    <3>1. <<>> \in Seq(A) OBVIOUS
    <3> QED BY <1>1, <3>1, Zenon
  <2>2. NoKeyYet \in StreamStates BY NoKeyYetType
  <2> HIDE DEF step
  <2>3. Streamed(job, <<>>) = NoKeyYet BY <2>1, FoldsToStart
  <2> QED BY <2>2, <2>3
<1>3. ASSUME NEW s \in Seq(A), NEW e \in A, s \in P PROVE Streamed(job, Append(s, e)) = TakePair(job, Streamed(job, s), e)
  <2>1. FoldsTo(s, NoKeyYet, step, Streamed(job, s)) /\ FoldsTo(Append(s, e), NoKeyYet, step, Streamed(job, Append(s, e)))
    <3>1. Append(s, e) \in Seq(A) OBVIOUS
    <3> QED BY <1>1, <3>1, Zenon
  <2>2. Streamed(job, Append(s, e)) = step[<<Streamed(job, s), e>>]
    <3> HIDE DEF step, P
    <3> QED BY <2>1, FoldsToAppend
  <2>3. <<Streamed(job, s), e>> \in StreamStates \X A BY <1>3
  <2> QED BY <2>2, <2>3
<1>4. \A s \in Seq(A) : s \in P
  <2>1. <<>> \in P
    <3>1. <<>> \in Seq(A) OBVIOUS
    <3> QED BY <1>2, <3>1
  <2>2. ASSUME NEW s \in Seq(A), NEW e \in A, s \in P PROVE Append(s, e) \in P
    <3>1. Streamed(job, s) \in StreamStates /\ Streamed(job, Append(s, e)) = TakePair(job, Streamed(job, s), e) BY <1>3, <2>2
    <3>2. TakePair(job, Streamed(job, s), e) \in StreamStates BY <3>1, TakePairType
    <3>3. Append(s, e) \in Seq(A) OBVIOUS
    <3> QED BY <3>1, <3>2, <3>3
  <2> HIDE DEF P
  <2> QED BY <2>1, <2>2, InductionOnSeq
<1>5. ASSUME NEW s \in Seq(A), NEW e \in A PROVE Streamed(job, Append(s, e)) = TakePair(job, Streamed(job, s), e)
  <2>1. s \in P BY <1>4
  <2> HIDE DEF P
  <2> QED BY <1>3, <2>1
<1>6. \A s \in Seq(A) : Streamed(job, s) \in StreamStates BY <1>4
<1> QED BY <1>2, <1>5, <1>6

\* A slot's output has pairs with a key that is not empty.
LEMMA RunReduceType ==
    ASSUME NEW job, NEW sorted \in Seq(JobPairs) PROVE RunReduce(job, sorted) \in Seq(JobPairs)
<1>1. Streamed(job, sorted) \in StreamStates BY StreamedSteps
<1>2. Streamed(job, sorted).out \in Seq(JobPairs) BY <1>1 DEF StreamStates
<1> QED BY <1>1, <1>2, EmitType DEF RunReduce

\* The pairs of a sequence with a given property.
LEMMA OnlyType ==
    ASSUME NEW A, NEW s \in Seq(A), NEW B PROVE Only(s, B) \in Seq(A)
<1>1. Only(s, B) \in Seq(A \cap B) BY OnlySteps
<1>2. PICK C : C = A \cap B OBVIOUS
<1>3. C \subseteq A /\ Only(s, B) \in Seq(C) BY <1>1, <1>2
<1> QED BY <1>3

\* A bucket.
LEMMA RunMapType ==
    ASSUME NEW job \in JobNames, NEW text \in Seq(Symbols), NEW s, NEW r
    PROVE  RunMap(job, text, s, r) \in Seq(JobPairs)
<1>1. PICK lines \in Seq(Seq(Symbols)) : lines = LinesOf(text) BY LinesType, Zenon
<1> DEFINE emitted == [i \in DOMAIN lines |-> JobMap(job, lines[i])]
<1>2. emitted \in Seq(Seq(JobPairs))
  <2>1. \A i \in DOMAIN lines : JobMap(job, lines[i]) \in Seq(JobPairs) BY JobMapType
  <2>2. emitted \in [DOMAIN lines -> Seq(JobPairs)] BY <2>1, Zenon
  <2> HIDE DEF emitted
  <2> QED BY <2>2, MappedSeq, Zenon
<1>3. PICK B : RunMap(job, text, s, r) = Only(FlattenSeq(emitted), B) BY <1>1 DEF RunMap
<1> HIDE DEF emitted
<1>4. FlattenSeq(emitted) \in Seq(JobPairs) BY <1>2, FlattenSteps
<1> QED BY <1>3, <1>4, OnlyType

\* A finite set has a sequence with each of its elements once.
LEMMA SetToSeqBijection ==
    ASSUME NEW S, IsFiniteSet(S)
    PROVE  /\ SetToSeq(S) \in Seq(S) /\ IsInjective(SetToSeq(S)) /\ DOMAIN SetToSeq(S) = 1 .. Cardinality(S)
           /\ \A x \in S : \E i \in DOMAIN SetToSeq(S) : SetToSeq(S)[i] = x
<1>1. Cardinality(S) \in Nat /\ ExistsBijection(1 .. Cardinality(S), S) BY FS_CardinalityType
<1>2. PICK n \in Nat : n = Cardinality(S) BY <1>1
<1>3. \E f \in [1 .. n -> S] : IsInjective(f)
  BY <1>1, <1>2 DEF ExistsBijection, Bijection, Injection
<1>4. SetToSeq(S) \in [1 .. n -> S] /\ IsInjective(SetToSeq(S)) BY <1>2, <1>3, Zenon DEF SetToSeq
<1>5. SetToSeq(S) \in Injection(1 .. n, S) BY <1>4 DEF Injection
<1>6. Cardinality(1 .. n) = n /\ IsFiniteSet(1 .. n)
  <2>1. 1 \in Int /\ n \in Int /\ n - 1 + 1 = n /\ (1 > n => n = 0) OBVIOUS
  <2> QED BY <2>1, FS_Interval
<1>7. SetToSeq(S) \in Surjection(1 .. n, S) BY <1>2, <1>5, <1>6, FS_Injection
<1>8. SetToSeq(S) \in Seq(S) BY <1>4
<1> QED BY <1>2, <1>4, <1>7, <1>8 DEF Surjection

\* The keys of finitely many pairs.
LEMMA KeysFinite == ASSUME NEW A, NEW pairs \in Seq(A) PROVE IsFiniteSet({kv.key : kv \in Range(pairs)})
<1>1. Len(pairs) \in Nat /\ DOMAIN pairs = 1 .. Len(pairs) OBVIOUS
<1>2. IsFiniteSet(DOMAIN pairs) BY <1>1, FS_Interval
<1> DEFINE keyAt == [i \in DOMAIN pairs |-> pairs[i].key]
           keys == {kv.key : kv \in Range(pairs)}
<1>3. keyAt \in Surjection(DOMAIN pairs, keys) BY DEF Surjection, Range
<1> QED BY <1>2, <1>3, FS_Surjection

\* Sorting puts the pairs of one key after those of another.
LEMMA SortedBlocks ==
    ASSUME NEW pairs \in Seq(JobPairs)
    PROVE  \E order \in Seq(Keys) :
               /\ IsInjective(order)
               /\ Range(order) = KeysOf(pairs)
               /\ SortByKey(pairs) = FlattenSeq([i \in DOMAIN order |->
                                       Only(pairs, {kv \in Range(pairs) : kv.key = order[i]})])
<1> DEFINE keys == {kv.key : kv \in Range(pairs)}
<1>1. keys \subseteq Keys
  <2> SUFFICES ASSUME NEW kv \in Range(pairs) PROVE kv.key \in Keys OBVIOUS
  <2>1. kv \in JobPairs BY DEF Range
  <2> QED BY <2>1 DEF JobPairs
<1>2. EmptyKey \notin keys /\ keys \ {EmptyKey} = keys BY <1>1 DEF Keys
<1>3. IsFiniteSet(keys) BY KeysFinite
<1>4. PICK order : order = SetToSeq(keys) OBVIOUS
<1>5. /\ order \in Seq(keys) /\ IsInjective(order)
      /\ \A x \in keys : \E i \in DOMAIN order : order[i] = x
  <2> HIDE DEF keys
  <2> QED BY <1>3, <1>4, SetToSeqBijection
<1>6. order \in Seq(Keys) BY <1>1, <1>5
<1>7. Range(order) = keys
  <2> HIDE DEF keys
  <2> QED BY <1>5 DEF Range
<1>8. <<>> \o order = order BY <1>6
<1>9. SortByKey(pairs) = FlattenSeq([i \in DOMAIN order |->
                            Only(pairs, {kv \in Range(pairs) : kv.key = order[i]})])
  BY <1>2, <1>4, <1>8, Zenon DEF SortByKey
<1> QED BY <1>5, <1>6, <1>7, <1>9 DEF KeysOf

\* The sorted pairs.
LEMMA SortByKeyType == ASSUME NEW pairs \in Seq(JobPairs) PROVE SortByKey(pairs) \in Seq(JobPairs)
<1>1. PICK order \in Seq(Keys) :
        SortByKey(pairs) = FlattenSeq([i \in DOMAIN order |->
                             Only(pairs, {kv \in Range(pairs) : kv.key = order[i]})])
  BY SortedBlocks, Zenon
<1> DEFINE blocks == [i \in DOMAIN order |-> Only(pairs, {kv \in Range(pairs) : kv.key = order[i]})]
<1>2. blocks \in [DOMAIN order -> Seq(JobPairs)] BY OnlyType, Zenon
<1>3. SortByKey(pairs) = FlattenSeq(blocks) BY <1>1
<1> HIDE DEF blocks
<1>4. blocks \in Seq(Seq(JobPairs)) BY <1>2, MappedSeq, Zenon
<1> QED BY <1>3, <1>4, FlattenSteps

\* The concatenation of what the slots hold.
LEMMA AllSlotsType ==
    ASSUME NEW A, NEW f \in [Slots -> Seq(A)]
    PROVE  /\ [i \in 1 .. N |-> f[i - 1]] \in Seq(Seq(A))
           /\ FlattenSeq([i \in 1 .. N |-> f[i - 1]]) \in Seq(A)
<1>1. \A i \in 1 .. N : i - 1 \in Slots BY ChunkingAssumption DEF Slots
<1>2. PICK ss : ss = [i \in 1 .. N |-> f[i - 1]] OBVIOUS
<1>3. ss \in Seq(Seq(A))
  <2>1. ss \in [1 .. N -> Seq(A)] BY <1>1, <1>2
  <2> QED BY <2>1, ChunkingAssumption
<1>4. FlattenSeq(ss) \in Seq(A) BY <1>3, FlattenSteps
<1> QED BY <1>2, <1>3, <1>4

\* The merged counts are natural numbers.
LEMMA MergeType ==
    ASSUME NEW results \in [Slots -> Seq(JobPairs)], NEW k \in DOMAIN MergeResults(results)
    PROVE  MergeResults(results)[k] \in Nat
<1>1. PICK all \in Seq(JobPairs) : all = FlattenSeq([i \in 1 .. N |-> results[i - 1]])
  BY AllSlotsType, Zenon
<1>2. \A kv \in JobPairs : kv.value \in Nat BY DEF JobPairs
<1>3. SumOf(all, k) \in Nat BY <1>1, <1>2, SumOfSteps
<1> QED BY <1>1, <1>3 DEF MergeResults

-----------------------------------------------------------------------------
(* The chunks of a local file *)

\* f gives, for every position, the chunks of what comes after it.
ChunksAfter(f, data) ==
    \A from \in 0 .. Len(data) :
        f[from] = IF from = Len(data) THEN <<>>
                  ELSE LET end == ChunkEnd(data, from, ChunkSize)
                       IN << SubSeq(data, from + 1, end) >> \o f[end]

\* A chunk ends after it starts, and within the data.
LEMMA ChunkEndType ==
    ASSUME NEW A, NEW data \in Seq(A), NEW from \in 0 .. Len(data), from # Len(data)
    PROVE  ChunkEnd(data, from, ChunkSize) \in from + 1 .. Len(data)
<1> DEFINE newlines == {i \in from + 1 .. from + ChunkSize : data[i] = NL}
<1>1. Len(data) \in Nat /\ from \in Nat /\ from < Len(data) /\ ChunkSize \in Nat \ {0}
  BY ChunkingAssumption
<1>2. ASSUME newlines # {} PROVE Max(newlines) \in from + 1 .. from + ChunkSize
  <2>1. from + ChunkSize \in Nat /\ newlines \in SUBSET (1 .. (from + ChunkSize)) BY <1>1
  <2>2. Max(newlines) \in newlines
    <3> HIDE DEF newlines
    <3> QED BY <1>2, <2>1, MaxPosition
  <2> QED BY <2>2
<1> HIDE DEF newlines
<1>3. CASE Len(data) - from <= ChunkSize BY <1>1, <1>3 DEF ChunkEnd
<1>4. CASE ~(Len(data) - from <= ChunkSize)
  <2>1. from + ChunkSize \in from + 1 .. Len(data)
        /\ \A m \in from + 1 .. from + ChunkSize : m \in from + 1 .. Len(data)
    BY <1>1, <1>4
  <2> QED BY <1>2, <1>4, <2>1 DEF ChunkEnd, newlines
<1> QED BY <1>3, <1>4

\* The recursion of splitIntoChunks ends: it gets closer to the end of the data.
LEMMA ChunksExist ==
    ASSUME NEW A, NEW data \in Seq(A)
    PROVE  \E f \in [0 .. Len(data) -> Seq(Seq(A))] :
             ChunksAfter(f, data) /\ SplitIntoChunks(data, ChunkSize) = f[0]
<1> DEFINE L == Len(data)
           D == 0 .. L
           End(from) == ChunkEnd(data, from, ChunkSize)
           V == [D -> Seq(Seq(A))]
           Body(g, from) == IF from = L THEN <<>> ELSE << SubSeq(data, from + 1, End(from)) >> \o g[End(from)]
           next == [p \in Nat \X V |-> [from \in D |-> Body(p[2], from)]]
<1>1. L \in Nat OBVIOUS
<1>2. ASSUME NEW from \in D, from # L
      PROVE  End(from) \in D /\ from < End(from) /\ SubSeq(data, from + 1, End(from)) \in Seq(A)
  <2>1. End(from) \in from + 1 .. L BY <1>2, ChunkEndType
  <2> HIDE DEF End
  <2> QED BY <1>1, <2>1
<1> HIDE DEF End
<1>3. ASSUME NEW g \in V, NEW from \in D PROVE Body(g, from) \in Seq(Seq(A))
  <2>1. CASE from = L
    <3>1. <<>> \in Seq(Seq(A)) OBVIOUS
    <3> QED BY <2>1, <3>1
  <2>2. CASE from # L
    <3>1. PICK c \in Seq(A) : c = SubSeq(data, from + 1, End(from)) BY <1>2, <2>2
    <3>2. g[End(from)] \in Seq(Seq(A)) BY <1>2, <2>2
    <3>3. <<c>> \o g[End(from)] \in Seq(Seq(A)) BY <3>2
    <3> QED BY <2>2, <3>1, <3>3
  <2> QED BY <2>1, <2>2
<1>4. PICK it \in [Nat -> V] : Iterates(it, [from \in D |-> <<>>], next)
  <2>1. [from \in D |-> <<>>] \in V
    <3>1. <<>> \in Seq(Seq(A)) OBVIOUS
    <3> QED BY <3>1
  <2>2. \A g \in V : [from \in D |-> Body(g, from)] \in V BY <1>3
  <2> HIDE DEF V, Body
  <2>3. next \in [Nat \X V -> V] BY <2>2
  <2> HIDE DEF next, D
  <2> QED BY <2>1, <2>3, NatRecursion, Zenon
<1>5. ASSUME NEW n \in Nat, NEW from \in D PROVE it[n + 1][from] = Body(it[n], from)
  <2>1. it[n + 1] = next[<<n, it[n]>>] BY <1>4 DEF Iterates
  <2>2. <<n, it[n]>> \in Nat \X V BY <1>4
  <2> HIDE DEF V, Body
  <2>3. it[n + 1] = [x \in D |-> Body(it[n], x)] BY <2>1, <2>2
  <2> QED BY <2>3
<1>6. ASSUME NEW g, NEW h, NEW from \in D, from = L \/ g[End(from)] = h[End(from)]
      PROVE  Body(g, from) = Body(h, from)
  BY <1>6
<1> HIDE DEF Body, next, V
<1> DEFINE P == {n \in Nat : \A from \in D : L - from < n => it[n][from] = it[n + 1][from]}
<1>7. 0 \in P BY <1>1
<1>8. ASSUME NEW n \in P PROVE n + 1 \in P
  <2>1. n \in Nat OBVIOUS
  <2>2. ASSUME NEW from \in D, L - from < n + 1 PROVE it[n + 1][from] = it[(n + 1) + 1][from]
    <3>1. from = L \/ it[n][End(from)] = it[n + 1][End(from)]
      <4> SUFFICES ASSUME from # L PROVE it[n][End(from)] = it[n + 1][End(from)] OBVIOUS
      <4>1. End(from) \in D /\ L - End(from) < n BY <1>1, <1>2, <2>1, <2>2
      <4> QED BY <4>1
    <3>2. it[n + 1][from] = Body(it[n], from) BY <1>5, <2>1
    <3>3. it[(n + 1) + 1][from] = Body(it[n + 1], from)
      <4>1. n + 1 \in Nat BY <2>1
      <4> QED BY <1>5, <4>1, Zenon
    <3>4. Body(it[n], from) = Body(it[n + 1], from) BY <1>6, <3>1, Zenon
    <3> QED BY <3>2, <3>3, <3>4, Zenon
  <2> QED BY <2>1, <2>2
<1>9. P = Nat
  <2>1. P \subseteq Nat OBVIOUS
  <2> HIDE DEF P
  <2> QED BY <1>7, <1>8, <2>1, InductionOnNat
<1>10. PICK f \in V : \A from \in D : f[from] = Body(f, from)
  <2>1. L + 1 \in Nat /\ \A from \in D : L - from < L + 1 BY <1>1
  <2>2. \A from \in D : it[L + 1][from] = it[(L + 1) + 1][from] BY <1>9, <2>1
  <2>3. \A from \in D : it[(L + 1) + 1][from] = Body(it[L + 1], from) BY <1>5, <2>1
  <2>4. it[L + 1] \in V BY <1>4, <2>1
  <2> QED BY <2>2, <2>3, <2>4
<1>11. f = [from \in D |-> Body(f, from)] BY <1>10 DEF V
<1> DEFINE h == CHOOSE g : g = [from \in D |-> Body(g, from)]
<1>12. h = [from \in D |-> Body(h, from)] BY <1>11, Zenon
<1>13. h \in V
  <2> HIDE DEF h
  <2> DEFINE Q == {n \in Nat : \A from \in D : L - from < n => h[from] \in Seq(Seq(A))}
  <2>1. 0 \in Q BY <1>1
  <2>2. ASSUME NEW n \in Q PROVE n + 1 \in Q
    <3>1. n \in Nat OBVIOUS
    <3>2. ASSUME NEW from \in D, L - from < n + 1 PROVE h[from] \in Seq(Seq(A))
      <4>1. h[from] = Body(h, from) BY <1>12
      <4>2. CASE from = L
        <5>1. <<>> \in Seq(Seq(A)) OBVIOUS
        <5> QED BY <4>1, <4>2, <5>1 DEF Body
      <4>3. CASE from # L
        <5>1. End(from) \in D /\ L - End(from) < n BY <1>1, <1>2, <3>1, <3>2, <4>3
        <5>2. h[End(from)] \in Seq(Seq(A)) BY <5>1
        <5>3. PICK c \in Seq(A) : c = SubSeq(data, from + 1, End(from)) BY <1>2, <4>3
        <5>4. <<c>> \o h[End(from)] \in Seq(Seq(A)) BY <5>2
        <5> QED BY <4>1, <4>3, <5>3, <5>4 DEF Body
      <4> QED BY <4>2, <4>3
    <3> QED BY <3>1, <3>2
  <2>3. Q = Nat
    <3>1. Q \subseteq Nat OBVIOUS
    <3> HIDE DEF Q
    <3> QED BY <2>1, <2>2, <3>1, InductionOnNat
  <2>4. L + 1 \in Q
    <3>1. L + 1 \in Nat BY <1>1
    <3> QED BY <2>3, <3>1
  <2>5. \A from \in D : h[from] \in Seq(Seq(A))
    <3>1. \A from \in D : L - from < L + 1 BY <1>1
    <3> QED BY <2>4, <3>1
  <2> HIDE DEF Q, D
  <2> QED BY <1>12, <2>5, Zenon DEF V
<1>14. SplitIntoChunks(data, ChunkSize) = h[0] BY DEF SplitIntoChunks, Body, End
<1>15. ChunksAfter(h, data)
  <2> HIDE DEF h
  <2> QED BY <1>12 DEF ChunksAfter, Body, End
<1> HIDE DEF h
<1> QED BY <1>13, <1>14, <1>15 DEF V

\* A slot's chunk.
LEMMA ChunkType ==
    ASSUME NEW A, NEW data \in Seq(A), NEW s \in Slots
    PROVE  ChunkForWorker(SplitIntoChunks(data, ChunkSize), s) \in Seq(A)
<1>1. PICK chunks \in Seq(Seq(A)) : chunks = SplitIntoChunks(data, ChunkSize)
  <2>1. 0 \in 0 .. Len(data) OBVIOUS
  <2> QED BY <2>1, ChunksExist
<1>2. s < Len(chunks) => chunks[s + 1] \in Seq(A)
  <2>1. s \in Nat BY ChunkingAssumption DEF Slots
  <2> QED BY <2>1
<1>3. <<>> \in Seq(A) OBVIOUS
<1> QED BY <1>1, <1>2, <1>3 DEF ChunkForWorker

\* The position after which each chunk of some data starts, and the end of the
\* data from where there are no more.
NextCut(data, from) == IF from = Len(data) THEN from ELSE ChunkEnd(data, from, ChunkSize)
Cuts(E, data) ==
    /\ E \in [Nat -> 0 .. Len(data)] /\ E[0] = 0
    /\ \A n \in Nat : E[n + 1] = NextCut(data, E[n])

\* A cut is followed by a later one, or by itself at the end.
LEMMA NextCutType ==
    ASSUME NEW A, NEW data \in Seq(A), NEW from \in 0 .. Len(data)
    PROVE  /\ NextCut(data, from) \in from .. Len(data)
           /\ from # Len(data) => NextCut(data, from) = ChunkEnd(data, from, ChunkSize)
                                  /\ NextCut(data, from) \in from + 1 .. Len(data)
<1>1. CASE from = Len(data) BY <1>1 DEF NextCut
<1>2. CASE from # Len(data)
  <2>1. PICK e \in from + 1 .. Len(data) : e = ChunkEnd(data, from, ChunkSize) BY <1>2, ChunkEndType
  <2>2. NextCut(data, from) = e BY <1>2, <2>1 DEF NextCut
  <2> QED BY <1>2, <2>1, <2>2
<1> QED BY <1>1, <1>2

\* There are such positions.
LEMMA CutsExist == ASSUME NEW A, NEW data \in Seq(A) PROVE \E E : Cuts(E, data)
<1>1. PICK V : V = 0 .. Len(data) OBVIOUS
<1>2. PICK next : next = [p \in Nat \X V |-> NextCut(data, p[2])] OBVIOUS
<1>3. next \in [Nat \X V -> V]
  <2>1. \A from \in V : NextCut(data, from) \in V
    <3>1. ASSUME NEW from \in V PROVE NextCut(data, from) \in V
      <4>1. PICK e \in from .. Len(data) : e = NextCut(data, from) BY <1>1, NextCutType
      <4> QED BY <1>1, <4>1
    <3> QED BY <3>1
  <2> QED BY <1>2, <2>1
<1>4. 0 \in V BY <1>1
<1>5. PICK E \in [Nat -> V] : Iterates(E, 0, next) BY <1>3, <1>4, NatRecursion
<1>6. ASSUME NEW n \in Nat PROVE E[n + 1] = NextCut(data, E[n])
  <2>1. E[n + 1] = next[<<n, E[n]>>] BY <1>5 DEF Iterates
  <2> QED BY <1>2, <1>5, <2>1
<1> QED BY <1>1, <1>5, <1>6 DEF Cuts, Iterates

\* What is left of the chunks where chunk n starts.
LeftAt(all, rest, n) ==
    Len(all) = n + Len(rest) /\ \A i \in 1 .. Len(rest) : all[n + i] = rest[i]

\* One chunk less is left where the next one starts.
LEMMA LeftNext ==
    ASSUME NEW C, NEW all \in Seq(C), NEW rest \in Seq(C), NEW c \in C, NEW n \in Nat,
           LeftAt(all, <<c>> \o rest, n)
    PROVE  n < Len(all) /\ all[n + 1] = c /\ LeftAt(all, rest, n + 1)
<1>1. PICK s \in Seq(C) : s = <<c>> \o rest
  <2>1. <<c>> \o rest \in Seq(C) OBVIOUS
  <2> QED BY <2>1, Zenon
<1>2. Len(s) = Len(rest) + 1 /\ s[1] = c /\ \A i \in 1 .. Len(rest) : s[i + 1] = rest[i] BY <1>1
<1>3. Len(all) = n + Len(s) /\ \A i \in 1 .. Len(s) : all[n + i] = s[i] BY <1>1 DEF LeftAt
<1>4. Len(rest) \in Nat /\ Len(all) \in Nat OBVIOUS
<1>5. \A i \in 1 .. Len(rest) : all[(n + 1) + i] = rest[i]
  <2>1. ASSUME NEW i \in 1 .. Len(rest) PROVE all[(n + 1) + i] = rest[i]
    <3>0. PICK L \in Nat : L = Len(rest) BY <1>4, Zenon
    <3>1. i \in 1 .. L /\ i + 1 \in 1 .. L + 1 /\ n + (i + 1) = (n + 1) + i BY <3>0
    <3>2. all[n + (i + 1)] = s[i + 1] BY <1>2, <1>3, <3>0, <3>1
    <3> QED BY <1>2, <3>1, <3>2
  <2> QED BY <2>1
<1> QED BY <1>2, <1>3, <1>4, <1>5 DEF LeftAt

\* The chunk of a slot is what lies between its cuts.
LEMMA ChunkIsCut ==
    ASSUME NEW A, NEW data \in Seq(A), NEW E, Cuts(E, data), NEW s \in Slots
    PROVE  ChunkForWorker(SplitIntoChunks(data, ChunkSize), s) = SubSeq(data, E[s] + 1, E[s + 1])
<1>1. PICK L \in Nat : L = Len(data) OBVIOUS
<1>2. PICK C : C = Seq(A) OBVIOUS
<1>3. PICK f \in [0 .. L -> Seq(C)] : ChunksAfter(f, data) /\ SplitIntoChunks(data, ChunkSize) = f[0]
  BY <1>1, <1>2, ChunksExist
<1>4. PICK all \in Seq(C) : all = f[0] BY <1>1, <1>3
<1>5. E \in [Nat -> 0 .. L] /\ E[0] = 0 /\ \A n \in Nat : E[n + 1] = NextCut(data, E[n])
  BY <1>1 DEF Cuts
<1>6. ASSUME NEW n \in Nat, E[n] # L
      PROVE  /\ f[E[n]] = << SubSeq(data, E[n] + 1, E[n + 1]) >> \o f[E[n + 1]]
             /\ SubSeq(data, E[n] + 1, E[n + 1]) \in C
  <2>1. PICK from \in 0 .. L : from = E[n] BY <1>5
  <2>2. PICK e \in from + 1 .. L : e = E[n + 1] /\ e = ChunkEnd(data, from, ChunkSize)
    BY <1>1, <1>5, <1>6, <2>1, NextCutType
  <2>3. f[from] = << SubSeq(data, from + 1, e) >> \o f[e] BY <1>1, <1>3, <1>6, <2>1, <2>2 DEF ChunksAfter
  <2>4. SubSeq(data, from + 1, e) \in Seq(A) BY <1>1
  <2> QED BY <1>2, <2>1, <2>2, <2>3, <2>4, Zenon
<1>7. f[L] = <<>>
  <2>1. \A from \in 0 .. L : from = L => f[from] = <<>> BY <1>1, <1>3 DEF ChunksAfter
  <2>2. L \in 0 .. L OBVIOUS
  <2> QED BY <2>1, <2>2
<1> DEFINE P == {n \in Nat : IF E[n] # L THEN LeftAt(all, f[E[n]], n) ELSE Len(all) <= n}
<1>8. 0 \in P
  <2>1. CASE L = 0 BY <1>4, <1>5, <1>7, <2>1
  <2>2. LeftAt(all, f[0], 0) BY <1>4 DEF LeftAt
  <2> QED BY <1>5, <2>1, <2>2
<1>9. ASSUME NEW n \in P PROVE n + 1 \in P
  <2>1. n \in Nat OBVIOUS
  <2>2. CASE E[n] = L
    <3>1. E[n + 1] = L BY <1>1, <1>5, <2>1, <2>2 DEF NextCut
    <3> QED BY <1>4, <2>1, <2>2, <3>1
  <2>3. CASE E[n] # L
    <3>1. PICK c \in C : c = SubSeq(data, E[n] + 1, E[n + 1]) BY <1>6, <2>1, <2>3
    <3>2. E[n + 1] \in 0 .. L
      <4>1. PICK x \in Nat : x = n + 1 BY <2>1
      <4>2. E[x] \in 0 .. L BY <1>5
      <4> QED BY <4>1, <4>2
    <3>3. PICK rest \in Seq(C) : rest = f[E[n + 1]] BY <1>3, <3>2
    <3>4. f[E[n]] = <<c>> \o rest BY <1>6, <2>1, <2>3, <3>1, <3>3
    <3>5. LeftAt(all, rest, n + 1)
      <4>1. LeftAt(all, f[E[n]], n) BY <2>3
      <4>2. LeftAt(all, <<c>> \o rest, n) BY <3>4, <4>1, Zenon
      <4> QED BY <2>1, <4>2, LeftNext
    <3>6. CASE E[n + 1] = L
      <4>1. rest = <<>> BY <1>7, <3>3, <3>6
      <4> QED BY <2>1, <3>5, <3>6, <4>1 DEF LeftAt
    <3>7. CASE E[n + 1] # L BY <2>1, <3>3, <3>5, <3>7
    <3> QED BY <3>6, <3>7
  <2> QED BY <2>2, <2>3
<1>10. s \in P /\ s \in Nat
  <2>1. P \in SUBSET Nat OBVIOUS
  <2> HIDE DEF P
  <2>2. P = Nat BY <1>8, <1>9, <2>1, InductionOnNat
  <2> QED BY <2>2, ChunkingAssumption DEF Slots
<1>11. CASE E[s] = L
  <2>1. E[s + 1] = L BY <1>1, <1>5, <1>10, <1>11 DEF NextCut
  <2>2. SubSeq(data, L + 1, L) = <<>> BY <1>1
  <2>3. Len(all) <= s BY <1>10, <1>11
  <2> QED BY <1>3, <1>4, <1>10, <1>11, <2>1, <2>2, <2>3 DEF ChunkForWorker
<1>12. CASE E[s] # L
  <2>1. PICK c \in C : c = SubSeq(data, E[s] + 1, E[s + 1]) BY <1>6, <1>10, <1>12
  <2>2. E[s + 1] \in 0 .. L BY <1>5, <1>10
  <2>3. PICK rest \in Seq(C) : rest = f[E[s + 1]] BY <1>3, <2>2
  <2>4. LeftAt(all, f[E[s]], s) BY <1>10, <1>12
  <2>5. LeftAt(all, <<c>> \o rest, s) BY <1>6, <1>10, <1>12, <2>1, <2>3, <2>4
  <2>6. s < Len(all) /\ all[s + 1] = c BY <1>10, <2>5, LeftNext
  <2> QED BY <1>3, <1>4, <2>1, <2>6 DEF ChunkForWorker
<1> QED BY <1>11, <1>12

\* A prefix up to a later position.
LEMMA PrefixGrows ==
    ASSUME NEW A, NEW data \in Seq(A), NEW a \in 0 .. Len(data), NEW b \in a .. Len(data)
    PROVE  /\ SubSeq(data, 1, a) \in Seq(A) /\ SubSeq(data, a + 1, b) \in Seq(A)
           /\ SubSeq(data, 1, b) = SubSeq(data, 1, a) \o SubSeq(data, a + 1, b)
           /\ Len(SubSeq(data, a + 1, b)) = b - a
<1>1. PICK s, t \in Seq(A) : s = SubSeq(data, 1, a) /\ t = SubSeq(data, a + 1, b)
  <2>1. SubSeq(data, 1, a) \in Seq(A) /\ SubSeq(data, a + 1, b) \in Seq(A) OBVIOUS
  <2> QED BY <2>1
<1>2. Len(s) = a /\ (\A i \in 1 .. a : s[i] = data[i])
      /\ Len(t) = b - a /\ \A i \in 1 .. b - a : t[i] = data[a + i]
  BY <1>1
<1>3. PICK w \in Seq(A) : w = s \o t
  <2>1. s \o t \in Seq(A) OBVIOUS
  <2> QED BY <2>1
<1>4. Len(w) = b /\ \A i \in 1 .. b : w[i] = data[i]
  <2>1. Len(w) = Len(s) + Len(t) BY <1>3
  <2>2. \A i \in 1 .. a : w[i] = data[i] BY <1>2, <1>3
  <2>3. ASSUME NEW i \in a + 1 .. b PROVE w[i] = data[i]
    <3>1. PICK j \in 1 .. b - a : i = a + j
      <4>1. i - a \in 1 .. b - a /\ i = a + (i - a) OBVIOUS
      <4> QED BY <4>1
    <3>2. w[i] = t[j] BY <1>2, <1>3, <3>1
    <3> QED BY <1>2, <3>1, <3>2
  <2> QED BY <1>2, <2>1, <2>2, <2>3
<1>5. PICK v \in Seq(A) : v = SubSeq(data, 1, b)
  <2>1. SubSeq(data, 1, b) \in Seq(A) OBVIOUS
  <2> QED BY <2>1
<1>6. Len(v) = b /\ \A i \in 1 .. b : v[i] = data[i] BY <1>5
<1>7. v = w BY <1>4, <1>6
<1> QED BY <1>1, <1>2, <1>3, <1>5, <1>7

-----------------------------------------------------------------------------
(* Sums and keys of pairs *)

\* The values of pairs are natural numbers.
LEMMA PairValues == ASSUME NEW A \in SUBSET JobPairs PROVE \A a \in A : a.value \in Nat /\ a.key \in Keys
BY DEF JobPairs

\* A concatenation, place by place.
LEMMA ConcatParts ==
    ASSUME NEW A, NEW s \in Seq(A), NEW t \in Seq(A)
    PROVE  /\ s \o t \in Seq(A) /\ Len(s \o t) = Len(s) + Len(t)
           /\ \A i \in 1 .. Len(s) : (s \o t)[i] = s[i]
           /\ \A i \in 1 .. Len(t) : (s \o t)[Len(s) + i] = t[i]
OBVIOUS

AppendsBehind(s, t, e) == Append(s \o t, e) = s \o Append(t, e)

\* One more element after a concatenation.
LEMMA AppendConcat ==
    ASSUME NEW A, NEW s \in Seq(A), NEW t \in Seq(A), NEW e \in A PROVE AppendsBehind(s, t, e)
BY DEF AppendsBehind

\* A sequence one element of which is replaced.
LEMMA ReplacedType ==
    ASSUME NEW A, NEW s \in Seq(A), NEW i, NEW x \in A PROVE [s EXCEPT ![i] = x] \in Seq(A)
<1>1. PICK n \in Nat : n = Len(s) /\ s \in [1 .. n -> A] OBVIOUS
<1>2. [s EXCEPT ![i] = x] \in [1 .. n -> A] BY <1>1
<1>3. \A r \in [1 .. n -> A] : r \in Seq(A) OBVIOUS
<1> QED BY <1>2, <1>3, Zenon

\* The last element of a concatenation, and what comes of replacing it.
LastReplacedBehind(s, t, x) ==
    /\ s \o t # <<>> /\ (s \o t)[Len(s \o t)] = t[Len(t)]
    /\ [s \o t EXCEPT ![Len(s \o t)] = x] = s \o [t EXCEPT ![Len(t)] = x]

\* The last element of a concatenation is the last one of its second part.
LEMMA ReplacedBehind ==
    ASSUME NEW A, NEW s \in Seq(A), NEW t \in Seq(A), t # <<>>, NEW x \in A
    PROVE  LastReplacedBehind(s, t, x)
<1>1. PICK l, n \in Nat : l = Len(s) /\ n = Len(t) /\ n # 0 OBVIOUS
<1>2. PICK w : w = s \o t OBVIOUS
<1>3. /\ w \in Seq(A) /\ Len(w) = l + n
      /\ \A i \in 1 .. l : w[i] = s[i]
      /\ \A i \in 1 .. n : w[l + i] = t[i]
  BY <1>1, <1>2
<1>4. w # <<>> /\ w[Len(w)] = t[n]
  <2>1. n \in 1 .. n BY <1>1
  <2>2. Len(w) # 0 BY <1>1, <1>3
  <2> QED BY <1>3, <2>1, <2>2
<1>5. PICK r \in Seq(A) : r = [t EXCEPT ![n] = x]
  <2>1. [t EXCEPT ![n] = x] \in Seq(A) BY ReplacedType
  <2> QED BY <2>1, Zenon
<1>6. Len(r) = n /\ \A i \in 1 .. n : r[i] = IF i = n THEN x ELSE t[i]
  <2>1. DOMAIN t = 1 .. n BY <1>1
  <2>2. DOMAIN r = 1 .. n BY <1>5, <2>1
  <2>3. Len(r) = n BY <1>1, <2>2
  <2> QED BY <1>5, <2>1, <2>3
<1>7. PICK u \in Seq(A) : u = [w EXCEPT ![l + n] = x]
  <2>1. [w EXCEPT ![l + n] = x] \in Seq(A) BY <1>3, ReplacedType
  <2> QED BY <2>1, Zenon
<1>8. Len(u) = l + n /\ \A i \in 1 .. l + n : u[i] = IF i = l + n THEN x ELSE w[i]
  <2>1. DOMAIN w = 1 .. l + n BY <1>3
  <2>2. DOMAIN u = 1 .. l + n BY <1>7, <2>1
  <2>3. Len(u) = l + n BY <2>2
  <2> QED BY <1>7, <2>1, <2>3
<1>9. PICK v : v = s \o r OBVIOUS
<1>10. /\ v \in Seq(A) /\ Len(v) = l + n
       /\ \A i \in 1 .. l : v[i] = s[i]
       /\ \A i \in 1 .. n : v[l + i] = r[i]
  <2>1. /\ v \in Seq(A) /\ Len(v) = Len(s) + Len(r)
        /\ \A i \in 1 .. Len(s) : v[i] = s[i]
        /\ \A i \in 1 .. Len(r) : v[Len(s) + i] = r[i]
    BY <1>9
  <2> QED BY <1>1, <1>6, <2>1, Zenon
<1>11. ASSUME NEW i \in 1 .. l + n PROVE u[i] = v[i]
  <2>1. CASE i \in 1 .. l
    <3>1. i # l + n BY <1>1, <2>1
    <3>2. u[i] = w[i] BY <1>8, <3>1
    <3> QED BY <1>3, <1>10, <2>1, <3>2
  <2>2. CASE i \notin 1 .. l
    <3>1. PICK j \in 1 .. n : i = l + j
      <4>1. i - l \in 1 .. n /\ i = l + (i - l) BY <2>2
      <4> QED BY <4>1
    <3>2. w[i] = t[j] /\ v[i] = r[j] BY <1>3, <1>10, <3>1
    <3>3. i = l + n <=> j = n BY <3>1
    <3>4. u[i] = IF i = l + n THEN x ELSE w[i] BY <1>8
    <3>5. r[j] = IF j = n THEN x ELSE t[j] BY <1>6
    <3> QED BY <3>2, <3>3, <3>4, <3>5, Zenon
  <2> QED BY <2>1, <2>2
<1>12. u = v BY <1>8, <1>10, <1>11
<1> QED BY <1>1, <1>2, <1>3, <1>4, <1>5, <1>7, <1>9, <1>12, Zenon DEF LastReplacedBehind

\* The first elements of a sequence.
LEMMA PrefixParts ==
    ASSUME NEW A, NEW s \in Seq(A), NEW n \in 0 .. Len(s)
    PROVE  /\ SubSeq(s, 1, n) \in Seq(A) /\ Len(SubSeq(s, 1, n)) = n
           /\ \A i \in 1 .. n : SubSeq(s, 1, n)[i] = s[i]
OBVIOUS

\* A sequence is what is in front of its last element, and that.
LEMMA FrontAndLast ==
    ASSUME NEW A, NEW s \in Seq(A), s # <<>>
    PROVE  \E z \in Seq(A) : s = Append(z, s[Len(s)])
<1>1. PICK m \in Nat : Len(s) = m + 1
  <2>1. Len(s) - 1 \in Nat /\ Len(s) = (Len(s) - 1) + 1 OBVIOUS
  <2> QED BY <2>1, Zenon
<1>2. PICK z \in Seq(A) : Len(z) = m /\ \A i \in 1 .. m : z[i] = s[i]
  <2>1. m \in 0 .. Len(s) BY <1>1
  <2>2. /\ SubSeq(s, 1, m) \in Seq(A) /\ Len(SubSeq(s, 1, m)) = m
        /\ \A i \in 1 .. m : SubSeq(s, 1, m)[i] = s[i]
    BY <2>1, PrefixParts, Zenon
  <2> QED BY <2>2, Zenon
<1>3. PICK x \in A : x = s[Len(s)] BY <1>1
<1>4. PICK w : w = Append(z, x) OBVIOUS
<1>5. w \in Seq(A) /\ Len(w) = m + 1 /\ w[m + 1] = x /\ \A i \in 1 .. m : w[i] = z[i] BY <1>2, <1>4
<1>6. ASSUME NEW i \in 1 .. m + 1 PROVE w[i] = s[i]
  <2>1. i \in 1 .. m \/ i = m + 1 OBVIOUS
  <2> QED BY <1>1, <1>2, <1>3, <1>5, <2>1, Zenon
<1>7. w = s BY <1>1, <1>5, <1>6
<1> QED BY <1>3, <1>4, <1>7, Zenon

\* A concatenation without its last element.
LEMMA FrontOfConcat ==
    ASSUME NEW A, NEW s \in Seq(A), NEW t \in Seq(A), t # <<>>
    PROVE  SubSeq(s \o t, 1, (Len(s) + Len(t)) - 1) = s \o SubSeq(t, 1, Len(t) - 1)
<1>1. PICK l, n \in Nat : l = Len(s) /\ n = Len(t) /\ n # 0 OBVIOUS
<1>2. PICK m \in Nat : m = n - 1 /\ l + m \in 0 .. l + n /\ (l + n) - 1 = l + m BY <1>1
<1>3. PICK w : w = s \o t OBVIOUS
<1>4. /\ w \in Seq(A) /\ Len(w) = l + n
      /\ \A i \in 1 .. l : w[i] = s[i]
      /\ \A i \in 1 .. n : w[l + i] = t[i]
  BY <1>1, <1>3
<1>5. PICK u \in Seq(A) : u = SubSeq(t, 1, m)
  <2>1. SubSeq(t, 1, m) \in Seq(A) BY <1>1, <1>2
  <2> QED BY <2>1, Zenon
<1>6. Len(u) = m /\ \A i \in 1 .. m : u[i] = t[i] BY <1>1, <1>2, <1>5
<1>7. PICK v : v = SubSeq(w, 1, l + m) OBVIOUS
<1>8. v \in Seq(A) /\ Len(v) = l + m /\ \A i \in 1 .. l + m : v[i] = w[i] BY <1>2, <1>4, <1>7
<1>9. PICK x : x = s \o u OBVIOUS
<1>10. /\ x \in Seq(A) /\ Len(x) = l + m
       /\ \A i \in 1 .. l : x[i] = s[i]
       /\ \A i \in 1 .. m : x[l + i] = u[i]
  <2>1. /\ x \in Seq(A) /\ Len(x) = Len(s) + Len(u)
        /\ \A i \in 1 .. Len(s) : x[i] = s[i]
        /\ \A i \in 1 .. Len(u) : x[Len(s) + i] = u[i]
    BY <1>9
  <2> QED BY <1>1, <1>6, <2>1, Zenon
<1>11. ASSUME NEW i \in 1 .. l + m PROVE v[i] = x[i]
  <2>1. v[i] = w[i] BY <1>8
  <2>2. CASE i \in 1 .. l BY <1>4, <1>10, <2>1, <2>2
  <2>3. CASE i \notin 1 .. l
    <3>1. PICK j \in 1 .. m : i = l + j
      <4>1. i - l \in 1 .. m /\ i = l + (i - l) BY <2>3
      <4> QED BY <4>1
    <3>2. j \in 1 .. n BY <1>2
    <3>3. w[i] = t[j] BY <1>4, <3>1, <3>2
    <3>4. x[i] = u[j] /\ u[j] = t[j] BY <1>6, <1>10, <3>1
    <3> QED BY <2>1, <3>3, <3>4
  <2> QED BY <2>2, <2>3
<1>12. v = x BY <1>8, <1>10, <1>11
<1> QED BY <1>1, <1>2, <1>3, <1>5, <1>7, <1>9, <1>12, Zenon

\* The elements of one more, and of a concatenation.
LEMMA RangeSteps ==
    ASSUME NEW A
    PROVE  /\ Range(<<>>) = {}
           /\ \A s \in Seq(A), e \in A : Range(Append(s, e)) = Range(s) \cup {e}
           /\ \A s, t \in Seq(A) : Range(s \o t) = Range(s) \cup Range(t)
<1>1. Range(<<>>) = {} BY DEF Range
<1>2. ASSUME NEW s \in Seq(A), NEW t \in Seq(A) PROVE Range(s \o t) = Range(s) \cup Range(t)
  <2>1. PICK u \in Seq(A) : u = s \o t
    <3>1. s \o t \in Seq(A) OBVIOUS
    <3> QED BY <3>1, Zenon
  <2>2. /\ Len(s) \in Nat /\ Len(t) \in Nat /\ DOMAIN s = 1 .. Len(s) /\ DOMAIN t = 1 .. Len(t)
        /\ DOMAIN u = 1 .. Len(s) + Len(t)
        /\ \A i \in DOMAIN s : u[i] = s[i]
        /\ \A i \in DOMAIN t : u[Len(s) + i] = t[i]
    BY <2>1
  <2>3. \A i \in DOMAIN u : i \in DOMAIN s \/ (i - Len(s) \in DOMAIN t /\ Len(s) + (i - Len(s)) = i)
    BY <2>2
  <2>4. Range(u) \subseteq Range(s) \cup Range(t) BY <2>2, <2>3 DEF Range
  <2>5. Range(s) \subseteq Range(u) BY <2>2 DEF Range
  <2>6. Range(t) \subseteq Range(u)
    <3> SUFFICES ASSUME NEW i \in DOMAIN t PROVE t[i] \in Range(u) BY DEF Range
    <3>1. Len(s) + i \in DOMAIN u /\ u[Len(s) + i] = t[i] BY <2>2
    <3> QED BY <3>1 DEF Range
  <2> QED BY <2>1, <2>4, <2>5, <2>6
<1>3. ASSUME NEW s \in Seq(A), NEW e \in A PROVE Range(Append(s, e)) = Range(s) \cup {e}
  <2>1. Append(s, e) = s \o <<e>> /\ <<e>> \in Seq(A) OBVIOUS
  <2>2. Range(<<e>>) = {e} BY DEF Range
  <2> QED BY <1>2, <2>1, <2>2
<1> QED BY <1>1, <1>2, <1>3

\* The keys of one more pair, and of a concatenation.
LEMMA KeysSteps ==
    ASSUME NEW A
    PROVE  /\ KeysOf(<<>>) = {}
           /\ \A s \in Seq(A), e \in A : KeysOf(Append(s, e)) = KeysOf(s) \cup {e.key}
           /\ \A s, t \in Seq(A) : KeysOf(s \o t) = KeysOf(s) \cup KeysOf(t)
<1>1. KeysOf(<<>>) = {} BY DEF KeysOf, Range
<1>2. \A s, t \in Seq(A) : KeysOf(s \o t) = KeysOf(s) \cup KeysOf(t) BY RangeSteps DEF KeysOf
<1>3. ASSUME NEW s \in Seq(A), NEW e \in A PROVE KeysOf(Append(s, e)) = KeysOf(s) \cup {e.key}
  <2>1. Range(Append(s, e)) = Range(s) \cup {e} BY RangeSteps
  <2> QED BY <2>1 DEF KeysOf
<1> QED BY <1>1, <1>2, <1>3

\* The sum with one more pair.
LEMMA SumOfMore ==
    ASSUME NEW A \in SUBSET JobPairs, NEW s \in Seq(A), NEW e \in A
    PROVE  \A k : SumOf(Append(s, e), k) = IF e.key = k THEN SumOf(s, k) + e.value ELSE SumOf(s, k)
<1>1. \A a \in A : a.value \in Nat BY PairValues
<1> SUFFICES ASSUME NEW k
             PROVE  SumOf(Append(s, e), k) = IF e.key = k THEN SumOf(s, k) + e.value ELSE SumOf(s, k)
  OBVIOUS
<1>2. \A t \in Seq(A), x \in A :
         SumOf(Append(t, x), k) = IF x.key = k THEN SumOf(t, k) + x.value ELSE SumOf(t, k)
  BY <1>1, SumOfSteps
<1> QED BY <1>2

\* The sum of a concatenation.
LEMMA SumOfConcat ==
    ASSUME NEW A \in SUBSET JobPairs, NEW k, NEW s \in Seq(A), NEW t \in Seq(A)
    PROVE  SumOf(s \o t, k) = SumOf(s, k) + SumOf(t, k)
<1> DEFINE P == {u \in Seq(A) : SumOf(s \o u, k) = SumOf(s, k) + SumOf(u, k)}
<1>0. \A a \in A : a.value \in Nat BY PairValues
<1>1. SumOf(<<>>, k) = 0 /\ \A u \in Seq(A) : SumOf(u, k) \in Nat BY <1>0, SumOfSteps
<1>2. \A u \in Seq(A), e \in A :
         SumOf(Append(u, e), k) = IF e.key = k THEN SumOf(u, k) + e.value ELSE SumOf(u, k)
  BY <1>0, SumOfSteps
<1>3. <<>> \in P
  <2>1. <<>> \in Seq(A) /\ s \o <<>> = s OBVIOUS
  <2> QED BY <1>1, <2>1
<1>4. ASSUME NEW u \in Seq(A), NEW e \in A, u \in P PROVE Append(u, e) \in P
  <2>1. PICK v \in Seq(A) : v = s \o u
    <3>1. s \o u \in Seq(A) OBVIOUS
    <3> QED BY <3>1, Zenon
  <2>2. s \o Append(u, e) = Append(v, e) /\ Append(u, e) \in Seq(A) BY <2>1
  <2>3. SumOf(v, k) = SumOf(s, k) + SumOf(u, k) BY <1>4, <2>1
  <2>4. SumOf(Append(v, e), k) = IF e.key = k THEN SumOf(v, k) + e.value ELSE SumOf(v, k) BY <1>2
  <2>5. SumOf(Append(u, e), k) = IF e.key = k THEN SumOf(u, k) + e.value ELSE SumOf(u, k) BY <1>2
  <2>6. SumOf(s, k) \in Nat /\ SumOf(u, k) \in Nat /\ e.value \in Nat BY <1>0, <1>1
  <2>7. SumOf(Append(v, e), k) = SumOf(s, k) + SumOf(Append(u, e), k)
    BY <2>3, <2>4, <2>5, <2>6
  <2> QED BY <2>2, <2>7
<1>5. \A u \in Seq(A) : u \in P
  <2> HIDE DEF P
  <2> QED BY <1>3, <1>4, InductionOnSeq
<1> QED BY <1>5

\* The concatenations of the first of many sequences.
LEMMA FlatPrefixes ==
    ASSUME NEW A, NEW ss \in Seq(Seq(A))
    PROVE  \E f \in [0 .. Len(ss) -> Seq(A)] :
             /\ f[0] = <<>> /\ f[Len(ss)] = FlattenSeq(ss)
             /\ \A i \in 1 .. Len(ss) : f[i] = f[i - 1] \o ss[i]
<1>1. PICK g : g[0] = <<>> /\ (\A i \in 1 .. Len(ss) : g[i] = g[i - 1] \o ss[i])
               /\ FlattenSeq(ss) = g[Len(ss)]
  BY FlattenRuns DEF FlattensTo
<1>2. Len(ss) \in Nat /\ \A i \in 1 .. Len(ss) : ss[i] \in Seq(A) OBVIOUS
<1> DEFINE P == {i \in Nat : g[i] \in Seq(A)}
<1>3. 0 \in P
  <2>1. <<>> \in Seq(A) OBVIOUS
  <2>2. 0 \in Nat /\ g[0] \in Seq(A) BY <1>1, <2>1, Zenon
  <2> QED BY <2>2
<1>4. ASSUME NEW i \in 1 .. Len(ss), i - 1 \in P PROVE i \in P
  <2>1. PICK s, t \in Seq(A) : s = g[i - 1] /\ t = ss[i]
    <3>1. g[i - 1] \in Seq(A) BY <1>4
    <3>2. ss[i] \in Seq(A) BY <1>2
    <3> QED BY <3>1, <3>2
  <2>2. s \o t \in Seq(A) OBVIOUS
  <2>3. g[i] = s \o t BY <1>1, <2>1, Zenon
  <2>4. i \in Nat /\ g[i] \in Seq(A)
    <3>1. i \in Nat OBVIOUS
    <3> QED BY <2>2, <2>3, <3>1, Zenon
  <2> QED BY <2>4
<1>5. \A i \in 0 .. Len(ss) : i \in P
  <2> HIDE DEF P
  <2> QED BY <1>2, <1>3, <1>4, InductionUpTo
<1>6. PICK f : f = [i \in 0 .. Len(ss) |-> g[i]] OBVIOUS
<1>7. f \in [0 .. Len(ss) -> Seq(A)] BY <1>5, <1>6
<1>8. 0 \in 0 .. Len(ss) /\ Len(ss) \in 0 .. Len(ss)
      /\ \A i \in 1 .. Len(ss) : i \in 0 .. Len(ss) /\ i - 1 \in 0 .. Len(ss)
  BY <1>2
<1>9. f[0] = <<>> /\ f[Len(ss)] = FlattenSeq(ss) BY <1>1, <1>6, <1>8
<1>10. \A i \in 1 .. Len(ss) : f[i] = f[i - 1] \o ss[i] BY <1>1, <1>6, <1>8
<1> QED BY <1>7, <1>9, <1>10

\* The sum and the keys of many sequences of pairs.
LEMMA SumOfFlat ==
    ASSUME NEW A \in SUBSET JobPairs, NEW ss \in Seq(Seq(A))
    PROVE  /\ \A k : SumOf(FlattenSeq(ss), k) = Total([i \in DOMAIN ss |-> SumOf(ss[i], k)])
           /\ KeysOf(FlattenSeq(ss)) = UNION {KeysOf(ss[i]) : i \in DOMAIN ss}
<1>0. \A a \in A : a.value \in Nat BY PairValues
<1>1. /\ Len(ss) \in Nat /\ DOMAIN ss = 1 .. Len(ss) /\ SubSeq(ss, 1, 0) = <<>>
      /\ SubSeq(ss, 1, Len(ss)) = ss /\ \A i \in DOMAIN ss : ss[i] \in Seq(A)
  OBVIOUS
<1>2. PICK First \in [0 .. Len(ss) -> Seq(A)] :
        /\ First[0] = <<>> /\ First[Len(ss)] = FlattenSeq(ss)
        /\ \A i \in 1 .. Len(ss) : First[i] = First[i - 1] \o ss[i]
  BY FlatPrefixes
<1>3. \A i \in 1 .. Len(ss) : First[i - 1] \in Seq(A) /\ ss[i] \in Seq(A)
  <2> SUFFICES ASSUME NEW i \in 1 .. Len(ss) PROVE First[i - 1] \in Seq(A) /\ ss[i] \in Seq(A) OBVIOUS
  <2>1. i - 1 \in 0 .. Len(ss) BY <1>1
  <2> QED BY <1>1, <2>1
<1>5. ASSUME NEW k PROVE SumOf(FlattenSeq(ss), k) = Total([i \in DOMAIN ss |-> SumOf(ss[i], k)])
  <2>1. PICK f : f = [i \in DOMAIN ss |-> SumOf(ss[i], k)] OBVIOUS
  <2>2. f \in [1 .. Len(ss) -> Int]
    <3>1. \A i \in DOMAIN ss : SumOf(ss[i], k) \in Nat BY <1>0, <1>1, SumOfSteps
    <3> QED BY <1>1, <2>1, <3>1
  <2>3. PICK F : F = [i \in 0 .. Len(ss) |-> SumOf(First[i], k)] OBVIOUS
  <2>4. F[0] = 0
    <3>1. SumOf(<<>>, k) = 0 BY <1>0, SumOfSteps
    <3> QED BY <1>1, <1>2, <2>3, <3>1
  <2>5. \A i \in 1 .. Len(ss) : F[i] = F[i - 1] + f[i]
    <3> SUFFICES ASSUME NEW i \in 1 .. Len(ss) PROVE F[i] = F[i - 1] + f[i] OBVIOUS
    <3>1. i \in 0 .. Len(ss) /\ i - 1 \in 0 .. Len(ss) /\ i \in DOMAIN ss BY <1>1
    <3>2. SumOf(First[i - 1] \o ss[i], k) = SumOf(First[i - 1], k) + SumOf(ss[i], k)
      BY <1>3, SumOfConcat
    <3> QED BY <1>2, <2>1, <2>3, <3>1, <3>2
  <2>6. Total(f) = F[Len(ss)] BY <1>1, <2>2, <2>4, <2>5, SumInOrder
  <2>7. F[Len(ss)] = SumOf(FlattenSeq(ss), k) BY <1>1, <1>2, <2>3
  <2> QED BY <2>1, <2>6, <2>7
<1>6. KeysOf(FlattenSeq(ss)) = UNION {KeysOf(ss[i]) : i \in DOMAIN ss}
  <2> DEFINE P == {i \in Nat : KeysOf(First[i]) = UNION {KeysOf(ss[j]) : j \in 1 .. i}}
  <2>1. 0 \in P
    <3>1. KeysOf(<<>>) = {} BY KeysSteps
    <3>2. 1 .. 0 = {} OBVIOUS
    <3> QED BY <1>2, <3>1, <3>2
  <2>2. ASSUME NEW i \in 1 .. Len(ss), i - 1 \in P PROVE i \in P
    <3>1. KeysOf(First[i]) = KeysOf(First[i - 1]) \cup KeysOf(ss[i])
      <4>1. PICK a, b \in Seq(A) : a = First[i - 1] /\ b = ss[i] BY <1>1, <1>3
      <4>2. KeysOf(a \o b) = KeysOf(a) \cup KeysOf(b) BY KeysSteps
      <4> QED BY <1>2, <4>1, <4>2
    <3>2. 1 .. i = (1 .. i - 1) \cup {i} OBVIOUS
    <3>3. KeysOf(First[i - 1]) = UNION {KeysOf(ss[j]) : j \in 1 .. i - 1} BY <2>2
    <3>4. UNION {KeysOf(ss[j]) : j \in 1 .. i} = (UNION {KeysOf(ss[j]) : j \in 1 .. i - 1}) \cup KeysOf(ss[i])
      BY <3>2
    <3>5. KeysOf(First[i]) = UNION {KeysOf(ss[j]) : j \in 1 .. i} BY <3>1, <3>3, <3>4, Zenon
    <3>6. i \in Nat OBVIOUS
    <3> QED BY <3>5, <3>6
  <2>3. Len(ss) \in P
    <3>0. Len(ss) \in 0 .. Len(ss) BY <1>1
    <3> HIDE DEF P
    <3>1. \A i \in 0 .. Len(ss) : i \in P BY <1>1, <2>1, <2>2, InductionUpTo
    <3> QED BY <3>0, <3>1
  <2>4. KeysOf(First[Len(ss)]) = UNION {KeysOf(ss[j]) : j \in 1 .. Len(ss)} BY <2>3
  <2> QED BY <1>1, <1>2, <2>4
<1> QED BY <1>5, <1>6

\* The pairs of a set, with their sums: a set that has all pairs of a key or none.
LEMMA OnlySums ==
    ASSUME NEW A \in SUBSET JobPairs, NEW s \in Seq(A), NEW B
    PROVE  /\ Range(Only(s, B)) = Range(s) \cap B
           /\ \A k : (\A kv \in Range(s) : kv.key = k => kv \in B) => SumOf(Only(s, B), k) = SumOf(s, k)
           /\ \A k : (\A kv \in Range(s) : kv.key = k => kv \notin B) => SumOf(Only(s, B), k) = 0
<1>0. \A a \in A : a.value \in Nat BY PairValues
<1>1. /\ Only(<<>>, B) = <<>>
      /\ \A t \in Seq(A), e \in A : Only(Append(t, e), B) = IF e \in B THEN Append(Only(t, B), e) ELSE Only(t, B)
      /\ \A t \in Seq(A) : Only(t, B) \in Seq(A)
  BY OnlySteps, OnlyType
<1>2. \A t \in Seq(A), e \in A : Range(Append(t, e)) = Range(t) \cup {e} BY RangeSteps
<1> DEFINE P == {t \in Seq(A) : Range(Only(t, B)) = Range(t) \cap B}
<1>3. \A t \in Seq(A) : t \in P
  <2>1. <<>> \in P
    <3>1. <<>> \in Seq(A) /\ Range(<<>>) = {} BY DEF Range
    <3> QED BY <1>1, <3>1
  <2>2. ASSUME NEW t \in Seq(A), NEW e \in A, t \in P PROVE Append(t, e) \in P
    <3>1. Append(t, e) \in Seq(A) /\ Range(Append(t, e)) = Range(t) \cup {e} BY <1>2
    <3>2. e \in B => Range(Append(Only(t, B), e)) = Range(Only(t, B)) \cup {e} BY <1>1, <1>2
    <3>3. Only(Append(t, e), B) = IF e \in B THEN Append(Only(t, B), e) ELSE Only(t, B) BY <1>1
    <3>4. Range(Only(t, B)) = Range(t) \cap B BY <2>2
    <3>5. Range(Only(Append(t, e), B)) = Range(Append(t, e)) \cap B BY <3>1, <3>2, <3>3, <3>4
    <3> QED BY <3>1, <3>5
  <2> HIDE DEF P
  <2> QED BY <2>1, <2>2, InductionOnSeq
<1>4. ASSUME NEW k
      PROVE  /\ (\A kv \in Range(s) : kv.key = k => kv \in B) => SumOf(Only(s, B), k) = SumOf(s, k)
             /\ (\A kv \in Range(s) : kv.key = k => kv \notin B) => SumOf(Only(s, B), k) = 0
  <2>1. SumOf(<<>>, k) = 0 /\ \A u \in Seq(A) : SumOf(u, k) \in Nat BY <1>0, SumOfSteps
  <2>2. \A u \in Seq(A), e \in A :
           SumOf(Append(u, e), k) = IF e.key = k THEN SumOf(u, k) + e.value ELSE SumOf(u, k)
    BY <1>0, SumOfSteps
  <2> DEFINE Q == {t \in Seq(A) :
                /\ (\A kv \in Range(t) : kv.key = k => kv \in B) => SumOf(Only(t, B), k) = SumOf(t, k)
                /\ (\A kv \in Range(t) : kv.key = k => kv \notin B) => SumOf(Only(t, B), k) = 0}
  <2>3. <<>> \in Q
    <3>1. <<>> \in Seq(A) OBVIOUS
    <3> QED BY <1>1, <2>1, <3>1
  <2>4. ASSUME NEW t \in Seq(A), NEW e \in A, t \in Q PROVE Append(t, e) \in Q
    <3>1. Append(t, e) \in Seq(A) /\ Range(Append(t, e)) = Range(t) \cup {e} BY <1>2
    <3>2. PICK o \in Seq(A) : o = Only(t, B) BY <1>1, Zenon
    <3>3. Only(Append(t, e), B) = IF e \in B THEN Append(o, e) ELSE o BY <1>1, <3>2
    <3>4. SumOf(Append(o, e), k) = IF e.key = k THEN SumOf(o, k) + e.value ELSE SumOf(o, k) BY <2>2
    <3>5. SumOf(Append(t, e), k) = IF e.key = k THEN SumOf(t, k) + e.value ELSE SumOf(t, k) BY <2>2
    <3>6. ASSUME \A kv \in Range(Append(t, e)) : kv.key = k => kv \in B
          PROVE  SumOf(Only(Append(t, e), B), k) = SumOf(Append(t, e), k)
      <4>1. SumOf(o, k) = SumOf(t, k) BY <2>4, <3>1, <3>2, <3>6
      <4>2. e.key = k => e \in B BY <3>1, <3>6
      <4> HIDE DEF Q
      <4> QED BY <3>3, <3>4, <3>5, <4>1, <4>2
    <3>7. ASSUME \A kv \in Range(Append(t, e)) : kv.key = k => kv \notin B
          PROVE  SumOf(Only(Append(t, e), B), k) = 0
      <4>1. SumOf(o, k) = 0 BY <2>4, <3>1, <3>2, <3>7
      <4>2. e.key = k => e \notin B BY <3>1, <3>7
      <4> HIDE DEF Q
      <4> QED BY <3>3, <3>4, <4>1, <4>2
    <3> QED BY <3>1, <3>6, <3>7
  <2>5. \A t \in Seq(A) : t \in Q
    <3> HIDE DEF Q
    <3> QED BY <2>3, <2>4, InductionOnSeq
  <2> QED BY <2>5
<1> QED BY <1>3, <1>4

\* A key that no pair has has the sum 0.
LEMMA SumOfMissing ==
    ASSUME NEW A \in SUBSET JobPairs, NEW s \in Seq(A), NEW k, k \notin KeysOf(s) PROVE SumOf(s, k) = 0
<1>1. \A kv \in Range(s) : kv.key # k BY DEF KeysOf
<1>2. SumOf(Only(s, {}), k) = SumOf(s, k) /\ SumOf(Only(s, {}), k) = 0 BY <1>1, OnlySums
<1> QED BY <1>2

-----------------------------------------------------------------------------
(* The sort and the streaming reduce *)

\* Equal keys are neighbours.
Grouped(q) ==
    \A i, j, l \in DOMAIN q : i < j /\ j < l /\ q[i].key = q[l].key => q[j].key = q[i].key

\* A group may be put behind others.
LEMMA GroupAfterGroups ==
    ASSUME NEW A, NEW s \in Seq(A), NEW t \in Seq(A), Grouped(s),
           NEW k, \A i \in DOMAIN t : t[i].key = k, k \notin KeysOf(s)
    PROVE  Grouped(s \o t)
<1>1. PICK u \in Seq(A) : u = s \o t
  <2>1. s \o t \in Seq(A) OBVIOUS
  <2> QED BY <2>1, Zenon
<1>2. /\ Len(s) \in Nat /\ Len(t) \in Nat /\ DOMAIN s = 1 .. Len(s) /\ DOMAIN t = 1 .. Len(t)
      /\ DOMAIN u = 1 .. Len(s) + Len(t)
      /\ \A i \in DOMAIN s : u[i] = s[i]
      /\ \A i \in DOMAIN t : u[Len(s) + i] = t[i]
  BY <1>1
<1>3. \A i \in DOMAIN s : u[i].key # k BY <1>2 DEF KeysOf, Range
<1>4. ASSUME NEW i \in DOMAIN u, i \notin DOMAIN s PROVE u[i].key = k
  <2>1. i - Len(s) \in DOMAIN t /\ Len(s) + (i - Len(s)) = i BY <1>2, <1>4
  <2>2. u[i] = t[i - Len(s)] BY <1>2, <2>1
  <2> QED BY <2>1, <2>2
<1> SUFFICES ASSUME NEW i \in DOMAIN u, NEW j \in DOMAIN u, NEW l \in DOMAIN u,
                    i < j, j < l, u[i].key = u[l].key
             PROVE  u[j].key = u[i].key
  BY <1>1 DEF Grouped
<1>5. CASE l \in DOMAIN s
  <2>1. i \in DOMAIN s /\ j \in DOMAIN s BY <1>2, <1>5
  <2>2. s[i].key = s[l].key BY <1>2, <1>5, <2>1
  <2>3. s[j].key = s[i].key BY <1>5, <2>1, <2>2 DEF Grouped
  <2> QED BY <1>2, <2>1, <2>3
<1>6. CASE l \notin DOMAIN s
  <2>1. u[l].key = k BY <1>4, <1>6
  <2>2. i \notin DOMAIN s BY <1>3, <2>1
  <2>3. j \notin DOMAIN s BY <1>2, <2>2
  <2> QED BY <1>4, <2>2, <2>3
<1> QED BY <1>5, <1>6

\* Sorting groups the pairs and keeps the sums.
LEMMA SortSums ==
    ASSUME NEW A \in SUBSET JobPairs, NEW pairs \in Seq(A)
    PROVE  /\ SortByKey(pairs) \in Seq(A) /\ Grouped(SortByKey(pairs))
           /\ KeysOf(SortByKey(pairs)) = KeysOf(pairs)
           /\ \A k : SumOf(SortByKey(pairs), k) = SumOf(pairs, k)
<1>1. PICK order \in Seq(Keys) :
        /\ IsInjective(order) /\ Range(order) = KeysOf(pairs)
        /\ SortByKey(pairs) = FlattenSeq([i \in DOMAIN order |->
                                Only(pairs, {kv \in Range(pairs) : kv.key = order[i]})])
  <2>1. pairs \in Seq(JobPairs) BY SeqSubset
  <2> QED BY <2>1, SortedBlocks
<1>2. PICK blocks : blocks = [i \in DOMAIN order |-> Only(pairs, {kv \in Range(pairs) : kv.key = order[i]})]
  OBVIOUS
<1>3. blocks \in Seq(Seq(A)) /\ DOMAIN blocks = DOMAIN order /\ SortByKey(pairs) = FlattenSeq(blocks)
  <2>1. blocks \in [DOMAIN order -> Seq(A)] BY <1>2, OnlyType, Zenon
  <2>2. blocks \in Seq(Seq(A)) BY <2>1, MappedSeq, Zenon
  <2> QED BY <1>1, <1>2, <2>1, <2>2, Zenon
<1>4. ASSUME NEW i \in DOMAIN order
      PROVE  /\ KeysOf(blocks[i]) = {order[i]}
             /\ \A k : SumOf(blocks[i], k) = IF k = order[i] THEN SumOf(pairs, k) ELSE 0
  <2>1. PICK B : B = {kv \in Range(pairs) : kv.key = order[i]} OBVIOUS
  <2>2. blocks[i] = Only(pairs, B) BY <1>2, <2>1
  <2>3. Range(blocks[i]) = B BY <2>1, <2>2, OnlySums
  <2>4. order[i] \in KeysOf(pairs) BY <1>1 DEF Range
  <2>5. KeysOf(blocks[i]) = {order[i]} BY <2>1, <2>3, <2>4 DEF KeysOf
  <2>6. ASSUME NEW k PROVE SumOf(blocks[i], k) = IF k = order[i] THEN SumOf(pairs, k) ELSE 0
    <3>1. k = order[i] => \A kv \in Range(pairs) : kv.key = k => kv \in B BY <2>1
    <3>2. k # order[i] => \A kv \in Range(pairs) : kv.key = k => kv \notin B BY <2>1
    <3> QED BY <2>2, <3>1, <3>2, OnlySums
  <2> QED BY <2>5, <2>6
<1>5. KeysOf(FlattenSeq(blocks)) = KeysOf(pairs)
  <2>1. KeysOf(FlattenSeq(blocks)) = UNION {KeysOf(blocks[i]) : i \in DOMAIN blocks}
    BY <1>3, SumOfFlat
  <2>2. UNION {KeysOf(blocks[i]) : i \in DOMAIN blocks} = Range(order) BY <1>3, <1>4 DEF Range
  <2> QED BY <1>1, <2>1, <2>2
<1>6. ASSUME NEW k PROVE SumOf(FlattenSeq(blocks), k) = SumOf(pairs, k)
  <2>1. PICK f : f = [i \in DOMAIN order |-> SumOf(blocks[i], k)] OBVIOUS
  <2>2. SumOf(FlattenSeq(blocks), k) = Total(f) BY <1>3, <2>1, SumOfFlat
  <2>3. SumOf(pairs, k) \in Nat
    <3>1. \A a \in A : a.value \in Nat BY PairValues
    <3> QED BY <3>1, SumOfSteps
  <2>4. \A i \in DOMAIN order : f[i] = IF k = order[i] THEN SumOf(pairs, k) ELSE 0 BY <1>4, <2>1
  <2>5. f \in [DOMAIN order -> Int] BY <2>1, <2>3, <2>4
  <2>6. IsFiniteSet(DOMAIN order)
    <3>1. Len(order) \in Nat /\ DOMAIN order = 1 .. Len(order) OBVIOUS
    <3> QED BY <3>1, FS_Interval
  <2>7. CASE k \in KeysOf(pairs)
    <3>1. PICK i \in DOMAIN order : order[i] = k BY <1>1, <2>7 DEF Range
    <3>2. \A j \in DOMAIN order \ {i} : order[j] # k BY <1>1, <3>1 DEF IsInjective
    <3>0. PICK S : S = DOMAIN order OBVIOUS
    <3>3. PICK z \in [S -> Int] : z = [j \in S |-> 0]
      <4>1. [j \in S |-> 0] \in [S -> Int] OBVIOUS
      <4> QED BY <4>1, Zenon
    <3>4. IsFiniteSet(S) /\ f \in [S -> Int] /\ i \in S BY <2>5, <2>6, <3>0
    <3>5. Total(z) = 0 BY <3>4, <3>3, SumOfZeros
    <3>6. \A j \in S \ {i} : f[j] = z[j] BY <2>4, <3>0, <3>2, <3>3
    <3>7. Total(f) = Total(z) + f[i] - z[i]
      <4>1. PICK j \in S : j = i BY <3>4
      <4>2. \A y \in S \ {j} : f[y] = z[y] BY <3>6, <4>1
      <4>3. Total(f) = Total(z) + f[j] - z[j] BY <3>3, <3>4, <4>2, SumOfUpdate
      <4> QED BY <4>1, <4>3
    <3>8. z[i] = 0 /\ f[i] = SumOf(pairs, k) BY <2>4, <3>1, <3>3, <3>4, Zenon
    <3> QED BY <2>2, <2>3, <3>5, <3>7, <3>8
  <2>8. CASE k \notin KeysOf(pairs)
    <3>1. \A i \in DOMAIN order : order[i] # k BY <1>1, <2>8 DEF Range
    <3>2. Total(f) = 0 BY <2>4, <2>5, <2>6, <3>1, SumOfZeros
    <3>3. SumOf(pairs, k) = 0 BY <2>8, SumOfMissing
    <3> QED BY <2>2, <3>2, <3>3
  <2> QED BY <2>7, <2>8
<1>7. Grouped(FlattenSeq(blocks))
  <2>1. PICK First \in [0 .. Len(blocks) -> Seq(A)] :
          /\ First[0] = <<>> /\ First[Len(blocks)] = FlattenSeq(blocks)
          /\ \A i \in 1 .. Len(blocks) : First[i] = First[i - 1] \o blocks[i]
    BY <1>3, FlatPrefixes
  <2>2. Len(blocks) \in Nat /\ DOMAIN blocks = 1 .. Len(blocks) /\ DOMAIN order = 1 .. Len(blocks)
    BY <1>3
  <2> DEFINE P == {i \in Nat : Grouped(First[i]) /\ \A k \in KeysOf(First[i]) : \E j \in 1 .. i : k = order[j]}
  <2>3. 0 \in P
    <3>1. Grouped(<<>>) BY DEF Grouped
    <3>2. KeysOf(<<>>) = {} BY KeysSteps
    <3> QED BY <2>1, <3>1, <3>2
  <2>4. ASSUME NEW i \in 1 .. Len(blocks), i - 1 \in P PROVE i \in P
    <3>1. PICK s, t \in Seq(A) : s = First[i - 1] /\ t = blocks[i] /\ First[i] = s \o t
      <4>1. i - 1 \in 0 .. Len(blocks) BY <2>2
      <4>2. blocks[i] \in Seq(A) BY <1>3
      <4> QED BY <2>1, <4>1, <4>2
    <3>2. Grouped(s) /\ \A k \in KeysOf(s) : \E j \in 1 .. i - 1 : k = order[j] BY <2>4, <3>1
    <3>3. i \in DOMAIN order /\ KeysOf(t) = {order[i]} BY <1>4, <2>2, <3>1
    <3>4. order[i] \notin KeysOf(s)
      <4> SUFFICES ASSUME NEW j \in 1 .. i - 1, order[i] = order[j] PROVE FALSE BY <3>2
      <4>1. j \in DOMAIN order /\ j # i BY <2>2
      <4> QED BY <1>1, <3>3, <4>1 DEF IsInjective
    <3>5. \A j \in DOMAIN t : t[j].key = order[i] BY <3>3 DEF KeysOf, Range
    <3> HIDE DEF P
    <3>6. Grouped(s \o t) BY <3>2, <3>4, <3>5, GroupAfterGroups
    <3>7. KeysOf(s \o t) = KeysOf(s) \cup {order[i]} BY <3>3, KeysSteps
    <3>8. \A k \in KeysOf(s \o t) : \E j \in 1 .. i : k = order[j]
      <4>1. i \in 1 .. i /\ \A j \in 1 .. i - 1 : j \in 1 .. i OBVIOUS
      <4> QED BY <3>2, <3>7, <4>1
    <3>9. PICK u \in Seq(A) : u = First[i]
      <4>1. i \in 0 .. Len(blocks) BY <2>2
      <4> QED BY <2>1, <4>1
    <3>10. i \in Nat OBVIOUS
    <3>11. Grouped(First[i]) /\ \A k \in KeysOf(First[i]) : \E j \in 1 .. i : k = order[j]
      BY <3>1, <3>6, <3>8, Zenon
    <3> QED BY <3>10, <3>11 DEF P
  <2>5. Len(blocks) \in P
    <3>0. Len(blocks) \in 0 .. Len(blocks) BY <2>2
    <3> HIDE DEF P
    <3>1. \A i \in 0 .. Len(blocks) : i \in P BY <2>2, <2>3, <2>4, InductionUpTo
    <3> QED BY <3>0, <3>1
  <2> QED BY <2>1, <2>5
<1>8. FlattenSeq(blocks) \in Seq(A) BY <1>3, FlattenSteps
<1> QED BY <1>3, <1>5, <1>6, <1>7, <1>8

\* What a job may emit: the jobs that count pairs emit the value 1.
PairsOf(job) == {kv \in JobPairs : job \in {"wordcount", "docdensity"} \/ kv.value = 1}

\* A mapper emits such pairs.
LEMMA JobMapValues ==
    ASSUME NEW job \in JobNames, NEW line \in Seq(Symbols) PROVE JobMap(job, line) \in Seq(PairsOf(job))
<1>1. PICK out \in Seq(JobPairs) : out = JobMap(job, line) BY JobMapType
<1>2. ASSUME NEW i \in DOMAIN out PROVE out[i] \in PairsOf(job)
  <2>1. out[i] \in JobPairs OBVIOUS
  <2>2. CASE job \in {"wordcount", "docdensity"} BY <2>1, <2>2 DEF PairsOf
  <2>3. CASE job = "langdetect"
    <3>1. PICK k : out = <<>> \/ out = << Pair(k, 1) >>
      BY <1>1, <2>3 DEF JobMap, LangDetectMap
    <3>2. i \in DOMAIN << Pair(k, 1) >> /\ out[i] = << Pair(k, 1) >>[i] BY <3>1
    <3>3. out[i] = Pair(k, 1) BY <3>2
    <3> QED BY <2>1, <3>3 DEF PairsOf, Pair
  <2>4. CASE job = "domainpop"
    <3>1. PICK hosts : out = [j \in DOMAIN hosts |-> Pair(hosts[j], 1)]
      BY <1>1, <2>4, Zenon DEF JobMap, DomainPopMap
    <3>2. out[i] = Pair(hosts[i], 1) BY <3>1
    <3> QED BY <2>1, <3>2 DEF PairsOf, Pair
  <2> QED BY <2>2, <2>3, <2>4 DEF JobNames
<1>3. out \in Seq(PairsOf(job))
  <2>1. out \in [DOMAIN out -> PairsOf(job)] BY <1>2
  <2> QED BY <2>1, MappedSeq
<1> QED BY <1>1, <1>3

\* Both kinds of reducers add up what such a job emits.
LEMMA ReduceAdds ==
    ASSUME NEW job
    PROVE  /\ JobReduce(job, <<>>) = 0
           /\ \A kv \in PairsOf(job), values \in Seq(Nat) :
                JobReduce(job, Append(values, kv.value)) = JobReduce(job, values) + kv.value
<1>1. CASE job \in {"wordcount", "docdensity"}
  <2>1. \A values \in Seq(Nat) : JobReduce(job, values) = SumReduce(values) BY <1>1 DEF JobReduce
  <2>2. SumReduce(<<>>) = 0 /\ \A values \in Seq(Nat), v \in Nat : SumReduce(Append(values, v)) = SumReduce(values) + v
    BY SumReduceSteps
  <2>3. <<>> \in Seq(Nat) /\ \A values \in Seq(Nat), v \in Nat : Append(values, v) \in Seq(Nat) OBVIOUS
  <2>4. \A kv \in PairsOf(job) : kv.value \in Nat BY DEF PairsOf, JobPairs
  <2> QED BY <2>1, <2>2, <2>3, <2>4
<1>2. CASE job \notin {"wordcount", "docdensity"}
  <2>1. \A values \in Seq(Nat) : JobReduce(job, values) = Len(values)
    BY <1>2 DEF JobReduce, CountReduce
  <2>2. <<>> \in Seq(Nat) /\ Len(<<>>) = 0 OBVIOUS
  <2>3. \A values \in Seq(Nat), v \in Nat : Append(values, v) \in Seq(Nat) /\ Len(Append(values, v)) = Len(values) + 1
    OBVIOUS
  <2>4. \A kv \in PairsOf(job) : kv.value = 1 /\ kv.value \in Nat BY <1>2 DEF PairsOf, JobPairs
  <2> QED BY <2>1, <2>2, <2>3, <2>4
<1> QED BY <1>1, <1>2

\* What runReduce has written when it has read the pairs q: all of every key
\* but the last one, whose values it holds.
Reduced(job, q, acc) ==
    IF q = <<>> THEN acc = NoKeyYet
    ELSE /\ acc.key = q[Len(q)].key
         /\ acc.key \notin KeysOf(acc.out)
         /\ KeysOf(acc.out) \cup {acc.key} = KeysOf(q)
         /\ JobReduce(job, acc.values) = SumOf(q, acc.key)
         /\ \A kv \in Range(acc.out) : kv.value = SumOf(q, kv.key)
         /\ \A k \in KeysOf(acc.out) : SumOf(acc.out, k) = SumOf(q, k)

\* One more pair, of the same key or of a new one.
LEMMA ReducedStep ==
    ASSUME NEW job, NEW q \in Seq(PairsOf(job)), NEW e \in PairsOf(job), Grouped(Append(q, e)),
           NEW acc \in StreamStates, Reduced(job, q, acc)
    PROVE  Reduced(job, Append(q, e), TakePair(job, acc, e))
<1>1. PICK w \in Seq(PairsOf(job)) : w = Append(q, e)
  <2>1. Append(q, e) \in Seq(PairsOf(job)) OBVIOUS
  <2> QED BY <2>1, Zenon
<1>2. /\ w # <<>> /\ Len(q) \in Nat /\ Len(w) = Len(q) + 1 /\ w[Len(w)] = e
      /\ \A i \in DOMAIN q : i \in DOMAIN w /\ w[i] = q[i]
      /\ DOMAIN q = 1 .. Len(q) /\ DOMAIN w = 1 .. Len(q) + 1
  BY <1>1
<1>3. PairsOf(job) \in SUBSET JobPairs BY DEF PairsOf
<1>4. e.key \in Keys /\ e.key # EmptyKey /\ e.value \in Nat BY <1>3 DEF JobPairs, Keys
<1>5. KeysOf(w) = KeysOf(q) \cup {e.key} BY <1>1, KeysSteps
<1>6. \A k : SumOf(w, k) = IF e.key = k THEN SumOf(q, k) + e.value ELSE SumOf(q, k)
  BY <1>1, <1>3, SumOfMore
<1>7. PICK out \in Seq(JobPairs), key \in Seq(KeyParts), values \in Seq(Nat) :
        acc = [out |-> out, key |-> key, values |-> values]
  BY DEF StreamStates
<1>8. PICK next : next = TakePair(job, acc, e) OBVIOUS
<1>9. CASE q = <<>>
  <2>1. out = <<>> /\ key = EmptyKey /\ values = <<>> BY <1>7, <1>9 DEF Reduced, NoKeyYet
  <2>2. next.out = <<>> /\ next.key = e.key /\ next.values = Append(values, e.value)
    BY <1>7, <1>8, <2>1 DEF TakePair
  <2>3. KeysOf(<<>>) = {} /\ Range(<<>>) = {} BY DEF KeysOf, Range
  <2>4. SumOf(q, e.key) = 0 BY <1>3, <1>9, <2>3, SumOfMissing
  <2>5. JobReduce(job, next.values) = 0 + e.value BY <2>1, <2>2, ReduceAdds
  <2>6. JobReduce(job, next.values) = SumOf(w, e.key) BY <1>4, <1>6, <2>4, <2>5
  <2> QED BY <1>1, <1>2, <1>5, <1>8, <1>9, <2>2, <2>3, <2>6 DEF Reduced
<1>10. CASE q # <<>>
  <2>1. /\ key = q[Len(q)].key
        /\ key \notin KeysOf(out)
        /\ KeysOf(out) \cup {key} = KeysOf(q)
        /\ JobReduce(job, values) = SumOf(q, key)
        /\ \A kv \in Range(out) : kv.value = SumOf(q, kv.key)
        /\ \A k \in KeysOf(out) : SumOf(out, k) = SumOf(q, k)
    BY <1>7, <1>10 DEF Reduced
  <2>2. Len(q) \in DOMAIN q BY <1>2, <1>10
  <2>3. key \in Keys /\ key # EmptyKey
    <3>1. q[Len(q)] \in JobPairs BY <1>3, <2>2
    <3> QED BY <2>1, <3>1 DEF JobPairs, Keys
  <2>4. CASE e.key = key
    <3>1. next.out = out /\ next.key = key /\ next.values = Append(values, e.value)
      BY <1>7, <1>8, <2>4 DEF TakePair
    <3>2. JobReduce(job, next.values) = SumOf(w, key)
      BY <1>6, <2>1, <2>4, <3>1, ReduceAdds
    <3>3. \A k \in KeysOf(out) : SumOf(w, k) = SumOf(q, k) BY <1>6, <2>1, <2>4
    <3>4. \A kv \in Range(out) : kv.key \in KeysOf(out) BY DEF KeysOf
    <3>5. KeysOf(w) = KeysOf(out) \cup {key} BY <1>5, <2>1, <2>4
    <3> QED BY <1>1, <1>2, <1>8, <2>1, <2>4, <3>1, <3>2, <3>3, <3>4, <3>5 DEF Reduced
  <2>5. CASE e.key # key
    <3>1. PICK last \in JobPairs : last = Pair(key, JobReduce(job, values))
      <4>1. JobReduce(job, values) \in Nat BY JobReduceType
      <4> QED BY <2>3, <4>1 DEF Pair, JobPairs
    <3>2. next.out = Append(out, last) /\ next.key = e.key /\ next.values = <<e.value>>
      BY <1>7, <1>8, <2>3, <2>5, <3>1 DEF TakePair, Emit
    <3>3. e.key \notin KeysOf(q)
      <4> SUFFICES ASSUME NEW i \in DOMAIN q, q[i].key = e.key PROVE FALSE BY DEF KeysOf, Range
      <4>1. i # Len(q) BY <2>1, <2>5
      <4>2. /\ i \in DOMAIN w /\ Len(q) \in DOMAIN w /\ Len(w) \in DOMAIN w
            /\ i < Len(q) /\ Len(q) < Len(w) /\ w[i].key = w[Len(w)].key
        BY <1>2, <2>2, <4>1
      <4>3. w[Len(q)].key = w[i].key BY <1>1, <4>2 DEF Grouped
      <4> QED BY <1>2, <2>1, <2>2, <2>5, <4>3
    <3>4. KeysOf(next.out) = KeysOf(q)
      <4>1. KeysOf(Append(out, last)) = KeysOf(out) \cup {last.key} BY KeysSteps
      <4> QED BY <2>1, <3>1, <3>2, <4>1 DEF Pair
    <3>5. JobReduce(job, next.values) = SumOf(w, e.key)
      <4>1. SumOf(q, e.key) = 0 BY <1>3, <3>3, SumOfMissing
      <4>2. <<>> \in Seq(Nat) /\ <<e.value>> = Append(<<>>, e.value) OBVIOUS
      <4>3. JobReduce(job, <<e.value>>) = 0 + e.value BY <4>2, ReduceAdds
      <4> QED BY <1>4, <1>6, <3>2, <4>1, <4>3
    <3>6. \A k \in KeysOf(q) : SumOf(w, k) = SumOf(q, k) BY <1>6, <3>3
    <3>7. \A kv \in Range(next.out) : kv.value = SumOf(w, kv.key)
      <4>1. Range(next.out) = Range(out) \cup {last} BY <3>2, RangeSteps
      <4>2. \A kv \in Range(out) : kv.key \in KeysOf(q) BY <2>1 DEF KeysOf
      <4>3. last.key = key /\ last.value = JobReduce(job, values) BY <3>1 DEF Pair
      <4>4. key \in KeysOf(q) BY <2>1
      <4> QED BY <2>1, <3>6, <4>1, <4>2, <4>3, <4>4
    <3>8. \A k \in KeysOf(next.out) : SumOf(next.out, k) = SumOf(w, k)
      <4> SUFFICES ASSUME NEW k \in KeysOf(q) PROVE SumOf(Append(out, last), k) = SumOf(w, k)
        BY <3>2, <3>4
      <4>1. SumOf(Append(out, last), k) = IF last.key = k THEN SumOf(out, k) + last.value ELSE SumOf(out, k)
        <5>1. JobPairs \in SUBSET JobPairs OBVIOUS
        <5> QED BY <5>1, SumOfMore
      <4>2. last.key = key /\ last.value = SumOf(q, key) /\ last.value \in Nat
        BY <2>1, <3>1 DEF Pair, JobPairs
      <4>3. SumOf(out, key) = 0 BY <2>1, SumOfMissing
      <4> QED BY <2>1, <3>6, <4>1, <4>2, <4>3
    <3> QED BY <1>1, <1>2, <1>5, <1>8, <3>2, <3>3, <3>4, <3>5, <3>7, <3>8 DEF Reduced
  <2> QED BY <2>4, <2>5
<1> QED BY <1>9, <1>10

\* runReduce writes each key once, with the sum of its values.
LEMMA ReduceSums ==
    ASSUME NEW job, NEW q \in Seq(PairsOf(job)), Grouped(q)
    PROVE  /\ KeysOf(RunReduce(job, q)) = KeysOf(q)
           /\ \A kv \in Range(RunReduce(job, q)) : kv.value = SumOf(q, kv.key)
           /\ \A k : SumOf(RunReduce(job, q), k) = SumOf(q, k)
<1>0. PairsOf(job) \in SUBSET JobPairs BY DEF PairsOf
<1>1. \A s \in Seq(PairsOf(job)) : s \in Seq(JobPairs) BY <1>0, SeqSubset
<1> DEFINE P == {s \in Seq(PairsOf(job)) : Grouped(s) => Reduced(job, s, Streamed(job, s))}
<1>2. q \in P
  <2>1. <<>> \in P
    <3>1. <<>> \in Seq(PairsOf(job)) OBVIOUS
    <3>2. Streamed(job, <<>>) = NoKeyYet BY StreamedSteps
    <3>3. Reduced(job, <<>>, Streamed(job, <<>>)) BY <3>2 DEF Reduced
    <3> QED BY <3>1, <3>3
  <2>2. ASSUME NEW s \in Seq(PairsOf(job)), NEW e \in PairsOf(job), s \in P PROVE Append(s, e) \in P
    <3>1. PICK w \in Seq(PairsOf(job)) : w = Append(s, e)
      <4>1. Append(s, e) \in Seq(PairsOf(job)) OBVIOUS
      <4> QED BY <4>1, Zenon
    <3> SUFFICES ASSUME Grouped(w) PROVE Reduced(job, w, Streamed(job, w)) BY <3>1
    <3>2. Grouped(s)
      <4>1. \A i \in DOMAIN s : i \in DOMAIN w /\ w[i] = s[i] BY <3>1
      <4> QED BY <4>1 DEF Grouped
    <3>3. Streamed(job, s) \in StreamStates /\ Streamed(job, w) = TakePair(job, Streamed(job, s), e)
      <4>1. s \in Seq(JobPairs) /\ e \in JobPairs BY <1>0, <1>1
      <4>2. Streamed(job, s) \in StreamStates /\ Streamed(job, Append(s, e)) = TakePair(job, Streamed(job, s), e)
        BY <4>1, StreamedSteps
      <4> QED BY <3>1, <4>2, Zenon
    <3>4. Reduced(job, s, Streamed(job, s)) BY <2>2, <3>2
    <3> QED BY <3>1, <3>3, <3>4, ReducedStep
  <2> HIDE DEF P
  <2> QED BY <2>1, <2>2, InductionOnSeq
<1>3. PICK end : end = Streamed(job, q) OBVIOUS
<1>4. Reduced(job, q, end) /\ end \in StreamStates BY <1>1, <1>2, <1>3, StreamedSteps
<1>5. RunReduce(job, q) = IF end.key = EmptyKey THEN end.out ELSE Emit(job, end)
  BY <1>3 DEF RunReduce
<1>6. CASE q = <<>>
  <2>1. RunReduce(job, q) = <<>> BY <1>4, <1>5, <1>6 DEF Reduced, NoKeyYet
  <2> QED BY <1>6, <2>1 DEF Range
<1>7. CASE q # <<>>
  <2>1. /\ end.key = q[Len(q)].key
        /\ end.key \notin KeysOf(end.out)
        /\ KeysOf(end.out) \cup {end.key} = KeysOf(q)
        /\ JobReduce(job, end.values) = SumOf(q, end.key)
        /\ \A kv \in Range(end.out) : kv.value = SumOf(q, kv.key)
        /\ \A k \in KeysOf(end.out) : SumOf(end.out, k) = SumOf(q, k)
    BY <1>4, <1>7 DEF Reduced
  <2>2. end.key \in Keys /\ end.key # EmptyKey
    <3>1. q[Len(q)] \in JobPairs BY <1>0, <1>7
    <3> QED BY <2>1, <3>1 DEF JobPairs, Keys
  <2>3. PICK last \in JobPairs : last = Pair(end.key, JobReduce(job, end.values))
    <3>1. JobReduce(job, end.values) \in Nat BY <1>4, JobReduceType DEF StreamStates
    <3> QED BY <2>2, <3>1 DEF Pair, JobPairs
  <2>4. last.key = end.key /\ last.value = SumOf(q, end.key) /\ last.value \in Nat
    BY <2>1, <2>3 DEF Pair, JobPairs
  <2>5. PICK out \in Seq(JobPairs) : out = end.out BY <1>4 DEF StreamStates
  <2>6. RunReduce(job, q) = Append(out, last) BY <1>5, <2>2, <2>3, <2>5 DEF Emit
  <2>7. KeysOf(Append(out, last)) = KeysOf(q)
    <3>1. KeysOf(Append(out, last)) = KeysOf(out) \cup {last.key} BY KeysSteps
    <3> QED BY <2>1, <2>4, <2>5, <3>1
  <2>8. \A kv \in Range(Append(out, last)) : kv.value = SumOf(q, kv.key)
    <3>1. Range(Append(out, last)) = Range(out) \cup {last} BY RangeSteps
    <3> QED BY <2>1, <2>4, <2>5, <3>1
  <2>9. ASSUME NEW k PROVE SumOf(Append(out, last), k) = SumOf(q, k)
    <3>1. SumOf(Append(out, last), k) = IF last.key = k THEN SumOf(out, k) + last.value ELSE SumOf(out, k)
      <4>1. JobPairs \in SUBSET JobPairs OBVIOUS
      <4> QED BY <4>1, SumOfMore
    <3>2. CASE k \in KeysOf(out) BY <2>1, <2>4, <2>5, <3>1, <3>2
    <3>3. CASE k = end.key
      <4>1. SumOf(out, k) = 0 BY <2>1, <2>5, <3>3, SumOfMissing
      <4> QED BY <2>4, <3>1, <3>3, <4>1
    <3>4. CASE k \notin KeysOf(q)
      <4>1. SumOf(q, k) = 0 BY <1>0, <3>4, SumOfMissing
      <4>2. SumOf(out, k) = 0 BY <2>1, <2>5, <3>4, SumOfMissing
      <4>3. last.key # k BY <2>1, <2>4, <3>4
      <4> QED BY <3>1, <4>1, <4>2, <4>3
    <3> QED BY <2>1, <2>5, <3>2, <3>3, <3>4
  <2> QED BY <2>6, <2>7, <2>8, <2>9
<1> QED BY <1>6, <1>7

-----------------------------------------------------------------------------
(* Sums over the slots *)

\* The slots in their order.
LEMMA SlotPlaces ==
    IsFiniteSet(Slots) /\ IsFiniteSet(1 .. N) /\ [i \in 1 .. N |-> i - 1] \in Bijection(1 .. N, Slots)
<1>1. N \in Nat \ {0} BY ChunkingAssumption
<1>2. IsFiniteSet(Slots) /\ IsFiniteSet(1 .. N) BY <1>1, FS_Interval DEF Slots
<1>3. PICK h, D : h = [i \in D |-> i - 1] /\ D = 1 .. N OBVIOUS
<1>4. h \in [D -> Slots] /\ DOMAIN h = D BY <1>1, <1>3 DEF Slots
<1>5. \A i, j \in D : h[i] = h[j] => i = j BY <1>1, <1>3
<1>6. ASSUME NEW s \in Slots PROVE \E i \in D : h[i] = s
  <2>1. s + 1 \in 1 .. N /\ (s + 1) - 1 = s BY <1>1 DEF Slots
  <2> QED BY <1>3, <2>1
<1>7. IsInjective(h) BY <1>4, <1>5, Zenon DEF IsInjective
<1>8. h \in Bijection(D, Slots) BY <1>4, <1>6, <1>7, Zenon DEF Bijection, Injection, Surjection
<1> QED BY <1>2, <1>3, <1>8, Zenon

\* The library's sum of a function.
LEMMA SumFunctionIsTotal == \A f : SumFunction(f) = Total(f)
BY DEF SumFunction, SumFunctionOnSet, FoldFunction, Total

\* The chunks of the slots are as long as the data up to the last cut.
LEMMA CutsLength ==
    ASSUME NEW A, NEW data \in Seq(A), NEW E, Cuts(E, data),
           NEW f, f = [s \in Slots |-> Len(SubSeq(data, E[s] + 1, E[s + 1]))]
    PROVE  SumFunction(f) = E[N] /\ E[N] \in 0 .. Len(data)
<1>1. PICK n \in Nat : n = N /\ n # 0 BY ChunkingAssumption
<1>2. PICK L \in Nat : L = Len(data) OBVIOUS
<1>3. E \in [Nat -> 0 .. L] /\ E[0] = 0 /\ \A i \in Nat : E[i + 1] = NextCut(data, E[i])
  BY <1>2 DEF Cuts
<1>4. ASSUME NEW s \in Slots PROVE f[s] = E[s + 1] - E[s]
  <2>1. s \in Nat BY <1>1 DEF Slots
  <2>2. PICK a \in 0 .. L : a = E[s] BY <1>3, <2>1
  <2>3. PICK b \in a .. L : b = E[s + 1] BY <1>2, <1>3, <2>1, <2>2, NextCutType
  <2>4. Len(SubSeq(data, a + 1, b)) = b - a BY <1>2, PrefixGrows
  <2> QED BY <2>2, <2>3, <2>4
<1>5. f \in [Slots -> Int]
  <2>1. ASSUME NEW s \in Slots PROVE f[s] \in Int
    <3>1. s \in Nat /\ s + 1 \in Nat BY <1>1 DEF Slots
    <3>2. E[s] \in Int /\ E[s + 1] \in Int BY <1>3, <3>1
    <3> QED BY <1>4, <3>2
  <2> QED BY <2>1
<1>6. PICK h, D : h = [i \in D |-> i - 1] /\ D = 1 .. N OBVIOUS
<1>7. IsFiniteSet(Slots) /\ IsFiniteSet(D) /\ h \in Bijection(D, Slots) BY <1>6, SlotPlaces, Zenon
<1>8. h \in [D -> Slots] BY <1>7 DEF Bijection, Injection
<1>9. PICK g : g = Along(f, h) OBVIOUS
<1>10. Total(g) = Total(f)
  <2>1. PICK e \in [Slots -> Int] : e = f BY <1>5, Zenon
  <2>2. Total(Along(e, h)) = Total(e) BY <1>7, SumOverBijection
  <2> QED BY <1>9, <2>1, <2>2, Zenon
<1>11. \A i \in D : g[i] = f[i - 1] BY <1>6, <1>8, <1>9 DEF Along
<1>12. g \in [1 .. n -> Int] BY <1>1, <1>5, <1>6, <1>8, <1>9 DEF Along
<1>13. ASSUME NEW i \in 1 .. n PROVE E[i] = E[i - 1] + g[i]
  <2>1. PICK j \in Slots : j = i - 1 /\ j + 1 = i BY <1>1, <1>13 DEF Slots
  <2>2. j \in Nat /\ i \in Nat BY <1>1, <2>1 DEF Slots
  <2>3. E[i] \in Int /\ E[j] \in Int BY <1>3, <2>2
  <2>4. g[i] = f[j] BY <1>1, <1>6, <1>11, <2>1
  <2>5. f[j] = E[j + 1] - E[j] BY <1>4
  <2> QED BY <2>1, <2>3, <2>4, <2>5
<1>14. Total(g) = E[n] BY <1>3, <1>12, <1>13, SumInOrder
<1> QED BY <1>1, <1>2, <1>3, <1>10, <1>14, SumFunctionIsTotal

-----------------------------------------------------------------------------
(* The deal of the URLs *)

\* Multiplication keeps the order.
LEMMA TimesKeepsOrder == ASSUME NEW n \in Nat, NEW a \in Int, NEW b \in Int, a <= b PROVE a * n <= b * n
OBVIOUS

\* Quotient and remainder.
LEMMA DivMod ==
    ASSUME NEW n \in Nat, n # 0, NEW x \in Nat
    PROVE  x \div n \in Nat /\ x % n \in 0 .. n - 1 /\ x = (x \div n) * n + (x % n)
OBVIOUS

Quotient(x, n, q, r) == n \in Nat /\ n # 0 /\ q \in Nat /\ r \in 0 .. n - 1 /\ x = q * n + r

\* There is only one pair of them.
LEMMA DivModUnique ==
    ASSUME NEW x, NEW n, NEW q, NEW r, Quotient(x, n, q, r) PROVE x \div n = q /\ x % n = r
<1> n \in Nat /\ n # 0 /\ q \in Nat /\ r \in 0 .. n - 1 /\ x = q * n + r BY DEF Quotient
<1>1. x \in Nat OBVIOUS
<1>2. PICK p \in Nat, t \in 0 .. n - 1 : p = x \div n /\ t = x % n /\ x = p * n + t
  <2>1. x \div n \in Nat /\ x % n \in 0 .. n - 1 /\ x = (x \div n) * n + (x % n) BY <1>1, DivMod
  <2> QED BY <2>1, Zenon
<1>3. q * n \in Int /\ p * n \in Int /\ (p + 1) * n = p * n + n /\ (q + 1) * n = q * n + n OBVIOUS
<1>4. ~(p + 1 <= q)
  <2> SUFFICES ASSUME p + 1 <= q PROVE FALSE OBVIOUS
  <2>1. (p + 1) * n <= q * n BY TimesKeepsOrder
  <2> QED BY <1>2, <1>3, <2>1
<1>5. ~(q + 1 <= p)
  <2> SUFFICES ASSUME q + 1 <= p PROVE FALSE OBVIOUS
  <2>1. (q + 1) * n <= p * n BY TimesKeepsOrder
  <2> QED BY <1>2, <1>3, <2>1
<1>6. p = q BY <1>4, <1>5
<1> QED BY <1>2, <1>3, <1>6

\* A slot s of n is dealt c numbers of m: c is m + n - 1 - s divided by n, which
\* leaves y.
DealsOf(n, s, m, c) ==
    /\ n \in Nat /\ n # 0 /\ s \in 0 .. n - 1 /\ m \in Nat /\ c \in Nat
    /\ \E y \in 0 .. n - 1 : m + n - 1 - s = c * n + y
\* Number i of m leaves s.  The j-th number it is dealt is i.
Leaves(n, s, m, i) == i \in 1 .. m /\ (i - 1) % n = s
Dealt(n, s, c, j, i) == j \in 1 .. c /\ i = s + (j - 1) * n + 1
Deals(n, s, m, j, i) == i \in 1 .. m /\ (i - 1) % n = s /\ (i - 1) \div n = j - 1

\* Every quotient deals.
LEMMA DealsExist ==
    ASSUME NEW n, NEW s, NEW m, NEW c, n \in Nat, n # 0, s \in 0 .. n - 1, m \in Nat,
           c = (m + n - 1 - s) \div n
    PROVE  DealsOf(n, s, m, c)
<1>1. PICK x \in Nat : x = m + n - 1 - s
  <2>1. m + n - 1 - s \in Nat OBVIOUS
  <2> QED BY <2>1
<1>2. c = x \div n BY <1>1
<1>3. c \in Nat /\ x % n \in 0 .. n - 1 /\ x = c * n + (x % n) BY <1>1, <1>2, DivMod
<1>4. PICK y \in 0 .. n - 1 : y = x % n BY <1>3
<1>5. m + n - 1 - s = c * n + y BY <1>1, <1>3, <1>4
<1> QED BY <1>3, <1>5 DEF DealsOf

\* The j-th number a slot s is dealt of m is one of them and leaves s.
LEMMA DealtIsOne ==
    ASSUME NEW n, NEW s, NEW m, NEW c, DealsOf(n, s, m, c), NEW j \in 1 .. c,
           NEW i, i = s + (j - 1) * n + 1
    PROVE  Deals(n, s, m, j, i)
<1> n \in Nat /\ n # 0 /\ s \in 0 .. n - 1 /\ m \in Nat /\ c \in Nat BY DEF DealsOf
<1> PICK y \in 0 .. n - 1 : m + n - 1 - s = c * n + y BY DEF DealsOf
<1>1. j * n <= c * n BY TimesKeepsOrder
<1>2. PICK d \in Nat : d = (j - 1) * n /\ d = j * n - n
  <2>1. (j - 1) * n \in Nat /\ (j - 1) * n = j * n - n OBVIOUS
  <2> QED BY <2>1
<1>3. PICK e \in Int, g \in Int : e = j * n /\ g = c * n OBVIOUS
<1>4. e <= g /\ d = e - n /\ m + n - 1 - s = g + y BY <1>1, <1>2, <1>3
<1>5. i = s + d + 1 BY <1>2
<1>6. i \in 1 .. m BY <1>4, <1>5
<1>7. PICK q \in Nat : q = j - 1 OBVIOUS
<1>8. PICK x \in Nat : x = i - 1 /\ x = q * n + s BY <1>2, <1>5, <1>7
<1>9. Quotient(x, n, q, s) BY <1>8 DEF Quotient
<1>10. x \div n = q /\ x % n = s BY <1>9, DivModUnique, Zenon
<1> QED BY <1>6, <1>7, <1>8, <1>10 DEF Deals

\* All of m that leave s are dealt to it.
LEMMA DealtAreAll ==
    ASSUME NEW n, NEW s, NEW m, NEW c, DealsOf(n, s, m, c), NEW i, Leaves(n, s, m, i)
    PROVE  \E j : Dealt(n, s, c, j, i)
<1> i \in 1 .. m /\ (i - 1) % n = s BY DEF Leaves
<1> n \in Nat /\ n # 0 /\ s \in 0 .. n - 1 /\ m \in Nat /\ c \in Nat BY DEF DealsOf
<1> PICK y \in 0 .. n - 1 : m + n - 1 - s = c * n + y BY DEF DealsOf
<1>1. PICK q \in Nat : i - 1 = q * n + s
  <2>1. i - 1 \in Nat OBVIOUS
  <2> QED BY <2>1, DivMod
<1>2. PICK j \in Nat : j = q + 1 /\ j >= 1 OBVIOUS
<1>3. (j - 1) * n = q * n /\ q * n \in Int BY <1>2
<1>4. i = s + (j - 1) * n + 1
  <2>1. PICK e \in Int : e = q * n BY <1>3
  <2> QED BY <1>1, <1>3, <2>1
<1>5. j <= c
  <2> SUFFICES ASSUME c + 1 <= j PROVE FALSE BY <1>2
  <2>1. (c + 1) * n <= j * n BY TimesKeepsOrder
  <2>2. (c + 1) * n = c * n + n /\ j * n = q * n + n BY <1>2
  <2>3. PICK e \in Int, g \in Int : e = q * n /\ g = c * n BY <1>3
  <2>4. g <= e /\ m + n - 1 - s = g + y /\ i - 1 = e + s BY <1>1, <2>1, <2>2, <2>3
  <2> QED BY <2>4
<1>6. j \in 1 .. c BY <1>2, <1>5
<1> QED BY <1>4, <1>6, Zenon DEF Dealt

\* The numbers slot s is dealt of m: those that leave s when divided by N.
Hand(m, s) == {i \in 1 .. m : (i - 1) % N = s}
HandSize(m, s) == (m + N - 1 - s) \div N

\* The deal counts them all, each once.
LEMMA DealtHand ==
    ASSUME NEW m \in Nat, NEW s \in Slots, NEW c, c = HandSize(m, s),
           NEW h, h = [j \in 1 .. c |-> s + (j - 1) * N + 1]
    PROVE  c \in Nat /\ h \in Bijection(1 .. c, Hand(m, s))
<1>1. PICK n \in Nat : n = N /\ n # 0 BY ChunkingAssumption
<1>2. s \in 0 .. n - 1 BY <1>1 DEF Slots
<1>4. DealsOf(n, s, m, c) BY <1>1, <1>2, DealsExist DEF HandSize
<1>5. c \in Nat BY <1>4 DEF DealsOf
<1>7. ASSUME NEW j \in 1 .. c, NEW i, i = s + (j - 1) * n + 1 PROVE Deals(n, s, m, j, i)
  BY <1>4, <1>7, DealtIsOne, Zenon
<1>8. PICK D, H : D = 1 .. c /\ H = Hand(m, s) OBVIOUS
<1>9. h \in [D -> H] /\ DOMAIN h = D
  <2>1. \A j \in D : h[j] = s + (j - 1) * n + 1 BY <1>1, <1>8
  <2>2. \A j \in D : h[j] \in H BY <1>1, <1>7, <1>8, <2>1 DEF Hand, Deals
  <2>3. h = [j \in D |-> h[j]] BY <1>8
  <2> QED BY <2>2, <2>3
<1>10. ASSUME NEW i \in D, NEW j \in D, h[i] = h[j] PROVE i = j
  <2>1. h[i] = s + (i - 1) * n + 1 /\ h[j] = s + (j - 1) * n + 1 BY <1>1, <1>8
  <2>2. Deals(n, s, m, i, h[i]) /\ Deals(n, s, m, j, h[j]) BY <1>7, <1>8, <2>1, Zenon
  <2>3. i - 1 = j - 1 BY <1>10, <2>2 DEF Deals
  <2>4. i \in Int /\ j \in Int BY <1>5, <1>8
  <2> QED BY <2>3, <2>4
<1>11. ASSUME NEW i \in H PROVE \E j \in D : h[j] = i
  <2>1. Leaves(n, s, m, i) BY <1>1, <1>8 DEF Hand, Leaves
  <2>2. PICK j : Dealt(n, s, c, j, i) BY <1>4, <2>1, DealtAreAll, Zenon
  <2> QED BY <1>1, <1>8, <2>2 DEF Dealt
<1>12. IsInjective(h) BY <1>9, <1>10, Zenon DEF IsInjective
<1>13. h \in Bijection(D, H) BY <1>9, <1>11, <1>12, Zenon DEF Bijection, Injection, Surjection
<1> QED BY <1>5, <1>8, <1>13

\* The positions of the numbers a slot is dealt of m, in order.
Positions(m, s) == [j \in 1 .. HandSize(m, s) |-> s + (j - 1) * N + 1]

\* Positions of a hand.
LEMMA HandPositions ==
    ASSUME NEW m \in Nat, NEW s \in Slots, NEW h, h = Positions(m, s)
    PROVE  /\ \E c \in Nat : c = HandSize(m, s) /\ DOMAIN h = 1 .. c /\ IsFiniteSet(1 .. c)
           /\ h \in Bijection(DOMAIN h, Hand(m, s)) /\ h \in [DOMAIN h -> Hand(m, s)]
           /\ \A i \in Hand(m, s) : \E j \in DOMAIN h : h[j] = i
<1>1. PICK c : c = HandSize(m, s) OBVIOUS
<1>2. h = [j \in 1 .. c |-> s + (j - 1) * N + 1] BY <1>1 DEF Positions
<1>3. c \in Nat /\ h \in Bijection(1 .. c, Hand(m, s)) BY <1>1, <1>2, DealtHand
<1>4. DOMAIN h = 1 .. c BY <1>2
<1>5. IsFiniteSet(1 .. c) BY <1>3, FS_Interval
<1>6. PICK D, H : D = 1 .. c /\ H = Hand(m, s) OBVIOUS
<1>7. h \in Bijection(D, H) BY <1>3, <1>6, Zenon
<1>8. h \in [D -> H] /\ \A i \in H : \E j \in D : h[j] = i BY <1>7 DEF Bijection, Injection, Surjection
<1> QED BY <1>1, <1>3, <1>4, <1>5, <1>6, <1>7, <1>8

\* A sum over m numbers is the sum of those over the hands.
LEMMA SumByHands ==
    ASSUME NEW m \in Nat, NEW f \in [1 .. m -> Int]
    PROVE  Total(f) = Total([s \in Slots |-> Total(Along(f, Positions(m, s)))])
<1>1. PICK S, p : S = 1 .. m /\ p = [i \in S |-> (i - 1) % N] OBVIOUS
<1>2. IsFiniteSet(S) /\ IsFiniteSet(Slots) BY <1>1, FS_Interval, SlotPlaces
<1>3. p \in [S -> Slots]
  <2>1. ASSUME NEW i \in S PROVE (i - 1) % N \in Slots
    <3>1. PICK x \in Nat : x = i - 1 BY <1>1
    <3>2. PICK n \in Nat : n = N /\ n # 0 BY ChunkingAssumption
    <3>3. x % n \in 0 .. n - 1 BY <3>2, DivMod
    <3> QED BY <3>1, <3>2, <3>3 DEF Slots
  <2> QED BY <1>1, <2>1
<1>4. f \in [S -> Int] BY <1>1
<1>5. Total(f) = Total([s \in Slots |-> Total(PartOf(f, p, s))]) BY <1>2, <1>3, <1>4, SumByParts
<1>6. ASSUME NEW s \in Slots PROVE Total(PartOf(f, p, s)) = Total(Along(f, Positions(m, s)))
  <2>1. PICK H, h, g : H = Hand(m, s) /\ h = Positions(m, s) /\ g = PartOf(f, p, s) OBVIOUS
  <2>2. H = {y \in DOMAIN f : p[y] = s} BY <1>1, <1>4, <2>1 DEF Hand
  <2>3. H \subseteq S BY <1>4, <2>2
  <2>4. g = [x \in H |-> f[x]] BY <2>1, <2>2 DEF PartOf
  <2>5. g \in [H -> Int] /\ \A x \in H : g[x] = f[x] BY <1>4, <2>3, <2>4
  <2>6. IsFiniteSet(H) BY <1>2, <2>3, FS_Subset
  <2>7. PICK D : D = DOMAIN h OBVIOUS
  <2>8. h \in Bijection(D, H) /\ h \in [D -> H] /\ IsFiniteSet(D) BY <2>1, <2>7, HandPositions
  <2>9. Total(Along(g, h)) = Total(g) BY <2>5, <2>6, <2>8, SumOverBijection
  <2>10. Along(g, h) = Along(f, h) BY <2>5, <2>8 DEF Along
  <2> QED BY <2>1, <2>9, <2>10, Zenon
<1>7. [s \in Slots |-> Total(PartOf(f, p, s))] = [s \in Slots |-> Total(Along(f, Positions(m, s)))] BY <1>6
<1> QED BY <1>5, <1>7, Zenon

\* Every number is in the hand of a slot.
LEMMA HandsHaveAll ==
    ASSUME NEW m \in Nat, NEW i \in 1 .. m PROVE \E s \in Slots : i \in Hand(m, s)
<1>1. PICK x \in Nat : x = i - 1 OBVIOUS
<1>2. PICK n \in Nat : n = N /\ n # 0 BY ChunkingAssumption
<1>3. x % n \in 0 .. n - 1 BY <1>2, DivMod
<1>4. (i - 1) % N \in Slots BY <1>1, <1>2, <1>3 DEF Slots
<1> QED BY <1>4 DEF Hand

-----------------------------------------------------------------------------
(* Totals over keys *)

\* The sum of the values some pairs have for keys of a set.
WeightOf(s, F) == Total([k \in F |-> SumOf(s, k)])

\* One more pair adds its value if its key is in the set.
LEMMA WeightSteps ==
    ASSUME NEW A \in SUBSET JobPairs, NEW F, IsFiniteSet(F)
    PROVE  /\ WeightOf(<<>>, F) = 0
           /\ \A s \in Seq(A) : WeightOf(s, F) \in Int
           /\ \A s \in Seq(A), e \in A :
                WeightOf(Append(s, e), F) = WeightOf(s, F) + (IF e.key \in F THEN e.value ELSE 0)
<1>0. \A a \in A : a.value \in Nat BY PairValues
<1>1. \A k : SumOf(<<>>, k) = 0 /\ \A s \in Seq(A) : SumOf(s, k) \in Nat BY <1>0, SumOfSteps
<1>2. ASSUME NEW s \in Seq(A) PROVE [k \in F |-> SumOf(s, k)] \in [F -> Int]
  <2>1. \A k \in F : SumOf(s, k) \in Int BY <1>1
  <2> QED BY <2>1
<1>3. ASSUME NEW s \in Seq(A) PROVE WeightOf(s, F) \in Int
  <2>1. PICK f \in [F -> Int] : f = [k \in F |-> SumOf(s, k)] BY <1>2
  <2>2. Total(f) \in Int BY SumType
  <2> QED BY <2>1, <2>2 DEF WeightOf
<1>4. WeightOf(<<>>, F) = 0
  <2>1. PICK f : f = [k \in F |-> SumOf(<<>>, k)] OBVIOUS
  <2>2. f \in [F -> Int] /\ \A k \in F : f[k] = 0 BY <1>1, <2>1
  <2>3. Total(f) = 0 BY <2>2, SumOfZeros
  <2> QED BY <2>1, <2>3 DEF WeightOf
<1>5. ASSUME NEW s \in Seq(A), NEW e \in A
      PROVE  WeightOf(Append(s, e), F) = WeightOf(s, F) + (IF e.key \in F THEN e.value ELSE 0)
  <2>1. PICK w \in Seq(A) : w = Append(s, e)
    <3>1. Append(s, e) \in Seq(A) OBVIOUS
    <3> QED BY <3>1, Zenon
  <2>2. PICK f \in [F -> Int] : f = [k \in F |-> SumOf(s, k)] BY <1>2
  <2>3. PICK h \in [F -> Int] : h = [k \in F |-> SumOf(w, k)] BY <1>2
  <2>4. \A k \in F : h[k] = IF e.key = k THEN f[k] + e.value ELSE f[k]
    <3>1. \A k : SumOf(w, k) = IF e.key = k THEN SumOf(s, k) + e.value ELSE SumOf(s, k)
      BY <2>1, SumOfMore
    <3> QED BY <2>2, <2>3, <3>1
  <2>5. PICK a \in Int, b \in Int, v \in Nat : a = Total(f) /\ b = Total(h) /\ v = e.value
    <3>1. Total(f) \in Int /\ Total(h) \in Int BY SumType
    <3> QED BY <1>0, <3>1
  <2>6. b = a + (IF e.key \in F THEN v ELSE 0)
    <3>1. CASE e.key \in F
      <4>1. PICK x \in F : x = e.key BY <3>1
      <4>2. \A y \in F \ {x} : h[y] = f[y] BY <2>4, <4>1
      <4>3. Total(h) = Total(f) + h[x] - f[x] BY <4>2, SumOfUpdate
      <4>4. h[x] = f[x] + v /\ f[x] \in Int BY <2>4, <2>5, <4>1
      <4> QED BY <2>5, <3>1, <4>3, <4>4
    <3>2. CASE e.key \notin F
      <4>1. \A y \in F : h[y] = f[y] BY <2>4, <3>2
      <4>2. h = f BY <4>1
      <4> QED BY <2>5, <3>2, <4>2
    <3> QED BY <3>1, <3>2
  <2> QED BY <2>1, <2>2, <2>3, <2>5, <2>6 DEF WeightOf
<1> QED BY <1>3, <1>4, <1>5

\* The weight of a concatenation.
LEMMA WeightOfConcat ==
    ASSUME NEW A \in SUBSET JobPairs, NEW F, IsFiniteSet(F), NEW s \in Seq(A), NEW t \in Seq(A)
    PROVE  WeightOf(s \o t, F) = WeightOf(s, F) + WeightOf(t, F)
<1> DEFINE P == {u \in Seq(A) : WeightOf(s \o u, F) = WeightOf(s, F) + WeightOf(u, F)}
<1>0. \A a \in A : a.value \in Nat BY PairValues
<1>1. WeightOf(<<>>, F) = 0 /\ \A u \in Seq(A) : WeightOf(u, F) \in Int BY WeightSteps
<1>2. \A u \in Seq(A), e \in A :
         WeightOf(Append(u, e), F) = WeightOf(u, F) + (IF e.key \in F THEN e.value ELSE 0)
  BY WeightSteps
<1>3. <<>> \in P
  <2>1. <<>> \in Seq(A) /\ s \o <<>> = s OBVIOUS
  <2> QED BY <1>1, <2>1
<1>4. ASSUME NEW u \in Seq(A), NEW e \in A, u \in P PROVE Append(u, e) \in P
  <2>1. PICK v \in Seq(A) : v = s \o u
    <3>1. s \o u \in Seq(A) OBVIOUS
    <3> QED BY <3>1, Zenon
  <2>2. s \o Append(u, e) = Append(v, e) /\ Append(u, e) \in Seq(A) BY <2>1
  <2>3. WeightOf(v, F) = WeightOf(s, F) + WeightOf(u, F) BY <1>4, <2>1
  <2>4. PICK x : x = IF e.key \in F THEN e.value ELSE 0 OBVIOUS
  <2>5. WeightOf(Append(v, e), F) = WeightOf(v, F) + x /\ WeightOf(Append(u, e), F) = WeightOf(u, F) + x
    BY <1>2, <2>4
  <2>6. WeightOf(s, F) \in Int /\ WeightOf(u, F) \in Int /\ x \in Int BY <1>0, <1>1, <2>4
  <2>7. WeightOf(Append(v, e), F) = WeightOf(s, F) + WeightOf(Append(u, e), F)
    BY <2>3, <2>5, <2>6
  <2> QED BY <2>2, <2>7
<1>5. \A u \in Seq(A) : u \in P
  <2> HIDE DEF P
  <2> QED BY <1>3, <1>4, InductionOnSeq
<1> QED BY <1>5

\* The weight of many sequences of pairs.
LEMMA WeightOfFlat ==
    ASSUME NEW A \in SUBSET JobPairs, NEW F, IsFiniteSet(F), NEW ss \in Seq(Seq(A))
    PROVE  WeightOf(FlattenSeq(ss), F) = Total([i \in DOMAIN ss |-> WeightOf(ss[i], F)])
<1>1. PICK n \in Nat : n = Len(ss) /\ DOMAIN ss = 1 .. n /\ \A i \in 1 .. n : ss[i] \in Seq(A) OBVIOUS
<1>2. PICK First \in [0 .. n -> Seq(A)] :
        /\ First[0] = <<>> /\ First[n] = FlattenSeq(ss)
        /\ \A i \in 1 .. n : First[i] = First[i - 1] \o ss[i]
  <2>1. \E f \in [0 .. Len(ss) -> Seq(A)] :
           /\ f[0] = <<>> /\ f[Len(ss)] = FlattenSeq(ss)
           /\ \A i \in 1 .. Len(ss) : f[i] = f[i - 1] \o ss[i]
    BY FlatPrefixes
  <2> QED BY <1>1, <2>1, Zenon
<1>3. \A i \in 1 .. n : i \in 0 .. n /\ i - 1 \in 0 .. n /\ First[i - 1] \in Seq(A) /\ ss[i] \in Seq(A)
  <2> SUFFICES ASSUME NEW i \in 1 .. n
               PROVE  i \in 0 .. n /\ i - 1 \in 0 .. n /\ First[i - 1] \in Seq(A) /\ ss[i] \in Seq(A)
    OBVIOUS
  <2>1. i - 1 \in 0 .. n /\ i \in 0 .. n BY <1>1
  <2> QED BY <1>1, <2>1
<1>4. PICK f : f = [i \in DOMAIN ss |-> WeightOf(ss[i], F)] OBVIOUS
<1>5. f \in [1 .. n -> Int]
  <2>1. \A i \in 1 .. n : WeightOf(ss[i], F) \in Int BY <1>3, WeightSteps
  <2> QED BY <1>1, <1>4, <2>1
<1>6. PICK W : W = [i \in 0 .. n |-> WeightOf(First[i], F)] OBVIOUS
<1>7. W[0] = 0
  <2>1. WeightOf(<<>>, F) = 0 BY WeightSteps
  <2> QED BY <1>2, <1>6, <2>1
<1>8. ASSUME NEW i \in 1 .. n PROVE W[i] = W[i - 1] + f[i]
  <2>1. WeightOf(First[i - 1] \o ss[i], F) = WeightOf(First[i - 1], F) + WeightOf(ss[i], F)
    BY <1>3, WeightOfConcat
  <2> QED BY <1>1, <1>2, <1>3, <1>4, <1>6, <2>1
<1>9. Total(f) = W[n] BY <1>5, <1>7, <1>8, SumInOrder
<1>10. W[n] = WeightOf(FlattenSeq(ss), F) BY <1>2, <1>6
<1> QED BY <1>4, <1>9, <1>10

\* How many elements Only keeps.
LEMMA OnlyLength ==
    ASSUME NEW A, NEW s \in Seq(A), NEW B
    PROVE  Len(Only(s, B)) = Cardinality({i \in DOMAIN s : s[i] \in B})
<1> DEFINE Kept(t) == {i \in DOMAIN t : t[i] \in B}
           P == {t \in Seq(A) : Len(Only(t, B)) = Cardinality(Kept(t))}
<1>0. \A t \in Seq(A), e \in A : Only(Append(t, e), B) = IF e \in B THEN Append(Only(t, B), e) ELSE Only(t, B)
  BY OnlySteps
<1>1. <<>> \in P
  <2>1. <<>> \in Seq(A) /\ Kept(<<>>) = {} /\ Len(<<>>) = 0 OBVIOUS
  <2>2. Only(<<>>, B) = <<>> BY OnlySteps
  <2>3. Cardinality({}) = 0 BY FS_EmptySet
  <2> HIDE DEF Kept
  <2> QED BY <2>1, <2>2, <2>3
<1>2. ASSUME NEW t \in Seq(A), NEW e \in A, t \in P PROVE Append(t, e) \in P
  <2>1. PICK w \in Seq(A) : w = Append(t, e)
    <3>1. Append(t, e) \in Seq(A) OBVIOUS
    <3> QED BY <3>1, Zenon
  <2>2. PICK n \in Nat : n = Len(t) OBVIOUS
  <2>3. /\ DOMAIN t = 1 .. n /\ DOMAIN w = 1 .. n + 1 /\ w[n + 1] = e
        /\ \A i \in 1 .. n : w[i] = t[i]
    BY <2>1, <2>2
  <2>4. PICK K : K = Kept(t) OBVIOUS
  <2>5. Kept(w) = (IF e \in B THEN K \cup {n + 1} ELSE K) /\ n + 1 \notin K /\ K \subseteq 1 .. n
    <3>1. n + 1 \notin K /\ K \subseteq 1 .. n BY <2>3, <2>4
    <3>2. \A i : i \in 1 .. n + 1 <=> i \in 1 .. n \/ i = n + 1 OBVIOUS
    <3>3. \A i : i \in Kept(w) <=> i \in K \/ (i = n + 1 /\ e \in B) BY <2>3, <2>4, <3>2
    <3> HIDE DEF Kept
    <3>4. Kept(w) = (IF e \in B THEN K \cup {n + 1} ELSE K) BY <3>3
    <3> QED BY <3>1, <3>4
  <2>6. IsFiniteSet(K)
    <3>1. IsFiniteSet(1 .. n) BY FS_Interval
    <3> QED BY <2>5, <3>1, FS_Subset
  <2>7. Cardinality(K \cup {n + 1}) = Cardinality(K) + 1 BY <2>5, <2>6, FS_AddElement
  <2>8. PICK o \in Seq(A) : o = Only(t, B) BY OnlyType
  <2>9. Only(w, B) = IF e \in B THEN Append(o, e) ELSE o
    <3>1. Only(Append(t, e), B) = IF e \in B THEN Append(Only(t, B), e) ELSE Only(t, B)
      BY <1>0
    <3> QED BY <2>1, <2>8, <3>1, Zenon
  <2>10. Len(Append(o, e)) = Len(o) + 1 OBVIOUS
  <2>11. Len(o) = Cardinality(K) BY <1>2, <2>4, <2>8
  <2> HIDE DEF Kept
  <2>12. Len(Only(w, B)) = Cardinality(Kept(w)) BY <2>5, <2>7, <2>9, <2>10, <2>11
  <2> QED BY <2>1, <2>12
<1>3. \A t \in Seq(A) : t \in P
  <2> HIDE DEF P
  <2> QED BY <1>1, <1>2, InductionOnSeq
<1> QED BY <1>3

=============================================================================

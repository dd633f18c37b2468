---------------------------- MODULE ResultProofs ----------------------------
(***************************************************************************)
(* Proofs that a job counts what it was given: sums of pairs through the   *)
(* shuffle, the sort, the streaming reduce and the merge, lines, chunks    *)
(* and words against positions in the text, and the three properties of    *)
(* Pipeline about them.                                                    *)
(***************************************************************************)
EXTENDS PipelineProofs

-----------------------------------------------------------------------------
(* Lines and their positions *)

Inner == Symbols \ {NL}

\* Where the runs of a text begin and end: b and c have the first and the last
\* position of each, and a symbol that is not in inner is between two.
Delimits(s, inner, runs, b, c) ==
    LET n == Len(runs) IN
    /\ n \in Nat \ {0}
    /\ b \in [1 .. n -> 1 .. Len(s) + 1] /\ c \in [1 .. n -> 0 .. Len(s)]
    /\ b[1] = 1 /\ c[n] = Len(s)
    /\ \A i \in 1 .. n : /\ b[i] <= c[i] + 1 /\ runs[i] = SubSeq(s, b[i], c[i])
                         /\ \A j \in b[i] .. c[i] : s[j] \in inner
    /\ \A i \in 1 .. n : i # n => /\ c[i] + 1 \in DOMAIN s /\ s[c[i] + 1] \notin inner
                                  /\ b[i + 1] = c[i] + 2
    /\ \A p \in 1 .. Len(s) : \E i \in 1 .. n : b[i] <= p /\ p <= c[i] + 1
    /\ \A i, j \in 1 .. n : i < j => b[i] < b[j]

\* The start.
LEMMA DelimitsNothing == ASSUME NEW inner PROVE \E b, c : Delimits(<<>>, inner, << <<>> >>, b, c)
<1>1. PICK b, c : b = [i \in 1 .. 1 |-> 1] /\ c = [i \in 1 .. 1 |-> 0] OBVIOUS
<1>2. Len(<<>>) = 0 /\ Len(<< <<>> >>) = 1 /\ << <<>> >>[1] = <<>> /\ SubSeq(<<>>, 1, 0) = <<>>
  OBVIOUS
<1>3. b \in [1 .. 1 -> 1 .. 0 + 1] /\ c \in [1 .. 1 -> 0 .. 0] BY <1>1
<1>4. \A i \in 1 .. 1 : i = 1 /\ b[i] = 1 /\ c[i] = 0 BY <1>1
<1>5. /\ 1 \in Nat \ {0} /\ b[1] = 1 /\ c[1] = 0 /\ DOMAIN <<>> = 1 .. 0
      /\ \A i \in 1 .. 1 : /\ b[i] <= c[i] + 1 /\ << <<>> >>[i] = SubSeq(<<>>, b[i], c[i])
                           /\ \A j \in b[i] .. c[i] : <<>>[j] \in inner
      /\ \A i \in 1 .. 1 : i # 1 => FALSE
      /\ \A p \in 1 .. 0 : FALSE
      /\ \A i, j \in 1 .. 1 : i < j => FALSE
  BY <1>1, <1>2
<1>6. Delimits(<<>>, inner, << <<>> >>, b, c) BY <1>2, <1>3, <1>5, Zenon DEF Delimits
<1> QED BY <1>6

\* A part of a sequence that got longer.
LEMMA SubSeqOfMore ==
    ASSUME NEW A, NEW s \in Seq(A), NEW e \in A, NEW p \in 1 .. Len(s) + 1, NEW q \in 0 .. Len(s)
    PROVE  /\ SubSeq(Append(s, e), p, q) = SubSeq(s, p, q)
           /\ Append(SubSeq(s, p, Len(s)), e) = SubSeq(Append(s, e), p, Len(s) + 1)
<1>1. PICK w \in Seq(A) : w = Append(s, e)
  <2>1. Append(s, e) \in Seq(A) OBVIOUS
  <2> QED BY <2>1, Zenon
<1>2. Len(s) \in Nat /\ Len(w) = Len(s) + 1 /\ (\A i \in 1 .. Len(s) : w[i] = s[i]) /\ w[Len(s) + 1] = e
  BY <1>1
<1>3. SubSeq(w, p, q) = SubSeq(s, p, q)
  <2>1. SubSeq(w, p, q) = [i \in 1 .. (q - p + 1) |-> w[i + p - 1]] OBVIOUS
  <2>2. SubSeq(s, p, q) = [i \in 1 .. (q - p + 1) |-> s[i + p - 1]] OBVIOUS
  <2>3. \A i \in 1 .. (q - p + 1) : w[i + p - 1] = s[i + p - 1] BY <1>2
  <2> QED BY <2>1, <2>2, <2>3
<1>4. Append(SubSeq(s, p, Len(s)), e) = SubSeq(w, p, Len(s) + 1)
  <2>1. PICK t \in Seq(A) : t = SubSeq(s, p, Len(s))
    <3>1. SubSeq(s, p, Len(s)) \in Seq(A) OBVIOUS
    <3> QED BY <3>1, Zenon
  <2>2. Len(t) = Len(s) - p + 1 /\ \A i \in 1 .. Len(t) : t[i] = s[i + p - 1] BY <1>2, <2>1
  <2>3. PICK u \in Seq(A) : u = SubSeq(w, p, Len(s) + 1)
    <3>1. SubSeq(w, p, Len(s) + 1) \in Seq(A) BY <1>2
    <3> QED BY <3>1, Zenon
  <2>4. Len(u) = Len(s) + 1 - p + 1 /\ \A i \in 1 .. Len(u) : u[i] = w[i + p - 1] BY <1>2, <2>3
  <2>5. PICK v \in Seq(A) : v = Append(t, e)
    <3>1. Append(t, e) \in Seq(A) OBVIOUS
    <3> QED BY <3>1, Zenon
  <2>6. Len(v) = Len(t) + 1 /\ (\A i \in 1 .. Len(t) : v[i] = t[i]) /\ v[Len(t) + 1] = e BY <2>5
  <2>7. Len(v) = Len(u) BY <1>2, <2>2, <2>4, <2>6
  <2>8. ASSUME NEW i \in 1 .. Len(v) PROVE v[i] = u[i]
    <3>1. CASE i = Len(t) + 1
      <4>1. i + p - 1 = Len(s) + 1 BY <1>2, <2>2, <3>1
      <4> QED BY <1>2, <2>4, <2>6, <2>7, <3>1, <4>1
    <3>2. CASE i # Len(t) + 1
      <4>1. i \in 1 .. Len(t) /\ i + p - 1 \in 1 .. Len(s)
        <5>1. PICK L, m : L = Len(s) /\ m = Len(t) OBVIOUS
        <5>2. L \in Nat /\ m \in Nat /\ m = L - p + 1 /\ p \in 1 .. L + 1 /\ i \in 1 .. m + 1 /\ i # m + 1
          BY <1>2, <2>2, <2>6, <3>2, <5>1
        <5> QED BY <5>1, <5>2
      <4> QED BY <1>2, <2>2, <2>4, <2>6, <2>7, <4>1
    <3> QED BY <3>1, <3>2
  <2>9. v = u BY <2>7, <2>8
  <2> QED BY <2>1, <2>3, <2>5, <2>9
<1> QED BY <1>1, <1>3, <1>4

\* One more symbol.
LEMMA DelimitsMore ==
    ASSUME NEW s \in Seq(Symbols), NEW e \in Symbols, NEW runs \in Seq(Seq(Symbols)), NEW b, NEW c,
           NEW inner, Delimits(s, inner, runs, b, c)
    PROVE  \E d, f : Delimits(Append(s, e), inner, Grown(runs, e, inner), d, f)
<1>1. PICK w \in Seq(Symbols) : w = Append(s, e)
  <2>1. Append(s, e) \in Seq(Symbols) OBVIOUS
  <2> QED BY <2>1, Zenon
<1>2. PICK L \in Nat, n \in Nat \ {0} : L = Len(s) /\ n = Len(runs) BY DEF Delimits
<1>3. Len(w) = L + 1 /\ (\A i \in 1 .. L : w[i] = s[i]) /\ w[L + 1] = e /\ DOMAIN s = 1 .. L /\ DOMAIN w = 1 .. L + 1
  BY <1>1, <1>2
<1>4. b \in [1 .. n -> 1 .. L + 1] /\ c \in [1 .. n -> 0 .. L] /\ b[1] = 1 /\ c[n] = L
  BY <1>2 DEF Delimits
<1>5. \A i \in 1 .. n : b[i] \in 1 .. L + 1 /\ c[i] \in 0 .. L /\ b[i] <= c[i] + 1
                         /\ runs[i] = SubSeq(s, b[i], c[i])
  BY <1>2, <1>4 DEF Delimits
<1>6. \A i \in 1 .. n : \A j \in b[i] .. c[i] : j \in 1 .. L /\ s[j] \in inner
  <2>1. \A i \in 1 .. n : \A j \in b[i] .. c[i] : s[j] \in inner BY <1>2 DEF Delimits
  <2> QED BY <1>5, <2>1
<1>7. \A i \in 1 .. n : i # n => c[i] + 1 \in 1 .. L /\ s[c[i] + 1] \notin inner /\ b[i + 1] = c[i] + 2
  BY <1>2, <1>3 DEF Delimits
<1>8. \A p \in 1 .. L : \E i \in 1 .. n : b[i] <= p /\ p <= c[i] + 1 BY <1>2 DEF Delimits
<1>9. \A i, j \in 1 .. n : i < j => b[i] < b[j] BY <1>2 DEF Delimits
<1>10. \A p \in 1 .. L + 1, q \in 0 .. L :
          SubSeq(w, p, q) = SubSeq(s, p, q) /\ Append(SubSeq(s, p, L), e) = SubSeq(w, p, L + 1)
  BY <1>1, <1>2, SubSeqOfMore
<1>11. CASE e \in inner
  <2>1. Grown(runs, e, inner) = [runs EXCEPT ![n] = Append(@, e)] BY <1>2, <1>11 DEF Grown
  <2>2. PICK all \in Seq(Seq(Symbols)) : all = Grown(runs, e, inner)
    <3>1. n \in DOMAIN runs /\ runs[n] \in Seq(Symbols) BY <1>2
    <3>2. Append(runs[n], e) \in Seq(Symbols) BY <3>1
    <3>3. [runs EXCEPT ![n] = Append(@, e)] \in Seq(Seq(Symbols)) BY <3>1, <3>2
    <3> QED BY <2>1, <3>3
  <2>3. Len(all) = n /\ all[n] = Append(runs[n], e) /\ \A i \in 1 .. n : i # n => all[i] = runs[i]
    BY <1>2, <2>1, <2>2
  <2>4. PICK f : f = [c EXCEPT ![n] = L + 1] OBVIOUS
  <2>5. f \in [1 .. n -> 0 .. L + 1] /\ f[n] = L + 1 /\ \A i \in 1 .. n : i # n => f[i] = c[i]
    BY <1>4, <2>4
  <2>6. b \in [1 .. n -> 1 .. (L + 1) + 1] BY <1>4
  <2>7. ASSUME NEW i \in 1 .. n
        PROVE  /\ b[i] <= f[i] + 1 /\ all[i] = SubSeq(w, b[i], f[i])
               /\ \A j \in b[i] .. f[i] : w[j] \in inner
    <3>1. CASE i = n
      <4>1. n \in 1 .. n /\ 0 \in 0 .. L OBVIOUS
      <4>2. all[n] = SubSeq(w, b[n], L + 1)
        <5>1. b[n] \in 1 .. L + 1 /\ runs[n] = SubSeq(s, b[n], L) BY <1>4, <1>5, <4>1, Zenon
        <5> QED BY <1>10, <2>3, <4>1, <5>1, Zenon
      <4>3. \A j \in b[n] .. L + 1 : w[j] \in inner
        <5>1. \A j \in b[n] .. L : w[j] \in inner
          <6>1. \A j \in b[n] .. L : j \in 1 .. L /\ s[j] \in inner BY <1>4, <1>6, <4>1, Zenon
          <6> QED BY <1>3, <6>1
        <5>2. b[n] \in Nat BY <1>5
        <5> QED BY <1>3, <1>11, <5>1, <5>2
      <4>4. b[n] \in 1 .. L + 1 /\ f[n] = L + 1 BY <1>5, <2>5, <4>1
      <4>5. b[n] <= f[n] + 1 BY <4>4
      <4> QED BY <2>5, <3>1, <4>2, <4>3, <4>5
    <3>2. CASE i # n
      <4>1. f[i] = c[i] /\ all[i] = runs[i] /\ c[i] \in 0 .. L BY <1>5, <2>3, <2>5, <3>2
      <4>2. b[i] \in 1 .. L + 1 BY <1>5
      <4>3. all[i] = SubSeq(w, b[i], f[i]) BY <1>5, <1>10, <4>1, <4>2, Zenon
      <4>4. \A j \in b[i] .. f[i] : w[j] \in inner BY <1>3, <1>6, <4>1
      <4> QED BY <1>5, <4>1, <4>3, <4>4
    <3> QED BY <3>1, <3>2
  <2>8. ASSUME NEW i \in 1 .. n, i # n
        PROVE  f[i] + 1 \in 1 .. L + 1 /\ w[f[i] + 1] \notin inner /\ b[i + 1] = f[i] + 2
    <3>1. f[i] = c[i] /\ c[i] + 1 \in 1 .. L /\ s[c[i] + 1] \notin inner /\ b[i + 1] = c[i] + 2
      BY <1>7, <2>5, <2>8
    <3> QED BY <1>3, <3>1
  <2>9. \A p \in 1 .. L + 1 : \E i \in 1 .. n : b[i] <= p /\ p <= f[i] + 1
    <3> SUFFICES ASSUME NEW p \in 1 .. L + 1 PROVE \E i \in 1 .. n : b[i] <= p /\ p <= f[i] + 1
      OBVIOUS
    <3>1. CASE p = L + 1
      <4>1. n \in 1 .. n /\ b[n] <= L + 1 BY <1>5
      <4> QED BY <2>5, <3>1, <4>1
    <3>2. CASE p # L + 1
      <4>0. p \in 1 .. L BY <3>2
      <4>1. PICK i \in 1 .. n : b[i] <= p /\ p <= c[i] + 1 BY <1>8, <4>0, Zenon
      <4>2. c[i] \in 0 .. L /\ b[i] \in 1 .. L + 1 BY <1>5
      <4>3. CASE i = n BY <2>5, <4>1, <4>2, <4>3
      <4>4. CASE i # n BY <2>5, <4>1, <4>2, <4>4
      <4> QED BY <4>3, <4>4
    <3> QED BY <3>1, <3>2
  <2>10. Delimits(w, inner, all, b, f)
    <3>1. PICK K : K = L + 1 OBVIOUS
    <3>2. /\ b \in [1 .. n -> 1 .. K + 1] /\ f \in [1 .. n -> 0 .. K] /\ f[n] = K
          /\ \A i \in 1 .. n : i # n => f[i] + 1 \in 1 .. K /\ w[f[i] + 1] \notin inner /\ b[i + 1] = f[i] + 2
          /\ \A p \in 1 .. K : \E i \in 1 .. n : b[i] <= p /\ p <= f[i] + 1
      BY <2>5, <2>6, <2>8, <2>9, <3>1, Zenon
    <3>3. DOMAIN w = 1 .. K /\ Len(w) = K BY <1>3, <3>1
    <3> QED BY <1>4, <1>9, <2>3, <2>7, <3>2, <3>3, Zenon DEF Delimits
  <2> QED BY <1>1, <2>2, <2>10
<1>12. CASE e \notin inner
  <2>1. Grown(runs, e, inner) = Append(runs, <<>>) BY <1>12 DEF Grown
  <2>2. PICK all \in Seq(Seq(Symbols)) : all = Grown(runs, e, inner)
    <3>1. <<>> \in Seq(Symbols) OBVIOUS
    <3>2. Append(runs, <<>>) \in Seq(Seq(Symbols)) BY <3>1
    <3> QED BY <2>1, <3>2
  <2>3. Len(all) = n + 1 /\ all[n + 1] = <<>> /\ \A i \in 1 .. n : all[i] = runs[i]
    <3>1. <<>> \in Seq(Symbols) OBVIOUS
    <3> QED BY <1>2, <2>1, <2>2, <3>1
  <2>4. PICK d, f : /\ d = [i \in 1 .. n + 1 |-> IF i = n + 1 THEN L + 2 ELSE b[i]]
                    /\ f = [i \in 1 .. n + 1 |-> IF i = n + 1 THEN L + 1 ELSE c[i]]
    OBVIOUS
  <2>5. /\ d[n + 1] = L + 2 /\ f[n + 1] = L + 1
        /\ \A i \in 1 .. n : d[i] = b[i] /\ f[i] = c[i] /\ i \in 1 .. n + 1 /\ i # n + 1
        /\ \A i \in 1 .. n + 1 : i # n + 1 => i \in 1 .. n
    BY <2>4
  <2>6. d \in [1 .. n + 1 -> 1 .. (L + 1) + 1] /\ f \in [1 .. n + 1 -> 0 .. L + 1]
    BY <1>5, <2>4, SMTT(20)
  <2>7. ASSUME NEW i \in 1 .. n + 1
        PROVE  /\ d[i] <= f[i] + 1 /\ all[i] = SubSeq(w, d[i], f[i])
               /\ \A j \in d[i] .. f[i] : w[j] \in inner
    <3>1. CASE i = n + 1
      <4>1. SubSeq(w, L + 2, L + 1) = <<>> BY <1>3
      <4>2. d[i] = L + 2 /\ f[i] = L + 1 /\ all[i] = <<>> BY <2>3, <2>5, <3>1
      <4>3. d[i] <= f[i] + 1 /\ d[i] .. f[i] = {} BY <4>2
      <4> QED BY <4>1, <4>2, <4>3, Zenon
    <3>2. CASE i # n + 1
      <4>1. i \in 1 .. n /\ d[i] = b[i] /\ f[i] = c[i] /\ all[i] = runs[i] /\ c[i] \in 0 .. L
        BY <1>5, <2>3, <2>5, <3>2
      <4>2. b[i] \in 1 .. L + 1 BY <1>5, <4>1
      <4>3. all[i] = SubSeq(w, d[i], f[i]) BY <1>5, <1>10, <4>1, <4>2, Zenon
      <4>4. \A j \in d[i] .. f[i] : w[j] \in inner BY <1>3, <1>6, <4>1
      <4> QED BY <1>5, <4>1, <4>3, <4>4
    <3> QED BY <3>1, <3>2
  <2>8. ASSUME NEW i \in 1 .. n + 1, i # n + 1
        PROVE  f[i] + 1 \in 1 .. L + 1 /\ w[f[i] + 1] \notin inner /\ d[i + 1] = f[i] + 2
    <3>1. i \in 1 .. n /\ f[i] = c[i] BY <2>5, <2>8
    <3>2. CASE i = n BY <1>3, <1>4, <1>12, <2>5, <3>1, <3>2
    <3>3. CASE i # n
      <4>1. c[i] + 1 \in 1 .. L /\ s[c[i] + 1] \notin inner /\ b[i + 1] = c[i] + 2 BY <1>7, <3>1, <3>3
      <4>2. i + 1 \in 1 .. n BY <3>1, <3>3
      <4> QED BY <1>3, <2>5, <3>1, <4>1, <4>2
    <3> QED BY <3>2, <3>3
  <2>9. \A p \in 1 .. L + 1 : \E i \in 1 .. n + 1 : d[i] <= p /\ p <= f[i] + 1
    <3> SUFFICES ASSUME NEW p \in 1 .. L + 1 PROVE \E i \in 1 .. n + 1 : d[i] <= p /\ p <= f[i] + 1
      OBVIOUS
    <3>1. CASE p = L + 1
      <4>1. n \in 1 .. n /\ b[n] <= L + 1 /\ c[n] = L BY <1>4, <1>5
      <4> QED BY <2>5, <3>1, <4>1
    <3>2. CASE p # L + 1
      <4>0. p \in 1 .. L BY <3>2
      <4>1. PICK i \in 1 .. n : b[i] <= p /\ p <= c[i] + 1 BY <1>8, <4>0, Zenon
      <4> QED BY <2>5, <4>1, Zenon
    <3> QED BY <3>1, <3>2
  <2>10. ASSUME NEW i \in 1 .. n + 1, NEW j \in 1 .. n + 1, i < j PROVE d[i] < d[j]
    <3>1. i \in 1 .. n /\ d[i] = b[i] /\ b[i] \in 1 .. L + 1 BY <1>5, <2>5, <2>10
    <3>2. CASE j = n + 1 BY <2>5, <3>1, <3>2
    <3>3. CASE j # n + 1 BY <1>9, <2>5, <2>10, <3>1, <3>3
    <3> QED BY <3>2, <3>3
  <2>11. d[1] = 1 BY <1>4, <2>5
  <2>12. n + 1 \in Nat \ {0} OBVIOUS
  <2>13. Delimits(w, inner, all, d, f)
    <3>1. PICK K, m : K = L + 1 /\ m = n + 1 OBVIOUS
    <3>2. /\ d \in [1 .. m -> 1 .. K + 1] /\ f \in [1 .. m -> 0 .. K] /\ f[m] = K
          /\ \A i \in 1 .. m : i # m => f[i] + 1 \in 1 .. K /\ w[f[i] + 1] \notin inner /\ d[i + 1] = f[i] + 2
          /\ \A p \in 1 .. K : \E i \in 1 .. m : d[i] <= p /\ p <= f[i] + 1
      BY <2>5, <2>6, <2>8, <2>9, <3>1, Zenon
    <3>3. /\ \A i \in 1 .. m : /\ d[i] <= f[i] + 1 /\ all[i] = SubSeq(w, d[i], f[i])
                               /\ \A j \in d[i] .. f[i] : w[j] \in inner
          /\ \A i, j \in 1 .. m : i < j => d[i] < d[j]
      BY <2>7, <2>10, <3>1, Zenon
    <3>4. DOMAIN w = 1 .. K /\ Len(w) = K /\ Len(all) = m /\ m \in Nat \ {0}
      BY <1>3, <2>3, <3>1
    <3> QED BY <2>11, <3>2, <3>3, <3>4, Zenon DEF Delimits
  <2> QED BY <1>1, <2>2, <2>13
<1> QED BY <1>11, <1>12

\* The runs of a text as sequences of symbols.
LEMMA RunsType ==
    ASSUME NEW text \in Seq(Symbols), NEW inner PROVE Split(text, inner) \in Seq(Seq(Symbols)) \ {<<>>}
<1>1. PICK R : R = Symbols \cap inner OBVIOUS
<1>2. R \subseteq Symbols /\ Split(text, inner) \in Seq(Seq(R)) \ {<<>>} BY <1>1, SplitSteps, Zenon
<1> QED BY <1>2

\* Every text has such positions.
LEMMA RunsHavePositions ==
    ASSUME NEW text \in Seq(Symbols), NEW inner PROVE \E b, c : Delimits(text, inner, Split(text, inner), b, c)
<1> DEFINE P == {s \in Seq(Symbols) : \E b, c : Delimits(s, inner, Split(s, inner), b, c)}
<1>1. <<>> \in P
  <2>1. <<>> \in Seq(Symbols) OBVIOUS
  <2>2. Split(<<>>, inner) = << <<>> >> BY SplitSteps
  <2> QED BY <2>1, <2>2, DelimitsNothing
<1>2. ASSUME NEW s \in Seq(Symbols), NEW e \in Symbols, s \in P PROVE Append(s, e) \in P
  <2>1. Append(s, e) \in Seq(Symbols) OBVIOUS
  <2>2. Split(Append(s, e), inner) = Grown(Split(s, inner), e, inner) BY SplitSteps
  <2>3. PICK runs \in Seq(Seq(Symbols)) : runs = Split(s, inner) BY RunsType
  <2>4. PICK b, c : Delimits(s, inner, runs, b, c) BY <1>2, <2>3
  <2>5. \E d, f : Delimits(Append(s, e), inner, Grown(runs, e, inner), d, f) BY <2>4, DelimitsMore
  <2> QED BY <2>1, <2>2, <2>3, <2>5
<1> HIDE DEF P
<1>3. \A s \in Seq(Symbols) : s \in P BY <1>1, <1>2, InductionOnSeq
<1> QED BY <1>3 DEF P

\* The positions of the runs that begin within the text are its spans.
RunSpans(text, inner, runs, h) ==
    /\ DOMAIN h = DOMAIN runs
    /\ \A i \in DOMAIN runs : runs[i] = At(text, h[i]) /\ (runs[i] = <<>> <=> h[i][2] < h[i][1])
    /\ \A i \in DOMAIN runs : h[i] \in SpansOf(text, inner)
                              \/ (i = Len(runs) /\ runs[i] = <<>>)
    /\ runs[Len(runs)] = <<>> => h[Len(runs)][1] = Len(text) + 1
    /\ \A span \in SpansOf(text, inner) : \E i \in DOMAIN runs : h[i] = span
    /\ \A i, j \in DOMAIN runs : h[i] = h[j] => i = j
    /\ \A p \in DOMAIN text : \E i \in DOMAIN runs : h[i][1] <= p /\ p <= h[i][2] + 1
\* A text's runs have such positions.
LEMMA RunsAreSpans ==
    ASSUME NEW text \in Seq(Symbols), NEW inner,
           NEW runs \in Seq(Seq(Symbols)), runs = Split(text, inner), runs # <<>>
    PROVE  \E h : RunSpans(text, inner, runs, h)
<1>2. PICK b, c : Delimits(text, inner, runs, b, c) BY RunsHavePositions
<1>3. PICK L \in Nat, n \in Nat \ {0} : L = Len(text) /\ n = Len(runs) /\ DOMAIN text = 1 .. L /\ DOMAIN runs = 1 .. n
  BY <1>2 DEF Delimits
<1>4. /\ b[1] = 1 /\ c[n] = L
      /\ \A i \in 1 .. n : b[i] \in 1 .. L + 1 /\ c[i] \in 0 .. L
      /\ \A i \in 1 .. n : b[i] <= c[i] + 1 /\ runs[i] = SubSeq(text, b[i], c[i])
  BY <1>2, <1>3 DEF Delimits
<1>5. \A i \in 1 .. n : \A j \in b[i] .. c[i] : text[j] \in inner BY <1>2, <1>3 DEF Delimits
<1>6. \A i \in 1 .. n : i # n => c[i] + 1 \in 1 .. L /\ text[c[i] + 1] \notin inner /\ b[i + 1] = c[i] + 2
  BY <1>2, <1>3 DEF Delimits
<1>7. \A p \in 1 .. L : \E i \in 1 .. n : b[i] <= p /\ p <= c[i] + 1 BY <1>2, <1>3 DEF Delimits
<1>8. \A i, j \in 1 .. n : i < j => b[i] < b[j] BY <1>2, <1>3 DEF Delimits
<1>11. ASSUME NEW i \in 1 .. n PROVE runs[i] = <<>> <=> c[i] < b[i]
  <2>2. b[i] \in 1 .. L + 1 /\ c[i] \in 0 .. L /\ b[i] <= c[i] + 1 /\ runs[i] = SubSeq(text, b[i], c[i])
    BY <1>4
  <2>3. Len(SubSeq(text, b[i], c[i])) = c[i] - b[i] + 1 BY <1>3, <2>2
  <2>4. runs[i] = <<>> <=> Len(runs[i]) = 0
    <3>1. PICK run \in Seq(Symbols) : run = runs[i]
      <4>1. PICK A : A = Seq(Symbols) OBVIOUS
      <4>2. runs \in Seq(A) /\ i \in DOMAIN runs BY <1>3, <4>1
      <4>3. runs[i] \in A BY <4>2
      <4> QED BY <4>1, <4>3, Zenon
    <3>2. run = <<>> <=> Len(run) = 0 OBVIOUS
    <3> QED BY <3>1, <3>2, Zenon
  <2>5. PICK x, y \in Int : x = b[i] /\ y = c[i] BY <2>2
  <2>6. Len(runs[i]) = y - x + 1 /\ x <= y + 1 BY <2>2, <2>3, <2>5, Zenon
  <2>7. y - x + 1 = 0 <=> y < x
    <3>1. x <= y + 1 BY <2>6
    <3> QED BY <3>1
  <2> QED BY <2>4, <2>5, <2>6, <2>7, Zenon
<1>12. ASSUME NEW i \in 1 .. n, b[i] # L + 1 PROVE <<b[i], c[i]>> \in SpansOf(text, inner)
  <2>1. i \in 1 .. n /\ b[i] \in 1 .. L + 1 /\ c[i] \in 0 .. L /\ b[i] <= c[i] + 1 BY <1>4
  <2>2. b[i] \in 1 .. L BY <1>12, <2>1
  <2>3. \A j \in b[i] .. c[i] : text[j] \in inner BY <1>5, <2>1
  <2>4. b[i] > 1 => text[b[i] - 1] \notin inner
    <3> SUFFICES ASSUME b[i] > 1 PROVE text[b[i] - 1] \notin inner OBVIOUS
    <3>1. i # 1 BY <1>4
    <3>2. i - 1 \in 1 .. n /\ i - 1 # n /\ (i - 1) + 1 = i BY <2>1, <3>1
    <3>3. text[c[i - 1] + 1] \notin inner /\ b[i] = c[i - 1] + 2 /\ c[i - 1] \in 0 .. L
      BY <1>4, <1>6, <3>2
    <3>4. b[i] - 1 = c[i - 1] + 1 BY <3>3
    <3> QED BY <3>3, <3>4
  <2>5. c[i] < L => text[c[i] + 1] \notin inner
    <3> SUFFICES ASSUME c[i] < L PROVE text[c[i] + 1] \notin inner OBVIOUS
    <3>1. i # n BY <1>4
    <3> QED BY <1>6, <2>1, <3>1
  <2>6. PICK span \in (DOMAIN text) \X (0 .. Len(text)) :
          span = <<b[i], c[i]>> /\ span[1] = b[i] /\ span[2] = c[i]
    <3>1. <<b[i], c[i]>> \in (1 .. L) \X (0 .. L) BY <2>1, <2>2
    <3>2. <<b[i], c[i]>>[1] = b[i] /\ <<b[i], c[i]>>[2] = c[i] OBVIOUS
    <3> QED BY <1>3, <3>1, <3>2, Zenon
  <2>7. span \in SpansOf(text, inner)
    BY <1>3, <2>1, <2>3, <2>4, <2>5, <2>6 DEF SpansOf
  <2> QED BY <2>6, <2>7
<1>13. ASSUME NEW span \in SpansOf(text, inner) PROVE \E i \in 1 .. n : span = <<b[i], c[i]>>
  <2>1. PICK p \in 1 .. L, q \in 0 .. L : span = <<p, q>> BY <1>3 DEF SpansOf
  <2>2. /\ p <= q + 1 /\ (\A i \in p .. q : text[i] \in inner)
        /\ p > 1 => text[p - 1] \notin inner
        /\ q < L => text[q + 1] \notin inner
    <3>1. /\ span[1] <= span[2] + 1 /\ (\A i \in span[1] .. span[2] : text[i] \in inner)
          /\ span[1] > 1 => text[span[1] - 1] \notin inner
          /\ span[2] < Len(text) => text[span[2] + 1] \notin inner
      BY DEF SpansOf
    <3>2. span[1] = p /\ span[2] = q BY <2>1
    <3> QED BY <1>3, <3>1, <3>2
  <2>3. PICK i \in 1 .. n : b[i] <= p /\ p <= c[i] + 1 BY <1>7
  <2>4. b[i] \in 1 .. L + 1 /\ c[i] \in 0 .. L BY <1>4
  <2>5. b[i] = p
    <3> SUFFICES ASSUME b[i] < p PROVE FALSE BY <2>3, <2>4
    <3>1. p - 1 \in b[i] .. c[i] /\ p > 1
      <4>1. PICK x \in 1 .. L + 1, y \in 0 .. L : x = b[i] /\ y = c[i] BY <2>4, Zenon
      <4>2. x < p /\ p <= y + 1 BY <2>3, <4>1, Zenon
      <4>3. p - 1 \in x .. y /\ p > 1 BY <4>2
      <4> QED BY <4>1, <4>3, Zenon
    <3> QED BY <1>5, <2>2, <3>1
  <2>6. ~(q < c[i])
    <3> SUFFICES ASSUME q < c[i] PROVE FALSE OBVIOUS
    <3>1. q + 1 \in b[i] .. c[i] /\ q < L BY <2>2, <2>4, <2>5
    <3> QED BY <1>5, <2>2, <3>1
  <2>7. ~(c[i] < q)
    <3> SUFFICES ASSUME c[i] < q PROVE FALSE OBVIOUS
    <3>1. c[i] + 1 \in p .. q
      <4>1. PICK y \in Int : y = c[i] BY <2>4
      <4>2. p <= y + 1 /\ y < q BY <2>3, <4>1, Zenon
      <4>3. y + 1 \in p .. q BY <4>2
      <4> QED BY <4>1, <4>3, Zenon
    <3>2. i # n
      <4> SUFFICES ASSUME i = n PROVE FALSE OBVIOUS
      <4>1. c[i] = L BY <1>4
      <4> QED BY <4>1
    <3> QED BY <1>6, <2>2, <3>1, <3>2
  <2>8. q = c[i] BY <2>4, <2>6, <2>7
  <2> QED BY <2>1, <2>5, <2>8
<1>14. PICK h : h = [i \in 1 .. n |-> <<b[i], c[i]>>] OBVIOUS
<1>15. DOMAIN h = 1 .. n /\ \A i \in 1 .. n : h[i] = <<b[i], c[i]>> /\ h[i][1] = b[i] /\ h[i][2] = c[i] BY <1>14
<1>16. \A i \in 1 .. n : runs[i] = At(text, h[i]) /\ (runs[i] = <<>> <=> h[i][2] < h[i][1])
  BY <1>4, <1>11, <1>15 DEF At
<1>17. ASSUME NEW i \in 1 .. n, NEW j \in 1 .. n, h[i] = h[j] PROVE i = j
  <2>1. b[i] = b[j] /\ b[i] \in 1 .. L + 1 BY <1>4, <1>15, <1>17
  <2>3. ~(i < j) /\ ~(j < i) BY <1>8, <2>1
  <2> QED BY <2>3
<1>18. ASSUME NEW span \in SpansOf(text, inner) PROVE \E i \in 1 .. n : h[i] = span
  <2>1. PICK i \in 1 .. n : span = <<b[i], c[i]>> BY <1>13
  <2> QED BY <1>15, <2>1
<1>19. ASSUME NEW i \in 1 .. n
       PROVE  h[i] \in SpansOf(text, inner) \/ (i = n /\ runs[i] = <<>>)
  <2>1. CASE b[i] = L + 1
    <3>1. c[i] \in 0 .. L /\ c[i] < b[i] BY <1>4, <2>1
    <3>2. i = n
      <4> SUFFICES ASSUME i # n PROVE FALSE OBVIOUS
      <4>1. c[i] + 1 \in 1 .. L /\ b[i] <= c[i] + 1 BY <1>4, <1>6
      <4> QED BY <2>1, <4>1
    <3> QED BY <1>11, <1>15, <2>1, <3>1, <3>2
  <2>2. CASE b[i] # L + 1 BY <1>12, <1>15, <2>2
  <2> QED BY <2>1, <2>2
<1>20. runs[n] = <<>> => h[n][1] = L + 1
  <2>1. n \in 1 .. n OBVIOUS
  <2>2. c[n] = L /\ b[n] \in 1 .. L + 1 /\ h[n][1] = b[n] BY <1>4, <1>15, <2>1
  <2>3. runs[n] = <<>> => c[n] < b[n] BY <1>11, <2>1
  <2>4. L < b[n] => b[n] = L + 1 BY <2>2
  <2> QED BY <2>2, <2>3, <2>4
<1>21. ASSUME NEW p \in 1 .. L PROVE \E i \in 1 .. n : h[i][1] <= p /\ p <= h[i][2] + 1
  <2>1. PICK i \in 1 .. n : b[i] <= p /\ p <= c[i] + 1 BY <1>7
  <2> QED BY <1>15, <2>1
<1>22. RunSpans(text, inner, runs, h)
  BY <1>3, <1>15, <1>16, <1>17, <1>18, <1>19, <1>20, <1>21, Zenon DEF RunSpans
<1> QED BY <1>22

\* The lines of a text are the parts of it between newlines, each once.
LEMMA LinesAreSpans ==
    ASSUME NEW text \in Seq(Symbols), NEW lines, lines = LinesOf(text)
    PROVE  \E h \in Bijection(DOMAIN lines, LineSpans(text)) :
             \A i \in DOMAIN lines : lines[i] = At(text, h[i])
<1>1. PICK runs \in Seq(Seq(Symbols)) : runs = Split(text, Inner) /\ runs # <<>> BY RunsType
<1>2. PICK g : RunSpans(text, Inner, runs, g) BY <1>1, RunsAreSpans
<1>3. PICK n \in Nat \ {0}, L \in Nat : n = Len(runs) /\ DOMAIN runs = 1 .. n /\ L = Len(text) /\ DOMAIN text = 1 .. L
  BY <1>1
<1>4. LineSpans(text) = SpansOf(text, Inner) BY DEF LineSpans, Inner
<1>5. /\ \A i \in 1 .. n : runs[i] = At(text, g[i]) /\ (runs[i] = <<>> <=> g[i][2] < g[i][1])
      /\ \A i \in 1 .. n : g[i] \in LineSpans(text) \/ (i = n /\ runs[i] = <<>>)
      /\ runs[n] = <<>> => g[n][1] = L + 1
      /\ \A span \in LineSpans(text) : \E i \in 1 .. n : g[i] = span
      /\ \A i, j \in 1 .. n : g[i] = g[j] => i = j
  <2>1. \A i \in 1 .. n : runs[i] = At(text, g[i]) /\ (runs[i] = <<>> <=> g[i][2] < g[i][1])
    BY <1>2, <1>3, Zenon DEF RunSpans
  <2>2. \A i \in 1 .. n : g[i] \in LineSpans(text) \/ (i = n /\ runs[i] = <<>>)
    <3>1. \A i \in DOMAIN runs : g[i] \in SpansOf(text, Inner) \/ (i = Len(runs) /\ runs[i] = <<>>)
      BY <1>2 DEF RunSpans
    <3> QED BY <1>3, <1>4, <3>1
  <2>3. runs[n] = <<>> => g[n][1] = L + 1 BY <1>2, <1>3, Zenon DEF RunSpans
  <2>4. \A span \in LineSpans(text) : \E i \in 1 .. n : g[i] = span
    BY <1>2, <1>3, <1>4, Zenon DEF RunSpans
  <2>5. \A i, j \in 1 .. n : g[i] = g[j] => i = j BY <1>2, <1>3, Zenon DEF RunSpans
  <2> QED BY <2>1, <2>2, <2>3, <2>4, <2>5
<1>6. PICK m \in Nat : /\ DOMAIN lines = 1 .. m /\ m <= n
                       /\ \A i \in 1 .. m : lines[i] = runs[i]
                       /\ m = IF runs[n] = <<>> THEN n - 1 ELSE n
  <2>1. lines = IF runs[n] = <<>> THEN SubSeq(runs, 1, n - 1) ELSE runs
    BY <1>1, <1>3, Zenon DEF LinesOf, Last, Front, Inner
  <2>2. CASE runs[n] = <<>>
    <3>1. PICK part \in Seq(Seq(Symbols)) : part = SubSeq(runs, 1, n - 1)
      <4>1. n - 1 \in Nat /\ n - 1 <= Len(runs) BY <1>3
      <4>2. SubSeq(runs, 1, n - 1) \in Seq(Seq(Symbols)) BY <4>1
      <4> QED BY <4>2, Zenon
    <3>2. n - 1 \in Nat /\ Len(part) = n - 1 /\ \A i \in 1 .. n - 1 : part[i] = runs[i] BY <1>3, <3>1
    <3>3. DOMAIN part = 1 .. n - 1 /\ n - 1 <= n BY <3>2
    <3>4. part = lines BY <2>1, <2>2, <3>1
    <3>5. n - 1 = IF runs[n] = <<>> THEN n - 1 ELSE n BY <2>2
    <3>6. PICK m : m = n - 1 OBVIOUS
    <3> QED BY <3>2, <3>3, <3>4, <3>5, <3>6, Zenon
  <2>3. CASE runs[n] # <<>>
    <3>1. DOMAIN runs = 1 .. n BY <1>3
    <3> QED BY <2>1, <2>3, <3>1
  <2> QED BY <2>2, <2>3
<1>7. \A i \in 1 .. m : i \in 1 .. n BY <1>6
<1>8. ASSUME NEW i \in 1 .. m PROVE g[i] \in LineSpans(text)
  <2>1. i \in 1 .. n BY <1>6
  <2>2. ~(i = n /\ runs[i] = <<>>)
    <3> SUFFICES ASSUME i = n, runs[n] = <<>> PROVE FALSE OBVIOUS
    <3>1. m = n - 1 BY <1>6
    <3> QED BY <3>1
  <2> QED BY <1>5, <2>1, <2>2
<1>9. ASSUME NEW span \in LineSpans(text) PROVE \E i \in 1 .. m : g[i] = span
  <2>1. PICK i \in 1 .. n : g[i] = span BY <1>5
  <2>2. i \in 1 .. m
    <3>1. CASE i # n BY <1>6, <3>1
    <3>2. CASE i = n
      <4>1. PICK p \in 1 .. L, q \in 0 .. L : span = <<p, q>> BY <1>3 DEF LineSpans, SpansOf
      <4>2. span[1] # L + 1 BY <4>1
      <4>3. runs[n] # <<>>
        <5> SUFFICES ASSUME runs[n] = <<>> PROVE FALSE OBVIOUS
        <5> QED BY <1>5, <2>1, <3>2, <4>2
      <4> QED BY <1>6, <3>2, <4>3
    <3> QED BY <3>1, <3>2
  <2> QED BY <2>1, <2>2
<1>14. PICK h : h = [i \in 1 .. m |-> g[i]] OBVIOUS
<1>15. h \in [1 .. m -> LineSpans(text)] BY <1>8, <1>14
<1>16. \A i \in 1 .. m : lines[i] = At(text, h[i]) BY <1>5, <1>6, <1>7, <1>14
<1>17. \A i, j \in 1 .. m : h[i] = h[j] => i = j BY <1>5, <1>7, <1>14
<1>18. \A span \in LineSpans(text) : \E i \in 1 .. m : h[i] = span BY <1>9, <1>14
<1>19. PICK D : D = 1 .. m OBVIOUS
<1>20. DOMAIN lines = D BY <1>6, <1>19
<1>21. h \in [D -> LineSpans(text)] /\ DOMAIN h = D BY <1>15, <1>19
<1>22. IsInjective(h) BY <1>17, <1>19, <1>21 DEF IsInjective
<1>23. h \in Bijection(D, LineSpans(text))
  BY <1>18, <1>19, <1>21, <1>22, Zenon DEF Bijection, Injection, Surjection
<1>24. \A i \in D : lines[i] = At(text, h[i]) BY <1>16, <1>19
<1> QED BY <1>20, <1>23, <1>24, Zenon

-----------------------------------------------------------------------------
(* What a text is mapped to *)

Mapped(job, text) ==
    LET lines == LinesOf(text) IN FlattenSeq([i \in DOMAIN lines |-> JobMap(job, lines[i])])

\* The pairs of a text, by its lines and by the positions of its lines.
LEMMA MappedSums ==
    ASSUME NEW job \in JobNames, NEW text \in Seq(Symbols)
    PROVE  /\ Mapped(job, text) \in Seq(PairsOf(job))
           /\ \A k : SumOf(Mapped(job, text), k)
                       = Total([span \in LineSpans(text) |-> SumOf(JobMap(job, At(text, span)), k)])
           /\ KeysOf(Mapped(job, text)) = UNION {KeysOf(JobMap(job, At(text, span))) : span \in LineSpans(text)}
<1>0. PICK A \in SUBSET JobPairs : A = PairsOf(job)
  <2>1. PairsOf(job) \in SUBSET JobPairs BY DEF PairsOf
  <2> QED BY <2>1
<1>1. PICK lines \in Seq(Seq(Symbols)) : lines = LinesOf(text) BY LinesType
<1>2. PICK ss : ss = [i \in DOMAIN lines |-> JobMap(job, lines[i])] OBVIOUS
<1>3. ss \in Seq(Seq(A)) /\ DOMAIN ss = DOMAIN lines
  <2>1. \A i \in DOMAIN lines : JobMap(job, lines[i]) \in Seq(A) BY <1>0, JobMapValues
  <2>2. ss \in [DOMAIN lines -> Seq(A)] BY <1>2, <2>1
  <2>3. ss \in Seq(Seq(A)) BY <2>2, MappedSeq
  <2> QED BY <2>2, <2>3
<1>4. Mapped(job, text) = FlattenSeq(ss) BY <1>1, <1>2 DEF Mapped
<1>4a. PICK h \in Bijection(DOMAIN lines, LineSpans(text)) : \A i \in DOMAIN lines : lines[i] = At(text, h[i])
  BY <1>1, LinesAreSpans
<1>5. /\ h \in [DOMAIN lines -> LineSpans(text)]
      /\ \A i \in DOMAIN lines : lines[i] = At(text, h[i])
      /\ \A span \in LineSpans(text) : \E i \in DOMAIN lines : h[i] = span
  BY <1>4a DEF Bijection, Injection, Surjection
<1>6. IsFiniteSet(DOMAIN lines) /\ IsFiniteSet(LineSpans(text))
  <2>1. DOMAIN lines = 1 .. Len(lines) /\ Len(lines) \in Nat OBVIOUS
  <2>2. DOMAIN text = 1 .. Len(text) /\ Len(text) \in Nat OBVIOUS
  <2>3. IsFiniteSet(DOMAIN lines) /\ IsFiniteSet(DOMAIN text) /\ IsFiniteSet(0 .. Len(text))
    BY <2>1, <2>2, FS_Interval
  <2>4. IsFiniteSet((DOMAIN text) \X (0 .. Len(text))) BY <2>3, FS_Product
  <2>5. LineSpans(text) \subseteq (DOMAIN text) \X (0 .. Len(text)) BY DEF LineSpans, SpansOf
  <2> QED BY <2>3, <2>4, <2>5, FS_Subset
<1>7. ASSUME NEW k
      PROVE  SumOf(Mapped(job, text), k)
               = Total([span \in LineSpans(text) |-> SumOf(JobMap(job, At(text, span)), k)])
  <2>1. PICK f : f = [span \in LineSpans(text) |-> SumOf(JobMap(job, At(text, span)), k)] OBVIOUS
  <2>2. f \in [LineSpans(text) -> Int]
    <3> SUFFICES ASSUME NEW span \in LineSpans(text) PROVE SumOf(JobMap(job, At(text, span)), k) \in Int
      BY <2>1
    <3>1. PICK i \in DOMAIN lines : h[i] = span BY <1>5
    <3>2. At(text, span) = lines[i] BY <1>5, <3>1
    <3>3. JobMap(job, lines[i]) \in Seq(A) BY <1>0, JobMapValues
    <3>4. \A a \in A : a.value \in Nat BY <1>0, PairValues
    <3>5. SumOf(JobMap(job, lines[i]), k) \in Nat BY <3>3, <3>4, SumOfSteps
    <3> QED BY <3>2, <3>5
  <2>3. PICK e : e = [i \in DOMAIN lines |-> f[h[i]]] OBVIOUS
  <2>4. Total(e) = Total(f)
    <3>1. PICK S, R : S = DOMAIN lines /\ R = LineSpans(text) OBVIOUS
    <3>2. IsFiniteSet(S) /\ IsFiniteSet(R) BY <1>6, <3>1
    <3>3. f \in [R -> Int] BY <2>2, <3>1
    <3>4. h \in Bijection(S, R) BY <3>1
    <3>5. h \in [S -> R] BY <1>5, <3>1
    <3>6. e \in [S -> Int] BY <2>3, <3>1, <3>3, <3>5
    <3>7. e = Along(f, h) BY <2>3, <3>1, <3>5 DEF Along
    <3> QED BY <3>2, <3>3, <3>4, <3>7, SumOverBijection
  <2>5. e = [i \in DOMAIN ss |-> SumOf(ss[i], k)]
    <3>1. \A i \in DOMAIN lines : e[i] = SumOf(ss[i], k) BY <1>2, <1>5, <2>1, <2>3
    <3> QED BY <1>3, <2>3, <3>1
  <2>6. SumOf(FlattenSeq(ss), k) = Total(e) BY <1>3, <2>5, SumOfFlat
  <2> QED BY <1>4, <2>1, <2>4, <2>6
<1>8. KeysOf(FlattenSeq(ss)) = UNION {KeysOf(ss[i]) : i \in DOMAIN ss} BY <1>3, SumOfFlat
<1>9. {KeysOf(ss[i]) : i \in DOMAIN ss} = {KeysOf(JobMap(job, At(text, span))) : span \in LineSpans(text)}
  <2>1. \A i \in DOMAIN ss : ss[i] = JobMap(job, At(text, h[i])) /\ h[i] \in LineSpans(text)
    BY <1>2, <1>3, <1>5
  <2> QED BY <1>3, <1>5, <2>1
<1>10. FlattenSeq(ss) \in Seq(A) BY <1>3, FlattenSteps
<1> QED BY <1>0, <1>4, <1>7, <1>8, <1>9, <1>10, Zenon

\* Nothing has no lines.
LEMMA LinesOfNothing == LinesOf(<<>>) = <<>>
<1>1. PICK all : all = << <<>> >> OBVIOUS
<1>2. Split(<<>>, Inner) = all BY <1>1, SplitSteps
<1>3. LinesOf(<<>>) = IF all[Len(all)] = <<>> THEN SubSeq(all, 1, Len(all) - 1) ELSE all
  BY <1>2, Zenon DEF LinesOf, Last, Front, Inner
<1>4. Len(all) = 1 /\ all[1] = <<>> /\ 1 - 1 = 0 /\ SubSeq(all, 1, 0) = <<>> BY <1>1
<1> QED BY <1>3, <1>4

\* Nothing is mapped to nothing.
LEMMA MappedNothing == ASSUME NEW job \in JobNames PROVE Mapped(job, <<>>) = <<>>
<1>1. [i \in DOMAIN <<>> |-> JobMap(job, <<>>[i])] = <<>> OBVIOUS
<1> QED BY <1>1, LinesOfNothing, FlattenSteps DEF Mapped

\* What is in front of all runs stays in front of one more character.
LEMMA GrownBehind ==
    ASSUME NEW front \in Seq(Seq(Symbols)), NEW runs \in Seq(Seq(Symbols)), runs # <<>>, NEW e \in Symbols
    PROVE  Grown(front \o runs, e, Inner) = front \o Grown(runs, e, Inner)
<1>1. PICK A : A = Seq(Symbols) OBVIOUS
<1>2. front \in Seq(A) /\ runs \in Seq(A) BY <1>1
<1>3. PICK none \in A : none = <<>>
  <2>1. <<>> \in Seq(Symbols) OBVIOUS
  <2> QED BY <1>1, <2>1
<1>4. PICK last \in A : last = Append(runs[Len(runs)], e)
  <2>1. runs[Len(runs)] \in A BY <1>2
  <2>2. PICK r \in Seq(Symbols) : r = runs[Len(runs)] BY <1>1, <2>1
  <2>3. Append(r, e) \in Seq(Symbols) OBVIOUS
  <2> QED BY <1>1, <2>2, <2>3
<1>5. CASE e \notin Inner
  <2>1. AppendsBehind(front, runs, none) BY <1>2, AppendConcat
  <2> QED BY <1>3, <1>5, <2>1, Zenon DEF Grown, AppendsBehind
<1>6. CASE e \in Inner
  <2>1. LastReplacedBehind(front, runs, last) BY <1>2, ReplacedBehind
  <2>2. PICK all : all = front \o runs OBVIOUS
  <2>3. /\ all[Len(all)] = runs[Len(runs)]
        /\ [all EXCEPT ![Len(all)] = last] = front \o [runs EXCEPT ![Len(runs)] = last]
    BY <2>1, <2>2, Zenon DEF LastReplacedBehind
  <2>4. Grown(all, e, Inner) = [all EXCEPT ![Len(all)] = last] BY <1>4, <1>6, <2>3, Zenon DEF Grown
  <2>5. Grown(runs, e, Inner) = [runs EXCEPT ![Len(runs)] = last] BY <1>4, <1>6, Zenon DEF Grown
  <2> QED BY <2>2, <2>3, <2>4, <2>5, Zenon
<1> QED BY <1>5, <1>6

\* What is in front of all runs stays in front.
LEMMA SplitBehind ==
    ASSUME NEW a \in Seq(Symbols), NEW front \in Seq(Seq(Symbols)), Split(a, Inner) = Append(front, <<>>),
           NEW b \in Seq(Symbols)
    PROVE  Split(a \o b, Inner) = front \o Split(b, Inner)
<1> DEFINE P == {u \in Seq(Symbols) : Split(a \o u, Inner) = front \o Split(u, Inner)}
<1>1. <<>> \in P
  <2>1. <<>> \in Seq(Symbols) /\ a \o <<>> = a OBVIOUS
  <2>2. Split(<<>>, Inner) = << <<>> >> BY SplitSteps
  <2>3. Append(front, <<>>) = front \o << <<>> >>
    <3>1. PICK A : A = Seq(Symbols) OBVIOUS
    <3>2. PICK none \in A : none = <<>> BY <2>1, <3>1
    <3>3. front \in Seq(A) BY <3>1
    <3>4. Append(front, none) = front \o << none >> BY <3>2, <3>3
    <3> QED BY <3>2, <3>4
  <2> QED BY <2>1, <2>2, <2>3
<1>2. ASSUME NEW u \in Seq(Symbols), NEW e \in Symbols, u \in P PROVE Append(u, e) \in P
  <2>1. PICK v \in Seq(Symbols) : v = a \o u
    <3>1. a \o u \in Seq(Symbols) OBVIOUS
    <3> QED BY <3>1, Zenon
  <2>2. a \o Append(u, e) = Append(v, e) /\ Append(u, e) \in Seq(Symbols) BY <2>1
  <2>3. PICK runs \in Seq(Seq(Symbols)) : runs = Split(u, Inner) /\ runs # <<>> BY RunsType
  <2>4. Split(v, Inner) = front \o runs BY <1>2, <2>1, <2>3
  <2>5. Grown(front \o runs, e, Inner) = front \o Grown(runs, e, Inner) BY <2>3, GrownBehind
  <2>6. \A w \in Seq(Symbols) : Split(Append(w, e), Inner) = Grown(Split(w, Inner), e, Inner)
    BY SplitSteps, Zenon
  <2> QED BY <2>2, <2>3, <2>4, <2>5, <2>6, Zenon
<1> HIDE DEF P
<1>3. \A u \in Seq(Symbols) : u \in P BY <1>1, <1>2, InductionOnSeq
<1> QED BY <1>3 DEF P

\* Two texts, the first of which ends where a line does, have the lines of both.
LEMMA LinesOfConcat ==
    ASSUME NEW a \in Seq(Symbols), NEW b \in Seq(Symbols), a = <<>> \/ a[Len(a)] = NL
    PROVE  LinesOf(a \o b) = LinesOf(a) \o LinesOf(b)
<1>1. CASE a = <<>>
  <2>4. PICK lines \in Seq(Seq(Symbols)) : lines = LinesOf(b) BY LinesType
  <2>5. <<>> \o lines = lines /\ <<>> \o b = b OBVIOUS
  <2> QED BY <1>1, <2>4, <2>5, LinesOfNothing
<1>2. CASE a # <<>>
  <2>1. PICK z \in Seq(Symbols) : a = Append(z, NL)
    <3>1. \E z \in Seq(Symbols) : a = Append(z, a[Len(a)]) BY <1>2, FrontAndLast
    <3> QED BY <1>2, <3>1
  <2>2. PICK front \in Seq(Seq(Symbols)) : front = Split(z, Inner) BY RunsType
  <2>3. NL \in Symbols /\ NL \notin Inner BY DEF Symbols, Inner
  <2>4. Split(a, Inner) = Append(front, <<>>)
    <3>1. Split(Append(z, NL), Inner) = Grown(Split(z, Inner), NL, Inner)
      <4>1. \A e \in Symbols : Split(Append(z, e), Inner) = Grown(Split(z, Inner), e, Inner)
        BY SplitSteps, Zenon
      <4> QED BY <2>3, <4>1, Zenon
    <3>2. Grown(front, NL, Inner) = Append(front, <<>>) BY <2>3, Zenon DEF Grown
    <3> QED BY <2>1, <2>2, <3>1, <3>2, Zenon
  <2>5. PICK l, n \in Nat, runs \in Seq(Seq(Symbols)) :
          runs = Split(b, Inner) /\ runs # <<>> /\ l = Len(front) /\ n = Len(runs)
    <3>1. PICK runs \in Seq(Seq(Symbols)) : runs = Split(b, Inner) /\ runs # <<>>
      <4>1. Split(b, Inner) \in Seq(Seq(Symbols)) \ {<<>>} BY RunsType, Zenon
      <4> QED BY <4>1
    <3>2. Len(front) \in Nat /\ Len(runs) \in Nat OBVIOUS
    <3> QED BY <3>1, <3>2, Zenon
  <2>6. Split(a \o b, Inner) = front \o runs BY <2>4, <2>5, SplitBehind
  <2>7. LinesOf(a) = front
    <3>1. PICK all \in Seq(Seq(Symbols)) : all = Append(front, <<>>)
      <4>1. <<>> \in Seq(Symbols) OBVIOUS
      <4>2. Append(front, <<>>) \in Seq(Seq(Symbols)) BY <4>1
      <4> QED BY <4>2, Zenon
    <3>2. Len(all) = l + 1 /\ all[l + 1] = <<>> /\ \A i \in 1 .. l : all[i] = front[i] BY <2>5, <3>1
    <3>3. SubSeq(all, 1, l) = front
      <4>1. SubSeq(all, 1, l) = [i \in 1 .. l |-> all[i]] BY <3>2
      <4>2. front = [i \in 1 .. l |-> front[i]] BY <2>5
      <4> QED BY <3>2, <4>1, <4>2
    <3>4. Len(all) - 1 = l BY <3>2
    <3>5. LinesOf(a) = IF all[Len(all)] = <<>> THEN SubSeq(all, 1, Len(all) - 1) ELSE all
      BY <2>4, <3>1, Zenon DEF LinesOf, Last, Front, Inner
    <3> QED BY <3>2, <3>3, <3>4, <3>5
  <2>8. PICK all \in Seq(Seq(Symbols)) : all = front \o runs
    <3>1. front \o runs \in Seq(Seq(Symbols)) OBVIOUS
    <3> QED BY <3>1, Zenon
  <2>9. n # 0 /\ Len(all) = l + n /\ (\A i \in 1 .. l : all[i] = front[i]) /\ \A i \in 1 .. n : all[l + i] = runs[i]
    BY <2>5, <2>8
  <2>10. LinesOf(a \o b) = IF all[l + n] = <<>> THEN SubSeq(all, 1, (l + n) - 1) ELSE all
    BY <2>6, <2>8, <2>9, Zenon DEF LinesOf, Last, Front, Inner
  <2>11. LinesOf(b) = IF runs[n] = <<>> THEN SubSeq(runs, 1, n - 1) ELSE runs
    BY <2>5, Zenon DEF LinesOf, Last, Front, Inner
  <2>12. all[l + n] = runs[n]
    <3>1. n \in 1 .. n BY <2>9
    <3> QED BY <2>9, <3>1
  <2>13. SubSeq(all, 1, (l + n) - 1) = front \o SubSeq(runs, 1, n - 1)
    <3>1. PICK A : A = Seq(Symbols) OBVIOUS
    <3>2. front \in Seq(A) /\ runs \in Seq(A) /\ runs # <<>> BY <2>5, <2>9, <3>1
    <3> QED BY <2>5, <2>8, <3>2, FrontOfConcat
  <2> QED BY <2>7, <2>8, <2>10, <2>11, <2>12, <2>13
<1> QED BY <1>1, <1>2

\* Pairs u have the keys of s and of t, with the sums of both.
AddsUp(u, s, t) ==
    (\A k : SumOf(u, k) = SumOf(s, k) + SumOf(t, k)) /\ KeysOf(u) = KeysOf(s) \cup KeysOf(t)

\* The sums and keys of two lists of sequences of pairs.
LEMMA FlatConcat ==
    ASSUME NEW A \in SUBSET JobPairs, NEW ss \in Seq(Seq(A)), NEW tt \in Seq(Seq(A))
    PROVE  AddsUp(FlattenSeq(ss \o tt), FlattenSeq(ss), FlattenSeq(tt))
<1> DEFINE Adds(uu) == AddsUp(FlattenSeq(ss \o uu), FlattenSeq(ss), FlattenSeq(uu))
           P == {uu \in Seq(Seq(A)) : Adds(uu)}
<1>0. \A a \in A : a.value \in Nat BY PairValues
<1>1. \A s \in Seq(A) : \A k : SumOf(s, k) \in Nat BY <1>0, SumOfSteps
<1>2. \A uu \in Seq(Seq(A)) : FlattenSeq(uu) \in Seq(A) BY FlattenSteps
<1>3. <<>> \in P
  <2>1. <<>> \in Seq(Seq(A)) /\ ss \o <<>> = ss OBVIOUS
  <2>2. FlattenSeq(<<>>) = <<>> BY FlattenSteps
  <2>3. \A k : SumOf(<<>>, k) = 0 BY <1>0, SumOfSteps
  <2>4. KeysOf(<<>>) = {} BY KeysSteps
  <2>5. \A k : SumOf(FlattenSeq(ss), k) \in Nat BY <1>1, <1>2
  <2> QED BY <2>1, <2>2, <2>3, <2>4, <2>5 DEF AddsUp
<1>4. ASSUME NEW uu \in Seq(Seq(A)), NEW u \in Seq(A), uu \in P PROVE Append(uu, u) \in P
  <2>1. AppendsBehind(ss, uu, u) BY AppendConcat
  <2>2. PICK vv \in Seq(Seq(A)) : vv = ss \o uu
    <3>1. ss \o uu \in Seq(Seq(A)) OBVIOUS
    <3> QED BY <3>1, Zenon
  <2>3. ss \o Append(uu, u) = Append(vv, u) BY <2>1, <2>2, Zenon DEF AppendsBehind
  <2>4. PICK p, q, r \in Seq(A) : p = FlattenSeq(ss) /\ q = FlattenSeq(uu) /\ r = FlattenSeq(vv) BY <1>2
  <2>5. FlattenSeq(Append(vv, u)) = r \o u BY <2>4, FlattenSteps
  <2>6. FlattenSeq(Append(uu, u)) = q \o u BY <2>4, FlattenSteps
  <2>7. (\A k : SumOf(r, k) = SumOf(p, k) + SumOf(q, k)) /\ KeysOf(r) = KeysOf(p) \cup KeysOf(q)
    BY <1>4, <2>2, <2>4, Zenon DEF AddsUp
  <2>8. ASSUME NEW k PROVE SumOf(r \o u, k) = SumOf(p, k) + SumOf(q \o u, k)
    <3>1. SumOf(r \o u, k) = SumOf(r, k) + SumOf(u, k) BY SumOfConcat
    <3>2. SumOf(q \o u, k) = SumOf(q, k) + SumOf(u, k) BY SumOfConcat
    <3>3. SumOf(p, k) \in Nat /\ SumOf(q, k) \in Nat /\ SumOf(u, k) \in Nat BY <1>1
    <3>4. SumOf(r, k) = SumOf(p, k) + SumOf(q, k) BY <2>7
    <3> QED BY <3>1, <3>2, <3>3, <3>4
  <2>9. KeysOf(r \o u) = KeysOf(p) \cup KeysOf(q \o u)
    <3>1. KeysOf(r \o u) = KeysOf(r) \cup KeysOf(u) BY KeysSteps
    <3>2. KeysOf(q \o u) = KeysOf(q) \cup KeysOf(u) BY KeysSteps
    <3> QED BY <2>7, <3>1, <3>2
  <2>10. Adds(Append(uu, u)) BY <2>3, <2>4, <2>5, <2>6, <2>8, <2>9, Zenon DEF AddsUp
  <2>11. Append(uu, u) \in Seq(Seq(A)) OBVIOUS
  <2> QED BY <2>10, <2>11, Zenon
<1>5. tt \in P
  <2> HIDE DEF P
  <2>1. PICK B : B = Seq(A) OBVIOUS
  <2>2. \A uu \in Seq(B), u \in B : uu \in P => Append(uu, u) \in P BY <1>4, <2>1
  <2>3. \A uu \in Seq(B) : uu \in P BY <1>3, <2>2, InductionOnSeq
  <2> QED BY <2>1, <2>3
<1> QED BY <1>5, Zenon

\* What the lines of a text are mapped to, line by line.
LEMMA MappedLines ==
    ASSUME NEW job \in JobNames, NEW lines \in Seq(Seq(Symbols)), NEW ss,
           ss = [i \in DOMAIN lines |-> JobMap(job, lines[i])]
    PROVE  ss \in Seq(Seq(PairsOf(job))) /\ Len(ss) = Len(lines) /\ DOMAIN ss = DOMAIN lines
<1>1. \A i \in DOMAIN lines : JobMap(job, lines[i]) \in Seq(PairsOf(job)) BY JobMapValues
<1>2. ss \in [DOMAIN lines -> Seq(PairsOf(job))] BY <1>1
<1>3. ss \in Seq(Seq(PairsOf(job))) BY <1>2, MappedSeq
<1>4. DOMAIN ss = DOMAIN lines BY <1>2
<1>5. DOMAIN lines = 1 .. Len(lines) /\ Len(lines) \in Nat OBVIOUS
<1>6. DOMAIN ss = 1 .. Len(ss) /\ Len(ss) \in Nat BY <1>3
<1> QED BY <1>3, <1>4, <1>5, <1>6

\* Two texts, the first of which ends where a line does, are mapped to the pairs of both.
LEMMA MappedConcat ==
    ASSUME NEW job \in JobNames, NEW a \in Seq(Symbols), NEW b \in Seq(Symbols),
           a = <<>> \/ a[Len(a)] = NL
    PROVE  AddsUp(Mapped(job, a \o b), Mapped(job, a), Mapped(job, b))
<1>1. PICK A \in SUBSET JobPairs : A = PairsOf(job)
  <2>1. PairsOf(job) \in SUBSET JobPairs BY DEF PairsOf
  <2> QED BY <2>1
<1>2. a \o b \in Seq(Symbols) OBVIOUS
<1>3. PICK f, g, h \in Seq(Seq(Symbols)) : f = LinesOf(a) /\ g = LinesOf(b) /\ h = LinesOf(a \o b)
  BY <1>2, LinesType
<1>4. h = f \o g BY <1>3, LinesOfConcat
<1>5. PICK ff, gg, hh : /\ ff = [i \in DOMAIN f |-> JobMap(job, f[i])]
                        /\ gg = [i \in DOMAIN g |-> JobMap(job, g[i])]
                        /\ hh = [i \in DOMAIN h |-> JobMap(job, h[i])]
  OBVIOUS
<1>6. ff \in Seq(Seq(A)) /\ Len(ff) = Len(f) /\ DOMAIN ff = DOMAIN f BY <1>1, <1>5, MappedLines
<1>7. gg \in Seq(Seq(A)) /\ Len(gg) = Len(g) /\ DOMAIN gg = DOMAIN g BY <1>1, <1>5, MappedLines
<1>8. hh \in Seq(Seq(A)) /\ Len(hh) = Len(h) /\ DOMAIN hh = DOMAIN h BY <1>1, <1>5, MappedLines
<1>9. hh = ff \o gg
  <2>1. PICK B, C : B = Seq(A) /\ C = Seq(Symbols) OBVIOUS
  <2>2. f \in Seq(C) /\ g \in Seq(C) /\ ff \in Seq(B) /\ gg \in Seq(B) /\ hh \in Seq(B)
    BY <1>6, <1>7, <1>8, <2>1
  <2>3. PICK m, n \in Nat : m = Len(f) /\ n = Len(g) OBVIOUS
  <2>4. PICK vv : vv = ff \o gg OBVIOUS
  <2>5. /\ vv \in Seq(B) /\ Len(vv) = Len(ff) + Len(gg) /\ (\A i \in 1 .. Len(ff) : vv[i] = ff[i])
        /\ \A i \in 1 .. Len(gg) : vv[Len(ff) + i] = gg[i]
    BY <2>2, <2>4, ConcatParts
  <2>6. /\ Len(h) = Len(f) + Len(g) /\ (\A i \in 1 .. Len(f) : h[i] = f[i])
        /\ \A i \in 1 .. Len(g) : h[Len(f) + i] = g[i]
    BY <1>4, <2>2, ConcatParts
  <2>7. /\ Len(h) = m + n /\ (\A i \in 1 .. m : h[i] = f[i]) /\ (\A i \in 1 .. n : h[m + i] = g[i])
        /\ Len(vv) = m + n /\ (\A i \in 1 .. m : vv[i] = ff[i]) /\ (\A i \in 1 .. n : vv[m + i] = gg[i])
    BY <1>6, <1>7, <2>3, <2>5, <2>6
  <2>8. DOMAIN f = 1 .. m /\ DOMAIN g = 1 .. n /\ DOMAIN h = 1 .. m + n
    <3>1. DOMAIN f = 1 .. Len(f) /\ DOMAIN g = 1 .. Len(g) /\ DOMAIN h = 1 .. Len(h) OBVIOUS
    <3> QED BY <2>3, <2>7, <3>1
  <2>9. ASSUME NEW i \in 1 .. m + n PROVE hh[i] = vv[i]
    <3>1. hh[i] = JobMap(job, h[i]) BY <1>5, <2>8
    <3>2. CASE i \in 1 .. m
      <4>1. ff[i] = JobMap(job, f[i]) BY <1>5, <2>8, <3>2
      <4> QED BY <2>7, <3>1, <3>2, <4>1
    <3>3. CASE i \notin 1 .. m
      <4>1. PICK j \in 1 .. n : i = m + j
        <5>1. i - m \in 1 .. n /\ i = m + (i - m) BY <3>3
        <5> QED BY <5>1
      <4>2. gg[j] = JobMap(job, g[j]) BY <1>5, <2>8
      <4> QED BY <2>7, <3>1, <4>1, <4>2
    <3> QED BY <3>2, <3>3
  <2>10. hh \in Seq(B) /\ vv \in Seq(B) /\ Len(hh) = m + n /\ Len(vv) = m + n BY <1>8, <2>2, <2>5, <2>7
  <2>11. hh = vv BY <2>9, <2>10
  <2> QED BY <2>4, <2>11
<1>10. /\ Mapped(job, a) = FlattenSeq(ff) /\ Mapped(job, b) = FlattenSeq(gg)
       /\ Mapped(job, a \o b) = FlattenSeq(ff \o gg)
  BY <1>3, <1>5, <1>9, Zenon DEF Mapped
<1>11. AddsUp(FlattenSeq(ff \o gg), FlattenSeq(ff), FlattenSeq(gg)) BY <1>6, <1>7, FlatConcat
<1> QED BY <1>10, <1>11, Zenon

-----------------------------------------------------------------------------
(* From the texts to the buckets, the outputs and the totals *)

\* All pairs of some texts, and all pairs of all slots.
AllOf(job, texts) == FlattenSeq([i \in DOMAIN texts |-> Mapped(job, texts[i])])
Joined(f) == FlattenSeq([i \in 1 .. N |-> f[i - 1]])

\* Pairs o are what reducer r gets of pairs w, or less of it unless whole.
Due(w, k, r) == IF KeyHash(k) % N = r THEN SumOf(w, k) ELSE 0
IsPart(o, w, r, whole) ==
    /\ \A k : SumOf(o, k) <= Due(w, k, r) /\ (whole => SumOf(o, k) = Due(w, k, r))
    /\ \A k \in KeysOf(o) : k \in KeysOf(w) /\ KeyHash(k) % N = r
    /\ whole => \A k \in KeysOf(w) : KeyHash(k) % N = r => k \in KeysOf(o)

\* The sums are natural numbers.
LEMMA SumsAreNat == ASSUME NEW A \in SUBSET JobPairs, NEW s \in Seq(A), NEW k PROVE SumOf(s, k) \in Nat
BY PairValues, SumOfSteps

\* The pairs of some texts.
LEMMA AllOfSums ==
    ASSUME NEW job \in JobNames, NEW texts \in Seq(Seq(Symbols))
    PROVE  /\ AllOf(job, texts) \in Seq(PairsOf(job))
           /\ \A k : SumOf(AllOf(job, texts), k) = Total([i \in DOMAIN texts |-> SumOf(Mapped(job, texts[i]), k)])
           /\ KeysOf(AllOf(job, texts)) = UNION {KeysOf(Mapped(job, texts[i])) : i \in DOMAIN texts}
<1>1. PICK A \in SUBSET JobPairs : A = PairsOf(job)
  <2>1. PairsOf(job) \in SUBSET JobPairs BY DEF PairsOf
  <2> QED BY <2>1
<1>2. PICK ss : ss = [i \in DOMAIN texts |-> Mapped(job, texts[i])] OBVIOUS
<1>3. ss \in Seq(Seq(A)) /\ DOMAIN ss = DOMAIN texts
  <2>1. \A i \in DOMAIN texts : Mapped(job, texts[i]) \in Seq(A) BY <1>1, MappedSums
  <2>2. ss \in [DOMAIN texts -> Seq(A)] BY <1>2, <2>1
  <2>3. ss \in Seq(Seq(A)) BY <2>2, MappedSeq
  <2> QED BY <2>2, <2>3
<1>4. AllOf(job, texts) = FlattenSeq(ss) BY <1>2 DEF AllOf
<1>5. FlattenSeq(ss) \in Seq(A) BY <1>3, FlattenSteps
<1>6. ASSUME NEW k
      PROVE  SumOf(FlattenSeq(ss), k) = Total([i \in DOMAIN texts |-> SumOf(Mapped(job, texts[i]), k)])
  <2>1. SumOf(FlattenSeq(ss), k) = Total([i \in DOMAIN ss |-> SumOf(ss[i], k)]) BY <1>3, SumOfFlat
  <2>2. [i \in DOMAIN ss |-> SumOf(ss[i], k)] = [i \in DOMAIN texts |-> SumOf(Mapped(job, texts[i]), k)]
    BY <1>2, <1>3
  <2> QED BY <2>1, <2>2, Zenon
<1>7. KeysOf(FlattenSeq(ss)) = UNION {KeysOf(Mapped(job, texts[i])) : i \in DOMAIN texts}
  <2>1. KeysOf(FlattenSeq(ss)) = UNION {KeysOf(ss[i]) : i \in DOMAIN ss} BY <1>3, SumOfFlat
  <2>2. {KeysOf(ss[i]) : i \in DOMAIN ss} = {KeysOf(Mapped(job, texts[i])) : i \in DOMAIN texts} BY <1>2, <1>3
  <2> QED BY <2>1, <2>2, Zenon
<1> QED BY <1>1, <1>4, <1>5, <1>6, <1>7, Zenon

\* What a text gives to one reducer.
LEMMA RunMapPart ==
    ASSUME NEW job \in JobNames, NEW text \in Seq(Symbols), NEW s, NEW r
    PROVE  RunMap(job, text, s, r) \in Seq(PairsOf(job)) /\ IsPart(RunMap(job, text, s, r), Mapped(job, text), r, TRUE)
<1>1. PICK A \in SUBSET JobPairs : A = PairsOf(job)
  <2>1. PairsOf(job) \in SUBSET JobPairs BY DEF PairsOf
  <2> QED BY <2>1
<1>2. PICK w \in Seq(A) : w = Mapped(job, text) BY <1>1, MappedSums
<1>3. PICK B : B = {kv \in Range(w) : KeyHash(kv.key) % N = r} OBVIOUS
<1>4. RunMap(job, text, s, r) = Only(w, B) BY <1>2, <1>3, Zenon DEF RunMap, Mapped, TargetNode
<1>5. PICK o \in Seq(A) : o = Only(w, B) BY OnlyType
<1>6. Range(o) = Range(w) \cap B BY <1>5, OnlySums
<1>7. \A k : KeyHash(k) % N = r => SumOf(o, k) = SumOf(w, k) BY <1>3, <1>5, OnlySums
<1>8. \A k : KeyHash(k) % N # r => SumOf(o, k) = 0 BY <1>3, <1>5, OnlySums
<1>9. ASSUME NEW k PROVE SumOf(o, k) <= Due(w, k, r) /\ SumOf(o, k) = Due(w, k, r)
  <2>1. SumOf(o, k) = Due(w, k, r) BY <1>7, <1>8 DEF Due
  <2>2. SumOf(o, k) \in Nat BY SumsAreNat
  <2> QED BY <2>1, <2>2
<1>10. \A k \in KeysOf(o) : k \in KeysOf(w) /\ KeyHash(k) % N = r BY <1>3, <1>6 DEF KeysOf
<1>11. \A k \in KeysOf(w) : KeyHash(k) % N = r => k \in KeysOf(o) BY <1>3, <1>6 DEF KeysOf
<1>12. IsPart(o, w, r, TRUE) BY <1>9, <1>10, <1>11, Zenon DEF IsPart
<1> QED BY <1>1, <1>2, <1>4, <1>5, <1>12, Zenon

\* What some texts give to one reducer.
LEMMA TextsPart ==
    ASSUME NEW job \in JobNames, NEW texts \in Seq(Seq(Symbols)), NEW s, NEW r, NEW o,
           o = FlattenSeq([i \in DOMAIN texts |-> RunMap(job, texts[i], s, r)])
    PROVE  o \in Seq(PairsOf(job)) /\ IsPart(o, AllOf(job, texts), r, TRUE)
<1>1. PICK A \in SUBSET JobPairs : A = PairsOf(job)
  <2>1. PairsOf(job) \in SUBSET JobPairs BY DEF PairsOf
  <2> QED BY <2>1
<1>0. ASSUME NEW i \in DOMAIN texts
      PROVE  /\ RunMap(job, texts[i], s, r) \in Seq(PairsOf(job))
             /\ IsPart(RunMap(job, texts[i], s, r), Mapped(job, texts[i]), r, TRUE)
  <2>1. PICK t \in Seq(Symbols) : t = texts[i] OBVIOUS
  <2>2. /\ RunMap(job, t, s, r) \in Seq(PairsOf(job))
        /\ IsPart(RunMap(job, t, s, r), Mapped(job, t), r, TRUE)
    BY RunMapPart, Zenon
  <2> QED BY <2>1, <2>2, Zenon
<1>2. PICK ss, D : ss = [i \in DOMAIN texts |-> RunMap(job, texts[i], s, r)] /\ D = DOMAIN texts OBVIOUS
<1>3. ss \in Seq(Seq(A)) /\ DOMAIN ss = D
  <2>1. \A i \in DOMAIN texts : RunMap(job, texts[i], s, r) \in Seq(A) BY <1>0, <1>1, Zenon
  <2>2. ss \in [DOMAIN texts -> Seq(A)] BY <1>2, <2>1
  <2>3. ss \in Seq(Seq(A)) BY <2>2, MappedSeq
  <2> QED BY <1>2, <2>2, <2>3
<1>4. o = FlattenSeq(ss) BY <1>2
<1>5. o \in Seq(A) BY <1>3, <1>4, FlattenSteps
<1>6. PICK w \in Seq(A) : w = AllOf(job, texts) BY <1>1, AllOfSums
<1>7. \A i \in D : IsPart(ss[i], Mapped(job, texts[i]), r, TRUE) BY <1>0, <1>2
<1>8. IsFiniteSet(D)
  <2>1. D = 1 .. Len(texts) /\ Len(texts) \in Nat BY <1>2
  <2> QED BY <2>1, FS_Interval
<1>9. ASSUME NEW k PROVE SumOf(o, k) = Due(w, k, r)
  <2>1. PICK f, g : /\ f = [i \in D |-> SumOf(ss[i], k)]
                    /\ g = [i \in D |-> SumOf(Mapped(job, texts[i]), k)]
    OBVIOUS
  <2>2. SumOf(o, k) = Total(f) BY <1>3, <1>4, <2>1, SumOfFlat
  <2>3. SumOf(w, k) = Total(g) BY <1>2, <1>6, <2>1, AllOfSums
  <2>4. \A i \in D : f[i] = Due(Mapped(job, texts[i]), k, r)
    <3>1. \A i \in D : SumOf(ss[i], k) = Due(Mapped(job, texts[i]), k, r) BY <1>7, Zenon DEF IsPart
    <3> QED BY <2>1, <3>1
  <2>5. CASE KeyHash(k) % N = r
    <3>1. \A i \in D : f[i] = g[i] BY <2>1, <2>4, <2>5 DEF Due
    <3>2. f = g BY <2>1, <3>1
    <3> QED BY <2>2, <2>3, <2>5, <3>2 DEF Due
  <2>6. CASE KeyHash(k) % N # r
    <3>1. \A i \in D : f[i] = 0 BY <2>4, <2>6 DEF Due
    <3>2. f \in [D -> Int] BY <2>1, <3>1
    <3>3. Total(f) = 0 BY <1>8, <3>1, <3>2, SumOfZeros
    <3> QED BY <2>2, <2>6, <3>3 DEF Due
  <2> QED BY <2>5, <2>6
<1>10. KeysOf(o) = UNION {KeysOf(ss[i]) : i \in D} BY <1>3, <1>4, SumOfFlat
<1>11. KeysOf(w) = UNION {KeysOf(Mapped(job, texts[i])) : i \in D} BY <1>2, <1>6, AllOfSums
<1>12. \A k \in KeysOf(o) : k \in KeysOf(w) /\ KeyHash(k) % N = r BY <1>7, <1>10, <1>11 DEF IsPart
<1>13. \A k \in KeysOf(w) : KeyHash(k) % N = r => k \in KeysOf(o) BY <1>7, <1>10, <1>11 DEF IsPart
<1>14. \A k : SumOf(o, k) <= Due(w, k, r)
  <2> SUFFICES ASSUME NEW k PROVE SumOf(o, k) <= Due(w, k, r) OBVIOUS
  <2>1. SumOf(o, k) \in Nat BY <1>5, SumsAreNat
  <2> QED BY <1>9, <2>1
<1>15. IsPart(o, w, r, TRUE) BY <1>9, <1>12, <1>13, <1>14, Zenon DEF IsPart
<1> QED BY <1>1, <1>5, <1>6, <1>15, Zenon

\* The pairs of all slots.
LEMMA JoinedSums ==
    ASSUME NEW A \in SUBSET JobPairs, NEW f \in [Slots -> Seq(A)]
    PROVE  /\ Joined(f) \in Seq(A)
           /\ \A k : SumOf(Joined(f), k) = Total([s \in Slots |-> SumOf(f[s], k)])
           /\ KeysOf(Joined(f)) = UNION {KeysOf(f[s]) : s \in Slots}
<1>1. PICK ss : ss = [i \in 1 .. N |-> f[i - 1]] OBVIOUS
<1>2. ss \in Seq(Seq(A)) /\ FlattenSeq(ss) \in Seq(A) BY <1>1, AllSlotsType
<1>3. Joined(f) = FlattenSeq(ss) BY <1>1 DEF Joined
<1>4. PICK h, D : h = [i \in D |-> i - 1] /\ D = 1 .. N OBVIOUS
<1>5. IsFiniteSet(Slots) /\ IsFiniteSet(D) /\ h \in Bijection(D, Slots) BY <1>4, SlotPlaces, Zenon
<1>6. h \in [D -> Slots] /\ \A s \in Slots : \E i \in D : h[i] = s
  BY <1>5 DEF Bijection, Injection, Surjection
<1>7. DOMAIN ss = D /\ \A i \in D : ss[i] = f[h[i]] BY <1>1, <1>4
<1>8. ASSUME NEW k PROVE SumOf(FlattenSeq(ss), k) = Total([s \in Slots |-> SumOf(f[s], k)])
  <2>1. PICK e \in [Slots -> Int] : e = [s \in Slots |-> SumOf(f[s], k)]
    <3>1. \A s \in Slots : SumOf(f[s], k) \in Int BY SumsAreNat
    <3>2. [s \in Slots |-> SumOf(f[s], k)] \in [Slots -> Int] BY <3>1
    <3> QED BY <3>2, Zenon
  <2>2. SumOf(FlattenSeq(ss), k) = Total([i \in DOMAIN ss |-> SumOf(ss[i], k)]) BY <1>2, SumOfFlat
  <2>3. [i \in DOMAIN ss |-> SumOf(ss[i], k)] = Along(e, h) BY <1>6, <1>7, <2>1 DEF Along
  <2>4. Total(Along(e, h)) = Total(e) BY <1>5, SumOverBijection
  <2> QED BY <2>1, <2>2, <2>3, <2>4, Zenon
<1>9. KeysOf(FlattenSeq(ss)) = UNION {KeysOf(f[s]) : s \in Slots}
  <2>1. KeysOf(FlattenSeq(ss)) = UNION {KeysOf(ss[i]) : i \in DOMAIN ss} BY <1>2, SumOfFlat
  <2>2. {KeysOf(ss[i]) : i \in DOMAIN ss} = {KeysOf(f[s]) : s \in Slots} BY <1>6, <1>7
  <2> QED BY <2>1, <2>2, Zenon
<1> QED BY <1>2, <1>3, <1>8, <1>9, Zenon

\* The copies of a reducer are its part of the pairs of all slots, if each is
\* its part of a slot's pairs.
LEMMA JoinedPart ==
    ASSUME NEW A \in SUBSET JobPairs, NEW b \in [Slots -> Seq(A)], NEW W \in [Slots -> Seq(A)], NEW r,
           NEW whole \in BOOLEAN, \A s \in Slots : IsPart(b[s], W[s], r, whole)
    PROVE  IsPart(Joined(b), Joined(W), r, whole)
<1>1. PICK o, w \in Seq(A) : o = Joined(b) /\ w = Joined(W) BY JoinedSums
<1>2. IsFiniteSet(Slots) BY SlotPlaces
<1>3. ASSUME NEW k PROVE SumOf(o, k) <= Due(w, k, r) /\ (whole => SumOf(o, k) = Due(w, k, r))
  <2>1. PICK f, g, d : /\ f = [s \in Slots |-> SumOf(b[s], k)]
                       /\ g = [s \in Slots |-> SumOf(W[s], k)]
                       /\ d = [s \in Slots |-> Due(W[s], k, r)]
    OBVIOUS
  <2>2. SumOf(o, k) = Total(f) BY <1>1, <2>1, JoinedSums
  <2>3. SumOf(w, k) = Total(g) BY <1>1, <2>1, JoinedSums
  <2>4. \A s \in Slots : SumOf(b[s], k) \in Nat /\ SumOf(W[s], k) \in Nat BY SumsAreNat
  <2>5. \A s \in Slots : Due(W[s], k, r) \in Nat BY <2>4 DEF Due
  <2>6. f \in [Slots -> Int] /\ g \in [Slots -> Int] /\ d \in [Slots -> Int] BY <2>1, <2>4, <2>5
  <2>7. Due(w, k, r) = Total(d)
    <3>1. CASE KeyHash(k) % N = r
      <4>1. \A s \in Slots : d[s] = g[s] BY <2>1, <3>1 DEF Due
      <4>2. d = g BY <2>1, <4>1
      <4> QED BY <2>3, <3>1, <4>2 DEF Due
    <3>2. CASE KeyHash(k) % N # r
      <4>1. \A s \in Slots : d[s] = 0 BY <2>1, <3>2 DEF Due
      <4>2. Total(d) = 0 BY <1>2, <2>6, <4>1, SumOfZeros
      <4> QED BY <3>2, <4>2 DEF Due
    <3> QED BY <3>1, <3>2
  <2>8. \A s \in Slots : f[s] <= d[s] /\ (whole => f[s] = d[s])
    <3>1. \A s \in Slots : SumOf(b[s], k) <= Due(W[s], k, r) /\ (whole => SumOf(b[s], k) = Due(W[s], k, r))
      BY Zenon DEF IsPart
    <3> QED BY <2>1, <3>1
  <2>9. Total(f) <= Total(d) BY <1>2, <2>6, <2>8, SumOfLarger
  <2>10. whole => f = d BY <2>1, <2>8
  <2> QED BY <2>2, <2>7, <2>9, <2>10
<1>4. KeysOf(o) = UNION {KeysOf(b[s]) : s \in Slots} /\ KeysOf(w) = UNION {KeysOf(W[s]) : s \in Slots}
  BY <1>1, JoinedSums
<1>5. \A k \in KeysOf(o) : k \in KeysOf(w) /\ KeyHash(k) % N = r BY <1>4 DEF IsPart
<1>6. whole => \A k \in KeysOf(w) : KeyHash(k) % N = r => k \in KeysOf(o) BY <1>4 DEF IsPart
<1>7. IsPart(o, w, r, whole) BY <1>3, <1>5, <1>6, Zenon DEF IsPart
<1> QED BY <1>1, <1>7, Zenon

\* So is what it reduces them to, one pair for each key.
LEMMA ReducedPart ==
    ASSUME NEW job, NEW copies \in Seq(PairsOf(job)), NEW w, NEW r, NEW whole \in BOOLEAN,
           IsPart(copies, w, r, whole), NEW out, out = RunReduce(job, SortByKey(copies))
    PROVE  /\ out \in Seq(JobPairs) /\ IsPart(out, w, r, whole)
           /\ \A kv \in Range(out) : kv.key \in KeysOf(out) /\ kv.value = SumOf(out, kv.key)
<1>1. PICK A \in SUBSET JobPairs : A = PairsOf(job)
  <2>1. PairsOf(job) \in SUBSET JobPairs BY DEF PairsOf
  <2> QED BY <2>1
<1>2. PICK q \in Seq(A) : q = SortByKey(copies) BY <1>1, SortSums
<1>3. Grouped(q) /\ KeysOf(q) = KeysOf(copies) /\ \A k : SumOf(q, k) = SumOf(copies, k) BY <1>1, <1>2, SortSums
<1>4. out = RunReduce(job, q) BY <1>2
<1>5. /\ KeysOf(out) = KeysOf(q)
      /\ \A kv \in Range(out) : kv.value = SumOf(q, kv.key)
      /\ \A k : SumOf(out, k) = SumOf(q, k)
  BY <1>1, <1>3, <1>4, ReduceSums
<1>6. \A k : SumOf(out, k) = SumOf(copies, k) BY <1>3, <1>5
<1>7. KeysOf(out) = KeysOf(copies) BY <1>3, <1>5
<1>8. IsPart(out, w, r, whole) BY <1>6, <1>7, Zenon DEF IsPart
<1>9. \A kv \in Range(out) : kv.key \in KeysOf(out) BY DEF KeysOf
<1>10. out \in Seq(JobPairs)
  <2>1. q \in Seq(JobPairs) BY SeqSubset
  <2> QED BY <1>4, <2>1, RunReduceType
<1> QED BY <1>5, <1>8, <1>9, <1>10

\* A key with a hash belongs to one slot.
LEMMA OwnerOfKey == ASSUME NEW k, KeyHash(k) \in Nat PROVE KeyHash(k) % N \in Slots
<1>1. PICK x, n : x = KeyHash(k) /\ n = N OBVIOUS
<1>2. x \in Nat /\ n \in Nat /\ n > 0 BY <1>1, ChunkingAssumption
<1>3. x % n \in 0 .. n - 1 BY <1>2
<1> QED BY <1>1, <1>3 DEF Slots

\* The parts of all reducers are merged into the totals.
LEMMA MergedParts ==
    ASSUME NEW A \in SUBSET JobPairs, NEW all \in Seq(A), NEW out \in [Slots -> Seq(JobPairs)],
           NEW whole \in BOOLEAN, \A r \in Slots : IsPart(out[r], all, r, whole),
           \A k \in KeysOf(all) : KeyHash(k) \in Nat, NEW m, m = MergeResults(out)
    PROVE  /\ whole => m = [k \in KeysOf(all) |-> SumOf(all, k)]
           /\ \A k \in DOMAIN m : k \in KeysOf(all) /\ m[k] <= SumOf(all, k)
<1>1. PICK o \in Seq(JobPairs) : o = Joined(out) BY JoinedSums
<1>2. m = [k \in KeysOf(o) |-> SumOf(o, k)] BY <1>1, Zenon DEF MergeResults, Joined
<1>3. IsFiniteSet(Slots) BY SlotPlaces
<1>4. KeysOf(o) = UNION {KeysOf(out[r]) : r \in Slots} BY <1>1, JoinedSums
<1>5. \A k \in KeysOf(o) : k \in KeysOf(all) BY <1>4 DEF IsPart
<1>6. ASSUME whole, NEW k \in KeysOf(all) PROVE k \in KeysOf(o)
  <2>1. PICK r \in Slots : r = KeyHash(k) % N BY OwnerOfKey
  <2>2. k \in KeysOf(out[r]) BY <1>6, <2>1 DEF IsPart
  <2> QED BY <1>4, <2>2
<1>7. ASSUME NEW k \in KeysOf(all)
      PROVE  SumOf(o, k) <= SumOf(all, k) /\ (whole => SumOf(o, k) = SumOf(all, k))
  <2>1. PICK t \in Slots : t = KeyHash(k) % N BY OwnerOfKey
  <2>2. PICK f, d, z : /\ f = [r \in Slots |-> SumOf(out[r], k)]
                       /\ d = [r \in Slots |-> Due(all, k, r)]
                       /\ z = [r \in Slots |-> 0]
    OBVIOUS
  <2>3. SumOf(o, k) = Total(f) BY <1>1, <2>2, JoinedSums
  <2>4. SumOf(all, k) \in Nat /\ \A r \in Slots : SumOf(out[r], k) \in Nat BY SumsAreNat
  <2>5. \A r \in Slots : d[r] = IF r = t THEN SumOf(all, k) ELSE 0 BY <2>1, <2>2 DEF Due
  <2>6. f \in [Slots -> Int] /\ d \in [Slots -> Int] /\ z \in [Slots -> Int]
    <3>1. \A r \in Slots : Due(all, k, r) \in Int BY <2>4 DEF Due
    <3> QED BY <2>2, <2>4, <3>1
  <2>7. Total(z) = 0
    <3>1. \A r \in Slots : z[r] = 0 BY <2>2
    <3> QED BY <1>3, <2>6, <3>1, SumOfZeros
  <2>8. Total(d) = Total(z) + d[t] - z[t]
    <3>1. \A r \in Slots \ {t} : d[r] = z[r] BY <2>2, <2>5
    <3> QED BY <1>3, <2>6, <3>1, SumOfUpdate, Zenon
  <2>9. Total(d) = SumOf(all, k)
    <3>1. d[t] = SumOf(all, k) /\ z[t] = 0 BY <2>2, <2>5
    <3> QED BY <2>4, <2>7, <2>8, <3>1
  <2>10. \A r \in Slots : f[r] <= d[r] /\ (whole => f[r] = d[r])
    <3>1. \A r \in Slots : SumOf(out[r], k) <= Due(all, k, r) /\ (whole => SumOf(out[r], k) = Due(all, k, r))
      BY Zenon DEF IsPart
    <3> QED BY <2>2, <3>1
  <2>11. Total(f) <= Total(d) BY <1>3, <2>6, <2>10, SumOfLarger
  <2>12. whole => f = d BY <2>2, <2>10
  <2> QED BY <2>3, <2>9, <2>11, <2>12
<1>8. whole => KeysOf(o) = KeysOf(all) BY <1>5, <1>6
<1>9. whole => m = [k \in KeysOf(all) |-> SumOf(all, k)]
  <2> SUFFICES ASSUME whole PROVE m = [k \in KeysOf(all) |-> SumOf(all, k)] OBVIOUS
  <2>1. \A k \in KeysOf(all) : SumOf(o, k) = SumOf(all, k) BY <1>7
  <2>2. m = [k \in KeysOf(all) |-> SumOf(o, k)] BY <1>2, <1>8
  <2> QED BY <2>1, <2>2, Zenon
<1>10. \A k \in DOMAIN m : k \in KeysOf(all) /\ m[k] <= SumOf(all, k) BY <1>2, <1>5, <1>7
<1> QED BY <1>9, <1>10

-----------------------------------------------------------------------------
(* The reference *)

\* The reference, by the pairs of the texts.
LEMMA ReferenceIsTotal ==
    ASSUME input \in Inputs, NEW texts \in Seq(Seq(Symbols)), NEW all, all = AllOf(input.job, texts)
    PROVE  Reference(texts) = [k \in KeysOf(all) |-> SumOf(all, k)]
<1>1. PICK job \in JobNames : job = input.job BY InputsAssumption
<1>2. ASSUME NEW i \in DOMAIN texts
      PROVE  /\ KeysIn(texts[i]) = KeysOf(Mapped(job, texts[i]))
             /\ \A k : CountIn(texts[i], k) = SumOf(Mapped(job, texts[i]), k)
  <2>1. PICK t \in Seq(Symbols) : t = texts[i] OBVIOUS
  <2>2. KeysOf(Mapped(job, t)) = UNION {KeysOf(JobMap(job, At(t, span))) : span \in LineSpans(t)}
    BY MappedSums
  <2>3. \A k : SumOf(Mapped(job, t), k)
                 = Total([span \in LineSpans(t) |-> SumOf(JobMap(job, At(t, span)), k)])
    BY MappedSums
  <2>4. KeysIn(t) = KeysOf(Mapped(job, t)) BY <1>1, <2>2, Zenon DEF KeysIn
  <2>5. \A k : CountIn(t, k) = SumOf(Mapped(job, t), k) BY <1>1, <2>3, SumFunctionIsTotal, Zenon DEF CountIn
  <2> QED BY <2>1, <2>4, <2>5, Zenon
<1>3. UNION {KeysIn(texts[i]) : i \in DOMAIN texts} = KeysOf(all)
  <2>1. KeysOf(all) = UNION {KeysOf(Mapped(job, texts[i])) : i \in DOMAIN texts} BY <1>1, AllOfSums
  <2>2. {KeysIn(texts[i]) : i \in DOMAIN texts} = {KeysOf(Mapped(job, texts[i])) : i \in DOMAIN texts} BY <1>2
  <2> QED BY <2>1, <2>2, Zenon
<1>4. ASSUME NEW k PROVE SumFunction([i \in DOMAIN texts |-> CountIn(texts[i], k)]) = SumOf(all, k)
  <2>1. SumOf(all, k) = Total([i \in DOMAIN texts |-> SumOf(Mapped(job, texts[i]), k)]) BY <1>1, AllOfSums
  <2>2. [i \in DOMAIN texts |-> CountIn(texts[i], k)] = [i \in DOMAIN texts |-> SumOf(Mapped(job, texts[i]), k)]
    BY <1>2
  <2> QED BY <2>1, <2>2, SumFunctionIsTotal, Zenon
<1> QED BY <1>3, <1>4, Zenon DEF Reference

-----------------------------------------------------------------------------
(* Words and their positions *)

\* Sets that a function maps to each other one by one have the same size.
LEMMA SameSize ==
    ASSUME NEW S, IsFiniteSet(S), NEW T, NEW h \in [S -> T],
           \A x, y \in S : h[x] = h[y] => x = y, \A z \in T : \E x \in S : h[x] = z
    PROVE  IsFiniteSet(T) /\ Cardinality(S) = Cardinality(T)
<1>1. h \in Bijection(S, T) BY Zenon DEF Bijection, Injection, Surjection, IsInjective
<1>2. ExistsBijection(S, T) BY <1>1 DEF ExistsBijection
<1> QED BY <1>2, FS_Bijection

\* A word by its first and last position.
IsWord(text, inner, p, q) ==
    /\ p \in 1 .. Len(text) /\ q \in p .. Len(text)
    /\ \A i \in p .. q : text[i] \in inner
    /\ p > 1 => text[p - 1] \notin inner
    /\ q < Len(text) => text[q + 1] \notin inner

\* The words are those.
LEMMA WordsByEnds ==
    ASSUME NEW text \in Seq(Symbols), NEW inner
    PROVE  /\ \A w \in WordSpans(text, inner) : w = <<w[1], w[2]>> /\ IsWord(text, inner, w[1], w[2])
           /\ \A p, q : IsWord(text, inner, p, q) => <<p, q>> \in WordSpans(text, inner)
           /\ IsFiniteSet(WordSpans(text, inner)) /\ IsFiniteSet(SpansOf(text, inner))
<1>1. PICK L \in Nat : L = Len(text) /\ DOMAIN text = 1 .. L OBVIOUS
<1>2. ASSUME NEW w \in WordSpans(text, inner)
      PROVE  w = <<w[1], w[2]>> /\ IsWord(text, inner, w[1], w[2])
  <2>1. w \in (DOMAIN text) \X (0 .. Len(text)) BY DEF WordSpans, SpansOf
  <2>2. PICK p \in 1 .. L, q \in 0 .. L : w = <<p, q>> BY <1>1, <2>1
  <2>3. w[1] = p /\ w[2] = q BY <2>2
  <2>4. p <= q /\ (\A i \in p .. q : text[i] \in inner)
    BY <2>3 DEF WordSpans, SpansOf
  <2>5. (p > 1 => text[p - 1] \notin inner) /\ (q < L => text[q + 1] \notin inner)
    BY <1>1, <2>3 DEF WordSpans, SpansOf
  <2>6. q \in p .. L BY <2>4
  <2>7. IsWord(text, inner, p, q) BY <1>1, <2>4, <2>5, <2>6 DEF IsWord
  <2> QED BY <2>2, <2>3, <2>7
<1>3. ASSUME NEW p, NEW q, IsWord(text, inner, p, q) PROVE <<p, q>> \in WordSpans(text, inner)
  <2>1. p \in 1 .. L /\ q \in 0 .. L /\ p <= q BY <1>1, <1>3 DEF IsWord
  <2>2. PICK w \in (1 .. L) \X (0 .. L) : w = <<p, q>> /\ w[1] = p /\ w[2] = q
    <3>1. <<p, q>> \in (1 .. L) \X (0 .. L) BY <2>1
    <3>2. <<p, q>>[1] = p /\ <<p, q>>[2] = q OBVIOUS
    <3> QED BY <3>1, <3>2, Zenon
  <2>3. w[1] <= w[2] + 1 BY <2>1, <2>2
  <2>4. /\ \A i \in w[1] .. w[2] : text[i] \in inner
        /\ w[1] > 1 => text[w[1] - 1] \notin inner
        /\ w[2] < Len(text) => text[w[2] + 1] \notin inner
    BY <1>3, <2>2 DEF IsWord
  <2>5. w \in SpansOf(text, inner) BY <1>1, <2>3, <2>4 DEF SpansOf
  <2> QED BY <2>1, <2>2, <2>5 DEF WordSpans
<1>4. IsFiniteSet(WordSpans(text, inner)) /\ IsFiniteSet(SpansOf(text, inner))
  <2>1. IsFiniteSet(1 .. L) /\ IsFiniteSet(0 .. L) BY FS_Interval
  <2>2. IsFiniteSet((1 .. L) \X (0 .. L)) BY <2>1, FS_Product
  <2>3. SpansOf(text, inner) \subseteq (1 .. L) \X (0 .. L)
        /\ WordSpans(text, inner) \subseteq (1 .. L) \X (0 .. L)
    BY <1>1 DEF WordSpans, SpansOf
  <2> QED BY <2>2, <2>3, FS_Subset
<1> QED BY <1>2, <1>3, <1>4

\* Fields finds every word once.
LEMMA FieldsAreWords ==
    ASSUME NEW text \in Seq(Symbols), NEW inner
    PROVE  Len(Fields(text, inner)) = Cardinality(WordSpans(text, inner))
<1>1. PICK runs \in Seq(Seq(Symbols)) : runs = Split(text, inner) /\ runs # <<>> BY RunsType
<1>2. PICK h : RunSpans(text, inner, runs, h) BY <1>1, RunsAreSpans
<1>3. PICK n \in Nat : n = Len(runs) /\ DOMAIN runs = 1 .. n BY <1>1
<1>4. PICK K : K = {i \in 1 .. n : runs[i] # <<>>} OBVIOUS
<1>5. Len(Fields(text, inner)) = Cardinality(K)
  <2>1. PICK B : B = Range(runs) \ {<<>>} OBVIOUS
  <2>2. Fields(text, inner) = Only(runs, B) BY <1>1, <2>1, Zenon DEF Fields
  <2>3. Len(Only(runs, B)) = Cardinality({i \in DOMAIN runs : runs[i] \in B}) BY OnlyLength
  <2>4. \A i \in 1 .. n : runs[i] \in B <=> runs[i] # <<>> BY <1>3, <2>1 DEF Range
  <2>5. {i \in DOMAIN runs : runs[i] \in B} = K BY <1>3, <1>4, <2>4
  <2> QED BY <2>2, <2>3, <2>5
<1>6. PICK W : W = WordSpans(text, inner) OBVIOUS
<1>7. IsFiniteSet(K)
  <2>1. IsFiniteSet(1 .. n) BY FS_Interval
  <2> QED BY <1>4, <2>1, FS_Subset
<1>8. PICK g : g = [i \in K |-> h[i]] OBVIOUS
<1>9. ASSUME NEW i \in K PROVE g[i] \in W
  <2>1. i \in DOMAIN runs /\ runs[i] # <<>> /\ g[i] = h[i] BY <1>3, <1>4, <1>8
  <2>2. h[i] \in SpansOf(text, inner) /\ ~(h[i][2] < h[i][1]) BY <1>2, <2>1 DEF RunSpans
  <2>3. h[i][1] \in Int /\ h[i][2] \in Int BY <2>2 DEF SpansOf
  <2>4. h[i] \in SpansOf(text, inner) /\ h[i][1] <= h[i][2] BY <2>2, <2>3
  <2> QED BY <1>6, <2>1, <2>4, Zenon DEF WordSpans
<1>10. ASSUME NEW x \in K, NEW y \in K, g[x] = g[y] PROVE x = y
  <2>1. x \in DOMAIN runs /\ y \in DOMAIN runs /\ h[x] = h[y] BY <1>3, <1>4, <1>8, <1>10
  <2> QED BY <1>2, <2>1 DEF RunSpans
<1>11. ASSUME NEW w \in W PROVE \E i \in K : g[i] = w
  <2>1. w \in SpansOf(text, inner) /\ w[1] <= w[2] BY <1>6 DEF WordSpans
  <2>2. PICK i \in DOMAIN runs : h[i] = w BY <1>2, <2>1 DEF RunSpans
  <2>3. runs[i] = <<>> <=> w[2] < w[1] BY <1>2, <2>2 DEF RunSpans
  <2>4. w[1] \in Int /\ w[2] \in Int BY <2>1 DEF SpansOf
  <2>5. ~(w[2] < w[1])
    <3>1. PICK x \in Int, y \in Int : x = w[1] /\ y = w[2] BY <2>4
    <3>2. x <= y BY <2>1, <3>1, Zenon
    <3>3. ~(y < x) BY <3>2
    <3> QED BY <3>1, <3>3, Zenon
  <2>6. i \in K BY <1>3, <1>4, <2>2, <2>3, <2>5
  <2> QED BY <1>8, <2>2, <2>6
<1>12. g \in [K -> W] BY <1>8, <1>9
<1>13. Cardinality(K) = Cardinality(W) BY <1>7, <1>10, <1>11, <1>12, SameSize
<1> QED BY <1>5, <1>6, <1>13

\* A window on a text that cuts no word.
CutsNoWord(text, inner, a, b) ==
    /\ a \in 1 .. Len(text) + 1 /\ b \in a - 1 .. Len(text)
    /\ a > 1 => text[a - 1] \notin inner
    /\ b < Len(text) => text[b + 1] \notin inner
Within(w, a, b) == a <= w[1] /\ w[2] <= b
WordsWithin(text, inner, a, b) == {w \in WordSpans(text, inner) : Within(w, a, b)}

\* The symbols of a part of a text.
LEMMA PartSymbols ==
    ASSUME NEW text \in Seq(Symbols), NEW a \in 1 .. Len(text) + 1, NEW b \in a - 1 .. Len(text)
    PROVE  /\ SubSeq(text, a, b) \in Seq(Symbols) /\ Len(SubSeq(text, a, b)) = b - a + 1
           /\ \A i \in 1 .. b - a + 1 : SubSeq(text, a, b)[i] = text[i + a - 1]
OBVIOUS

\* A word of the part is a word of the text in the window.
LEMMA ShiftedWord ==
    ASSUME NEW text \in Seq(Symbols), NEW inner, NEW a, NEW b, CutsNoWord(text, inner, a, b),
           NEW part, part = SubSeq(text, a, b), NEW p \in Int, NEW q \in Int
    PROVE  IsWord(part, inner, p, q)
             <=> IsWord(text, inner, p + a - 1, q + a - 1) /\ a <= p + a - 1 /\ q + a - 1 <= b
<1>1. PICK L \in Nat : L = Len(text) OBVIOUS
<1>2. a \in 1 .. L + 1 /\ b \in a - 1 .. L BY <1>1 DEF CutsNoWord
<1>3. (a > 1 => text[a - 1] \notin inner) /\ (b < L => text[b + 1] \notin inner)
  BY <1>1 DEF CutsNoWord
<1>4. PICK m \in Nat : m = b - a + 1 BY <1>2
<1>5. Len(part) = m /\ \A i \in 1 .. m : part[i] = text[i + a - 1] BY <1>1, <1>2, <1>4, PartSymbols
<1>6. ASSUME IsWord(part, inner, p, q)
      PROVE  IsWord(text, inner, p + a - 1, q + a - 1) /\ a <= p + a - 1 /\ q + a - 1 <= b
  <2>1. /\ p \in 1 .. m /\ q \in p .. m /\ (\A i \in p .. q : part[i] \in inner)
        /\ (p > 1 => part[p - 1] \notin inner) /\ (q < m => part[q + 1] \notin inner)
    BY <1>5, <1>6 DEF IsWord
  <2>2. PICK P, Q : P = p + a - 1 /\ Q = q + a - 1 OBVIOUS
  <2>3. P \in 1 .. L /\ Q \in P .. L /\ a <= P /\ Q <= b BY <1>2, <1>4, <2>1, <2>2
  <2>4. ASSUME NEW i \in P .. Q PROVE text[i] \in inner
    <3>1. i - a + 1 \in p .. q /\ i - a + 1 \in 1 .. m /\ (i - a + 1) + a - 1 = i
      BY <1>2, <2>1, <2>2
    <3> QED BY <1>5, <2>1, <3>1
  <2>5. P > 1 => text[P - 1] \notin inner
    <3>1. CASE p > 1
      <4>1. p - 1 \in 1 .. m /\ (p - 1) + a - 1 = P - 1 BY <1>2, <2>1, <2>2, <3>1
      <4> QED BY <1>5, <2>1, <3>1, <4>1
    <3>2. CASE ~(p > 1)
      <4>1. P = a BY <1>2, <2>1, <2>2, <3>2
      <4> QED BY <1>3, <4>1
    <3> QED BY <3>1, <3>2
  <2>6. Q < L => text[Q + 1] \notin inner
    <3>1. CASE q < m
      <4>1. q + 1 \in 1 .. m /\ (q + 1) + a - 1 = Q + 1 BY <1>2, <2>1, <2>2, <3>1
      <4> QED BY <1>5, <2>1, <3>1, <4>1
    <3>2. CASE ~(q < m)
      <4>1. Q = b BY <1>2, <1>4, <2>1, <2>2, <3>2
      <4> QED BY <1>3, <4>1
    <3> QED BY <3>1, <3>2
  <2>7. IsWord(text, inner, P, Q) BY <1>1, <2>3, <2>4, <2>5, <2>6 DEF IsWord
  <2> QED BY <2>2, <2>3, <2>7
<1>7. ASSUME IsWord(text, inner, p + a - 1, q + a - 1), a <= p + a - 1, q + a - 1 <= b
      PROVE  IsWord(part, inner, p, q)
  <2>1. PICK P, Q : P = p + a - 1 /\ Q = q + a - 1 OBVIOUS
  <2>2. /\ P \in 1 .. L /\ Q \in P .. L /\ (\A i \in P .. Q : text[i] \in inner)
        /\ (P > 1 => text[P - 1] \notin inner) /\ (Q < L => text[Q + 1] \notin inner)
    BY <1>1, <1>7, <2>1 DEF IsWord
  <2>3. p \in 1 .. m /\ q \in p .. m BY <1>2, <1>4, <1>7, <2>1, <2>2
  <2>4. ASSUME NEW i \in p .. q PROVE part[i] \in inner
    <3>1. i + a - 1 \in P .. Q /\ i \in 1 .. m BY <1>2, <2>1, <2>3
    <3> QED BY <1>5, <2>2, <3>1
  <2>5. p > 1 => part[p - 1] \notin inner
    <3> SUFFICES ASSUME p > 1 PROVE part[p - 1] \notin inner OBVIOUS
    <3>1. p - 1 \in 1 .. m /\ (p - 1) + a - 1 = P - 1 /\ P > 1 BY <1>2, <2>1, <2>3
    <3> QED BY <1>5, <2>2, <3>1
  <2>6. q < m => part[q + 1] \notin inner
    <3> SUFFICES ASSUME q < m PROVE part[q + 1] \notin inner OBVIOUS
    <3>1. q + 1 \in 1 .. m /\ (q + 1) + a - 1 = Q + 1 /\ Q < L BY <1>2, <1>4, <2>1, <2>3
    <3> QED BY <1>5, <2>2, <3>1
  <2> QED BY <1>5, <2>3, <2>4, <2>5, <2>6 DEF IsWord
<1> QED BY <1>6, <1>7

\* So the part has as many words as the window.
LEMMA WordsInWindow ==
    ASSUME NEW text \in Seq(Symbols), NEW inner, NEW a, NEW b, CutsNoWord(text, inner, a, b)
    PROVE  Cardinality(WordSpans(SubSeq(text, a, b), inner)) = Cardinality(WordsWithin(text, inner, a, b))
<1>0. PICK part : part = SubSeq(text, a, b) OBVIOUS
<1>1. a \in 1 .. Len(text) + 1 /\ b \in a - 1 .. Len(text) /\ Len(text) \in Nat BY DEF CutsNoWord
<1>2. part \in Seq(Symbols) BY <1>0, <1>1, PartSymbols
<1>3. PICK V, W : /\ V = WordSpans(part, inner) /\ W = WordsWithin(text, inner, a, b)
                  /\ W = {w \in WordSpans(text, inner) : Within(w, a, b)}
  BY DEF WordsWithin
<1>4. IsFiniteSet(V) /\ \A v \in V : v = <<v[1], v[2]>> /\ IsWord(part, inner, v[1], v[2])
  BY <1>2, <1>3, WordsByEnds
<1>5. \A v \in V : v[1] \in Int /\ v[2] \in Int
  <2>1. Len(part) \in Nat BY <1>2
  <2> QED BY <1>4, <2>1 DEF IsWord
<1>6. PICK h : h = [v \in V |-> <<v[1] + a - 1, v[2] + a - 1>>] OBVIOUS
<1>7. DOMAIN h = V /\ \A v \in V : h[v][1] = v[1] + a - 1 /\ h[v][2] = v[2] + a - 1 BY <1>6
<1>8. ASSUME NEW v \in V PROVE h[v] \in W
  <2>1. PICK p \in Int, q \in Int : v = <<p, q>> /\ v[1] = p /\ v[2] = q BY <1>4, <1>5
  <2>2. IsWord(text, inner, p + a - 1, q + a - 1) /\ a <= p + a - 1 /\ q + a - 1 <= b
    BY <1>0, <1>4, <2>1, ShiftedWord
  <2>3. <<p + a - 1, q + a - 1>> \in WordSpans(text, inner) BY <2>2, WordsByEnds
  <2>4. h[v] = <<p + a - 1, q + a - 1>> BY <1>6, <2>1
  <2>5. Within(h[v], a, b) BY <1>7, <2>1, <2>2 DEF Within
  <2> QED BY <1>3, <2>3, <2>4, <2>5
<1>9. ASSUME NEW x \in V, NEW y \in V, h[x] = h[y] PROVE x = y
  <2>1. x = <<x[1], x[2]>> /\ y = <<y[1], y[2]>> BY <1>4
  <2>2. x[1] = y[1] /\ x[2] = y[2]
    <3>1. PICK p \in Int, q \in Int, r \in Int, s \in Int : p = x[1] /\ q = x[2] /\ r = y[1] /\ s = y[2] BY <1>5
    <3>2. p + a - 1 = r + a - 1 /\ q + a - 1 = s + a - 1 BY <1>7, <1>9, <3>1
    <3>3. p = r /\ q = s BY <1>1, <3>2
    <3> QED BY <3>1, <3>3
  <2> QED BY <2>1, <2>2
<1>10. ASSUME NEW w \in W PROVE \E v \in V : h[v] = w
  <2>1. w = <<w[1], w[2]>> /\ IsWord(text, inner, w[1], w[2]) BY <1>3, WordsByEnds
  <2>2. a <= w[1] /\ w[2] <= b BY <1>3 DEF Within
  <2>3. PICK P \in Int, Q \in Int : w = <<P, Q>> /\ P = w[1] /\ Q = w[2]
    <3>1. w[1] \in Int /\ w[2] \in Int BY <1>1, <2>1 DEF IsWord
    <3> QED BY <2>1, <3>1
  <2>4. PICK p \in Int, q \in Int : p = P - a + 1 /\ q = Q - a + 1 BY <1>1
  <2>5. p + a - 1 = P /\ q + a - 1 = Q BY <1>1, <2>4
  <2>6. IsWord(text, inner, P, Q) /\ a <= P /\ Q <= b BY <2>1, <2>2, <2>3, Zenon
  <2>7. IsWord(part, inner, p, q) BY <1>0, <2>5, <2>6, ShiftedWord
  <2>8. PICK v : v = <<p, q>> /\ v[1] = p /\ v[2] = q
    <3>1. <<p, q>>[1] = p /\ <<p, q>>[2] = q OBVIOUS
    <3> QED BY <3>1, Zenon
  <2>9. v \in V BY <1>2, <1>3, <2>7, <2>8, WordsByEnds
  <2>10. h[v] = w
    <3>1. h[v] = <<v[1] + a - 1, v[2] + a - 1>> BY <1>6, <2>9
    <3>2. <<p + a - 1, q + a - 1>> = <<P, Q>> BY <2>5
    <3> QED BY <2>3, <2>8, <3>1, <3>2, Zenon
  <2> QED BY <2>9, <2>10
<1>11. h \in [V -> W] BY <1>6, <1>8
<1>12. Cardinality(V) = Cardinality(W) BY <1>4, <1>9, <1>10, <1>11, SameSize
<1> QED BY <1>0, <1>3, <1>12

\* Trimming a line takes no word away.
LEMMA WordsOfTrimmed ==
    ASSUME NEW line \in Seq(Symbols), NEW inner, Blank \notin inner
    PROVE  Cardinality(WordSpans(TrimSpace(line), inner)) = Cardinality(WordSpans(line, inner))
<1>1. PICK L \in Nat : L = Len(line) /\ DOMAIN line = 1 .. L OBVIOUS
<1>2. PICK solid \in SUBSET (1 .. L) : solid = {i \in DOMAIN line : line[i] # Blank} BY <1>1
<1>3. \A i \in 1 .. L : i \notin solid => line[i] \notin inner BY <1>1, <1>2
<1>4. CASE solid = {}
  <2>1. TrimSpace(line) = <<>> BY <1>2, <1>4, Zenon DEF TrimSpace
  <2>2. WordSpans(<<>>, inner) = {} BY DEF WordSpans, SpansOf
  <2>3. ASSUME NEW w \in WordSpans(line, inner) PROVE FALSE
    <3>1. IsWord(line, inner, w[1], w[2]) BY WordsByEnds
    <3>2. w[1] \in 1 .. L /\ line[w[1]] \in inner BY <1>1, <3>1 DEF IsWord
    <3> QED BY <1>3, <1>4, <3>2
  <2>4. WordSpans(line, inner) = {} BY <2>3
  <2> QED BY <2>1, <2>2, <2>4
<1>5. CASE solid # {}
  <2>1. PICK a \in 1 .. L, b \in 1 .. L :
          a = Min(solid) /\ b = Max(solid) /\ a \in solid /\ \A i \in solid : a <= i /\ i <= b
    BY <1>2, <1>5, MinPosition, MaxPosition
  <2>2. TrimSpace(line) = SubSeq(line, a, b) BY <1>2, <1>5, <2>1, Zenon DEF TrimSpace
  <2>3. CutsNoWord(line, inner, a, b)
    <3>1. a > 1 => line[a - 1] \notin inner
      <4> SUFFICES ASSUME a > 1 PROVE line[a - 1] \notin inner OBVIOUS
      <4>1. a - 1 \in 1 .. L /\ a - 1 \notin solid BY <2>1
      <4> QED BY <1>3, <4>1
    <3>2. b < L => line[b + 1] \notin inner
      <4> SUFFICES ASSUME b < L PROVE line[b + 1] \notin inner OBVIOUS
      <4>1. b + 1 \in 1 .. L /\ b + 1 \notin solid BY <2>1
      <4> QED BY <1>3, <4>1
    <3>3. a <= b BY <2>1
    <3>4. a \in 1 .. L + 1 /\ b \in a - 1 .. L BY <3>3
    <3> QED BY <1>1, <3>1, <3>2, <3>4 DEF CutsNoWord
  <2>4. \A w \in WordSpans(line, inner) : Within(w, a, b)
    <3> SUFFICES ASSUME NEW w \in WordSpans(line, inner) PROVE Within(w, a, b) OBVIOUS
    <3>1. IsWord(line, inner, w[1], w[2]) BY WordsByEnds
    <3>2. PICK p, q : p = w[1] /\ q = w[2] OBVIOUS
    <3>3. p \in 1 .. L /\ q \in 1 .. L /\ line[p] \in inner /\ line[q] \in inner
      <4>1. p \in 1 .. L /\ q \in p .. L /\ \A i \in p .. q : line[i] \in inner
        BY <1>1, <3>1, <3>2 DEF IsWord
      <4>2. p \in p .. q /\ q \in p .. q /\ q \in 1 .. L BY <4>1
      <4> QED BY <4>1, <4>2
    <3>4. p \in solid /\ q \in solid BY <1>3, <3>3
    <3>5. a <= p /\ q <= b BY <2>1, <3>4
    <3> QED BY <3>2, <3>5 DEF Within
  <2>5. WordsWithin(line, inner, a, b) = WordSpans(line, inner) BY <2>4 DEF WordsWithin
  <2>6. Cardinality(WordSpans(SubSeq(line, a, b), inner)) = Cardinality(WordsWithin(line, inner, a, b))
    BY <2>3, WordsInWindow
  <2> QED BY <2>2, <2>5, <2>6
<1> QED BY <1>4, <1>5

\* Each word is in one line.
LEMMA LineOfWord ==
    ASSUME NEW text \in Seq(Symbols), NEW inner, inner \subseteq Inner, NEW w \in WordSpans(text, inner)
    PROVE  /\ \E l \in LineSpans(text) : Within(w, l[1], l[2])
           /\ \A l, m \in LineSpans(text) : Within(w, l[1], l[2]) /\ Within(w, m[1], m[2]) => l = m
<1>1. PICK L \in Nat : L = Len(text) /\ DOMAIN text = 1 .. L OBVIOUS
<1>2. PICK p \in 1 .. L, q \in 1 .. L :
        p = w[1] /\ q = w[2] /\ p <= q /\ \A i \in p .. q : text[i] \in Inner
  <2>1. IsWord(text, inner, w[1], w[2]) BY WordsByEnds
  <2>2. PICK p, q : p = w[1] /\ q = w[2] OBVIOUS
  <2>3. p \in 1 .. L /\ q \in p .. L /\ \A i \in p .. q : text[i] \in Inner
    BY <1>1, <2>1, <2>2 DEF IsWord
  <2>4. p \in 1 .. L /\ q \in 1 .. L /\ p <= q BY <2>3
  <2> QED BY <2>2, <2>3, <2>4
<1>2a. p <= q BY <1>2
<1>3. ASSUME NEW l \in LineSpans(text)
      PROVE  /\ l = <<l[1], l[2]>> /\ l[1] \in 1 .. L /\ l[2] \in 0 .. L
             /\ \A i \in l[1] .. l[2] : text[i] \in Inner
             /\ l[1] > 1 => text[l[1] - 1] \notin Inner
             /\ l[2] < L => text[l[2] + 1] \notin Inner
  <2>1. l \in SpansOf(text, Inner) BY DEF LineSpans, Inner
  <2>2. l \in (1 .. L) \X (0 .. L) BY <1>1, <2>1 DEF SpansOf
  <2>3. l = <<l[1], l[2]>> /\ l[1] \in 1 .. L /\ l[2] \in 0 .. L BY <2>2
  <2> QED BY <1>1, <2>1, <2>3 DEF SpansOf
<1>4. \E l \in LineSpans(text) : Within(w, l[1], l[2])
  <2>1. PICK runs \in Seq(Seq(Symbols)) : runs = Split(text, Inner) /\ runs # <<>> BY RunsType
  <2>2. PICK h : RunSpans(text, Inner, runs, h) BY <2>1, RunsAreSpans
  <2>3. PICK i \in DOMAIN runs : h[i][1] <= p /\ p <= h[i][2] + 1 BY <1>1, <2>2 DEF RunSpans
  <2>4. h[i] \in LineSpans(text)
    <3>1. h[i] \in SpansOf(text, Inner) \/ (i = Len(runs) /\ runs[i] = <<>>) BY <2>2 DEF RunSpans
    <3>2. CASE i = Len(runs) /\ runs[i] = <<>>
      <4>1. h[i][1] = L + 1 BY <1>1, <2>2, <3>2 DEF RunSpans
      <4> QED BY <2>3, <4>1
    <3> QED BY <3>1, <3>2 DEF LineSpans, Inner
  <2>5. PICK x \in 1 .. L, y \in 0 .. L :
          /\ x = h[i][1] /\ y = h[i][2] /\ x <= p /\ p <= y + 1
          /\ y < L => text[y + 1] \notin Inner
    <3>1. /\ h[i][1] \in 1 .. L /\ h[i][2] \in 0 .. L
          /\ h[i][2] < L => text[h[i][2] + 1] \notin Inner
      BY <1>3, <2>4
    <3> QED BY <2>3, <3>1, Zenon
  <2>6. q <= y
    <3> SUFFICES ASSUME y < q PROVE FALSE OBVIOUS
    <3>1. y + 1 \in p .. q /\ y < L
      <4>1. p <= y + 1 BY <2>5
      <4> QED BY <4>1
    <3> QED BY <1>2, <2>5, <3>1
  <2>7. Within(w, h[i][1], h[i][2]) BY <1>2, <2>5, <2>6 DEF Within
  <2> QED BY <2>4, <2>7
<1>5. ASSUME NEW l \in LineSpans(text), NEW m \in LineSpans(text),
             Within(w, l[1], l[2]), Within(w, m[1], m[2])
      PROVE  l[1] <= m[1] /\ m[2] <= l[2]
  <2>1. PICK a \in 1 .. L, b \in 0 .. L : a = l[1] /\ b = l[2] BY <1>3
  <2>2. PICK c \in 1 .. L, d \in 0 .. L : c = m[1] /\ d = m[2] BY <1>3
  <2>3. a <= p /\ q <= b /\ c <= p /\ q <= d BY <1>2, <1>5, <2>1, <2>2 DEF Within
  <2>4. (a > 1 => text[a - 1] \notin Inner) /\ (b < L => text[b + 1] \notin Inner) BY <1>3, <2>1
  <2>5. \A i \in c .. d : text[i] \in Inner BY <1>3, <2>2
  <2>6. a <= c
    <3> SUFFICES ASSUME c < a PROVE FALSE OBVIOUS
    <3>1. a - 1 \in c .. d /\ a > 1 BY <1>2a, <2>3
    <3> QED BY <2>4, <2>5, <3>1
  <2>7. d <= b
    <3> SUFFICES ASSUME b < d PROVE FALSE OBVIOUS
    <3>1. b + 1 \in c .. d /\ b < L BY <1>2a, <2>3
    <3> QED BY <2>4, <2>5, <3>1
  <2> QED BY <2>1, <2>2, <2>6, <2>7
<1>6. ASSUME NEW l \in LineSpans(text), NEW m \in LineSpans(text),
             Within(w, l[1], l[2]), Within(w, m[1], m[2])
      PROVE  l = m
  <2>1. l[1] <= m[1] /\ m[2] <= l[2] /\ m[1] <= l[1] /\ l[2] <= m[2] BY <1>5, <1>6
  <2>2. l = <<l[1], l[2]>> /\ m = <<m[1], m[2]>> BY <1>3
  <2>3. l[1] \in Int /\ m[1] \in Int /\ l[2] \in Int /\ m[2] \in Int BY <1>3
  <2>4. l[1] = m[1] /\ l[2] = m[2] BY <2>1, <2>3
  <2> QED BY <2>2, <2>4
<1> QED BY <1>4, <1>6

\* A line cuts no word.
LEMMA LineCutsNoWord ==
    ASSUME NEW text \in Seq(Symbols), NEW inner, inner \subseteq Inner, NEW l \in LineSpans(text)
    PROVE  CutsNoWord(text, inner, l[1], l[2]) /\ At(text, l) \in Seq(Symbols)
<1>1. PICK L \in Nat : L = Len(text) /\ DOMAIN text = 1 .. L OBVIOUS
<1>2. l \in SpansOf(text, Inner) BY DEF LineSpans, Inner
<1>3. PICK a \in 1 .. L, b \in 0 .. L : a = l[1] /\ b = l[2] BY <1>1, <1>2 DEF SpansOf
<1>4. a <= b + 1 /\ (a > 1 => text[a - 1] \notin Inner) /\ (b < L => text[b + 1] \notin Inner)
  BY <1>1, <1>2, <1>3 DEF SpansOf
<1>5. a \in 1 .. L + 1 /\ b \in a - 1 .. L BY <1>4
<1>6. SubSeq(text, a, b) \in Seq(Symbols) BY <1>1, <1>5, PartSymbols
<1> QED BY <1>1, <1>3, <1>4, <1>5, <1>6 DEF CutsNoWord, At

\* The words of a text are those of its lines.
LEMMA WordsInLines ==
    ASSUME NEW text \in Seq(Symbols), NEW inner, inner \subseteq Inner,
           NEW f, f = [l \in LineSpans(text) |-> Cardinality(WordSpans(At(text, l), inner))]
    PROVE  Total(f) = Cardinality(WordSpans(text, inner))
<1>1. PICK S, R : S = WordSpans(text, inner) /\ R = LineSpans(text) OBVIOUS
<1>2. IsFiniteSet(S) /\ IsFiniteSet(R) BY <1>1, WordsByEnds DEF LineSpans
<1>3. PICK ones : ones = [w \in S |-> 1] OBVIOUS
<1>4. ones \in [S -> Int] /\ \A w \in S : ones[w] = 1 BY <1>3
<1>5. Total(ones) = Cardinality(S)
  <2>1. S \in SUBSET S /\ \A w \in S : ones[w] = IF w \in S THEN 1 ELSE 0 BY <1>4
  <2> QED BY <1>2, <1>4, <2>1, SumCounts
<1>6. PICK p : p = [w \in S |-> CHOOSE l \in R : Within(w, l[1], l[2])] OBVIOUS
<1>7. ASSUME NEW w \in S
      PROVE  p[w] \in R /\ \A l \in R : p[w] = l <=> Within(w, l[1], l[2])
  <2>1. /\ \E l \in R : Within(w, l[1], l[2])
        /\ \A l, m \in R : Within(w, l[1], l[2]) /\ Within(w, m[1], m[2]) => l = m
    BY <1>1, LineOfWord
  <2>2. p[w] = CHOOSE l \in R : Within(w, l[1], l[2]) BY <1>6
  <2>3. p[w] \in R /\ Within(w, p[w][1], p[w][2]) BY <2>1, <2>2
  <2> QED BY <2>1, <2>3
<1>8. p \in [S -> R] BY <1>6, <1>7
<1>9. PICK g : g = [z \in R |-> Total(PartOf(ones, p, z))] OBVIOUS
<1>10. Total(ones) = Total(g)
  <2>1. Total(ones) = Total([z \in R |-> Total(PartOf(ones, p, z))]) BY <1>2, <1>4, <1>8, SumByParts
  <2> QED BY <1>9, <2>1
<1>11. ASSUME NEW z \in R PROVE g[z] = f[z]
  <2>1. PICK T \in SUBSET S : T = WordsWithin(text, inner, z[1], z[2]) /\ T = {w \in S : Within(w, z[1], z[2])}
    BY <1>1 DEF WordsWithin
  <2>2. PICK e : e = PartOf(ones, p, z) OBVIOUS
  <2>3. e = [w \in T |-> 1]
    <3>1. {y \in DOMAIN ones : p[y] = z} = T BY <1>3, <1>7, <2>1
    <3>2. e = [w \in T |-> ones[w]] BY <2>2, <3>1 DEF PartOf
    <3> QED BY <1>3, <3>2
  <2>4. Total(e) = Cardinality(T)
    <3>1. IsFiniteSet(T) BY <1>2, FS_Subset
    <3>2. e \in [T -> Int] /\ T \in SUBSET T /\ \A w \in T : e[w] = IF w \in T THEN 1 ELSE 0 BY <2>3
    <3> QED BY <3>1, <3>2, SumCounts
  <2>5. Cardinality(T) = Cardinality(WordSpans(At(text, z), inner))
    <3>1. z \in LineSpans(text) BY <1>1
    <3>2. CutsNoWord(text, inner, z[1], z[2]) BY <3>1, LineCutsNoWord
    <3>3. Cardinality(WordSpans(SubSeq(text, z[1], z[2]), inner)) = Cardinality(WordsWithin(text, inner, z[1], z[2]))
      BY <3>2, WordsInWindow
    <3> QED BY <2>1, <3>3, Zenon DEF At
  <2> QED BY <1>1, <1>9, <2>2, <2>4, <2>5
<1>12. g = f
  <2>1. DOMAIN g = R /\ DOMAIN f = R /\ g = [z \in R |-> g[z]] /\ f = [z \in R |-> f[z]] BY <1>1, <1>9
  <2> QED BY <1>11, <2>1
<1> QED BY <1>1, <1>5, <1>10, <1>12

-----------------------------------------------------------------------------
(* Totals *)

\* The weight of a text is that of its lines.
LEMMA WeightOfText ==
    ASSUME NEW job \in JobNames, NEW text \in Seq(Symbols), NEW F, IsFiniteSet(F),
           NEW f, f = [l \in LineSpans(text) |-> WeightOf(JobMap(job, At(text, l)), F)]
    PROVE  WeightOf(Mapped(job, text), F) = Total(f) /\ f \in [LineSpans(text) -> Int]
<1>0. PICK A \in SUBSET JobPairs : A = PairsOf(job)
  <2>1. PairsOf(job) \in SUBSET JobPairs BY DEF PairsOf
  <2> QED BY <2>1
<1>1. PICK lines \in Seq(Seq(Symbols)) : lines = LinesOf(text) BY LinesType
<1>2. PICK ss : ss = [i \in DOMAIN lines |-> JobMap(job, lines[i])] OBVIOUS
<1>3. ss \in Seq(Seq(A)) /\ DOMAIN ss = DOMAIN lines BY <1>0, <1>2, MappedLines
<1>4. Mapped(job, text) = FlattenSeq(ss) BY <1>1, <1>2 DEF Mapped
<1>5. PICK S, R : S = DOMAIN lines /\ R = LineSpans(text) OBVIOUS
<1>6. PICK h \in Bijection(S, R) : \A i \in S : lines[i] = At(text, h[i])
  <2>1. \E h \in Bijection(DOMAIN lines, LineSpans(text)) : \A i \in DOMAIN lines : lines[i] = At(text, h[i])
    BY <1>1, LinesAreSpans
  <2> QED BY <1>5, <2>1, Zenon
<1>7. h \in [S -> R] /\ \A z \in R : \E i \in S : h[i] = z BY DEF Bijection, Injection, Surjection
<1>8. IsFiniteSet(S) /\ IsFiniteSet(R)
  <2>1. S = 1 .. Len(lines) /\ Len(lines) \in Nat BY <1>5
  <2>2. IsFiniteSet(S) BY <2>1, FS_Interval
  <2> QED BY <1>5, <2>2, WordsByEnds DEF LineSpans
<1>9. PICK e : e = [i \in DOMAIN ss |-> WeightOf(ss[i], F)] OBVIOUS
<1>10. WeightOf(FlattenSeq(ss), F) = Total(e) BY <1>3, <1>9, WeightOfFlat
<1>11. ASSUME NEW i \in S PROVE e[i] = f[h[i]] /\ e[i] \in Int
  <2>1. e[i] = WeightOf(ss[i], F) /\ ss[i] = JobMap(job, lines[i]) /\ ss[i] \in Seq(A)
    BY <1>2, <1>3, <1>5, <1>9
  <2>2. h[i] \in LineSpans(text) /\ lines[i] = At(text, h[i]) BY <1>5, <1>6, <1>7
  <2>3. WeightOf(ss[i], F) \in Int BY <2>1, WeightSteps
  <2> QED BY <2>1, <2>2, <2>3
<1>12. f \in [R -> Int]
  <2>1. ASSUME NEW z \in R PROVE f[z] \in Int
    <3>1. PICK i \in S : h[i] = z BY <1>7
    <3> QED BY <1>11, <3>1
  <2> QED BY <1>5, <2>1
<1>13. e = Along(f, h)
  <2>1. DOMAIN e = S /\ DOMAIN h = S /\ e = [i \in S |-> e[i]] BY <1>3, <1>5, <1>7, <1>9
  <2>2. Along(f, h) = [i \in S |-> f[h[i]]] BY <2>1 DEF Along
  <2> QED BY <1>11, <2>1, <2>2
<1>14. Total(e) = Total(f) BY <1>8, <1>12, <1>13, SumOverBijection
<1> QED BY <1>4, <1>5, <1>10, <1>12, <1>14

\* Of texts whose weights are counts.
LEMMA WeightOfAll ==
    ASSUME NEW job \in JobNames, NEW texts \in Seq(Seq(Symbols)), NEW F, IsFiniteSet(F),
           NEW f, f = [i \in DOMAIN texts |-> WeightOf(Mapped(job, texts[i]), F)]
    PROVE  WeightOf(AllOf(job, texts), F) = Total(f)
<1>0. PICK A \in SUBSET JobPairs : A = PairsOf(job)
  <2>1. PairsOf(job) \in SUBSET JobPairs BY DEF PairsOf
  <2> QED BY <2>1
<1>1. PICK ss : ss = [i \in DOMAIN texts |-> Mapped(job, texts[i])] OBVIOUS
<1>2. ss \in Seq(Seq(A)) /\ DOMAIN ss = DOMAIN texts
  <2>1. \A i \in DOMAIN texts : Mapped(job, texts[i]) \in Seq(A)
    <3>1. \A i \in DOMAIN texts : texts[i] \in Seq(Symbols) OBVIOUS
    <3> QED BY <1>0, <3>1, MappedSums
  <2>2. ss \in [DOMAIN texts -> Seq(A)] BY <1>1, <2>1
  <2>3. ss \in Seq(Seq(A)) BY <2>2, MappedSeq
  <2> QED BY <2>2, <2>3
<1>3. WeightOf(FlattenSeq(ss), F) = Total([i \in DOMAIN ss |-> WeightOf(ss[i], F)]) BY <1>2, WeightOfFlat
<1>4. [i \in DOMAIN ss |-> WeightOf(ss[i], F)] = f BY <1>1, <1>2
<1> QED BY <1>1, <1>3, <1>4 DEF AllOf

\* Pairs that count one each weigh as many as they are.
LEMMA OnesWeigh ==
    ASSUME NEW F, IsFiniteSet(F), NEW A \in SUBSET JobPairs,
           \A a \in A : a.key \in F /\ a.value = 1, NEW s \in Seq(A)
    PROVE  WeightOf(s, F) = Len(s)
<1> DEFINE P == {u \in Seq(A) : WeightOf(u, F) = Len(u)}
<1>1. <<>> \in P
  <2>1. <<>> \in Seq(A) /\ Len(<<>>) = 0 OBVIOUS
  <2>2. WeightOf(<<>>, F) = 0 BY WeightSteps
  <2> QED BY <2>1, <2>2
<1>2. ASSUME NEW u \in Seq(A), NEW e \in A, u \in P PROVE Append(u, e) \in P
  <2>1. Append(u, e) \in Seq(A) /\ Len(Append(u, e)) = Len(u) + 1 OBVIOUS
  <2>2. WeightOf(Append(u, e), F) = WeightOf(u, F) + (IF e.key \in F THEN e.value ELSE 0)
    BY WeightSteps
  <2>3. e.key \in F /\ e.value = 1 OBVIOUS
  <2>4. WeightOf(Append(u, e), F) = Len(u) + 1 BY <1>2, <2>2, <2>3
  <2> QED BY <2>1, <2>4
<1>3. \A u \in Seq(A) : u \in P
  <2> HIDE DEF P
  <2> QED BY <1>1, <1>2, InductionOnSeq
<1> QED BY <1>3

\* Every key of a line is one of the texts'.
LEMMA LineKeys ==
    ASSUME NEW job \in JobNames, NEW texts \in Seq(Seq(Symbols)), NEW i \in DOMAIN texts,
           NEW l \in LineSpans(texts[i])
    PROVE  KeysOf(JobMap(job, At(texts[i], l))) \subseteq KeysOf(AllOf(job, texts))
<1>1. PICK text \in Seq(Symbols) : text = texts[i] OBVIOUS
<1>2. KeysOf(Mapped(job, text)) = UNION {KeysOf(JobMap(job, At(text, span))) : span \in LineSpans(text)}
  BY MappedSums
<1>3. KeysOf(AllOf(job, texts)) = UNION {KeysOf(Mapped(job, texts[j])) : j \in DOMAIN texts}
  BY AllOfSums
<1>4. KeysOf(JobMap(job, At(text, l))) \subseteq KeysOf(Mapped(job, text)) BY <1>1, <1>2
<1>5. KeysOf(Mapped(job, texts[i])) \subseteq KeysOf(AllOf(job, texts)) BY <1>3
<1> QED BY <1>1, <1>4, <1>5

\* Of a mapper that emits ones, every pair weighs.
LEMMA OnesOfLine ==
    ASSUME NEW F, IsFiniteSet(F), NEW s \in Seq(JobPairs), KeysOf(s) \subseteq F,
           \A i \in DOMAIN s : s[i].value = 1
    PROVE  WeightOf(s, F) = Len(s)
<1>1. PICK A \in SUBSET JobPairs : A = {kv \in JobPairs : kv.key \in F /\ kv.value = 1} OBVIOUS
<1>2. ASSUME NEW i \in DOMAIN s PROVE s[i] \in A
  <2>1. s[i] \in JobPairs /\ s[i].value = 1 OBVIOUS
  <2>2. s[i].key \in KeysOf(s) BY DEF KeysOf, Range
  <2> QED BY <1>1, <2>1, <2>2
<1>3. s \in Seq(A)
  <2>1. s \in [DOMAIN s -> A] BY <1>2
  <2> QED BY <2>1, MappedSeq
<1>4. \A a \in A : a.key \in F /\ a.value = 1 BY <1>1
<1> QED BY <1>3, <1>4, OnesWeigh

\* Sequences with the same positions have the same length.
LEMMA SameLength ==
    ASSUME NEW A, NEW s \in Seq(A), NEW B, NEW t \in Seq(B), DOMAIN s = DOMAIN t
    PROVE  Len(s) = Len(t)
<1>1. PICK m \in Nat : m = Len(s) /\ DOMAIN s = 1 .. m OBVIOUS
<1>2. PICK n \in Nat : n = Len(t) /\ DOMAIN t = 1 .. n OBVIOUS
<1>3. 1 .. m = 1 .. n BY <1>1, <1>2, Zenon
<1>4. m = n
  <2>1. ~(m < n)
    <3> SUFFICES ASSUME m < n PROVE FALSE OBVIOUS
    <3>1. n \in 1 .. n /\ n \notin 1 .. m OBVIOUS
    <3> QED BY <1>3, <3>1
  <2>2. ~(n < m)
    <3> SUFFICES ASSUME n < m PROVE FALSE OBVIOUS
    <3>1. m \in 1 .. m /\ m \notin 1 .. n OBVIOUS
    <3> QED BY <1>3, <3>1
  <2> QED BY <2>1, <2>2
<1> QED BY <1>1, <1>2, <1>4

\* A line of wordcount weighs its words.
LEMMA WordCountWeighs ==
    ASSUME NEW line \in Seq(Symbols), NEW F, IsFiniteSet(F), KeysOf(JobMap("wordcount", line)) \subseteq F
    PROVE  WeightOf(JobMap("wordcount", line), F) = Cardinality(WordSpans(line, Alnum))
<1>1. JobMap("wordcount", line) = WordCountMap(line) BY DEF JobMap
<1>2. PICK s \in Seq(JobPairs) : s = WordCountMap(line) BY WordCountType
<1>3. PICK B, words : words \in Seq(B) /\ words = Fields(line, Alnum)
  <2>1. Fields(line, Alnum) \in Seq(Seq(Symbols \cap Alnum) \ {<<>>}) BY FieldsType, Zenon
  <2> QED BY <2>1, Zenon
<1>4. s = [i \in DOMAIN words |-> Pair(Lowered(words[i]), 1)] BY <1>2, <1>3 DEF WordCountMap
<1>5. DOMAIN s = DOMAIN words /\ \A i \in DOMAIN s : s[i].value = 1 BY <1>4 DEF Pair
<1>6. Len(s) = Len(words) BY <1>3, <1>5, SameLength, Zenon
<1>7. WeightOf(s, F) = Len(s) BY <1>1, <1>2, <1>5, OnesOfLine
<1>8. Len(Fields(line, Alnum)) = Cardinality(WordSpans(line, Alnum)) BY FieldsAreWords
<1> QED BY <1>1, <1>2, <1>3, <1>6, <1>7, <1>8

\* A line of langdetect weighs one if it is long enough and no header.
Judged(line) == Cardinality(WordSpans(line, Letters)) >= MinTokens /\ ~IsWARCHeader(TrimSpace(line))
LEMMA LangDetectWeighs ==
    ASSUME NEW line \in Seq(Symbols), NEW F, IsFiniteSet(F), KeysOf(JobMap("langdetect", line)) \subseteq F
    PROVE  WeightOf(JobMap("langdetect", line), F) = IF Judged(line) THEN 1 ELSE 0
<1>1. JobMap("langdetect", line) = LangDetectMap(line) BY DEF JobMap
<1>2. PICK s \in Seq(JobPairs) : s = LangDetectMap(line) BY LangDetectType
<1>3. PICK trimmed \in Seq(Symbols) : trimmed = TrimSpace(line) BY TrimType
<1>4. PICK n \in Nat : n = Len(Fields(trimmed, Letters))
  <2>1. Fields(trimmed, Letters) \in Seq(Seq(Symbols \cap Letters) \ {<<>>}) BY FieldsType, Zenon
  <2> QED BY <2>1
<1>5. \E k : s = IF trimmed = <<>> \/ IsWARCHeader(trimmed) \/ n < MinTokens THEN <<>> ELSE << Pair(k, 1) >>
  BY <1>2, <1>3, <1>4, Zenon DEF LangDetectMap
<1>6. n = Cardinality(WordSpans(line, Letters))
  <2>1. Blank \notin Letters BY DEF Blank, Letters
  <2>2. n = Cardinality(WordSpans(trimmed, Letters)) BY <1>4, FieldsAreWords
  <2>3. Cardinality(WordSpans(TrimSpace(line), Letters)) = Cardinality(WordSpans(line, Letters))
    BY <2>1, WordsOfTrimmed
  <2> QED BY <1>3, <2>2, <2>3
<1>7. trimmed = <<>> => n < MinTokens
  <2> SUFFICES ASSUME trimmed = <<>> PROVE n < MinTokens OBVIOUS
  <2>1. n = Cardinality(WordSpans(<<>>, Letters)) BY <1>4, FieldsAreWords
  <2>2. WordSpans(<<>>, Letters) = {} BY DEF WordSpans, SpansOf
  <2>3. Cardinality({}) = 0 BY FS_EmptySet
  <2>4. n = 0 BY <2>1, <2>2, <2>3
  <2> QED BY <2>4, TextJobsAssumption
<1>8. MinTokens \in Nat BY TextJobsAssumption
<1>9. Judged(line) <=> ~(trimmed = <<>> \/ IsWARCHeader(trimmed) \/ n < MinTokens)
  <2>1. Judged(line) <=> n >= MinTokens /\ ~IsWARCHeader(trimmed) BY <1>3, <1>6, Zenon DEF Judged
  <2>2. n >= MinTokens <=> ~(n < MinTokens) BY <1>8
  <2> QED BY <1>7, <2>1, <2>2, Zenon
<1>10. \E k : s = IF Judged(line) THEN << Pair(k, 1) >> ELSE <<>> BY <1>5, <1>9, Zenon
<1>11. Len(s) = (IF Judged(line) THEN 1 ELSE 0) /\ \A i \in DOMAIN s : s[i].value = 1
  <2>1. PICK k : s = IF Judged(line) THEN << Pair(k, 1) >> ELSE <<>> BY <1>10
  <2>2. CASE Judged(line)
    <3>1. s = << Pair(k, 1) >> BY <2>1, <2>2
    <3>2. Len(s) = 1 /\ DOMAIN s = 1 .. 1 /\ s[1] = Pair(k, 1) BY <3>1
    <3>3. \A i \in DOMAIN s : s[i] = Pair(k, 1) BY <3>2
    <3> QED BY <2>2, <3>2, <3>3 DEF Pair
  <2>3. CASE ~Judged(line)
    <3>1. s = <<>> BY <2>1, <2>3
    <3>2. Len(s) = 0 /\ DOMAIN s = {} BY <3>1
    <3> QED BY <2>3, <3>2
  <2> QED BY <2>2, <2>3
<1>12. WeightOf(s, F) = Len(s) BY <1>1, <1>2, <1>11, OnesOfLine
<1> QED BY <1>1, <1>2, <1>11, <1>12

\* What a pair adds to a weight, and the weight of five pairs.
Worth(e, F) == IF e.key \in F THEN e.value ELSE 0
LEMMA FivePairs ==
    ASSUME NEW F, IsFiniteSet(F), NEW A, A = JobPairs,
           NEW e1 \in A, NEW e2 \in A, NEW e3 \in A, NEW e4 \in A, NEW e5 \in A
    PROVE  WeightOf(<<e1, e2, e3, e4, e5>>, F)
             = Worth(e1, F) + Worth(e2, F) + Worth(e3, F) + Worth(e4, F) + Worth(e5, F)
<1>1. \A s \in Seq(A), e \in A : WeightOf(Append(s, e), F) = WeightOf(s, F) + Worth(e, F)
  BY WeightSteps DEF Worth
<1>2. WeightOf(<<>>, F) = 0 BY WeightSteps
<1>3. \A e \in A : Worth(e, F) \in Nat BY PairValues DEF Worth
<1>4. /\ <<>> \in Seq(A) /\ <<e1>> \in Seq(A) /\ <<e1, e2>> \in Seq(A) /\ <<e1, e2, e3>> \in Seq(A)
      /\ <<e1, e2, e3, e4>> \in Seq(A)
  OBVIOUS
<1>5. /\ <<e1>> = Append(<<>>, e1) /\ <<e1, e2>> = Append(<<e1>>, e2)
      /\ <<e1, e2, e3>> = Append(<<e1, e2>>, e3) /\ <<e1, e2, e3, e4>> = Append(<<e1, e2, e3>>, e4)
      /\ <<e1, e2, e3, e4, e5>> = Append(<<e1, e2, e3, e4>>, e5)
  OBVIOUS
<1>6. WeightOf(<<e1>>, F) = 0 + Worth(e1, F)
  <2>1. WeightOf(Append(<<>>, e1), F) = WeightOf(<<>>, F) + Worth(e1, F) BY <1>1, <1>4, Zenon
  <2>2. <<e1>> = Append(<<>>, e1) BY <1>5, Zenon
  <2> QED BY <1>2, <2>1, <2>2, Zenon
<1>7. WeightOf(<<e1, e2>>, F) = WeightOf(<<e1>>, F) + Worth(e2, F) BY <1>1, <1>4, <1>5, Zenon
<1>8. WeightOf(<<e1, e2, e3>>, F) = WeightOf(<<e1, e2>>, F) + Worth(e3, F) BY <1>1, <1>4, <1>5, Zenon
<1>9. WeightOf(<<e1, e2, e3, e4>>, F) = WeightOf(<<e1, e2, e3>>, F) + Worth(e4, F)
  BY <1>1, <1>4, <1>5, Zenon
<1>10. WeightOf(<<e1, e2, e3, e4, e5>>, F) = WeightOf(<<e1, e2, e3, e4>>, F) + Worth(e5, F)
  BY <1>1, <1>4, <1>5, Zenon
<1>11. 0 + Worth(e1, F) = Worth(e1, F) BY <1>3
<1> QED BY <1>6, <1>7, <1>8, <1>9, <1>10, <1>11

\* The keys of docdensity.
StatLines == <<"stat:lines">>
StatTotal == <<"stat:chars.total">>
StatAlnum == <<"stat:chars.alnum">>
StatOther == <<"stat:chars.other">>
IsHist(k) == k[1] = "hist:len."

\* What a line of docdensity counts.
DensityOf(s, n, a, k) ==
    s = <<>> \/ s = << Pair(StatLines, 1), Pair(StatTotal, n), Pair(StatAlnum, a),
                       Pair(StatOther, n - a), Pair(k, 1) >>
LEMMA DensityPairs ==
    ASSUME NEW line \in Seq(Symbols), NEW s, s = DocDensityMap(line)
    PROVE  \E n, a \in Nat, k \in Keys : DensityOf(s, n, a, k) /\ n - a \in Nat /\ IsHist(k)
<1>1. PICK trimmed \in Seq(Symbols) : trimmed = TrimSpace(line) BY TrimType, Zenon
<1>2. PICK n \in Nat : n = Len(trimmed) /\ DOMAIN trimmed = 1 .. n BY <1>1
<1>3. PICK chars \in SUBSET (1 .. n) : chars = {i \in DOMAIN trimmed : trimmed[i] \in Alnum} BY <1>2
<1>4. PICK a \in Nat : a = Cardinality(chars) /\ n - a \in Nat
  <2>1. IsFiniteSet(1 .. n) /\ Cardinality(1 .. n) = n
    <3>1. IsFiniteSet(1 .. n) /\ Cardinality(1 .. n) = IF 1 > n THEN 0 ELSE n - 1 + 1 BY FS_Interval
    <3>2. (IF 1 > n THEN 0 ELSE n - 1 + 1) = n OBVIOUS
    <3> QED BY <3>1, <3>2
  <2>2. IsFiniteSet(chars) /\ Cardinality(chars) <= Cardinality(1 .. n) BY <2>1, FS_Subset
  <2>3. Cardinality(chars) \in Nat BY <2>2, FS_CardinalityType
  <2>4. PICK a \in Nat : a = Cardinality(chars) BY <2>3
  <2>5. a <= n BY <2>1, <2>2, <2>4
  <2> QED BY <2>4, <2>5
<1>5. PICK k : k = LengthBucket(n) OBVIOUS
<1>6. IsHist(k) /\ k \in Keys
  <2>1. PICK c \in Nat : c = Cardinality({b \in LengthBounds : b <= n})
    <3>1. IsFiniteSet({b \in LengthBounds : b <= n}) BY TextJobsAssumption, FS_Subset
    <3> QED BY <3>1, FS_CardinalityType
  <2>2. PICK t \in Seq(KeyParts) : t = [i \in 1 .. c |-> "+"]
    <3>1. [i \in 1 .. c |-> "+"] \in Seq(KeyParts) BY DEF KeyParts
    <3> QED BY <3>1, Zenon
  <2>3. k = <<"hist:len.">> \o t BY <1>5, <2>1, <2>2 DEF LengthBucket
  <2>4. PICK u \in Seq(KeyParts) : u = <<"hist:len.">> /\ Len(u) = 1 /\ u[1] = "hist:len."
    <3>1. <<"hist:len.">> \in Seq(KeyParts) /\ Len(<<"hist:len.">>) = 1 /\ <<"hist:len.">>[1] = "hist:len."
      BY DEF KeyParts
    <3> QED BY <3>1, Zenon
  <2>5. k \in Seq(KeyParts) /\ k[1] = "hist:len." /\ Len(k) # 0
    <3>1. u \o t \in Seq(KeyParts) /\ Len(u \o t) = 1 + Len(t) /\ (u \o t)[1] = u[1] BY <2>4
    <3>2. Len(t) \in Nat OBVIOUS
    <3> QED BY <2>3, <2>4, <3>1, <3>2
  <2> QED BY <2>5 DEF IsHist, Keys, EmptyKey
<1>7. DensityOf(s, n, a, k)
  BY <1>1, <1>2, <1>3, <1>4, <1>5, Zenon
  DEF DensityOf, DocDensityMap, StatLines, StatTotal, StatAlnum, StatOther
<1> QED BY <1>4, <1>6, <1>7

\* Two kinds of characters make up all of them, and each line is in one bucket.
DensityAgrees(s, D) ==
    /\ WeightOf(s, {StatAlnum, StatOther} \cap D) = WeightOf(s, {StatTotal} \cap D)
    /\ WeightOf(s, {k \in D : IsHist(k)}) = WeightOf(s, {StatLines} \cap D)
LEMMA DocDensityWeighs ==
    ASSUME NEW line \in Seq(Symbols), NEW s, s = JobMap("docdensity", line),
           NEW D, IsFiniteSet(D), KeysOf(s) \subseteq D
    PROVE  DensityAgrees(s, D)
<1>0. s = DocDensityMap(line) BY DEF JobMap
<1>1. PICK n, a \in Nat, k \in Keys : DensityOf(s, n, a, k) /\ n - a \in Nat /\ IsHist(k)
  BY <1>0, DensityPairs
<1>2. PICK F1, F2, F3, F4 : /\ F1 = {StatAlnum, StatOther} \cap D /\ F2 = {StatTotal} \cap D
                            /\ F3 = {x \in D : IsHist(x)} /\ F4 = {StatLines} \cap D
  OBVIOUS
<1>3. IsFiniteSet(F1) /\ IsFiniteSet(F2) /\ IsFiniteSet(F3) /\ IsFiniteSet(F4) BY <1>2, FS_Subset
<1>4. CASE s = <<>>
  <2>1. WeightOf(s, F1) = 0 /\ WeightOf(s, F2) = 0 /\ WeightOf(s, F3) = 0 /\ WeightOf(s, F4) = 0
    BY <1>3, <1>4, WeightSteps
  <2> QED BY <1>2, <2>1, Zenon DEF DensityAgrees
<1>5. CASE s # <<>>
  <2>1. PICK e1, e2, e3, e4, e5 :
          /\ e1 = Pair(StatLines, 1) /\ e2 = Pair(StatTotal, n) /\ e3 = Pair(StatAlnum, a)
          /\ e4 = Pair(StatOther, n - a) /\ e5 = Pair(k, 1)
    OBVIOUS
  <2>2. s = <<e1, e2, e3, e4, e5>> BY <1>1, <1>5, <2>1, Zenon DEF DensityOf
  <2>3. /\ e1.key = StatLines /\ e1.value = 1 /\ e2.key = StatTotal /\ e2.value = n
        /\ e3.key = StatAlnum /\ e3.value = a /\ e4.key = StatOther /\ e4.value = n - a
        /\ e5.key = k /\ e5.value = 1
    BY <2>1 DEF Pair
  <2>4. StatLines \in Keys /\ StatTotal \in Keys /\ StatAlnum \in Keys /\ StatOther \in Keys
    BY DEF Keys, EmptyKey, KeyParts, StatLines, StatTotal, StatAlnum, StatOther
  <2>5. e1 \in JobPairs /\ e2 \in JobPairs /\ e3 \in JobPairs /\ e4 \in JobPairs /\ e5 \in JobPairs
    BY <1>1, <2>1, <2>4 DEF JobPairs, Pair
  <2>6. StatLines \in D /\ StatTotal \in D /\ StatAlnum \in D /\ StatOther \in D /\ k \in D
    <3>1. s[1] = e1 /\ s[2] = e2 /\ s[3] = e3 /\ s[4] = e4 /\ s[5] = e5 /\ DOMAIN s = 1 .. 5 BY <2>2
    <3>2. e1 \in Range(s) /\ e2 \in Range(s) /\ e3 \in Range(s) /\ e4 \in Range(s) /\ e5 \in Range(s)
      BY <3>1 DEF Range
    <3>3. \A e \in Range(s) : e.key \in D BY DEF KeysOf
    <3> QED BY <2>3, <3>2, <3>3
  <2>7. /\ StatLines[1] = "stat:lines" /\ StatTotal[1] = "stat:chars.total"
        /\ StatAlnum[1] = "stat:chars.alnum" /\ StatOther[1] = "stat:chars.other"
    BY DEF StatLines, StatTotal, StatAlnum, StatOther
  <2>8. /\ StatLines # StatTotal /\ StatLines # StatAlnum /\ StatLines # StatOther /\ StatTotal # StatAlnum
        /\ StatTotal # StatOther /\ StatAlnum # StatOther
    BY <2>7
  <2>9. /\ k # StatLines /\ k # StatTotal /\ k # StatAlnum /\ k # StatOther
        /\ ~IsHist(StatLines) /\ ~IsHist(StatTotal) /\ ~IsHist(StatAlnum) /\ ~IsHist(StatOther)
    BY <1>1, <2>7 DEF IsHist
  <2>10. /\ e3.key \in F1 /\ e4.key \in F1 /\ e1.key \notin F1 /\ e2.key \notin F1 /\ e5.key \notin F1
         /\ e2.key \in F2 /\ e1.key \notin F2 /\ e3.key \notin F2 /\ e4.key \notin F2 /\ e5.key \notin F2
    BY <1>2, <2>3, <2>6, <2>8, <2>9
  <2>11. /\ e5.key \in F3 /\ e1.key \notin F3 /\ e2.key \notin F3 /\ e3.key \notin F3 /\ e4.key \notin F3
         /\ e1.key \in F4 /\ e2.key \notin F4 /\ e3.key \notin F4 /\ e4.key \notin F4 /\ e5.key \notin F4
    BY <1>1, <1>2, <2>3, <2>6, <2>8, <2>9
  <2>12. \A F : IsFiniteSet(F) => WeightOf(s, F)
                = Worth(e1, F) + Worth(e2, F) + Worth(e3, F) + Worth(e4, F) + Worth(e5, F)
    BY <2>2, <2>5, FivePairs
  <2>13. WeightOf(s, F1) = 0 + 0 + a + (n - a) + 0 BY <1>3, <2>3, <2>10, <2>12, Zenon DEF Worth
  <2>14. WeightOf(s, F2) = 0 + n + 0 + 0 + 0 BY <1>3, <2>3, <2>10, <2>12, Zenon DEF Worth
  <2>15. WeightOf(s, F3) = 0 + 0 + 0 + 0 + 1 BY <1>3, <2>3, <2>11, <2>12, Zenon DEF Worth
  <2>16. WeightOf(s, F4) = 1 + 0 + 0 + 0 + 0 BY <1>3, <2>3, <2>11, <2>12, Zenon DEF Worth
  <2>17. 0 + 0 + a + (n - a) + 0 = 0 + n + 0 + 0 + 0 /\ 0 + 0 + 0 + 0 + 1 = 1 + 0 + 0 + 0 + 0 OBVIOUS
  <2> QED BY <1>2, <2>13, <2>14, <2>15, <2>16, <2>17, Zenon DEF DensityAgrees
<1> QED BY <1>4, <1>5

\* Texts whose lines weigh the same for two sets of keys weigh the same.
LEMMA SameWeights ==
    ASSUME NEW job \in JobNames, NEW texts \in Seq(Seq(Symbols)),
           NEW F, IsFiniteSet(F), NEW G, IsFiniteSet(G),
           \A i \in DOMAIN texts : \A l \in LineSpans(texts[i]) :
              WeightOf(JobMap(job, At(texts[i], l)), F) = WeightOf(JobMap(job, At(texts[i], l)), G)
    PROVE  WeightOf(AllOf(job, texts), F) = WeightOf(AllOf(job, texts), G)
<1>1. ASSUME NEW i \in DOMAIN texts
      PROVE  WeightOf(Mapped(job, texts[i]), F) = WeightOf(Mapped(job, texts[i]), G)
  <2>1. PICK t \in Seq(Symbols) : t = texts[i] OBVIOUS
  <2>2. PICK f : f = [l \in LineSpans(t) |-> WeightOf(JobMap(job, At(t, l)), F)] OBVIOUS
  <2>3. PICK g : g = [l \in LineSpans(t) |-> WeightOf(JobMap(job, At(t, l)), G)] OBVIOUS
  <2>4. f = g BY <2>1, <2>2, <2>3
  <2>5. WeightOf(Mapped(job, t), F) = Total(f) BY <2>2, WeightOfText
  <2>6. WeightOf(Mapped(job, t), G) = Total(g) BY <2>3, WeightOfText
  <2> QED BY <2>1, <2>4, <2>5, <2>6
<1>2. PICK f : f = [i \in DOMAIN texts |-> WeightOf(Mapped(job, texts[i]), F)] OBVIOUS
<1>3. PICK g : g = [i \in DOMAIN texts |-> WeightOf(Mapped(job, texts[i]), G)] OBVIOUS
<1>4. f = g BY <1>1, <1>2, <1>3
<1>5. WeightOf(AllOf(job, texts), F) = Total(f) BY <1>2, WeightOfAll
<1>6. WeightOf(AllOf(job, texts), G) = Total(g) BY <1>3, WeightOfAll
<1> QED BY <1>4, <1>5, <1>6

\* The pairs of all texts, as ones for which the weight and the keys are known.
LEMMA AllPairs ==
    ASSUME NEW job \in JobNames, NEW texts \in Seq(Seq(Symbols)), NEW D, D = KeysOf(AllOf(job, texts))
    PROVE  /\ IsFiniteSet(D)
           /\ \A i \in DOMAIN texts : \A l \in LineSpans(texts[i]) :
                /\ At(texts[i], l) \in Seq(Symbols)
                /\ KeysOf(JobMap(job, At(texts[i], l))) \subseteq D
<1>1. IsFiniteSet(D)
  <2>1. PICK A, all : all \in Seq(A) /\ all = AllOf(job, texts)
    <3>1. AllOf(job, texts) \in Seq(PairsOf(job)) BY AllOfSums
    <3> QED BY <3>1, Zenon
  <2>2. IsFiniteSet({kv.key : kv \in Range(all)}) BY <2>1, KeysFinite, Zenon
  <2> QED BY <2>1, <2>2, Zenon DEF KeysOf
<1>2. ASSUME NEW i \in DOMAIN texts, NEW l \in LineSpans(texts[i])
      PROVE  At(texts[i], l) \in Seq(Symbols) /\ KeysOf(JobMap(job, At(texts[i], l))) \subseteq D
  <2>1. PICK t \in Seq(Symbols) : t = texts[i] OBVIOUS
  <2>2. At(t, l) \in Seq(Symbols) BY <2>1, LineCutsNoWord
  <2> QED BY <2>1, <2>2, LineKeys
<1> QED BY <1>1, <1>2

\* wordcount counts every word of its texts.
LEMMA WordTotal ==
    ASSUME NEW texts \in Seq(Seq(Symbols)), NEW D, D = KeysOf(AllOf("wordcount", texts))
    PROVE  WeightOf(AllOf("wordcount", texts), D)
             = Total([i \in DOMAIN texts |-> Cardinality(WordSpans(texts[i], Alnum))])
<1>0. PICK job \in JobNames : job = "wordcount" BY DEF JobNames
<1>1. Alnum \subseteq Inner BY DEF Alnum, Lower, Inner, Symbols, NL
<1>2. /\ IsFiniteSet(D)
      /\ \A i \in DOMAIN texts : \A l \in LineSpans(texts[i]) :
           /\ At(texts[i], l) \in Seq(Symbols)
           /\ KeysOf(JobMap(job, At(texts[i], l))) \subseteq D
  BY <1>0, AllPairs
<1>3. ASSUME NEW i \in DOMAIN texts
      PROVE  WeightOf(Mapped(job, texts[i]), D) = Cardinality(WordSpans(texts[i], Alnum))
  <2>1. PICK t \in Seq(Symbols) : t = texts[i] OBVIOUS
  <2>2. PICK f : f = [l \in LineSpans(t) |-> WeightOf(JobMap(job, At(t, l)), D)] OBVIOUS
  <2>3. WeightOf(Mapped(job, t), D) = Total(f) BY <1>2, <2>2, WeightOfText
  <2>4. PICK g : g = [l \in LineSpans(t) |-> Cardinality(WordSpans(At(t, l), Alnum))] OBVIOUS
  <2>5. Total(g) = Cardinality(WordSpans(t, Alnum)) BY <1>1, <2>4, WordsInLines
  <2>6. ASSUME NEW l \in LineSpans(t)
        PROVE  WeightOf(JobMap(job, At(t, l)), D) = Cardinality(WordSpans(At(t, l), Alnum))
    <3>1. PICK line \in Seq(Symbols) : line = At(t, l) BY <1>2, <2>1
    <3>2. KeysOf(JobMap("wordcount", line)) \subseteq D BY <1>0, <1>2, <2>1, <3>1
    <3>3. WeightOf(JobMap("wordcount", line), D) = Cardinality(WordSpans(line, Alnum))
      BY <1>2, <3>2, WordCountWeighs
    <3> QED BY <1>0, <3>1, <3>3
  <2>7. f = g BY <2>2, <2>4, <2>6
  <2> QED BY <2>1, <2>3, <2>5, <2>7
<1>4. PICK f : f = [i \in DOMAIN texts |-> WeightOf(Mapped(job, texts[i]), D)] OBVIOUS
<1>5. WeightOf(AllOf(job, texts), D) = Total(f) BY <1>2, <1>4, WeightOfAll
<1>6. f = [i \in DOMAIN texts |-> Cardinality(WordSpans(texts[i], Alnum))] BY <1>3, <1>4
<1> QED BY <1>0, <1>5, <1>6

\* langdetect counts every line of a text that it judges.
LEMMA JudgedLines ==
    ASSUME NEW t \in Seq(Symbols), NEW D, IsFiniteSet(D),
           \A l \in LineSpans(t) : KeysOf(JobMap("langdetect", At(t, l))) \subseteq D
    PROVE  WeightOf(Mapped("langdetect", t), D) = Cardinality({l \in LineSpans(t) : Judged(At(t, l))})
<1>1. PICK job \in JobNames : job = "langdetect" BY DEF JobNames
<1>2. PICK S, T : S = LineSpans(t) /\ T = {l \in S : Judged(At(t, l))} OBVIOUS
<1>3. PICK f : f = [l \in S |-> WeightOf(JobMap(job, At(t, l)), D)] OBVIOUS
<1>4. WeightOf(Mapped(job, t), D) = Total(f) /\ f \in [S -> Int] BY <1>2, <1>3, WeightOfText
<1>5. ASSUME NEW l \in S PROVE f[l] = IF l \in T THEN 1 ELSE 0
  <2>1. PICK line \in Seq(Symbols) : line = At(t, l) BY <1>2, LineCutsNoWord
  <2>2. KeysOf(JobMap("langdetect", line)) \subseteq D BY <1>2, <2>1
  <2>3. WeightOf(JobMap("langdetect", line), D) = IF Judged(line) THEN 1 ELSE 0 BY <2>2, LangDetectWeighs
  <2>4. l \in T <=> Judged(line) BY <1>2, <2>1
  <2>5. f[l] = WeightOf(JobMap("langdetect", line), D) BY <1>1, <1>3, <2>1
  <2> QED BY <2>3, <2>4, <2>5
<1>6. IsFiniteSet(S) BY <1>2, WordsByEnds DEF LineSpans
<1>7. T \in SUBSET S BY <1>2
<1>8. Total(f) = Cardinality(T)
  <2>1. f \in [S -> Int] /\ \A l \in S : f[l] = IF l \in T THEN 1 ELSE 0 BY <1>4, <1>5
  <2> QED BY <1>6, <1>7, <2>1, SumCounts
<1> QED BY <1>1, <1>2, <1>4, <1>8

\* And so of all its texts.
LEMMA LanguageTotal ==
    ASSUME NEW texts \in Seq(Seq(Symbols)), NEW D, D = KeysOf(AllOf("langdetect", texts))
    PROVE  WeightOf(AllOf("langdetect", texts), D)
             = Total([i \in DOMAIN texts |-> Cardinality({l \in LineSpans(texts[i]) : Judged(At(texts[i], l))})])
<1>1. PICK job \in JobNames : job = "langdetect" BY DEF JobNames
<1>2. /\ IsFiniteSet(D)
      /\ \A i \in DOMAIN texts : \A l \in LineSpans(texts[i]) : KeysOf(JobMap(job, At(texts[i], l))) \subseteq D
  BY <1>1, AllPairs
<1>3. ASSUME NEW i \in DOMAIN texts
      PROVE  WeightOf(Mapped(job, texts[i]), D)
               = Cardinality({l \in LineSpans(texts[i]) : Judged(At(texts[i], l))})
  <2>1. PICK t \in Seq(Symbols) : t = texts[i] OBVIOUS
  <2>2. \A l \in LineSpans(t) : KeysOf(JobMap("langdetect", At(t, l))) \subseteq D BY <1>1, <1>2, <2>1
  <2>3. WeightOf(Mapped("langdetect", t), D) = Cardinality({l \in LineSpans(t) : Judged(At(t, l))})
    BY <1>2, <2>2, JudgedLines
  <2> QED BY <1>1, <2>1, <2>3
<1>4. PICK f : f = [i \in DOMAIN texts |-> WeightOf(Mapped(job, texts[i]), D)] OBVIOUS
<1>5. WeightOf(AllOf(job, texts), D) = Total(f) BY <1>2, <1>4, WeightOfAll
<1>6. f = [i \in DOMAIN texts |-> Cardinality({l \in LineSpans(texts[i]) : Judged(At(texts[i], l))})]
  BY <1>3, <1>4
<1> QED BY <1>1, <1>5, <1>6

\* docdensity's two kinds of characters make up all of them, its histogram its lines.
LEMMA DensityTotals ==
    ASSUME NEW texts \in Seq(Seq(Symbols)), NEW all, all = AllOf("docdensity", texts),
           NEW D, D = KeysOf(all)
    PROVE  DensityAgrees(all, D)
<1>0. PICK job \in JobNames : job = "docdensity" BY DEF JobNames
<1>1. PICK F1, F2, F3, F4 : /\ F1 = {StatAlnum, StatOther} \cap D /\ F2 = {StatTotal} \cap D
                            /\ F3 = {k \in D : IsHist(k)} /\ F4 = {StatLines} \cap D
  OBVIOUS
<1>2. /\ IsFiniteSet(D)
      /\ \A i \in DOMAIN texts : \A l \in LineSpans(texts[i]) :
           /\ At(texts[i], l) \in Seq(Symbols)
           /\ KeysOf(JobMap(job, At(texts[i], l))) \subseteq D
  BY <1>0, AllPairs
<1>3. IsFiniteSet(F1) /\ IsFiniteSet(F2) /\ IsFiniteSet(F3) /\ IsFiniteSet(F4) BY <1>1, <1>2, FS_Subset
<1>4. ASSUME NEW i \in DOMAIN texts, NEW l \in LineSpans(texts[i]), NEW s, s = JobMap(job, At(texts[i], l))
      PROVE  WeightOf(s, F1) = WeightOf(s, F2) /\ WeightOf(s, F3) = WeightOf(s, F4)
  <2>1. PICK line \in Seq(Symbols) : line = At(texts[i], l) BY <1>2
  <2>2. s = JobMap("docdensity", line) /\ KeysOf(s) \subseteq D BY <1>0, <1>2, <1>4, <2>1
  <2>3. DensityAgrees(s, D) BY <1>2, <2>1, <2>2, DocDensityWeighs
  <2> QED BY <1>1, <2>3, Zenon DEF DensityAgrees
<1>5. WeightOf(all, F1) = WeightOf(all, F2) BY <1>0, <1>3, <1>4, SameWeights
<1>6. WeightOf(all, F3) = WeightOf(all, F4) BY <1>0, <1>3, <1>4, SameWeights
<1> QED BY <1>1, <1>5, <1>6, Zenon DEF DensityAgrees

-----------------------------------------------------------------------------
(* What the slots have is what was given *)

\* Two sequences of pairs with the same keys and the same sums.
SameSums(u, v) == (\A k : SumOf(u, k) = SumOf(v, k)) /\ KeysOf(u) = KeysOf(v)

\* What slot s maps of m texts, if it is dealt the texts of its hand.  A slot
\* that is dealt none maps an empty chunk.
HandTexts(texts, m, s) ==
    IF HandSize(m, s) = 0 THEN << <<>> >>
    ELSE [j \in 1 .. HandSize(m, s) |-> texts[Positions(m, s)[j]]]

\* Pairs w are those of the texts of slot s.
OfHand(job, texts, m, s, w) ==
    /\ \A k : SumOf(w, k)
                = Total(Along([i \in 1 .. m |-> SumOf(Mapped(job, texts[i]), k)], Positions(m, s)))
    /\ KeysOf(w) = UNION {KeysOf(Mapped(job, texts[i])) : i \in Hand(m, s)}

\* What a slot maps has the pairs of its hand.
LEMMA HandTextsSums ==
    ASSUME NEW job \in JobNames, NEW texts \in Seq(Seq(Symbols)), NEW m \in Nat, m = Len(texts),
           NEW s \in Slots, NEW w, w = AllOf(job, HandTexts(texts, m, s))
    PROVE  /\ HandTexts(texts, m, s) \in Seq(Seq(Symbols)) /\ w \in Seq(PairsOf(job))
           /\ OfHand(job, texts, m, s, w)
<1> PICK h : h = Positions(m, s) OBVIOUS
<1> SUFFICES /\ HandTexts(texts, m, s) \in Seq(Seq(Symbols)) /\ w \in Seq(PairsOf(job))
             /\ \A k : SumOf(w, k) = Total(Along([i \in 1 .. m |-> SumOf(Mapped(job, texts[i]), k)], h))
             /\ KeysOf(w) = UNION {KeysOf(Mapped(job, texts[i])) : i \in Hand(m, s)}
  BY DEF OfHand
<1>1. PICK c \in Nat : c = HandSize(m, s) /\ DOMAIN h = 1 .. c /\ IsFiniteSet(1 .. c) BY HandPositions
<1>2. PICK H, D : H = Hand(m, s) /\ D = DOMAIN h OBVIOUS
<1>3. h \in [D -> H] /\ \A i \in H : \E j \in D : h[j] = i BY <1>2, HandPositions
<1>4. PICK A : A = Seq(Symbols) OBVIOUS
<1>5. texts \in Seq(A) /\ H \subseteq DOMAIN texts BY <1>2, <1>4 DEF Hand
<1>6. PICK tt : tt = HandTexts(texts, m, s) OBVIOUS
<1>7. CASE c = 0
  <2>1. tt = << <<>> >> BY <1>1, <1>6, <1>7 DEF HandTexts
  <2>2. tt \in Seq(Seq(Symbols)) /\ DOMAIN tt = {1} /\ tt[1] = <<>>
    <3>1. <<>> \in A BY <1>4
    <3>2. PICK e \in A : e = <<>> BY <3>1
    <3>3. tt = <<e>> BY <2>1, <3>2
    <3>4. tt \in Seq(A) /\ DOMAIN tt = {1} /\ tt[1] = e BY <3>3
    <3> QED BY <1>4, <3>2, <3>4
  <2>3. Mapped(job, tt[1]) = <<>> BY <2>2, MappedNothing
  <2>4. KeysOf(<<>>) = {} /\ \A k : SumOf(<<>>, k) = 0
    <3>1. <<>> \in Seq(JobPairs) OBVIOUS
    <3>2. KeysOf(<<>>) = {} BY KeysSteps
    <3> QED BY <3>1, <3>2, SumOfMissing
  <2>5. w \in Seq(PairsOf(job)) BY <1>6, <2>2, AllOfSums
  <2>6. D = {} /\ H = {} BY <1>1, <1>2, <1>3, <1>7
  <2>7. KeysOf(w) = {}
    <3>1. KeysOf(w) = UNION {KeysOf(Mapped(job, tt[i])) : i \in DOMAIN tt} BY <1>6, <2>2, AllOfSums
    <3> QED BY <2>2, <2>3, <2>4, <3>1
  <2>8. ASSUME NEW k PROVE SumOf(w, k) = 0
    <3>1. SumOf(w, k) = Total([i \in DOMAIN tt |-> SumOf(Mapped(job, tt[i]), k)]) BY <1>6, <2>2, AllOfSums
    <3>2. PICK f, S : f = [i \in DOMAIN tt |-> SumOf(Mapped(job, tt[i]), k)] /\ S = DOMAIN tt OBVIOUS
    <3>3. f \in [S -> Int] /\ \A i \in S : f[i] = 0 BY <2>2, <2>3, <2>4, <3>2
    <3>4. IsFiniteSet(S) BY <2>2, <3>2, FS_Singleton
    <3>5. Total(f) = 0 BY <3>3, <3>4, SumOfZeros
    <3> QED BY <3>1, <3>2, <3>5
  <2>9. ASSUME NEW f PROVE Total(Along(f, h)) = 0
    <3>1. PICK g : g = Along(f, h) OBVIOUS
    <3>2. g \in [{} -> Int] BY <1>2, <2>6, <3>1 DEF Along
    <3>3. Total(g) = 0 BY <3>2, FS_EmptySet, SumOfZeros
    <3> QED BY <3>1, <3>3
  <2> QED BY <1>2, <1>6, <2>2, <2>5, <2>6, <2>7, <2>8, <2>9
<1>8. CASE c # 0
  <2>1. tt = [j \in D |-> texts[h[j]]] BY <1>1, <1>2, <1>6, <1>8 DEF HandTexts
  <2>2. tt \in Seq(A) /\ DOMAIN tt = D /\ \A j \in D : tt[j] = texts[h[j]]
    <3>1. \A j \in D : texts[h[j]] \in A BY <1>3, <1>5
    <3> QED BY <1>1, <1>2, <2>1, <3>1
  <2>3. tt \in Seq(Seq(Symbols)) BY <1>4, <2>2
  <2>4. w \in Seq(PairsOf(job)) BY <1>6, <2>3, AllOfSums
  <2>5. ASSUME NEW k PROVE SumOf(w, k) = Total(Along([i \in 1 .. m |-> SumOf(Mapped(job, texts[i]), k)], h))
    <3>1. SumOf(w, k) = Total([j \in DOMAIN tt |-> SumOf(Mapped(job, tt[j]), k)]) BY <1>6, <2>3, AllOfSums
    <3>2. H \subseteq 1 .. m BY <1>2 DEF Hand
    <3>3. [j \in DOMAIN tt |-> SumOf(Mapped(job, tt[j]), k)]
            = Along([i \in 1 .. m |-> SumOf(Mapped(job, texts[i]), k)], h)
      <4>1. PICK f : f = [i \in 1 .. m |-> SumOf(Mapped(job, texts[i]), k)] OBVIOUS
      <4>2. ASSUME NEW j \in D PROVE f[h[j]] = SumOf(Mapped(job, tt[j]), k)
        <5>1. h[j] \in 1 .. m BY <1>3, <3>2
        <5> QED BY <2>2, <4>1, <5>1
      <4> QED BY <1>2, <2>2, <4>1, <4>2 DEF Along
    <3> QED BY <3>1, <3>3, Zenon
  <2>6. KeysOf(w) = UNION {KeysOf(Mapped(job, texts[i])) : i \in H}
    <3>1. KeysOf(w) = UNION {KeysOf(Mapped(job, tt[j])) : j \in DOMAIN tt} BY <1>6, <2>3, AllOfSums
    <3>2. {KeysOf(Mapped(job, tt[j])) : j \in DOMAIN tt} = {KeysOf(Mapped(job, texts[i])) : i \in H}
      <4>1. \A j \in D : tt[j] = texts[h[j]] /\ h[j] \in H BY <1>3, <2>2
      <4>2. ASSUME NEW i \in H PROVE \E j \in D : h[j] = i /\ tt[j] = texts[i]
        <5>1. PICK j \in D : h[j] = i BY <1>3
        <5> QED BY <4>1, <5>1, Zenon
      <4>3. DOMAIN tt = D BY <2>2
      <4> QED BY <4>1, <4>2, <4>3
    <3> QED BY <3>1, <3>2, Zenon
  <2> QED BY <1>2, <1>6, <2>3, <2>4, <2>5, <2>6
<1> QED BY <1>7, <1>8

\* The pairs of the hands are those of all the texts.
LEMMA HandsSum ==
    ASSUME NEW job \in JobNames, NEW texts \in Seq(Seq(Symbols)), NEW W \in [Slots -> Seq(PairsOf(job))],
           \A s \in Slots : W[s] = AllOf(job, HandTexts(texts, Len(texts), s))
    PROVE  SameSums(Joined(W), AllOf(job, texts))
<1>1. PICK m \in Nat : m = Len(texts) OBVIOUS
<1>2. PairsOf(job) \in SUBSET JobPairs BY DEF PairsOf
<1>3. PICK A \in SUBSET JobPairs : A = PairsOf(job) BY <1>2
<1>4. W \in [Slots -> Seq(A)] BY <1>3
<1>5. PICK all : all = AllOf(job, texts) OBVIOUS
<1>6. DOMAIN texts = 1 .. m BY <1>1
<1>7. ASSUME NEW s \in Slots
      PROVE  /\ \A k : SumOf(W[s], k)
                         = Total(Along([i \in 1 .. m |-> SumOf(Mapped(job, texts[i]), k)], Positions(m, s)))
             /\ KeysOf(W[s]) = UNION {KeysOf(Mapped(job, texts[i])) : i \in Hand(m, s)}
  <2>1. PICK w : w = W[s] OBVIOUS
  <2>2. w = AllOf(job, HandTexts(texts, m, s)) BY <1>1, <2>1
  <2>3. OfHand(job, texts, m, s, w) BY <1>1, <2>2, HandTextsSums, Zenon
  <2> QED BY <2>1, <2>3, Zenon DEF OfHand
<1>8. ASSUME NEW k PROVE SumOf(Joined(W), k) = SumOf(all, k)
  <2>1. PICK f : f = [i \in 1 .. m |-> SumOf(Mapped(job, texts[i]), k)] OBVIOUS
  <2>2. f \in [1 .. m -> Int]
    <3>1. ASSUME NEW i \in 1 .. m PROVE SumOf(Mapped(job, texts[i]), k) \in Int
      <4>1. PICK t \in Seq(Symbols) : t = texts[i] BY <1>6
      <4>2. Mapped(job, t) \in Seq(A) BY <1>3, MappedSums
      <4>3. SumOf(Mapped(job, t), k) \in Nat BY <4>2, SumsAreNat
      <4> QED BY <4>1, <4>3
    <3> QED BY <2>1, <3>1
  <2>3. SumOf(Joined(W), k) = Total([s \in Slots |-> SumOf(W[s], k)]) BY <1>4, JoinedSums
  <2>4. [s \in Slots |-> SumOf(W[s], k)] = [s \in Slots |-> Total(Along(f, Positions(m, s)))] BY <1>7, <2>1
  <2>5. Total(f) = Total([s \in Slots |-> Total(Along(f, Positions(m, s)))]) BY <2>2, SumByHands
  <2>6. SumOf(all, k) = Total([i \in DOMAIN texts |-> SumOf(Mapped(job, texts[i]), k)]) BY <1>5, AllOfSums
  <2> QED BY <1>6, <2>1, <2>3, <2>4, <2>5, <2>6, Zenon
<1>9. KeysOf(Joined(W)) = KeysOf(all)
  <2>1. KeysOf(Joined(W)) = UNION {KeysOf(W[s]) : s \in Slots} BY <1>4, JoinedSums
  <2>2. KeysOf(all) = UNION {KeysOf(Mapped(job, texts[i])) : i \in 1 .. m} BY <1>5, <1>6, AllOfSums
  <2>3. \A s \in Slots : Hand(m, s) \subseteq 1 .. m BY DEF Hand
  <2>4. \A i \in 1 .. m : \E s \in Slots : i \in Hand(m, s) BY HandsHaveAll
  <2>5. \A x : x \in KeysOf(Joined(W)) <=> \E s \in Slots : \E i \in Hand(m, s) : x \in KeysOf(Mapped(job, texts[i]))
    BY <1>7, <2>1
  <2>6. \A x : x \in KeysOf(all) <=> \E i \in 1 .. m : x \in KeysOf(Mapped(job, texts[i])) BY <2>2
  <2> QED BY <2>3, <2>4, <2>5, <2>6
<1> QED BY <1>5, <1>8, <1>9, Zenon DEF SameSums

\* A text of one line that is as long as a chunk cannot be scanned.
LEMMA OneLongLine ==
    ASSUME NEW text \in Seq(Symbols), text # <<>>, \A i \in DOMAIN text : text[i] # NL,
           Len(text) >= ChunkSize
    PROVE  Unscannable(text)
<1>1. PICK lines, D, S : lines = LinesOf(text) /\ D = DOMAIN lines /\ S = LineSpans(text) OBVIOUS
<1>2. PICK h \in Bijection(D, S) : \A i \in D : lines[i] = At(text, h[i])
  <2>1. \E h \in Bijection(D, S) : \A i \in D : lines[i] = At(text, h[i]) BY <1>1, LinesAreSpans
  <2> QED BY <2>1
<1>3. PICK L \in Nat : L = Len(text) /\ L >= 1 OBVIOUS
<1>4. <<1, L>> \in S
  <2>1. \A i \in 1 .. L : text[i] \in Symbols \ {NL} BY <1>3
  <2> QED BY <1>1, <1>3, <2>1 DEF LineSpans, SpansOf
<1>5. PICK i \in D : h[i] = <<1, L>> BY <1>2, <1>4 DEF Bijection, Surjection
<1>6. Len(lines[i]) = L
  <2>1. lines[i] = SubSeq(text, 1, L)
    <3>1. PICK span : span = <<1, L>> OBVIOUS
    <3>2. span[1] = 1 /\ span[2] = L BY <3>1
    <3>3. lines[i] = At(text, span) BY <1>2, <1>5, <3>1
    <3> QED BY <3>2, <3>3 DEF At
  <2>2. Len(SubSeq(text, 1, L)) = L BY <1>3
  <2> QED BY <2>1, <2>2
<1> QED BY <1>1, <1>3, <1>6 DEF Unscannable

\* The prefix up to a position is everything, or ends with a line.
LineEnd(data, e) == e = Len(data) \/ (e # 0 /\ data[e] = NL)

\* A chunk that can be scanned ends where a line does.
LEMMA ScannedChunkEnds ==
    ASSUME NEW data \in Seq(Symbols), NEW from \in 0 .. Len(data), NEW e, e = NextCut(data, from),
           NEW c, c = SubSeq(data, from + 1, e), ~Unscannable(c)
    PROVE  LineEnd(data, e)
<1>1. PICK L \in Nat : L = Len(data) OBVIOUS
<1>2. CASE from = L BY <1>1, <1>2 DEF NextCut, LineEnd
<1>3. CASE from # L
  <2>1. e \in from + 1 .. L /\ e = ChunkEnd(data, from, ChunkSize) BY <1>1, <1>3, NextCutType
  <2>2. PICK m \in Nat : m = ChunkSize /\ m # 0 BY ChunkingAssumption
  <2>3. PICK newlines : newlines = {i \in from + 1 .. from + m : data[i] = NL} OBVIOUS
  <2>4. e = IF L - from <= m THEN L ELSE IF newlines = {} THEN from + m ELSE Max(newlines)
    BY <1>1, <2>1, <2>2, <2>3 DEF ChunkEnd
  <2>5. CASE L - from <= m BY <1>1, <2>4, <2>5 DEF LineEnd
  <2>6. CASE ~(L - from <= m) /\ newlines = {}
    <3>1. e = from + m BY <2>4, <2>6
    <3>2. c \in Seq(Symbols) /\ Len(c) = m /\ \A i \in 1 .. m : c[i] = data[from + i]
      BY <1>1, <2>1, <2>2, <3>1
    <3>3. ASSUME NEW i \in DOMAIN c PROVE c[i] # NL
      <4>1. i \in 1 .. m BY <3>2
      <4>2. from + i \in from + 1 .. from + m BY <2>2, <4>1
      <4>3. data[from + i] # NL BY <2>3, <2>6, <4>2
      <4> QED BY <3>2, <4>1, <4>3
    <3>4. c # <<>> BY <2>2, <3>2
    <3>5. Len(c) >= ChunkSize BY <2>2, <3>2
    <3>6. Unscannable(c) BY <3>2, <3>3, <3>4, <3>5, OneLongLine, Zenon
    <3> QED BY <3>6
  <2>7. CASE ~(L - from <= m) /\ newlines # {}
    <3>1. e = Max(newlines) BY <2>4, <2>7
    <3>2. newlines \subseteq 1 .. from + m /\ from + m \in Nat BY <2>2, <2>3
    <3>3. Max(newlines) \in newlines BY <2>7, <3>2, MaxPosition
    <3>4. e # 0 BY <1>1, <2>1
    <3> QED BY <2>3, <3>1, <3>3, <3>4 DEF LineEnd
  <2> QED BY <2>5, <2>6, <2>7
<1> QED BY <1>2, <1>3

\* The concatenation of all slots' pairs, one slot after the other.
LEMMA JoinedFollows ==
    ASSUME NEW A \in SUBSET JobPairs, NEW W \in [Slots -> Seq(A)], NEW u, SameSums(u[0], <<>>),
           \A n \in 1 .. N : AddsUp(u[n], u[n - 1], W[n - 1])
    PROVE  SameSums(Joined(W), u[N])
<1>1. PICK n \in Nat : n = N BY ChunkingAssumption
<1>2. PICK ss : ss = [i \in 1 .. n |-> W[i - 1]] OBVIOUS
<1>3. ss \in Seq(Seq(A)) /\ Joined(W) = FlattenSeq(ss) BY <1>1, <1>2, AllSlotsType DEF Joined
<1>4. Len(ss) = n /\ \A i \in 1 .. n : ss[i] = W[i - 1] BY <1>1, <1>2
<1>5. PICK f \in [0 .. Len(ss) -> Seq(A)] :
               /\ f[0] = <<>> /\ f[Len(ss)] = FlattenSeq(ss)
               /\ \A i \in 1 .. Len(ss) : f[i] = f[i - 1] \o ss[i]
  BY <1>3, FlatPrefixes
<1> DEFINE P == {i \in 0 .. n : SameSums(f[i], u[i])}
<1>6. 0 \in P BY <1>1, <1>5 DEF SameSums
<1>7. ASSUME NEW i \in 1 .. n, i - 1 \in P PROVE i \in P
  <2>1. PICK v, t \in Seq(A) : v = f[i - 1] /\ t = W[i - 1]
    <3>1. i - 1 \in 0 .. n /\ i - 1 \in Slots BY <1>1, <1>7 DEF Slots
    <3>2. f[i - 1] \in Seq(A) /\ W[i - 1] \in Seq(A) BY <1>4, <1>5, <3>1
    <3> QED BY <3>2
  <2>2. PICK w : w = v \o t OBVIOUS
  <2>3. f[i] = w BY <1>4, <1>5, <1>7, <2>1, <2>2
  <2>4. (\A k : SumOf(w, k) = SumOf(v, k) + SumOf(t, k)) /\ KeysOf(w) = KeysOf(v) \cup KeysOf(t)
    BY <2>2, SumOfConcat, KeysSteps
  <2>5. AddsUp(u[i], u[i - 1], t) BY <1>1, <1>7, <2>1
  <2>6. SameSums(v, u[i - 1]) BY <1>7, <2>1
  <2>7. SameSums(w, u[i]) BY <2>4, <2>5, <2>6 DEF SameSums, AddsUp
  <2> QED BY <1>7, <2>3, <2>7
<1>8. n \in P
  <2>1. n \in 0 .. n OBVIOUS
  <2> HIDE DEF P
  <2>2. \A i \in 0 .. n : i \in P BY <1>6, <1>7, InductionUpTo
  <2> QED BY <2>1, <2>2
<1> QED BY <1>1, <1>3, <1>4, <1>5, <1>8

\* The pairs of a single text.
LEMMA AllOfOne ==
    ASSUME NEW job \in JobNames, NEW text \in Seq(Symbols)
    PROVE  SameSums(AllOf(job, <<text>>), Mapped(job, text))
<1>1. PICK A : A = Seq(Symbols) OBVIOUS
<1>2. PICK texts \in Seq(A) : texts = <<text>>
  <2>1. <<text>> \in Seq(A) BY <1>1
  <2> QED BY <2>1, Zenon
<1>3. DOMAIN texts = {1} /\ texts[1] = text BY <1>2
<1>4. PICK w : w = AllOf(job, texts) OBVIOUS
<1>5. PICK u : u = Mapped(job, text) OBVIOUS
<1>6. texts \in Seq(Seq(Symbols)) BY <1>1, <1>2
<1>7. KeysOf(w) = KeysOf(u)
  <2>1. KeysOf(w) = UNION {KeysOf(Mapped(job, texts[i])) : i \in DOMAIN texts} BY <1>4, <1>6, AllOfSums
  <2> QED BY <1>3, <1>5, <2>1
<1>8. ASSUME NEW k PROVE SumOf(w, k) = SumOf(u, k)
  <2>1. SumOf(w, k) = Total([i \in DOMAIN texts |-> SumOf(Mapped(job, texts[i]), k)]) BY <1>4, <1>6, AllOfSums
  <2>2. PICK x \in Nat : x = SumOf(u, k)
    <3>1. PairsOf(job) \in SUBSET JobPairs BY DEF PairsOf
    <3>2. u \in Seq(PairsOf(job)) BY <1>5, MappedSums
    <3>3. SumOf(u, k) \in Nat BY <3>1, <3>2, SumsAreNat
    <3> QED BY <3>3
  <2>3. PICK f : f = [i \in DOMAIN texts |-> SumOf(Mapped(job, texts[i]), k)] OBVIOUS
  <2>4. f \in [{1} -> Int] /\ f[1] = x BY <1>3, <1>5, <2>2, <2>3
  <2>5. PICK z : z = [i \in {1} |-> 0] OBVIOUS
  <2>6. z \in [{1} -> Int] /\ z[1] = 0 BY <2>5
  <2>7. IsFiniteSet({1}) BY FS_Singleton
  <2>8. Total(z) = 0 BY <2>6, <2>7, SumOfZeros
  <2>9. Total(f) = Total(z) + f[1] - z[1]
    <3>1. PICK S : S = {1} OBVIOUS
    <3>2. f \in [S -> Int] /\ z \in [S -> Int] /\ 1 \in S /\ IsFiniteSet(S) BY <2>4, <2>6, <2>7, <3>1
    <3>3. \A y \in S \ {1} : f[y] = z[y] BY <3>1
    <3> QED BY <3>2, <3>3, SumOfUpdate, Zenon
  <2> QED BY <2>1, <2>2, <2>3, <2>4, <2>6, <2>8, <2>9
<1> QED BY <1>2, <1>4, <1>5, <1>7, <1>8, Zenon DEF SameSums

\* The pairs of the chunks of the slots, if all of them can be scanned, are
\* those of the data up to the last cut, which is where a line ends.
LEMMA CutsSum ==
    ASSUME NEW job \in JobNames, NEW data \in Seq(Symbols), NEW E, Cuts(E, data),
           \A s \in Slots : ~Unscannable(SubSeq(data, E[s] + 1, E[s + 1])),
           NEW W \in [Slots -> Seq(PairsOf(job))],
           \A s \in Slots : SameSums(W[s], Mapped(job, SubSeq(data, E[s] + 1, E[s + 1])))
    PROVE  SameSums(Joined(W), Mapped(job, SubSeq(data, 1, E[N]))) /\ LineEnd(data, E[N])
<1>1. PICK n \in Nat : n = N /\ n # 0 BY ChunkingAssumption
<1>2. PICK L \in Nat : L = Len(data) OBVIOUS
<1>3. PairsOf(job) \in SUBSET JobPairs BY DEF PairsOf
<1>4. PICK A \in SUBSET JobPairs : A = PairsOf(job) BY <1>3
<1>5. E \in [Nat -> 0 .. L] /\ E[0] = 0 /\ \A i \in Nat : E[i + 1] = NextCut(data, E[i])
  BY <1>2 DEF Cuts
<1>6. ASSUME NEW i \in 1 .. n
      PROVE  /\ i - 1 \in Slots /\ i - 1 \in Nat /\ (i - 1) + 1 = i
             /\ E[i - 1] \in 0 .. L /\ E[i] \in E[i - 1] .. L /\ E[i] = NextCut(data, E[i - 1])
  <2>1. PICK j \in Nat : j = i - 1 /\ j + 1 = i BY <1>6
  <2>2. j \in Slots BY <1>1, <2>1 DEF Slots
  <2>3. PICK a \in 0 .. L : a = E[j] BY <1>5
  <2>4. E[j + 1] = NextCut(data, a) BY <1>5, <2>3
  <2>5. NextCut(data, a) \in a .. L BY <1>2, NextCutType
  <2> QED BY <2>1, <2>2, <2>3, <2>4, <2>5
<1>7. ASSUME NEW i \in 1 .. n PROVE LineEnd(data, E[i])
  <2>1. PICK from \in 0 .. L : from = E[i - 1] BY <1>6
  <2>2. PICK c : c = SubSeq(data, from + 1, E[i]) OBVIOUS
  <2>3. ~Unscannable(SubSeq(data, E[i - 1] + 1, E[(i - 1) + 1])) BY <1>6
  <2>4. ~Unscannable(c) BY <1>6, <2>1, <2>2, <2>3
  <2>5. E[i] = NextCut(data, from) BY <1>6, <2>1
  <2> QED BY <1>2, <2>2, <2>4, <2>5, ScannedChunkEnds
<1>8. PICK u : u = [i \in 0 .. n |-> Mapped(job, SubSeq(data, 1, E[i]))] OBVIOUS
<1>9. SameSums(u[0], <<>>)
  <2>1. SubSeq(data, 1, 0) = <<>> OBVIOUS
  <2>2. u[0] = Mapped(job, SubSeq(data, 1, 0)) BY <1>1, <1>5, <1>8
  <2>3. u[0] = <<>> BY <2>1, <2>2, MappedNothing
  <2> QED BY <2>3 DEF SameSums
<1>10. ASSUME NEW i \in 1 .. n PROVE AddsUp(u[i], u[i - 1], W[i - 1])
  <2>1. PICK a \in 0 .. L, b \in 0 .. L : a = E[i - 1] /\ b = E[i] /\ b \in a .. L
    <3>1. E[i - 1] \in 0 .. L /\ E[i] \in E[i - 1] .. L BY <1>6
    <3>2. PICK a \in 0 .. L : a = E[i - 1] BY <3>1
    <3>3. PICK b \in a .. L : b = E[i] BY <3>1, <3>2
    <3>4. b \in 0 .. L OBVIOUS
    <3> QED BY <3>2, <3>3, <3>4
  <2>2. PICK s, t \in Seq(Symbols) : s = SubSeq(data, 1, a) /\ t = SubSeq(data, a + 1, b)
    BY <1>2, <2>1, PrefixGrows
  <2>3. SubSeq(data, 1, b) = s \o t /\ Len(t) = b - a
    <3>1. a \in 0 .. Len(data) /\ b \in a .. Len(data) BY <1>2, <2>1
    <3>2. /\ SubSeq(data, 1, b) = SubSeq(data, 1, a) \o SubSeq(data, a + 1, b)
          /\ Len(SubSeq(data, a + 1, b)) = b - a
      BY <3>1, PrefixGrows
    <3> QED BY <2>2, <3>2, Zenon
  <2>4. u[i] = Mapped(job, s \o t)
    <3>1. u[i] = Mapped(job, SubSeq(data, 1, b)) BY <1>8, <2>1
    <3> QED BY <2>3, <3>1
  <2>5. u[i - 1] = Mapped(job, s)
    <3>1. i - 1 \in 0 .. n OBVIOUS
    <3> QED BY <1>8, <2>1, <2>2, <3>1
  <2>6. PICK w : w = W[i - 1] OBVIOUS
  <2>7. SameSums(w, Mapped(job, t))
    <3>1. SameSums(W[i - 1], Mapped(job, SubSeq(data, E[i - 1] + 1, E[(i - 1) + 1]))) BY <1>6
    <3> QED BY <1>6, <2>1, <2>2, <2>6, <3>1
  <2>8. AddsUp(Mapped(job, s \o t), Mapped(job, s), Mapped(job, t))
    <3>1. a = 0 \/ LineEnd(data, a)
      <4>1. CASE i = 1 BY <1>5, <2>1, <4>1
      <4>2. CASE i # 1
        <5>1. PICK j \in 1 .. n : j = i - 1 BY <4>2
        <5>2. LineEnd(data, E[j]) BY <1>7
        <5> QED BY <2>1, <5>1, <5>2
      <4> QED BY <4>1, <4>2
    <3>2. CASE a = 0
      <4>1. s = <<>> BY <2>2, <3>2
      <4> QED BY <4>1, MappedConcat, Zenon
    <3>3. CASE a # 0 /\ data[a] = NL
      <4>1. Len(s) = a /\ s[a] = data[a] BY <1>2, <2>2, <3>3
      <4>2. s[Len(s)] = NL BY <3>3, <4>1
      <4> QED BY <4>2, MappedConcat, Zenon
    <3>4. CASE a = L
      <4>1. Len(t) = 0 BY <2>1, <2>3, <3>4
      <4>2. t = <<>> BY <4>1
      <4>3. s \o t = s BY <4>2
      <4>4. Mapped(job, t) = <<>> BY <4>2, MappedNothing
      <4>5. KeysOf(<<>>) = {} /\ \A k : SumOf(<<>>, k) = 0
        <5>1. <<>> \in Seq(JobPairs) OBVIOUS
        <5>2. KeysOf(<<>>) = {} BY KeysSteps
        <5> QED BY <5>1, <5>2, SumOfMissing
      <4>6. PICK v : v = Mapped(job, s) OBVIOUS
      <4>7. \A k : SumOf(v, k) \in Nat
        <5>1. v \in Seq(A) BY <1>4, <4>6, MappedSums
        <5> QED BY <5>1, SumsAreNat
      <4>8. AddsUp(v, v, <<>>) BY <4>5, <4>7 DEF AddsUp
      <4> QED BY <4>3, <4>4, <4>6, <4>8
    <3> QED BY <1>2, <3>1, <3>2, <3>3, <3>4 DEF LineEnd
  <2>9. AddsUp(u[i], u[i - 1], w) BY <2>4, <2>5, <2>7, <2>8 DEF AddsUp, SameSums
  <2> QED BY <2>6, <2>9
<1>11. SameSums(Joined(W), u[N])
  <2>1. W \in [Slots -> Seq(A)] BY <1>4
  <2>2. \A i \in 1 .. N : AddsUp(u[i], u[i - 1], W[i - 1]) BY <1>1, <1>10
  <2> QED BY <1>9, <2>1, <2>2, JoinedFollows
<1>12. n \in 0 .. n /\ n \in 1 .. n BY <1>1
<1>13. LineEnd(data, E[n]) BY <1>7, <1>12
<1> QED BY <1>1, <1>8, <1>11, <1>12, <1>13

\* The texts slot s maps.
Parts(s) ==
    IF urls[s] = <<>> THEN <<chunk[s]>>
    ELSE [i \in DOMAIN urls[s] |-> input.texts[urls[s][i]]]

\* The slots have what the preparation gives them.
AllGiven ==
    IF input.mode = "local"
      THEN \A s \in Slots :
             /\ urls[s] = <<>>
             /\ chunk[s] = ChunkForWorker(SplitIntoChunks(input.texts[1], ChunkSize), s)
      ELSE urls = AssignURLsRoundRobin(SelectedURLs) /\ \A s \in Slots : chunk[s] = <<>>

\* The pairs of what the slots map are those of what they were given.
SlotsHave(W, job) ==
    /\ Given \in Seq(Seq(Symbols))
    /\ W \in [Slots -> Seq(PairsOf(job))]
    /\ \A s \in Slots : Parts(s) \in Seq(Seq(Symbols)) /\ W[s] = AllOf(job, Parts(s))
    /\ SameSums(Joined(W), AllOf(job, Given))

\* The URLs within the limits are the first of them.
LEMMA SelectedPrefix ==
    ASSUME input \in Inputs
    PROVE  \E m \in 0 .. Len(input.texts) :
             /\ SelectedURLs \in Seq(Nat) /\ Len(SelectedURLs) = m
             /\ \A i \in 1 .. m : SelectedURLs[i] = i
<1> DEFINE all == [i \in DOMAIN input.texts |-> i]
           a == input.limits[1]
           b == input.limits[2]
<1>1. PICK L \in Nat : L = Len(input.texts) /\ DOMAIN input.texts = 1 .. L BY InputsAssumption
<1>2. a \in Nat /\ b \in Nat BY InputsAssumption
<1>3. all \in Seq(Nat) /\ Len(all) = L /\ \A i \in 1 .. L : all[i] = i BY <1>1
<1> HIDE DEF all, a, b
<1>4. \E m \in 0 .. L : ApplyLimits(all, a, b) = SubSeq(all, 1, m)
  <2>1. PICK c \in 0 .. L : c = IF a > 0 /\ a < L THEN a ELSE L BY <1>2
  <2>2. PICK d \in 0 .. L : d = IF b > 0 /\ b < c THEN b ELSE c BY <1>2, <2>1
  <2>3. ApplyLimits(all, a, b) = SubSeq(all, 1, d) BY <1>3, <2>1, <2>2, Zenon DEF ApplyLimits
  <2> QED BY <2>3
<1>5. PICK m \in 0 .. L : SelectedURLs = SubSeq(all, 1, m) BY <1>4 DEF SelectedURLs, all, a, b
<1>6. /\ SubSeq(all, 1, m) \in Seq(Nat) /\ Len(SubSeq(all, 1, m)) = m
      /\ \A i \in 1 .. m : SubSeq(all, 1, m)[i] = i
  BY <1>3, PrefixParts
<1> QED BY <1>1, <1>5, <1>6

\* With URLs.
LEMMA GivenURLs ==
    ASSUME input \in Inputs, AllGiven, input.mode # "local", NEW job \in JobNames
    PROVE  \E W : SlotsHave(W, job)
<1>1. PICK A : A = Seq(Symbols) OBVIOUS
<1>2. input.texts \in Seq(A) BY <1>1, InputsAssumption
<1>3. PICK m \in 0 .. Len(input.texts) :
             /\ SelectedURLs \in Seq(Nat) /\ Len(SelectedURLs) = m
             /\ \A i \in 1 .. m : SelectedURLs[i] = i
  BY SelectedPrefix
<1>4. PICK sel \in Seq(Nat) : sel = SelectedURLs BY <1>3
<1>5. DOMAIN sel = 1 .. m /\ \A i \in 1 .. m : sel[i] = i BY <1>3, <1>4
<1>6. PICK g : g = Given OBVIOUS
<1>7. g = [i \in 1 .. m |-> input.texts[i]] BY <1>4, <1>5, <1>6 DEF Given
<1>8. g \in Seq(A) /\ Len(g) = m /\ \A i \in 1 .. m : g[i] = input.texts[i]
  <2>1. \A i \in 1 .. m : input.texts[i] \in A BY <1>2
  <2> QED BY <1>7, <2>1
<1>9. ASSUME NEW s \in Slots PROVE Parts(s) = HandTexts(g, m, s) /\ HandTexts(g, m, s) \in Seq(A)
  <2>1. PICK h : h = Positions(m, s) OBVIOUS
  <2>2. PICK c \in Nat : c = HandSize(m, s) /\ DOMAIN h = 1 .. c BY <2>1, HandPositions
  <2>3. h \in [1 .. c -> Hand(m, s)] BY <2>1, <2>2, HandPositions
  <2>4. \A j \in 1 .. c : h[j] \in 1 .. m BY <2>3 DEF Hand
  <2>5. urls[s] = [j \in 1 .. c |-> sel[h[j]]]
    <3>1. \A j \in 1 .. c : h[j] = s + (j - 1) * N + 1 BY <2>1, <2>2 DEF Positions
    <3>2. urls[s] = [j \in 1 .. c |-> sel[s + (j - 1) * N + 1]]
      BY <1>3, <1>4, <2>2 DEF AllGiven, AssignURLsRoundRobin, HandSize
    <3> QED BY <3>1, <3>2
  <2>6. DOMAIN urls[s] = 1 .. c /\ \A j \in 1 .. c : urls[s][j] = h[j] BY <1>5, <2>4, <2>5
  <2>7. CASE c = 0
    <3>1. urls[s] = <<>> BY <2>5, <2>7
    <3>2. chunk[s] = <<>> BY DEF AllGiven
    <3>3. HandTexts(g, m, s) = << <<>> >> BY <2>2, <2>7 DEF HandTexts
    <3>4. <<>> \in A BY <1>1
    <3>5. << <<>> >> \in Seq(A) BY <3>4
    <3> QED BY <3>1, <3>2, <3>3, <3>5 DEF Parts
  <2>8. CASE c # 0
    <3>1. urls[s] # <<>> BY <2>2, <2>6, <2>8
    <3>2. Parts(s) = [j \in 1 .. c |-> input.texts[urls[s][j]]] BY <2>6, <3>1 DEF Parts
    <3>3. HandTexts(g, m, s) = [j \in 1 .. c |-> g[h[j]]] BY <2>1, <2>2, <2>8 DEF HandTexts
    <3>4. \A j \in 1 .. c : input.texts[urls[s][j]] = g[h[j]] /\ g[h[j]] \in A BY <1>8, <2>4, <2>6
    <3>5. PICK v : v = HandTexts(g, m, s) OBVIOUS
    <3>6. Parts(s) = v BY <3>2, <3>3, <3>4, <3>5
    <3>7. v \in Seq(A) BY <3>3, <3>4, <3>5
    <3> QED BY <3>5, <3>6, <3>7
  <2> QED BY <2>7, <2>8
<1>10. PICK W : W = [s \in Slots |-> AllOf(job, Parts(s))] OBVIOUS
<1>11. W \in [Slots -> Seq(PairsOf(job))]
  <2>1. ASSUME NEW s \in Slots PROVE AllOf(job, Parts(s)) \in Seq(PairsOf(job))
    <3>1. PICK texts \in Seq(Seq(Symbols)) : texts = Parts(s) BY <1>1, <1>9
    <3> QED BY <3>1, AllOfSums
  <2> QED BY <1>10, <2>1
<1>12. \A s \in Slots : W[s] = AllOf(job, HandTexts(g, Len(g), s)) BY <1>8, <1>9, <1>10
<1>13. SameSums(Joined(W), AllOf(job, g)) BY <1>1, <1>8, <1>11, <1>12, HandsSum
<1> QED BY <1>1, <1>6, <1>8, <1>9, <1>10, <1>11, <1>13 DEF SlotsHave

\* With a local file, the slots also have whole lines only.
LEMMA GivenLocal ==
    ASSUME input \in Inputs, AllGiven, input.mode = "local", NEW job \in JobNames,
           \A s \in Slots : \A i \in DOMAIN Parts(s) : ~Unscannable(Parts(s)[i])
    PROVE  /\ \E W : SlotsHave(W, job)
           /\ \E e \in 0 .. Len(input.texts[1]) :
                Given = << SubSeq(input.texts[1], 1, e) >> /\ LineEnd(input.texts[1], e)
<1>1. PICK A : A = Seq(Symbols) OBVIOUS
<1>2. PICK data \in Seq(Symbols) : data = input.texts[1]
  <2>1. input.texts \in Seq(A) /\ Len(input.texts) = 1 BY <1>1, InputsAssumption
  <2>2. input.texts[1] \in A BY <2>1
  <2> QED BY <1>1, <2>2
<1>3. PICK E : Cuts(E, data) BY CutsExist
<1>4. ASSUME NEW s \in Slots
      PROVE  /\ chunk[s] = SubSeq(data, E[s] + 1, E[s + 1])
             /\ chunk[s] \in Seq(Symbols) /\ ~Unscannable(chunk[s]) /\ Parts(s) = <<chunk[s]>>
  <2>1. chunk[s] = ChunkForWorker(SplitIntoChunks(data, ChunkSize), s) /\ urls[s] = <<>>
    BY <1>2 DEF AllGiven
  <2>2. PICK c : c = chunk[s] OBVIOUS
  <2>3. c = SubSeq(data, E[s] + 1, E[s + 1]) BY <1>3, <2>1, <2>2, ChunkIsCut, Zenon
  <2>4. c \in Seq(Symbols) BY <2>1, <2>2, ChunkType
  <2>5. Parts(s) = <<c>> BY <2>1, <2>2 DEF Parts
  <2>6. 1 \in DOMAIN <<c>> /\ <<c>>[1] = c OBVIOUS
  <2>7. ~Unscannable(c) BY <2>5, <2>6
  <2> QED BY <2>2, <2>3, <2>4, <2>5, <2>7
<1>5. PICK W : W = [s \in Slots |-> AllOf(job, Parts(s))] OBVIOUS
<1>6. ASSUME NEW s \in Slots
      PROVE  Parts(s) \in Seq(Seq(Symbols)) /\ W[s] \in Seq(PairsOf(job)) /\ SameSums(W[s], Mapped(job, chunk[s]))
  <2>1. PICK c \in Seq(Symbols) : c = chunk[s] BY <1>4
  <2>2. c \in A BY <1>1
  <2>3. PICK texts \in Seq(A) : texts = <<c>>
    <3>1. <<c>> \in Seq(A) BY <2>2
    <3> QED BY <3>1, Zenon
  <2>4. texts \in Seq(Seq(Symbols)) /\ Parts(s) = texts BY <1>1, <1>4, <2>1, <2>3
  <2>5. W[s] = AllOf(job, texts) BY <1>5, <2>4
  <2>6. AllOf(job, texts) \in Seq(PairsOf(job)) BY <2>4, AllOfSums
  <2>7. SameSums(AllOf(job, <<c>>), Mapped(job, c)) BY AllOfOne
  <2> QED BY <2>1, <2>3, <2>4, <2>5, <2>6, <2>7
<1>7. W \in [Slots -> Seq(PairsOf(job))] BY <1>5, <1>6
<1>8. PICK e : e = E[N] OBVIOUS
<1>9. PICK front : front = SubSeq(data, 1, e) OBVIOUS
<1>10. SameSums(Joined(W), Mapped(job, front)) /\ LineEnd(data, e)
  <2>1. \A s \in Slots : ~Unscannable(SubSeq(data, E[s] + 1, E[s + 1])) BY <1>4
  <2>2. \A s \in Slots : SameSums(W[s], Mapped(job, SubSeq(data, E[s] + 1, E[s + 1]))) BY <1>4, <1>6
  <2> QED BY <1>3, <1>7, <1>8, <1>9, <2>1, <2>2, CutsSum, Zenon
<1>11. PICK f : f = [s \in Slots |-> Len(SubSeq(data, E[s] + 1, E[s + 1]))] OBVIOUS
<1>12. SumFunction(f) = e /\ e \in 0 .. Len(data) BY <1>3, <1>8, <1>11, CutsLength, Zenon
<1>13. Given = <<front>>
  <2>1. f = [s \in Slots |-> Len(ChunkForWorker(SplitIntoChunks(data, ChunkSize), s))]
    <3>1. \A s \in Slots : chunk[s] = ChunkForWorker(SplitIntoChunks(data, ChunkSize), s) BY <1>2 DEF AllGiven
    <3> QED BY <1>4, <1>11, <3>1
  <2>2. Given = << SubSeq(data, 1, SumFunction(f)) >> BY <1>2, <2>1 DEF Given
  <2> QED BY <1>9, <1>12, <2>2
<1>14. front \in Seq(Symbols) BY <1>9, <1>12, PrefixParts
<1>15. Given \in Seq(Seq(Symbols))
  <2>1. front \in A BY <1>1, <1>14
  <2>2. <<front>> \in Seq(A) BY <2>1
  <2> QED BY <1>1, <1>13, <2>2
<1>16. SameSums(Joined(W), AllOf(job, Given))
  <2>1. SameSums(AllOf(job, <<front>>), Mapped(job, front)) BY <1>14, AllOfOne
  <2> QED BY <1>10, <1>13, <2>1 DEF SameSums
<1>17. \A s \in Slots : Parts(s) \in Seq(Seq(Symbols)) /\ W[s] = AllOf(job, Parts(s)) BY <1>5, <1>6
<1>18. SlotsHave(W, job) BY <1>7, <1>15, <1>16, <1>17 DEF SlotsHave
<1> QED BY <1>2, <1>9, <1>10, <1>12, <1>13, <1>18

\* Every text of g is the beginning of a text of the input.
AreFronts(g) ==
    \A i \in DOMAIN g : \E text \in Range(input.texts) : \E n \in 0 .. Len(text) : g[i] = SubSeq(text, 1, n)

\* What was given are such texts.
LEMMA GivenFronts ==
    ASSUME input \in Inputs,
           input.mode = "local" =>
             \E e \in 0 .. Len(input.texts[1]) : Given = << SubSeq(input.texts[1], 1, e) >>
    PROVE  AreFronts(Given)
<1>1. PICK A : A = Seq(Symbols) OBVIOUS
<1>2. input.texts \in Seq(A) /\ (input.mode = "local" => Len(input.texts) = 1) BY <1>1, InputsAssumption
<1>3. ASSUME NEW i \in DOMAIN input.texts PROVE input.texts[i] \in Range(input.texts) /\ input.texts[i] \in A
  BY <1>2 DEF Range
<1>4. CASE input.mode = "local"
  <2>1. PICK e \in 0 .. Len(input.texts[1]) : Given = << SubSeq(input.texts[1], 1, e) >> BY <1>4
  <2>2. PICK g, x : g = Given /\ x = SubSeq(input.texts[1], 1, e) OBVIOUS
  <2>3. g = <<x>> BY <2>1, <2>2
  <2>4. DOMAIN g = {1} /\ g[1] = x BY <2>3
  <2>5. 1 \in DOMAIN input.texts BY <1>2, <1>4
  <2>6. input.texts[1] \in Range(input.texts) BY <1>3, <2>5
  <2> QED BY <2>1, <2>2, <2>4, <2>6 DEF AreFronts
<1>5. CASE input.mode # "local"
  <2>1. PICK g : g = Given OBVIOUS
  <2>2. DOMAIN g \subseteq DOMAIN input.texts /\ \A i \in DOMAIN g : g[i] = input.texts[i]
    <3>1. PICK m \in 0 .. Len(input.texts) : SelectedURLs \in Seq(Nat) /\ Len(SelectedURLs) = m
      BY SelectedPrefix
    <3>2. DOMAIN SelectedURLs = 1 .. m BY <3>1
    <3>3. g = [i \in 1 .. m |-> input.texts[i]] BY <1>5, <2>1, <3>2 DEF Given
    <3>4. DOMAIN input.texts = 1 .. Len(input.texts) BY <1>2
    <3> QED BY <3>3, <3>4
  <2>3. ASSUME NEW i \in DOMAIN g
        PROVE  \E text \in Range(input.texts) : \E n \in 0 .. Len(text) : g[i] = SubSeq(text, 1, n)
    <3>1. PICK text \in Seq(Symbols) : text = input.texts[i] /\ text \in Range(input.texts) /\ g[i] = text
      BY <1>1, <1>3, <2>2
    <3>2. text = SubSeq(text, 1, Len(text)) /\ Len(text) \in 0 .. Len(text) OBVIOUS
    <3> QED BY <3>1, <3>2
  <2> QED BY <2>1, <2>3 DEF AreFronts
<1> QED BY <1>4, <1>5

\* A part of a beginning.
LEMMA PartOfFront ==
    ASSUME NEW A, NEW s \in Seq(A), NEW n \in 0 .. Len(s), NEW a \in 1 .. n, NEW b \in 0 .. n
    PROVE  SubSeq(SubSeq(s, 1, n), a, b) = SubSeq(s, a, b)
<1>1. PICK t \in Seq(A) : t = SubSeq(s, 1, n) /\ Len(t) = n /\ \A i \in 1 .. n : t[i] = s[i]
  <2>1. PICK t : t = SubSeq(s, 1, n) OBVIOUS
  <2>2. t \in Seq(A) /\ Len(t) = n /\ \A i \in 1 .. n : t[i] = s[i] BY <2>1, PrefixParts, Zenon
  <2> QED BY <2>1, <2>2, Zenon
<1>2. SubSeq(t, a, b) = [i \in 1 .. (b - a + 1) |-> t[i + a - 1]] OBVIOUS
<1>3. SubSeq(s, a, b) = [i \in 1 .. (b - a + 1) |-> s[i + a - 1]] OBVIOUS
<1>4. ASSUME NEW i \in 1 .. (b - a + 1) PROVE t[i + a - 1] = s[i + a - 1]
  <2>1. i + a - 1 \in 1 .. n OBVIOUS
  <2> QED BY <1>1, <2>1, Zenon
<1> QED BY <1>1, <1>2, <1>3, <1>4

\* Every key of what was given has a hash.
LEMMA KeysHaveHashes ==
    ASSUME input \in Inputs, NEW g \in Seq(Seq(Symbols)), AreFronts(g), NEW job, job = input.job,
           NEW k \in KeysOf(AllOf(job, g))
    PROVE  KeyHash(k) \in Nat
<1>1. job \in JobNames BY InputsAssumption
<1>2. PICK i \in DOMAIN g : k \in KeysOf(Mapped(job, g[i]))
  <2>1. KeysOf(AllOf(job, g)) = UNION {KeysOf(Mapped(job, g[i])) : i \in DOMAIN g} BY <1>1, AllOfSums
  <2> QED BY <2>1
<1>3. PICK t \in Seq(Symbols) : t = g[i]
  <2>1. PICK A : A = Seq(Symbols) OBVIOUS
  <2>2. g \in Seq(A) BY <2>1
  <2>3. g[i] \in A BY <2>2
  <2> QED BY <2>1, <2>3
<1>4. PICK text \in Range(input.texts) : \E n \in 0 .. Len(text) : t = SubSeq(text, 1, n)
  BY <1>3 DEF AreFronts
<1> PICK n \in 0 .. Len(text) : t = SubSeq(text, 1, n) BY <1>4
<1>5. text \in Seq(Symbols)
  <2>1. PICK A : A = Seq(Symbols) OBVIOUS
  <2>2. input.texts \in Seq(A) BY <2>1, InputsAssumption
  <2>3. text \in A BY <2>2 DEF Range
  <2> QED BY <2>1, <2>3
<1>6. PICK span \in LineSpans(t) : k \in KeysOf(JobMap(job, At(t, span)))
  <2>1. KeysOf(Mapped(job, t)) = UNION {KeysOf(JobMap(job, At(t, span))) : span \in LineSpans(t)}
    BY <1>1, MappedSums
  <2>2. k \in KeysOf(Mapped(job, t)) BY <1>2, <1>3
  <2> QED BY <2>1, <2>2
<1>7. DOMAIN t = 1 .. n /\ Len(t) = n BY <1>4, <1>5, PrefixParts
<1>8. span \in (1 .. n) \X (0 .. n) BY <1>6, <1>7 DEF LineSpans, SpansOf
<1>9. PICK a \in 1 .. n, b \in 0 .. n : a = span[1] /\ b = span[2] BY <1>8
<1>10. At(t, span) = SubSeq(text, a, b)
  <2>1. SubSeq(SubSeq(text, 1, n), a, b) = SubSeq(text, a, b) BY <1>5, PartOfFront
  <2> QED BY <1>4, <1>9, <2>1 DEF At
<1>11. span \in (DOMAIN text) \X (0 .. Len(text)) BY <1>5, <1>8
<1>12. k \in KeysOf(JobMap(input.job, SubSeq(text, span[1], span[2]))) BY <1>6, <1>9, <1>10
<1> QED BY <1>11, <1>12, HashAssumption

\* A whole part is a part.
LEMMA WholeIsPart ==
    ASSUME NEW o, NEW w, NEW r, NEW whole \in BOOLEAN, IsPart(o, w, r, TRUE) PROVE IsPart(o, w, r, whole)
BY DEF IsPart

\* Nothing is a part of anything.
LEMMA NothingIsPart ==
    ASSUME NEW A \in SUBSET JobPairs, NEW w \in Seq(A), NEW r PROVE IsPart(<<>>, w, r, FALSE)
<1>1. PICK o \in Seq(A) : o = <<>>
  <2>1. <<>> \in Seq(A) OBVIOUS
  <2> QED BY <2>1
<1>2. KeysOf(o) = {} BY <1>1, KeysSteps
<1>3. \A k : SumOf(o, k) = 0 BY <1>2, SumOfMissing
<1>4. \A k : SumOf(w, k) \in Nat BY SumsAreNat
<1>5. \A k : SumOf(o, k) <= Due(w, k, r) BY <1>3, <1>4 DEF Due
<1> QED BY <1>1, <1>2, <1>5 DEF IsPart

\* A part of pairs is a part of pairs with the same sums.
LEMMA PartOfSame ==
    ASSUME NEW o, NEW u, NEW v, NEW r, NEW whole \in BOOLEAN, IsPart(o, u, r, whole), SameSums(u, v)
    PROVE  IsPart(o, v, r, whole)
<1>1. \A k : Due(u, k, r) = Due(v, k, r) BY DEF Due, SameSums
<1>2. KeysOf(u) = KeysOf(v) BY DEF SameSums
<1> QED BY <1>1, <1>2 DEF IsPart

\* What slot s has for reducer r.
BucketOf(s, r) == FlattenSeq([i \in DOMAIN Parts(s) |-> RunMap(input.job, Parts(s)[i], s, r)])

\* Slot s has mapped all it was given, but for buckets cut short.
SlotMapped(s) ==
    /\ \A i \in DOMAIN Parts(s) : ~Unscannable(Parts(s)[i])
    /\ \A r \in Slots :
         /\ BucketFile(s, r) \in DOMAIN buckets
         /\ \/ buckets[BucketFile(s, r)] = BucketOf(s, r)
            \/ lossy /\ buckets[BucketFile(s, r)] = <<>>

\* What slot r reduces the buckets of all slots to.
Outcome(r) ==
    RunReduce(input.job, SortByKey(FlattenSeq([i \in 1 .. N |-> buckets[BucketFile(i - 1, r)]])))

\* It is the slot's part of what was given.
LEMMA OutcomePart ==
    ASSUME NEW job, job = input.job, input \in Inputs, lossy \in BOOLEAN, NEW W, SlotsHave(W, job),
           \A s \in Slots : SlotMapped(s), NEW r \in Slots, NEW out, out = Outcome(r)
    PROVE  /\ out \in Seq(JobPairs) /\ IsPart(out, AllOf(job, Given), r, ~lossy)
           /\ \A kv \in Range(out) : kv.key \in KeysOf(out) /\ kv.value = SumOf(out, kv.key)
<1>1. job \in JobNames BY InputsAssumption
<1>2. PairsOf(job) \in SUBSET JobPairs BY DEF PairsOf
<1>3. PICK A \in SUBSET JobPairs : A = PairsOf(job) BY <1>2
<1>4. W \in [Slots -> Seq(A)] BY <1>3 DEF SlotsHave
<1>5. PICK whole \in BOOLEAN : whole = ~lossy OBVIOUS
<1>6. PICK b : b = [s \in Slots |-> buckets[BucketFile(s, r)]] OBVIOUS
<1>7. ASSUME NEW s \in Slots PROVE b[s] \in Seq(A) /\ IsPart(b[s], W[s], r, whole)
  <2>1. PICK w \in Seq(A) : w = W[s] BY <1>4
  <2>2. PICK texts : texts = Parts(s) OBVIOUS
  <2>3. texts \in Seq(Seq(Symbols)) /\ w = AllOf(job, texts) BY <2>1, <2>2 DEF SlotsHave
  <2>4. PICK o : o = BucketOf(s, r) OBVIOUS
  <2>5. o = FlattenSeq([i \in DOMAIN texts |-> RunMap(job, texts[i], s, r)]) BY <2>2, <2>4 DEF BucketOf
  <2>6. o \in Seq(PairsOf(job)) /\ IsPart(o, AllOf(job, texts), r, TRUE) BY <1>1, <2>3, <2>5, TextsPart, Zenon
  <2>7. IsPart(o, w, r, whole) BY <2>3, <2>6, WholeIsPart
  <2>8. CASE b[s] = o BY <1>3, <2>1, <2>6, <2>7, <2>8
  <2>9. CASE lossy /\ b[s] = <<>>
    <3>1. IsPart(<<>>, w, r, FALSE) BY NothingIsPart
    <3>2. whole = FALSE BY <1>5, <2>9
    <3>3. <<>> \in Seq(A) OBVIOUS
    <3> QED BY <2>1, <2>9, <3>1, <3>2, <3>3
  <2> QED BY <1>6, <2>4, <2>8, <2>9 DEF SlotMapped
<1>8. b \in [Slots -> Seq(A)] BY <1>6, <1>7
<1>9. PICK copies : copies = Joined(b) OBVIOUS
<1>10. copies \in Seq(A) BY <1>8, <1>9, JoinedSums
<1>11. IsPart(copies, Joined(W), r, whole) BY <1>4, <1>7, <1>8, <1>9, JoinedPart
<1>12. IsPart(copies, AllOf(job, Given), r, whole) BY <1>11, PartOfSame DEF SlotsHave
<1>13. out = RunReduce(job, SortByKey(copies))
  <2>1. \A i \in 1 .. N : i - 1 \in Slots BY ChunkingAssumption DEF Slots
  <2>2. [i \in 1 .. N |-> buckets[BucketFile(i - 1, r)]] = [i \in 1 .. N |-> b[i - 1]] BY <1>6, <2>1
  <2>3. copies = FlattenSeq([i \in 1 .. N |-> buckets[BucketFile(i - 1, r)]]) BY <1>9, <2>2 DEF Joined
  <2> QED BY <2>3 DEF Outcome
<1>14. /\ out \in Seq(JobPairs) /\ IsPart(out, AllOf(job, Given), r, whole)
       /\ \A kv \in Range(out) : kv.key \in KeysOf(out) /\ kv.value = SumOf(out, kv.key)
  BY <1>3, <1>10, <1>12, <1>13, ReducedPart
<1> QED BY <1>5, <1>14

-----------------------------------------------------------------------------
(* The inductive invariant *)

\* The phases after the drive of /map.
Late == {"reduce", "collect", "write", "done"}

\* The slots have no input until it is prepared, and then have what was given.
GivenInv ==
    /\ pc \in {"index", "prepare"} => \A s \in Slots : urls[s] = <<>> /\ chunk[s] = <<>>
    /\ pc \in Late \cup {"load", "map"} => AllGiven

\* Where the slots can be in each phase; no copy is fetched before reduce.
PlaceInv ==
    \A s \in Slots :
      /\ pc \in {"index", "prepare", "load"} => at[s] \in DownloadPlaces
      /\ pc = "map" => at[s] \in {"loaded", "mapping", "mapped", "failed"}
      /\ pc = "reduce" => at[s] \in {"mapped", "reduced", "failed"}
      /\ pc = "collect" => at[s] \in {"reduced", "collected"}
      /\ pc \in {"write", "done"} => at[s] = "collected"
      /\ pc \in {"index", "prepare", "load", "map"} => \A i \in Slots : fetch[s][i] = "todo"

\* A slot that has mapped has the buckets of its texts.
BucketInv ==
    \A s \in Slots : pc \in Late \/ (pc = "map" /\ at[s] = "mapped") => SlotMapped(s)

\* A copy that was fetched is the bucket as it is now.
CopyInv ==
    pc \in Late => \A s, i \in Slots :
        fetch[s][i] = "ok" => peerFiles[PeerFile(s, i)] = buckets[BucketFile(i, s)]

\* A slot that has reduced has output what its buckets reduce to.
OutputInv ==
    pc \in Late => \A s \in Slots : at[s] \in {"reduced", "collected"} => output[s] = Outcome(s)

\* The merged result is the merge of the collected ones.
MergedInv == pc \in {"write", "done"} => merged = MergeResults(result)

ResultInv == GivenInv /\ PlaceInv /\ BucketInv /\ CopyInv /\ OutputInv /\ MergedInv

\* It holds when a job begins.
LEMMA ResultInit == ASSUME PipelineInit PROVE ResultInv
<1> USE DEF PipelineInit, DownloadInit
<1>1. pc \in {"index", "prepare"} /\ pc \notin Late \cup {"load", "map"} BY DEF Late
<1>2. GivenInv BY <1>1 DEF GivenInv
<1>3. PlaceInv BY <1>1 DEF PlaceInv, DownloadPlaces
<1>4. BucketInv /\ CopyInv /\ OutputInv /\ MergedInv
  BY <1>1 DEF BucketInv, CopyInv, OutputInv, MergedInv
<1> QED BY <1>2, <1>3, <1>4 DEF ResultInv

\* Once the input is prepared the slots keep what they were given, and once all
\* have mapped it they keep the buckets.
LEMMA InputKept ==
    ASSUME [PipelineNext]_pvars
    PROVE  \/ PrepareLocal \/ PrepareURLs
           \/ /\ UNCHANGED <<input, urls, chunk>>
              /\ pc' \in {"index", "prepare"} => pc \in {"index", "prepare"}
              /\ pc' \in Late \cup {"load", "map"} => pc \in Late \cup {"load", "map"}
<1> USE DEF downloadVars, jobVars
<1>1. CASE Handlers
  <2>1. PICK s \in Slots :
        \/ Load(s) \/ Data(s) \/ MapBegin(s) \/ MapEnd(s) \/ MapTooLong(s)
        \/ \E i \in Slots : Fetch(s, i) \/ FetchFails(s, i)
        \/ Reduce(s) \/ ReduceFails(s) \/ Collect(s)
    BY <1>1 DEF Handlers
  <2>2. CASE Load(s)
    BY <2>2 DEF Load, DownloadStep, StartLoad, Get, GetFails, Copy, CopyFails, Install, InstallFails,
          GiveUp, Written
  <2>3. CASE Data(s) \/ MapBegin(s) \/ MapEnd(s) \/ MapTooLong(s)
    BY <2>3 DEF Data, MapBegin, MapEnd, MapTooLong, Written
  <2>4. CASE \E i \in Slots : Fetch(s, i) \/ FetchFails(s, i) BY <2>4 DEF Fetch, FetchFails, Written
  <2>5. CASE Reduce(s) \/ ReduceFails(s) \/ Collect(s) BY <2>5 DEF Reduce, ReduceFails, Collect
  <2> QED BY <2>1, <2>2, <2>3, <2>4, <2>5
<1>2. CASE Run
  <2>1. CASE LatestCrawl \/ ManifestFails BY <2>1 DEF LatestCrawl, ManifestFails, Late
  <2>2. CASE NextPhase \/ JobFails BY <2>2 DEF NextPhase, JobFails, Target, After, Late
  <2>3. CASE Merge \/ Write \/ WriteEnds BY <2>3 DEF Merge, Write, WriteEnds, Late
  <2> QED BY <1>2, <2>1, <2>2, <2>3 DEF Run
<1>3. CASE Terminated \/ UNCHANGED pvars BY <1>3 DEF Terminated, pvars
<1> QED BY <1>1, <1>2, <1>3 DEF PipelineNext

\* After the map phase, what the buckets were made from and the buckets stay.
LEMMA BucketsKept ==
    ASSUME [PipelineNext]_pvars, pc' \in Late
    PROVE  /\ UNCHANGED <<input, urls, chunk, buckets, lossy>>
           /\ pc \in Late \/ (pc = "map" /\ NextPhase)
<1> USE DEF downloadVars, jobVars, mapVars
<1>1. CASE Handlers
  <2>1. PICK s \in Slots :
        \/ Load(s) \/ Data(s) \/ MapBegin(s) \/ MapEnd(s) \/ MapTooLong(s)
        \/ \E i \in Slots : Fetch(s, i) \/ FetchFails(s, i)
        \/ Reduce(s) \/ ReduceFails(s) \/ Collect(s)
    BY <1>1 DEF Handlers
  <2>2. CASE Load(s) \/ Data(s) \/ MapBegin(s) \/ MapEnd(s) \/ MapTooLong(s)
    BY <2>2 DEF Load, Data, MapBegin, MapEnd, MapTooLong, Written, Late
  <2>3. CASE \E i \in Slots : Fetch(s, i) \/ FetchFails(s, i) BY <2>3 DEF Fetch, FetchFails, Written
  <2>4. CASE Reduce(s) \/ ReduceFails(s) \/ Collect(s) BY <2>4 DEF Reduce, ReduceFails, Collect
  <2> QED BY <2>1, <2>2, <2>3, <2>4
<1>2. CASE Run
  <2>1. CASE PrepareLocal \/ PrepareURLs \/ LatestCrawl \/ ManifestFails
    BY <2>1 DEF PrepareLocal, PrepareURLs, LatestCrawl, ManifestFails, Late
  <2>2. CASE NextPhase BY <2>2 DEF NextPhase, Target, After, Late
  <2>3. CASE JobFails BY <2>3 DEF JobFails, Late
  <2>4. CASE Merge \/ Write \/ WriteEnds BY <2>4 DEF Merge, Write, WriteEnds, Late
  <2> QED BY <1>2, <2>1, <2>2, <2>3, <2>4 DEF Run
<1>3. CASE Terminated \/ UNCHANGED pvars BY <1>3 DEF Terminated, pvars
<1> QED BY <1>1, <1>2, <1>3 DEF PipelineNext

\* The slots are given their inputs once, when they are prepared.
LEMMA GivenStep == ASSUME input \in Inputs, GivenInv, [PipelineNext]_pvars PROVE GivenInv'
<1>1. CASE PrepareLocal
  <2>1. /\ pc = "prepare" /\ pc' = "load" /\ input.mode = "local" /\ UNCHANGED <<urls, input>>
        /\ chunk' = [s \in Slots |-> ChunkForWorker(SplitIntoChunks(input.texts[1], ChunkSize), s)]
    BY <1>1 DEF PrepareLocal, downloadVars
  <2>2. AllGiven' BY <2>1 DEF AllGiven, GivenInv
  <2> QED BY <2>1, <2>2 DEF GivenInv
<1>2. CASE PrepareURLs
  <2>1. /\ pc = "prepare" /\ pc' \in {"load", "failed"} /\ input.mode # "local"
        /\ UNCHANGED <<chunk, input>> /\ urls' = AssignURLsRoundRobin(SelectedURLs)
    BY <1>2 DEF PrepareURLs, jobVars
  <2>2. SelectedURLs' = SelectedURLs BY <2>1 DEF SelectedURLs
  <2>3. AllGiven' BY <2>1, <2>2 DEF AllGiven, GivenInv
  <2> QED BY <2>1, <2>3 DEF GivenInv, Late
<1>3. CASE ~PrepareLocal /\ ~PrepareURLs
  <2>1. /\ UNCHANGED <<input, urls, chunk>>
        /\ pc' \in {"index", "prepare"} => pc \in {"index", "prepare"}
        /\ pc' \in Late \cup {"load", "map"} => pc \in Late \cup {"load", "map"}
    BY <1>3, InputKept
  <2>2. SelectedURLs' = SelectedURLs BY <2>1 DEF SelectedURLs
  <2>3. AllGiven => AllGiven' BY <2>1, <2>2 DEF AllGiven
  <2> QED BY <2>1, <2>3 DEF GivenInv
<1> QED BY <1>1, <1>2, <1>3

\* A phase begins when all slots have ended the one before.
LEMMA PlaceStep == ASSUME LoadTypes, ControlTypes, PlaceInv, [PipelineNext]_pvars PROVE PlaceInv'
<1> USE DEF downloadVars, jobVars, mapVars, reduceVars, PlaceInv
<1>1. CASE Handlers
  <2>1. PICK s \in Slots :
        \/ Load(s) \/ Data(s) \/ MapBegin(s) \/ MapEnd(s) \/ MapTooLong(s)
        \/ \E i \in Slots : Fetch(s, i) \/ FetchFails(s, i)
        \/ Reduce(s) \/ ReduceFails(s) \/ Collect(s)
    BY <1>1 DEF Handlers
  <2>2. ASSUME UNCHANGED <<pc, fetch>>, NEW p, GoTo(s, p),
               pc = "load" => p \in DownloadPlaces,
               pc = "map" => p \in {"loaded", "mapping", "mapped", "failed"},
               pc = "reduce" => p \in {"mapped", "reduced", "failed"},
               pc = "collect" => p \in {"reduced", "collected"},
               pc \in {"load", "map", "reduce", "collect"}
        PROVE  PlaceInv'
    BY <2>2 DEF GoTo, LoadTypes
  <2>3. CASE Load(s)
    <3>1. pc = "load" /\ UNCHANGED <<pc, fetch>> BY <2>3 DEF Load
    <3>2. \E p \in DownloadPlaces : GoTo(s, p)
      BY <2>3 DEF Load, DownloadStep, StartLoad, Get, GetFails, Copy, CopyFails, Install,
            InstallFails, GiveUp, Again, Written, DownloadPlaces
    <3> QED BY <2>2, <3>1, <3>2
  <2>4. CASE Data(s)
    <3>1. pc = "load" /\ UNCHANGED <<pc, fetch>> /\ GoTo(s, "loaded") BY <2>4 DEF Data
    <3> QED BY <2>2, <3>1 DEF DownloadPlaces
  <2>5. CASE MapBegin(s) \/ MapEnd(s) \/ MapTooLong(s)
    <3>1. pc = "map" /\ UNCHANGED <<pc, fetch>> /\ \E p \in {"mapping", "mapped", "failed"} : GoTo(s, p)
      BY <2>5 DEF MapBegin, MapEnd, MapTooLong, Written
    <3> QED BY <2>2, <3>1
  <2>6. CASE \E i \in Slots : Fetch(s, i) \/ FetchFails(s, i)
    BY <2>6 DEF Fetch, FetchFails, Written
  <2>7. CASE Reduce(s) \/ ReduceFails(s)
    <3>1. pc = "reduce" /\ UNCHANGED <<pc, fetch>> /\ \E p \in {"reduced", "failed"} : GoTo(s, p)
      BY <2>7 DEF Reduce, ReduceFails
    <3> QED BY <2>2, <3>1
  <2>8. CASE Collect(s)
    <3>1. pc = "collect" /\ UNCHANGED <<pc, fetch>> /\ GoTo(s, "collected") BY <2>8 DEF Collect
    <3> QED BY <2>2, <3>1
  <2> QED BY <2>1, <2>3, <2>4, <2>5, <2>6, <2>7, <2>8
<1>2. CASE Run
  <2>1. CASE PrepareLocal \/ PrepareURLs \/ LatestCrawl \/ ManifestFails
    BY <2>1 DEF PrepareLocal, PrepareURLs, LatestCrawl, ManifestFails
  <2>2. CASE NextPhase BY <2>2 DEF NextPhase, Target, After
  <2>3. CASE JobFails BY <2>3 DEF JobFails
  <2>4. CASE Merge BY <2>4 DEF Merge
  <2>5. CASE Write \/ WriteEnds BY <2>5 DEF Write, WriteEnds
  <2> QED BY <1>2, <2>1, <2>2, <2>3, <2>4, <2>5 DEF Run
<1>3. CASE Terminated \/ UNCHANGED pvars BY <1>3 DEF Terminated, pvars
<1> QED BY <1>1, <1>2, <1>3 DEF PipelineNext

\* A slot has mapped what it was given as long as its buckets are left alone.
LEMMA SlotMappedKept ==
    ASSUME NEW s \in Slots, SlotMapped(s), UNCHANGED <<input, urls, chunk>>, lossy => lossy',
           \A r \in Slots : BucketFile(s, r) \in DOMAIN buckets =>
               BucketFile(s, r) \in DOMAIN buckets' /\ buckets'[BucketFile(s, r)] = buckets[BucketFile(s, r)]
    PROVE  SlotMapped(s)'
<1>1. Parts(s)' = Parts(s) BY DEF Parts
<1>2. \A r \in Slots : BucketOf(s, r)' = BucketOf(s, r) BY <1>1 DEF BucketOf
<1>3. \A i \in DOMAIN Parts(s)' : ~Unscannable(Parts(s)'[i]) BY <1>1 DEF SlotMapped
<1>4. ASSUME NEW r \in Slots
      PROVE  /\ BucketFile(s, r) \in DOMAIN buckets'
             /\ \/ buckets'[BucketFile(s, r)] = BucketOf(s, r)'
                \/ lossy' /\ buckets'[BucketFile(s, r)] = <<>>
  BY <1>2 DEF SlotMapped
<1> QED BY <1>1, <1>3, <1>4 DEF SlotMapped, BucketFile

\* At the end of its map a slot has mapped what it was given.
LEMMA MapEndMaps == ASSUME LoadTypes, NEW s \in Slots, SlotFiles(s), MapEnd(s) PROVE SlotMapped(s)'
<1>1. /\ pc = "map" /\ at[s] = "mapping" /\ Mappable(s) /\ UNCHANGED <<urls, input, chunk>>
      /\ \E short \in SUBSET Slots :
           /\ lossy' = (lossy \/ \E r \in short : Emitted(s, r) # <<>>)
           /\ buckets' = [f \in BucketsOf(s) \cup DOMAIN buckets |->
                 IF f \in BucketsOf(s) THEN IF f[3] \in short THEN <<>> ELSE Emitted(s, f[3])
                 ELSE buckets[f]]
  BY DEF MapEnd, Written, jobVars
<1>2. PICK short \in SUBSET Slots :
           /\ lossy' = (lossy \/ \E r \in short : Emitted(s, r) # <<>>)
           /\ buckets' = [f \in BucketsOf(s) \cup DOMAIN buckets |->
                 IF f \in BucketsOf(s) THEN IF f[3] \in short THEN <<>> ELSE Emitted(s, f[3])
                 ELSE buckets[f]]
  BY <1>1, Zenon
<1>3. TextsOf(s) = Parts(s)
  <2>1. CASE urls[s] = <<>> BY <2>1 DEF TextsOf, Parts
  <2>2. CASE urls[s] # <<>>
    <3>1. \A i \in DOMAIN urls[s] : inputFiles[InputFile(s, i)] = urls[s][i] BY <1>1 DEF SlotFiles
    <3>2. [i \in DOMAIN urls[s] |-> input.texts[inputFiles[InputFile(s, i)]]]
            = [i \in DOMAIN urls[s] |-> input.texts[urls[s][i]]]
      BY <3>1
    <3> QED BY <2>2, <3>2 DEF TextsOf, Parts
  <2> QED BY <2>1, <2>2
<1>4. \A r : Emitted(s, r) = BucketOf(s, r) BY <1>3 DEF Emitted, BucketOf
<1>5. Parts(s)' = Parts(s) BY <1>1 DEF Parts
<1>6. \A r : BucketOf(s, r)' = BucketOf(s, r) BY <1>1, <1>5 DEF BucketOf
<1>7. \A i \in DOMAIN Parts(s)' : ~Unscannable(Parts(s)'[i]) BY <1>1, <1>3, <1>5 DEF Mappable
<1>8. ASSUME NEW r \in Slots
      PROVE  /\ BucketFile(s, r) \in DOMAIN buckets'
             /\ \/ buckets'[BucketFile(s, r)] = BucketOf(s, r)'
                \/ lossy' /\ buckets'[BucketFile(s, r)] = <<>>
  <2>0. PICK b : b = BucketFile(s, r) OBVIOUS
  <2>1. b = BucketFile(s, r) /\ b[3] = r BY <2>0 DEF BucketFile
  <2>2. b \in BucketsOf(s) BY <2>1 DEF BucketsOf
  <2>3. b \in DOMAIN buckets' /\ buckets'[b] = IF r \in short THEN <<>> ELSE Emitted(s, r)
    BY <1>2, <2>1, <2>2
  <2>4. PICK o : o = Emitted(s, r) OBVIOUS
  <2>5. BucketOf(s, r)' = o BY <1>4, <1>6, <2>4
  <2>6. CASE r \in short /\ o # <<>>
    <3>1. lossy' BY <1>2, <2>4, <2>6, Zenon
    <3> QED BY <2>1, <2>3, <2>6, <3>1
  <2>7. CASE r \notin short \/ o = <<>>
    <3>1. buckets'[b] = o BY <2>3, <2>4, <2>7
    <3> QED BY <2>1, <2>3, <2>5, <3>1
  <2> QED BY <2>6, <2>7
<1> QED BY <1>7, <1>8 DEF SlotMapped, BucketFile

\* Buckets of other slots are left alone.
LEMMA OthersKept ==
    ASSUME NEW s \in Slots, NEW t \in Slots \ {s}, SlotMapped(t), UNCHANGED <<input, urls, chunk>>, lossy => lossy',
           \A b : b \in DOMAIN buckets /\ b \notin BucketsOf(s) => b \in DOMAIN buckets' /\ buckets'[b] = buckets[b]
    PROVE  SlotMapped(t)'
<1>1. \A r \in Slots : BucketFile(t, r) \notin BucketsOf(s) BY DEF BucketsOf, BucketFile
<1> QED BY <1>1, SlotMappedKept

\* The buckets of a slot that has mapped are those of its texts, but for a
\* bucket that was cut short.
LEMMA BucketStep ==
    ASSUME LoadInv, ControlTypes, BucketInv, [PipelineNext]_pvars PROVE BucketInv'
<1> USE DEF downloadVars, jobVars, mapVars
<1>0. LoadTypes /\ \A s \in Slots : SlotFiles(s) BY DEF LoadInv
<1>1. CASE pc' \in Late
  <2>1. UNCHANGED <<input, urls, chunk, buckets, lossy>> /\ (pc \in Late \/ (pc = "map" /\ NextPhase))
    BY <1>1, BucketsKept
  <2>2. ASSUME NEW s \in Slots PROVE SlotMapped(s)
    <3>1. CASE pc \in Late BY <3>1 DEF BucketInv
    <3>2. CASE pc = "map" /\ NextPhase
      <4>1. at[s] = "mapped" BY <3>2 DEF NextPhase, Target
      <4> QED BY <3>2, <4>1 DEF BucketInv
    <3> QED BY <2>1, <3>1, <3>2
  <2>3. \A s \in Slots : SlotMapped(s)' BY <2>1, <2>2, SlotMappedKept DEF BucketFile
  <2> QED BY <2>3 DEF BucketInv
<1>2. CASE pc' = "map" /\ Handlers
  <2>1. PICK s \in Slots :
        \/ Load(s) \/ Data(s) \/ MapBegin(s) \/ MapEnd(s) \/ MapTooLong(s)
        \/ \E i \in Slots : Fetch(s, i) \/ FetchFails(s, i)
        \/ Reduce(s) \/ ReduceFails(s) \/ Collect(s)
    BY <1>2 DEF Handlers
  <2>2. MapBegin(s) \/ MapEnd(s) \/ MapTooLong(s)
    BY <1>2, <2>1 DEF Load, Data, Fetch, FetchFails, Reduce, ReduceFails, Collect, Written
  <2>3. pc = "map" /\ UNCHANGED <<input, urls, chunk>> /\ \E p \in {"mapping", "mapped", "failed"} : GoTo(s, p)
    BY <2>2 DEF MapBegin, MapEnd, MapTooLong, Written
  <2>4. lossy => lossy'
    <3>1. CASE MapEnd(s)
      <4>1. \E short : lossy' = (lossy \/ \E r \in short : Emitted(s, r) # <<>>) BY <3>1 DEF MapEnd, Written
      <4> QED BY <4>1, Zenon
    <3>2. CASE MapBegin(s) \/ MapTooLong(s) BY <3>2 DEF MapBegin, MapTooLong, Written
    <3> QED BY <2>2, <3>1, <3>2
  <2>5. \A b : b \in DOMAIN buckets /\ b \notin BucketsOf(s) => b \in DOMAIN buckets' /\ buckets'[b] = buckets[b]
    BY <2>2 DEF MapBegin, MapEnd, MapTooLong, Written
  <2>6. ASSUME NEW t \in Slots, at'[t] = "mapped" PROVE SlotMapped(t)'
    <3>1. CASE t # s
      <4>1. at'[t] = at[t] BY <1>0, <2>3, <3>1 DEF GoTo, LoadTypes
      <4>2. SlotMapped(t) BY <2>3, <2>6, <4>1 DEF BucketInv
      <4> QED BY <2>3, <2>4, <2>5, <3>1, <4>2, OthersKept
    <3>2. CASE t = s
      <4>1. MapEnd(s) BY <1>0, <2>2, <2>6, <3>2 DEF MapBegin, MapTooLong, GoTo, LoadTypes, Written
      <4> QED BY <1>0, <3>2, <4>1, MapEndMaps
    <3> QED BY <3>1, <3>2
  <2> QED BY <1>2, <2>6 DEF BucketInv, Late
<1>3. CASE pc' = "map" /\ ~Handlers
  <2>1. CASE NextPhase
    <3>1. \A s \in Slots : at'[s] = "loaded" BY <1>3, <2>1 DEF NextPhase, Target, After
    <3> QED BY <1>3, <3>1 DEF BucketInv, Late
  <2>2. CASE UNCHANGED pvars
    <3>1. \A s \in Slots : SlotMapped(s) => SlotMapped(s)' BY <2>2, SlotMappedKept DEF pvars, BucketFile
    <3>2. pc' = pc /\ at' = at BY <2>2 DEF pvars
    <3> QED BY <3>1, <3>2 DEF BucketInv
  <2>3. NextPhase \/ UNCHANGED pvars
    BY <1>3 DEF PipelineNext, Run, PrepareLocal, PrepareURLs, LatestCrawl, ManifestFails, JobFails, Merge,
          Write, WriteEnds, Terminated
  <2> QED BY <2>1, <2>2, <2>3
<1>4. CASE pc' \notin Late /\ pc' # "map" BY <1>4 DEF BucketInv
<1> QED BY <1>1, <1>2, <1>3, <1>4

\* A copy that has been fetched is the bucket it is a copy of.
LEMMA CopyStep ==
    ASSUME ControlTypes, DataTypes, PlaceInv, BucketInv, CopyInv, [PipelineNext]_pvars PROVE CopyInv'
<1> USE DEF downloadVars, jobVars, mapVars, reduceVars
<1> SUFFICES ASSUME pc' \in Late
             PROVE  \A t, j \in Slots : fetch'[t][j] = "ok" =>
                      peerFiles'[PeerFile(t, j)] = buckets'[BucketFile(j, t)]
  BY DEF CopyInv, PeerFile, BucketFile
<1>1. UNCHANGED buckets /\ (pc \in Late \/ (pc = "map" /\ NextPhase)) BY BucketsKept
<1>2. fetch \in [Slots -> [Slots -> {"todo", "ok", "err"}]] BY DEF ControlTypes
<1>3. CASE pc = "map" /\ NextPhase
  <2>1. UNCHANGED <<fetch, peerFiles>> BY <1>3 DEF NextPhase
  <2> QED BY <1>1, <1>3, <2>1 DEF PlaceInv
<1>4. CASE pc \in Late /\ UNCHANGED <<fetch, peerFiles>> BY <1>1, <1>4 DEF CopyInv
<1>5. CASE \E s, i \in Slots : Fetch(s, i)
  <2>1. PICK s, i \in Slots : Fetch(s, i) BY <1>5
  <2>2. /\ pc = "reduce" /\ fetch' = [fetch EXCEPT ![s][i] = "ok"]
        /\ peerFiles' = [f \in {PeerFile(s, i)} \cup DOMAIN peerFiles |->
                           IF f \in {PeerFile(s, i)} THEN Served(BucketFile(i, s)) ELSE peerFiles[f]]
    BY <2>1 DEF Fetch, Written
  <2>3. SlotMapped(i) BY <2>2 DEF BucketInv, Late
  <2>4. Served(BucketFile(i, s)) = buckets[BucketFile(i, s)] BY <2>3 DEF SlotMapped, Served
  <2>5. peerFiles'[PeerFile(s, i)] = buckets[BucketFile(i, s)] BY <2>2, <2>4
  <2>6. ASSUME NEW t \in Slots, NEW j \in Slots, fetch'[t][j] = "ok", t # s \/ j # i
        PROVE  peerFiles'[PeerFile(t, j)] = buckets[BucketFile(j, t)]
    <3>1. fetch[t][j] = "ok" BY <1>2, <2>2, <2>6
    <3>2. PeerFile(t, j) # PeerFile(s, i) BY <2>6 DEF PeerFile
    <3>3. peerFiles[PeerFile(t, j)] = buckets[BucketFile(j, t)] BY <2>2, <3>1 DEF CopyInv, Late
    <3>4. PeerFile(t, j) \in DOMAIN peerFiles BY <3>1 DEF DataTypes
    <3> QED BY <2>2, <3>2, <3>3, <3>4
  <2> QED BY <1>1, <2>5, <2>6
<1>6. CASE \E s, i \in Slots : FetchFails(s, i)
  <2>1. PICK s, i \in Slots : FetchFails(s, i) BY <1>6
  <2>2. pc = "reduce" /\ fetch' = [fetch EXCEPT ![s][i] = "err"] /\ UNCHANGED peerFiles
    BY <2>1 DEF FetchFails
  <2>3. \A t, j \in Slots : fetch'[t][j] = "ok" => fetch[t][j] = "ok" BY <1>2, <2>2
  <2> QED BY <1>1, <2>2, <2>3 DEF CopyInv, Late
<1>7. \/ UNCHANGED <<fetch, peerFiles>>
      \/ \E s, i \in Slots : Fetch(s, i) \/ FetchFails(s, i)
  <2>1. CASE Handlers
    <3>1. PICK s \in Slots :
          \/ Load(s) \/ Data(s) \/ MapBegin(s) \/ MapEnd(s) \/ MapTooLong(s)
          \/ \E i \in Slots : Fetch(s, i) \/ FetchFails(s, i)
          \/ Reduce(s) \/ ReduceFails(s) \/ Collect(s)
      BY <2>1 DEF Handlers
    <3> QED BY <3>1 DEF Load, Data, MapBegin, MapEnd, MapTooLong, Reduce, ReduceFails, Collect, Written
  <2>2. CASE Run
    BY <2>2 DEF Run, PrepareLocal, PrepareURLs, LatestCrawl, ManifestFails, NextPhase, JobFails, Merge,
          Write, WriteEnds
  <2>3. CASE Terminated \/ UNCHANGED pvars BY <2>3 DEF Terminated, pvars
  <2> QED BY <2>1, <2>2, <2>3 DEF PipelineNext
<1> QED BY <1>1, <1>3, <1>4, <1>5, <1>6, <1>7

\* What a slot has reduced is what it was due.
LEMMA OutputStep ==
    ASSUME LoadTypes, ControlTypes, DataTypes, PlaceInv, CopyInv, OutputInv, [PipelineNext]_pvars
    PROVE  OutputInv'
<1> USE DEF downloadVars, jobVars, mapVars, reduceVars
<1> SUFFICES ASSUME pc' \in Late, NEW t \in Slots, at'[t] \in {"reduced", "collected"}
             PROVE  output'[t] = Outcome(t)'
  BY DEF OutputInv
<1>1. UNCHANGED <<input, buckets>> /\ (pc \in Late \/ (pc = "map" /\ NextPhase)) BY BucketsKept
<1>2. Outcome(t)' = Outcome(t) BY <1>1 DEF Outcome, BucketFile
<1>3. CASE pc = "map" /\ NextPhase BY <1>3 DEF NextPhase, Target
<1>4. CASE pc \in Late /\ at[t] \in {"reduced", "collected"} /\ output'[t] = output[t]
  BY <1>2, <1>4 DEF OutputInv
<1>5. CASE Reduce(t)
  <2>1. /\ pc = "reduce" /\ \A i \in Slots : fetch[t][i] = "ok"
        /\ output' = [output EXCEPT ![t] = RunReduce(input.job, SortByKey(FlattenSeq(
                        [i \in 1 .. N |-> peerFiles[PeerFile(t, i - 1)]])))]
    BY <1>5 DEF Reduce
  <2>2. \A i \in 1 .. N : i - 1 \in Slots BY ChunkingAssumption DEF Slots
  <2>3. \A i \in 1 .. N : peerFiles[PeerFile(t, i - 1)] = buckets[BucketFile(i - 1, t)]
    BY <2>1, <2>2 DEF CopyInv, Late
  <2>4. [i \in 1 .. N |-> peerFiles[PeerFile(t, i - 1)]] = [i \in 1 .. N |-> buckets[BucketFile(i - 1, t)]]
    BY <2>3
  <2>5. output \in [Slots -> Seq(JobPairs)] BY DEF DataTypes
  <2>6. output'[t] = RunReduce(input.job, SortByKey(FlattenSeq(
                        [i \in 1 .. N |-> peerFiles[PeerFile(t, i - 1)]])))
    BY <2>1, <2>5
  <2> QED BY <1>2, <2>4, <2>6 DEF Outcome
<1>6. \/ at[t] \in {"reduced", "collected"} /\ output'[t] = output[t]
      \/ Reduce(t)
      \/ pc \notin Late
  <2>1. CASE Handlers
    <3>1. PICK s \in Slots :
          \/ Load(s) \/ Data(s) \/ MapBegin(s) \/ MapEnd(s) \/ MapTooLong(s)
          \/ \E i \in Slots : Fetch(s, i) \/ FetchFails(s, i)
          \/ Reduce(s) \/ ReduceFails(s) \/ Collect(s)
      BY <2>1 DEF Handlers
    <3>2. CASE Load(s) \/ Data(s) \/ MapBegin(s) \/ MapEnd(s) \/ MapTooLong(s)
      BY <3>2 DEF Load, Data, MapBegin, MapEnd, MapTooLong, Written, Late
    <3>3. CASE \E i \in Slots : Fetch(s, i) \/ FetchFails(s, i)
      BY <3>3 DEF Fetch, FetchFails, Written
    <3>4. CASE Reduce(s)
      <4>1. GoTo(s, "reduced") /\ \E x : output' = [output EXCEPT ![s] = x] BY <3>4 DEF Reduce
      <4>2. output \in [Slots -> Seq(JobPairs)] BY DEF DataTypes
      <4>3. CASE t = s BY <3>4, <4>3
      <4>4. CASE t # s BY <4>1, <4>2, <4>4 DEF GoTo, LoadTypes
      <4> QED BY <4>3, <4>4
    <3>5. CASE ReduceFails(s)
      <4>1. GoTo(s, "failed") /\ UNCHANGED output BY <3>5 DEF ReduceFails
      <4> QED BY <4>1 DEF GoTo, LoadTypes
    <3>6. CASE Collect(s)
      <4>1. GoTo(s, "collected") /\ UNCHANGED output /\ at[s] = "reduced" BY <3>6 DEF Collect
      <4> QED BY <4>1 DEF GoTo, LoadTypes
    <3> QED BY <3>1, <3>2, <3>3, <3>4, <3>5, <3>6
  <2>2. CASE Run
    BY <2>2 DEF Run, PrepareLocal, PrepareURLs, LatestCrawl, ManifestFails, NextPhase, JobFails, Merge,
          Write, WriteEnds, Late
  <2>3. CASE Terminated \/ UNCHANGED pvars BY <2>3 DEF Terminated, pvars
  <2> QED BY <2>1, <2>2, <2>3 DEF PipelineNext
<1> QED BY <1>1, <1>3, <1>4, <1>5, <1>6

\* The merge is that of the results.
LEMMA MergedStep == ASSUME MergedInv, [PipelineNext]_pvars PROVE MergedInv'
<1> USE DEF endVars
<1>1. CASE Handlers
  <2>1. PICK s \in Slots :
        \/ Load(s) \/ Data(s) \/ MapBegin(s) \/ MapEnd(s) \/ MapTooLong(s)
        \/ \E i \in Slots : Fetch(s, i) \/ FetchFails(s, i)
        \/ Reduce(s) \/ ReduceFails(s) \/ Collect(s)
    BY <1>1 DEF Handlers
  <2>2. pc' \notin {"write", "done"}
    BY <2>1 DEF Load, Data, MapBegin, MapEnd, MapTooLong, Fetch, FetchFails, Reduce, ReduceFails, Collect,
          Written
  <2> QED BY <2>2 DEF MergedInv
<1>2. CASE Run
  <2>1. CASE PrepareLocal \/ PrepareURLs \/ LatestCrawl \/ ManifestFails
    BY <2>1 DEF PrepareLocal, PrepareURLs, LatestCrawl, ManifestFails, MergedInv
  <2>2. CASE NextPhase \/ JobFails BY <2>2 DEF NextPhase, JobFails, Target, After, MergedInv
  <2>3. CASE Merge BY <2>3 DEF Merge, MergedInv
  <2>4. CASE Write \/ WriteEnds BY <2>4 DEF Write, WriteEnds, MergedInv
  <2> QED BY <1>2, <2>1, <2>2, <2>3, <2>4 DEF Run
<1>3. CASE Terminated \/ UNCHANGED pvars BY <1>3 DEF Terminated, pvars, MergedInv
<1> QED BY <1>1, <1>2, <1>3 DEF PipelineNext

\* No step breaks the invariant.
LEMMA ResultStep == ASSUME TypeInv, ResultInv, [PipelineNext]_pvars PROVE ResultInv'
<1>1. LoadInv /\ LoadTypes /\ ControlTypes /\ DataTypes /\ input \in Inputs BY DEF TypeInv, LoadInv, ControlTypes
<1>2. GivenInv /\ PlaceInv /\ BucketInv /\ CopyInv /\ OutputInv /\ MergedInv BY DEF ResultInv
<1>3. GivenInv' BY <1>1, <1>2, GivenStep
<1>4. PlaceInv' BY <1>1, <1>2, PlaceStep
<1>5. BucketInv' BY <1>1, <1>2, BucketStep
<1>6. CopyInv' BY <1>1, <1>2, CopyStep
<1>7. OutputInv' BY <1>1, <1>2, OutputStep
<1>8. MergedInv' BY <1>2, MergedStep
<1> QED BY <1>3, <1>4, <1>5, <1>6, <1>7, <1>8 DEF ResultInv

\* What the slots are given, once all have mapped it, with the pairs of each.
LEMMA MappedGiven ==
    ASSUME TypeInv, ResultInv, pc \in Late, NEW job, job = input.job
    PROVE  /\ \E W : SlotsHave(W, job)
           /\ \A k \in KeysOf(AllOf(job, Given)) : KeyHash(k) \in Nat
           /\ input.mode = "local" =>
                \E e \in 0 .. Len(input.texts[1]) :
                   Given = << SubSeq(input.texts[1], 1, e) >> /\ LineEnd(input.texts[1], e)
<1>1. input \in Inputs BY DEF TypeInv, ControlTypes
<1>2. job \in JobNames BY <1>1, InputsAssumption
<1>3. AllGiven /\ \A s \in Slots : SlotMapped(s) BY DEF ResultInv, GivenInv, BucketInv
<1>4. \A s \in Slots : \A i \in DOMAIN Parts(s) : ~Unscannable(Parts(s)[i]) BY <1>3 DEF SlotMapped
<1>5. input.mode = "local" =>
        \E e \in 0 .. Len(input.texts[1]) :
           Given = << SubSeq(input.texts[1], 1, e) >> /\ LineEnd(input.texts[1], e)
  BY <1>1, <1>2, <1>3, <1>4, GivenLocal
<1>6. PICK W : SlotsHave(W, job)
  <2>1. CASE input.mode = "local" BY <1>1, <1>2, <1>3, <1>4, <2>1, GivenLocal
  <2>2. CASE input.mode # "local" BY <1>1, <1>2, <1>3, <2>2, GivenURLs
  <2> QED BY <2>1, <2>2
<1>7. AreFronts(Given) BY <1>1, <1>5, GivenFronts
<1>8. Given \in Seq(Seq(Symbols)) BY <1>6 DEF SlotsHave
<1>9. \A k \in KeysOf(AllOf(job, Given)) : KeyHash(k) \in Nat BY <1>1, <1>7, <1>8, KeysHaveHashes
<1> QED BY <1>5, <1>6, <1>9

\* The output of a slot that has reduced, and what it should be.
LEMMA OutputIsPart ==
    ASSUME TypeInv, ResultInv, pc \in {"collect", "write", "done"}, NEW all, all = AllOf(input.job, Given)
    PROVE  /\ all \in Seq(JobPairs) /\ Reference(Given) = [k \in KeysOf(all) |-> SumOf(all, k)]
           /\ \A r \in Slots :
                /\ output[r] \in Seq(JobPairs) /\ IsPart(output[r], all, r, ~lossy)
                /\ \A kv \in Range(output[r]) : kv.key \in KeysOf(output[r]) /\ kv.value = SumOf(output[r], kv.key)
<1>1. PICK job : job = input.job OBVIOUS
<1>2. input \in Inputs /\ lossy \in BOOLEAN BY DEF TypeInv, ControlTypes
<1>3. job \in JobNames BY <1>1, <1>2, InputsAssumption
<1>4. pc \in Late BY DEF Late
<1>5. PICK W : SlotsHave(W, job) BY <1>1, <1>4, MappedGiven
<1>6. Given \in Seq(Seq(Symbols)) BY <1>5 DEF SlotsHave
<1>7. Reference(Given) = [k \in KeysOf(all) |-> SumOf(all, k)]
  <2>1. PICK texts \in Seq(Seq(Symbols)) : texts = Given BY <1>6
  <2>2. all = AllOf(input.job, texts) BY <2>1
  <2> QED BY <1>2, <2>1, <2>2, ReferenceIsTotal
<1>8. all \in Seq(JobPairs)
  <2>1. all \in Seq(PairsOf(job)) BY <1>1, <1>3, <1>6, AllOfSums
  <2>2. PairsOf(job) \subseteq JobPairs BY DEF PairsOf
  <2> QED BY <2>1, <2>2, SeqSubset
<1>9. \A s \in Slots : SlotMapped(s) BY <1>4 DEF ResultInv, BucketInv
<1>10. ASSUME NEW r \in Slots
       PROVE  /\ output[r] \in Seq(JobPairs) /\ IsPart(output[r], all, r, ~lossy)
              /\ \A kv \in Range(output[r]) : kv.key \in KeysOf(output[r]) /\ kv.value = SumOf(output[r], kv.key)
  <2>1. at[r] \in {"reduced", "collected"} BY DEF ResultInv, PlaceInv
  <2>2. PICK out : out = Outcome(r) OBVIOUS
  <2>3. output[r] = out BY <1>4, <2>1, <2>2 DEF ResultInv, OutputInv
  <2>4. /\ out \in Seq(JobPairs) /\ IsPart(out, AllOf(job, Given), r, ~lossy)
        /\ \A kv \in Range(out) : kv.key \in KeysOf(out) /\ kv.value = SumOf(out, kv.key)
    BY <1>1, <1>2, <1>5, <1>9, <2>2, OutcomePart
  <2> QED BY <1>1, <2>3, <2>4
<1> QED BY <1>7, <1>8, <1>10

\* All pairs of a key meet in one slot.
LEMMA WholeKeys == ASSUME TypeInv, ResultInv PROVE KeysReducedWhole
<1> SUFFICES ASSUME pc \in {"collect", "write", "done"}, ~lossy, NEW s \in Slots, NEW kv \in Range(output[s])
             PROVE  kv.key \in DOMAIN Reference(Given) /\ kv.value = Reference(Given)[kv.key]
  BY DEF KeysReducedWhole
<1>1. PICK all : all = AllOf(input.job, Given) OBVIOUS
<1>2. Reference(Given) = [k \in KeysOf(all) |-> SumOf(all, k)] BY <1>1, OutputIsPart
<1>3. PICK o : o = output[s] OBVIOUS
<1>4. IsPart(o, all, s, TRUE) /\ kv.key \in KeysOf(o) /\ kv.value = SumOf(o, kv.key)
  <2>1. /\ IsPart(o, all, s, ~lossy)
        /\ \A e \in Range(o) : e.key \in KeysOf(o) /\ e.value = SumOf(o, e.key)
    BY <1>1, <1>3, OutputIsPart
  <2>2. (~lossy) = TRUE OBVIOUS
  <2> QED BY <1>3, <2>1, <2>2
<1>5. kv.key \in KeysOf(all) /\ SumOf(o, kv.key) = SumOf(all, kv.key) BY <1>4 DEF IsPart, Due
<1> QED BY <1>2, <1>4, <1>5

\* The result is the reference.
LEMMA RightResult == ASSUME TypeInv, ResultInv PROVE ResultIsReference
<1> SUFFICES ASSUME pc = "done" PROVE ResultIsReference BY DEF ResultIsReference
<1>1. PICK all : all = AllOf(input.job, Given) OBVIOUS
<1>2. PICK want : want = [k \in KeysOf(all) |-> SumOf(all, k)] OBVIOUS
<1>3. Reference(Given) = want /\ all \in Seq(JobPairs) BY <1>1, <1>2, OutputIsPart
<1>4. lossy \in BOOLEAN /\ input \in Inputs BY DEF TypeInv, ControlTypes
<1>5. PICK whole \in BOOLEAN : whole = ~lossy BY <1>4
<1>6. output \in [Slots -> Seq(JobPairs)] BY DEF TypeInv, DataTypes
<1>7. \A r \in Slots : IsPart(output[r], all, r, whole) BY <1>1, <1>5, OutputIsPart
<1>8. merged = MergeResults(output)
  <2>1. \A s \in Slots : at[s] = "collected" BY DEF ResultInv, PlaceInv
  <2>2. result \in [Slots -> Seq(JobPairs)] /\ \A s \in Slots : result[s] = output[s]
    BY <2>1 DEF TypeInv, DataTypes
  <2>3. result = output BY <1>6, <2>2
  <2> QED BY <2>3 DEF ResultInv, MergedInv
<1>9. /\ \A k \in KeysOf(all) : KeyHash(k) \in Nat
      /\ input.mode = "local" =>
           \E e \in 0 .. Len(input.texts[1]) :
              Given = << SubSeq(input.texts[1], 1, e) >> /\ LineEnd(input.texts[1], e)
  BY <1>1, MappedGiven DEF Late
<1>10. /\ whole => merged = want
       /\ \A k \in DOMAIN merged : k \in KeysOf(all) /\ merged[k] <= SumOf(all, k)
  <2>1. PICK A \in SUBSET JobPairs : A = JobPairs OBVIOUS
  <2>2. all \in Seq(A) BY <1>3, <2>1
  <2> QED BY <1>2, <1>6, <1>7, <1>8, <1>9, <2>2, MergedParts
<1>11. IF ~lossy THEN merged = want
       ELSE \A k \in DOMAIN merged : k \in DOMAIN want /\ merged[k] <= want[k]
  BY <1>2, <1>5, <1>10
<1>12. ASSUME input.mode = "local"
       PROVE  Given[1] = input.texts[1] \/ (Given[1] # <<>> /\ Last(Given[1]) = NL)
  <2>1. PICK data \in Seq(Symbols) : data = input.texts[1]
    <3>1. PICK A : A = Seq(Symbols) OBVIOUS
    <3>2. input.texts \in Seq(A) /\ Len(input.texts) = 1 BY <1>4, <1>12, <3>1, InputsAssumption
    <3>3. input.texts[1] \in A BY <3>2
    <3> QED BY <3>1, <3>3
  <2>2. PICK e \in 0 .. Len(data) : Given = << SubSeq(data, 1, e) >> /\ LineEnd(data, e)
    BY <1>9, <1>12, <2>1
  <2>3. PICK t \in Seq(Symbols) : t = SubSeq(data, 1, e) /\ Len(t) = e /\ \A i \in 1 .. e : t[i] = data[i]
    <3>1. PICK t : t = SubSeq(data, 1, e) OBVIOUS
    <3>2. t \in Seq(Symbols) /\ Len(t) = e /\ \A i \in 1 .. e : t[i] = data[i] BY <3>1, PrefixParts, Zenon
    <3> QED BY <3>1, <3>2, Zenon
  <2>4. Given[1] = t BY <2>2, <2>3
  <2>5. CASE e = Len(data) BY <2>1, <2>3, <2>4, <2>5
  <2>6. CASE e # 0 /\ data[e] = NL
    <3>1. t # <<>> /\ t[Len(t)] = NL BY <2>3, <2>6
    <3> QED BY <2>4, <3>1 DEF Last
  <2> QED BY <2>2, <2>5, <2>6 DEF LineEnd
<1> QED BY <1>3, <1>11, <1>12 DEF ResultIsReference

\* The totals of a complete result are those of what was given.
LEMMA TotalsAreRight == ASSUME TypeInv, ResultInv PROVE TotalsAccountedFor
<1> SUFFICES ASSUME pc = "done", ~lossy PROVE TotalsAccountedFor BY DEF TotalsAccountedFor, CountOver
<1>1. PICK all : all = AllOf(input.job, Given) OBVIOUS
<1>2. PICK D : D = KeysOf(all) OBVIOUS
<1>3. input \in Inputs BY DEF TypeInv, ControlTypes
<1>4. PICK job \in JobNames : job = input.job BY <1>3, InputsAssumption
<1>5. PICK texts \in Seq(Seq(Symbols)) : texts = Given
  <2>1. PICK W : SlotsHave(W, job) BY <1>4, MappedGiven DEF Late
  <2> QED BY <2>1 DEF SlotsHave
<1>6. all \in Seq(JobPairs) /\ all = AllOf(job, texts) BY <1>1, <1>4, <1>5, OutputIsPart
<1>7. merged = [k \in D |-> SumOf(all, k)]
  <2>1. Reference(Given) = [k \in KeysOf(all) |-> SumOf(all, k)] BY <1>1, OutputIsPart
  <2>2. merged = Reference(Given) BY RightResult DEF ResultIsReference
  <2> QED BY <1>2, <2>1, <2>2
<1>8. IsFiniteSet(D) BY <1>2, <1>6, AllPairs
<1>9. ASSUME NEW K PROVE TotalOf(K) = WeightOf(all, K \cap D)
  <2>1. PICK F \in SUBSET D : F = K \cap DOMAIN merged /\ F = K \cap D BY <1>7
  <2>2. PICK f : f = [k \in F |-> SumOf(all, k)] OBVIOUS
  <2>3. f \in [F -> Int]
    <3>1. PICK A \in SUBSET JobPairs : A = JobPairs OBVIOUS
    <3>2. \A k : SumOf(all, k) \in Nat BY <1>6, <3>1, SumsAreNat
    <3> QED BY <2>2, <3>2
  <2>4. \A k \in F : merged[k] = f[k] BY <1>7, <2>1, <2>2
  <2>5. IsFiniteSet(F) BY <1>8, <2>1, FS_Subset
  <2>6. SumFunctionOnSet(merged, F) = Total(f) BY <2>3, <2>4, <2>5, SumOnSet
  <2> QED BY <2>1, <2>2, <2>6, Zenon DEF TotalOf, WeightOf
<1>10. DOMAIN merged = D /\ D \cap D = D BY <1>7
<1>11. TotalOf(DOMAIN merged) = WeightOf(all, D) BY <1>9, <1>10
<1>12. ASSUME input.job = "wordcount"
       PROVE  TotalOf(DOMAIN merged)
                = SumFunction([i \in DOMAIN Given |-> Cardinality(WordSpans(Given[i], Alnum))])
  <2>1. PICK f : f = [i \in DOMAIN texts |-> Cardinality(WordSpans(texts[i], Alnum))] OBVIOUS
  <2>2. all = AllOf("wordcount", texts) BY <1>4, <1>6, <1>12
  <2>3. WeightOf(all, D) = Total(f) BY <1>2, <2>1, <2>2, WordTotal
  <2>4. TotalOf(DOMAIN merged) = SumFunction(f) BY <1>11, <2>3, SumFunctionIsTotal
  <2> QED BY <1>5, <2>1, <2>4
<1>13. ASSUME input.job = "langdetect"
       PROVE  TotalOf(DOMAIN merged)
                = SumFunction([i \in DOMAIN Given |-> Cardinality(
                    {l \in LineSpans(Given[i]) :
                       /\ Cardinality(WordSpans(At(Given[i], l), Letters)) >= MinTokens
                       /\ ~IsWARCHeader(TrimSpace(At(Given[i], l)))})])
  <2>1. PICK f : f = [i \in DOMAIN texts |-> Cardinality({l \in LineSpans(texts[i]) : Judged(At(texts[i], l))})]
    OBVIOUS
  <2>2. all = AllOf("langdetect", texts) BY <1>4, <1>6, <1>13
  <2>3. WeightOf(all, D) = Total(f) BY <1>2, <2>1, <2>2, LanguageTotal
  <2>4. TotalOf(DOMAIN merged) = SumFunction(f) BY <1>11, <2>3, SumFunctionIsTotal
  <2> QED BY <1>5, <2>1, <2>4 DEF Judged
<1>14. ASSUME input.job = "docdensity"
       PROVE  /\ TotalOf({<<"stat:chars.alnum">>, <<"stat:chars.other">>})
                   = TotalOf({<<"stat:chars.total">>})
              /\ TotalOf({k \in DOMAIN merged : k[1] = "hist:len."})
                   = TotalOf({<<"stat:lines">>})
  <2>1. all = AllOf("docdensity", texts) BY <1>4, <1>6, <1>14
  <2>2. /\ WeightOf(all, {StatAlnum, StatOther} \cap D) = WeightOf(all, {StatTotal} \cap D)
        /\ WeightOf(all, {k \in D : IsHist(k)}) = WeightOf(all, {StatLines} \cap D)
    <3>1. DensityAgrees(all, D) BY <1>2, <1>5, <2>1, DensityTotals
    <3> QED BY <3>1, Zenon DEF DensityAgrees
  <2>3. {k \in DOMAIN merged : k[1] = "hist:len."} = {k \in D : IsHist(k)}
        /\ {k \in D : IsHist(k)} \cap D = {k \in D : IsHist(k)}
    BY <1>10 DEF IsHist
  <2>4. TotalOf({k \in DOMAIN merged : k[1] = "hist:len."}) = TotalOf({StatLines})
    BY <1>9, <2>2, <2>3, Zenon
  <2>5. TotalOf({StatAlnum, StatOther}) = TotalOf({StatTotal}) BY <1>9, <2>2, Zenon
  <2> QED BY <2>4, <2>5 DEF StatLines, StatTotal, StatAlnum, StatOther
<1> QED BY <1>12, <1>13, <1>14 DEF TotalsAccountedFor, CountOver

-----------------------------------------------------------------------------
(* The theorems *)

\* In every reachable state the slots' inputs, buckets, copies, outputs and the
\* merged result are what the phase and the place of each slot say.
THEOREM ResultInvariant == PipelineSpec => [](TypeInv /\ ResultInv)
<1>1. PipelineInit => TypeInv /\ ResultInv BY TypesInit, ResultInit
<1>2. TypeInv /\ ResultInv /\ [PipelineNext]_pvars => (TypeInv /\ ResultInv)'
  BY TypesStep, ResultStep
<1> QED BY <1>1, <1>2, PTL DEF PipelineSpec

\* All pairs of a key meet in one slot's reduce, whose output has the whole count.
THEOREM KeysMeetInOneSlot == PipelineSpec => []KeysReducedWhole
<1>1. TypeInv /\ ResultInv => KeysReducedWhole BY WholeKeys
<1> QED BY <1>1, ResultInvariant, PTL

\* A job that succeeds has counted every line its slots were given, once; after
\* an error of Flush maybe less, and never more.
THEOREM ResultIsRight == PipelineSpec => []ResultIsReference
<1>1. TypeInv /\ ResultInv => ResultIsReference BY RightResult
<1> QED BY <1>1, ResultInvariant, PTL

\* The totals of a complete result agree with the texts: each job has counted
\* all the words, lines or characters that it should.
THEOREM TotalsAgree == PipelineSpec => []TotalsAccountedFor
<1>1. TypeInv /\ ResultInv => TotalsAccountedFor BY TotalsAreRight
<1> QED BY <1>1, ResultInvariant, PTL
=============================================================================

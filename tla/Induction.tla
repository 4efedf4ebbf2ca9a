----------------------------- MODULE Induction -----------------------------
(***************************************************************************)
(* Induction and recursion on the natural numbers, stated for sets and     *)
(* functions instead of predicates and operators, and what follows for the *)
(* recursive functions the components' definitions use.                    *)
(***************************************************************************)
EXTENDS Integers, Sequences, SequencesExt, SequenceTheorems, WellFoundedInduction, TLAPS

\* A set of naturals has a least one.
LEMMA LeastNat ==
  ASSUME NEW T \in SUBSET Nat, T # {}
  PROVE  \E n \in T : \A m \in T : n <= m
<1> DEFINE R == OpToRel(<, Nat)
<1>1. IsWellFoundedOn(R, Nat)
  BY NatLessThanWellFounded
<1>2. \A m, n \in Nat : m < n => <<m, n>> \in R
  BY DEF OpToRel
<1> HIDE DEF R
<1>3. PICK n \in T : \A m \in T : ~(<<m, n>> \in R)
  BY <1>1, WFMin
<1>4. \A m \in T : ~(m < n)
  BY <1>2, <1>3, Zenon
<1> QED BY <1>4

\* Induction: a set that has 0 and is closed under successors has every natural.
LEMMA NatSetInduction ==
  ASSUME NEW P, 0 \in P, \A n \in Nat : n \in P => n + 1 \in P
  PROVE  Nat \subseteq P
<1> SUFFICES ASSUME Nat \ P # {} PROVE FALSE
  OBVIOUS
<1>1. PICK n \in Nat \ P : \A m \in Nat \ P : n <= m
  BY LeastNat
<1>2. n - 1 \in Nat /\ n - 1 \in P
  BY <1>1
<1> QED BY <1>1, <1>2

\* A function on the naturals by its first value and its steps.
Steps(U) == [Nat -> [U -> U]]
Iterates(g, a, step) == g[0] = a /\ \A n \in Nat : g[n + 1] = step[n][g[n]]

\* A recursion on the naturals defines a function.
LEMMA NatRecursion ==
  ASSUME NEW U, NEW a \in U, NEW step \in Steps(U)
  PROVE  \E g \in [Nat -> U] : Iterates(g, a, step)
<1>0. step \in [Nat -> [U -> U]]
  BY DEF Steps
<1> DEFINE Upto(g, n) == g \in [0 .. n -> U] /\ g[0] = a /\ \A k \in 0 .. n - 1 : g[k + 1] = step[k][g[k]]
           P == {n \in Nat : \E g : Upto(g, n)}
<1>1. 0 \in P
  <2>1. Upto([k \in 0 .. 0 |-> a], 0)
    OBVIOUS
  <2> QED BY <2>1
<1>2. ASSUME NEW n \in Nat, n \in P PROVE n + 1 \in P
  <2>1. PICK g : Upto(g, n)
    BY <1>2
  <2> DEFINE h == [k \in 0 .. n + 1 |-> IF k <= n THEN g[k] ELSE step[n][g[n]]]
  <2>2. Upto(h, n + 1)
    BY <1>0, <2>1
  <2>3. \E e : Upto(e, n + 1)
    <3> HIDE DEF Upto, h
    <3> QED BY <2>2, Zenon
  <2> QED BY <2>3
<1>3. Nat \subseteq P
  <2> HIDE DEF P
  <2> QED BY <1>1, <1>2, NatSetInduction
<1>4. ASSUME NEW n \in Nat, NEW g, NEW m \in Nat, NEW h, n <= m, Upto(g, n), Upto(h, m)
      PROVE  \A k \in 0 .. n : g[k] = h[k]
  <2> DEFINE Q == {k \in Nat : k <= n => g[k] = h[k]}
  <2>1. 0 \in Q
    BY <1>4
  <2>2. \A k \in Nat : k \in Q => k + 1 \in Q
    BY <1>4
  <2>3. Nat \subseteq Q
    <3> HIDE DEF Q
    <3> QED BY <2>1, <2>2, NatSetInduction
  <2> QED BY <2>3
<1> DEFINE G(n) == CHOOSE g : Upto(g, n)
           f == [n \in Nat |-> G(n)[n]]
<1>5. \A n \in Nat : Upto(G(n), n)
  <2> TAKE n \in Nat
  <2>1. \E g : Upto(g, n)
    BY <1>3
  <2> HIDE DEF Upto
  <2> QED BY <2>1, Zenon
<1>6. f \in [Nat -> U]
  <2>1. \A n \in Nat : G(n)[n] \in U
    <3> TAKE n \in Nat
    <3>1. Upto(G(n), n)
      BY <1>5
    <3> HIDE DEF G
    <3> QED BY <3>1
  <2> HIDE DEF G
  <2> QED BY <2>1
<1>7. f[0] = a
  <2>1. Upto(G(0), 0)
    BY <1>5
  <2> HIDE DEF G
  <2> QED BY <2>1
<1>8. ASSUME NEW n \in Nat PROVE f[n + 1] = step[n][f[n]]
  <2>1. Upto(G(n), n) /\ Upto(G(n + 1), n + 1)
    <3> HIDE DEF Upto, G
    <3> QED BY <1>5
  <2> HIDE DEF G
  <2>2. G(n + 1)[n] = G(n)[n]
    <3>1. n + 1 \in Nat /\ n <= n + 1
      OBVIOUS
    <3>2. \A k \in 0 .. n : G(n)[k] = G(n + 1)[k]
      <4> HIDE DEF Upto
      <4> QED BY <1>4, <2>1, <3>1
    <3> QED BY <3>2
  <2>3. G(n + 1)[n + 1] = step[n][G(n + 1)[n]]
    BY <2>1
  <2> QED BY <2>2, <2>3
<1> HIDE DEF f
<1>9. Iterates(f, a, step)
  BY <1>7, <1>8 DEF Iterates
<1> QED BY <1>6, <1>9

-----------------------------------------------------------------------------
(***************************************************************************)
(* FlattenSeq: the concatenation of the members of a sequence.             *)
(***************************************************************************)
\* g is the concatenation of ever more members of seqs.
Flattens(g, seqs) ==
  g[0] = <<>> /\ \A j \in Nat : j < Len(seqs) => g[j + 1] = g[j] \o seqs[j + 1]

LEMMA FlattenExists ==
  ASSUME NEW X, NEW seqs \in Seq(Seq(X))
  PROVE  \E g \in [Nat -> Seq(X)] : Flattens(g, seqs)
<1> DEFINE more == [j \in Nat |-> [s \in Seq(X) |-> IF j < Len(seqs) THEN s \o seqs[j + 1] ELSE s]]
<1>1. more \in Steps(Seq(X))
  <2>1. ASSUME NEW j \in Nat, NEW s \in Seq(X)
        PROVE  (IF j < Len(seqs) THEN s \o seqs[j + 1] ELSE s) \in Seq(X)
    <3>1. CASE j < Len(seqs)
      <4>1. seqs[j + 1] \in Seq(X)
        BY <3>1
      <4> QED BY <3>1, <4>1, ConcatProperties
    <3> QED BY <3>1
  <2> QED BY <2>1 DEF Steps
<1>2. <<>> \in Seq(X)
  OBVIOUS
<1>3. PICK g \in [Nat -> Seq(X)] : Iterates(g, <<>>, more)
  <2> HIDE DEF more
  <2> QED BY <1>1, <1>2, NatRecursion
<1>4. \A j \in Nat : g[j + 1] = more[j][g[j]]
  <2> HIDE DEF more
  <2> QED BY <1>3 DEF Iterates
<1>5. Flattens(g, seqs)
  BY <1>3, <1>4 DEF Flattens, Iterates
<1> QED BY <1>5

LEMMA FlattenIs ==
  ASSUME NEW X, NEW seqs \in Seq(Seq(X)), NEW g \in [Nat -> Seq(X)], Flattens(g, seqs)
  PROVE  FlattenSeq(seqs) = g[Len(seqs)]
<1>0. PICK n \in Nat : n = Len(seqs)
  OBVIOUS
<1>1. CASE n = 0
  <2>1. seqs = <<>>
    BY <1>0, <1>1, EmptySeq
  <2> QED BY <1>0, <1>1, <2>1 DEF FlattenSeq, Flattens
<1>2. CASE n # 0
  <2> DEFINE F(i, z) == IF i = 1 THEN seqs[i] ELSE z[i - 1] \o seqs[i]
             h == [i \in 1 .. Len(seqs) |-> g[i]]
             kk == CHOOSE z : z = [i \in 1 .. Len(seqs) |-> F(i, z)]
  <2>1. \A i \in 1 .. n : F(i, h) = g[i]
    <3> TAKE i \in 1 .. n
    <3>1. i - 1 \in Nat /\ i - 1 < n /\ (i - 1) + 1 = i /\ seqs[i] \in Seq(X) /\ (i # 1 => i - 1 \in 1 .. n)
      <4>1. i - 1 \in Nat /\ i - 1 < n /\ (i - 1) + 1 = i /\ (i # 1 => i - 1 \in 1 .. n)
        OBVIOUS
      <4>2. seqs[i] \in Seq(X)
        BY <1>0, ElementOfSeq
      <4> QED BY <4>1, <4>2
    <3>2. g[i] = g[i - 1] \o seqs[i]
      BY <1>0, <3>1 DEF Flattens
    <3>3. CASE i = 1
      <4>1. g[0] = <<>> /\ <<>> \o seqs[1] = seqs[1]
        BY <3>1, <3>3, ConcatEmptySeq DEF Flattens
      <4>2. i - 1 = 0
        BY <3>3
      <4>3. g[i] = seqs[i]
        BY <3>2, <3>3, <4>1, <4>2, Zenon
      <4> HIDE DEF h
      <4> QED BY <3>3, <4>3
    <3>4. CASE i # 1
      <4>1. h[i - 1] = g[i - 1]
        BY <1>0, <3>1, <3>4
      <4> HIDE DEF h
      <4> QED BY <3>2, <3>4, <4>1
    <3> QED BY <3>3, <3>4
  <2>2. h = [i \in 1 .. Len(seqs) |-> F(i, h)]
    <3>1. \A i \in 1 .. Len(seqs) : F(i, h) = h[i]
      <4> HIDE DEF F
      <4> QED BY <1>0, <2>1
    <3>2. h = [i \in 1 .. Len(seqs) |-> h[i]]
      OBVIOUS
    <3> HIDE DEF F, h
    <3> QED BY <3>1, <3>2
  <2>3. kk = [i \in 1 .. Len(seqs) |-> F(i, kk)]
    <3> HIDE DEF F, h
    <3> QED BY <2>2, Zenon
  <2>4. FlattenSeq(seqs) = kk[Len(seqs)]
    <3>1. Len(seqs) # 0
      BY <1>0, <1>2
    <3> QED BY <3>1, Zenon DEF FlattenSeq
  <2>5. \A i \in 1 .. n : kk[i] = F(i, kk)
    <3> HIDE DEF F
    <3> QED BY <1>0, <2>3
  <2> DEFINE P == {i \in Nat : i < n => kk[i + 1] = g[i + 1]}
  <2> HIDE DEF kk
  <2>6. 0 \in P
    <3>1. kk[1] = seqs[1] /\ seqs[1] \in Seq(X)
      BY <1>0, <1>2, <2>5
    <3>2. g[1] = g[0] \o seqs[1]
      <4>1. 0 \in Nat /\ 0 < Len(seqs) /\ 0 + 1 = 1
        BY <1>0, <1>2
      <4>2. g[0 + 1] = g[0] \o seqs[0 + 1]
        BY <4>1, Zenon DEF Flattens
      <4> QED BY <4>1, <4>2
    <3>3. g[0] = <<>> /\ <<>> \o seqs[1] = seqs[1]
      BY <3>1, ConcatEmptySeq DEF Flattens
    <3> QED BY <3>1, <3>2, <3>3
  <2>7. ASSUME NEW i \in Nat, i \in P PROVE i + 1 \in P
    <3> SUFFICES ASSUME i + 1 < n PROVE kk[(i + 1) + 1] = g[(i + 1) + 1]
      OBVIOUS
    <3>1. i < n /\ i + 1 \in Nat /\ i + 2 \in 1 .. n /\ i + 2 # 1 /\ (i + 2) - 1 = i + 1 /\ (i + 1) + 1 = i + 2
      OBVIOUS
    <3>2. kk[i + 2] = kk[i + 1] \o seqs[i + 2]
      BY <2>5, <3>1
    <3>3. g[i + 2] = g[i + 1] \o seqs[i + 2]
      BY <1>0, <3>1 DEF Flattens
    <3> QED BY <2>7, <3>1, <3>2, <3>3
  <2>8. Nat \subseteq P
    <3> HIDE DEF P
    <3> QED BY <2>6, <2>7, NatSetInduction
  <2>9. n - 1 \in Nat /\ n - 1 < n /\ (n - 1) + 1 = n
    BY <1>2
  <2>10. kk[n] = g[n]
    BY <2>8, <2>9
  <2> QED BY <1>0, <2>4, <2>10
<1> QED BY <1>1, <1>2

\* One more member is concatenated last.
LEMMA FlattenAppend ==
  ASSUME NEW X, NEW seqs \in Seq(Seq(X))
  PROVE  /\ FlattenSeq(seqs) \in Seq(X)
         /\ FlattenSeq(<<>>) = <<>>
         /\ \A e \in Seq(X) : FlattenSeq(Append(seqs, e)) = FlattenSeq(seqs) \o e
<1>1. FlattenSeq(seqs) \in Seq(X)
  <2>1. PICK g \in [Nat -> Seq(X)] : Flattens(g, seqs)
    BY FlattenExists
  <2>2. FlattenSeq(seqs) = g[Len(seqs)]
    BY <2>1, FlattenIs
  <2>3. Len(seqs) \in Nat
    BY LenProperties
  <2> QED BY <2>2, <2>3
<1>2. FlattenSeq(<<>>) = <<>>
  BY DEF FlattenSeq
<1>3. ASSUME NEW e \in Seq(X) PROVE FlattenSeq(Append(seqs, e)) = FlattenSeq(seqs) \o e
  <2>0. PICK n \in Nat : n = Len(seqs)
    OBVIOUS
  <2>1. PICK t : t = Append(seqs, e)
    OBVIOUS
  <2>2. t \in Seq(Seq(X)) /\ Len(t) = n + 1 /\ t[n + 1] = e /\ \A i \in 1 .. n : t[i] = seqs[i]
    BY <2>0, <2>1, AppendProperties
  <2>3. PICK g \in [Nat -> Seq(X)] : Flattens(g, t)
    BY <2>2, FlattenExists
  <2>4. Flattens(g, seqs)
    <3>1. ASSUME NEW j \in Nat, j < n PROVE g[j + 1] = g[j] \o seqs[j + 1]
      <4>1. j < n + 1 /\ j + 1 \in 1 .. n
        BY <3>1
      <4> QED BY <2>2, <2>3, <4>1 DEF Flattens
    <3> QED BY <2>0, <2>3, <3>1 DEF Flattens
  <2>5. FlattenSeq(t) = g[n + 1] /\ FlattenSeq(seqs) = g[n]
    BY <2>0, <2>2, <2>3, <2>4, FlattenIs
  <2>6. g[n + 1] = g[n] \o e
    <3>1. n < Len(t)
      BY <2>2
    <3>2. g[n + 1] = g[n] \o t[n + 1]
      BY <2>3, <3>1, Zenon DEF Flattens
    <3> QED BY <2>2, <3>2
  <2> QED BY <2>1, <2>5, <2>6
<1> QED BY <1>1, <1>2, <1>3

\* A recursion up to n.
RecursiveUpto(U, a, step, n) ==
  \E h \in [0 .. n -> U] : \A i \in 0 .. n : h[i] = IF i = 0 THEN a ELSE step[i - 1][h[i - 1]]

LEMMA BoundedRecursion ==
  ASSUME NEW U, NEW a \in U, NEW step \in Steps(U), NEW n \in Nat
  PROVE  RecursiveUpto(U, a, step, n)
<1>1. PICK g \in [Nat -> U] : Iterates(g, a, step)
  BY NatRecursion
<1> DEFINE h == [i \in 0 .. n |-> g[i]]
<1>2. h \in [0 .. n -> U]
  OBVIOUS
<1>3. \A i \in 0 .. n : h[i] = IF i = 0 THEN a ELSE step[i - 1][h[i - 1]]
  <2> TAKE i \in 0 .. n
  <2>1. CASE i = 0
    BY <1>1, <2>1 DEF Iterates
  <2>2. CASE i # 0
    <3>1. i - 1 \in Nat /\ (i - 1) + 1 = i /\ i - 1 \in 0 .. n
      BY <2>2
    <3>2. g[(i - 1) + 1] = step[i - 1][g[i - 1]]
      BY <1>1, <3>1 DEF Iterates
    <3> QED BY <2>2, <3>1, <3>2
  <2> QED BY <2>1, <2>2
<1> HIDE DEF h
<1> QED BY <1>2, <1>3 DEF RecursiveUpto
=============================================================================

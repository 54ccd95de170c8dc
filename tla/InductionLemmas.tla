-------------------------- MODULE InductionLemmas --------------------------
(***************************************************************************)
(* Facts about data that the proofs of several components need, for any    *)
(* sets and sequences.  All are by minimal counterexample: the provers     *)
(* cannot instantiate an induction theorem, but they can use that a set of *)
(* natural numbers has a least element.                                    *)
(***************************************************************************)
EXTENDS Integers, SequencesExt, NaturalsInduction, WellFoundedInduction, TLAPS

Below == {p \in Nat \X Nat : p[1] < p[2]}

\* A nonempty set of natural numbers has a least element.
LEMMA LeastElement ==
    ASSUME NEW T \in SUBSET Nat, T # {}
    PROVE  \E x \in T : \A y \in T : x <= y
  <1>1. IsWellFoundedOn(Below, Nat)
        BY NatLessThanWellFounded DEF OpToRel, Below
  <1>2. PICK x \in T : \A y \in T : ~(<<y, x>> \in Below)
        BY <1>1, WFMin, Zenon
  <1>3. ASSUME NEW y \in T PROVE x <= y
    <2>1. ~(<<y, x>> \in Below)
          BY <1>2
    <2> QED
        BY <2>1 DEF Below
  <1> QED
      BY <1>2, <1>3

\* A nonempty set of natural numbers with a bound has a greatest one.
LEMMA GreatestElement ==
    ASSUME NEW n \in Nat, NEW T \in SUBSET (0..n), T # {}
    PROVE  \E x \in T : \A y \in T : y <= x
  <1> DEFINE bounds == {b \in Nat : \A y \in T : y <= b}
  <1>1. n \in bounds /\ bounds \in SUBSET Nat
        OBVIOUS
  <1>2. PICK b \in bounds : \A c \in bounds : b <= c
        BY <1>1, LeastElement, Zenon
  <1>3. b \in T
    <2> SUFFICES ASSUME b \notin T PROVE FALSE
        OBVIOUS
    <2>1. b \in Nat /\ \A y \in T : y <= b /\ y # b /\ y \in Nat
          BY <1>2
    <2>2. b # 0
      <3>1. PICK y \in T : TRUE
            OBVIOUS
      <3> QED
          BY <2>1, <3>1
    <2>3. b - 1 \in bounds
          BY <2>1, <2>2
    <2>4. b <= b - 1
          BY <1>2, <2>3
    <2> QED
        BY <2>1, <2>4
  <1> QED
      BY <1>2, <1>3

\* f is what the recursion of FlattenSeq computes for the first m sequences.
Flattens(seqs, m, f) ==
    f = [i \in 1..m |-> IF i = 1 THEN seqs[i] ELSE f[i-1] \o seqs[i]]

\* The recursion of the fold behind FlattenSeq defines a function.
LEMMA FlattenDefined ==
    ASSUME NEW S, NEW seqs \in Seq(Seq(S)), NEW n \in Nat
    PROVE  \E f : Flattens(seqs, n, f)
  <1> DEFINE T == {m \in Nat : ~\E f : Flattens(seqs, m, f)}
  <1> SUFFICES ASSUME T # {} PROVE FALSE
      OBVIOUS
  <1>1. T \in SUBSET Nat
        OBVIOUS
  <1>2. PICK m \in T : \A y \in T : m <= y
        BY <1>1, LeastElement
  <1>3. m \in Nat /\ ~\E f : Flattens(seqs, m, f)
        BY <1>2
  <1>4. m # 0
    <2>1. SUFFICES ASSUME m = 0 PROVE FALSE
          OBVIOUS
    <2>2. Flattens(seqs, 0, [i \in 1..0 |-> seqs[i]])
          BY DEF Flattens
    <2> QED
        BY <1>3, <2>1, <2>2
  <1>5. PICK f : Flattens(seqs, m - 1, f)
    <2>1. m - 1 \in Nat /\ ~(m <= m - 1)
          BY <1>3, <1>4
    <2> QED
        BY <1>2, <2>1
  <1> DEFINE g == [i \in 1..m |-> IF i < m THEN f[i]
                                  ELSE IF m = 1 THEN seqs[m] ELSE f[m - 1] \o seqs[m]]
  <1>6. ASSUME NEW i \in 1..m PROVE g[i] = IF i = 1 THEN seqs[i] ELSE g[i-1] \o seqs[i]
    <2>1. CASE i < m
      <3>1. i \in 1..(m - 1) /\ g[i] = f[i]
            BY <1>3, <2>1
      <3>2. f[i] = IF i = 1 THEN seqs[i] ELSE f[i-1] \o seqs[i]
            BY <1>5, <3>1 DEF Flattens
      <3>3. i # 1 => i - 1 \in 1..m /\ i - 1 < m /\ g[i-1] = f[i-1]
            BY <1>3, <2>1
      <3> QED
          BY <3>1, <3>2, <3>3
    <2>2. CASE i = m
          BY <1>3, <2>2
    <2> QED
        BY <1>3, <2>1, <2>2
  <1>7. g = [i \in 1..m |-> IF i = 1 THEN seqs[i] ELSE g[i-1] \o seqs[i]]
    <2> HIDE DEF g
    <2>1. g = [i \in 1..m |-> g[i]]
          BY DEF g
    <2> QED
        BY <1>6, <2>1
  <1> QED
      BY <1>3, <1>7 DEF Flattens

\* Flattening sequences over S gives a sequence over S.
LEMMA FlattenType ==
    ASSUME NEW S, NEW seqs \in Seq(Seq(S))
    PROVE  FlattenSeq(seqs) \in Seq(S)
  <1>1. CASE Len(seqs) = 0
    <2>1. FlattenSeq(seqs) = seqs /\ seqs = <<>>
          BY <1>1 DEF FlattenSeq
    <2> QED
        BY <2>1
  <1>2. CASE Len(seqs) # 0
    <2> DEFINE f == CHOOSE flatten : Flattens(seqs, Len(seqs), flatten)
    <2>1. FlattenSeq(seqs) = f[Len(seqs)]
          BY <1>2, Zenon DEF FlattenSeq, Flattens
    <2>2. Flattens(seqs, Len(seqs), f)
          BY FlattenDefined
    <2> HIDE DEF f
    <2> DEFINE T == {k \in 1..Len(seqs) : f[k] \notin Seq(S)}
    <2>3. ASSUME T # {} PROVE FALSE
      <3>1. T \in SUBSET Nat
            OBVIOUS
      <3>2. PICK k \in T : \A y \in T : k <= y
            BY <2>3, <3>1, LeastElement, Zenon
      <3>3. k \in 1..Len(seqs) /\ f[k] \notin Seq(S)
            BY <3>2
      <3>4. seqs[k] \in Seq(S)
            BY <3>3
      <3>5. k = 1 => f[k] = seqs[k]
            BY <2>2, <3>3 DEF Flattens
      <3>6. k # 1 => f[k] = f[k-1] \o seqs[k]
            BY <2>2, <3>3 DEF Flattens
      <3>7. k # 1 => k - 1 \in 1..Len(seqs) /\ k - 1 \notin T
            BY <3>2
      <3>8. k # 1 => f[k-1] \in Seq(S)
            BY <3>7
      <3>9. \A s \in Seq(S), t \in Seq(S) : s \o t \in Seq(S)
            OBVIOUS
      <3> QED
          BY <3>3, <3>4, <3>5, <3>6, <3>8, <3>9, Zenon
    <2> QED
        BY <1>2, <2>1, <2>3
  <1> QED
      BY <1>1, <1>2
=============================================================================

--------------------------- MODULE SelectionProofs ---------------------------
(***************************************************************************)
(* What Selection and the lookups of VScreen compute, for sequences of any     *)
(* length.  The induction that this takes is over sets of numbers: the least    *)
(* element of what is left out of a set is out of reach.                     *)
(***************************************************************************)
EXTENDS VScreen, FiniteSetTheorems, FunctionTheorems, SequenceTheorems,
        WellFoundedInduction, TLAPS

(* Numbers *)

\* A set of natural numbers that is not empty has a least element.
LEMMA LeastElement ==
  ASSUME NEW T, T \subseteq Nat, T # {}
  PROVE  \E x \in T : \A y \in T : x <= y
<1> DEFINE R == OpToRel(<, Nat)
<1>1. IsWellFoundedOn(R, Nat)
  BY NatLessThanWellFounded
<1> HIDE DEF R
<1>2. PICK x \in T : \A y \in T : ~ (<<y, x>> \in R)
  BY <1>1, WFMin
<1>3. \A y \in T : y < x => <<y, x>> \in R
  BY DEF R, OpToRel
<1>4. \A y \in T : ~(y < x)
  BY <1>2, <1>3
<1> QED
  BY <1>4

\* Induction over the natural numbers, for the members of a set.
LEMMA SetInduction ==
  ASSUME NEW T, 0 \in T, \A n \in Nat : n \in T => n + 1 \in T
  PROVE  Nat \subseteq T
<1> DEFINE Out == Nat \ T
<1>1. SUFFICES ASSUME Out # {} PROVE FALSE
  OBVIOUS
<1>2. PICK x \in Out : \A y \in Out : x <= y
  <2> Out \subseteq Nat  OBVIOUS
  <2> HIDE DEF Out
  <2> QED  BY <1>1, LeastElement
<1>3. x \in Nat /\ x # 0 /\ x - 1 \in Nat
  BY <1>2
<1>4. x - 1 \in T
  BY <1>2, <1>3
<1> QED
  BY <1>2, <1>3, <1>4

\* Min and Max of positions are among them.
LEMMA MinMaxOfPositions ==
  ASSUME NEW n \in Nat, NEW I \in SUBSET (1..n), I # {}
  PROVE  /\ Min(I) \in I /\ \A i \in I : Min(I) <= i
         /\ Max(I) \in I /\ \A i \in I : i <= Max(I)
<1>1. \E x \in I : \A y \in I : x <= y
  <2>1. I \subseteq Nat
    OBVIOUS
  <2> QED
    BY <2>1, LeastElement
<1>2. \E x \in I : \A y \in I : y <= x
  <2> DEFINE T == {n - i : i \in I}
  <2>1. T # {}
    OBVIOUS
  <2>2. T \subseteq Nat
    OBVIOUS
  <2> HIDE DEF T
  <2>3. PICK t \in T : \A u \in T : t <= u
    BY <2>1, <2>2, LeastElement
  <2> USE DEF T
  <2>4. PICK x \in I : t = n - x
    BY <2>3
  <2>5. \A y \in I : n - y \in T
    OBVIOUS
  <2>6. \A y \in I : n - x <= n - y
    BY <2>3, <2>4, <2>5
  <2> QED
    BY <2>6
<1> QED
  BY <1>1, <1>2 DEF Min, Max

\* A function on 0..n is defined by its value at 0 and a step.
Steps(f, n, x0, g) == f[0] = x0 /\ \A i \in 1..n : f[i] = g[i][f[i-1]]

LEMMA DefinedByStep ==
  ASSUME NEW n \in Nat, NEW X, NEW x0 \in X, NEW g \in [1..n -> [X -> X]]
  PROVE  \E f \in [0..n -> X] : Steps(f, n, x0, g)
<1> USE DEF Steps
<1> DEFINE Upto(m, f) == Steps(f, m, x0, g)
           T == {m \in Nat : m <= n => \E f \in [0..m -> X] : Upto(m, f)}
<1>1. 0 \in T
  <2>1. [i \in 0..0 |-> x0] \in [0..0 -> X] /\ Upto(0, [i \in 0..0 |-> x0])
    OBVIOUS
  <2> QED
    BY <2>1
<1>2. ASSUME NEW m \in Nat, m \in T, m + 1 <= n
      PROVE  \E f \in [0..m+1 -> X] : Upto(m + 1, f)
  <2>1. PICK f \in [0..m -> X] : Upto(m, f)
    BY <1>2
  <2> DEFINE h == [i \in 0..m+1 |-> IF i <= m THEN f[i] ELSE g[m+1][f[m]]]
  <2>2. g[m+1] \in [X -> X] /\ f[m] \in X
    BY <1>2
  <2>3. h \in [0..m+1 -> X]
    BY <2>2
  <2>4. h[0] = x0
    BY <2>1
  <2>5. ASSUME NEW i \in 1..m+1 PROVE h[i] = g[i][h[i-1]]
    <3>1. CASE i <= m
      BY <3>1, <2>1
    <3>2. CASE i = m + 1
      BY <3>2
    <3> QED
      BY <3>1, <3>2
  <2> QED
    BY <2>3, <2>4, <2>5
<1>3. ASSUME NEW m \in Nat, m \in T PROVE m + 1 \in T
  <2>1. m + 1 \in Nat
    OBVIOUS
  <2>2. m + 1 <= n => \E f \in [0..m+1 -> X] : Upto(m + 1, f)
    <3> HIDE DEF T, Upto, Steps
    <3> QED  BY <1>2, <1>3
  <2> QED
    BY <2>1, <2>2
<1>4. Nat \subseteq T
  <2> HIDE DEF T
  <2> QED  BY <1>1, <1>3, SetInduction
<1>5. n \in T
  BY <1>4
<1> QED
  BY <1>5

-----------------------------------------------------------------------------
(* Selected *)

\* The loop: after position i the result is what it was, or one element longer.
Appends(f, s, I) ==
  /\ f[0] = <<>>
  /\ \A i \in 1..Len(s) : /\ i \in I => f[i] = Append(f[i-1], s[i])
                          /\ i \notin I => f[i] = f[i-1]

LEMMA SelectedByStep ==
  ASSUME NEW S, NEW s \in Seq(S), NEW I
  PROVE  \E f \in [0..Len(s) -> Seq(S)] :
           Appends(f, s, I) /\ Selected(s, I) = f[Len(s)]
<1> DEFINE Loop(f) == [i \in 0..Len(s) |-> IF i = 0 THEN <<>>
                                          ELSE IF i \in I THEN Append(f[i-1], s[i])
                                          ELSE f[i-1]]
           appended == CHOOSE f : f = Loop(f)
           g == [i \in 1..Len(s) |->
                   [t \in Seq(S) |-> IF i \in I THEN Append(t, s[i]) ELSE t]]
<1>1. Selected(s, I) = appended[Len(s)]
  BY DEF Selected
<1>2. Len(s) \in Nat /\ \A i \in 1..Len(s) : s[i] \in S
  OBVIOUS
<1>3. g \in [1..Len(s) -> [Seq(S) -> Seq(S)]]
  BY <1>2
<1>4. <<>> \in Seq(S)
  OBVIOUS
<1>5. PICK f \in [0..Len(s) -> Seq(S)] : Steps(f, Len(s), <<>>, g)
  <2> HIDE DEF g
  <2> QED  BY <1>2, <1>3, <1>4, DefinedByStep
<1>6. Appends(f, s, I)
  <2>1. \A i \in 1..Len(s) : f[i-1] \in Seq(S)
    BY <1>2
  <2> QED
    BY <1>5, <2>1 DEF Appends, Steps
<1>7. f = Loop(f)
  <2>1. \A i \in 0..Len(s) : f[i] = Loop(f)[i]
    BY <1>2, <1>6 DEF Appends
  <2>2. DOMAIN Loop(f) = 0..Len(s) /\ Loop(f) = [i \in 0..Len(s) |-> Loop(f)[i]]
    OBVIOUS
  <2> HIDE DEF Loop
  <2> QED
    BY <2>1, <2>2
<1>8. appended = Loop(appended)
  <2> HIDE DEF Loop
  <2> QED  BY <1>7
<1>9. Appends(appended, s, I)
  <2> HIDE DEF appended
  <2>1. \A i \in 0..Len(s) :
          appended[i] = IF i = 0 THEN <<>>
                        ELSE IF i \in I THEN Append(appended[i-1], s[i])
                        ELSE appended[i-1]
    <3>1. \A i \in 0..Len(s) : appended[i] = Loop(appended)[i]
      BY <1>8
    <3> QED
      BY <3>1
  <2>2. appended[0] = <<>>
    BY <1>2, <2>1
  <2>3. \A i \in 1..Len(s) : i \in 0..Len(s) /\ i # 0
    OBVIOUS
  <2> QED
    BY <2>1, <2>2, <2>3 DEF Appends
<1>10. appended[Len(s)] = f[Len(s)]
  <2> DEFINE T == {n \in Nat : n <= Len(s) => appended[n] = f[n]}
  <2> HIDE DEF appended
  <2>1. 0 \in T
    BY <1>6, <1>9 DEF Appends
  <2>2. \A n \in Nat : n \in T => n + 1 \in T
    <3> SUFFICES ASSUME NEW n \in Nat, n + 1 <= Len(s), appended[n] = f[n]
                 PROVE  appended[n + 1] = f[n + 1]
      BY <1>2
    <3>1. n + 1 \in 1..Len(s) /\ (n + 1) - 1 = n
      BY <1>2
    <3> QED
      BY <1>6, <1>9, <3>1 DEF Appends
  <2>3. Nat \subseteq T
    <3> HIDE DEF T
    <3> QED  BY <2>1, <2>2, SetInduction
  <2> QED
    BY <1>2, <2>3
<1> QED
  <2> HIDE DEF appended
  <2> QED  BY <1>1, <1>6, <1>10

\* The result holds the element of every position once and of no other.
LEMMA SelectedPositions ==
  ASSUME NEW S, NEW s \in Seq(S), NEW I \in SUBSET (1..Len(s))
  PROVE  \E p \in Bijection(1..Cardinality(I), I) :
           Selected(s, I) = [k \in 1..Cardinality(I) |-> s[p[k]]]
<1>1. PICK f \in [0..Len(s) -> Seq(S)] :
        Appends(f, s, I) /\ Selected(s, I) = f[Len(s)]
  BY SelectedByStep
<1> DEFINE Upto(m) == I \cap (1..m)
           Holds(m) == \E p \in Bijection(1..Cardinality(Upto(m)), Upto(m)) :
                         f[m] = [k \in 1..Cardinality(Upto(m)) |-> s[p[k]]]
           T == {m \in Nat : m <= Len(s) => Holds(m)}
<1>2. Len(s) \in Nat
  OBVIOUS
<1>3. 0 \in T
  <2>1. Upto(0) = {} /\ Cardinality(Upto(0)) = 0
    BY FS_EmptySet
  <2>2. [k \in 1..0 |-> 0] \in Bijection(1..0, {})
    BY DEF Bijection, Injection, Surjection, IsInjective
  <2>3. f[0] = [k \in 1..0 |-> s[[l \in 1..0 |-> 0][k]]]
    BY <1>1 DEF Appends
  <2>4. Holds(0)
    <3> HIDE DEF Upto
    <3> QED  BY <2>1, <2>2, <2>3
  <2> QED
    BY <2>4
<1>4. ASSUME NEW m \in Nat, m + 1 <= Len(s), Holds(m)
      PROVE  Holds(m + 1)
  <2> DEFINE c == Cardinality(Upto(m))
  <2>0. m + 1 \in 1..Len(s) /\ (m + 1) - 1 = m /\ m \in 0..Len(s)
    <3> DEFINE n == Len(s)
    <3>1. n \in Nat /\ m + 1 <= n
      BY <1>2, <1>4
    <3> HIDE DEF n, Holds
    <3>2. m + 1 \in 1..n /\ (m + 1) - 1 = m /\ m \in 0..n
      BY <3>1
    <3> QED
      BY <3>2 DEF n
  <2>1. IsFiniteSet(Upto(m)) /\ c \in Nat
    <3>1. IsFiniteSet(1..m) /\ Upto(m) \in SUBSET (1..m)
      BY FS_Interval
    <3> QED
      BY <3>1, FS_Subset, FS_CardinalityType
  <2>2. PICK p \in Bijection(1..c, Upto(m)) : f[m] = [k \in 1..c |-> s[p[k]]]
    BY <1>4
  <2>3. CASE m + 1 \notin I
    <3>1. Upto(m + 1) = Upto(m)
      BY <2>3
    <3>2. f[m + 1] = f[m]
      BY <1>1, <2>0, <2>3 DEF Appends
    <3> QED
      BY <1>4, <3>1, <3>2
  <2>4. CASE m + 1 \in I
    <3> DEFINE q == [k \in 1..c+1 |-> IF k <= c THEN p[k] ELSE m + 1]
    <3>1. Upto(m + 1) = Upto(m) \cup {m + 1} /\ m + 1 \notin Upto(m)
      BY <2>4
    <3>2. Cardinality(Upto(m + 1)) = c + 1
      BY <2>1, <3>1, FS_AddElement
    <3>3. /\ p \in [1..c -> Upto(m)]
          /\ \A k, l \in 1..c : p[k] = p[l] => k = l
          /\ \A i \in Upto(m) : \E k \in 1..c : p[k] = i
      <4> HIDE DEF Upto, c
      <4> QED  BY <2>2 DEF Bijection, Injection, Surjection, IsInjective
    <3>4. q \in Bijection(1..c+1, Upto(m + 1))
      <4> HIDE DEF Upto, c
      <4>1. q \in [1..c+1 -> Upto(m + 1)]
        BY <2>1, <3>1, <3>3
      <4>2. \A k, l \in 1..c+1 : q[k] = q[l] => k = l
        BY <2>1, <3>1, <3>3
      <4>3. \A i \in Upto(m + 1) : \E k \in 1..c+1 : q[k] = i
        <5>1. q[c + 1] = m + 1 /\ \A k \in 1..c : q[k] = p[k] /\ k \in 1..c+1
          BY <2>1
        <5>2. c + 1 \in 1..c+1
          BY <2>1
        <5> QED
          BY <3>1, <3>3, <5>1, <5>2
      <4> QED
        BY <4>1, <4>2, <4>3, Fun_IsBij
    <3>5. f[m + 1] = Append(f[m], s[m + 1])
      BY <1>1, <2>0, <2>4 DEF Appends
    <3>6. f[m + 1] = [k \in 1..c+1 |-> s[q[k]]]
      <4> HIDE DEF c
      <4>1. Append([k \in 1..c |-> s[p[k]]], s[m + 1])
              = [k \in 1..c+1 |-> s[q[k]]]
        <5>1. f[m] \in Seq(S) /\ Len(f[m]) = c
          <6> DEFINE t == f[m]
          <6>1. t \in Seq(S) /\ DOMAIN t = 1..c
            BY <2>0, <2>2
          <6> HIDE DEF t
          <6>2. Len(t) = c
            BY <2>1, <6>1
          <6> QED
            BY <6>1, <6>2 DEF t
        <5> QED
          BY <2>1, <2>2, <5>1
      <4> QED
        BY <2>2, <3>5, <4>1
    <3> QED
      BY <3>2, <3>4, <3>6
  <2> QED
    BY <2>3, <2>4
<1>5. Nat \subseteq T
  <2>1. \A m \in Nat : m \in T => m + 1 \in T
    <3> HIDE DEF Holds
    <3> QED  BY <1>2, <1>4
  <2> HIDE DEF T
  <2> QED  BY <1>3, <2>1, SetInduction
<1>6. Holds(Len(s))
  <2> HIDE DEF Holds
  <2> QED  BY <1>2, <1>5
<1>7. Upto(Len(s)) = I
  OBVIOUS
<1> QED
  BY <1>1, <1>6, <1>7

\* What passes everything stays as it is.
LEMMA SelectedAll ==
  ASSUME NEW S, NEW s \in Seq(S)
  PROVE  Selected(s, 1..Len(s)) = s
<1>1. PICK f \in [0..Len(s) -> Seq(S)] :
        Appends(f, s, 1..Len(s)) /\ Selected(s, 1..Len(s)) = f[Len(s)]
  BY SelectedByStep
<1> DEFINE T == {m \in Nat : m <= Len(s) => f[m] = [k \in 1..m |-> s[k]]}
<1>2. Len(s) \in Nat
  OBVIOUS
<1>3. 0 \in T
  BY <1>1 DEF Appends
<1>4. \A m \in Nat : m \in T => m + 1 \in T
  <2> SUFFICES ASSUME NEW m \in Nat, m + 1 <= Len(s),
                      f[m] = [k \in 1..m |-> s[k]]
               PROVE  f[m + 1] = [k \in 1..m+1 |-> s[k]]
    BY <1>2
  <2>1. f[m] \in Seq(S) /\ Len(f[m]) = m /\ s[m + 1] \in S
    BY <1>2
  <2>2. m + 1 \in 1..Len(s) /\ (m + 1) - 1 = m
    BY <1>2
  <2>3. f[m + 1] = Append(f[m], s[m + 1])
    BY <1>1, <2>2 DEF Appends
  <2> QED
    BY <2>1, <2>3
<1>5. Nat \subseteq T
  <2> HIDE DEF T
  <2> QED  BY <1>3, <1>4, SetInduction
<1>6. f[Len(s)] = [k \in 1..Len(s) |-> s[k]]
  BY <1>2, <1>5
<1> QED
  BY <1>1, <1>6

\* Its length is the number of the positions, and its elements are theirs.
LEMMA SelectedElements ==
  ASSUME NEW S, NEW s \in Seq(S), NEW I \in SUBSET (1..Len(s))
  PROVE  /\ IsFiniteSet(I)
         /\ Selected(s, I) \in Seq(S)
         /\ Len(Selected(s, I)) = Cardinality(I)
         /\ ToSet(Selected(s, I)) = {s[i] : i \in I}
<1> DEFINE n == Cardinality(I)
<1>1. IsFiniteSet(I) /\ n \in Nat
  <2>1. IsFiniteSet(1..Len(s))
    BY FS_Interval
  <2> QED
    BY <2>1, FS_Subset, FS_CardinalityType
<1>2. PICK p \in Bijection(1..n, I) : Selected(s, I) = [k \in 1..n |-> s[p[k]]]
  BY SelectedPositions
<1> HIDE DEF n
<1>3. p \in [1..n -> I] /\ \A i \in I : \E k \in 1..n : p[k] = i
  BY <1>2 DEF Bijection, Injection, Surjection
<1>4. \A k \in 1..n : p[k] \in I /\ s[p[k]] \in S
  <2>1. \A i \in I : s[i] \in S
    OBVIOUS
  <2> QED
    BY <1>3, <2>1
<1>5. Selected(s, I) \in Seq(S) /\ Len(Selected(s, I)) = n
  BY <1>1, <1>2, <1>4
<1>6. ToSet(Selected(s, I)) = {s[p[k]] : k \in 1..n}
  BY <1>2 DEF ToSet
<1>7. {s[p[k]] : k \in 1..n} = {s[i] : i \in I}
  BY <1>3
<1> QED
  BY <1>1, <1>5, <1>6, <1>7 DEF n

\* Every element of the list is in the result, once, and nothing else is.
LEMMA WithoutDuplicatesElements ==
  ASSUME NEW S, NEW s \in Seq(S)
  PROVE  /\ WithoutDuplicates(s) \in Seq(S)
         /\ ToSet(WithoutDuplicates(s)) = ToSet(s)
         /\ IsInjective(WithoutDuplicates(s))
<1> DEFINE I == {i \in DOMAIN s : \A j \in 1..i-1 : s[j] # s[i]}
           n == Cardinality(I)
<1>1. I \in SUBSET (1..Len(s)) /\ WithoutDuplicates(s) = Selected(s, I)
  BY DEF WithoutDuplicates
<1>2. \A i, j \in I : s[i] = s[j] => i = j
  <2> SUFFICES ASSUME NEW i \in I, NEW j \in I, s[i] = s[j], i < j PROVE FALSE
    OBVIOUS
  <2>1. i \in 1..j-1
    OBVIOUS
  <2> QED
    BY <2>1
<1>3. \A k \in DOMAIN s : \E i \in I : s[i] = s[k]
  <2> SUFFICES ASSUME NEW k \in DOMAIN s PROVE \E i \in I : s[i] = s[k]
    OBVIOUS
  <2> DEFINE T == {j \in DOMAIN s : s[j] = s[k]}
  <2>1. T # {} /\ T \subseteq Nat
    OBVIOUS
  <2> HIDE DEF T
  <2>2. PICK i \in T : \A j \in T : i <= j
    BY <2>1, LeastElement
  <2>3. i \in DOMAIN s /\ s[i] = s[k]
    BY DEF T
  <2>4. ASSUME NEW j \in 1..i-1, s[j] = s[i] PROVE FALSE
    <3>1. j \in T
      BY <2>3, <2>4 DEF T
    <3> QED
      BY <2>2, <2>3, <3>1
  <2> QED
    BY <2>3, <2>4
<1> HIDE DEF I
<1>4. {s[i] : i \in I} = {s[k] : k \in DOMAIN s}
  BY <1>1, <1>3
<1>5. PICK p \in Bijection(1..n, I) : Selected(s, I) = [k \in 1..n |-> s[p[k]]]
  BY <1>1, SelectedPositions
<1>6. p \in [1..n -> I] /\ \A k, l \in 1..n : p[k] = p[l] => k = l
  <2> HIDE DEF n
  <2> QED  BY <1>5, Fun_BijectionProperties
<1>7. IsInjective(Selected(s, I))
  <2> HIDE DEF n
  <2>1. \A k \in 1..n : p[k] \in I
    BY <1>6
  <2> QED
    BY <1>2, <1>5, <1>6, <2>1 DEF IsInjective
<1> QED
  <2>1. /\ Selected(s, I) \in Seq(S)
        /\ ToSet(Selected(s, I)) = {s[i] : i \in I}
    BY <1>1, SelectedElements
  <2>2. ToSet(s) = {s[k] : k \in DOMAIN s}
    BY DEF ToSet
  <2> QED
    BY <1>1, <1>4, <1>7, <2>1, <2>2

\* A finite set can be put in a sequence.
LEMMA SetToSeqElements ==
  ASSUME NEW S, IsFiniteSet(S)
  PROVE  SetToSeq(S) \in Seq(S)
<1> DEFINE n == Cardinality(S)
<1>1. n \in Nat /\ ExistsBijection(1..n, S)
  BY FS_CardinalityType
<1>2. PICK f : f \in Bijection(1..n, S)
  BY <1>1 DEF ExistsBijection
<1>3. f \in [1..n -> S] /\ IsInjective(f)
  <2> HIDE DEF n
  <2> QED  BY <1>2 DEF Bijection, Injection
<1>4. SetToSeq(S) \in [1..n -> S]
  BY <1>3 DEF SetToSeq
<1> QED
  BY <1>1, <1>4

-----------------------------------------------------------------------------
(* Nested loops, and lookups *)

\* Sequences of elements of a set are joined to one.
LEMMA FlattenSeqElements ==
  ASSUME NEW S, NEW seqs \in Seq(Seq(S))
  PROVE  FlattenSeq(seqs) \in Seq(S)
<1> DEFINE n == Len(seqs)
           Loop(f) == [i \in 1..n |-> IF i = 1 THEN seqs[i] ELSE f[i-1] \o seqs[i]]
           flatten == CHOOSE f : f = Loop(f)
           g == [i \in 1..n |-> [t \in Seq(S) |-> t \o seqs[i]]]
<1>1. n \in Nat /\ (\A i \in 1..n : seqs[i] \in Seq(S)) /\ <<>> \in Seq(S)
  OBVIOUS
<1>2. CASE n = 0
  BY <1>2 DEF FlattenSeq
<1>3. CASE n # 0
  <2>1. FlattenSeq(seqs) = flatten[n]
    BY <1>3 DEF FlattenSeq
  <2>2. g \in [1..n -> [Seq(S) -> Seq(S)]]
    BY <1>1
  <2>3. PICK f \in [0..n -> Seq(S)] : Steps(f, n, <<>>, g)
    <3> HIDE DEF g, n
    <3> QED  BY <1>1, <2>2, DefinedByStep
  <2>4. \A i \in 1..n : f[i-1] \in Seq(S) /\ f[i] = f[i-1] \o seqs[i]
    <3> SUFFICES ASSUME NEW i \in 1..n
                 PROVE  f[i-1] \in Seq(S) /\ f[i] = f[i-1] \o seqs[i]
      OBVIOUS
    <3> HIDE DEF n
    <3>1. f[i-1] \in Seq(S)
      BY <1>1
    <3>2. f[i] = g[i][f[i-1]]
      BY <2>3 DEF Steps
    <3> QED
      BY <3>1, <3>2
  <2>5. f[0] = <<>>
    BY <2>3 DEF Steps
  <2> DEFINE h == [i \in 1..n |-> f[i]]
  <2>6. \A i \in 1..n : h[i] = Loop(h)[i]
    <3> SUFFICES ASSUME NEW i \in 1..n PROVE h[i] = Loop(h)[i]
      OBVIOUS
    <3> HIDE DEF n
    <3>1. CASE i = 1
      <4>1. f[i] = f[i-1] \o seqs[i]
        BY <2>4
      <4>2. seqs[i] \in Seq(S)
        BY <1>1
      <4>3. f[i-1] = <<>>
        <5>1. i - 1 = 0
          BY <3>1
        <5> QED
          BY <2>5, <5>1
      <4>4. f[i] = seqs[i]
        BY <4>1, <4>2, <4>3, ConcatEmptySeq
      <4> QED
        BY <3>1, <4>4
    <3>2. CASE i # 1
      <4>1. f[i] = f[i-1] \o seqs[i]
        BY <2>4
      <4>2. i - 1 \in 1..n
        BY <1>1, <3>2
      <4> QED
        BY <3>2, <4>1, <4>2
    <3> QED
      BY <3>1, <3>2
  <2>7. h = Loop(h)
    <3>1. Loop(h) = [i \in 1..n |-> Loop(h)[i]]
      OBVIOUS
    <3> HIDE DEF Loop
    <3> QED  BY <2>6, <3>1
  <2>8. flatten = Loop(flatten)
    <3> HIDE DEF Loop, h
    <3> QED  BY <2>7
  <2> HIDE DEF flatten
  <2>9. \A i \in 1..n : flatten[i] = IF i = 1 THEN seqs[i]
                                     ELSE flatten[i-1] \o seqs[i]
    <3>1. \A i \in 1..n : flatten[i] = Loop(flatten)[i]
      BY <2>8
    <3> QED
      BY <3>1
  <2> DEFINE T == {m \in Nat : m \in 1..n => flatten[m] \in Seq(S)}
  <2>10. 0 \in T
    BY <1>1
  <2>11. \A m \in Nat : m \in T => m + 1 \in T
    <3> SUFFICES ASSUME NEW m \in Nat, m \in T, m + 1 \in 1..n
                 PROVE  flatten[m + 1] \in Seq(S)
      OBVIOUS
    <3>1. seqs[m + 1] \in Seq(S) /\ (m + 1) - 1 = m
      BY <1>1
    <3>2. CASE m = 0
      BY <2>9, <3>1, <3>2
    <3>3. CASE m # 0
      <4>1. m \in 1..n
        BY <1>1, <3>3
      <4>2. flatten[m] \in Seq(S) /\ flatten[m + 1] = flatten[m] \o seqs[m + 1]
        <5>1. flatten[m] \in Seq(S)
          BY <4>1
        <5>2. m + 1 # 1
          BY <3>3
        <5> HIDE DEF n, T
        <5> QED
          BY <2>9, <3>1, <5>1, <5>2
      <4> QED
        BY <3>1, <4>2
    <3> QED
      BY <3>2, <3>3
  <2>12. Nat \subseteq T
    <3> HIDE DEF T
    <3> QED  BY <2>10, <2>11, SetInduction
  <2>13. flatten[n] \in Seq(S)
    BY <1>1, <1>3, <2>12
  <2> QED
    BY <2>1, <2>13
<1> QED
  BY <1>2, <1>3

\* A lookup by id ends at an entry with that id, or there is none.
LEMMA PosOfIdFound ==
  ASSUME NEW S, NEW s \in Seq(S), NEW id
  PROVE  /\ PosOfId(s, id) \in 0..Len(s)
         /\ PosOfId(s, id) # 0 => s[PosOfId(s, id)].id = id
<1> DEFINE I == {i \in 1..Len(s) : s[i].id = id}
<1>1. PosOfId(s, id) = IF I # {} THEN Min(I) ELSE 0
  BY DEF PosOfId, SelectInSeq
<1>2. Len(s) \in Nat /\ I \in SUBSET (1..Len(s))
  OBVIOUS
<1>3. I # {} => Min(I) \in I
  <2> HIDE DEF I
  <2> QED  BY <1>2, MinMaxOfPositions
<1> QED
  BY <1>1, <1>2, <1>3

\* The alias table has the last entry of a host.
LEMMA PosOfHostFound ==
  ASSUME NEW S, NEW s \in Seq(S), NEW host
  PROVE  /\ PosOfHost(s, host) \in 0..Len(s)
         /\ PosOfHost(s, host) # 0 => s[PosOfHost(s, host)].host = host
         /\ PosOfHost(s, host) = 0 => \A i \in 1..Len(s) : s[i].host # host
<1> DEFINE I == {i \in 1..Len(s) : s[i].host = host}
<1>1. PosOfHost(s, host) = IF I # {} THEN Max(I) ELSE 0
  BY DEF PosOfHost, SelectLastInSeq
<1>2. Len(s) \in Nat /\ I \in SUBSET (1..Len(s))
  OBVIOUS
<1>3. I # {} => Max(I) \in I
  <2> HIDE DEF I
  <2> QED  BY <1>2, MinMaxOfPositions
<1> QED
  BY <1>1, <1>2, <1>3
=============================================================================

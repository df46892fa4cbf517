------------------------ MODULE ProbelistTextProofs -------------------------
(***************************************************************************)
(* Facts about the operators of module ProbelistText, and about how the    *)
(* objects of a list are dealt to files.  Nothing here is about a step of  *)
(* the programs.                                                           *)
(***************************************************************************)
EXTENDS ProbelistText, FiniteSetTheorems, FunctionTheorems, SequenceTheorems,
  WellFoundedInduction, TLAPS

\* A set of naturals with 0 and the successors of its elements has all of them.
LEMMA NatInduct ==
  ASSUME NEW T, 0 \in T, \A n \in Nat : n \in T => n + 1 \in T
  PROVE  \A n \in Nat : n \in T
<1> SUFFICES ASSUME Nat \ T # {} PROVE FALSE
  OBVIOUS
<1> DEFINE less == OpToRel(<, Nat)
<1>1. IsWellFoundedOn(less, Nat)
  BY NatLessThanWellFounded
<1>2. \A x, y \in Nat : x < y => <<x, y>> \in less
  BY DEF OpToRel
<1> HIDE DEF less
<1>3. PICK m \in Nat \ T : \A k \in Nat \ T : ~(<<k, m>> \in less)
  BY <1>1, WFMin
<1>4. m - 1 \in Nat /\ m - 1 < m
  OBVIOUS
<1>5. m - 1 \in T
  BY <1>2, <1>3, <1>4
<1> QED  BY <1>3, <1>4, <1>5

\* Concatenation may be regrouped.
LEMMA ConcatRegroups ==
  ASSUME NEW T
  PROVE  \A x, y, z \in Seq(T) : x \o (y \o z) = (x \o y) \o z
<1> SUFFICES ASSUME NEW x \in Seq(T), NEW y \in Seq(T), NEW z \in Seq(T)
             PROVE  (x \o y) \o z = x \o (y \o z)
  OBVIOUS
<1> QED  BY ConcatAssociative

-----------------------------------------------------------------------------
(* Numbers in order                                                          *)

\* Finitely many numbers have a greatest.
LEMMA Greatest ==
  \A S \in SUBSET Nat : IsFiniteSet(S) /\ S # {} => \E n \in S : \A m \in S : m <= n
<1> DEFINE Has(S) == IsFiniteSet(S) /\ S # {} => \E n \in S : \A m \in S : m <= n
           T == {c \in Nat : \A S \in SUBSET Nat : Cardinality(S) = c => Has(S)}
<1>1. 0 \in T
  BY FS_EmptySet
<1>2. ASSUME NEW c \in Nat, c \in T PROVE c + 1 \in T
  <2> SUFFICES ASSUME NEW S \in SUBSET Nat, Cardinality(S) = c + 1, IsFiniteSet(S), S # {}
               PROVE  \E n \in S : \A m \in S : m <= n
    OBVIOUS
  <2>1. PICK x \in S : TRUE
    OBVIOUS
  <2>2. IsFiniteSet(S \ {x}) /\ Cardinality(S \ {x}) = c /\ S \ {x} \in SUBSET Nat
    BY FS_RemoveElement
  <2>3. Has(S \ {x})
    BY <1>2, <2>2
  <2>4. CASE S \ {x} = {}
    <3>1. \A m \in S : m <= x
      BY <2>4
    <3> QED  BY <3>1, <2>1
  <2>5. CASE S \ {x} # {}
    <3>1. PICK y \in S \ {x} : \A m \in S \ {x} : m <= y
      BY <2>2, <2>3, <2>5
    <3>2. x \in Nat /\ y \in Nat /\ \A m \in S : m \in Nat
      OBVIOUS
    <3>3. CASE x <= y
      BY <3>1, <3>2, <3>3
    <3>4. CASE ~(x <= y)
      <4>1. \A m \in S : m <= x
        BY <3>1, <3>2, <3>4
      <4> QED  BY <4>1, <2>1
    <3> QED  BY <3>3, <3>4
  <2> QED  BY <2>4, <2>5
<1> HIDE DEF T
<1>3. \A c \in Nat : c \in T
  BY <1>1, <1>2, NatInduct
<1> QED  BY <1>3, FS_CardinalityType DEF T

\* A number above all the others comes last.
LEMMA InOrderMore ==
  ASSUME NEW S \in SUBSET Nat, IsFiniteSet(S), NEW n \in Nat, \A m \in S : m < n
  PROVE  /\ Cardinality(S) \in Nat
         /\ InOrder(S \cup {n}) = [k \in 1..(Cardinality(S) + 1) |->
                                     IF k <= Cardinality(S) THEN InOrder(S)[k] ELSE n]
<1> DEFINE c == Cardinality(S)
           R == S \cup {n}
           low(k) == CHOOSE x \in S : Cardinality({m \in S : m < x}) = k - 1
           new(k) == CHOOSE x \in R : Cardinality({m \in R : m < x}) = k - 1
<1>1. c \in Nat /\ Cardinality(R) = c + 1
  <2>1. n \notin S
    OBVIOUS
  <2> QED  BY <2>1, FS_AddElement, FS_CardinalityType
<1>2. \A x \in S : {m \in R : m < x} = {m \in S : m < x}
  OBVIOUS
<1>3. {m \in R : m < n} = S
  <2>1. \A m \in R : m < n <=> m \in S
    <3>1. ~(n < n)
      OBVIOUS
    <3> QED  BY <3>1
  <2> QED  BY <2>1
<1>4. ASSUME NEW k \in 1..c PROVE new(k) = low(k)
  <2>1. \A x : x \in R /\ Cardinality({m \in R : m < x}) = k - 1
               <=> x \in S /\ Cardinality({m \in S : m < x}) = k - 1
    <3> SUFFICES ASSUME NEW x
                 PROVE  x \in R /\ Cardinality({m \in R : m < x}) = k - 1
                        <=> x \in S /\ Cardinality({m \in S : m < x}) = k - 1
      OBVIOUS
    <3>1. CASE x \in S
      BY <1>2, <3>1
    <3>2. CASE x = n
      <4>1. n \notin S /\ Cardinality({m \in R : m < x}) = c
        BY <1>3, <3>2
      <4> QED  BY <1>1, <3>2, <4>1
    <3> QED  BY <3>1, <3>2
  <2> QED  BY <2>1
<1>5. new(c + 1) = n
  <2>1. \A x \in S : Cardinality({m \in S : m < x}) # c
    <3> SUFFICES ASSUME NEW x \in S, Cardinality({m \in S : m < x}) = c PROVE FALSE
      OBVIOUS
    <3>1. {m \in S : m < x} = S
      BY FS_Subset
    <3> QED  BY <3>1
  <2>2. \A x \in R : Cardinality({m \in R : m < x}) = c <=> x = n
    BY <2>1, <1>2, <1>3
  <2>3. c = (c + 1) - 1
    BY <1>1
  <2>4. \A x \in R : Cardinality({m \in R : m < x}) = (c + 1) - 1 <=> x = n
    BY <2>2, <2>3
  <2>5. n \in R
    OBVIOUS
  <2> QED  BY <2>4, <2>5
<1>6. InOrder(S) = [k \in 1..c |-> low(k)] /\ InOrder(R) = [k \in 1..(c + 1) |-> new(k)]
  BY <1>1 DEF InOrder
<1> HIDE DEF low, new
<1>7. \A k \in 1..c : InOrder(S)[k] = low(k)
  BY <1>6
<1>8. \A k \in 1..(c + 1) : new(k) = IF k <= c THEN InOrder(S)[k] ELSE n
  BY <1>1, <1>4, <1>5, <1>7
<1> QED  BY <1>1, <1>6, <1>8

\* The numbers of S, each once, in their order.
LEMMA InOrderFacts ==
  ASSUME NEW S \in SUBSET Nat, IsFiniteSet(S)
  PROVE  /\ InOrder(S) \in Seq(S) /\ Len(InOrder(S)) = Cardinality(S)
         /\ Cardinality(S) \in Nat
         /\ \A n \in S : \E i \in 1..Cardinality(S) : InOrder(S)[i] = n
         /\ \A i, j \in 1..Cardinality(S) : i < j => InOrder(S)[i] < InOrder(S)[j]
<1> DEFINE Fine(R) ==
             /\ InOrder(R) \in [1..Cardinality(R) -> R]
             /\ \A n \in R : \E i \in 1..Cardinality(R) : InOrder(R)[i] = n
             /\ \A i, j \in 1..Cardinality(R) : i < j => InOrder(R)[i] < InOrder(R)[j]
           T == {c \in Nat : \A R \in SUBSET Nat : IsFiniteSet(R) /\ Cardinality(R) = c => Fine(R)}
<1>1. 0 \in T
  <2> SUFFICES ASSUME NEW R \in SUBSET Nat, IsFiniteSet(R), Cardinality(R) = 0 PROVE Fine(R)
    OBVIOUS
  <2>1. R = {}
    BY FS_EmptySet
  <2>2. DOMAIN InOrder(R) = {} /\ InOrder(R) = [k \in 1..0 |-> InOrder(R)[k]]
    BY DEF InOrder
  <2> QED  BY <2>1, <2>2
<1>2. ASSUME NEW c \in Nat, c \in T PROVE c + 1 \in T
  <2> SUFFICES ASSUME NEW R \in SUBSET Nat, IsFiniteSet(R), Cardinality(R) = c + 1 PROVE Fine(R)
    OBVIOUS
  <2>1. R # {}
    BY FS_EmptySet
  <2>2. PICK n \in R : \A m \in R : m <= n
    BY <2>1, Greatest
  <2> DEFINE Q == R \ {n}
  <2>3. IsFiniteSet(Q) /\ Cardinality(Q) = c /\ Q \in SUBSET Nat /\ Q \cup {n} = R
    <3>1. IsFiniteSet(R \ {n}) /\ Cardinality(R \ {n}) = Cardinality(R) - 1
      BY FS_RemoveElement
    <3>2. (c + 1) - 1 = c
      OBVIOUS
    <3>3. Q \in SUBSET Nat /\ Q \cup {n} = R
      OBVIOUS
    <3> QED  BY <3>1, <3>2, <3>3
  <2>4. Fine(Q)
    BY <1>2, <2>3
  <2>5. \A m \in Q : m < n
    <3>1. \A m \in Q : m \in Nat /\ m <= n /\ m # n
      BY <2>2
    <3> QED  BY <3>1
  <2> HIDE DEF Q
  <2>6. InOrder(R) = [k \in 1..(c + 1) |-> IF k <= c THEN InOrder(Q)[k] ELSE n]
    <3>1. n \in Nat
      OBVIOUS
    <3>2. InOrder(Q \cup {n}) = [k \in 1..(Cardinality(Q) + 1) |->
                                   IF k <= Cardinality(Q) THEN InOrder(Q)[k] ELSE n]
      BY <2>3, <2>5, <3>1, InOrderMore
    <3> QED  BY <2>3, <3>2
  <2>7. /\ \A k \in 1..c : InOrder(R)[k] = InOrder(Q)[k] /\ InOrder(Q)[k] \in Q
        /\ InOrder(R)[c + 1] = n
        /\ \A k \in 1..(c + 1) : k \in 1..c \/ k = c + 1
    BY <2>3, <2>4, <2>6
  <2>8. InOrder(R) \in [1..(c + 1) -> R]
    <3>1. \A k \in 1..(c + 1) : (IF k <= c THEN InOrder(Q)[k] ELSE n) \in R
      BY <2>3, <2>7
    <3> QED  BY <2>6, <3>1
  <2>9. ASSUME NEW m \in R PROVE \E i \in 1..(c + 1) : InOrder(R)[i] = m
    <3>1. CASE m = n
      BY <2>7, <3>1
    <3>2. CASE m \in Q
      <4>1. PICK i \in 1..c : InOrder(Q)[i] = m
        BY <2>3, <2>4, <3>2
      <4>2. i \in 1..(c + 1) /\ InOrder(R)[i] = m
        BY <2>7, <4>1
      <4> QED  BY <4>2
    <3> QED  BY <2>3, <3>1, <3>2
  <2>10. ASSUME NEW i \in 1..(c + 1), NEW j \in 1..(c + 1), i < j
         PROVE  InOrder(R)[i] < InOrder(R)[j]
    <3>1. i \in 1..c
      BY <2>10
    <3>2. CASE j \in 1..c
      BY <2>3, <2>4, <2>7, <2>10, <3>1, <3>2
    <3>3. CASE j = c + 1
      BY <2>5, <2>7, <3>1, <3>3
    <3> QED  BY <2>7, <3>2, <3>3
  <2> QED  BY <2>8, <2>9, <2>10
<1> HIDE DEF T
<1>3. \A c \in Nat : c \in T
  BY <1>1, <1>2, NatInduct
<1>4. Cardinality(S) \in Nat
  BY FS_CardinalityType
<1>5. Fine(S)
  BY <1>3, <1>4 DEF T
<1>6. InOrder(S) \in Seq(S) /\ Len(InOrder(S)) = Cardinality(S)
  BY <1>4, <1>5, SeqDef
<1> QED  BY <1>4, <1>5, <1>6

\* No numbers, no sequence.
LEMMA InOrderEmpty == InOrder({}) = <<>>
<1>1. IsFiniteSet({}) /\ Cardinality({}) = 0 /\ {} \in SUBSET Nat
  BY FS_EmptySet
<1>2. InOrder({}) \in Seq({}) /\ Len(InOrder({})) = 0
  BY <1>1, InOrderFacts
<1> QED  BY <1>2, EmptySeq

\* The same, with the sequence as a whole.
LEMMA InOrderAppend ==
  ASSUME NEW S \in SUBSET Nat, IsFiniteSet(S), NEW n \in Nat, \A m \in S : m < n
  PROVE  InOrder(S \cup {n}) = Append(InOrder(S), n)
<1> DEFINE c == Cardinality(S)
<1>1. InOrder(S \cup {n}) = [k \in 1..(c + 1) |-> IF k <= c THEN InOrder(S)[k] ELSE n]
  BY InOrderMore
<1>2. InOrder(S) \in Seq(Nat) /\ Len(InOrder(S)) = c /\ c \in Nat
  BY InOrderFacts, SeqMonotonic
<1>3. /\ Append(InOrder(S), n) \in Seq(Nat) /\ Len(Append(InOrder(S), n)) = c + 1
      /\ \A i \in 1..c : Append(InOrder(S), n)[i] = InOrder(S)[i]
      /\ Append(InOrder(S), n)[c + 1] = n
  BY <1>2, AppendProperties
<1>4. InOrder(S \cup {n}) \in Seq(Nat) /\ Len(InOrder(S \cup {n})) = c + 1
  <2>1. IsFiniteSet(S \cup {n}) /\ Cardinality(S \cup {n}) = c + 1 /\ S \cup {n} \in SUBSET Nat
    <3>1. n \notin S
      OBVIOUS
    <3> QED  BY <3>1, FS_AddElement
  <2> QED  BY <2>1, InOrderFacts, SeqMonotonic
<1>5. \A i \in 1..(c + 1) : InOrder(S \cup {n})[i] = Append(InOrder(S), n)[i]
  BY <1>1, <1>2, <1>3
<1> QED  BY <1>3, <1>4, <1>5, SeqEqual

-----------------------------------------------------------------------------
(* Texts put together                                                        *)

\* The defining equation of what FlattenSeq computes with.
Flattens(seqs, n, f) ==
  f = [i \in 1..n |-> IF i = 1 THEN seqs[i] ELSE f[i - 1] \o seqs[i]]

\* What FlattenSeq computes with exists, and is the only such function.
LEMMA FlattensUnique ==
  ASSUME NEW seqs, NEW n \in Nat, NEW f, NEW g, Flattens(seqs, n, f), Flattens(seqs, n, g)
  PROVE  f = g
<1> DEFINE T == {i \in Nat : i \in 1..n => f[i] = g[i]}
<1>1. /\ \A i \in 1..n : f[i] = IF i = 1 THEN seqs[i] ELSE f[i - 1] \o seqs[i]
      /\ \A i \in 1..n : g[i] = IF i = 1 THEN seqs[i] ELSE g[i - 1] \o seqs[i]
      /\ f = [i \in 1..n |-> f[i]] /\ g = [i \in 1..n |-> g[i]]
  BY DEF Flattens
<1>2. 0 \in T
  OBVIOUS
<1>3. ASSUME NEW i \in Nat, i \in T PROVE i + 1 \in T
  <2> SUFFICES ASSUME i + 1 \in 1..n PROVE f[i + 1] = g[i + 1]
    OBVIOUS
  <2>1. CASE i = 0
    <3>1. i + 1 \in 1..n /\ i + 1 = 1
      BY <2>1
    <3>2. f[1] = seqs[1] /\ g[1] = seqs[1]
      BY <1>1, <3>1
    <3> QED  BY <3>1, <3>2
  <2>2. CASE i # 0
    <3>1. i \in 1..n /\ i + 1 # 1 /\ (i + 1) - 1 = i
      BY <2>2
    <3>2. f[i] = g[i]
      BY <1>3, <3>1
    <3>3. f[i + 1] = f[i] \o seqs[i + 1] /\ g[i + 1] = g[i] \o seqs[i + 1]
      BY <1>1, <3>1
    <3> QED  BY <3>2, <3>3
  <2> QED  BY <2>1, <2>2
<1> HIDE DEF T
<1>4. \A i \in Nat : i \in T
  BY <1>2, <1>3, NatInduct
<1>5. \A i \in 1..n : f[i] = g[i]
  BY <1>4 DEF T
<1> QED  BY <1>1, <1>5

LEMMA FlattensExists ==
  ASSUME NEW X, NEW seqs \in Seq(Seq(X)), NEW n \in 0..Len(seqs)
  PROVE  \E f \in [1..n -> Seq(X)] : Flattens(seqs, n, f)
<1> DEFINE T == {m \in Nat : m \in 0..Len(seqs) =>
                               \E f \in [1..m -> Seq(X)] : Flattens(seqs, m, f)}
<1>0. Len(seqs) \in Nat /\ \A i \in 1..Len(seqs) : seqs[i] \in Seq(X)
  BY LenProperties, ElementOfSeq
<1>1. 0 \in T
  <2>1. [i \in 1..0 |-> <<>>] \in [1..0 -> Seq(X)]
    OBVIOUS
  <2>2. Flattens(seqs, 0, [i \in 1..0 |-> <<>>])
    BY DEF Flattens
  <2> QED  BY <2>1, <2>2
<1>2. ASSUME NEW m \in Nat, m \in T PROVE m + 1 \in T
  <2> SUFFICES ASSUME m + 1 \in 0..Len(seqs)
               PROVE  \E f \in [1..(m + 1) -> Seq(X)] : Flattens(seqs, m + 1, f)
    OBVIOUS
  <2>1. m \in 0..Len(seqs) /\ m + 1 \in 1..Len(seqs)
    BY <1>0
  <2>2. PICK f \in [1..m -> Seq(X)] : Flattens(seqs, m, f)
    BY <1>2, <2>1
  <2> DEFINE last == IF m = 0 THEN seqs[m + 1] ELSE f[m] \o seqs[m + 1]
             g == [i \in 1..(m + 1) |-> IF i \in 1..m THEN f[i] ELSE last]
  <2>3. last \in Seq(X)
    BY <1>0, <2>1, ConcatProperties
  <2>4. g \in [1..(m + 1) -> Seq(X)]
    BY <2>3
  <2>5. Flattens(seqs, m + 1, g)
    <3> SUFFICES ASSUME NEW i \in 1..(m + 1)
                 PROVE  g[i] = IF i = 1 THEN seqs[i] ELSE g[i - 1] \o seqs[i]
      BY DEF Flattens
    <3>1. CASE i \in 1..m
      <4>1. g[i] = f[i] /\ (i # 1 => i - 1 \in 1..m /\ g[i - 1] = f[i - 1])
        BY <3>1
      <4>2. f[i] = IF i = 1 THEN seqs[i] ELSE f[i - 1] \o seqs[i]
        BY <2>2, <3>1 DEF Flattens
      <4> QED  BY <4>1, <4>2
    <3>2. CASE i = m + 1
      <4>1. g[i] = last /\ (m # 0 => i # 1 /\ i - 1 = m /\ m \in 1..m /\ g[m] = f[m])
        BY <3>2
      <4> QED  BY <3>2, <4>1
    <3> QED  BY <3>1, <3>2
  <2> QED  BY <2>4, <2>5
<1> HIDE DEF T
<1>3. \A m \in Nat : m \in T
  BY <1>1, <1>2, NatInduct
<1> QED  BY <1>0, <1>3 DEF T

\* So FlattenSeq can be computed with any function of that equation.
LEMMA FlattenSeqIs ==
  ASSUME NEW X, NEW seqs \in Seq(Seq(X)), Len(seqs) # 0, NEW f, Flattens(seqs, Len(seqs), f)
  PROVE  FlattenSeq(seqs) = f[Len(seqs)]
<1>0. Len(seqs) \in Nat
  BY LenProperties
<1> DEFINE h == CHOOSE h : h = [i \in 1..Len(seqs) |-> IF i = 1 THEN seqs[i] ELSE h[i - 1] \o seqs[i]]
<1>1. FlattenSeq(seqs) = h[Len(seqs)]
  BY DEF FlattenSeq
<1>2. f = [i \in 1..Len(seqs) |-> IF i = 1 THEN seqs[i] ELSE f[i - 1] \o seqs[i]]
  BY DEF Flattens
<1>3. h = [i \in 1..Len(seqs) |-> IF i = 1 THEN seqs[i] ELSE h[i - 1] \o seqs[i]]
  BY <1>2
<1> HIDE DEF h
<1>4. Flattens(seqs, Len(seqs), h)
  BY <1>3 DEF Flattens
<1> QED  BY <1>0, <1>1, <1>4, FlattensUnique

\* A text put together of texts, and what one more does to it.
LEMMA FlattenFacts ==
  ASSUME NEW X, NEW seqs \in Seq(Seq(X))
  PROVE  /\ FlattenSeq(<<>>) = <<>>
         /\ FlattenSeq(seqs) \in Seq(X)
         /\ \A p \in Seq(X) : FlattenSeq(Append(seqs, p)) = FlattenSeq(seqs) \o p
<1>0. Len(seqs) \in Nat
  BY LenProperties
<1>1. FlattenSeq(<<>>) = <<>>
  <2>1. Len(<<>>) = 0
    BY EmptySeq
  <2> QED  BY <2>1 DEF FlattenSeq
<1>2. PICK f \in [1..Len(seqs) -> Seq(X)] : Flattens(seqs, Len(seqs), f)
  BY <1>0, FlattensExists, SMTT(60)
<1>3. /\ Len(seqs) # 0 => FlattenSeq(seqs) = f[Len(seqs)]
      /\ Len(seqs) = 0 => seqs = <<>> /\ FlattenSeq(seqs) = <<>>
  BY <1>1, <1>2, FlattenSeqIs, EmptySeq
<1>4. FlattenSeq(seqs) \in Seq(X)
  <2>1. <<>> \in Seq(X)
    BY EmptySeq
  <2>2. CASE Len(seqs) = 0
    BY <1>3, <2>1, <2>2
  <2>3. CASE Len(seqs) # 0
    <3>1. Len(seqs) \in 1..Len(seqs)
      BY <1>0, <2>3
    <3>2. f[Len(seqs)] \in Seq(X)
      BY <3>1
    <3> QED  BY <1>3, <2>3, <3>2
  <2> QED  BY <2>2, <2>3
<1>5. ASSUME NEW p \in Seq(X) PROVE FlattenSeq(Append(seqs, p)) = FlattenSeq(seqs) \o p
  <2> DEFINE more == Append(seqs, p)
             n == Len(seqs)
  <2>1. /\ more \in Seq(Seq(X)) /\ Len(more) = n + 1
        /\ \A i \in 1..n : more[i] = seqs[i]
        /\ more[n + 1] = p
    BY AppendProperties
  <2> HIDE DEF more
  <2>2. PICK g \in [1..(n + 1) -> Seq(X)] : Flattens(more, n + 1, g)
    <3>1. n + 1 \in 0..Len(more)
      BY <1>0, <2>1
    <3> QED  BY <2>1, <3>1, FlattensExists
  <2>3. FlattenSeq(more) = g[n + 1]
    BY <1>0, <2>1, <2>2, FlattenSeqIs
  <2>4. g[n + 1] = IF n = 0 THEN p ELSE g[n] \o p
    <3>1. n + 1 \in 1..(n + 1) /\ (n + 1) - 1 = n /\ (n + 1 = 1 <=> n = 0)
      BY <1>0
    <3>2. g[n + 1] = IF n + 1 = 1 THEN more[n + 1] ELSE g[(n + 1) - 1] \o more[n + 1]
      BY <2>2, <3>1 DEF Flattens
    <3> QED  BY <2>1, <3>1, <3>2
  <2>5. n # 0 => g[n] = f[n]
    <3> DEFINE k == [i \in 1..n |-> g[i]]
    <3>1. Flattens(seqs, n, k)
      <4> SUFFICES ASSUME NEW i \in 1..n
                   PROVE  k[i] = IF i = 1 THEN seqs[i] ELSE k[i - 1] \o seqs[i]
        BY DEF Flattens
      <4>1. i \in 1..(n + 1) /\ k[i] = g[i] /\ (i # 1 => k[i - 1] = g[i - 1])
        BY <1>0
      <4>2. g[i] = IF i = 1 THEN more[i] ELSE g[i - 1] \o more[i]
        BY <2>2, <4>1 DEF Flattens
      <4> QED  BY <2>1, <4>1, <4>2
    <3>2. k = f
      BY <1>0, <1>2, <3>1, FlattensUnique
    <3> QED  BY <1>0, <3>2
  <2>6. n = 0 => <<>> \o p = p
    BY ConcatEmptySeq
  <2> QED  BY <1>3, <2>3, <2>4, <2>5, <2>6 DEF more
<1> QED  BY <1>1, <1>4, <1>5

-----------------------------------------------------------------------------
(* Remainders                                                                *)

\* The remainder of a multiple and a bit is the bit.
LEMMA Remainder ==
  ASSUME NEW c \in Nat \ {0}, NEW q \in Nat, NEW r \in 0..(c - 1)
  PROVE  (c * q + r) % c = r
<1> DEFINE n == c * q + r
           Q == n \div c
           R == n % c
<1>0. c * q \in Nat /\ n \in Nat
  OBVIOUS
<1>1. Q \in Nat /\ R \in 0..(c - 1) /\ n = c * Q + R
  BY <1>0
<1>2. c * q \in Int /\ c * Q \in Int /\ c * q + r = c * Q + R
  BY <1>1
<1> HIDE DEF n, Q, R
<1>3. ~(Q >= q + 1)
  <2> SUFFICES ASSUME Q >= q + 1 PROVE FALSE
    OBVIOUS
  <2>1. PICK d \in Nat : Q = q + 1 + d
    <3>1. Q - (q + 1) \in Nat /\ Q = q + 1 + (Q - (q + 1))
      BY <1>1
    <3> QED  BY <3>1
  <2>2. c * Q = c * q + c + c * d /\ c * d \in Nat
    BY <2>1
  <2> QED  BY <1>1, <1>2, <2>2
<1>4. ~(q >= Q + 1)
  <2> SUFFICES ASSUME q >= Q + 1 PROVE FALSE
    OBVIOUS
  <2>1. PICK d \in Nat : q = Q + 1 + d
    <3>1. q - (Q + 1) \in Nat /\ q = Q + 1 + (q - (Q + 1))
      BY <1>1
    <3> QED  BY <3>1
  <2>2. c * q = c * Q + c + c * d /\ c * d \in Nat
    BY <1>1, <2>1
  <2> QED  BY <1>1, <1>2, <2>2
<1>5. q = Q
  BY <1>1, <1>3, <1>4
<1>6. R = r
  BY <1>1, <1>2, <1>5
<1> QED  BY <1>6 DEF R, n

\* The remainder of a number, and of the next one.
LEMMA RemainderFacts ==
  ASSUME NEW n \in Nat, NEW c \in Nat \ {0}
  PROVE  /\ n % c \in 0..(c - 1)
         /\ n < c => n % c = n
         /\ (n + 1) % c = ((n % c) + 1) % c
<1> DEFINE r == n % c
           q == n \div c
<1>1. r \in 0..(c - 1) /\ q \in Nat /\ n = c * q + r
  OBVIOUS
<1>2. n < c => n % c = n
  OBVIOUS
<1> HIDE DEF r, q
<1>4. (r + 1) % c = (n + 1) % c
  <2>1. CASE r + 1 < c
    <3>1. r + 1 \in 0..(c - 1) /\ n + 1 = c * q + (r + 1)
      BY <1>1, <2>1
    <3>2. (r + 1) % c = r + 1
      BY <3>1
    <3>3. (c * q + (r + 1)) % c = r + 1
      BY <1>1, <3>1, Remainder
    <3> QED  BY <3>1, <3>2, <3>3
  <2>2. CASE r + 1 = c
    <3>1. n + 1 = c * (q + 1) + 0 /\ q + 1 \in Nat /\ 0 \in 0..(c - 1)
      BY <1>1, <2>2
    <3>2. (c * (q + 1) + 0) % c = 0
      BY <3>1, Remainder
    <3>3. (c * 1 + 0) % c = 0 /\ c * 1 + 0 = c
      BY <3>1, Remainder
    <3> QED  BY <2>2, <3>1, <3>2, <3>3
  <2> QED  BY <1>1, <2>1, <2>2
<1> QED  BY <1>1, <1>2, <1>4 DEF r

-----------------------------------------------------------------------------
(* Dealing objects to files                                                  *)

\* The numbers of the objects that the file f of c is dealt, of n, and the parts of
\* the file, each with the comma before it.
Turns(n, c, f) == InOrder({i \in 1..n : (i - 1) % c = f})
Parts(objs, c, f) ==
  LET own == Turns(Len(objs), c, f)
  IN  [i \in DOMAIN own |-> (IF i = 1 THEN <<>> ELSE <<Comma>>) \o objs[own[i]]]

\* With one more object, the file whose turn it is gets its number; no file
\* that has had a turn is without an object.
LEMMA TurnsFacts ==
  ASSUME NEW n \in Nat, NEW c \in Nat \ {0}, NEW f \in 0..(c - 1)
  PROVE  /\ Turns(n, c, f) \in Seq(1..n)
         /\ n % c = f => Turns(n + 1, c, f) = Append(Turns(n, c, f), n + 1)
         /\ n % c # f => Turns(n + 1, c, f) = Turns(n, c, f)
         /\ n % c = f => (Len(Turns(n, c, f)) = 0 <=> n < c)
<1> DEFINE S(m) == {i \in 1..m : (i - 1) % c = f}
<1>1. /\ S(n) \in SUBSET Nat /\ IsFiniteSet(S(n)) /\ S(n) \subseteq 1..n
      /\ \A m \in S(n) : m < n + 1
  <2>1. IsFiniteSet(1..n)
    BY FS_Interval
  <2>2. S(n) \in SUBSET (1..n)
    OBVIOUS
  <2>3. IsFiniteSet(S(n))
    <3> HIDE DEF S
    <3> QED  BY <2>1, <2>2, FS_Subset
  <2>4. \A m \in 1..n : m \in Nat /\ m < n + 1
    OBVIOUS
  <2> HIDE DEF S
  <2> QED  BY <2>2, <2>3, <2>4
<1>2. (n + 1) - 1 = n
  OBVIOUS
<1>3. Turns(n, c, f) = InOrder(S(n)) /\ Turns(n + 1, c, f) = InOrder(S(n + 1))
  BY DEF Turns
<1>4. Turns(n, c, f) \in Seq(1..n) /\ Len(Turns(n, c, f)) = Cardinality(S(n))
  BY <1>1, <1>3, InOrderFacts, SeqMonotonic
<1>5. n % c = f => S(n + 1) = S(n) \cup {n + 1}
  <2>1. \A i : i \in 1..(n + 1) <=> i \in 1..n \/ i = n + 1
    OBVIOUS
  <2> QED  BY <1>2, <2>1
<1>6. n % c # f => S(n + 1) = S(n)
  <2>1. \A i : i \in 1..(n + 1) <=> i \in 1..n \/ i = n + 1
    OBVIOUS
  <2> QED  BY <1>2, <2>1
<1>7. n % c = f => (S(n) = {} <=> n < c)
  <2> SUFFICES ASSUME n % c = f PROVE S(n) = {} <=> n < c
    OBVIOUS
  <2>1. CASE n < c
    <3>1. \A i \in 1..n : i - 1 \in Nat /\ i - 1 < c /\ i - 1 # n
      BY <2>1
    <3>2. \A i \in 1..n : (i - 1) % c = i - 1 /\ n % c = n
      BY <2>1, <3>1, RemainderFacts
    <3> QED  BY <2>1, <3>1, <3>2
  <2>2. CASE ~(n < c)
    <3>1. f + 1 \in 1..n /\ (f + 1) - 1 = f /\ f \in Nat /\ f < c
      BY <2>2
    <3>2. f % c = f
      BY <3>1, RemainderFacts
    <3>3. f + 1 \in S(n)
      BY <3>1, <3>2
    <3> QED  BY <2>2, <3>3
  <2> QED  BY <2>1, <2>2
<1> HIDE DEF S
<1>8. InOrder(S(n) \cup {n + 1}) = Append(InOrder(S(n)), n + 1)
  <2>1. n + 1 \in Nat
    OBVIOUS
  <2> QED  BY <1>1, <2>1, InOrderAppend
<1>9. Cardinality(S(n)) = 0 <=> S(n) = {}
  BY <1>1, FS_EmptySet
<1> QED  BY <1>3, <1>4, <1>5, <1>6, <1>7, <1>8, <1>9

\* A file has as many parts as it has had turns.
LEMMA PartsType ==
  ASSUME NEW X, Comma \in X, NEW objs \in Seq(Seq(X)), NEW c \in Nat \ {0}, NEW f \in 0..(c - 1)
  PROVE  /\ Parts(objs, c, f) \in Seq(Seq(X))
         /\ Len(Parts(objs, c, f)) = Len(Turns(Len(objs), c, f))
<1> DEFINE own == Turns(Len(objs), c, f)
<1>1. Len(objs) \in Nat
  BY LenProperties
<1>2. own \in Seq(1..Len(objs))
  BY <1>1, TurnsFacts
<1>3. Len(own) \in Nat /\ DOMAIN own = 1..Len(own)
  BY <1>2, LenProperties
<1> HIDE DEF own
<1>4. \A i \in 1..Len(own) : (IF i = 1 THEN <<>> ELSE <<Comma>>) \o objs[own[i]] \in Seq(X)
  <2> SUFFICES ASSUME NEW i \in 1..Len(own)
               PROVE  (IF i = 1 THEN <<>> ELSE <<Comma>>) \o objs[own[i]] \in Seq(X)
    OBVIOUS
  <2>1. own[i] \in 1..Len(objs)
    BY <1>2, ElementOfSeq
  <2>2. objs[own[i]] \in Seq(X)
    BY <2>1, ElementOfSeq
  <2>3. <<>> \in Seq(X) /\ <<Comma>> \in Seq(X)
    OBVIOUS
  <2>4. (IF i = 1 THEN <<>> ELSE <<Comma>>) \in Seq(X)
    BY <2>3
  <2> HIDE DEF Comma
  <2> QED  BY <2>2, <2>4, ConcatProperties
<1>5. Parts(objs, c, f) = [i \in 1..Len(own) |-> (IF i = 1 THEN <<>> ELSE <<Comma>>) \o objs[own[i]]]
  BY <1>3 DEF Parts, own
<1>6. Parts(objs, c, f) \in [1..Len(own) -> Seq(X)]
  BY <1>4, <1>5
<1>7. Parts(objs, c, f) \in Seq(Seq(X)) /\ Len(Parts(objs, c, f)) = Len(own)
  BY <1>3, <1>6, SeqDef
<1> QED  BY <1>7 DEF own

\* One more object goes to the file whose turn it is, after a comma unless the file
\* has none yet.
LEMMA DealOneMore ==
  ASSUME NEW X, Comma \in X, NEW objs \in Seq(Seq(X)), NEW o \in Seq(X),
         NEW c \in Nat \ {0}, NEW f \in 0..(c - 1)
  PROVE  Parts(Append(objs, o), c, f) =
           IF Len(objs) % c = f
           THEN Append(Parts(objs, c, f),
                       (IF Len(objs) >= c THEN <<Comma>> ELSE <<>>) \o o)
           ELSE Parts(objs, c, f)
<1> DEFINE n == Len(objs)
           more == Append(objs, o)
           own == Turns(n, c, f)
           own2 == Turns(n + 1, c, f)
           Part(os, w, i) == (IF i = 1 THEN <<>> ELSE <<Comma>>) \o os[w[i]]
<1>1. n \in Nat
  BY LenProperties
<1>2. /\ more \in Seq(Seq(X)) /\ Len(more) = n + 1
      /\ \A i \in 1..n : more[i] = objs[i]
      /\ more[n + 1] = o
  BY AppendProperties
<1>3. /\ own \in Seq(1..n)
      /\ n % c = f => own2 = Append(own, n + 1)
      /\ n % c # f => own2 = own
      /\ n % c = f => (Len(own) = 0 <=> n < c)
  BY <1>1, TurnsFacts
<1>4. own2 \in Seq(1..(n + 1))
  <2>1. n + 1 \in Nat
    BY <1>1
  <2> QED  BY <2>1, TurnsFacts
<1>5. /\ Len(own) \in Nat /\ DOMAIN own = 1..Len(own)
      /\ Len(own2) \in Nat /\ DOMAIN own2 = 1..Len(own2)
  BY <1>3, <1>4, LenProperties
<1>6. /\ Parts(objs, c, f) = [i \in 1..Len(own) |-> Part(objs, own, i)]
      /\ Parts(more, c, f) = [i \in 1..Len(own2) |-> Part(more, own2, i)]
  BY <1>2, <1>5 DEF Parts
<1>7. /\ Parts(objs, c, f) \in Seq(Seq(X)) /\ Len(Parts(objs, c, f)) = Len(own)
      /\ Parts(more, c, f) \in Seq(Seq(X)) /\ Len(Parts(more, c, f)) = Len(own2)
  BY <1>2, PartsType, ZenonT(60)
<1>8. \A i \in 1..Len(own) : more[own[i]] = objs[own[i]]
  BY <1>2, <1>3, ElementOfSeq
<1> HIDE DEF n, more, own, own2
<1>9. CASE n % c # f
  <2>1. \A i \in 1..Len(own) : Part(more, own2, i) = Part(objs, own, i)
    BY <1>3, <1>8, <1>9
  <2>2. own2 = own
    BY <1>3, <1>9
  <2>3. Parts(more, c, f) = [i \in 1..Len(own) |-> Part(more, own, i)]
    BY <1>6, <2>2
  <2>4. \A i \in 1..Len(own) : Parts(more, c, f)[i] = Parts(objs, c, f)[i]
    BY <1>6, <2>1, <2>2, <2>3, ZenonT(60)
  <2>5. Parts(more, c, f) = Parts(objs, c, f)
    BY <1>7, <2>2, <2>4, SeqEqual
  <2> QED  BY <1>9, <2>5 DEF n, more
<1>10. CASE n % c = f
  <2> DEFINE p == (IF n >= c THEN <<Comma>> ELSE <<>>) \o o
  <2>1. /\ Len(own2) = Len(own) + 1
        /\ \A i \in 1..Len(own) : own2[i] = own[i]
        /\ own2[Len(own) + 1] = n + 1
    <3>1. own \in Seq(Nat)
      <4>1. 1..n \subseteq Nat
        BY <1>1
      <4> QED  BY <1>3, <4>1, SeqMonotonic
    <3>2. n + 1 \in Nat
      BY <1>1
    <3>3. own2 = Append(own, n + 1)
      BY <1>3, <1>10
    <3> QED  BY <3>1, <3>2, <3>3, AppendProperties
  <2>2. p \in Seq(X)
    <3>1. (IF n >= c THEN <<Comma>> ELSE <<>>) \in Seq(X)
      OBVIOUS
    <3> QED  BY <3>1, ConcatProperties
  <2>3. /\ Append(Parts(objs, c, f), p) \in Seq(Seq(X))
        /\ Len(Append(Parts(objs, c, f), p)) = Len(own) + 1
        /\ \A i \in 1..Len(own) : Append(Parts(objs, c, f), p)[i] = Parts(objs, c, f)[i]
        /\ Append(Parts(objs, c, f), p)[Len(own) + 1] = p
    BY <1>7, <2>2, AppendProperties
  <2> HIDE DEF p
  <2>4. ASSUME NEW i \in 1..(Len(own) + 1)
        PROVE  Parts(more, c, f)[i] = Append(Parts(objs, c, f), p)[i]
    <3>1. CASE i \in 1..Len(own)
      <4>1. Parts(more, c, f)[i] = Part(more, own2, i) /\ Parts(objs, c, f)[i] = Part(objs, own, i)
        BY <1>6, <2>1, <3>1
      <4>2. Part(more, own2, i) = Part(objs, own, i)
        BY <1>8, <2>1, <3>1
      <4> QED  BY <2>3, <3>1, <4>1, <4>2
    <3>2. CASE i = Len(own) + 1
      <4>1. Parts(more, c, f)[i] = (IF i = 1 THEN <<>> ELSE <<Comma>>) \o o
        BY <1>2, <1>6, <2>1, <3>2, ZenonT(60)
      <4>2. i = 1 <=> ~(n >= c)
        <5>1. Len(own) = 0 <=> n < c
          BY <1>3, <1>10
        <5>2. i = 1 <=> Len(own) = 0
          BY <1>5, <3>2
        <5>3. n >= c <=> ~(n < c)
          BY <1>1
        <5> QED  BY <5>1, <5>2, <5>3
      <4>3. Parts(more, c, f)[i] = p
        BY <4>1, <4>2 DEF p
      <4> QED  BY <2>3, <3>2, <4>3
    <3>3. i \in 1..Len(own) \/ i = Len(own) + 1
      BY <1>5
    <3> QED  BY <3>1, <3>2, <3>3
  <2>5. Parts(more, c, f) = Append(Parts(objs, c, f), p)
    BY <1>7, <2>1, <2>3, <2>4, SeqEqual
  <2> QED  BY <1>10, <2>5 DEF n, more, p
<1> QED  BY <1>9, <1>10

-----------------------------------------------------------------------------
(* The tokens of some kinds                                                  *)

\* The defining equation of what OfKinds computes with.
Keeps(text, kinds, n, f) ==
  f = [i \in 0..n |-> IF i = 0 THEN <<>>
                      ELSE IF text[i].kind \in kinds THEN Append(f[i - 1], text[i])
                      ELSE f[i - 1]]

\* What OfKinds computes with exists, and is the only such function.
LEMMA KeepsUnique ==
  ASSUME NEW text, NEW K, NEW n \in Nat, NEW f, NEW g, Keeps(text, K, n, f), Keeps(text, K, n, g)
  PROVE  f = g
<1> DEFINE T == {i \in Nat : i \in 0..n => f[i] = g[i]}
           K1(h, i) == IF text[i].kind \in K THEN Append(h[i - 1], text[i]) ELSE h[i - 1]
<1>1. /\ \A i \in 0..n : f[i] = IF i = 0 THEN <<>> ELSE K1(f, i)
      /\ \A i \in 0..n : g[i] = IF i = 0 THEN <<>> ELSE K1(g, i)
      /\ f = [i \in 0..n |-> f[i]] /\ g = [i \in 0..n |-> g[i]]
  BY DEF Keeps
<1>2. 0 \in T
  <2>1. 0 \in 0..n
    OBVIOUS
  <2> QED  BY <1>1, <2>1
<1>3. ASSUME NEW i \in Nat, i \in T PROVE i + 1 \in T
  <2> SUFFICES ASSUME i + 1 \in 0..n PROVE f[i + 1] = g[i + 1]
    OBVIOUS
  <2>1. i \in 0..n /\ i + 1 # 0 /\ (i + 1) - 1 = i
    OBVIOUS
  <2>2. f[i] = g[i]
    BY <1>3, <2>1
  <2>3. f[i + 1] = K1(f, i + 1) /\ g[i + 1] = K1(g, i + 1)
    BY <1>1, <2>1
  <2> QED  BY <2>1, <2>2, <2>3
<1> HIDE DEF T
<1>4. \A i \in Nat : i \in T
  BY <1>2, <1>3, NatInduct
<1>5. \A i \in 0..n : f[i] = g[i]
  BY <1>4 DEF T
<1> QED  BY <1>1, <1>5

LEMMA KeepsExists ==
  ASSUME NEW X, NEW text \in Seq(X), NEW K, NEW n \in 0..Len(text)
  PROVE  \E f \in [0..n -> Seq(X)] : Keeps(text, K, n, f)
<1> DEFINE T == {m \in Nat : m \in 0..Len(text) =>
                               \E f \in [0..m -> Seq(X)] : Keeps(text, K, m, f)}
<1>0. Len(text) \in Nat /\ \A i \in 1..Len(text) : text[i] \in X
  BY LenProperties, ElementOfSeq
<1>1. 0 \in T
  <2> DEFINE f == [i \in 0..0 |-> <<>>]
  <2>1. <<>> \in Seq(X)
    OBVIOUS
  <2>2. f \in [0..0 -> Seq(X)]
    BY <2>1
  <2>3. \A i \in 0..0 : i = 0
    OBVIOUS
  <2>4. Keeps(text, K, 0, f)
    BY <2>3 DEF Keeps
  <2> QED  BY <2>2, <2>4
<1>2. ASSUME NEW m \in Nat, m \in T PROVE m + 1 \in T
  <2> SUFFICES ASSUME m + 1 \in 0..Len(text)
               PROVE  \E f \in [0..(m + 1) -> Seq(X)] : Keeps(text, K, m + 1, f)
    OBVIOUS
  <2>1. m \in 0..Len(text) /\ m + 1 \in 1..Len(text)
    BY <1>0
  <2>2. PICK f \in [0..m -> Seq(X)] : Keeps(text, K, m, f)
    BY <1>2, <2>1
  <2> DEFINE last == IF text[m + 1].kind \in K THEN Append(f[m], text[m + 1]) ELSE f[m]
             g == [i \in 0..(m + 1) |-> IF i \in 0..m THEN f[i] ELSE last]
  <2>3. last \in Seq(X)
    <3>1. f[m] \in Seq(X) /\ text[m + 1] \in X
      BY <1>0, <2>1
    <3> QED  BY <3>1, AppendProperties
  <2>4. g \in [0..(m + 1) -> Seq(X)]
    BY <2>3
  <2>5. Keeps(text, K, m + 1, g)
    <3> SUFFICES ASSUME NEW i \in 0..(m + 1)
                 PROVE  g[i] = IF i = 0 THEN <<>>
                               ELSE IF text[i].kind \in K THEN Append(g[i - 1], text[i])
                               ELSE g[i - 1]
      BY DEF Keeps
    <3>1. CASE i \in 0..m
      <4>1. g[i] = f[i] /\ (i # 0 => i - 1 \in 0..m /\ g[i - 1] = f[i - 1])
        BY <3>1
      <4>2. f[i] = IF i = 0 THEN <<>>
                   ELSE IF text[i].kind \in K THEN Append(f[i - 1], text[i])
                   ELSE f[i - 1]
        BY <2>2, <3>1 DEF Keeps
      <4> QED  BY <4>1, <4>2
    <3>2. CASE i = m + 1
      <4>1. g[i] = last /\ i # 0 /\ i - 1 = m /\ g[m] = f[m]
        BY <3>2
      <4> QED  BY <3>2, <4>1
    <3> QED  BY <3>1, <3>2
  <2> QED  BY <2>4, <2>5
<1> HIDE DEF T
<1>3. \A m \in Nat : m \in T
  BY <1>1, <1>2, NatInduct
<1> QED  BY <1>0, <1>3 DEF T

\* So OfKinds can be computed with any function of that equation.
LEMMA OfKindsIs ==
  ASSUME NEW text, Len(text) \in Nat, NEW K, NEW f, Keeps(text, K, Len(text), f)
  PROVE  OfKinds(text, K) = f[Len(text)]
<1> DEFINE h == CHOOSE h : h = [i \in 0..Len(text) |->
                                 IF i = 0 THEN <<>>
                                 ELSE IF text[i].kind \in K THEN Append(h[i - 1], text[i])
                                 ELSE h[i - 1]]
<1>1. OfKinds(text, K) = h[Len(text)]
  BY DEF OfKinds
<1>2. f = [i \in 0..Len(text) |->
            IF i = 0 THEN <<>>
            ELSE IF text[i].kind \in K THEN Append(f[i - 1], text[i])
            ELSE f[i - 1]]
  BY DEF Keeps
<1>3. h = [i \in 0..Len(text) |->
            IF i = 0 THEN <<>>
            ELSE IF text[i].kind \in K THEN Append(h[i - 1], text[i])
            ELSE h[i - 1]]
  BY <1>2
<1> HIDE DEF h
<1>4. Keeps(text, K, Len(text), h)
  BY <1>3 DEF Keeps
<1> QED  BY <1>1, <1>4, KeepsUnique

\* The tokens of some kinds: of no text, and of a text with one more token.
LEMMA OfKindsFacts ==
  ASSUME NEW X, NEW text \in Seq(X), NEW K
  PROVE  /\ OfKinds(<<>>, K) = <<>>
         /\ OfKinds(text, K) \in Seq(X)
         /\ \A x \in X : OfKinds(Append(text, x), K) =
                           IF x.kind \in K THEN Append(OfKinds(text, K), x) ELSE OfKinds(text, K)
<1> DEFINE n == Len(text)
<1>0. n \in Nat
  BY LenProperties
<1>1. OfKinds(<<>>, K) = <<>>
  <2>1. Len(<<>>) = 0 /\ Len(<<>>) \in Nat /\ <<>> \in Seq(X) /\ 0 \in 0..Len(<<>>)
    OBVIOUS
  <2>2. PICK f \in [0..0 -> Seq(X)] : Keeps(<<>>, K, 0, f)
    BY <2>1, KeepsExists
  <2>3. OfKinds(<<>>, K) = f[0]
    BY <2>1, <2>2, OfKindsIs
  <2>4. f[0] = <<>>
    BY <2>2 DEF Keeps
  <2> QED  BY <2>3, <2>4
<1>2. PICK f \in [0..n -> Seq(X)] : Keeps(text, K, n, f)
  <2>1. n \in 0..Len(text)
    BY <1>0
  <2> QED  BY <2>1, KeepsExists
<1>3. OfKinds(text, K) = f[n] /\ f[n] \in Seq(X)
  BY <1>0, <1>2, OfKindsIs
<1>4. ASSUME NEW x \in X
      PROVE  OfKinds(Append(text, x), K) = IF x.kind \in K THEN Append(f[n], x) ELSE f[n]
  <2> DEFINE more == Append(text, x)
  <2>1. /\ more \in Seq(X) /\ Len(more) = n + 1
        /\ \A i \in 1..n : more[i] = text[i]
        /\ more[n + 1] = x
    BY AppendProperties
  <2> HIDE DEF more
  <2>2. n + 1 \in 0..Len(more) /\ Len(more) \in Nat
    BY <1>0, <2>1
  <2>3. PICK g \in [0..(n + 1) -> Seq(X)] : Keeps(more, K, n + 1, g)
    BY <2>1, <2>2, KeepsExists
  <2>4. OfKinds(more, K) = g[n + 1]
    BY <2>1, <2>2, <2>3, OfKindsIs
  <2>5. g[n + 1] = IF x.kind \in K THEN Append(g[n], x) ELSE g[n]
    <3>1. n + 1 \in 0..(n + 1) /\ (n + 1) - 1 = n /\ n + 1 # 0
      BY <1>0
    <3>2. g[n + 1] = IF n + 1 = 0 THEN <<>>
                     ELSE IF more[n + 1].kind \in K THEN Append(g[(n + 1) - 1], more[n + 1])
                     ELSE g[(n + 1) - 1]
      BY <2>3, <3>1 DEF Keeps
    <3> QED  BY <2>1, <3>1, <3>2
  <2>6. g[n] = f[n]
    <3> DEFINE k == [i \in 0..n |-> g[i]]
    <3>1. Keeps(text, K, n, k)
      <4> SUFFICES ASSUME NEW i \in 0..n
                   PROVE  k[i] = IF i = 0 THEN <<>>
                                 ELSE IF text[i].kind \in K THEN Append(k[i - 1], text[i])
                                 ELSE k[i - 1]
        BY DEF Keeps
      <4>1. /\ i \in 0..(n + 1) /\ k[i] = g[i]
            /\ i # 0 => k[i - 1] = g[i - 1] /\ more[i] = text[i]
        BY <1>0, <2>1
      <4>2. g[i] = IF i = 0 THEN <<>>
                   ELSE IF more[i].kind \in K THEN Append(g[i - 1], more[i])
                   ELSE g[i - 1]
        BY <2>3, <4>1 DEF Keeps
      <4> QED  BY <4>1, <4>2
    <3>2. k = f
      BY <1>0, <1>2, <3>1, KeepsUnique
    <3> QED  BY <1>0, <3>2
  <2> QED  BY <2>4, <2>5, <2>6 DEF more
<1> QED  BY <1>1, <1>3, <1>4

\* Each of them is of one of those kinds.
LEMMA OfKindsHave ==
  ASSUME NEW X, NEW text \in Seq(X), NEW K
  PROVE  OfKinds(text, K) \in Seq({x \in X : x.kind \in K})
<1> DEFINE n == Len(text)
           Y == {x \in X : x.kind \in K}
<1>0. n \in Nat /\ \A i \in 1..n : text[i] \in X
  BY LenProperties, ElementOfSeq
<1>1. PICK f \in [0..n -> Seq(X)] : Keeps(text, K, n, f)
  <2>1. n \in 0..Len(text)
    BY <1>0
  <2> QED  BY <2>1, KeepsExists
<1>2. OfKinds(text, K) = f[n]
  BY <1>0, <1>1, OfKindsIs
<1> DEFINE T == {m \in Nat : m \in 0..n => f[m] \in Seq(Y)}
<1>3. 0 \in T
  <2>1. 0 \in 0..n /\ <<>> \in Seq(Y)
    BY <1>0
  <2>2. f[0] = <<>>
    BY <1>1, <2>1 DEF Keeps
  <2> QED  BY <2>1, <2>2
<1>4. ASSUME NEW m \in Nat, m \in T PROVE m + 1 \in T
  <2> SUFFICES ASSUME m + 1 \in 0..n PROVE f[m + 1] \in Seq(Y)
    OBVIOUS
  <2>1. m \in 0..n /\ m + 1 \in 1..n /\ (m + 1) - 1 = m /\ m + 1 # 0
    BY <1>0
  <2>2. f[m] \in Seq(Y) /\ text[m + 1] \in X
    BY <1>0, <1>4, <2>1
  <2>3. f[m + 1] = IF m + 1 = 0 THEN <<>>
                   ELSE IF text[m + 1].kind \in K THEN Append(f[(m + 1) - 1], text[m + 1])
                   ELSE f[(m + 1) - 1]
    BY <1>1, <2>1 DEF Keeps
  <2>4. CASE text[m + 1].kind \in K
    <3>1. text[m + 1] \in Y
      BY <2>2, <2>4
    <3> HIDE DEF Y
    <3>2. Append(f[m], text[m + 1]) \in Seq(Y)
      BY <2>2, <3>1, AppendProperties
    <3> QED  BY <2>1, <2>3, <2>4, <3>2
  <2>5. CASE text[m + 1].kind \notin K
    BY <2>1, <2>2, <2>3, <2>5
  <2> QED  BY <2>4, <2>5
<1> HIDE DEF T
<1>5. \A m \in Nat : m \in T
  BY <1>3, <1>4, NatInduct
<1> QED  BY <1>0, <1>2, <1>5 DEF T

\* A text after another.
LEMMA OfKindsConcat ==
  \A X, K : \A s, t \in Seq(X) : OfKinds(s \o t, K) = OfKinds(s, K) \o OfKinds(t, K)
<1> SUFFICES ASSUME NEW X, NEW K, NEW s \in Seq(X), NEW t \in Seq(X)
             PROVE  OfKinds(s \o t, K) = OfKinds(s, K) \o OfKinds(t, K)
  OBVIOUS
<1> DEFINE T == {n \in Nat : \A u \in Seq(X) : Len(u) = n =>
                               OfKinds(s \o u, K) = OfKinds(s, K) \o OfKinds(u, K)}
<1>1. 0 \in T
  <2> SUFFICES ASSUME NEW u \in Seq(X), Len(u) = 0
               PROVE  OfKinds(s \o u, K) = OfKinds(s, K) \o OfKinds(u, K)
    OBVIOUS
  <2>1. u = <<>>
    BY EmptySeq
  <2>2. s \o u = s /\ OfKinds(u, K) = <<>>
    BY <2>1, ConcatEmptySeq, OfKindsFacts
  <2>3. OfKinds(s, K) \in Seq(X)
    BY OfKindsFacts
  <2>4. OfKinds(s, K) \o <<>> = OfKinds(s, K)
    BY <2>3, ConcatEmptySeq
  <2> QED  BY <2>2, <2>4
<1>2. ASSUME NEW n \in Nat, n \in T PROVE n + 1 \in T
  <2> SUFFICES ASSUME NEW u \in Seq(X), Len(u) = n + 1
               PROVE  OfKinds(s \o u, K) = OfKinds(s, K) \o OfKinds(u, K)
    OBVIOUS
  <2>1. u # <<>>
    <3>1. Len(<<>>) = 0
      OBVIOUS
    <3> QED  BY <3>1
  <2>2. PICK v \in Seq(X), x \in X : u = Append(v, x)
    BY <2>1, SequenceEmptyOrAppend
  <2>3. Len(v) = n
    <3>1. Len(u) = Len(v) + 1 /\ Len(v) \in Nat
      BY <2>2, AppendProperties, LenProperties
    <3> QED  BY <3>1
  <2>4. OfKinds(s \o v, K) = OfKinds(s, K) \o OfKinds(v, K)
    BY <1>2, <2>3
  <2>5. \A y \in Seq(X) : s \o Append(y, x) = Append(s \o y, x)
    <3> SUFFICES ASSUME NEW y \in Seq(X) PROVE s \o Append(y, x) = Append(s \o y, x)
      OBVIOUS
    <3> QED  BY <2>2, AppendIsConcat, ConcatAssociative, ConcatProperties
  <2>6. OfKinds(s, K) \in Seq(X) /\ OfKinds(v, K) \in Seq(X) /\ s \o v \in Seq(X)
    BY OfKindsFacts, ConcatProperties
  <2>7. OfKinds(s, K) \o Append(OfKinds(v, K), x) = Append(OfKinds(s, K) \o OfKinds(v, K), x)
    <3>1. \A a, b \in Seq(X) : a \o Append(b, x) = Append(a \o b, x)
      <4> SUFFICES ASSUME NEW a \in Seq(X), NEW b \in Seq(X)
                   PROVE  a \o Append(b, x) = Append(a \o b, x)
        OBVIOUS
      <4> QED  BY <2>2, AppendIsConcat, ConcatAssociative, ConcatProperties, SMTT(60)
    <3> QED  BY <2>6, <3>1
  <2>8. /\ OfKinds(s \o u, K) = IF x.kind \in K THEN Append(OfKinds(s \o v, K), x)
                                ELSE OfKinds(s \o v, K)
        /\ OfKinds(u, K) = IF x.kind \in K THEN Append(OfKinds(v, K), x) ELSE OfKinds(v, K)
    <3>1. s \o u = Append(s \o v, x) /\ u = Append(v, x)
      BY <2>2, <2>5
    <3>2. OfKinds(Append(s \o v, x), K) = IF x.kind \in K THEN Append(OfKinds(s \o v, K), x)
                                          ELSE OfKinds(s \o v, K)
      <4>1. \A y \in Seq(X) : OfKinds(Append(y, x), K) = IF x.kind \in K THEN Append(OfKinds(y, K), x)
                                                         ELSE OfKinds(y, K)
        BY <2>2, OfKindsFacts
      <4> QED  BY <2>6, <4>1, Zenon
    <3>3. OfKinds(Append(v, x), K) = IF x.kind \in K THEN Append(OfKinds(v, K), x)
                                     ELSE OfKinds(v, K)
      BY <2>2, OfKindsFacts
    <3> QED  BY <3>1, <3>2, <3>3
  <2> QED  BY <2>4, <2>7, <2>8
<1> HIDE DEF T
<1>3. \A n \in Nat : n \in T
  BY <1>1, <1>2, NatInduct
<1> QED  BY <1>3, LenProperties DEF T

\* A token, and texts that are all kept or all left out.
LEMMA OfKindsOne ==
  ASSUME NEW X, NEW x \in X, NEW K
  PROVE  OfKinds(<<x>>, K) = IF x.kind \in K THEN <<x>> ELSE <<>>
<1>1. <<>> \in Seq(X) /\ Append(<<>>, x) = <<x>>
  OBVIOUS
<1>2. /\ OfKinds(<<>>, K) = <<>>
      /\ OfKinds(Append(<<>>, x), K) =
           IF x.kind \in K THEN Append(OfKinds(<<>>, K), x) ELSE OfKinds(<<>>, K)
  <2>1. \A y \in Seq(X) : OfKinds(<<>>, K) = <<>> /\ OfKinds(Append(y, x), K) =
          IF x.kind \in K THEN Append(OfKinds(y, K), x) ELSE OfKinds(y, K)
    BY OfKindsFacts
  <2> QED  BY <1>1, <2>1, Zenon
<1> QED  BY <1>1, <1>2

\* What is said of the last text or token is said of all.
LEMMA FlattenOfKinds ==
  ASSUME NEW X, NEW seqs \in Seq(Seq(X)), NEW K, NEW xs \in Seq(X), Len(xs) = Len(seqs),
         \A i \in 1..Len(seqs) : OfKinds(seqs[i], K) = <<xs[i]>>
  PROVE  OfKinds(FlattenSeq(seqs), K) = xs
<1> DEFINE Fine(ss, ys) == Len(ys) = Len(ss)
                           /\ \A i \in 1..Len(ss) : OfKinds(ss[i], K) = <<ys[i]>>
           T == {n \in Nat : \A ss \in Seq(Seq(X)), ys \in Seq(X) :
                               Len(ss) = n /\ Fine(ss, ys) => OfKinds(FlattenSeq(ss), K) = ys}
<1>1. 0 \in T
  <2> SUFFICES ASSUME NEW ss \in Seq(Seq(X)), NEW ys \in Seq(X), Len(ss) = 0, Len(ys) = 0
               PROVE  OfKinds(FlattenSeq(ss), K) = ys
    OBVIOUS
  <2>1. ss = <<>> /\ ys = <<>>
    BY EmptySeq
  <2>2. OfKinds(<<>>, K) = <<>>
    <3>1. <<>> \in Seq(X)
      OBVIOUS
    <3> QED  BY <3>1, OfKindsFacts
  <2>3. FlattenSeq(<<>>) = <<>>
    BY FlattenFacts
  <2>4. OfKinds(FlattenSeq(ss), K) = <<>>
    BY <2>1, <2>2, <2>3, Zenon
  <2> QED  BY <2>1, <2>4
<1>2. ASSUME NEW n \in Nat, n \in T PROVE n + 1 \in T
  <2> SUFFICES ASSUME NEW ss \in Seq(Seq(X)), NEW ys \in Seq(X), Len(ss) = n + 1, Fine(ss, ys)
               PROVE  OfKinds(FlattenSeq(ss), K) = ys
    OBVIOUS
  <2>1. ss # <<>> /\ ys # <<>> /\ Len(ys) = n + 1
    <3>1. Len(<<>>) = 0
      OBVIOUS
    <3> QED  BY <3>1
  <2>2. PICK s2 \in Seq(Seq(X)), p \in Seq(X) : ss = Append(s2, p)
    BY <2>1, SequenceEmptyOrAppend, ZenonT(60)
  <2>3. PICK y2 \in Seq(X), y \in X : ys = Append(y2, y)
    BY <2>1, SequenceEmptyOrAppend, ZenonT(60)
  <2>4. /\ Len(s2) = n /\ \A i \in 1..n : ss[i] = s2[i]
        /\ ss[n + 1] = p
    <3>1. Len(ss) = Len(s2) + 1 /\ Len(s2) \in Nat
      BY <2>2, AppendProperties, LenProperties
    <3>2. Len(s2) = n
      BY <3>1
    <3> QED  BY <2>2, <3>2, AppendProperties
  <2>5. /\ Len(y2) = n /\ \A i \in 1..n : ys[i] = y2[i]
        /\ ys[n + 1] = y
    <3>1. Len(ys) = Len(y2) + 1 /\ Len(y2) \in Nat
      BY <2>3, AppendProperties, LenProperties
    <3>2. Len(y2) = n
      BY <2>1, <3>1
    <3> QED  BY <2>3, <3>2, AppendProperties
  <2>6. OfKinds(FlattenSeq(s2), K) = y2
    <3>1. \A i \in 1..n : i \in 1..(n + 1)
      OBVIOUS
    <3>2. Fine(s2, y2)
      BY <2>4, <2>5, <3>1
    <3> QED  BY <1>2, <2>4, <3>2
  <2>7. OfKinds(p, K) = <<y>>
    <3>1. n + 1 \in 1..Len(ss)
      OBVIOUS
    <3> QED  BY <2>4, <2>5, <3>1
  <2>8. FlattenSeq(ss) = FlattenSeq(s2) \o p /\ FlattenSeq(s2) \in Seq(X)
    BY <2>2, FlattenFacts
  <2>9. OfKinds(FlattenSeq(ss), K) = y2 \o <<y>>
    <3>1. OfKinds(FlattenSeq(s2) \o p, K) = OfKinds(FlattenSeq(s2), K) \o OfKinds(p, K)
      BY <2>8, OfKindsConcat, Zenon
    <3> QED  BY <2>6, <2>7, <2>8, <3>1, Zenon
  <2> QED  BY <2>3, <2>9, AppendIsConcat
<1> HIDE DEF T
<1>3. \A n \in Nat : n \in T
  BY <1>1, <1>2, NatInduct
<1> QED  BY <1>3, LenProperties DEF T

\* Texts that have no such token have none together.
LEMMA FlattenNone ==
  ASSUME NEW X, NEW seqs \in Seq(Seq(X)), NEW K,
         \A i \in 1..Len(seqs) : OfKinds(seqs[i], K) = <<>>
  PROVE  OfKinds(FlattenSeq(seqs), K) = <<>>
<1> DEFINE Fine(ss) == \A i \in 1..Len(ss) : OfKinds(ss[i], K) = <<>>
           T == {n \in Nat : \A ss \in Seq(Seq(X)) :
                               Len(ss) = n /\ Fine(ss) => OfKinds(FlattenSeq(ss), K) = <<>>}
<1>1. 0 \in T
  <2> SUFFICES ASSUME NEW ss \in Seq(Seq(X)), Len(ss) = 0
               PROVE  OfKinds(FlattenSeq(ss), K) = <<>>
    OBVIOUS
  <2>1. ss = <<>>
    BY EmptySeq
  <2>2. OfKinds(<<>>, K) = <<>>
    <3>1. <<>> \in Seq(X)
      OBVIOUS
    <3> QED  BY <3>1, OfKindsFacts
  <2>3. FlattenSeq(<<>>) = <<>>
    BY FlattenFacts
  <2>4. OfKinds(FlattenSeq(ss), K) = <<>>
    BY <2>1, <2>2, <2>3, Zenon
  <2> QED  BY <2>1, <2>4
<1>2. ASSUME NEW n \in Nat, n \in T PROVE n + 1 \in T
  <2> SUFFICES ASSUME NEW ss \in Seq(Seq(X)), Len(ss) = n + 1, Fine(ss)
               PROVE  OfKinds(FlattenSeq(ss), K) = <<>>
    OBVIOUS
  <2>1. ss # <<>>
    <3>1. Len(<<>>) = 0
      OBVIOUS
    <3> QED  BY <3>1
  <2>2. PICK s2 \in Seq(Seq(X)), p \in Seq(X) : ss = Append(s2, p)
    BY <2>1, SequenceEmptyOrAppend
  <2>4. /\ Len(s2) = n /\ \A i \in 1..n : ss[i] = s2[i]
        /\ ss[n + 1] = p
    <3>1. Len(ss) = Len(s2) + 1 /\ Len(s2) \in Nat
      BY <2>2, AppendProperties, LenProperties
    <3>2. Len(s2) = n
      BY <3>1
    <3> QED  BY <2>2, <3>2, AppendProperties
  <2>6. OfKinds(FlattenSeq(s2), K) = <<>>
    <3>1. \A i \in 1..n : i \in 1..(n + 1)
      OBVIOUS
    <3>2. Fine(s2)
      BY <2>4, <3>1
    <3> QED  BY <1>2, <2>4, <3>2
  <2>7. OfKinds(p, K) = <<>>
    <3>1. n + 1 \in 1..Len(ss)
      OBVIOUS
    <3> QED  BY <2>4, <3>1
  <2>8. FlattenSeq(ss) = FlattenSeq(s2) \o p /\ FlattenSeq(s2) \in Seq(X)
    BY <2>2, FlattenFacts
  <2>9. OfKinds(FlattenSeq(ss), K) = <<>> \o <<>>
    BY <2>6, <2>7, <2>8, OfKindsConcat
  <2> QED  BY <2>9
<1> HIDE DEF T
<1>3. \A n \in Nat : n \in T
  BY <1>1, <1>2, NatInduct
<1> QED  BY <1>3, LenProperties DEF T

\* A text that has only such tokens is kept.
LEMMA OfKindsAll ==
  ASSUME NEW X, NEW text \in Seq(X), NEW K, \A i \in 1..Len(text) : text[i].kind \in K
  PROVE  OfKinds(text, K) = text
<1> DEFINE Fine(t) == \A i \in 1..Len(t) : t[i].kind \in K
           T == {n \in Nat : \A t \in Seq(X) : Len(t) = n /\ Fine(t) => OfKinds(t, K) = t}
<1>1. 0 \in T
  <2> SUFFICES ASSUME NEW t \in Seq(X), Len(t) = 0
               PROVE  OfKinds(t, K) = t
    OBVIOUS
  <2>1. t = <<>>
    BY EmptySeq
  <2>2. \A s \in Seq(X) : OfKinds(<<>>, K) = <<>>
    BY OfKindsFacts
  <2> QED  BY <2>1, <2>2
<1>2. ASSUME NEW n \in Nat, n \in T PROVE n + 1 \in T
  <2> SUFFICES ASSUME NEW t \in Seq(X), Len(t) = n + 1, Fine(t)
               PROVE  OfKinds(t, K) = t
    OBVIOUS
  <2>1. t # <<>>
    <3>1. Len(<<>>) = 0
      OBVIOUS
    <3> QED  BY <3>1
  <2>2. PICK s \in Seq(X), x \in X : t = Append(s, x)
    BY <2>1, SequenceEmptyOrAppend
  <2>4. /\ Len(s) = n /\ \A i \in 1..n : t[i] = s[i]
        /\ t[n + 1] = x
    <3>1. Len(t) = Len(s) + 1 /\ Len(s) \in Nat
      BY <2>2, AppendProperties, LenProperties
    <3>2. Len(s) = n
      BY <3>1
    <3> QED  BY <2>2, <3>2, AppendProperties
  <2>6. OfKinds(s, K) = s
    <3>1. \A i \in 1..n : i \in 1..(n + 1)
      OBVIOUS
    <3>2. Fine(s)
      BY <2>4, <3>1
    <3> QED  BY <1>2, <2>4, <3>2
  <2>7. x.kind \in K
    <3>1. n + 1 \in 1..Len(t)
      OBVIOUS
    <3> QED  BY <2>4, <3>1
  <2> QED  BY <2>2, <2>6, <2>7, OfKindsFacts
<1> HIDE DEF T
<1>3. \A n \in Nat : n \in T
  BY <1>1, <1>2, NatInduct
<1> QED  BY <1>3, LenProperties DEF T

\* The text of the first texts.
Upto(seqs, k) == FlattenSeq(SubSeq(seqs, 1, k))

\* The text of one more part.
LEMMA UptoFacts ==
  ASSUME NEW X, NEW seqs \in Seq(Seq(X))
  PROVE  /\ Len(seqs) \in Nat
         /\ Upto(seqs, 0) = <<>> /\ Upto(seqs, Len(seqs)) = FlattenSeq(seqs)
         /\ \A k \in 0..Len(seqs) : Upto(seqs, k) \in Seq(X) /\ Len(Upto(seqs, k)) \in Nat
         /\ \A k \in 0..(Len(seqs) - 1) :
              /\ seqs[k + 1] \in Seq(X) /\ Len(seqs[k + 1]) \in Nat
              /\ Upto(seqs, k + 1) = Upto(seqs, k) \o seqs[k + 1]
              /\ Len(Upto(seqs, k + 1)) = Len(Upto(seqs, k)) + Len(seqs[k + 1])
<1> DEFINE n == Len(seqs)
<1>0. n \in Nat /\ \A i \in 1..n : seqs[i] \in Seq(X)
  BY LenProperties, ElementOfSeq
<1>1. Upto(seqs, 0) = <<>>
  <2>1. SubSeq(seqs, 1, 0) = <<>>
    BY SubSeqEmpty
  <2>2. FlattenSeq(<<>>) = <<>>
    BY FlattenFacts
  <2> QED  BY <2>1, <2>2 DEF Upto
<1>2. Upto(seqs, n) = FlattenSeq(seqs)
  BY SubSeqFull DEF Upto
<1>3. ASSUME NEW k \in 0..n
      PROVE  SubSeq(seqs, 1, k) \in Seq(Seq(X)) /\ Upto(seqs, k) \in Seq(X) /\ Len(Upto(seqs, k)) \in Nat
  <2>1. \A i \in 1..k : seqs[i] \in Seq(X)
    BY <1>0
  <2>2. SubSeq(seqs, 1, k) \in Seq(Seq(X))
    BY <2>1, SubSeqProperties
  <2>3. FlattenSeq(SubSeq(seqs, 1, k)) \in Seq(X)
    BY <2>2, FlattenFacts
  <2> QED  BY <2>2, <2>3, LenProperties DEF Upto
<1>4. ASSUME NEW k \in 0..(n - 1)
      PROVE  /\ seqs[k + 1] \in Seq(X) /\ Len(seqs[k + 1]) \in Nat
             /\ Upto(seqs, k + 1) = Upto(seqs, k) \o seqs[k + 1]
             /\ Len(Upto(seqs, k + 1)) = Len(Upto(seqs, k)) + Len(seqs[k + 1])
  <2>1. k + 1 \in 1..n /\ k \in 0..n /\ (k + 1) - 1 = k /\ 1 \in 1..n /\ k + 1 \in 1..Len(seqs)
    BY <1>0
  <2>2. seqs[k + 1] \in Seq(X) /\ Len(seqs[k + 1]) \in Nat
    BY <1>0, <2>1, LenProperties
  <2>3. SubSeq(seqs, 1, k + 1) = SubSeq(seqs, 1, (k + 1) - 1) \o <<seqs[k + 1]>>
    BY <2>1, SubSeqRecursiveSecond
  <2>4. SubSeq(seqs, 1, k + 1) = Append(SubSeq(seqs, 1, k), seqs[k + 1])
    <3>1. SubSeq(seqs, 1, k) \in Seq(Seq(X))
      BY <1>3, <2>1
    <3>2. Append(SubSeq(seqs, 1, k), seqs[k + 1]) = SubSeq(seqs, 1, k) \o <<seqs[k + 1]>>
      BY <2>2, <3>1, AppendIsConcat
    <3> QED  BY <2>1, <2>3, <3>2
  <2>5. FlattenSeq(Append(SubSeq(seqs, 1, k), seqs[k + 1])) = FlattenSeq(SubSeq(seqs, 1, k)) \o seqs[k + 1]
    <3>1. SubSeq(seqs, 1, k) \in Seq(Seq(X))
      BY <1>3, <2>1
    <3>2. \A ss \in Seq(Seq(X)), p \in Seq(X) : FlattenSeq(Append(ss, p)) = FlattenSeq(ss) \o p
      BY FlattenFacts
    <3> QED  BY <2>2, <3>1, <3>2, Zenon
  <2>6. Upto(seqs, k + 1) = Upto(seqs, k) \o seqs[k + 1]
    BY <2>4, <2>5 DEF Upto
  <2>7. Upto(seqs, k) \in Seq(X)
    BY <1>3, <2>1
  <2>8. Len(Upto(seqs, k) \o seqs[k + 1]) = Len(Upto(seqs, k)) + Len(seqs[k + 1])
    BY <2>2, <2>7, ConcatProperties
  <2> QED  BY <2>2, <2>6, <2>8
<1> QED  BY <1>0, <1>1, <1>2, <1>3, <1>4

\* Where a part is in the text of all.
LEMMA FlattenAt ==
  ASSUME NEW X, NEW seqs \in Seq(Seq(X)), NEW k \in 0..(Len(seqs) - 1)
  PROVE  /\ \A j \in 1..Len(seqs[k + 1]) :
              FlattenSeq(seqs)[Len(Upto(seqs, k)) + j] = seqs[k + 1][j]
         /\ Len(Upto(seqs, k)) + Len(seqs[k + 1]) <= Len(FlattenSeq(seqs))
<1> DEFINE n == Len(seqs)
           u(i) == Upto(seqs, i)
           T == {d \in Nat : k + 1 + d <= n =>
                   /\ Len(u(k + 1)) <= Len(u(k + 1 + d))
                   /\ \A j \in 1..Len(u(k + 1)) : u(k + 1 + d)[j] = u(k + 1)[j]}
<1>0. /\ n \in Nat /\ u(n) = FlattenSeq(seqs)
      /\ \A i \in 0..n : u(i) \in Seq(X) /\ Len(u(i)) \in Nat
      /\ \A i \in 0..(n - 1) :
           /\ seqs[i + 1] \in Seq(X) /\ Len(seqs[i + 1]) \in Nat
           /\ u(i + 1) = u(i) \o seqs[i + 1]
           /\ Len(u(i + 1)) = Len(u(i)) + Len(seqs[i + 1])
  BY UptoFacts
<1>1. k \in Nat /\ k + 1 <= n
  BY <1>0
<1> HIDE DEF u
<1>2. 0 \in T
  <2>1. k + 1 + 0 = k + 1 /\ k + 1 \in 0..n
    BY <1>0, <1>1
  <2>2. Len(u(k + 1)) \in Nat
    BY <1>0, <2>1
  <2> QED  BY <2>1, <2>2
<1>3. ASSUME NEW d \in Nat, d \in T PROVE d + 1 \in T
  <2> SUFFICES ASSUME k + 1 + (d + 1) <= n
               PROVE  /\ Len(u(k + 1)) <= Len(u(k + 1 + (d + 1)))
                      /\ \A j \in 1..Len(u(k + 1)) : u(k + 1 + (d + 1))[j] = u(k + 1)[j]
    OBVIOUS
  <2> DEFINE m == k + 1 + d
  <2>1. m \in 0..(n - 1) /\ m \in 0..n /\ k + 1 + (d + 1) = m + 1 /\ m <= n /\ k + 1 \in 0..n
    BY <1>0, <1>1
  <2>2. Len(u(k + 1)) <= Len(u(m)) /\ \A j \in 1..Len(u(k + 1)) : u(m)[j] = u(k + 1)[j]
    BY <1>3, <2>1
  <2> HIDE DEF m
  <2>3. /\ u(m + 1) = u(m) \o seqs[m + 1] /\ u(m) \in Seq(X) /\ seqs[m + 1] \in Seq(X)
        /\ Len(u(m + 1)) = Len(u(m)) + Len(seqs[m + 1])
        /\ Len(u(m)) \in Nat /\ Len(seqs[m + 1]) \in Nat /\ Len(u(k + 1)) \in Nat
    BY <1>0, <2>1
  <2>4. \A j \in 1..Len(u(m)) : u(m + 1)[j] = u(m)[j]
    <3>1. \A j \in 1..(Len(u(m)) + Len(seqs[m + 1])) :
            (u(m) \o seqs[m + 1])[j] = IF j <= Len(u(m)) THEN u(m)[j] ELSE seqs[m + 1][j - Len(u(m))]
      BY <2>3, ConcatProperties
    <3> QED  BY <2>3, <3>1
  <2>5. \A j \in 1..Len(u(k + 1)) : j \in 1..Len(u(m))
    BY <2>2, <2>3
  <2>6. Len(u(k + 1)) <= Len(u(m + 1))
    BY <2>2, <2>3
  <2>7. \A j \in 1..Len(u(k + 1)) : u(m + 1)[j] = u(k + 1)[j]
    BY <2>2, <2>4, <2>5
  <2> QED  BY <2>1, <2>6, <2>7
<1> HIDE DEF T
<1>4. \A d \in Nat : d \in T
  BY <1>2, <1>3, NatInduct
<1>5. /\ Len(u(k + 1)) <= Len(FlattenSeq(seqs))
      /\ \A j \in 1..Len(u(k + 1)) : FlattenSeq(seqs)[j] = u(k + 1)[j]
  <2>1. n - (k + 1) \in Nat /\ k + 1 + (n - (k + 1)) = n /\ n <= n
    BY <1>0, <1>1
  <2>2. n - (k + 1) \in T
    BY <1>4, <2>1
  <2>3. /\ Len(u(k + 1)) <= Len(u(n))
        /\ \A j \in 1..Len(u(k + 1)) : u(n)[j] = u(k + 1)[j]
    BY <2>1, <2>2 DEF T
  <2> QED  BY <1>0, <2>3
<1>6. /\ u(k + 1) = u(k) \o seqs[k + 1] /\ u(k) \in Seq(X) /\ seqs[k + 1] \in Seq(X)
      /\ Len(u(k + 1)) = Len(u(k)) + Len(seqs[k + 1])
      /\ Len(u(k)) \in Nat /\ Len(seqs[k + 1]) \in Nat
  <2>1. k \in 0..n /\ k \in 0..(n - 1)
    BY <1>0
  <2> QED  BY <1>0, <2>1
<1>7. ASSUME NEW j \in 1..Len(seqs[k + 1])
      PROVE  FlattenSeq(seqs)[Len(u(k)) + j] = seqs[k + 1][j]
  <2>1. /\ Len(u(k)) + j \in 1..Len(u(k + 1)) /\ Len(u(k)) + j \in 1..(Len(u(k)) + Len(seqs[k + 1]))
        /\ ~(Len(u(k)) + j <= Len(u(k))) /\ (Len(u(k)) + j) - Len(u(k)) = j
    BY <1>6
  <2>2. \A i \in 1..(Len(u(k)) + Len(seqs[k + 1])) :
          (u(k) \o seqs[k + 1])[i] = IF i <= Len(u(k)) THEN u(k)[i] ELSE seqs[k + 1][i - Len(u(k))]
    BY <1>6, ConcatProperties
  <2>3. u(k + 1)[Len(u(k)) + j] = seqs[k + 1][j]
    BY <1>6, <2>1, <2>2
  <2> QED  BY <1>5, <2>1, <2>3
<1> QED  BY <1>5, <1>6, <1>7 DEF u

\* Where a token is in a text whose parts have three each.
LEMMA Triples ==
  ASSUME NEW X, NEW g \in Seq(Seq(X)), \A i \in 1..Len(g) : Len(g[i]) = 3
  PROVE  /\ FlattenSeq(g) \in Seq(X) /\ Len(FlattenSeq(g)) = 3 * Len(g) /\ Len(g) \in Nat
         /\ \A i \in 1..Len(g), d \in 1..3 : FlattenSeq(g)[3 * (i - 1) + d] = g[i][d]
<1> DEFINE T == {k \in Nat : k <= Len(g) => Len(Upto(g, k)) = 3 * k}
<1>0. /\ Len(g) \in Nat /\ Upto(g, 0) = <<>> /\ Upto(g, Len(g)) = FlattenSeq(g)
      /\ FlattenSeq(g) \in Seq(X)
      /\ \A k \in 0..(Len(g) - 1) : Len(Upto(g, k + 1)) = Len(Upto(g, k)) + Len(g[k + 1])
  BY UptoFacts, FlattenFacts
<1>1. 0 \in T
  BY <1>0
<1>2. ASSUME NEW k \in Nat, k \in T PROVE k + 1 \in T
  <2> SUFFICES ASSUME k + 1 <= Len(g) PROVE Len(Upto(g, k + 1)) = 3 * (k + 1)
    OBVIOUS
  <2>1. k \in 0..(Len(g) - 1) /\ k + 1 \in 1..Len(g) /\ k <= Len(g)
    BY <1>0
  <2>2. Len(Upto(g, k)) = 3 * k
    BY <1>2, <2>1
  <2>3. Len(Upto(g, k + 1)) = 3 * k + 3
    BY <1>0, <2>1, <2>2
  <2> QED  BY <2>3
<1> HIDE DEF T
<1>3. \A k \in Nat : k \in T
  BY <1>1, <1>2, NatInduct
<1>4. \A k \in 0..Len(g) : Len(Upto(g, k)) = 3 * k
  BY <1>0, <1>3 DEF T
<1>5. Len(FlattenSeq(g)) = 3 * Len(g)
  BY <1>0, <1>4
<1>6. ASSUME NEW i \in 1..Len(g), NEW d \in 1..3 PROVE FlattenSeq(g)[3 * (i - 1) + d] = g[i][d]
  <2>1. i - 1 \in 0..(Len(g) - 1) /\ (i - 1) + 1 = i /\ i - 1 \in 0..Len(g)
    BY <1>0
  <2>2. \A j \in 1..Len(g[(i - 1) + 1]) :
          FlattenSeq(g)[Len(Upto(g, i - 1)) + j] = g[(i - 1) + 1][j]
    BY <2>1, FlattenAt
  <2>3. Len(Upto(g, i - 1)) = 3 * (i - 1)
    BY <1>4, <2>1
  <2> QED  BY <2>1, <2>2, <2>3
<1> QED  BY <1>0, <1>5, <1>6

\* What is kept when one more token comes.
Keep(text, x, kinds) == IF x.kind \in kinds THEN Append(text, x) ELSE text

\* What is kept of five tokens, and of three.
LEMMA OfKindsFive ==
  ASSUME NEW X, NEW K, NEW a \in X, NEW b \in X, NEW c \in X, NEW d \in X, NEW e \in X
  PROVE  OfKinds(<<a, b, c, d, e>>, K) =
           Keep(Keep(Keep(Keep(Keep(<<>>, a, K), b, K), c, K), d, K), e, K)
<1>1. /\ <<a>> \in Seq(X) /\ <<a, b>> \in Seq(X) /\ <<a, b, c>> \in Seq(X)
      /\ <<a, b, c, d>> \in Seq(X) /\ <<>> \in Seq(X)
  OBVIOUS
<1>2. /\ <<a>> = Append(<<>>, a) /\ <<a, b>> = Append(<<a>>, b)
      /\ <<a, b, c>> = Append(<<a, b>>, c) /\ <<a, b, c, d>> = Append(<<a, b, c>>, d)
      /\ <<a, b, c, d, e>> = Append(<<a, b, c, d>>, e)
  OBVIOUS
<1>3. \A s \in Seq(X), x \in X : OfKinds(Append(s, x), K) = Keep(OfKinds(s, K), x, K)
  BY OfKindsFacts DEF Keep
<1>4. OfKinds(<<>>, K) = <<>>
  BY <1>1, OfKindsFacts
<1> QED  BY <1>1, <1>2, <1>3, <1>4, ZenonT(60)

LEMMA OfKindsThree ==
  ASSUME NEW X, NEW K, NEW a \in X, NEW b \in X, NEW c \in X
  PROVE  OfKinds(<<a, b, c>>, K) = Keep(Keep(Keep(<<>>, a, K), b, K), c, K)
<1>1. /\ <<a>> \in Seq(X) /\ <<a, b>> \in Seq(X) /\ <<>> \in Seq(X)
  OBVIOUS
<1>2. /\ <<a>> = Append(<<>>, a) /\ <<a, b>> = Append(<<a>>, b)
      /\ <<a, b, c>> = Append(<<a, b>>, c)
  OBVIOUS
<1>3. \A s \in Seq(X), x \in X : OfKinds(Append(s, x), K) = Keep(OfKinds(s, K), x, K)
  BY OfKindsFacts DEF Keep
<1>4. OfKinds(<<>>, K) = <<>>
  BY <1>1, OfKindsFacts
<1> QED  BY <1>1, <1>2, <1>3, <1>4, Zenon

-----------------------------------------------------------------------------
(* Other facts                                                               *)

\* The lower one of two numbers.
LEMMA MinIs ==
  ASSUME NEW a \in Nat, NEW b \in Nat
  PROVE  Min({a, b}) = (IF a <= b THEN a ELSE b)
<1>1. \E x \in {a, b} : \A y \in {a, b} : x <= y
  OBVIOUS
<1>2. Min({a, b}) \in {a, b} /\ \A y \in {a, b} : Min({a, b}) <= y
  BY <1>1 DEF Min
<1> QED  BY <1>2

\* A finite set as a sequence.
LEMMA SetToSeqFacts ==
  ASSUME NEW S, IsFiniteSet(S)
  PROVE  /\ SetToSeq(S) \in Seq(S) /\ Len(SetToSeq(S)) = Cardinality(S)
         /\ Cardinality(S) \in Nat
         /\ \A i, j \in 1..Cardinality(S) : SetToSeq(S)[i] = SetToSeq(S)[j] => i = j
<1>1. Cardinality(S) \in Nat
  BY FS_CardinalityType
<1>2. \E f \in [1..Cardinality(S) -> S] : IsInjective(f)
  <2>1. ExistsBijection(1..Cardinality(S), S)
    BY FS_CardinalityType
  <2>2. PICK f \in Bijection(1..Cardinality(S), S) : TRUE
    BY <2>1 DEF ExistsBijection
  <2> QED  BY <2>2 DEF Bijection, Injection
<1>3. SetToSeq(S) \in [1..Cardinality(S) -> S] /\ IsInjective(SetToSeq(S))
  BY <1>2 DEF SetToSeq
<1>4. SetToSeq(S) \in Seq(S) /\ Len(SetToSeq(S)) = Cardinality(S)
  BY <1>1, <1>3, SeqDef
<1>5. \A i, j \in 1..Cardinality(S) : SetToSeq(S)[i] = SetToSeq(S)[j] => i = j
  BY <1>3 DEF IsInjective
<1> QED  BY <1>1, <1>4, <1>5

\* The network and the host of an address.
LEMMA AddressFacts ==
  ASSUME NEW s \in Nat, NEW x \in 0..255
  PROVE  Address(s, x) \div 256 = s /\ Address(s, x) % 256 = x
<1>1. Address(s, x) = 256 * s + x
  BY DEF Address
<1>2. (256 * s + x) % 256 = x
  BY Remainder
<1>3. (256 * s + x) \div 256 = s
  OBVIOUS
<1> QED  BY <1>1, <1>2, <1>3

\* One more element of a sequence.
LEMMA PrefixAppend ==
  ASSUME NEW X, NEW s \in Seq(X), NEW j \in 0..(Len(s) - 1)
  PROVE  /\ Append(SubSeq(s, 1, j), s[j + 1]) = SubSeq(s, 1, j + 1)
         /\ SubSeq(s, 1, j) \in Seq(X) /\ Len(SubSeq(s, 1, j)) = j
         /\ \A i \in 1..j : SubSeq(s, 1, j)[i] = s[i]
<1>1. Len(s) \in Nat /\ \A i \in 1..Len(s) : s[i] \in X
  BY LenProperties, ElementOfSeq
<1>2. /\ SubSeq(s, 1, j) \in Seq(X) /\ Len(SubSeq(s, 1, j)) = j
      /\ \A i \in 1..j : SubSeq(s, 1, j)[i] = s[i]
  <2>1. \A i \in 1..j : s[i] \in X
    BY <1>1
  <2>2. /\ SubSeq(s, 1, j) \in Seq(X)
        /\ Len(SubSeq(s, 1, j)) = IF 1 <= j THEN j - 1 + 1 ELSE 0
        /\ \A i \in 1..(j - 1 + 1) : SubSeq(s, 1, j)[i] = s[1 + i - 1]
    <3>1. 1 \in Int /\ j \in Int
      OBVIOUS
    <3> QED  BY <2>1, <3>1, SubSeqProperties
  <2>3. j - 1 + 1 = j /\ (~(1 <= j) => j = 0) /\ \A i \in 1..j : 1 + i - 1 = i
    BY <1>1
  <2> QED  BY <2>2, <2>3
<1>3. SubSeq(s, 1, j + 1) = SubSeq(s, 1, (j + 1) - 1) \o <<s[j + 1]>>
  <2>1. 1 \in 1..Len(s) /\ j + 1 \in 1..Len(s)
    BY <1>1
  <2> QED  BY <2>1, SubSeqRecursiveSecond
<1>4. (j + 1) - 1 = j /\ s[j + 1] \in X
  BY <1>1
<1>5. \A y \in Seq(X) : Append(y, s[j + 1]) = y \o <<s[j + 1]>>
  BY <1>4, AppendIsConcat
<1> QED  BY <1>2, <1>3, <1>4, <1>5

=============================================================================

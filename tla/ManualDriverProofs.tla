------------------------- MODULE ManualDriverProofs -------------------------
(***************************************************************************)
(* Proofs about ManualDriver and the test driver it uses: its list is well *)
(* linked and in order, and no request is in two places or lost.           *)
(***************************************************************************)
EXTENDS ManualDriver, SequenceTheorems, WellFoundedInduction, TLAPS

-----------------------------------------------------------------------------
(***************************************************************************)
(* The list, as a sequence of its nodes                                    *)
(***************************************************************************)

\* A place before the first node or behind the last holds none.
At(s, i) == IF i \in 1..Len(s) THEN s[i] ELSE Null

Node == [rtt : Nat, left : Nat, prev : Nat, next : Nat]

NodesOK == nodes \in [DOMAIN nodes -> Node] /\ DOMAIN nodes \subseteq Nat \ {Null}

\* The links lead through the nodes in the order of s, each once.
Chain(s) ==
  /\ s \in Seq(DOMAIN nodes)
  /\ \A n \in DOMAIN nodes : \E i \in 1..Len(s) : s[i] = n
  /\ \A i, j \in 1..Len(s) : s[i] = s[j] => i = j
  /\ next_req_rx = At(s, 1) /\ last_req_rx = At(s, Len(s))
  /\ \A i \in 1..Len(s) : /\ nodes[s[i]].next = At(s, i + 1)
                          /\ nodes[s[i]].prev = At(s, i - 1)

Ordered(s) ==
  \A i, j \in 1..Len(s) :
    i < j => \/ nodes[s[i]].left < nodes[s[j]].left
             \/ /\ nodes[s[i]].left = nodes[s[j]].left
                /\ s[i] < s[j] \/ nodes[s[i]].left = 0

ListOK == NodesOK /\ \E s : Chain(s) /\ Ordered(s)

\* A set of naturals has a least element.
LEMMA LeastNat ==
  ASSUME NEW T, T \subseteq Nat, T # {}
  PROVE  \E m \in T : \A k \in T : m <= k
<1> DEFINE less == OpToRel(<, Nat)
<1>1. IsWellFoundedOn(less, Nat)
  BY NatLessThanWellFounded
<1>2. \A x, y \in Nat : x < y => <<x, y>> \in less
  BY DEF OpToRel
<1> HIDE DEF less
<1>3. PICK m \in T : \A k \in T : ~(<<k, m>> \in less)
  BY <1>1, WFMin
<1>4. \A k \in T : ~(k < m)
  BY <1>2, <1>3
<1>5. \A k \in T : k \in Int /\ m \in Int
  OBVIOUS
<1> QED  BY <1>4, <1>5

LEMMA ChainFacts ==
  ASSUME NodesOK, NEW s, Chain(s)
  PROVE  /\ Len(s) \in Nat /\ DOMAIN s = 1..Len(s)
         /\ \A i \in 1..Len(s) : s[i] \in DOMAIN nodes /\ s[i] # Null /\ s[i] \in Nat
         /\ \A i \in Int : At(s, i) \in DOMAIN nodes \cup {Null}
         /\ \A i, j \in 1..(Len(s) + 1) : At(s, i) = At(s, j) => i = j
         /\ \A i, j \in 0..Len(s) : At(s, i) = At(s, j) => i = j
         /\ \A n \in DOMAIN nodes \cup {Null} :
              /\ \E i \in 1..(Len(s) + 1) : At(s, i) = n
              /\ \E i \in 0..Len(s) : At(s, i) = n
<1>1. s \in Seq(DOMAIN nodes)
  BY DEF Chain
<1>2. Len(s) \in Nat /\ DOMAIN s = 1..Len(s) /\ \A i \in 1..Len(s) : s[i] \in DOMAIN nodes
  BY <1>1, LenProperties
<1>3. \A i \in 1..Len(s) : s[i] # Null /\ s[i] \in Nat
  BY <1>2 DEF NodesOK
<1>4. At(s, Len(s) + 1) = Null /\ At(s, 0) = Null
  BY <1>2 DEF At
<1> QED  BY <1>2, <1>3, <1>4 DEF At, Chain

-----------------------------------------------------------------------------
(***************************************************************************)
(* Reading the list from either end                                        *)
(***************************************************************************)

\* The equations by which Forward and Backward are defined.
FollowsNext(f) ==
  f = [n \in DOMAIN nodes \cup {Null} |->
         IF n = Null THEN <<>> ELSE <<n>> \o f[nodes[n].next]]

FollowsPrev(f) ==
  f = [n \in DOMAIN nodes \cup {Null} |->
         IF n = Null THEN <<>> ELSE Append(f[nodes[n].prev], n)]

\* One function satisfies the first: from a node it reads the rest of the list.
LEMMA FollowsNextExists ==
  ASSUME NodesOK, NEW s, Chain(s)
  PROVE  \E f : FollowsNext(f)
<1> DEFINE rest(i) == SubSeq(s, i, Len(s))
           place(n) == CHOOSE i \in 1..(Len(s) + 1) : At(s, i) = n
           f == [n \in DOMAIN nodes \cup {Null} |-> rest(place(n))]
<1>1. \A i \in 1..(Len(s) + 1) : f[At(s, i)] = rest(i)
  <2> SUFFICES ASSUME NEW i \in 1..(Len(s) + 1) PROVE f[At(s, i)] = rest(i)
    OBVIOUS
  <2>1. At(s, i) \in DOMAIN nodes \cup {Null}
    BY ChainFacts
  <2>2. place(At(s, i)) = i
    BY ChainFacts
  <2> QED  BY <2>1, <2>2
<1>2. At(s, Len(s) + 1) = Null /\ rest(Len(s) + 1) = <<>>
  BY ChainFacts, SubSeqEmpty DEF At
<1>3. \A i \in 1..Len(s) : rest(i) = <<s[i]>> \o rest(i + 1)
  <2> SUFFICES ASSUME NEW i \in 1..Len(s) PROVE rest(i) = <<s[i]>> \o rest(i + 1)
    OBVIOUS
  <2>1. s \in Seq(DOMAIN nodes) /\ Len(s) \in i..Len(s)
    BY ChainFacts DEF Chain
  <2> QED  BY <2>1, SubSeqRecursiveFirst
<1>4. ASSUME NEW n \in DOMAIN nodes
      PROVE  f[n] = <<n>> \o f[nodes[n].next]
  <2>1. PICK i \in 1..Len(s) : s[i] = n
    BY DEF Chain
  <2>2. At(s, i) = n /\ nodes[n].next = At(s, i + 1) /\ i + 1 \in 1..(Len(s) + 1)
        /\ i \in 1..(Len(s) + 1)
    BY <2>1, ChainFacts, SMTT(60) DEF At, Chain
  <2> HIDE DEF f, rest
  <2> QED  BY <1>1, <1>3, <2>1, <2>2
<1>5. f[Null] = <<>>
  <2>1. Len(s) + 1 \in 1..(Len(s) + 1)
    BY ChainFacts
  <2> HIDE DEF f, rest
  <2> QED  BY <1>1, <1>2, <2>1
<1>6. \A n \in DOMAIN nodes : n # Null
  BY DEF NodesOK
<1>7. f = [n \in DOMAIN nodes \cup {Null} |->
             IF n = Null THEN <<>> ELSE <<n>> \o f[nodes[n].next]]
  <2> DEFINE g == [n \in DOMAIN nodes \cup {Null} |->
             IF n = Null THEN <<>> ELSE <<n>> \o f[nodes[n].next]]
  <2>1. f = [n \in DOMAIN nodes \cup {Null} |-> f[n]]
    <3> HIDE DEF rest, place
    <3> QED  OBVIOUS
  <2> HIDE DEF f
  <2>2. \A n \in DOMAIN nodes \cup {Null} : f[n] = g[n]
    BY <1>4, <1>5, <1>6
  <2> QED  BY <2>1, <2>2
<1> HIDE DEF f
<1> QED  BY <1>7 DEF FollowsNext

LEMMA ForwardIsChain ==
  ASSUME NodesOK, NEW s, Chain(s)
  PROVE  Forward = s
<1> DEFINE f == CHOOSE g : FollowsNext(g)
           rest(i) == SubSeq(s, i, Len(s))
           back(k) == Len(s) + 1 - k
           bad == {k \in 0..Len(s) : f[At(s, back(k))] # rest(back(k))}
<1>1. Forward = f[next_req_rx]
  BY Zenon DEF Forward, FollowsNext
<1>2. FollowsNext(f)
  BY FollowsNextExists, Zenon
<1> HIDE DEF f
<1>3. Len(s) \in Nat /\ s \in Seq(DOMAIN nodes)
  BY ChainFacts DEF Chain
<1>4. bad = {}
  <2> SUFFICES ASSUME bad # {} PROVE FALSE
    OBVIOUS
  <2>1. PICK k \in bad : \A j \in bad : k <= j
    <3>1. bad \subseteq Nat
      OBVIOUS
    <3> HIDE DEF bad
    <3> QED  BY <3>1, LeastNat
  <2>2. k \in 0..Len(s) /\ f[At(s, back(k))] # rest(back(k))
    OBVIOUS
  <2>3. CASE k = 0
    <3>1. At(s, back(0)) = Null /\ rest(back(0)) = <<>>
      BY ChainFacts, SubSeqEmpty DEF At
    <3>2. f[Null] = <<>>
      BY <1>2 DEF FollowsNext
    <3> QED  BY <2>2, <2>3, <3>1, <3>2
  <2>4. CASE k # 0
    <3> DEFINE i == back(k)
    <3>1. i \in 1..Len(s) /\ i + 1 = back(k - 1) /\ k - 1 \in 0..Len(s)
      BY <1>3, <2>2, <2>4
    <3>2. f[At(s, i + 1)] = rest(i + 1)
      <4>1. k - 1 \notin bad
        <5> HIDE DEF bad
        <5> QED  BY <2>1, <2>2
      <4> HIDE DEF rest, back, i
      <4> QED  BY <3>1, <4>1
    <3> HIDE DEF i
    <3>3. At(s, i) = s[i] /\ nodes[s[i]].next = At(s, i + 1) /\ s[i] \in DOMAIN nodes
          /\ s[i] # Null
      BY <3>1, ChainFacts DEF At, Chain
    <3>4. f[s[i]] = <<s[i]>> \o rest(i + 1)
      <4> HIDE DEF rest
      <4> QED  BY <1>2, <3>2, <3>3 DEF FollowsNext
    <3>5. Len(s) \in i..Len(s)
      BY <1>3, <3>1
    <3>6. rest(i) = <<s[i]>> \o rest(i + 1)
      BY <1>3, <3>1, <3>5, SubSeqRecursiveFirst
    <3>7. f[At(s, i)] = rest(i)
      BY <3>3, <3>4, <3>6
    <3> QED  BY <2>2, <3>7 DEF i
  <2> QED  BY <2>3, <2>4
<1>5. f[At(s, 1)] = rest(1)
  <2>1. Len(s) \in 0..Len(s) /\ back(Len(s)) = 1
    BY <1>3
  <2> QED  BY <1>4, <2>1
<1>6. rest(1) = s
  BY <1>3, SubSeqFull
<1> QED  BY <1>1, <1>5, <1>6 DEF Chain

LEMMA UpToRecursive ==
  ASSUME NEW S, NEW s \in Seq(S), NEW i \in 1..Len(s)
  PROVE  SubSeq(s, 1, i) = Append(SubSeq(s, 1, i - 1), s[i])
<1>1. Len(s) \in Nat /\ s[i] \in S
  BY LenProperties, ElementOfSeq
<1>2. 1 \in 1..Len(s) /\ i \in 1..i /\ i - 1 \in Int /\ 1 \in Int
  BY <1>1
<1>3. SubSeq(s, 1, i) = SubSeq(s, 1, i - 1) \o <<s[i]>>
  BY <1>2, SubSeqRecursiveSecond
<1>4. \A j \in 1..(i - 1) : s[j] \in S
  BY <1>1, ElementOfSeq
<1>5. SubSeq(s, 1, i - 1) \in Seq(S)
  BY <1>2, <1>4, SubSeqProperties
<1> QED  BY <1>1, <1>3, <1>5, AppendIsConcat

\* Another satisfies the second: from a node it reads the list up to there.
LEMMA FollowsPrevExists ==
  ASSUME NodesOK, NEW s, Chain(s)
  PROVE  \E f : FollowsPrev(f)
<1> DEFINE upTo(i) == SubSeq(s, 1, i)
           place(n) == CHOOSE i \in 0..Len(s) : At(s, i) = n
           f == [n \in DOMAIN nodes \cup {Null} |-> upTo(place(n))]
<1>1. \A i \in 0..Len(s) : f[At(s, i)] = upTo(i)
  <2> SUFFICES ASSUME NEW i \in 0..Len(s) PROVE f[At(s, i)] = upTo(i)
    OBVIOUS
  <2>1. At(s, i) \in DOMAIN nodes \cup {Null}
    BY ChainFacts
  <2>2. place(At(s, i)) = i
    BY ChainFacts
  <2> QED  BY <2>1, <2>2
<1>2. At(s, 0) = Null /\ upTo(0) = <<>>
  BY ChainFacts, SubSeqEmpty DEF At
<1>3. \A i \in 1..Len(s) : upTo(i) = Append(upTo(i - 1), s[i])
  BY UpToRecursive DEF Chain
<1>4. ASSUME NEW n \in DOMAIN nodes
      PROVE  f[n] = Append(f[nodes[n].prev], n)
  <2>1. PICK i \in 1..Len(s) : s[i] = n
    BY DEF Chain
  <2>2. At(s, i) = n /\ nodes[n].prev = At(s, i - 1)
    BY <2>1 DEF At, Chain
  <2>3. i - 1 \in 0..Len(s) /\ i \in 0..Len(s)
    BY ChainFacts
  <2> HIDE DEF f, upTo
  <2> QED  BY <1>1, <1>3, <2>1, <2>2, <2>3
<1>5. f[Null] = <<>>
  <2>1. 0 \in 0..Len(s)
    BY ChainFacts
  <2> HIDE DEF f, upTo
  <2> QED  BY <1>1, <1>2, <2>1
<1>6. \A n \in DOMAIN nodes : n # Null
  BY DEF NodesOK
<1>7. f = [n \in DOMAIN nodes \cup {Null} |->
             IF n = Null THEN <<>> ELSE Append(f[nodes[n].prev], n)]
  <2> DEFINE g == [n \in DOMAIN nodes \cup {Null} |->
             IF n = Null THEN <<>> ELSE Append(f[nodes[n].prev], n)]
  <2>1. f = [n \in DOMAIN nodes \cup {Null} |-> f[n]]
    <3> HIDE DEF upTo, place
    <3> QED  OBVIOUS
  <2> HIDE DEF f
  <2>2. \A n \in DOMAIN nodes \cup {Null} : f[n] = g[n]
    BY <1>4, <1>5, <1>6
  <2> QED  BY <2>1, <2>2
<1> HIDE DEF f
<1> QED  BY <1>7 DEF FollowsPrev

LEMMA BackwardIsChain ==
  ASSUME NodesOK, NEW s, Chain(s)
  PROVE  Backward = s
<1> DEFINE f == CHOOSE g : FollowsPrev(g)
           upTo(i) == SubSeq(s, 1, i)
           bad == {i \in 0..Len(s) : f[At(s, i)] # upTo(i)}
<1>1. Backward = f[last_req_rx]
  BY Zenon DEF Backward, FollowsPrev
<1>2. FollowsPrev(f)
  BY FollowsPrevExists, Zenon
<1> HIDE DEF f
<1>3. Len(s) \in Nat /\ s \in Seq(DOMAIN nodes)
  BY ChainFacts DEF Chain
<1>4. bad = {}
  <2> SUFFICES ASSUME bad # {} PROVE FALSE
    OBVIOUS
  <2>1. PICK i \in bad : \A j \in bad : i <= j
    <3>1. bad \subseteq Nat
      OBVIOUS
    <3> HIDE DEF bad
    <3> QED  BY <3>1, LeastNat
  <2>2. i \in 0..Len(s) /\ f[At(s, i)] # upTo(i)
    OBVIOUS
  <2>3. CASE i = 0
    <3>1. At(s, 0) = Null /\ upTo(0) = <<>>
      BY ChainFacts, SubSeqEmpty DEF At
    <3>2. f[Null] = <<>>
      BY <1>2 DEF FollowsPrev
    <3> QED  BY <2>2, <2>3, <3>1, <3>2
  <2>4. CASE i # 0
    <3>1. i \in 1..Len(s) /\ i - 1 \in 0..Len(s)
      BY <1>3, <2>2, <2>4
    <3>2. f[At(s, i - 1)] = upTo(i - 1)
      <4>1. i - 1 \notin bad
        <5> HIDE DEF bad
        <5> QED  BY <2>1, <2>2
      <4> HIDE DEF upTo
      <4> QED  BY <3>1, <4>1
    <3>3. At(s, i) = s[i] /\ nodes[s[i]].prev = At(s, i - 1) /\ s[i] \in DOMAIN nodes
          /\ s[i] # Null
      BY <3>1, ChainFacts DEF At, Chain
    <3>4. f[s[i]] = Append(upTo(i - 1), s[i])
      <4> HIDE DEF upTo
      <4> QED  BY <1>2, <3>2, <3>3 DEF FollowsPrev
    <3>5. upTo(i) = Append(upTo(i - 1), s[i])
      BY <1>3, <3>1, UpToRecursive
    <3> QED  BY <2>2, <3>3, <3>4, <3>5
  <2> QED  BY <2>3, <2>4
<1>5. f[At(s, Len(s))] = upTo(Len(s))
  <2>1. Len(s) \in 0..Len(s)
    BY <1>3
  <2> QED  BY <1>4, <2>1
<1>6. upTo(Len(s)) = s
  BY <1>3, SubSeqFull
<1> QED  BY <1>1, <1>5, <1>6 DEF Chain

\* What the property says follows from the chain.
LEMMA ListOKInOrder == ListOK => ListInOrder
<1> SUFFICES ASSUME ListOK PROVE ListInOrder
  OBVIOUS
<1>1. NodesOK
  BY DEF ListOK
<1>2. PICK s : Chain(s) /\ Ordered(s)
  BY DEF ListOK
<1>3. Forward = s /\ Backward = s
  BY <1>1, <1>2, ForwardIsChain, BackwardIsChain
<1>4. DOMAIN s = 1..Len(s) /\ \A i \in 1..Len(s) : s[i] \in DOMAIN nodes
  BY <1>1, <1>2, ChainFacts
<1>5. {s[i] : i \in 1..Len(s)} = DOMAIN nodes
  <2>1. \A n \in DOMAIN nodes : \E i \in 1..Len(s) : s[i] = n
    BY <1>2 DEF Chain
  <2> QED  BY <1>4, <2>1
<1> QED  BY <1>2, <1>3, <1>4, <1>5 DEF ListInOrder, Ordered

-----------------------------------------------------------------------------
(***************************************************************************)
(* The place of a new node                                                 *)
(***************************************************************************)

\* The equation by which Place is defined.
Walks(due, f) ==
  f = [higher \in DOMAIN nodes \cup {Null} |->
         LET lower == Before(higher)
         IN  IF lower # Null /\ nodes[lower].left > due THEN f[lower]
             ELSE <<lower, higher>>]

\* From behind the k-th node, the walk passes those that are due later and stops
\* behind the p-th.
StopsAt(s, due, k, p) ==
  /\ p \in 0..k
  /\ p = 0 \/ nodes[s[p]].left <= due
  /\ \A i \in (p + 1)..k : nodes[s[i]].left > due

Stop(s, due, k) == CHOOSE p \in 0..k : StopsAt(s, due, k, p)

LEMMA StopFacts ==
  ASSUME NodesOK, NEW s, Chain(s), NEW due \in Nat, NEW k \in 0..Len(s)
  PROVE  /\ StopsAt(s, due, k, Stop(s, due, k))
         /\ \A p : StopsAt(s, due, k, p) => p = Stop(s, due, k)
<1> DEFINE T == {d \in 0..k : d = k \/ nodes[s[k - d]].left <= due}
<1>0. Len(s) \in Nat /\ \A i \in 1..Len(s) : nodes[s[i]].left \in Nat
  BY ChainFacts DEF NodesOK, Node
<1>1. PICK d \in T : \A e \in T : d <= e
  <2>1. T \subseteq Nat /\ k \in T
    BY <1>0
  <2> HIDE DEF T
  <2> QED  BY <2>1, LeastNat
<1>2. StopsAt(s, due, k, k - d)
  <2>1. ASSUME NEW i \in (k - d + 1)..k
        PROVE  nodes[s[i]].left > due
    <3>1. k - i \in 0..k /\ k - i < d /\ i \in 1..Len(s) /\ k - (k - i) = i
      BY <1>0
    <3>2. k - i \notin T
      <4>1. ~(d <= k - i)
        BY <1>0, <3>1
      <4> HIDE DEF T
      <4> QED  BY <1>1, <4>1
    <3>3. ~(nodes[s[k - (k - i)]].left <= due)
      BY <3>1, <3>2
    <3> QED  BY <1>0, <3>1, <3>3
  <2> QED  BY <1>0, <2>1 DEF StopsAt
<1>3. ASSUME NEW p, NEW q, StopsAt(s, due, k, p), StopsAt(s, due, k, q), p < q
      PROVE  FALSE
  <2>1. q \in (p + 1)..k /\ q # 0 /\ q \in 1..Len(s)
    BY <1>0, <1>3 DEF StopsAt
  <2>2. nodes[s[q]].left > due /\ nodes[s[q]].left <= due
    BY <1>3, <2>1 DEF StopsAt
  <2> QED  BY <1>0, <2>1, <2>2
<1>4. StopsAt(s, due, k, Stop(s, due, k))
  <2>1. k - d \in 0..k
    BY <1>2 DEF StopsAt
  <2> QED  BY <1>2, <2>1 DEF Stop
<1>5. \A p : StopsAt(s, due, k, p) => p = Stop(s, due, k)
  <2>1. \A p : StopsAt(s, due, k, p) => p \in Int
    BY DEF StopsAt
  <2>2. \A p, q \in Int : p < q \/ q < p \/ p = q
    OBVIOUS
  <2> QED  BY <1>3, <1>4, <2>1, <2>2
<1> QED  BY <1>4, <1>5

\* One node further, the walk stops there or passes on.
LEMMA StopMoves ==
  ASSUME NodesOK, NEW s, Chain(s), NEW due \in Nat, NEW k \in 0..Len(s)
  PROVE  /\ k = 0 => Stop(s, due, k) = 0
         /\ k # 0 => Stop(s, due, k) = IF nodes[s[k]].left > due THEN Stop(s, due, k - 1)
                                       ELSE k
<1>0. Len(s) \in Nat /\ \A i \in 1..Len(s) : nodes[s[i]].left \in Nat
  BY ChainFacts DEF NodesOK, Node
<1>1. CASE k = 0
  BY <1>1, StopFacts DEF StopsAt
<1>2. CASE k # 0 /\ nodes[s[k]].left > due
  <2>1. k - 1 \in 0..Len(s)
    BY <1>0, <1>2
  <2>2. StopsAt(s, due, k - 1, Stop(s, due, k - 1))
    BY <2>1, StopFacts
  <2>3. StopsAt(s, due, k, Stop(s, due, k - 1))
    BY <1>0, <1>2, <2>2 DEF StopsAt
  <2> QED  BY <1>2, <2>3, StopFacts
<1>3. CASE k # 0 /\ ~(nodes[s[k]].left > due)
  <2>1. StopsAt(s, due, k, k)
    BY <1>0, <1>3 DEF StopsAt
  <2> QED  BY <1>3, <2>1, StopFacts
<1> QED  BY <1>1, <1>2, <1>3

LEMMA BeforeInChain ==
  ASSUME NodesOK, NEW s, Chain(s), NEW k \in 0..Len(s)
  PROVE  /\ Before(At(s, k + 1)) = At(s, k)
         /\ k # 0 => At(s, k) = s[k] /\ s[k] # Null
         /\ k = 0 => At(s, k) = Null
<1>1. Len(s) \in Nat /\ \A i \in 1..Len(s) : s[i] # Null
  BY ChainFacts
<1>2. CASE k = Len(s)
  BY <1>1, <1>2 DEF Before, At, Chain
<1>3. CASE k # Len(s)
  <2>1. k + 1 \in 1..Len(s) /\ k = k + 1 - 1
    BY <1>1, <1>3
  <2>2. At(s, k + 1) = s[k + 1] /\ s[k + 1] # Null /\ nodes[s[k + 1]].prev = At(s, k)
    BY <1>1, <2>1 DEF At, Chain
  <2> QED  BY <1>1, <2>2 DEF Before, At
<1> QED  BY <1>2, <1>3

\* What the walk returns, behind the k-th node.
Found(s, due, k) == <<At(s, Stop(s, due, k)), At(s, Stop(s, due, k) + 1)>>

LEMMA FoundMoves ==
  ASSUME NodesOK, NEW s, Chain(s), NEW due \in Nat, NEW k \in 0..Len(s)
  PROVE  Found(s, due, k) = IF At(s, k) # Null /\ nodes[At(s, k)].left > due
                            THEN Found(s, due, k - 1) ELSE <<At(s, k), At(s, k + 1)>>
<1>1. CASE k = 0
  BY <1>1, StopMoves, BeforeInChain DEF Found
<1>2. CASE k # 0 /\ nodes[s[k]].left > due
  BY <1>2, StopMoves, BeforeInChain DEF Found
<1>3. CASE k # 0 /\ ~(nodes[s[k]].left > due)
  BY <1>3, StopMoves, BeforeInChain DEF Found
<1> QED  BY <1>1, <1>2, <1>3

LEMMA WalkExists ==
  ASSUME NodesOK, NEW s, Chain(s), NEW due \in Nat
  PROVE  \E f : Walks(due, f)
<1> DEFINE place(n) == CHOOSE k \in 0..Len(s) : At(s, k + 1) = n
           f == [n \in DOMAIN nodes \cup {Null} |-> Found(s, due, place(n))]
           g == [higher \in DOMAIN nodes \cup {Null} |->
                   LET lower == Before(higher)
                   IN  IF lower # Null /\ nodes[lower].left > due THEN f[lower]
                       ELSE <<lower, higher>>]
<1>1. \A k \in 0..Len(s) : f[At(s, k + 1)] = Found(s, due, k)
  <2> SUFFICES ASSUME NEW k \in 0..Len(s) PROVE f[At(s, k + 1)] = Found(s, due, k)
    OBVIOUS
  <2>1. k + 1 \in 1..(Len(s) + 1) /\ \A j \in 0..Len(s) : j + 1 \in 1..(Len(s) + 1)
    BY ChainFacts
  <2>2. At(s, k + 1) \in DOMAIN nodes \cup {Null}
    BY <2>1, ChainFacts
  <2>3. \A j \in 0..Len(s) : At(s, j + 1) = At(s, k + 1) => j + 1 = k + 1
    BY <2>1, ChainFacts
  <2>4. place(At(s, k + 1)) = k
    BY <2>1, <2>3
  <2> HIDE DEF place
  <2> QED  BY <2>2, <2>4
<1>2. f = [n \in DOMAIN nodes \cup {Null} |-> f[n]]
  <2> HIDE DEF place
  <2> QED  OBVIOUS
<1> HIDE DEF f
<1>3. ASSUME NEW n \in DOMAIN nodes \cup {Null}
      PROVE  f[n] = g[n]
  <2>1. PICK i \in 1..(Len(s) + 1) : At(s, i) = n
    BY ChainFacts
  <2> DEFINE k == i - 1
  <2>2. k \in 0..Len(s) /\ i = k + 1 /\ k - 1 + 1 = k /\ (k # 0 => k - 1 \in 0..Len(s))
    BY ChainFacts
  <2> HIDE DEF k
  <2>3. Before(n) = At(s, k) /\ (k # 0 => At(s, k) # Null) /\ (k = 0 => At(s, k) = Null)
    BY <2>1, <2>2, BeforeInChain
  <2>4. f[n] = IF At(s, k) # Null /\ nodes[At(s, k)].left > due
               THEN Found(s, due, k - 1) ELSE <<At(s, k), n>>
    BY <1>1, <2>1, <2>2, FoundMoves
  <2>5. k # 0 => f[At(s, k)] = Found(s, due, k - 1)
    BY <1>1, <2>2
  <2> QED  BY <2>3, <2>4, <2>5
<1>4. f = g
  BY <1>2, <1>3
<1> QED  BY <1>4 DEF Walks

LEMMA PlaceInChain ==
  ASSUME NodesOK, NEW s, Chain(s), NEW due \in Nat
  PROVE  Place(due) = Found(s, due, Len(s))
<1> DEFINE f == CHOOSE g : Walks(due, g)
           bad == {k \in 0..Len(s) : f[At(s, k + 1)] # Found(s, due, k)}
<1>1. Place(due) = f[Null]
  BY Zenon DEF Place, Walks
<1>2. Walks(due, f)
  BY WalkExists, Zenon
<1> HIDE DEF f
<1>3. Len(s) \in Nat
  BY ChainFacts
<1>4. bad = {}
  <2> SUFFICES ASSUME bad # {} PROVE FALSE
    OBVIOUS
  <2>1. PICK k \in bad : \A j \in bad : k <= j
    <3>1. bad \subseteq Nat
      OBVIOUS
    <3> HIDE DEF bad
    <3> QED  BY <3>1, LeastNat
  <2>2. k \in 0..Len(s) /\ f[At(s, k + 1)] # Found(s, due, k)
    OBVIOUS
  <2>3. k # 0 => f[At(s, k)] = Found(s, due, k - 1)
    <3> SUFFICES ASSUME k # 0 PROVE f[At(s, k)] = Found(s, due, k - 1)
      OBVIOUS
    <3>1. k - 1 \notin bad
      <4> HIDE DEF bad
      <4> QED  BY <2>1, <2>2
    <3>2. k - 1 \in 0..Len(s) /\ k - 1 + 1 = k
      BY <1>3, <2>2
    <3> QED  BY <3>1, <3>2
  <2>4. At(s, k + 1) \in DOMAIN nodes \cup {Null}
    BY <1>3, <2>2, ChainFacts
  <2>5. /\ Before(At(s, k + 1)) = At(s, k)
        /\ k # 0 => At(s, k) # Null
        /\ k = 0 => At(s, k) = Null
    BY <2>2, BeforeInChain
  <2>6. f[At(s, k + 1)] = IF At(s, k) # Null /\ nodes[At(s, k)].left > due THEN f[At(s, k)]
                          ELSE <<At(s, k), At(s, k + 1)>>
    BY <1>2, <2>4, <2>5 DEF Walks
  <2>7. f[At(s, k + 1)] = Found(s, due, k)
    BY <2>2, <2>3, <2>5, <2>6, FoundMoves
  <2> QED  BY <2>2, <2>7
<1>5. At(s, Len(s) + 1) = Null /\ Len(s) \in 0..Len(s)
  BY <1>3 DEF At
<1> QED  BY <1>1, <1>4, <1>5

-----------------------------------------------------------------------------
(***************************************************************************)
(* What the driver does to its list                                        *)
(***************************************************************************)

\* A new node r stands behind the p-th of s.
Linked(s, p, r, outcome) ==
  /\ NodesOK' /\ DOMAIN nodes' = DOMAIN nodes \cup {r}
  /\ nodes'[r] = [rtt |-> outcome.rtt, left |-> outcome.left,
                  prev |-> At(s, p), next |-> At(s, p + 1)]
  /\ \A i \in 1..Len(s) :
       /\ nodes'[s[i]].left = nodes[s[i]].left
       /\ nodes'[s[i]].next = IF i = p THEN r ELSE At(s, i + 1)
       /\ nodes'[s[i]].prev = IF i = p + 1 THEN r ELSE At(s, i - 1)
  /\ next_req_rx' = IF p = 0 THEN r ELSE At(s, 1)
  /\ last_req_rx' = IF p = Len(s) THEN r ELSE At(s, Len(s))

LEMMA InsertLinks ==
  ASSUME NodesOK, NEW s, Chain(s),
         NEW r \in Nat \ {Null}, r \notin DOMAIN nodes,
         NEW outcome \in [rtt : Nat, left : Nat], Insert(r, outcome),
         NEW p \in 0..Len(s), Place(outcome.left) = <<At(s, p), At(s, p + 1)>>
  PROVE  Linked(s, p, r, outcome)
<1> DEFINE lower == At(s, p)
           higher == At(s, p + 1)
<1>1. /\ Len(s) \in Nat /\ p \in Int
      /\ \A i \in 1..Len(s) : s[i] \in DOMAIN nodes /\ s[i] # Null
      /\ lower \in DOMAIN nodes \cup {Null} /\ higher \in DOMAIN nodes \cup {Null}
  BY ChainFacts, SMTT(60)
<1> HIDE DEF lower, higher
<1>0. Place(outcome.left)[1] = lower /\ Place(outcome.left)[2] = higher
  BY DEF lower, higher
<1>2. nodes' = [n \in DOMAIN nodes \cup {r} |->
                  IF n = r THEN [rtt |-> outcome.rtt, left |-> outcome.left,
                                 prev |-> lower, next |-> higher]
                  ELSE [nodes[n] EXCEPT !.next = IF n = lower THEN r ELSE @,
                                        !.prev = IF n = higher THEN r ELSE @]]
  BY <1>0 DEF Insert
<1>3. next_req_rx' = IF higher = At(s, 1) THEN r ELSE At(s, 1)
  BY <1>0 DEF Insert, HeadAfter, Chain
<1>4. last_req_rx' = IF lower = At(s, Len(s)) THEN r ELSE At(s, Len(s))
  BY <1>0 DEF Insert, TailAfter, Chain
<1>5. (higher = At(s, 1) <=> p = 0) /\ (lower = At(s, Len(s)) <=> p = Len(s))
  <2>1. /\ p + 1 \in 1..(Len(s) + 1) /\ 1 \in 1..(Len(s) + 1)
        /\ p \in 0..Len(s) /\ Len(s) \in 0..Len(s)
    BY <1>1
  <2> QED  BY <1>1, <2>1, ChainFacts DEF lower, higher
<1>6. \A i \in 1..Len(s) : (s[i] = lower <=> i = p) /\ (s[i] = higher <=> i = p + 1)
  <2> SUFFICES ASSUME NEW i \in 1..Len(s)
               PROVE  (s[i] = lower <=> i = p) /\ (s[i] = higher <=> i = p + 1)
    OBVIOUS
  <2>1. /\ s[i] = At(s, i) /\ i \in 1..(Len(s) + 1) /\ i \in 0..Len(s)
        /\ p + 1 \in 1..(Len(s) + 1) /\ p \in 0..Len(s)
    BY <1>1 DEF At
  <2> QED  BY <2>1, ChainFacts DEF lower, higher
<1>7. \A n \in DOMAIN nodes : n # r /\ nodes[n] \in Node
  BY DEF NodesOK
<1>8. \A n \in DOMAIN nodes :
        /\ nodes'[n] \in Node
        /\ nodes'[n].left = nodes[n].left
        /\ nodes'[n].next = IF n = lower THEN r ELSE nodes[n].next
        /\ nodes'[n].prev = IF n = higher THEN r ELSE nodes[n].prev
  BY <1>2, <1>7 DEF Node
<1>9. lower \in Nat /\ higher \in Nat
  BY <1>1 DEF NodesOK, Null
<1>10. nodes'[r] = [rtt |-> outcome.rtt, left |-> outcome.left,
                    prev |-> lower, next |-> higher]
       /\ DOMAIN nodes' = DOMAIN nodes \cup {r}
  BY <1>2
<1>11. nodes'[r] \in Node
  BY <1>9, <1>10 DEF Node
<1>12. NodesOK'
  <2>1. nodes' = [n \in DOMAIN nodes' |-> nodes'[n]]
    BY <1>2
  <2>2. \A n \in DOMAIN nodes' : nodes'[n] \in Node
    BY <1>8, <1>10, <1>11
  <2>3. nodes' \in [DOMAIN nodes' -> Node]
    BY <2>1, <2>2
  <2> QED  BY <1>10, <2>3 DEF NodesOK
<1>13. \A i \in 1..Len(s) : nodes[s[i]].next = At(s, i + 1) /\ nodes[s[i]].prev = At(s, i - 1)
  BY DEF Chain
<1>14. \A i \in 1..Len(s) :
         /\ nodes'[s[i]].left = nodes[s[i]].left
         /\ nodes'[s[i]].next = IF i = p THEN r ELSE At(s, i + 1)
         /\ nodes'[s[i]].prev = IF i = p + 1 THEN r ELSE At(s, i - 1)
  BY <1>1, <1>6, <1>8, <1>13
<1> QED  BY <1>3, <1>4, <1>5, <1>10, <1>12, <1>14 DEF Linked, lower, higher

\* The sequence with r behind the p-th place.
With(s, p, r) ==
  [i \in 1..(Len(s) + 1) |-> IF i <= p THEN s[i] ELSE IF i = p + 1 THEN r ELSE s[i - 1]]

Extends(t, s, p, r) ==
  /\ Len(t) = Len(s) + 1
  /\ \A i \in 1..p : t[i] = s[i]
  /\ t[p + 1] = r
  /\ \A i \in (p + 2)..(Len(s) + 1) : t[i] = s[i - 1]

Shifted(t, s, p, r) ==
  /\ \A i \in 0..p : At(t, i) = At(s, i)
  /\ \A i \in (p + 2)..(Len(s) + 2) : At(t, i) = At(s, i - 1)
  /\ At(t, p + 1) = r

LEMMA WithFacts ==
  ASSUME NEW S, NEW s \in Seq(S), NEW p \in 0..Len(s), NEW r
  PROVE  /\ With(s, p, r) \in Seq(S \cup {r})
         /\ Extends(With(s, p, r), s, p, r) /\ Shifted(With(s, p, r), s, p, r)
<1> DEFINE t == With(s, p, r)
<1>1. Len(s) \in Nat /\ \A i \in 1..Len(s) : s[i] \in S
  BY LenProperties
<1>2. t \in [1..(Len(s) + 1) -> S \cup {r}]
  BY <1>1 DEF With
<1>3. t \in Seq(S \cup {r}) /\ Len(t) = Len(s) + 1
  BY <1>1, <1>2
<1>4. /\ \A i \in 1..p : t[i] = s[i]
      /\ t[p + 1] = r
      /\ \A i \in (p + 2)..(Len(s) + 1) : t[i] = s[i - 1]
  BY <1>1 DEF With
<1> HIDE DEF t
<1>5. /\ \A i \in 0..p : At(t, i) = At(s, i)
      /\ \A i \in (p + 2)..(Len(s) + 2) : At(t, i) = At(s, i - 1)
      /\ At(t, p + 1) = r
  BY <1>1, <1>3, <1>4 DEF At
<1> QED  BY <1>3, <1>4, <1>5 DEF t, Extends, Shifted

LEMMA InsertKeepsList ==
  ASSUME ListOK, NEW r \in Nat \ {Null}, \A n \in DOMAIN nodes : n < r,
         NEW outcome \in [rtt : Nat, left : Nat], Insert(r, outcome)
  PROVE  ListOK' /\ DOMAIN nodes' = DOMAIN nodes \cup {r}
<1>1. NodesOK
  BY DEF ListOK
<1>2. PICK s : Chain(s) /\ Ordered(s)
  BY DEF ListOK
<1>3. /\ Len(s) \in Nat /\ s \in Seq(DOMAIN nodes)
      /\ \A i \in 1..Len(s) : s[i] \in DOMAIN nodes /\ s[i] \in Nat
  BY <1>1, <1>2, ChainFacts DEF Chain
<1>4. PICK p \in 0..Len(s) : /\ StopsAt(s, outcome.left, Len(s), p)
                             /\ Place(outcome.left) = <<At(s, p), At(s, p + 1)>>
  <2>1. Stop(s, outcome.left, Len(s)) \in 0..Len(s)
        /\ StopsAt(s, outcome.left, Len(s), Stop(s, outcome.left, Len(s)))
    <3>1. Len(s) \in 0..Len(s) /\ outcome.left \in Nat
      BY <1>3
    <3>2. StopsAt(s, outcome.left, Len(s), Stop(s, outcome.left, Len(s)))
      BY <1>1, <1>2, <3>1, StopFacts
    <3> QED  BY <3>2 DEF StopsAt
  <2>2. Place(outcome.left) = Found(s, outcome.left, Len(s))
    BY <1>1, <1>2, PlaceInChain
  <2> QED  BY <2>1, <2>2 DEF Found
<1>5. r \notin DOMAIN nodes
  <2>1. ~(r < r)
    OBVIOUS
  <2> QED  BY <2>1
<1>6. Linked(s, p, r, outcome)
  BY <1>1, <1>2, <1>4, <1>5, InsertLinks
<1>7. PICK t : t = With(s, p, r)
  OBVIOUS
<1>8. Extends(t, s, p, r) /\ Shifted(t, s, p, r) /\ t \in Seq(DOMAIN nodes \cup {r})
  BY <1>3, <1>7, WithFacts
<1>9. \A i \in 1..Len(t) : \/ i \in 1..p /\ i \in 1..Len(s)
                           \/ i = p + 1
                           \/ i \in (p + 2)..(Len(s) + 1) /\ i - 1 \in 1..Len(s)
  BY <1>3, <1>8 DEF Extends
<1>10. Chain(t)'
  <2>1. \A n \in DOMAIN nodes \cup {r} : \E i \in 1..Len(t) : t[i] = n
    <3>1. ASSUME NEW n \in DOMAIN nodes PROVE \E i \in 1..Len(t) : t[i] = n
      <4>1. PICK i \in 1..Len(s) : s[i] = n
        BY <1>2 DEF Chain
      <4>2. CASE i <= p
        <5>1. i \in 1..p /\ i \in 1..Len(t)
          BY <1>3, <1>8, <4>2 DEF Extends
        <5> QED  BY <1>8, <4>1, <5>1 DEF Extends
      <4>3. CASE ~(i <= p)
        <5>1. i + 1 \in (p + 2)..(Len(s) + 1) /\ i + 1 \in 1..Len(t) /\ i + 1 - 1 = i
          BY <1>3, <1>8, <4>3 DEF Extends
        <5>2. t[i + 1] = s[i + 1 - 1]
          BY <1>8, <5>1 DEF Extends
        <5> QED  BY <4>1, <5>1, <5>2
      <4> QED  BY <4>2, <4>3
    <3>2. p + 1 \in 1..Len(t)
      BY <1>3, <1>8 DEF Extends
    <3> QED  BY <1>8, <3>1, <3>2 DEF Extends
  <2>2. \A i, j \in 1..Len(t) : t[i] = t[j] => i = j
    <3>1. \A i, j \in 1..Len(s) : s[i] = s[j] => i = j
      BY <1>2 DEF Chain
    <3>2. \A i \in 1..Len(s) : s[i] # r
      BY <1>3, <1>5
    <3> SUFFICES ASSUME NEW i \in 1..Len(t), NEW j \in 1..Len(t), t[i] = t[j]
                 PROVE  i = j
      OBVIOUS
    <3> DEFINE old(k) == IF k <= p THEN k ELSE k - 1
    <3>3. \A k \in 1..Len(t) : k # p + 1 => old(k) \in 1..Len(s) /\ t[k] = s[old(k)]
      BY <1>3, <1>8, <1>9 DEF Extends
    <3>4. old(i) = old(j) /\ i # p + 1 /\ j # p + 1 => i = j
      BY <1>3, <1>8 DEF Extends
    <3> HIDE DEF old
    <3>5. CASE i # p + 1 /\ j # p + 1
      BY <3>1, <3>3, <3>4, <3>5
    <3>6. \A k \in 1..Len(t) : k # p + 1 => t[k] # r
      BY <3>2, <3>3
    <3>7. t[p + 1] = r
      BY <1>8 DEF Extends
    <3> QED  BY <3>5, <3>6, <3>7
  <2>3. next_req_rx' = At(t, 1)
    BY <1>3, <1>6, <1>8 DEF Linked, Extends, Shifted
  <2>4. last_req_rx' = At(t, Len(t))
    <3>1. CASE p = Len(s)
      BY <1>3, <1>6, <1>8, <3>1 DEF Linked, Extends, Shifted
    <3>2. CASE p # Len(s)
      BY <1>3, <1>6, <1>8, <3>2 DEF Linked, Extends, Shifted
    <3> QED  BY <3>1, <3>2
  <2>5. ASSUME NEW i \in 1..Len(t)
        PROVE  nodes'[t[i]].next = At(t, i + 1) /\ nodes'[t[i]].prev = At(t, i - 1)
    <3>1. CASE i \in 1..p /\ i \in 1..Len(s)
      <4>1. i # p => i + 1 \in 0..p
        BY <3>1
      <4>2. i - 1 \in 0..p /\ i # p + 1
        BY <3>1
      <4> QED  BY <1>6, <1>8, <3>1, <4>1, <4>2 DEF Linked, Extends, Shifted
    <3>2. CASE i = p + 1
      <4>1. i + 1 \in (p + 2)..(Len(s) + 2) /\ i + 1 - 1 = p + 1 /\ i - 1 = p /\ p \in 0..p
        BY <1>3, <3>2
      <4>2. At(t, i + 1) = At(s, p + 1)
        BY <1>8, <4>1 DEF Shifted
      <4> QED  BY <1>6, <1>8, <3>2, <4>1, <4>2 DEF Linked, Extends, Shifted
    <3>3. CASE i \in (p + 2)..(Len(s) + 1) /\ i - 1 \in 1..Len(s)
      <4>1. i + 1 \in (p + 2)..(Len(s) + 2) /\ i + 1 - 1 = i - 1 + 1 /\ i - 1 # p
        BY <1>3, <3>3
      <4>2. i - 1 # p + 1 => i - 1 \in (p + 2)..(Len(s) + 2) /\ i - 1 - 1 \in Int
        BY <1>3, <3>3
      <4>3. t[i] = s[i - 1] /\ At(t, i + 1) = At(s, i - 1 + 1)
        BY <1>8, <3>3, <4>1 DEF Extends, Shifted
      <4>4. nodes'[t[i]].next = At(t, i + 1)
        BY <1>6, <3>3, <4>1, <4>3 DEF Linked
      <4>5. nodes'[t[i]].prev = At(t, i - 1)
        BY <1>6, <1>8, <3>3, <4>2, <4>3 DEF Linked, Extends, Shifted
      <4> QED  BY <4>4, <4>5
    <3> QED  BY <1>9, <3>1, <3>2, <3>3
  <2> QED  BY <1>6, <1>8, <2>1, <2>2, <2>3, <2>4, <2>5 DEF Chain, Linked, Extends, Shifted
<1>11. Ordered(t)'
  <2>1. nodes'[r].left = outcome.left /\ outcome.left \in Nat
    BY <1>6 DEF Linked
  <2>2. /\ \A i \in 1..Len(s) : nodes[s[i]].left \in Nat /\ s[i] < r
        /\ \A i \in 1..Len(s) : nodes'[s[i]].left = nodes[s[i]].left
    BY <1>1, <1>3, <1>6 DEF NodesOK, Node, Linked
  <2>3. \A i \in 1..Len(s), j \in 1..Len(s) :
          i < j => \/ nodes[s[i]].left < nodes[s[j]].left
                   \/ /\ nodes[s[i]].left = nodes[s[j]].left
                      /\ s[i] < s[j] \/ nodes[s[i]].left = 0
    BY <1>2 DEF Ordered
  <2>4. \A i \in 1..p : nodes[s[i]].left <= outcome.left
    BY <1>3, <1>4, <2>1, <2>2, <2>3 DEF StopsAt
  <2>5. \A i \in (p + 1)..Len(s) : nodes[s[i]].left > outcome.left
    BY <1>4 DEF StopsAt
  <2> SUFFICES ASSUME NEW i \in 1..Len(t), NEW j \in 1..Len(t), i < j
               PROVE  \/ nodes'[t[i]].left < nodes'[t[j]].left
                      \/ /\ nodes'[t[i]].left = nodes'[t[j]].left
                         /\ t[i] < t[j] \/ nodes'[t[i]].left = 0
    BY DEF Ordered
  <2>6. CASE i \in 1..p /\ i \in 1..Len(s)
    <3>0. t[i] = s[i]
      BY <1>8, <2>6 DEF Extends
    <3>1. CASE j \in 1..p /\ j \in 1..Len(s)
      <4>1. t[j] = s[j]
        BY <1>8, <3>1 DEF Extends
      <4> QED  BY <2>2, <2>3, <2>6, <3>0, <3>1, <4>1
    <3>2. CASE j = p + 1
      <4>1. t[j] = r /\ nodes[s[i]].left <= outcome.left
        BY <1>8, <2>4, <2>6, <3>2 DEF Extends
      <4> QED  BY <2>1, <2>2, <2>6, <3>0, <4>1
    <3>3. CASE j \in (p + 2)..(Len(s) + 1) /\ j - 1 \in 1..Len(s)
      <4>1. i < j - 1
        BY <2>6, <3>3
      <4>2. t[i] = s[i] /\ t[j] = s[j - 1]
        BY <1>8, <2>6, <3>3 DEF Extends
      <4> QED  BY <2>2, <2>3, <2>6, <3>3, <4>1, <4>2
    <3> QED  BY <1>9, <3>1, <3>2, <3>3
  <2>7. CASE i = p + 1
    <3>1. j \in (p + 2)..(Len(s) + 1) /\ j - 1 \in 1..Len(s) /\ j - 1 \in (p + 1)..Len(s)
      BY <1>3, <1>8, <2>7 DEF Extends
    <3> QED  BY <1>8, <2>1, <2>2, <2>5, <2>7, <3>1 DEF Extends
  <2>8. CASE i \in (p + 2)..(Len(s) + 1) /\ i - 1 \in 1..Len(s)
    <3>1. j \in (p + 2)..(Len(s) + 1) /\ j - 1 \in 1..Len(s) /\ i - 1 < j - 1
      BY <1>3, <1>8, <2>8 DEF Extends
    <3>2. t[i] = s[i - 1] /\ t[j] = s[j - 1]
      BY <1>8, <2>8, <3>1 DEF Extends
    <3> QED  BY <2>2, <2>3, <2>8, <3>1, <3>2, SMTT(60)
  <2> QED  BY <1>9, <2>6, <2>7, <2>8
<1> QED  BY <1>6, <1>10, <1>11 DEF ListOK, Linked

LEMMA PopKeepsList ==
  ASSUME ListOK, Expired, Pop
  PROVE  /\ ListOK'
         /\ next_req_rx \in DOMAIN nodes
         /\ DOMAIN nodes' = DOMAIN nodes \ {next_req_rx}
<1>1. NodesOK
  BY DEF ListOK
<1>2. PICK s : Chain(s) /\ Ordered(s)
  BY DEF ListOK
<1>3. /\ Len(s) \in Nat /\ s \in Seq(DOMAIN nodes)
      /\ \A i \in 1..Len(s) : s[i] \in DOMAIN nodes /\ s[i] # Null
      /\ \A i, j \in 1..Len(s) : s[i] = s[j] => i = j
      /\ \A n \in DOMAIN nodes : \E i \in 1..Len(s) : s[i] = n
  BY <1>1, <1>2, ChainFacts DEF Chain
<1>4. 1 \in 1..Len(s) /\ next_req_rx = s[1]
  <2>1. At(s, 1) # Null
    BY <1>2 DEF Expired, Chain
  <2> QED  BY <1>2, <2>1 DEF At, Chain
<1>5. PICK r : r = s[1]
  OBVIOUS
<1>6. r \in DOMAIN nodes /\ nodes[r].next = At(s, 2)
  <2>1. nodes[s[1]].next = At(s, 1 + 1)
    BY <1>2, <1>4 DEF Chain
  <2> QED  BY <1>3, <1>4, <1>5, <2>1
<1>7. PICK t : t = [i \in 1..(Len(s) - 1) |-> s[i + 1]]
  OBVIOUS
<1>8. Len(s) - 1 \in Nat /\ \A i \in 1..(Len(s) - 1) : i + 1 \in 1..Len(s) /\ i + 1 # 1
  BY <1>3, <1>4
<1>9. \A i \in 1..(Len(s) - 1) : s[i + 1] \in DOMAIN nodes \ {r}
  BY <1>3, <1>4, <1>5, <1>8
<1>10. t \in Seq(DOMAIN nodes \ {r}) /\ Len(t) = Len(s) - 1
  <2>1. t \in [1..(Len(s) - 1) -> DOMAIN nodes \ {r}]
    BY <1>7, <1>9
  <2> QED  BY <1>8, <2>1
<1>11. \A i \in 1..Len(t) : /\ t[i] = s[i + 1] /\ i + 1 \in 1..Len(s)
                           /\ s[i + 1] \in DOMAIN nodes \ {r}
  BY <1>7, <1>10, <1>8, <1>9
<1>12. \A i \in 1..Len(s) : At(t, i) = At(s, i + 1)
  <2> SUFFICES ASSUME NEW i \in 1..Len(s) PROVE At(t, i) = At(s, i + 1)
    OBVIOUS
  <2>1. CASE i \in 1..Len(t)
    BY <1>11, <2>1 DEF At
  <2>2. CASE i \notin 1..Len(t)
    <3>1. i + 1 \notin 1..Len(s)
      BY <1>3, <1>10, <2>2
    <3> QED  BY <2>2, <3>1 DEF At
  <2> QED  BY <2>1, <2>2
<1>13. nodes' = [n \in DOMAIN nodes \ {r} |->
                   [nodes[n] EXCEPT !.prev = IF n = At(s, 2) THEN Null ELSE @]]
  BY <1>4, <1>5, <1>6 DEF Pop
<1>14. \A n \in DOMAIN nodes \ {r} :
         /\ nodes'[n] \in Node
         /\ nodes'[n].left = nodes[n].left
         /\ nodes'[n].next = nodes[n].next
         /\ nodes'[n].prev = IF n = At(s, 2) THEN Null ELSE nodes[n].prev
  <2>1. \A n \in DOMAIN nodes : nodes[n] \in Node
    BY <1>1 DEF NodesOK
  <2> QED  BY <1>13, <2>1 DEF Node, Null
<1>15. DOMAIN nodes' = DOMAIN nodes \ {r} /\ nodes' = [n \in DOMAIN nodes' |-> nodes'[n]]
  BY <1>13
<1>16. NodesOK'
  BY <1>1, <1>14, <1>15 DEF NodesOK
<1>17. Chain(t)'
  <2>1. \A n \in DOMAIN nodes \ {r} : \E i \in 1..Len(t) : t[i] = n
    <3> SUFFICES ASSUME NEW n \in DOMAIN nodes \ {r} PROVE \E i \in 1..Len(t) : t[i] = n
      OBVIOUS
    <3>1. PICK i \in 1..Len(s) : s[i] = n
      BY <1>3
    <3>2. i - 1 \in 1..Len(t) /\ i - 1 + 1 = i
      BY <1>3, <1>5, <1>10, <3>1
    <3>3. t[i - 1] = s[i - 1 + 1]
      BY <1>11, <3>2
    <3> QED  BY <3>1, <3>2, <3>3
  <2>2. \A i, j \in 1..Len(t) : t[i] = t[j] => i = j
    <3> SUFFICES ASSUME NEW i \in 1..Len(t), NEW j \in 1..Len(t), t[i] = t[j]
                 PROVE  i = j
      OBVIOUS
    <3>1. t[i] = s[i + 1] /\ t[j] = s[j + 1] /\ i + 1 \in 1..Len(s) /\ j + 1 \in 1..Len(s)
      BY <1>11
    <3>2. i + 1 = j + 1
      BY <1>3, <3>1
    <3> QED  BY <1>3, <1>10, <3>2
  <2>3. next_req_rx' = At(t, 1)
    BY <1>4, <1>5, <1>6, <1>12 DEF Pop
  <2>4. last_req_rx' = At(t, Len(t))
    <3>1. last_req_rx' = IF At(s, Len(s)) = r THEN At(s, 2) ELSE At(s, Len(s))
      BY <1>2, <1>4, <1>5, <1>6 DEF Pop, TailWithout, Chain
    <3>2. At(s, Len(s)) = s[Len(s)] /\ Len(s) \in 1..Len(s)
      BY <1>3, <1>4 DEF At
    <3>3. At(s, Len(s)) = r <=> Len(s) = 1
      BY <1>3, <1>4, <1>5, <3>2
    <3>4. CASE Len(s) = 1
      <4>1. At(s, 2) = Null /\ At(t, Len(t)) = Null
        BY <1>10, <3>4 DEF At
      <4> QED  BY <3>1, <3>3, <3>4, <4>1
    <3>5. CASE Len(s) # 1
      <4>1. Len(t) \in 1..Len(s) /\ Len(t) + 1 = Len(s)
        <5>1. \A n \in Nat : 1 \in 1..n /\ n # 1 => n - 1 \in 1..n /\ n - 1 + 1 = n
          OBVIOUS
        <5>2. Len(s) \in Nat
          BY <1>3
        <5> QED  BY <1>4, <1>10, <3>5, <5>1, <5>2
      <4> QED  BY <1>12, <3>1, <3>3, <3>5, <4>1
    <3> QED  BY <3>4, <3>5
  <2>5. ASSUME NEW i \in 1..Len(t)
        PROVE  nodes'[t[i]].next = At(t, i + 1) /\ nodes'[t[i]].prev = At(t, i - 1)
    <3>0. /\ t[i] = s[i + 1] /\ i + 1 \in 1..Len(s) /\ s[i + 1] \in DOMAIN nodes \ {r}
          /\ i + 1 - 1 = i
      BY <1>11
    <3>1. /\ t[i] = s[i + 1] /\ i + 1 \in 1..Len(s) /\ s[i + 1] \in DOMAIN nodes \ {r}
          /\ nodes[s[i + 1]].next = At(s, i + 1 + 1)
          /\ nodes[s[i + 1]].prev = At(s, i + 1 - 1) /\ i + 1 - 1 = i
      <4>1. \A k \in 1..Len(s) : /\ nodes[s[k]].next = At(s, k + 1)
                                 /\ nodes[s[k]].prev = At(s, k - 1)
        BY <1>2 DEF Chain
      <4> QED  BY <3>0, <4>1
    <3>2. At(t, i + 1) = At(s, i + 1 + 1)
      BY <1>12, <3>1
    <3>3. nodes'[t[i]].next = At(t, i + 1)
      BY <1>14, <3>1, <3>2
    <3>4. CASE i = 1
      <4>1. At(s, 2) = s[i + 1] /\ At(t, i - 1) = Null
        BY <3>1, <3>4 DEF At
      <4> QED  BY <1>14, <3>1, <3>3, <4>1
    <3>5. CASE i # 1
      <4>1. s[i + 1] # At(s, 2)
        <5>1. 2 \in 1..Len(s) /\ At(s, 2) = s[2] /\ i + 1 # 2
          BY <1>3, <1>10, <3>5 DEF At
        <5> QED  BY <1>3, <3>1, <5>1
      <4>2. nodes'[t[i]].prev = At(s, i)
        BY <1>14, <3>1, <4>1
      <4>3. At(t, i - 1) = At(s, i)
        <5>1. i - 1 \in 1..Len(s) /\ i - 1 + 1 = i
          BY <1>3, <1>10, <3>5
        <5> QED  BY <1>12, <5>1
      <4> QED  BY <3>3, <4>2, <4>3
    <3> QED  BY <3>4, <3>5
  <2> QED  BY <1>10, <1>15, <2>1, <2>2, <2>3, <2>4, <2>5 DEF Chain
<1>18. Ordered(t)'
  <2> SUFFICES ASSUME NEW i \in 1..Len(t), NEW j \in 1..Len(t), i < j
               PROVE  \/ nodes'[t[i]].left < nodes'[t[j]].left
                      \/ /\ nodes'[t[i]].left = nodes'[t[j]].left
                         /\ t[i] < t[j] \/ nodes'[t[i]].left = 0
    BY DEF Ordered
  <2>1. /\ t[i] = s[i + 1] /\ t[j] = s[j + 1] /\ i + 1 < j + 1
        /\ i + 1 \in 1..Len(s) /\ j + 1 \in 1..Len(s)
        /\ s[i + 1] \in DOMAIN nodes \ {r} /\ s[j + 1] \in DOMAIN nodes \ {r}
    BY <1>11
  <2>2. nodes'[t[i]].left = nodes[s[i + 1]].left /\ nodes'[t[j]].left = nodes[s[j + 1]].left
    BY <1>14, <2>1
  <2> QED  BY <1>2, <2>1, <2>2 DEF Ordered
<1> QED  BY <1>4, <1>5, <1>6, <1>15, <1>16, <1>17, <1>18 DEF ListOK

LEMMA TimeKeepsList ==
  ASSUME ListOK, TimePasses
  PROVE  ListOK' /\ DOMAIN nodes' = DOMAIN nodes
<1>1. NodesOK
  BY DEF ListOK
<1>2. PICK s : Chain(s) /\ Ordered(s)
  BY DEF ListOK
<1>3. \A n \in DOMAIN nodes : nodes[n] \in Node
  BY <1>1 DEF NodesOK
<1>4. nodes' = [n \in DOMAIN nodes |->
                  [nodes[n] EXCEPT !.left = IF @ = 0 THEN 0 ELSE @ - 1]]
      /\ UNCHANGED <<next_req_rx, last_req_rx>>
  BY DEF TimePasses
<1>5. \A n \in DOMAIN nodes :
        /\ nodes'[n] \in Node
        /\ nodes'[n].left = IF nodes[n].left = 0 THEN 0 ELSE nodes[n].left - 1
        /\ nodes'[n].next = nodes[n].next /\ nodes'[n].prev = nodes[n].prev
  BY <1>3, <1>4 DEF Node
<1>6. DOMAIN nodes' = DOMAIN nodes /\ nodes' = [n \in DOMAIN nodes' |-> nodes'[n]]
  BY <1>4
<1>7. NodesOK'
  BY <1>1, <1>5, <1>6 DEF NodesOK
<1>8. \A i \in 1..Len(s) : s[i] \in DOMAIN nodes
  BY <1>1, <1>2, ChainFacts
<1>9. Chain(s)'
  BY <1>2, <1>4, <1>5, <1>6, <1>8 DEF Chain
<1>10. Ordered(s)'
  <2> SUFFICES ASSUME NEW i \in 1..Len(s), NEW j \in 1..Len(s), i < j
               PROVE  \/ nodes'[s[i]].left < nodes'[s[j]].left
                      \/ /\ nodes'[s[i]].left = nodes'[s[j]].left
                         /\ s[i] < s[j] \/ nodes'[s[i]].left = 0
    BY DEF Ordered
  <2>1. nodes[s[i]].left \in Nat /\ nodes[s[j]].left \in Nat
    BY <1>3, <1>8 DEF Node
  <2>2. /\ nodes'[s[i]].left = IF nodes[s[i]].left = 0 THEN 0 ELSE nodes[s[i]].left - 1
        /\ nodes'[s[j]].left = IF nodes[s[j]].left = 0 THEN 0 ELSE nodes[s[j]].left - 1
    BY <1>5, <1>8
  <2>3. \/ nodes[s[i]].left < nodes[s[j]].left
        \/ /\ nodes[s[i]].left = nodes[s[j]].left
           /\ s[i] < s[j] \/ nodes[s[i]].left = 0
    BY <1>2 DEF Ordered
  <2> QED  BY <2>1, <2>2, <2>3
<1> QED  BY <1>6, <1>7, <1>9, <1>10 DEF ListOK

LEMMA EmptyList ==
  ASSUME nodes = <<>>, next_req_rx = Null, last_req_rx = Null
  PROVE  ListOK /\ DOMAIN nodes = {}
<1>1. DOMAIN nodes = {} /\ nodes \in [{} -> Node]
  OBVIOUS
<1>2. Chain(<<>>)
  BY <1>1 DEF Chain, At
<1>3. Ordered(<<>>)
  BY DEF Ordered
<1>4. NodesOK
  BY <1>1 DEF NodesOK
<1> QED  BY <1>1, <1>2, <1>3, <1>4 DEF ListOK

LEMMA SameList ==
  ASSUME ListOK, UNCHANGED listVars
  PROVE  ListOK' /\ DOMAIN nodes' = DOMAIN nodes
<1>1. PICK s : Chain(s) /\ Ordered(s)
  BY DEF ListOK
<1>2. NodesOK'
  BY DEF ListOK, NodesOK, listVars
<1>3. Chain(s)' /\ Ordered(s)'
  BY <1>1 DEF Chain, Ordered, listVars
<1> QED  BY <1>2, <1>3 DEF ListOK, listVars

-----------------------------------------------------------------------------
(***************************************************************************)
(* Where the requests are                                                  *)
(***************************************************************************)

DriverMessages == [command : {"REQ"}, r : Nat, wait : Waits] \cup {Term}
UserMessages ==
  [command : {"RESP"}, r : Nat, verdict : {"RESPONSIVE", "UNRESPONSIVE"}] \cup {Signal}

Named(pipe, command) == {i \in 1..Len(pipe) : pipe[i].command = command}

\* Requests reach the driver in the order of their numbers, so that those which
\* are past it, in the list N, in the pipe U or among the answers A, have lower
\* numbers than those still in the pipe D; and no two places hold the same one.
Apart(D, N, U, A, cnt) ==
  /\ \A i \in Named(D, "REQ") :
       /\ D[i].r \in 1..cnt
       /\ \A j \in Named(D, "REQ") : i < j => D[i].r < D[j].r
  /\ \A n \in N :
       /\ n \in 1..cnt
       /\ \A i \in Named(D, "REQ") : n < D[i].r
  /\ \A k \in Named(U, "RESP") :
       /\ U[k].r \in 1..cnt /\ U[k].r \notin N
       /\ \A i \in Named(D, "REQ") : U[k].r < D[i].r
       /\ \A j \in Named(U, "RESP") : U[j].r = U[k].r => j = k
  /\ \A k \in 1..Len(A) :
       /\ A[k] \in 1..cnt /\ A[k] \notin N
       /\ \A i \in Named(D, "REQ") : A[k] < D[i].r
       /\ \A j \in Named(U, "RESP") : U[j].r # A[k]
       /\ \A j \in 1..Len(A) : A[j] = A[k] => j = k

\* No request is lost.
Complete(D, N, U, A, cnt) ==
  \A n \in 1..cnt : \/ \E i \in Named(D, "REQ") : D[i].r = n
                    \/ n \in N
                    \/ \E i \in Named(U, "RESP") : U[i].r = n
                    \/ \E i \in 1..Len(A) : A[i] = n

PipesOK(D, U, A, cnt) ==
  D \in Seq(DriverMessages) /\ U \in Seq(UserMessages) /\ A \in Seq(Nat) /\ cnt \in Nat

\* What a sequence is without its first element.
LEMMA TailFacts ==
  ASSUME NEW S, NEW s \in Seq(S), s # <<>>
  PROVE  /\ Tail(s) \in Seq(S) /\ Head(s) = s[1] /\ Head(s) \in S /\ 1 \in 1..Len(s)
         /\ \A i \in 1..Len(Tail(s)) : i + 1 \in 1..Len(s) /\ Tail(s)[i] = s[i + 1]
         /\ \A i \in 1..Len(s) : \/ i = 1
                                 \/ i - 1 \in 1..Len(Tail(s)) /\ Tail(s)[i - 1] = s[i]
<1>1. /\ Tail(s) \in Seq(S) /\ Len(Tail(s)) = Len(s) - 1
      /\ \A i \in 1..Len(Tail(s)) : Tail(s)[i] = s[i + 1]
      /\ Head(s) \in S
  BY HeadTailProperties
<1>2. Len(s) \in Nat /\ Len(s) # 0
  BY EmptySeq
<1>3. Head(s) = s[1]
  OBVIOUS
<1>4. \A i \in 1..Len(Tail(s)) : i + 1 \in 1..Len(s)
  BY <1>1, <1>2
<1>5. ASSUME NEW i \in 1..Len(s), i # 1
      PROVE  i - 1 \in 1..Len(Tail(s)) /\ Tail(s)[i - 1] = s[i]
  <2>1. i - 1 \in 1..Len(Tail(s)) /\ i - 1 + 1 = i
    BY <1>1, <1>2, <1>5
  <2> QED  BY <1>1, <2>1
<1> QED  BY <1>1, <1>2, <1>3, <1>4, <1>5

\* What a sequence is with one more element.
LEMMA AppendFacts ==
  ASSUME NEW S, NEW s \in Seq(S), NEW e \in S
  PROVE  /\ Append(s, e) \in Seq(S)
         /\ \A i \in 1..Len(s) : i \in 1..Len(Append(s, e)) /\ Append(s, e)[i] = s[i]
         /\ Len(s) + 1 \in 1..Len(Append(s, e)) /\ Append(s, e)[Len(s) + 1] = e
         /\ \A i \in 1..Len(Append(s, e)) :
              \/ i \in 1..Len(s) /\ Append(s, e)[i] = s[i]
              \/ i = Len(s) + 1 /\ Append(s, e)[i] = e
<1>1. /\ Append(s, e) \in Seq(S) /\ Len(Append(s, e)) = Len(s) + 1
      /\ \A i \in 1..Len(s) : Append(s, e)[i] = s[i]
      /\ Append(s, e)[Len(s) + 1] = e
  BY AppendProperties
<1>2. Len(s) \in Nat
  BY LenProperties
<1> QED  BY <1>1, <1>2

\* The driver takes a message off the pipe; a request goes to the list.
LEMMA TakenByDriver ==
  ASSUME NEW D, NEW N, NEW U, NEW A, NEW cnt, PipesOK(D, U, A, cnt),
         Apart(D, N, U, A, cnt), D # <<>>
  PROVE  /\ PipesOK(Tail(D), U, A, cnt) /\ Apart(Tail(D), N, U, A, cnt)
         /\ Head(D).command = "REQ" =>
              /\ Apart(Tail(D), N \cup {Head(D).r}, U, A, cnt)
              /\ Complete(D, N, U, A, cnt)
                   => Complete(Tail(D), N \cup {Head(D).r}, U, A, cnt)
              /\ Head(D).r \in 1..cnt /\ \A n \in N : n < Head(D).r
<1>1. /\ Tail(D) \in Seq(DriverMessages) /\ Head(D) = D[1] /\ 1 \in 1..Len(D)
      /\ \A i \in 1..Len(Tail(D)) : i + 1 \in 1..Len(D) /\ Tail(D)[i] = D[i + 1]
      /\ \A i \in 1..Len(D) : \/ i = 1
                              \/ i - 1 \in 1..Len(Tail(D)) /\ Tail(D)[i - 1] = D[i]
  <2>1. D \in Seq(DriverMessages)
    BY DEF PipesOK
  <2> QED  BY <2>1, TailFacts
<1> DEFINE T == Tail(D)
<1>2. \A i \in Named(T, "REQ") : i + 1 \in Named(D, "REQ") /\ T[i] = D[i + 1] /\ i \in Int
  BY <1>1 DEF Named
<1>3. \A i \in Named(D, "REQ") : i = 1 \/ (i - 1 \in Named(T, "REQ") /\ T[i - 1] = D[i])
  BY <1>1 DEF Named
<1>4. PipesOK(T, U, A, cnt)
  BY <1>1 DEF PipesOK
<1> HIDE DEF T
<1>5. \A i \in Named(T, "REQ") :
        /\ T[i].r \in 1..cnt
        /\ \A j \in Named(T, "REQ") : i < j => T[i].r < T[j].r
  <2> SUFFICES ASSUME NEW i \in Named(T, "REQ")
               PROVE  /\ T[i].r \in 1..cnt
                      /\ \A j \in Named(T, "REQ") : i < j => T[i].r < T[j].r
    OBVIOUS
  <2>1. \A j \in Named(T, "REQ") : i < j => i + 1 < j + 1
    BY <1>2
  <2> QED  BY <1>2, <2>1 DEF Apart
<1>6. Apart(T, N, U, A, cnt)
  BY <1>2, <1>5 DEF Apart
<1>7. ASSUME Head(D).command = "REQ"
      PROVE  /\ Apart(T, N \cup {Head(D).r}, U, A, cnt)
             /\ Complete(D, N, U, A, cnt) => Complete(T, N \cup {Head(D).r}, U, A, cnt)
             /\ Head(D).r \in 1..cnt /\ \A n \in N : n < Head(D).r
  <2>1. 1 \in Named(D, "REQ")
    BY <1>1, <1>7 DEF Named
  <2>2. PICK r : r = Head(D).r
    OBVIOUS
  <2>3. r \in 1..cnt /\ \A n \in N : n < r
    BY <1>1, <2>1, <2>2 DEF Apart
  <2>4. \A i \in Named(T, "REQ") : r < T[i].r
    <3>1. \A i \in Named(T, "REQ") : 1 < i + 1
      BY DEF Named
    <3> QED  BY <1>1, <1>2, <2>1, <2>2, <3>1 DEF Apart
  <2>5. /\ \A k \in Named(U, "RESP") : U[k].r < r
        /\ \A k \in 1..Len(A) : A[k] < r
    BY <1>1, <2>1, <2>2 DEF Apart
  <2>6. ~(r < r)
    BY <2>3
  <2>7. Apart(T, N \cup {r}, U, A, cnt)
    BY <1>6, <2>3, <2>4, <2>5, <2>6 DEF Apart
  <2>8. Complete(D, N, U, A, cnt) => Complete(T, N \cup {r}, U, A, cnt)
    BY <1>1, <1>3, <2>2 DEF Complete
  <2> QED  BY <2>2, <2>3, <2>7, <2>8
<1> QED  BY <1>4, <1>6, <1>7 DEF T

\* Another message is put on the pipe to the driver, the next request or $TERM.
LEMMA PutForDriver ==
  ASSUME NEW D, NEW N, NEW U, NEW A, NEW cnt, PipesOK(D, U, A, cnt),
         Apart(D, N, U, A, cnt)
  PROVE  /\ /\ PipesOK(Append(D, Term), U, A, cnt)
            /\ Apart(Append(D, Term), N, U, A, cnt)
            /\ Complete(D, N, U, A, cnt) => Complete(Append(D, Term), N, U, A, cnt)
         /\ \A wait \in Waits :
              /\ PipesOK(Append(D, Req(cnt + 1, wait)), U, A, cnt + 1)
              /\ Apart(Append(D, Req(cnt + 1, wait)), N, U, A, cnt + 1)
              /\ Complete(D, N, U, A, cnt)
                   => Complete(Append(D, Req(cnt + 1, wait)), N, U, A, cnt + 1)
<1>0. D \in Seq(DriverMessages) /\ cnt \in Nat
  BY DEF PipesOK
<1>1. /\ PipesOK(Append(D, Term), U, A, cnt)
      /\ Apart(Append(D, Term), N, U, A, cnt)
      /\ Complete(D, N, U, A, cnt) => Complete(Append(D, Term), N, U, A, cnt)
  <2> DEFINE T == Append(D, Term)
  <2>1. Term \in DriverMessages /\ Term.command # "REQ"
    BY DEF DriverMessages, Term
  <2>2. /\ T \in Seq(DriverMessages)
        /\ \A i \in 1..Len(D) : i \in 1..Len(T) /\ T[i] = D[i]
        /\ \A i \in 1..Len(T) : \/ i \in 1..Len(D) /\ T[i] = D[i]
                                \/ i = Len(D) + 1 /\ T[i] = Term
    BY <1>0, <2>1, AppendFacts
  <2> HIDE DEF T
  <2>3. Named(T, "REQ") = Named(D, "REQ") /\ \A i \in Named(D, "REQ") : T[i] = D[i]
    BY <2>1, <2>2 DEF Named
  <2>4. Apart(T, N, U, A, cnt)
    BY <2>3 DEF Apart
  <2>5. Complete(D, N, U, A, cnt) => Complete(T, N, U, A, cnt)
    BY <2>3 DEF Complete
  <2>6. PipesOK(T, U, A, cnt)
    BY <2>2 DEF PipesOK
  <2> QED  BY <2>4, <2>5, <2>6 DEF T
<1>2. ASSUME NEW wait \in Waits
      PROVE  /\ PipesOK(Append(D, Req(cnt + 1, wait)), U, A, cnt + 1)
             /\ Apart(Append(D, Req(cnt + 1, wait)), N, U, A, cnt + 1)
             /\ Complete(D, N, U, A, cnt)
                  => Complete(Append(D, Req(cnt + 1, wait)), N, U, A, cnt + 1)
  <2> DEFINE m == Req(cnt + 1, wait)
             T == Append(D, m)
  <2>1. m \in DriverMessages /\ m.command = "REQ" /\ m.r = cnt + 1
    BY <1>0 DEF DriverMessages, Req
  <2> HIDE DEF m
  <2>2. /\ T \in Seq(DriverMessages)
        /\ \A i \in 1..Len(D) : i \in 1..Len(T) /\ T[i] = D[i]
        /\ Len(D) + 1 \in 1..Len(T) /\ T[Len(D) + 1] = m
        /\ \A i \in 1..Len(T) : \/ i \in 1..Len(D) /\ T[i] = D[i]
                                \/ i = Len(D) + 1 /\ T[i] = m
    BY <1>0, <2>1, AppendFacts
  <2> HIDE DEF T
  <2>3. /\ Len(D) \in Nat
        /\ Named(T, "REQ") = Named(D, "REQ") \cup {Len(D) + 1}
        /\ T[Len(D) + 1].r = cnt + 1
        /\ \A i \in Named(D, "REQ") : T[i] = D[i] /\ i \in Int /\ i < Len(D) + 1
    BY <1>0, <2>1, <2>2, LenProperties DEF Named
  <2>4. \A n \in 1..cnt : n \in 1..(cnt + 1) /\ n < cnt + 1
    BY <1>0
  <2>5. \A n \in 1..(cnt + 1) : n \in 1..cnt \/ n = cnt + 1
    BY <1>0
  <2>6. \A i \in Named(T, "REQ") :
          /\ T[i].r \in 1..(cnt + 1)
          /\ \A j \in Named(T, "REQ") : i < j => T[i].r < T[j].r
    <3>1. cnt + 1 \in 1..(cnt + 1)
      BY <1>0
    <3> SUFFICES ASSUME NEW i \in Named(T, "REQ")
                 PROVE  /\ T[i].r \in 1..(cnt + 1)
                        /\ \A j \in Named(T, "REQ") : i < j => T[i].r < T[j].r
      OBVIOUS
    <3>2. CASE i \in Named(D, "REQ")
      <4>1. D[i].r \in 1..cnt /\ \A j \in Named(D, "REQ") : i < j => D[i].r < D[j].r
        BY <3>2 DEF Apart
      <4>2. T[i].r = D[i].r /\ D[i].r \in 1..(cnt + 1) /\ D[i].r < cnt + 1
        BY <2>3, <2>4, <3>2, <4>1
      <4> QED  BY <2>3, <4>1, <4>2
    <3>3. CASE i = Len(D) + 1
      <4>1. \A j \in Named(T, "REQ") : ~(i < j)
        BY <2>3, <3>3
      <4> QED  BY <2>3, <3>1, <3>3, <4>1
    <3> QED  BY <2>3, <3>2, <3>3
  <2>7. Apart(T, N, U, A, cnt + 1)
    <3>1. \A n \in 1..cnt : (\A i \in Named(D, "REQ") : n < D[i].r)
                              => \A i \in Named(T, "REQ") : n < T[i].r
      BY <2>3, <2>4
    <3> QED  BY <2>4, <2>6, <3>1 DEF Apart
  <2>8. Complete(D, N, U, A, cnt) => Complete(T, N, U, A, cnt + 1)
    BY <2>3, <2>5 DEF Complete
  <2>9. PipesOK(T, U, A, cnt + 1)
    BY <1>0, <2>2 DEF PipesOK
  <2> QED  BY <2>7, <2>8, <2>9 DEF T, m
<1> QED  BY <1>1, <1>2

\* The list loses nodes.
LEMMA ListDropped ==
  ASSUME NEW D, NEW N, NEW M, NEW U, NEW A, NEW cnt, Apart(D, N, U, A, cnt), M \subseteq N
  PROVE  Apart(D, M, U, A, cnt)
<1> USE DEF Apart
<1>1. \A i \in Named(D, "REQ") :
        /\ D[i].r \in 1..cnt
        /\ \A j \in Named(D, "REQ") : i < j => D[i].r < D[j].r
  OBVIOUS
<1>2. \A n \in M : n \in 1..cnt /\ \A i \in Named(D, "REQ") : n < D[i].r
  OBVIOUS
<1>3. \A n : n \notin N => n \notin M
  OBVIOUS
<1> QED  BY <1>1, <1>2, <1>3

\* The driver puts a signal, or the answer to a request of its list, on the pipe to
\* the user.
LEMMA PutForUser ==
  ASSUME NEW D, NEW N, NEW U, NEW A, NEW cnt, PipesOK(D, U, A, cnt),
         Apart(D, N, U, A, cnt)
  PROVE  /\ /\ PipesOK(D, Append(U, Signal), A, cnt)
            /\ Apart(D, N, Append(U, Signal), A, cnt)
            /\ Complete(D, N, U, A, cnt) => Complete(D, N, Append(U, Signal), A, cnt)
         /\ \A m \in UserMessages : m.command = "RESP" /\ m.r \in N =>
              /\ PipesOK(D, Append(U, m), A, cnt)
              /\ Apart(D, N \ {m.r}, Append(U, m), A, cnt)
              /\ Complete(D, N, U, A, cnt) => Complete(D, N \ {m.r}, Append(U, m), A, cnt)
<1>0. U \in Seq(UserMessages)
  BY DEF PipesOK
<1>1. /\ PipesOK(D, Append(U, Signal), A, cnt)
      /\ Apart(D, N, Append(U, Signal), A, cnt)
      /\ Complete(D, N, U, A, cnt) => Complete(D, N, Append(U, Signal), A, cnt)
  <2> DEFINE T == Append(U, Signal)
  <2>1. Signal \in UserMessages /\ Signal.command # "RESP"
    BY DEF UserMessages, Signal
  <2>2. /\ T \in Seq(UserMessages)
        /\ \A i \in 1..Len(U) : i \in 1..Len(T) /\ T[i] = U[i]
        /\ \A i \in 1..Len(T) : \/ i \in 1..Len(U) /\ T[i] = U[i]
                                \/ i = Len(U) + 1 /\ T[i] = Signal
    BY <1>0, <2>1, AppendFacts
  <2> HIDE DEF T
  <2>3. Named(T, "RESP") = Named(U, "RESP") /\ \A i \in Named(U, "RESP") : T[i] = U[i]
    BY <2>1, <2>2 DEF Named
  <2>4. Apart(D, N, T, A, cnt)
    BY <2>3 DEF Apart
  <2>5. Complete(D, N, U, A, cnt) => Complete(D, N, T, A, cnt)
    BY <2>3 DEF Complete
  <2>6. PipesOK(D, T, A, cnt)
    BY <2>2 DEF PipesOK
  <2> QED  BY <2>4, <2>5, <2>6 DEF T
<1>2. ASSUME NEW m \in UserMessages, m.command = "RESP", m.r \in N
      PROVE  /\ PipesOK(D, Append(U, m), A, cnt)
             /\ Apart(D, N \ {m.r}, Append(U, m), A, cnt)
             /\ Complete(D, N, U, A, cnt) => Complete(D, N \ {m.r}, Append(U, m), A, cnt)
  <2> DEFINE T == Append(U, m)
  <2>1. /\ T \in Seq(UserMessages)
        /\ \A i \in 1..Len(U) : i \in 1..Len(T) /\ T[i] = U[i]
        /\ Len(U) + 1 \in 1..Len(T) /\ T[Len(U) + 1] = m
        /\ \A i \in 1..Len(T) : \/ i \in 1..Len(U) /\ T[i] = U[i]
                                \/ i = Len(U) + 1 /\ T[i] = m
    BY <1>0, AppendFacts
  <2> HIDE DEF T
  <2>2. PICK r, last : r = m.r /\ last = Len(U) + 1
    OBVIOUS
  <2>3. /\ Named(T, "RESP") = Named(U, "RESP") \cup {last}
        /\ T[last].r = r /\ r \in N /\ last \notin Named(U, "RESP")
        /\ \A i \in Named(U, "RESP") : T[i] = U[i]
    BY <1>0, <1>2, <2>1, <2>2, LenProperties DEF Named
  <2>4. r \in 1..cnt /\ \A i \in Named(D, "REQ") : r < D[i].r
    BY <2>3 DEF Apart
  <2>5. \A k \in Named(U, "RESP") : U[k].r # r
    BY <2>3 DEF Apart
  <2>6. Apart(D, N \ {r}, U, A, cnt)
    BY ListDropped
  <2>7. \A k \in Named(T, "RESP") :
          /\ T[k].r \in 1..cnt /\ T[k].r \notin N \ {r}
          /\ \A i \in Named(D, "REQ") : T[k].r < D[i].r
          /\ \A j \in Named(T, "RESP") : T[j].r = T[k].r => j = k
    <3> SUFFICES ASSUME NEW k \in Named(T, "RESP")
                 PROVE  /\ T[k].r \in 1..cnt /\ T[k].r \notin N \ {r}
                        /\ \A i \in Named(D, "REQ") : T[k].r < D[i].r
                        /\ \A j \in Named(T, "RESP") : T[j].r = T[k].r => j = k
      OBVIOUS
    <3>1. CASE k = last
      BY <2>3, <2>4, <2>5, <3>1
    <3>2. CASE k \in Named(U, "RESP")
      BY <2>3, <2>5, <2>6, <3>2 DEF Apart
    <3> QED  BY <2>3, <3>1, <3>2
  <2>8. \A k \in 1..Len(A) : A[k] # r
    BY <2>3 DEF Apart
  <2>9. Apart(D, N \ {r}, T, A, cnt)
    <3>1. \A k \in 1..Len(A) : \A j \in Named(T, "RESP") : T[j].r # A[k]
      BY <2>3, <2>6, <2>8 DEF Apart
    <3> QED  BY <2>6, <2>7, <3>1 DEF Apart
  <2>10. Complete(D, N, U, A, cnt) => Complete(D, N \ {r}, T, A, cnt)
    BY <2>3 DEF Complete
  <2>11. PipesOK(D, T, A, cnt)
    BY <2>1 DEF PipesOK
  <2> QED  BY <2>2, <2>9, <2>10, <2>11 DEF T
<1> QED  BY <1>1, <1>2

\* The user takes a message off the pipe; it keeps an answer, or drops it.
LEMMA TakenByUser ==
  ASSUME NEW D, NEW N, NEW U, NEW A, NEW cnt, PipesOK(D, U, A, cnt),
         Apart(D, N, U, A, cnt), U # <<>>
  PROVE  /\ PipesOK(D, Tail(U), A, cnt) /\ Apart(D, N, Tail(U), A, cnt)
         /\ Head(U).command # "RESP" /\ Complete(D, N, U, A, cnt)
              => Complete(D, N, Tail(U), A, cnt)
         /\ Head(U).command = "RESP" =>
              /\ PipesOK(D, Tail(U), Append(A, Head(U).r), cnt)
              /\ Apart(D, N, Tail(U), Append(A, Head(U).r), cnt)
              /\ Complete(D, N, U, A, cnt)
                   => Complete(D, N, Tail(U), Append(A, Head(U).r), cnt)
<1>1. /\ Tail(U) \in Seq(UserMessages) /\ Head(U) = U[1] /\ 1 \in 1..Len(U)
      /\ \A i \in 1..Len(Tail(U)) : i + 1 \in 1..Len(U) /\ Tail(U)[i] = U[i + 1]
      /\ \A i \in 1..Len(U) : \/ i = 1
                              \/ i - 1 \in 1..Len(Tail(U)) /\ Tail(U)[i - 1] = U[i]
  <2>1. U \in Seq(UserMessages)
    BY DEF PipesOK
  <2> QED  BY <2>1, TailFacts
<1> DEFINE T == Tail(U)
<1>2. \A i \in Named(T, "RESP") : /\ i + 1 \in Named(U, "RESP") /\ T[i] = U[i + 1]
                                  /\ i \in Int /\ i + 1 # 1
  BY <1>1 DEF Named
<1>3. \A i \in Named(U, "RESP") : i = 1 \/ (i - 1 \in Named(T, "RESP") /\ T[i - 1] = U[i])
  BY <1>1 DEF Named
<1>4. PipesOK(D, T, A, cnt)
  BY <1>1 DEF PipesOK
<1> HIDE DEF T
<1>5. \A k \in Named(T, "RESP") :
        /\ T[k].r \in 1..cnt /\ T[k].r \notin N
        /\ \A i \in Named(D, "REQ") : T[k].r < D[i].r
        /\ \A j \in Named(T, "RESP") : T[j].r = T[k].r => j = k
  <2> SUFFICES ASSUME NEW k \in Named(T, "RESP")
               PROVE  /\ T[k].r \in 1..cnt /\ T[k].r \notin N
                      /\ \A i \in Named(D, "REQ") : T[k].r < D[i].r
                      /\ \A j \in Named(T, "RESP") : T[j].r = T[k].r => j = k
    OBVIOUS
  <2>1. k + 1 \in Named(U, "RESP") /\ T[k] = U[k + 1]
    BY <1>2
  <2>2. ASSUME NEW j \in Named(T, "RESP"), T[j].r = T[k].r
        PROVE  j = k
    <3>1. j + 1 = k + 1
      BY <1>2, <2>1, <2>2 DEF Apart
    <3> QED  BY <1>2, <3>1
  <2> QED  BY <2>1, <2>2 DEF Apart
<1>6. \A k \in 1..Len(A) : \A j \in Named(T, "RESP") : T[j].r # A[k]
  BY <1>2 DEF Apart
<1>7. Apart(D, N, T, A, cnt)
  BY <1>5, <1>6 DEF Apart
<1>8. Head(U).command # "RESP" /\ Complete(D, N, U, A, cnt) => Complete(D, N, T, A, cnt)
  <2>1. Head(U).command # "RESP" => \A i \in Named(U, "RESP") : i # 1
    BY <1>1 DEF Named
  <2> QED  BY <1>3, <2>1 DEF Complete
<1>9. ASSUME Head(U).command = "RESP"
      PROVE  /\ PipesOK(D, T, Append(A, Head(U).r), cnt)
             /\ Apart(D, N, T, Append(A, Head(U).r), cnt)
             /\ Complete(D, N, U, A, cnt) => Complete(D, N, T, Append(A, Head(U).r), cnt)
  <2>1. 1 \in Named(U, "RESP")
    BY <1>1, <1>9 DEF Named
  <2>2. PICK r, B : r = Head(U).r /\ B = Append(A, r)
    OBVIOUS
  <2>3. /\ r \in 1..cnt /\ r \notin N
        /\ \A i \in Named(D, "REQ") : r < D[i].r
        /\ \A j \in Named(U, "RESP") : U[j].r = r => j = 1
        /\ \A k \in 1..Len(A) : A[k] # r
    BY <1>1, <2>1, <2>2 DEF Apart
  <2>4. \A j \in Named(T, "RESP") : T[j].r # r
    BY <1>2, <2>3
  <2>5. A \in Seq(Nat) /\ r \in Nat
    BY <2>3 DEF PipesOK
  <2>6. /\ B \in Seq(Nat)
        /\ \A i \in 1..Len(A) : i \in 1..Len(B) /\ B[i] = A[i]
        /\ Len(A) + 1 \in 1..Len(B) /\ B[Len(A) + 1] = r
        /\ \A i \in 1..Len(B) : \/ i \in 1..Len(A) /\ B[i] = A[i]
                                \/ i = Len(A) + 1 /\ B[i] = r
    BY <2>2, <2>5, AppendFacts
  <2>7. \A k \in 1..Len(B) :
          /\ B[k] \in 1..cnt /\ B[k] \notin N
          /\ \A i \in Named(D, "REQ") : B[k] < D[i].r
          /\ \A j \in Named(T, "RESP") : T[j].r # B[k]
          /\ \A j \in 1..Len(B) : B[j] = B[k] => j = k
    <3> SUFFICES ASSUME NEW k \in 1..Len(B)
                 PROVE  /\ B[k] \in 1..cnt /\ B[k] \notin N
                        /\ \A i \in Named(D, "REQ") : B[k] < D[i].r
                        /\ \A j \in Named(T, "RESP") : T[j].r # B[k]
                        /\ \A j \in 1..Len(B) : B[j] = B[k] => j = k
      OBVIOUS
    <3>1. CASE k \in 1..Len(A) /\ B[k] = A[k]
      <4>1. /\ A[k] \in 1..cnt /\ A[k] \notin N
            /\ \A i \in Named(D, "REQ") : A[k] < D[i].r
            /\ \A j \in Named(T, "RESP") : T[j].r # A[k]
            /\ \A j \in 1..Len(A) : A[j] = A[k] => j = k
        BY <1>7, <3>1 DEF Apart
      <4>2. A[k] # r
        BY <2>3, <3>1
      <4> QED  BY <2>6, <3>1, <4>1, <4>2
    <3>2. CASE k = Len(A) + 1 /\ B[k] = r
      BY <2>3, <2>4, <2>6, <3>2
    <3> QED  BY <2>6, <3>1, <3>2
  <2>8. Apart(D, N, T, B, cnt)
    BY <1>7, <2>7 DEF Apart
  <2>9. Complete(D, N, U, A, cnt) => Complete(D, N, T, B, cnt)
    <3> SUFFICES ASSUME Complete(D, N, U, A, cnt), NEW n \in 1..cnt
                 PROVE  \/ \E i \in Named(D, "REQ") : D[i].r = n
                        \/ n \in N
                        \/ \E i \in Named(T, "RESP") : T[i].r = n
                        \/ \E i \in 1..Len(B) : B[i] = n
      BY DEF Complete
    <3>1. CASE \E i \in 1..Len(A) : A[i] = n
      BY <2>6, <3>1
    <3>2. CASE \E i \in Named(U, "RESP") : U[i].r = n
      BY <1>1, <1>3, <2>2, <2>6, <3>2, SMTT(60)
    <3> QED  BY <3>1, <3>2 DEF Complete
  <2>10. PipesOK(D, T, B, cnt)
    BY <1>4, <2>6 DEF PipesOK
  <2> QED  BY <2>2, <2>8, <2>9, <2>10
<1> QED  BY <1>4, <1>7, <1>8, <1>9 DEF T

-----------------------------------------------------------------------------
(***************************************************************************)
(* The invariant                                                           *)
(***************************************************************************)

NoneTwice == Apart(toDriver, DOMAIN nodes, toUser, answers, req_cnt)
NoneLost == Complete(toDriver, DOMAIN nodes, toUser, answers, req_cnt)

\* Once the tool has taken the first signal, a signal means that the thread is
\* gone; before, at most one message can have come from a thread that is not.
SignalsOK ==
  /\ thread \in {"dead", "gone"} => dead
  /\ user = "creating" =>
       /\ req_cnt = 0
       /\ thread = "starting" => toUser = <<>>
       /\ thread # "gone" => Len(toUser) <= 1
  /\ user # "creating" =>
       /\ thread # "starting"
       /\ \A i \in 1..Len(toUser) : toUser[i] = Signal => thread = "gone"

IInv ==
  /\ ListOK
  /\ PipesOK(toDriver, toUser, answers, req_cnt)
  /\ NoneTwice
  /\ ~dead /\ user # "joining" => NoneLost
  /\ SignalsOK

LEMMA InitIInv == Init => IInv
<1> SUFFICES ASSUME Init PROVE IInv
  OBVIOUS
<1>1. /\ nodes = <<>> /\ next_req_rx = Null /\ last_req_rx = Null
      /\ thread = "starting" /\ toDriver = <<>> /\ toUser = <<>>
      /\ user = "creating" /\ req_cnt = 0 /\ answers = <<>>
  BY DEF Init, DriverInit, TestInit
<1>2. ListOK /\ DOMAIN nodes = {}
  BY <1>1, EmptyList
<1>3. /\ toDriver \in Seq(DriverMessages) /\ toUser \in Seq(UserMessages)
      /\ answers \in Seq(Nat) /\ req_cnt \in Nat
      /\ 1..Len(toDriver) = {} /\ 1..Len(toUser) = {} /\ 1..Len(answers) = {}
      /\ 1..req_cnt = {}
  BY <1>1
<1>4. PipesOK(toDriver, toUser, answers, req_cnt)
  BY <1>3 DEF PipesOK
<1>5. NoneTwice
  BY <1>2, <1>3 DEF NoneTwice, Apart, Named
<1>6. NoneLost
  BY <1>3 DEF NoneLost, Complete
<1>7. SignalsOK
  BY <1>1, <1>3 DEF SignalsOK
<1> QED  BY <1>2, <1>4, <1>5, <1>6, <1>7 DEF IInv

\* While it creates the driver, the tool has queued nothing, and no answer can have
\* come; nor is there a request in the list.
LEMMA NothingYet ==
  ASSUME IInv, user = "creating"
  PROVE  Named(toUser, "RESP") = {} /\ DOMAIN nodes = {}
<1>1. req_cnt = 0 /\ 1..req_cnt = {}
  BY DEF IInv, SignalsOK
<1> QED  BY <1>1 DEF IInv, NoneTwice, Apart

LEMMA OutcomesType ==
  ASSUME NEW wait \in Waits
  PROVE  Outcomes(wait) \subseteq [rtt : Nat, left : Nat]
<1>1. wait \in Nat /\ MaxRtt \in Nat /\ \A rtt \in 0..(MaxRtt - 1) : rtt \in Nat
  BY TestDriverAssumption
<1> QED  BY <1>1 DEF Outcomes, GivenUp, Answered

-----------------------------------------------------------------------------
(***************************************************************************)
(* The steps of the driver                                                 *)
(***************************************************************************)

\* Steps of the thread that touch neither the list nor the pipes.
LEMMA ThreadIInv ==
  ASSUME IInv, UNCHANGED userVars,
         InitFails \/ Interrupted \/ MarkDead \/ TimerFires \/ TimerDone
  PROVE  IInv'
<1>1. UNCHANGED <<nodes, next_req_rx, last_req_rx, toDriver, toUser,
                  user, req_cnt, answers>>
      /\ (dead => dead')
  BY DEF InitFails, Interrupted, MarkDead, TimerFires, TimerDone,
         testVars, listVars, pipeVars, userVars
<1>2. ListOK'
  BY <1>1, SameList DEF IInv, listVars
<1>3. PipesOK(toDriver, toUser, answers, req_cnt)'
  BY <1>1 DEF IInv, PipesOK
<1>4. NoneTwice' /\ (NoneLost => NoneLost')
  BY <1>1 DEF IInv, NoneTwice, NoneLost, Apart, Complete, Named
<1>5. SignalsOK'
  BY <1>1 DEF IInv, SignalsOK, InitFails, Interrupted, MarkDead, TimerFires, TimerDone
<1> QED  BY <1>1, <1>2, <1>3, <1>4, <1>5 DEF IInv

LEMMA TickIInv ==
  ASSUME IInv, UNCHANGED userVars, Tick
  PROVE  IInv'
<1>1. ListOK' /\ DOMAIN nodes' = DOMAIN nodes
  BY TimeKeepsList DEF IInv, Tick
<1>2. UNCHANGED <<thread, dead, toDriver, toUser, user, req_cnt, answers>>
  BY DEF Tick, pipeVars, userVars
<1>3. PipesOK(toDriver, toUser, answers, req_cnt)'
  BY <1>2 DEF IInv, PipesOK
<1>4. NoneTwice' /\ (NoneLost => NoneLost')
  BY <1>1, <1>2 DEF IInv, NoneTwice, NoneLost
<1>5. SignalsOK'
  BY <1>2 DEF IInv, SignalsOK
<1> QED  BY <1>1, <1>2, <1>3, <1>4, <1>5 DEF IInv

\* The thread signals that it has started, or that it has ended.
LEMMA SignalIInv ==
  ASSUME IInv, UNCHANGED userVars, InitThread \/ SignalEnd
  PROVE  IInv'
<1>1. /\ UNCHANGED <<nodes, next_req_rx, last_req_rx, dead, toDriver, user, req_cnt, answers>>
      /\ toUser' = Append(toUser, Signal)
  BY DEF InitThread, SignalEnd, testVars, listVars, userVars
<1>2. ListOK'
  BY <1>1, SameList DEF IInv, listVars
<1>3. /\ PipesOK(toDriver, toUser', answers, req_cnt)
      /\ Apart(toDriver, DOMAIN nodes, toUser', answers, req_cnt)
      /\ NoneLost => Complete(toDriver, DOMAIN nodes, toUser', answers, req_cnt)
  BY <1>1, PutForUser DEF IInv, NoneTwice, NoneLost
<1>4. PipesOK(toDriver, toUser, answers, req_cnt)' /\ NoneTwice' /\ (NoneLost => NoneLost')
  BY <1>1, <1>3 DEF PipesOK, NoneTwice, NoneLost
<1>5. SignalsOK'
  <2>1. /\ toUser = <<>> => Len(toUser') = 1
    BY <1>1
  <2> QED  BY <1>1, <2>1 DEF IInv, SignalsOK, InitThread, SignalEnd
<1> QED  BY <1>1, <1>2, <1>4, <1>5 DEF IInv

LEMMA HandleReqIInv ==
  ASSUME IInv, UNCHANGED userVars, HandleReq
  PROVE  IInv'
<1>1. PICK m : m = Head(toDriver)
  OBVIOUS
<1>2. /\ toDriver # <<>> /\ toDriver' = Tail(toDriver) /\ m.command = "REQ"
      /\ UNCHANGED <<thread, dead, toUser, user, req_cnt, answers>>
      /\ \E outcome \in Outcomes(m.wait) : Insert(m.r, outcome)
  BY <1>1 DEF HandleReq, Receives, HandleRequest, userVars
<1>3. m \in DriverMessages /\ m.wait \in Waits /\ m.r \in Nat
  <2>1. toDriver \in Seq(DriverMessages)
    BY DEF IInv, PipesOK
  <2>2. m \in DriverMessages
    BY <1>1, <1>2, <2>1, TailFacts
  <2> QED  BY <1>2, <2>2 DEF DriverMessages, Term
<1>4. /\ PipesOK(toDriver', toUser, answers, req_cnt)
      /\ Apart(toDriver', DOMAIN nodes \cup {m.r}, toUser, answers, req_cnt)
      /\ NoneLost => Complete(toDriver', DOMAIN nodes \cup {m.r}, toUser, answers, req_cnt)
      /\ m.r \in 1..req_cnt /\ \A n \in DOMAIN nodes : n < m.r
  BY <1>1, <1>2, TakenByDriver DEF IInv, NoneTwice, NoneLost
<1>5. PICK r, outcome : r = m.r /\ outcome \in Outcomes(m.wait) /\ Insert(r, outcome)
  BY <1>2
<1>6. outcome \in [rtt : Nat, left : Nat] /\ r \in Nat \ {Null}
  BY <1>3, <1>4, <1>5, OutcomesType DEF Null
<1>7. ListOK' /\ DOMAIN nodes' = DOMAIN nodes \cup {r}
  BY <1>4, <1>5, <1>6, InsertKeepsList DEF IInv
<1>8. PipesOK(toDriver, toUser, answers, req_cnt)' /\ NoneTwice' /\ (NoneLost => NoneLost')
  BY <1>2, <1>4, <1>5, <1>7 DEF PipesOK, NoneTwice, NoneLost
<1>9. SignalsOK'
  BY <1>2 DEF IInv, SignalsOK
<1> QED  BY <1>2, <1>7, <1>8, <1>9 DEF IInv

\* The last request or $TERM is taken off the pipe by a loop that ends.
LEMMA LoopEndsIInv ==
  ASSUME IInv, UNCHANGED userVars, HandleReqFails \/ HandleTerm
  PROVE  IInv'
<1>1. /\ UNCHANGED <<nodes, next_req_rx, last_req_rx, toUser, user, req_cnt, answers>>
      /\ toDriver # <<>> /\ toDriver' = Tail(toDriver)
      /\ dead' = TRUE /\ thread' = "ending" /\ thread = "looping"
  BY DEF HandleReqFails, HandleTerm, Receives, testVars, listVars, userVars
<1>2. ListOK'
  BY <1>1, SameList DEF IInv, listVars
<1>3. /\ PipesOK(toDriver', toUser, answers, req_cnt)
      /\ Apart(toDriver', DOMAIN nodes, toUser, answers, req_cnt)
  BY <1>1, TakenByDriver DEF IInv, NoneTwice
<1>4. PipesOK(toDriver, toUser, answers, req_cnt)' /\ NoneTwice'
  BY <1>1, <1>3 DEF PipesOK, NoneTwice
<1>5. SignalsOK'
  BY <1>1 DEF IInv, SignalsOK
<1> QED  BY <1>1, <1>2, <1>4, <1>5 DEF IInv

LEMMA YieldIInv ==
  ASSUME IInv, UNCHANGED userVars, YieldResp
  PROVE  IInv'
<1>1. PICK r, m : r = next_req_rx /\ m = Resp(next_req_rx, Verdict(next_req_rx))
  OBVIOUS
<1>2. /\ UNCHANGED <<thread, dead, toDriver, user, req_cnt, answers>>
      /\ thread = "yielding" /\ Expired /\ Pop /\ toUser' = Append(toUser, m)
  BY <1>1 DEF YieldResp, userVars
<1>3. ListOK' /\ r \in DOMAIN nodes /\ DOMAIN nodes' = DOMAIN nodes \ {r}
  BY <1>1, <1>2, PopKeepsList DEF IInv
<1>4. m \in UserMessages /\ m.command = "RESP" /\ m.r = r /\ m # Signal
  <2>1. r \in Nat
    BY <1>3 DEF IInv, ListOK, NodesOK
  <2>2. Verdict(r) \in {"RESPONSIVE", "UNRESPONSIVE"}
    BY DEF Verdict
  <2>3. m.command = "RESP" /\ m.r = r /\ Signal.command = "signal"
    BY <1>1 DEF Resp, Signal
  <2> QED  BY <1>1, <2>1, <2>2, <2>3 DEF UserMessages, Resp
<1>5. /\ PipesOK(toDriver, toUser', answers, req_cnt)
      /\ Apart(toDriver, DOMAIN nodes \ {m.r}, toUser', answers, req_cnt)
      /\ NoneLost => Complete(toDriver, DOMAIN nodes \ {m.r}, toUser', answers, req_cnt)
  BY <1>2, <1>3, <1>4, PutForUser DEF IInv, NoneTwice, NoneLost
<1>6. PipesOK(toDriver, toUser, answers, req_cnt)' /\ NoneTwice' /\ (NoneLost => NoneLost')
  BY <1>2, <1>3, <1>4, <1>5 DEF PipesOK, NoneTwice, NoneLost
<1>7. SignalsOK'
  <2>1. user # "creating"
    BY <1>3, NothingYet
  <2>2. toUser \in Seq(UserMessages)
    BY DEF IInv, PipesOK
  <2>3. \A i \in 1..Len(toUser') : toUser'[i] = Signal
                                    => i \in 1..Len(toUser) /\ toUser[i] = Signal
    BY <1>2, <1>4, <2>2, AppendFacts
  <2> QED  BY <1>2, <2>1, <2>3 DEF IInv, SignalsOK
<1> QED  BY <1>2, <1>3, <1>6, <1>7 DEF IInv

-----------------------------------------------------------------------------
(***************************************************************************)
(* The steps of the tool                                                   *)
(***************************************************************************)

\* What freeing the list does to the places of requests.
LEMMA Destroyed ==
  ASSUME IInv, DestroyList
  PROVE  /\ ListOK' /\ DOMAIN nodes' = {}
         /\ Apart(toDriver, {}, toUser, answers, req_cnt)
<1>1. ListOK' /\ DOMAIN nodes' = {}
  <2>1. nodes' = <<>> /\ next_req_rx' = Null /\ last_req_rx' = Null
    BY DEF DestroyList
  <2>2. (nodes = <<>> /\ next_req_rx = Null /\ last_req_rx = Null
           => ListOK /\ DOMAIN nodes = {})'
    BY EmptyList, PTL
  <2> QED  BY <2>1, <2>2
<1>2. {} \subseteq DOMAIN nodes
  OBVIOUS
<1> QED  BY <1>1, <1>2, ListDropped DEF IInv, NoneTwice

LEMMA CreateIInv ==
  ASSUME IInv, Create
  PROVE  IInv'
<1>1. /\ user = "creating" /\ user' \in {"exited", "queueing"}
      /\ toUser # <<>> /\ toUser' = Tail(toUser)
      /\ UNCHANGED <<req_cnt, answers, thread, dead, toDriver>>
      /\ IF dead THEN DestroyList ELSE UNCHANGED listVars
  BY DEF Create, ReceivesAny
<1>2. /\ ListOK' /\ DOMAIN nodes = {} /\ DOMAIN nodes' = {}
  <2>1. DOMAIN nodes = {}
    BY <1>1, NothingYet
  <2>2. CASE dead
    BY <1>1, <2>1, <2>2, Destroyed
  <2>3. CASE ~dead
    BY <1>1, <2>1, <2>3, SameList DEF IInv
  <2> QED  BY <2>1, <2>2, <2>3
<1>3. /\ PipesOK(toDriver, toUser', answers, req_cnt)
      /\ Apart(toDriver, DOMAIN nodes, toUser', answers, req_cnt)
  BY <1>1, TakenByUser DEF IInv, NoneTwice
<1>4. PipesOK(toDriver, toUser, answers, req_cnt)' /\ NoneTwice'
  BY <1>1, <1>2, <1>3 DEF PipesOK, NoneTwice
<1>5. NoneLost'
  <2>1. 1..req_cnt' = {}
    BY <1>1 DEF IInv, SignalsOK
  <2> QED  BY <2>1 DEF NoneLost, Complete
<1>6. SignalsOK'
  <2>1. thread # "starting" /\ (thread # "gone" => Len(toUser) <= 1)
    BY <1>1 DEF IInv, SignalsOK
  <2>2. toUser \in Seq(UserMessages) /\ Len(toUser) \in Nat
    BY LenProperties DEF IInv, PipesOK
  <2>3. Len(toUser') = Len(toUser) - 1
    BY <1>1, <2>2, HeadTailProperties
  <2>4. thread # "gone" => 1..Len(toUser') = {}
    BY <2>1, <2>2, <2>3
  <2> QED  BY <1>1, <2>1, <2>4 DEF IInv, SignalsOK
<1> QED  BY <1>2, <1>4, <1>5, <1>6 DEF IInv

LEMMA QueueReqIInv ==
  ASSUME IInv, QueueReq
  PROVE  IInv'
<1>1. /\ user = "queueing" /\ req_cnt' = req_cnt + 1
      /\ UNCHANGED <<user, answers, nodes, next_req_rx, last_req_rx, thread, dead, toUser>>
  BY DEF QueueReq, testVars, listVars
<1>2. PICK wait \in Waits : toDriver' = Append(toDriver, Req(req_cnt + 1, wait))
  BY DEF QueueReq
<1>3. ListOK'
  BY <1>1, SameList DEF IInv, listVars
<1>4. /\ PipesOK(toDriver', toUser, answers, req_cnt + 1)
      /\ Apart(toDriver', DOMAIN nodes, toUser, answers, req_cnt + 1)
      /\ NoneLost => Complete(toDriver', DOMAIN nodes, toUser, answers, req_cnt + 1)
  BY <1>2, PutForDriver DEF IInv, NoneTwice, NoneLost
<1>5. PipesOK(toDriver, toUser, answers, req_cnt)' /\ NoneTwice' /\ (NoneLost => NoneLost')
  BY <1>1, <1>4 DEF PipesOK, NoneTwice, NoneLost
<1>6. SignalsOK'
  BY <1>1 DEF IInv, SignalsOK
<1> QED  BY <1>1, <1>3, <1>5, <1>6 DEF IInv

\* Steps of the tool that move no message.
LEMMA ToolIInv ==
  ASSUME IInv, Queued \/ AllReceived
  PROVE  IInv'
<1>1. /\ user \in {"queueing", "receiving"} /\ user' \in {"receiving", "destroying"}
      /\ UNCHANGED <<nodes, next_req_rx, last_req_rx, thread, dead, toDriver, toUser,
                     req_cnt, answers>>
  BY DEF Queued, AllReceived, driverVars, testVars, listVars, pipeVars
<1>2. ListOK'
  BY <1>1, SameList DEF IInv, listVars
<1>3. PipesOK(toDriver, toUser, answers, req_cnt)'
  BY <1>1 DEF IInv, PipesOK
<1>4. NoneTwice' /\ (NoneLost => NoneLost')
  BY <1>1 DEF IInv, NoneTwice, NoneLost, Apart, Complete, Named
<1>5. SignalsOK'
  BY <1>1 DEF IInv, SignalsOK
<1> QED  BY <1>1, <1>2, <1>3, <1>4, <1>5 DEF IInv

\* The tool takes a message off the pipe.
LEMMA TakenFacts ==
  ASSUME IInv, ReceivesAny, UNCHANGED <<toDriver, nodes>>
  PROVE  /\ PipesOK(toDriver, toUser', answers, req_cnt)
         /\ Apart(toDriver, DOMAIN nodes, toUser', answers, req_cnt)
         /\ Head(toUser).command # "RESP" /\ NoneLost
              => Complete(toDriver, DOMAIN nodes, toUser', answers, req_cnt)
         /\ Head(toUser).command = "RESP" =>
              /\ PipesOK(toDriver, toUser', Append(answers, Head(toUser).r), req_cnt)
              /\ Apart(toDriver, DOMAIN nodes, toUser', Append(answers, Head(toUser).r), req_cnt)
              /\ NoneLost => Complete(toDriver, DOMAIN nodes, toUser',
                                      Append(answers, Head(toUser).r), req_cnt)
         /\ \A i \in 1..Len(toUser') : i + 1 \in 1..Len(toUser) /\ toUser'[i] = toUser[i + 1]
<1>1. toUser # <<>> /\ toUser' = Tail(toUser)
  BY DEF ReceivesAny
<1>2. toUser \in Seq(UserMessages)
  BY DEF IInv, PipesOK
<1>3. \A i \in 1..Len(toUser') : i + 1 \in 1..Len(toUser) /\ toUser'[i] = toUser[i + 1]
  BY <1>1, <1>2, TailFacts
<1> QED  BY <1>1, <1>3, TakenByUser DEF IInv, NoneTwice, NoneLost

LEMMA ReceiveIInv ==
  ASSUME IInv, RecvFails \/ RecvResp \/ DropAnswer
  PROVE  IInv'
<1>1. /\ ReceivesAny /\ user # "creating" /\ user' # "creating"
      /\ UNCHANGED <<nodes, next_req_rx, last_req_rx, thread, dead, toDriver, req_cnt>>
  BY DEF RecvFails, RecvResp, DropAnswer, testVars, listVars
<1>2. ListOK'
  BY <1>1, SameList DEF IInv, listVars
<1>3. /\ \A i \in 1..Len(toUser') : i + 1 \in 1..Len(toUser) /\ toUser'[i] = toUser[i + 1]
  BY <1>1, TakenFacts
<1>4. SignalsOK'
  BY <1>1, <1>3 DEF IInv, SignalsOK
<1>5. CASE RecvFails
  <2>1. /\ user = "receiving" /\ answers' = answers
        /\ dead \/ Head(toUser).command # "RESP"
    BY <1>5 DEF RecvFails
  <2>2. PipesOK(toDriver, toUser, answers, req_cnt)' /\ NoneTwice'
    BY <1>1, <2>1, TakenFacts DEF PipesOK, NoneTwice
  <2>3. ~dead' => NoneLost'
    BY <1>1, <2>1, TakenFacts DEF IInv, NoneLost
  <2> QED  BY <1>2, <1>4, <2>2, <2>3 DEF IInv
<1>6. CASE RecvResp
  <2>1. /\ user = "receiving" /\ answers' = Append(answers, Head(toUser).r)
        /\ Head(toUser).command = "RESP"
    BY <1>6 DEF RecvResp
  <2>2. PipesOK(toDriver, toUser, answers, req_cnt)' /\ NoneTwice'
    BY <1>1, <2>1, TakenFacts DEF PipesOK, NoneTwice
  <2>3. ~dead' => NoneLost'
    BY <1>1, <2>1, TakenFacts DEF IInv, NoneLost
  <2> QED  BY <1>2, <1>4, <2>2, <2>3 DEF IInv
<1>7. CASE DropAnswer
  <2>1. user' = "joining" /\ answers' = answers
    BY <1>7 DEF DropAnswer
  <2>2. PipesOK(toDriver, toUser, answers, req_cnt)' /\ NoneTwice'
    BY <1>1, <2>1, TakenFacts DEF PipesOK, NoneTwice
  <2> QED  BY <1>2, <1>4, <2>1, <2>2 DEF IInv
<1> QED  BY <1>5, <1>6, <1>7

LEMMA SendTermIInv ==
  ASSUME IInv, SendTerm
  PROVE  IInv'
<1>1. /\ user = "destroying" /\ user' = "joining" /\ toDriver' = Append(toDriver, Term)
      /\ UNCHANGED <<nodes, next_req_rx, last_req_rx, thread, dead, toUser, req_cnt, answers>>
  BY DEF SendTerm, testVars, listVars
<1>2. ListOK'
  BY <1>1, SameList DEF IInv, listVars
<1>3. /\ PipesOK(toDriver', toUser, answers, req_cnt)
      /\ Apart(toDriver', DOMAIN nodes, toUser, answers, req_cnt)
  BY <1>1, PutForDriver DEF IInv, NoneTwice
<1>4. PipesOK(toDriver, toUser, answers, req_cnt)' /\ NoneTwice'
  BY <1>1, <1>3 DEF PipesOK, NoneTwice
<1>5. SignalsOK'
  BY <1>1 DEF IInv, SignalsOK
<1> QED  BY <1>1, <1>2, <1>4, <1>5 DEF IInv

\* The tool frees the list of a driver that is gone.
LEMMA DestroyIInv ==
  ASSUME IInv, AlreadyGone \/ Join
  PROVE  IInv'
<1>1. /\ DestroyList /\ user # "creating" /\ user' = "exited"
      /\ UNCHANGED <<thread, dead, toDriver, req_cnt, answers>>
  BY DEF AlreadyGone, Join, pipeVars
<1>2. ListOK' /\ DOMAIN nodes' = {}
  BY <1>1, Destroyed
<1>3. CASE AlreadyGone
  <2>1. toUser' = toUser /\ thread = "gone"
    BY <1>3 DEF AlreadyGone, pipeVars
  <2>2. PipesOK(toDriver, toUser, answers, req_cnt)' /\ NoneTwice'
    BY <1>1, <1>2, <2>1, Destroyed DEF IInv, PipesOK, NoneTwice
  <2>3. SignalsOK' /\ dead'
    BY <1>1, <2>1 DEF IInv, SignalsOK
  <2> QED  BY <1>2, <2>2, <2>3 DEF IInv
<1>4. CASE Join
  <2>1. toUser # <<>> /\ toUser' = Tail(toUser) /\ Head(toUser) = Signal
    BY <1>4 DEF Join, ReceivesAny
  <2>2. toUser \in Seq(UserMessages)
    BY DEF IInv, PipesOK
  <2>3. /\ Head(toUser) = toUser[1] /\ 1 \in 1..Len(toUser)
        /\ \A i \in 1..Len(toUser') : i + 1 \in 1..Len(toUser) /\ toUser'[i] = toUser[i + 1]
    BY <2>1, <2>2, TailFacts
  <2>4. thread = "gone" /\ dead
    BY <1>1, <2>1, <2>3 DEF IInv, SignalsOK
  <2>5. SignalsOK' /\ dead'
    BY <1>1, <2>3, <2>4 DEF IInv, SignalsOK
  <2>6. PipesOK(toDriver, toUser, answers, req_cnt)
        /\ Apart(toDriver, {}, toUser, answers, req_cnt)
    BY <1>1, Destroyed DEF IInv
  <2>7. PipesOK(toDriver, toUser', answers, req_cnt)
        /\ Apart(toDriver, {}, toUser', answers, req_cnt)
    BY <2>1, <2>6, TakenByUser
  <2>8. PipesOK(toDriver, toUser, answers, req_cnt)' /\ NoneTwice'
    BY <1>1, <1>2, <2>7 DEF PipesOK, NoneTwice
  <2> QED  BY <1>2, <2>5, <2>8 DEF IInv
<1> QED  BY <1>1, <1>3, <1>4

LEMMA StepIInv == IInv /\ [Next]_vars => IInv'
<1> SUFFICES ASSUME IInv, [Next]_vars PROVE IInv'
  OBVIOUS
<1>1. CASE DriverNext /\ UNCHANGED userVars
  BY <1>1, ThreadIInv, TickIInv, SignalIInv, HandleReqIInv, LoopEndsIInv, YieldIInv
     DEF DriverNext
<1>2. CASE UserNext
  BY <1>2, CreateIInv, QueueReqIInv, ToolIInv, ReceiveIInv, SendTermIInv, DestroyIInv
     DEF UserNext
<1>3. CASE UNCHANGED vars
  <2>1. UNCHANGED <<nodes, next_req_rx, last_req_rx, thread, dead, toDriver, toUser,
                    user, req_cnt, answers>>
    BY <1>3 DEF vars, driverVars, testVars, listVars, pipeVars, userVars
  <2>2. ListOK'
    BY <2>1, SameList DEF IInv, listVars
  <2>3. PipesOK(toDriver, toUser, answers, req_cnt)'
    BY <2>1 DEF IInv, PipesOK
  <2>4. NoneTwice' /\ (NoneLost => NoneLost')
    BY <2>1 DEF IInv, NoneTwice, NoneLost, Apart, Complete, Named
  <2>5. SignalsOK'
    BY <2>1 DEF IInv, SignalsOK
  <2> QED  BY <2>1, <2>2, <2>3, <2>4, <2>5 DEF IInv
<1> QED  BY <1>1, <1>2, <1>3 DEF Next, DriverSteps

-----------------------------------------------------------------------------

\* However requests, timers, time and the destruction of the driver follow each
\* other, the list of answers is linked in both directions, holds every queued
\* request, and is in the order in which the answers are due.
THEOREM ListStaysInOrder == Spec => []ListInOrder
<1>1. IInv => ListInOrder
  BY ListOKInOrder DEF IInv
<1> QED  BY InitIInv, StepIInv, <1>1, PTL DEF Spec

\* Reading the list finds each of its nodes, once.
LEMMA ForwardFacts ==
  ASSUME ListOK
  PROVE  /\ \A i \in DOMAIN Forward : Forward[i] \in DOMAIN nodes
         /\ \A n \in DOMAIN nodes : \E i \in DOMAIN Forward : Forward[i] = n
         /\ \A i, j \in DOMAIN Forward : Forward[i] = Forward[j] => i = j
<1>1. NodesOK
  BY DEF ListOK
<1>2. PICK s : Chain(s)
  BY DEF ListOK
<1>3. Forward = s
  BY <1>1, <1>2, ForwardIsChain
<1>4. DOMAIN s = 1..Len(s) /\ \A i \in 1..Len(s) : s[i] \in DOMAIN nodes
  BY <1>1, <1>2, ChainFacts
<1>5. /\ \A n \in DOMAIN nodes : \E i \in 1..Len(s) : s[i] = n
      /\ \A i, j \in 1..Len(s) : s[i] = s[j] => i = j
  BY <1>2 DEF Chain
<1> QED  BY <1>3, <1>4, <1>5

\* The places of the property, by kind.
LEMMA PlacesFacts ==
  ASSUME PipesOK(toDriver, toUser, answers, req_cnt)
  PROVE  /\ Places = {<<"toDriver", i>> : i \in Named(toDriver, "REQ")}
                       \cup {<<"list", i>> : i \in DOMAIN Forward}
                       \cup {<<"toUser", i>> : i \in Named(toUser, "RESP")}
                       \cup {<<"answers", i>> : i \in 1..Len(answers)}
         /\ \A i : /\ RequestAt(<<"toDriver", i>>) = toDriver[i].r
                   /\ RequestAt(<<"list", i>>) = Forward[i]
                   /\ RequestAt(<<"toUser", i>>) = toUser[i].r
                   /\ RequestAt(<<"answers", i>>) = answers[i]
<1>1. /\ DOMAIN toDriver = 1..Len(toDriver) /\ DOMAIN toUser = 1..Len(toUser)
      /\ DOMAIN answers = 1..Len(answers)
  BY LenProperties DEF PipesOK
<1>2. Places = {<<"toDriver", i>> : i \in Named(toDriver, "REQ")}
                 \cup {<<"list", i>> : i \in DOMAIN Forward}
                 \cup {<<"toUser", i>> : i \in Named(toUser, "RESP")}
                 \cup {<<"answers", i>> : i \in 1..Len(answers)}
  BY <1>1 DEF Places, Named
<1>3. \A i : /\ RequestAt(<<"toDriver", i>>) = toDriver[i].r
             /\ RequestAt(<<"list", i>>) = Forward[i]
             /\ RequestAt(<<"toUser", i>>) = toUser[i].r
             /\ RequestAt(<<"answers", i>>) = answers[i]
  BY DEF RequestAt
<1> QED  BY <1>2, <1>3

LEMMA IInvAnsweredOnce == IInv => EachAnsweredOnce
<1> SUFFICES ASSUME IInv PROVE EachAnsweredOnce
  OBVIOUS
<1>1. /\ Places = {<<"toDriver", i>> : i \in Named(toDriver, "REQ")}
                    \cup {<<"list", i>> : i \in DOMAIN Forward}
                    \cup {<<"toUser", i>> : i \in Named(toUser, "RESP")}
                    \cup {<<"answers", i>> : i \in 1..Len(answers)}
      /\ \A i : /\ RequestAt(<<"toDriver", i>>) = toDriver[i].r
                /\ RequestAt(<<"list", i>>) = Forward[i]
                /\ RequestAt(<<"toUser", i>>) = toUser[i].r
                /\ RequestAt(<<"answers", i>>) = answers[i]
  BY PlacesFacts DEF IInv
<1>2. /\ \A i \in DOMAIN Forward : Forward[i] \in DOMAIN nodes
      /\ \A n \in DOMAIN nodes : \E i \in DOMAIN Forward : Forward[i] = n
      /\ \A i, j \in DOMAIN Forward : Forward[i] = Forward[j] => i = j
  BY ForwardFacts DEF IInv
<1>3. Apart(toDriver, DOMAIN nodes, toUser, answers, req_cnt)
  BY DEF IInv, NoneTwice
<1>4. ASSUME NEW p \in Places, NEW q \in Places, RequestAt(p) = RequestAt(q)
      PROVE  p = q
  <2>1. \A m, n \in 1..req_cnt : m = n => ~(m < n)
    OBVIOUS
  <2>2. /\ \A i, j \in Named(toDriver, "REQ") : toDriver[i].r = toDriver[j].r => i = j
        /\ \A i \in Named(toDriver, "REQ") :
             /\ toDriver[i].r \notin DOMAIN nodes
             /\ \A k \in Named(toUser, "RESP") : toDriver[i].r # toUser[k].r
             /\ \A k \in 1..Len(answers) : toDriver[i].r # answers[k]
    <3>1. \A i, j \in Named(toDriver, "REQ") : i < j \/ j < i \/ i = j
      BY DEF Named
    <3> QED  BY <1>3, <2>1, <3>1 DEF Apart
  <2>3. \A k \in Named(toUser, "RESP") :
          /\ toUser[k].r \notin DOMAIN nodes
          /\ \A j \in Named(toUser, "RESP") : toUser[j].r = toUser[k].r => j = k
          /\ \A j \in 1..Len(answers) : answers[j] # toUser[k].r
    BY <1>3 DEF Apart
  <2>4. \A k \in 1..Len(answers) :
          /\ answers[k] \notin DOMAIN nodes
          /\ \A j \in 1..Len(answers) : answers[j] = answers[k] => j = k
    BY <1>3 DEF Apart
  <2>5. CASE \E i \in Named(toDriver, "REQ") : p = <<"toDriver", i>>
    BY <1>1, <1>2, <1>4, <2>2, <2>5
  <2>6. CASE \E i \in DOMAIN Forward : p = <<"list", i>>
    BY <1>1, <1>2, <1>4, <2>2, <2>3, <2>4, <2>6
  <2>7. CASE \E i \in Named(toUser, "RESP") : p = <<"toUser", i>>
    BY <1>1, <1>2, <1>4, <2>2, <2>3, <2>7
  <2>8. CASE \E i \in 1..Len(answers) : p = <<"answers", i>>
    BY <1>1, <1>2, <1>4, <2>2, <2>3, <2>4, <2>8
  <2> QED  BY <1>1, <2>5, <2>6, <2>7, <2>8
<1>5. ASSUME ~dead, user # "joining"
      PROVE  {RequestAt(p) : p \in Places} = 1..req_cnt
  <2>1. ASSUME NEW p \in Places
        PROVE  RequestAt(p) \in 1..req_cnt
    BY <1>1, <1>2, <1>3 DEF Apart
  <2>2. ASSUME NEW n \in 1..req_cnt
        PROVE  \E p \in Places : RequestAt(p) = n
    <3>1. Complete(toDriver, DOMAIN nodes, toUser, answers, req_cnt)
      BY <1>5 DEF IInv, NoneLost
    <3>2. CASE \E i \in Named(toDriver, "REQ") : toDriver[i].r = n
      BY <1>1, <3>2
    <3>3. CASE n \in DOMAIN nodes
      <4>1. PICK i \in DOMAIN Forward : Forward[i] = n
        BY <1>2, <3>3
      <4>2. <<"list", i>> \in Places
        BY <1>1
      <4>3. RequestAt(<<"list", i>>) = n
        BY <1>1, <4>1
      <4> QED  BY <4>2, <4>3
    <3>4. CASE \E i \in Named(toUser, "RESP") : toUser[i].r = n
      BY <1>1, <3>4
    <3>5. CASE \E i \in 1..Len(answers) : answers[i] = n
      BY <1>1, <3>5
    <3> QED  BY <3>1, <3>2, <3>3, <3>4, <3>5 DEF Complete
  <2> QED  BY <2>1, <2>2
<1> QED  BY <1>4, <1>5 DEF EachAnsweredOnce

\* No request is ever in two places, in the pipes, in the driver's list or among
\* the answers, and none is lost while the driver lives and is not being joined.
THEOREM EachIsAnsweredOnce == Spec => []EachAnsweredOnce
  BY InitIInv, StepIInv, IInvAnsweredOnce, PTL DEF Spec

=============================================================================

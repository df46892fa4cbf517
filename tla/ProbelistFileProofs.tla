------------------------ MODULE ProbelistFileProofs -------------------------
(***************************************************************************)
(* Proofs about module ProbelistFile, for every history, every filter and  *)
(* every value of the parameters: the limit that gen-probelist is given,   *)
(* what its files say, and that a prober reads from a file that has been   *)
(* ended what the tool has written to it.                                  *)
(***************************************************************************)
EXTENDS ProbelistFile, ProbelistTextProofs

-----------------------------------------------------------------------------
(* The limit                                                                 *)

\* A /24 is written only once it has been counted among the responsive ones.
WrittenAreCounted ==
  /\ resp_slash24_cnt \in Nat /\ objects_written \in Nat /\ max_slash24_cnt \in Nat
  /\ objects_written <= resp_slash24_cnt

\* While the tool reads, the limit has not been reached; once it has, the /24 that
\* is still to be dumped is one to skip.
LimitIsSeen ==
  max_slash24_cnt > 0 =>
    /\ resp_slash24_cnt <= max_slash24_cnt
    /\ phase = "reading" => resp_slash24_cnt < max_slash24_cnt
    /\ phase = "stopped" => skip

\* The invariant about the limit.
LimitInv == WrittenAreCounted /\ LimitIsSeen

LEMMA LimitInit == Init => LimitInv
  BY ProbelistFileAssumption
     DEF Init, Gen!Init, Gen!GenConstants, LimitInv, WrittenAreCounted, LimitIsSeen

\* What dumping a /24 does to the two counters.
LEMMA DumpCounts ==
  ASSUME WrittenAreCounted, Gen!Dump
  PROVE  /\ resp_slash24_cnt' \in Nat /\ objects_written' \in Nat
         /\ objects_written' <= resp_slash24_cnt'
         /\ resp_slash24_cnt' \in {resp_slash24_cnt, resp_slash24_cnt + 1}
         /\ skip => resp_slash24_cnt' = resp_slash24_cnt
  BY DEF WrittenAreCounted, Gen!Dump, Gen!Writes, Gen!Usable

LEMMA LimitStep ==
  ASSUME LimitInv, [Next]_vars
  PROVE  LimitInv'
<1>0. WrittenAreCounted /\ LimitIsSeen
  BY DEF LimitInv
<1>1. ASSUME NEW l \in Lines, Gen!SameSlash24(l) PROVE LimitInv'
  <2>1. UNCHANGED <<phase, max_slash24_cnt, resp_slash24_cnt, objects_written>>
        /\ phase = "reading"
    BY <1>1 DEF Gen!SameSlash24, Gen!LineComes, Gen!optionVars, Gen!outVars
  <2> QED  BY <1>0, <2>1 DEF LimitInv, WrittenAreCounted, LimitIsSeen
<1>2. ASSUME NEW l \in Lines, Gen!NextSlash24(l) PROVE LimitInv'
  <2>1. /\ phase = "reading" /\ Gen!Dump /\ max_slash24_cnt' = max_slash24_cnt
        /\ phase' = IF Gen!Stops THEN "stopped" ELSE "reading"
        /\ Gen!Stops => skip'
    BY <1>2 DEF Gen!NextSlash24, Gen!LineComes, Gen!optionVars
  <2>2. Gen!Stops <=> max_slash24_cnt > 0 /\ resp_slash24_cnt' = max_slash24_cnt
    BY DEF Gen!Stops
  <2> QED  BY <1>0, <2>1, <2>2, DumpCounts DEF LimitInv, WrittenAreCounted, LimitIsSeen
<1>3. CASE Gen!BadLine
  <2>1. UNCHANGED <<max_slash24_cnt, resp_slash24_cnt, objects_written>>
        /\ phase' = "failed"
    BY <1>3 DEF Gen!BadLine, Gen!optionVars, Gen!outVars
  <2> QED  BY <1>0, <2>1 DEF LimitInv, WrittenAreCounted, LimitIsSeen
\* The /24 that is dumped last is skipped, or was begun below the limit.
<1>4. CASE Gen!Finish
  <2>1. /\ phase \in {"reading", "stopped"} /\ Gen!Dump
        /\ max_slash24_cnt' = max_slash24_cnt /\ phase' = "done"
    BY <1>4 DEF Gen!Finish, Gen!optionVars
  <2> QED  BY <1>0, <2>1, DumpCounts DEF LimitInv, WrittenAreCounted, LimitIsSeen
<1>5. CASE OpensFile \/ Reads \/ UNCHANGED vars
  <2>1. UNCHANGED genVars
    BY <1>5 DEF OpensFile, Reads, vars
  <2> QED  BY <1>0, <2>1 DEF genVars, LimitInv, WrittenAreCounted, LimitIsSeen
<1> QED  BY <1>1, <1>2, <1>3, <1>4, <1>5 DEF Next, Generates, Gen!Next

\* No more /24s are written than -c asks for: the one whose first line is read
\* when the limit is reached is not dumped again at the end.
THEOREM LimitIsKept == Spec => []WithinLimit
<1>1. LimitInv => WithinLimit
  BY DEF LimitInv, WrittenAreCounted, LimitIsSeen, WithinLimit, Gen!WithinLimit
<1> QED  BY <1>1, LimitInit, LimitStep, PTL DEF Spec

-----------------------------------------------------------------------------
(* What the history says                                                     *)

\* The operators of ProbelistText are the same in module GenProbelist.
LEMMA GenText ==
  /\ \A S : Gen!Cardinality(S) = Cardinality(S)
  /\ \A S : Gen!InOrder(S) = InOrder(S)
  /\ \A s : Gen!FlattenSeq(s) = FlattenSeq(s)
  /\ \A S : Gen!SetToSeq(S) = SetToSeq(S)
  /\ Gen!Open = Open /\ Gen!Close = Close /\ Gen!Comma = Comma
  /\ \A n, a, m, h : Gen!Object(n, a, m, h) = Object(n, a, m, h)
<1>0. \A S : Gen!Cardinality(S) = Cardinality(S)
  BY Zenon DEF Gen!Cardinality, Cardinality
<1>1. /\ \A S : Gen!InOrder(S) = InOrder(S)
      /\ \A s : Gen!FlattenSeq(s) = FlattenSeq(s)
      /\ \A S : Gen!SetToSeq(S) = SetToSeq(S)
  <2>1. \A S : Gen!InOrder(S) = InOrder(S)
    <3> SUFFICES ASSUME NEW S PROVE Gen!InOrder(S) = InOrder(S)
      OBVIOUS
    <3> DEFINE low(k) == CHOOSE n \in S : Cardinality({m \in S : m < n}) = k - 1
               lowG(k) == CHOOSE n \in S : Gen!Cardinality({m \in S : m < n}) = k - 1
    <3>1. ASSUME NEW k PROVE lowG(k) = low(k)
      <4>1. \A n : (n \in S /\ Gen!Cardinality({m \in S : m < n}) = k - 1)
                     <=> (n \in S /\ Cardinality({m \in S : m < n}) = k - 1)
        BY <1>0
      <4> QED  BY Zenon, <4>1
    <3>2. Gen!InOrder(S) = [k \in 1..Gen!Cardinality(S) |-> lowG(k)]
      BY Zenon DEF Gen!InOrder
    <3>3. InOrder(S) = [k \in 1..Cardinality(S) |-> low(k)]
      BY Zenon DEF InOrder
    <3> HIDE DEF low, lowG
    <3>4. [k \in 1..Gen!Cardinality(S) |-> lowG(k)] = [k \in 1..Cardinality(S) |-> low(k)]
      BY <1>0, <3>1
    <3> QED  BY <3>2, <3>3, <3>4
  <2>2. \A s : Gen!FlattenSeq(s) = FlattenSeq(s)
    BY Zenon DEF Gen!FlattenSeq, FlattenSeq
  <2>3. \A f : Gen!IsInjective(f) = IsInjective(f)
    BY DEF Gen!IsInjective, IsInjective
  <2>4. \A S : Gen!SetToSeq(S) = SetToSeq(S)
    <3> SUFFICES ASSUME NEW S PROVE Gen!SetToSeq(S) = SetToSeq(S)
      OBVIOUS
    <3>1. \A f : (f \in [1..Cardinality(S) -> S] /\ Gen!IsInjective(f))
                   <=> (f \in [1..Cardinality(S) -> S] /\ IsInjective(f))
      BY <2>3
    <3> QED  BY Zenon, <1>0, <3>1 DEF Gen!SetToSeq, SetToSeq
  <2> QED  BY <2>1, <2>2, <2>4
<1>2. Gen!Open = Open /\ Gen!Close = Close /\ Gen!Comma = Comma
      /\ \A k, v : Gen!Token(k, v) = Token(k, v)
      /\ \A n, h : Gen!Address(n, h) = Address(n, h)
  BY DEF Gen!Open, Open, Gen!Close, Close, Gen!Comma, Comma, Gen!Token, Token, Gen!Address, Address
<1>3. \A n, a, m, h : Gen!Object(n, a, m, h) = Object(n, a, m, h)
  <2> SUFFICES ASSUME NEW n, NEW a, NEW m, NEW h
               PROVE  Gen!Object(n, a, m, h) = Object(n, a, m, h)
    OBVIOUS
  <2> DEFINE f == [i \in 1..Cardinality(h) |->
                     <<Open, Token("host_ip", Address(n, InOrder(h)[i])), Close>>]
             g == [i \in 1..Gen!Cardinality(h) |->
                     <<Gen!Open, Gen!Token("host_ip", Gen!Address(n, Gen!InOrder(h)[i])), Gen!Close>>]
  <2>1. f = g
    BY <1>0, <1>1, <1>2, Zenon
  <2>2. Object(n, a, m, h) =
          <<Token("key", n), Open, Token("host_cnt", Cardinality(h)),
            Token("avg_resp_rate", a), Token("meta", SetToSeq(m))>> \o FlattenSeq(f) \o <<Close>>
    BY DEF Object
  <2>3. Gen!Object(n, a, m, h) =
          <<Gen!Token("key", n), Gen!Open, Gen!Token("host_cnt", Gen!Cardinality(h)),
            Gen!Token("avg_resp_rate", a), Gen!Token("meta", Gen!SetToSeq(m))>>
            \o Gen!FlattenSeq(g) \o <<Gen!Close>>
    BY Zenon DEF Gen!Object
  <2> HIDE DEF f, g
  <2> QED  BY <1>0, <1>1, <1>2, <2>1, <2>2, <2>3, Zenon
<1> QED  BY <1>0, <1>1, <1>2, <1>3

\* What a history says of a /24: the lines that have answered, the probes that were
\* answered, whether it is worth probing, its hosts, its A(E(b)), and its object.
Histories == {H \in SUBSET Lines : IsFiniteSet(H)}
Heard(H, s) == {l \in H : l.net = s /\ l.recent # Gen!Never}
Answers(H, s) == UNION {{l} \X (1..l.recent) : l \in Heard(H, s)}
Worth(H, s) ==
  /\ Cardinality(Heard(H, s)) >= MinHosts
  /\ 10 * Cardinality(Answers(H, s)) >= 4 * Cardinality(Heard(H, s))
  /\ ~Gen!Skipped(s)
HostsOf(H, s) == {l.host : l \in Heard(H, s)}
AebOf(H, s) == (25 * Cardinality(Answers(H, s))) \div Cardinality(Heard(H, s))
ObjectIn(H, s) == Object(s, AebOf(H, s), Gen!Metadata(s), HostsOf(H, s))

\* All of that is finite.
LEMMA HeardFacts ==
  ASSUME NEW H \in Histories, NEW s
  PROVE  /\ IsFiniteSet(Heard(H, s)) /\ Cardinality(Heard(H, s)) \in Nat
         /\ IsFiniteSet(Answers(H, s)) /\ Cardinality(Answers(H, s)) \in Nat
         /\ HostsOf(H, s) \in SUBSET (0..255) /\ IsFiniteSet(HostsOf(H, s))
<1>1. /\ IsFiniteSet(H)
      /\ \A l \in H : l.net \in Nat \ {0} /\ l.host \in 0..255 /\ l.recent \in -1..4
  BY ProbelistFileAssumption DEF Histories, Gen!GenConstants
<1>2. Heard(H, s) \in SUBSET H
  BY DEF Heard
<1>3. IsFiniteSet(Heard(H, s)) /\ Cardinality(Heard(H, s)) \in Nat
  BY <1>1, <1>2, FS_Subset, FS_CardinalityType
<1>4. HostsOf(H, s) \in SUBSET (0..255)
  BY <1>1, <1>2 DEF HostsOf
<1>5. IsFiniteSet(HostsOf(H, s))
  <2>1. 0 \in Int /\ 255 \in Int
    OBVIOUS
  <2>2. IsFiniteSet(0..255)
    BY <2>1, FS_Interval
  <2> QED  BY <1>4, <2>2, FS_Subset
<1>6. IsFiniteSet(Answers(H, s))
  <2>1. Answers(H, s) \in SUBSET (H \X (1..4))
    <3> SUFFICES ASSUME NEW x \in Answers(H, s) PROVE x \in H \X (1..4)
      OBVIOUS
    <3>1. PICK l \in Heard(H, s) : x \in {l} \X (1..l.recent)
      BY DEF Answers
    <3>2. l \in H /\ 1..l.recent \subseteq 1..4
      BY <1>1, <1>2
    <3> QED  BY <3>1, <3>2
  <2>2. IsFiniteSet(H \X (1..4))
    <3>0. 1 \in Int /\ 4 \in Int
      OBVIOUS
    <3>1. IsFiniteSet(1..4)
      BY <3>0, FS_Interval
    <3> QED  BY <1>1, <3>1, FS_Product
  <2> QED  BY <2>1, <2>2, FS_Subset
<1> QED  BY <1>3, <1>4, <1>5, <1>6, FS_CardinalityType

\* What one more line says.
LEMMA HearsMore ==
  ASSUME NEW H \in Histories, NEW l \in Lines, l \notin H
  PROVE  /\ H \cup {l} \in Histories
         /\ \A s : (s # l.net \/ l.recent = Gen!Never) =>
              /\ Heard(H \cup {l}, s) = Heard(H, s)
              /\ Answers(H \cup {l}, s) = Answers(H, s)
         /\ l.recent # Gen!Never =>
              /\ Heard(H \cup {l}, l.net) = Heard(H, l.net) \cup {l}
              /\ Cardinality(Heard(H \cup {l}, l.net)) = Cardinality(Heard(H, l.net)) + 1
              /\ Cardinality(Answers(H \cup {l}, l.net))
                   = Cardinality(Answers(H, l.net)) + l.recent
<1>1. H \cup {l} \in Histories
  BY FS_AddElement DEF Histories
<1>2. \A s : (s # l.net \/ l.recent = Gen!Never) => Heard(H \cup {l}, s) = Heard(H, s)
  BY DEF Heard
<1>3. \A s : Heard(H \cup {l}, s) = Heard(H, s) => Answers(H \cup {l}, s) = Answers(H, s)
  BY DEF Answers
<1>4. ASSUME l.recent # Gen!Never
      PROVE  /\ Heard(H \cup {l}, l.net) = Heard(H, l.net) \cup {l}
             /\ Cardinality(Heard(H \cup {l}, l.net)) = Cardinality(Heard(H, l.net)) + 1
             /\ Cardinality(Answers(H \cup {l}, l.net))
                  = Cardinality(Answers(H, l.net)) + l.recent
  <2>1. Heard(H \cup {l}, l.net) = Heard(H, l.net) \cup {l} /\ l \notin Heard(H, l.net)
    BY <1>4 DEF Heard
  <2>2. Cardinality(Heard(H \cup {l}, l.net)) = Cardinality(Heard(H, l.net)) + 1
    BY <2>1, HeardFacts, FS_AddElement
  <2> DEFINE new == {l} \X (1..l.recent)
             old == Answers(H, l.net)
  <2>3. Answers(H \cup {l}, l.net) = old \cup new
    BY <2>1 DEF Answers
  <2>4. l.recent \in Nat
    BY <1>4, ProbelistFileAssumption DEF Gen!GenConstants, Gen!Never
  <2>5. IsFiniteSet(new) /\ Cardinality(new) = l.recent
    <3>1. IsFiniteSet({l}) /\ Cardinality({l}) = 1
      BY FS_Singleton
    <3>2. IsFiniteSet(1..l.recent) /\ Cardinality(1..l.recent) = l.recent
      BY <2>4, FS_Interval
    <3>3. IsFiniteSet(new) /\ Cardinality(new) = Cardinality({l}) * Cardinality(1..l.recent)
      BY <3>1, <3>2, FS_Product
    <3>4. Cardinality({l}) * Cardinality(1..l.recent) = l.recent
      BY <2>4, <3>1, <3>2
    <3> QED  BY <3>3, <3>4
  <2>6. old \cap new = {}
    BY <2>1 DEF Answers
  <2>7. IsFiniteSet(old) /\ Cardinality(old) \in Nat
    BY HeardFacts
  <2> HIDE DEF old, new
  <2>8. Cardinality(old \cup new) = Cardinality(old) + l.recent
    <3>1. Cardinality(old \cap new) = 0
      BY <2>6, FS_EmptySet
    <3>2. Cardinality(old \cup new) = Cardinality(old) + Cardinality(new) - Cardinality(old \cap new)
      BY <2>5, <2>7, FS_Union
    <3> QED  BY <2>4, <2>5, <2>7, <3>1, <3>2
  <2> QED  BY <2>1, <2>2, <2>3, <2>8 DEF old
<1> QED  BY <1>1, <1>2, <1>3, <1>4

\* The tokens that the tool writes.
Tokens == [kind : Kinds, value : Int \cup {SetToSeq(Gen!Metadata(s)) : s \in Nat}]

LEMMA TokensAre ==
  /\ Open \in Tokens /\ Close \in Tokens /\ Comma \in Tokens
  /\ \A k \in Kinds, v \in Int : Token(k, v) \in Tokens
  /\ \A s \in Nat : Token("meta", SetToSeq(Gen!Metadata(s))) \in Tokens
<1>1. \A k \in Kinds, v \in Int : Token(k, v) \in Tokens
  BY DEF Tokens, Token
<1>0. 0 \in Int
  OBVIOUS
<1>2. \A s \in Nat : Token("meta", SetToSeq(Gen!Metadata(s))) \in Tokens
  <2> "meta" \in Kinds
    BY DEF Kinds
  <2> QED  BY DEF Tokens, Token
<1>3. "{" \in Kinds /\ "}" \in Kinds /\ "," \in Kinds
  BY DEF Kinds
<1>4. Open \in Tokens /\ Close \in Tokens /\ Comma \in Tokens
  BY <1>0, <1>1, <1>3 DEF Open, Close, Comma
<1> QED  BY <1>1, <1>2, <1>4

\* The objects of the hosts, inside of the one of a /24.
HostObjects(s, hosts) ==
  [i \in 1..Cardinality(hosts) |->
     <<Open, Token("host_ip", Address(s, InOrder(hosts)[i])), Close>>]

\* How an object is put together.
LEMMA ObjectIs ==
  ASSUME NEW s, NEW a, NEW hosts
  PROVE  Object(s, a, Gen!Metadata(s), hosts) =
           <<Token("key", s), Open, Token("host_cnt", Cardinality(hosts)),
             Token("avg_resp_rate", a), Token("meta", SetToSeq(Gen!Metadata(s)))>>
             \o FlattenSeq(HostObjects(s, hosts)) \o <<Close>>
  BY DEF Object, HostObjects

LEMMA HostObjectsType ==
  ASSUME NEW s \in Nat, NEW hosts \in SUBSET Nat, IsFiniteSet(hosts)
  PROVE  /\ HostObjects(s, hosts) \in Seq(Seq(Tokens))
         /\ Len(HostObjects(s, hosts)) = Cardinality(hosts) /\ Cardinality(hosts) \in Nat
         /\ \A i \in 1..Cardinality(hosts) :
              /\ InOrder(hosts)[i] \in hosts
              /\ Token("host_ip", Address(s, InOrder(hosts)[i])) \in Tokens
<1>1. /\ InOrder(hosts) \in Seq(hosts) /\ Len(InOrder(hosts)) = Cardinality(hosts)
      /\ Cardinality(hosts) \in Nat
  BY InOrderFacts
<1>2. \A i \in 1..Cardinality(hosts) : InOrder(hosts)[i] \in hosts
  BY <1>1, ElementOfSeq
<1>3. \A i \in 1..Cardinality(hosts) : Token("host_ip", Address(s, InOrder(hosts)[i])) \in Tokens
  <2>1. \A h \in Nat : Address(s, h) \in Int
    BY DEF Address
  <2>2. "host_ip" \in Kinds
    BY DEF Kinds
  <2> QED  BY <1>2, <2>1, <2>2, TokensAre
<1>4. \A i \in 1..Cardinality(hosts) :
        <<Open, Token("host_ip", Address(s, InOrder(hosts)[i])), Close>> \in Seq(Tokens)
  <2>1. \A x \in Tokens : <<Open, x, Close>> \in Seq(Tokens)
    BY TokensAre
  <2> QED  BY <1>3, <2>1
<1>5. HostObjects(s, hosts) \in [1..Cardinality(hosts) -> Seq(Tokens)]
  BY <1>4 DEF HostObjects
<1>6. HostObjects(s, hosts) \in Seq(Seq(Tokens)) /\ Len(HostObjects(s, hosts)) = Cardinality(hosts)
  BY <1>1, <1>5, SeqDef
<1> QED  BY <1>1, <1>2, <1>3, <1>6

LEMMA ObjectType ==
  ASSUME NEW s \in Nat, NEW a \in Int, NEW hosts \in SUBSET Nat, IsFiniteSet(hosts)
  PROVE  Object(s, a, Gen!Metadata(s), hosts) \in Seq(Tokens)
<1> DEFINE head == <<Token("key", s), Open, Token("host_cnt", Cardinality(hosts)),
                     Token("avg_resp_rate", a), Token("meta", SetToSeq(Gen!Metadata(s)))>>
<1>1. head \in Seq(Tokens)
  <2>1. {"key", "host_cnt", "avg_resp_rate"} \subseteq Kinds
    BY DEF Kinds
  <2>2. Cardinality(hosts) \in Int /\ s \in Int
    BY FS_CardinalityType
  <2>3. /\ Token("key", s) \in Tokens /\ Token("host_cnt", Cardinality(hosts)) \in Tokens
        /\ Token("avg_resp_rate", a) \in Tokens
        /\ Token("meta", SetToSeq(Gen!Metadata(s))) \in Tokens
        /\ Open \in Tokens
    BY <2>1, <2>2, TokensAre
  <2> QED  BY <2>3
<1>2. FlattenSeq(HostObjects(s, hosts)) \in Seq(Tokens)
  BY HostObjectsType, FlattenFacts
<1>3. <<Close>> \in Seq(Tokens)
  BY TokensAre
<1> HIDE DEF head
<1>4. head \o FlattenSeq(HostObjects(s, hosts)) \o <<Close>> \in Seq(Tokens)
  BY <1>1, <1>2, <1>3, ConcatProperties
<1> QED  BY <1>4, ObjectIs DEF head

\* The /24s of C that are worth it, in order, and their objects.
Chosen(H, C) == InOrder({s \in C : Worth(H, s)})
Objects(H, C) == [i \in DOMAIN Chosen(H, C) |-> ObjectIn(H, Chosen(H, C)[i])]

\* They are in order, and each is worth it.
LEMMA ChosenFacts ==
  ASSUME NEW H, NEW C \in SUBSET Nat, IsFiniteSet(C)
  PROVE  /\ Chosen(H, C) \in Seq({s \in C : Worth(H, s)}) /\ Len(Chosen(H, C)) \in Nat
         /\ DOMAIN Chosen(H, C) = 1..Len(Chosen(H, C))
         /\ \A i \in 1..Len(Chosen(H, C)) : Chosen(H, C)[i] \in C /\ Worth(H, Chosen(H, C)[i])
         /\ \A i, j \in 1..Len(Chosen(H, C)) : i < j => Chosen(H, C)[i] < Chosen(H, C)[j]
<1> DEFINE W == {s \in C : Worth(H, s)}
<1>1. W \in SUBSET Nat /\ IsFiniteSet(W)
  <2>1. W \in SUBSET C
    OBVIOUS
  <2> QED  BY <2>1, FS_Subset
<1>2. \A s \in W : s \in C /\ Worth(H, s)
  OBVIOUS
<1>3. Chosen(H, C) = InOrder(W)
  BY DEF Chosen
<1> HIDE DEF W
<1>4. /\ Chosen(H, C) \in Seq(W) /\ Len(Chosen(H, C)) \in Nat
      /\ \A i, j \in 1..Len(Chosen(H, C)) : i < j => Chosen(H, C)[i] < Chosen(H, C)[j]
  BY <1>1, <1>3, InOrderFacts
<1>5. DOMAIN Chosen(H, C) = 1..Len(Chosen(H, C))
  BY <1>4, LenProperties
<1>6. \A i \in 1..Len(Chosen(H, C)) : Chosen(H, C)[i] \in W
  BY <1>4, ElementOfSeq
<1> QED  BY <1>2, <1>4, <1>5, <1>6 DEF W

LEMMA ObjectInType ==
  ASSUME NEW H \in Histories, NEW s \in Nat, Worth(H, s)
  PROVE  ObjectIn(H, s) \in Seq(Tokens) /\ AebOf(H, s) \in Nat
         /\ HostsOf(H, s) \in SUBSET Nat /\ IsFiniteSet(HostsOf(H, s))
<1>1. /\ Cardinality(Heard(H, s)) \in Nat /\ Cardinality(Answers(H, s)) \in Nat
      /\ HostsOf(H, s) \in SUBSET (0..255) /\ IsFiniteSet(HostsOf(H, s))
  BY HeardFacts
<1>2. Cardinality(Heard(H, s)) > 0
  BY <1>1, ProbelistFileAssumption DEF Gen!GenConstants, Worth
<1>3. AebOf(H, s) \in Nat
  BY <1>1, <1>2 DEF AebOf
<1>4. HostsOf(H, s) \in SUBSET Nat
  BY <1>1
<1> QED  BY <1>1, <1>3, <1>4, ObjectType DEF ObjectIn

LEMMA ObjectsType ==
  ASSUME NEW H \in Histories, NEW C \in SUBSET Nat, IsFiniteSet(C)
  PROVE  Objects(H, C) \in Seq(Seq(Tokens)) /\ Len(Objects(H, C)) = Len(Chosen(H, C))
<1> DEFINE n == Len(Chosen(H, C))
<1>1. \A i \in 1..n : ObjectIn(H, Chosen(H, C)[i]) \in Seq(Tokens)
  BY ChosenFacts, ObjectInType
<1>2. n \in Nat /\ Objects(H, C) = [i \in 1..n |-> ObjectIn(H, Chosen(H, C)[i])]
  BY ChosenFacts DEF Objects
<1>3. Objects(H, C) \in [1..n -> Seq(Tokens)]
  BY <1>1, <1>2
<1> QED  BY <1>2, <1>3, SeqDef

\* The next /24 is the last one, if it is worth it.
LEMMA OneMoreChosen ==
  ASSUME NEW H \in Histories, NEW C \in SUBSET Nat, IsFiniteSet(C),
         NEW s \in Nat, \A c \in C : c < s
  PROVE  Objects(H, C \cup {s}) = IF Worth(H, s) THEN Append(Objects(H, C), ObjectIn(H, s))
                                  ELSE Objects(H, C)
<1> DEFINE W == {c \in C : Worth(H, c)}
<1>1. W \in SUBSET Nat /\ IsFiniteSet(W) /\ \A c \in W : c < s
  <2>1. W \in SUBSET C
    OBVIOUS
  <2>2. IsFiniteSet(W)
    BY <2>1, FS_Subset
  <2> QED  BY <2>1, <2>2
<1>2. CASE ~Worth(H, s)
  <2>1. {c \in C \cup {s} : Worth(H, c)} = W
    BY <1>2
  <2>2. Chosen(H, C \cup {s}) = Chosen(H, C)
    BY <2>1 DEF Chosen
  <2> QED  BY <1>2, <2>2 DEF Objects
<1>3. CASE Worth(H, s)
  <2>1. {c \in C \cup {s} : Worth(H, c)} = W \cup {s}
    BY <1>3
  <2>2. Chosen(H, C) = InOrder(W) /\ Chosen(H, C \cup {s}) = InOrder(W \cup {s})
    BY <2>1 DEF Chosen
  <2> HIDE DEF W
  <2> DEFINE a == Chosen(H, C)
             b == Chosen(H, C \cup {s})
  <2>3. b = Append(a, s)
    BY <1>1, <2>2, InOrderAppend
  <2>4. a \in Seq(Nat) /\ Len(a) \in Nat
    <3>1. {c \in C : Worth(H, c)} \subseteq Nat
      OBVIOUS
    <3> QED  BY <3>1, ChosenFacts, SeqMonotonic
  <2> HIDE DEF a, b
  <2>5. /\ b \in Seq(Nat) /\ Len(b) = Len(a) + 1 /\ b[Len(a) + 1] = s
        /\ \A i \in 1..Len(a) : b[i] = a[i]
    BY <2>3, <2>4, AppendProperties
  <2>6. C \cup {s} \in SUBSET Nat /\ IsFiniteSet(C \cup {s})
    BY FS_AddElement
  <2>7. /\ Objects(H, C) \in Seq(Seq(Tokens)) /\ Len(Objects(H, C)) = Len(a)
        /\ Objects(H, C \cup {s}) \in Seq(Seq(Tokens)) /\ Len(Objects(H, C \cup {s})) = Len(b)
    BY <2>6, ObjectsType DEF a, b
  <2>8. ObjectIn(H, s) \in Seq(Tokens)
    BY <1>3, ObjectInType
  <2>9. /\ Append(Objects(H, C), ObjectIn(H, s)) \in Seq(Seq(Tokens))
        /\ Len(Append(Objects(H, C), ObjectIn(H, s))) = Len(a) + 1
        /\ \A i \in 1..Len(a) : Append(Objects(H, C), ObjectIn(H, s))[i] = Objects(H, C)[i]
        /\ Append(Objects(H, C), ObjectIn(H, s))[Len(a) + 1] = ObjectIn(H, s)
    BY <2>7, <2>8, AppendProperties
  <2>10. DOMAIN a = 1..Len(a) /\ DOMAIN b = 1..(Len(a) + 1)
    BY <2>4, <2>5, LenProperties
  <2>11. /\ \A i \in 1..Len(a) : Objects(H, C)[i] = ObjectIn(H, a[i])
         /\ \A i \in 1..(Len(a) + 1) : Objects(H, C \cup {s})[i] = ObjectIn(H, b[i])
    BY <2>10 DEF Objects, a, b
  <2>12. ASSUME NEW i \in 1..(Len(a) + 1)
         PROVE  Objects(H, C \cup {s})[i] = Append(Objects(H, C), ObjectIn(H, s))[i]
    <3>1. CASE i = Len(a) + 1
      <4>1. Objects(H, C \cup {s})[i] = ObjectIn(H, s)
        BY <2>5, <2>11, <3>1
      <4>2. Append(Objects(H, C), ObjectIn(H, s))[i] = ObjectIn(H, s)
        BY <2>9, <3>1
      <4> QED  BY <4>1, <4>2
    <3>2. CASE i \in 1..Len(a)
      <4>1. Objects(H, C \cup {s})[i] = ObjectIn(H, a[i])
        BY <2>5, <2>11, <3>2
      <4>2. Append(Objects(H, C), ObjectIn(H, s))[i] = ObjectIn(H, a[i])
        BY <2>9, <2>11, <3>2
      <4> QED  BY <4>1, <4>2
    <3>3. i = Len(a) + 1 \/ i \in 1..Len(a)
      BY <2>4
    <3> QED  BY <3>1, <3>2, <3>3
  <2>13. Objects(H, C \cup {s}) = Append(Objects(H, C), ObjectIn(H, s))
    BY <2>5, <2>7, <2>9, <2>12, SeqEqual
  <2> QED  BY <1>3, <2>13
<1> QED  BY <1>2, <1>3

\* Nor do lines of other /24s matter.
LEMMA ObjectsOnly ==
  ASSUME NEW H, NEW H2, NEW C \in SUBSET Nat, IsFiniteSet(C),
         \A s \in C : Heard(H2, s) = Heard(H, s)
  PROVE  Objects(H2, C) = Objects(H, C)
<1>1. \A s \in C : Answers(H2, s) = Answers(H, s)
  BY DEF Answers
<1>2. \A s \in C : (Worth(H2, s) <=> Worth(H, s)) /\ ObjectIn(H2, s) = ObjectIn(H, s)
  BY <1>1 DEF Worth, ObjectIn, HostsOf, AebOf
<1>3. Chosen(H2, C) = Chosen(H, C)
  BY <1>2 DEF Chosen
<1>4. \A i \in DOMAIN Chosen(H, C) : ObjectIn(H2, Chosen(H, C)[i]) = ObjectIn(H, Chosen(H, C)[i])
  BY <1>2, ChosenFacts
<1> QED  BY <1>3, <1>4 DEF Objects

-----------------------------------------------------------------------------
(* The files are dealt                                                       *)

\* The /24s of a history, the objects that have been written, and the text of a
\* file that is dealt its share of some objects.
NetsOf(H) == {l.net : l \in H}
Written == IF summary_only THEN <<>> ELSE Objects(history, Gen!Complete)
Text(objs, f, end) == <<Open>> \o FlattenSeq(Parts(objs, Gen!outfiles_cnt, f)) \o end
Ending == IF phase = "done" THEN <<Close>> ELSE <<>>

\* The types of what the tool keeps.
GenTypes ==
  /\ phase \in {"reading", "stopped", "done", "failed"}
  /\ history \in Histories
  /\ last_slash24 \in Nat
  /\ summary_only \in BOOLEAN

\* While lines are read, e_b and its counters hold what the history says of the
\* /24 that is being collected.
BlockIsHeard ==
  phase = "reading" =>
    /\ e_b_cnt = Cardinality(Heard(history, last_slash24))
    /\ e_b_sum = Cardinality(Answers(history, last_slash24))
    /\ e_b \in [Gen!Hosts -> -1..4]
    /\ {h \in Gen!Hosts : e_b[h] # Gen!Never} = HostsOf(history, last_slash24)

\* The lines come in the order of their /24s; the last one is skipped if it is not
\* wanted, or if the limit is reached.
InTurn ==
  /\ phase = "reading" => \A l \in history : l.net <= last_slash24
  /\ phase = "reading" /\ last_slash24 = 0 => history = {} /\ ~skip
  /\ phase = "reading" /\ last_slash24 # 0 =>
       last_slash24 \in NetsOf(history) /\ skip = Gen!Skipped(last_slash24)
  /\ phase = "stopped" => skip

\* What is in the files is what the history says of the /24s that are complete.
FilesAre ==
  /\ objects_written = Len(Written)
  /\ outfiles_idx = objects_written % Gen!outfiles_cnt
  /\ outfiles = [f \in 0..(Gen!outfiles_cnt - 1) |-> Text(Written, f, Ending)]

\* The invariant about what is written.
DealInv == GenTypes /\ BlockIsHeard /\ InTurn /\ FilesAre

LEMMA CountType == Gen!outfiles_cnt \in Nat \ {0}
  BY ProbelistFileAssumption DEF Gen!GenConstants, Gen!outfiles_cnt

\* There are finitely many /24s.
LEMMA NetsFinite ==
  ASSUME NEW H \in Histories
  PROVE  NetsOf(H) \in SUBSET (Nat \ {0}) /\ IsFiniteSet(NetsOf(H))
<1>1. IsFiniteSet(H) /\ \A l \in H : l.net \in Nat \ {0}
  BY ProbelistFileAssumption DEF Histories, Gen!GenConstants
<1> DEFINE f == [l \in H |-> l.net]
<1>2. f \in [H -> NetsOf(H)] /\ \A t \in NetsOf(H) : \E l \in H : f[l] = t
  BY DEF NetsOf
<1>3. f \in Surjection(H, NetsOf(H))
  BY <1>2, Fun_IsSurj
<1>4. IsFiniteSet(NetsOf(H))
  BY <1>1, <1>3, FS_Surjection
<1> QED  BY <1>1, <1>4 DEF NetsOf

\* What one more object does to the text of a file.
LEMMA TextMore ==
  ASSUME NEW objs \in Seq(Seq(Tokens)), NEW o \in Seq(Tokens), NEW f \in 0..(Gen!outfiles_cnt - 1)
  PROVE  /\ FlattenSeq(Parts(objs, Gen!outfiles_cnt, f)) \in Seq(Tokens)
         /\ Text(objs, f, <<>>) \in Seq(Tokens)
         /\ Text(objs, f, <<Close>>) = Text(objs, f, <<>>) \o <<Close>>
         /\ Text(Append(objs, o), f, <<>>) =
              IF Len(objs) % Gen!outfiles_cnt = f
              THEN Text(objs, f, <<>>)
                     \o (IF Len(objs) >= Gen!outfiles_cnt THEN <<Comma>> ELSE <<>>) \o o
              ELSE Text(objs, f, <<>>)
<1> DEFINE c == Gen!outfiles_cnt
           ps == Parts(objs, c, f)
           comma == IF Len(objs) >= c THEN <<Comma>> ELSE <<>>
<1>0. c \in Nat \ {0} /\ Comma \in Tokens /\ Open \in Tokens /\ Close \in Tokens
  BY CountType, TokensAre
<1>1. ps \in Seq(Seq(Tokens))
  BY <1>0, PartsType
<1>2. Parts(Append(objs, o), c, f) = IF Len(objs) % c = f THEN Append(ps, comma \o o) ELSE ps
  BY <1>0, DealOneMore
<1>3. <<Open>> \in Seq(Tokens) /\ <<Close>> \in Seq(Tokens) /\ comma \in Seq(Tokens)
      /\ <<>> \in Seq(Tokens)
  BY <1>0
<1>4. comma \o o \in Seq(Tokens)
  BY <1>3, ConcatProperties
<1> HIDE DEF ps, comma
<1>5. FlattenSeq(ps) \in Seq(Tokens)
      /\ FlattenSeq(Append(ps, comma \o o)) = FlattenSeq(ps) \o (comma \o o)
  BY <1>1, <1>4, FlattenFacts
<1> DEFINE t == <<Open>> \o FlattenSeq(ps)
<1>6. t \in Seq(Tokens)
  BY <1>3, <1>5, ConcatProperties
<1>7. Text(objs, f, <<>>) = t
  <2>1. Text(objs, f, <<>>) = t \o <<>>
    BY DEF Text, ps
  <2> HIDE DEF t
  <2> QED  BY <1>6, <2>1, ConcatEmptySeq
<1>8. Text(objs, f, <<Close>>) = t \o <<Close>>
  BY DEF Text, ps
<1>9. Len(objs) % c # f => Text(Append(objs, o), f, <<>>) = t
  <2>1. Len(objs) % c # f => Text(Append(objs, o), f, <<>>) = Text(objs, f, <<>>)
    BY <1>2 DEF Text, ps
  <2> QED  BY <1>7, <2>1
<1>10. Len(objs) % c = f => Text(Append(objs, o), f, <<>>) = t \o comma \o o
  <2> SUFFICES ASSUME Len(objs) % c = f
               PROVE  Text(Append(objs, o), f, <<>>) = t \o comma \o o
    OBVIOUS
  <2>1. Text(Append(objs, o), f, <<>>) = <<Open>> \o (FlattenSeq(ps) \o (comma \o o)) \o <<>>
    BY <1>2, <1>5 DEF Text
  <2>2. <<Open>> \o (FlattenSeq(ps) \o (comma \o o)) = t \o (comma \o o)
    <3> HIDE DEF comma
    <3> QED  BY <1>3, <1>4, <1>5, ConcatRegroups, SMTT(60)
  <2>3. t \o (comma \o o) = t \o comma \o o
    BY <1>3, <1>6, ConcatAssociative, SMTT(60)
  <2>4. t \o (comma \o o) \in Seq(Tokens)
    BY <1>4, <1>6, ConcatProperties
  <2> HIDE DEF t
  <2>5. t \o (comma \o o) \o <<>> = t \o (comma \o o)
    BY <2>4, ConcatEmptySeq
  <2> QED  BY <2>1, <2>2, <2>3, <2>5
<1> HIDE DEF t
<1> QED  BY <1>5, <1>6, <1>7, <1>8, <1>9, <1>10 DEF ps, comma

\* What dumping a /24 does to the files.
LEMMA DumpDeals ==
  ASSUME FilesAre, Written \in Seq(Seq(Tokens)), phase # "done", Gen!Dump,
         Gen!Writes => Gen!DumpedObject \in Seq(Tokens),
         NEW more, more = IF Gen!Writes THEN Append(Written, Gen!DumpedObject) ELSE Written
  PROVE  /\ objects_written' = Len(more)
         /\ outfiles_idx' = Len(more) % Gen!outfiles_cnt
         /\ Gen!OutfilesAfterDump = [f \in 0..(Gen!outfiles_cnt - 1) |-> Text(more, f, <<>>)]
<1> DEFINE c == Gen!outfiles_cnt
           n == Len(Written)
<1>0. c \in Nat \ {0} /\ n \in Nat
  BY CountType, LenProperties
<1>1. /\ objects_written = n /\ outfiles_idx = n % c
      /\ outfiles = [f \in 0..(c - 1) |-> Text(Written, f, <<>>)]
  BY DEF FilesAre, Ending
<1>2. /\ outfiles_idx' = IF Gen!Writes THEN ((n % c) + 1) % c ELSE n % c
      /\ objects_written' = IF Gen!Writes THEN n + 1 ELSE n
  BY <1>1 DEF Gen!Dump
<1>3. n % c \in 0..(c - 1) /\ (n + 1) % c = ((n % c) + 1) % c
  BY <1>0, RemainderFacts
<1>4. CASE ~Gen!Writes
  BY <1>1, <1>2, <1>4 DEF Gen!OutfilesAfterDump
<1>5. CASE Gen!Writes
  <2> DEFINE o == Gen!DumpedObject
             comma == IF n >= c THEN <<Comma>> ELSE <<>>
  <2>1. o \in Seq(Tokens) /\ more = Append(Written, o)
    BY <1>5
  <2>2. Len(more) = n + 1
    BY <2>1, AppendProperties
  <2>3. Gen!OutfilesAfterDump = [outfiles EXCEPT ![n % c] = @ \o comma \o o]
    BY <1>1, <1>5, GenText DEF Gen!OutfilesAfterDump, Gen!NeedsComma
  <2> HIDE DEF o, comma
  <2>4. \A f \in 0..(c - 1) :
          Text(more, f, <<>>) = IF f = n % c THEN Text(Written, f, <<>>) \o comma \o o
                                ELSE Text(Written, f, <<>>)
    <3> SUFFICES ASSUME NEW f \in 0..(c - 1)
                 PROVE  Text(more, f, <<>>) = IF f = n % c THEN Text(Written, f, <<>>) \o comma \o o
                                              ELSE Text(Written, f, <<>>)
      OBVIOUS
    <3>1. Text(Append(Written, o), f, <<>>) =
            IF n % c = f
            THEN Text(Written, f, <<>>) \o (IF n >= c THEN <<Comma>> ELSE <<>>) \o o
            ELSE Text(Written, f, <<>>)
      BY <2>1, TextMore
    <3>2. n % c = f <=> f = n % c
      OBVIOUS
    <3> HIDE DEF n, c
    <3> QED  BY <2>1, <3>1, <3>2, Zenon DEF comma
  <2>5. Gen!OutfilesAfterDump = [f \in 0..(c - 1) |-> Text(more, f, <<>>)]
    <3> HIDE DEF c, n
    <3> QED  BY <1>1, <1>3, <2>3, <2>4
  <2> QED  BY <1>2, <1>3, <1>5, <2>2, <2>5
<1> QED  BY <1>4, <1>5

LEMMA DealInit == Init => DealInv
<1> SUFFICES ASSUME Init PROVE DealInv
  OBVIOUS
<1>1. /\ phase = "reading" /\ summary_only \in BOOLEAN /\ last_slash24 = 0 /\ skip = FALSE
      /\ e_b = Gen!Unset /\ e_b_cnt = 0 /\ e_b_sum = 0
      /\ outfiles = [f \in 0..(Gen!outfiles_cnt - 1) |-> <<Open>>]
      /\ outfiles_idx = 0 /\ objects_written = 0 /\ history = {}
  BY GenText DEF Init, Gen!Init
<1>2. GenTypes
  BY <1>1, FS_EmptySet DEF GenTypes, Histories
<1>3. BlockIsHeard
  <2>1. Heard({}, 0) = {} /\ Answers({}, 0) = {} /\ HostsOf({}, 0) = {}
    BY DEF Heard, Answers, HostsOf
  <2>2. Cardinality({}) = 0
    BY FS_EmptySet
  <2>3. Gen!Unset \in [Gen!Hosts -> -1..4] /\ \A h \in Gen!Hosts : Gen!Unset[h] = Gen!Never
    BY DEF Gen!Unset, Gen!Never
  <2> QED  BY <1>1, <2>1, <2>2, <2>3 DEF BlockIsHeard
<1>4. InTurn
  BY <1>1 DEF InTurn
<1>5. FilesAre
  <2>1. Gen!Complete = {}
    BY <1>1 DEF Gen!Complete
  <2>2. Written = <<>>
    <3>1. IsFiniteSet({}) /\ {} \in SUBSET Nat
      BY FS_EmptySet
    <3>2. Chosen(history, {}) = <<>>
      <4>1. {s \in {} : Worth(history, s)} = {}
        OBVIOUS
      <4> QED  BY <4>1, InOrderEmpty DEF Chosen
    <3>3. Len(Objects(history, {})) = 0 /\ Objects(history, {}) \in Seq(Seq(Tokens))
      BY <1>2, <3>1, <3>2, ObjectsType DEF GenTypes
    <3>4. Objects(history, {}) = <<>>
      BY <3>3, EmptySeq
    <3> QED  BY <2>1, <3>4 DEF Written
  <2>3. Len(Written) = 0 /\ Written \in Seq(Seq(Tokens))
    BY <2>2
  <2>4. 0 % Gen!outfiles_cnt = 0
    BY CountType, RemainderFacts
  <2>5. ASSUME NEW f \in 0..(Gen!outfiles_cnt - 1) PROVE Text(Written, f, <<>>) = <<Open>>
    <3> DEFINE ps == Parts(Written, Gen!outfiles_cnt, f)
    <3>1. Len(Written) = 0
      BY <2>3
    <3>2. Turns(0, Gen!outfiles_cnt, f) = <<>>
      <4>1. {i \in 1..0 : (i - 1) % Gen!outfiles_cnt = f} = {}
        OBVIOUS
      <4> QED  BY <4>1, InOrderEmpty DEF Turns
    <3>3. ps = <<>>
      <4>1. ps = [i \in DOMAIN <<>> |-> (IF i = 1 THEN <<>> ELSE <<Comma>>) \o Written[<<>>[i]]]
        BY <3>1, <3>2, Zenon DEF Parts
      <4>2. DOMAIN <<>> = {}
        OBVIOUS
      <4> HIDE DEF ps
      <4> QED  BY <4>1, <4>2
    <3> HIDE DEF ps
    <3>4. FlattenSeq(ps) = <<>>
      BY <3>3 DEF FlattenSeq
    <3>5. Text(Written, f, <<>>) = <<Open>> \o <<>> \o <<>>
      BY <3>4 DEF Text, ps
    <3>6. <<Open>> \in Seq(Tokens)
      BY TokensAre
    <3> QED  BY <3>5, <3>6, ConcatEmptySeq
  <2>6. Ending = <<>>
    BY <1>1 DEF Ending
  <2> QED  BY <1>1, <2>3, <2>4, <2>5, <2>6 DEF FilesAre
<1> QED  BY <1>2, <1>3, <1>4, <1>5 DEF DealInv

\* Which /24s are complete, and what has been written of them.
LEMMA CompleteIs ==
  ASSUME GenTypes
  PROVE  /\ Gen!Complete = NetsOf(history) \ (IF phase \in {"reading", "failed"} THEN {last_slash24} ELSE {})
         /\ Gen!Complete \in SUBSET Nat /\ IsFiniteSet(Gen!Complete)
         /\ Written \in Seq(Seq(Tokens)) /\ Len(Written) \in Nat
<1>1. Gen!Complete = NetsOf(history) \ (IF phase \in {"reading", "failed"} THEN {last_slash24} ELSE {})
  BY DEF Gen!Complete, NetsOf
<1>2. history \in Histories
  BY DEF GenTypes
<1>3. NetsOf(history) \in SUBSET (Nat \ {0}) /\ IsFiniteSet(NetsOf(history))
  BY <1>2, NetsFinite
<1>4. Gen!Complete \in SUBSET NetsOf(history)
  BY <1>1
<1>5. Gen!Complete \in SUBSET Nat /\ IsFiniteSet(Gen!Complete)
  BY <1>3, <1>4, FS_Subset
<1>6. Objects(history, Gen!Complete) \in Seq(Seq(Tokens))
  BY <1>2, <1>5, ObjectsType
<1>7. Written \in Seq(Seq(Tokens))
  <2>1. <<>> \in Seq(Seq(Tokens))
    OBVIOUS
  <2> QED  BY <1>6, <2>1 DEF Written
<1>8. Len(Written) \in Nat
  BY <1>7, LenProperties
<1> QED  BY <1>1, <1>5, <1>7, <1>8

\* The /24 that is dumped is the last of those that are complete then.
LEMMA DumpedIsNext ==
  ASSUME DealInv, phase \in {"reading", "stopped"}
  PROVE  /\ Gen!Writes => Gen!DumpedObject \in Seq(Tokens)
         /\ (IF summary_only THEN <<>> ELSE Objects(history, NetsOf(history)))
              = IF Gen!Writes THEN Append(Written, Gen!DumpedObject) ELSE Written
<1>0. GenTypes /\ BlockIsHeard /\ InTurn
  BY DEF DealInv
<1>1. history \in Histories /\ last_slash24 \in Nat /\ summary_only \in BOOLEAN
  BY <1>0 DEF GenTypes
<1>2. CASE phase = "stopped"
  <2>1. skip
    BY <1>0, <1>2 DEF InTurn
  <2>2. Gen!Complete = NetsOf(history)
    BY <1>0, <1>2, CompleteIs
  <2>3. ~Gen!Writes
    BY <2>1 DEF Gen!Writes
  <2> QED  BY <2>2, <2>3 DEF Written
<1>3. CASE phase = "reading" /\ last_slash24 = 0
  <2>1. history = {}
    BY <1>0, <1>3 DEF InTurn
  <2>2. Gen!Complete = NetsOf(history)
    BY <1>0, <1>3, <2>1, CompleteIs DEF NetsOf
  <2>3. Heard({}, 0) = {} /\ Cardinality({}) = 0
    BY FS_EmptySet DEF Heard
  <2>4. e_b_cnt = 0
    BY <1>0, <1>3, <2>1, <2>3 DEF BlockIsHeard
  <2>5. ~Gen!Writes
    BY <2>4, ProbelistFileAssumption
       DEF Gen!GenConstants, Gen!Writes, Gen!Usable, Gen!Responsive
  <2> QED  BY <2>2, <2>5 DEF Written
<1>4. CASE phase = "reading" /\ last_slash24 # 0
  <2> DEFINE s == last_slash24
             C == Gen!Complete
  <2>1. /\ e_b_cnt = Cardinality(Heard(history, s))
        /\ e_b_sum = Cardinality(Answers(history, s))
        /\ {h \in Gen!Hosts : e_b[h] # Gen!Never} = HostsOf(history, s)
        /\ skip = Gen!Skipped(s) /\ s \in NetsOf(history)
        /\ \A l \in history : l.net <= s
    BY <1>0, <1>4 DEF BlockIsHeard, InTurn
  <2>2. Gen!Writes <=> ~summary_only /\ Worth(history, s)
    BY <2>1 DEF Gen!Writes, Gen!Usable, Gen!Responsive, Worth
  <2>3. Gen!DumpedObject = ObjectIn(history, s)
    BY <2>1, GenText DEF Gen!DumpedObject, ObjectIn, AebOf
  <2>4. Worth(history, s) => ObjectIn(history, s) \in Seq(Tokens)
    BY <1>1, ObjectInType
  <2>5. /\ C = NetsOf(history) \ {s} /\ C \in SUBSET Nat /\ IsFiniteSet(C)
    BY <1>0, <1>4, CompleteIs
  <2>6. C \cup {s} = NetsOf(history)
    BY <2>1, <2>5
  <2>7. \A c \in C : c < s
    <3>1. \A c \in C : c \in Nat /\ c # s /\ c <= s
      BY <2>1, <2>5 DEF NetsOf
    <3> QED  BY <1>1, <3>1
  <2> HIDE DEF C
  <2>8. Objects(history, NetsOf(history)) =
          IF Worth(history, s) THEN Append(Objects(history, C), ObjectIn(history, s))
          ELSE Objects(history, C)
    <3>1. Objects(history, C \cup {s}) =
            IF Worth(history, s) THEN Append(Objects(history, C), ObjectIn(history, s))
            ELSE Objects(history, C)
      BY <1>1, <2>5, <2>7, OneMoreChosen
    <3> QED  BY <2>6, <3>1
  <2>9. Written = IF summary_only THEN <<>> ELSE Objects(history, C)
    BY DEF Written, C
  <2> QED  BY <2>2, <2>3, <2>4, <2>8, <2>9
<1> QED  BY <1>2, <1>3, <1>4

\* A line of the /24 being collected.
LEMMA RecordHears ==
  ASSUME NEW H \in Histories, NEW l \in Lines, l \notin H,
         NEW rates \in [Gen!Hosts -> -1..4],
         {h \in Gen!Hosts : rates[h] # Gen!Never} = HostsOf(H, l.net),
         Gen!Record(l, rates, Cardinality(Heard(H, l.net)), Cardinality(Answers(H, l.net)))
  PROVE  /\ e_b_cnt' = Cardinality(Heard(H \cup {l}, l.net))
         /\ e_b_sum' = Cardinality(Answers(H \cup {l}, l.net))
         /\ e_b' \in [Gen!Hosts -> -1..4]
         /\ {h \in Gen!Hosts : e_b'[h] # Gen!Never} = HostsOf(H \cup {l}, l.net)
<1>1. l.host \in Gen!Hosts /\ l.recent \in -1..4
  BY ProbelistFileAssumption DEF Gen!GenConstants, Gen!Hosts
<1>2. CASE l.recent = Gen!Never
  BY <1>2, HearsMore DEF Gen!Record, HostsOf
<1>3. CASE l.recent # Gen!Never
  <2>1. /\ e_b' = [rates EXCEPT ![l.host] = l.recent]
        /\ e_b_cnt' = Cardinality(Heard(H, l.net)) + 1
        /\ e_b_sum' = Cardinality(Answers(H, l.net)) + l.recent
    BY <1>3 DEF Gen!Record
  <2>2. HostsOf(H \cup {l}, l.net) = HostsOf(H, l.net) \cup {l.host}
    <3>1. Heard(H \cup {l}, l.net) = Heard(H, l.net) \cup {l}
      BY <1>3, HearsMore
    <3> QED  BY <3>1 DEF HostsOf
  <2>3. e_b' \in [Gen!Hosts -> -1..4]
    BY <1>1, <2>1
  <2>4. {h \in Gen!Hosts : e_b'[h] # Gen!Never} = HostsOf(H, l.net) \cup {l.host}
    BY <1>1, <1>3, <2>1
  <2> QED  BY <1>3, <2>1, <2>2, <2>3, <2>4, HearsMore
<1> QED  BY <1>2, <1>3

\* A line that comes is not in the history yet.
LEMMA NewLine ==
  ASSUME NEW l \in Lines, GenTypes, Gen!LineComes(l)
  PROVE  l \notin history /\ phase = "reading" /\ l.net \in Nat \ {0}
         /\ history \in Histories /\ history \cup {l} \in Histories
<1>1. l.host \in 0..255 /\ l.net \in Nat \ {0}
  BY ProbelistFileAssumption DEF Gen!GenConstants
<1>2. l \in history => l.host < l.host
  BY DEF Gen!LineComes
<1>3. ~(l.host < l.host)
  BY <1>1
<1>4. history \cup {l} \in Histories
  BY <1>2, <1>3, HearsMore DEF GenTypes
<1> QED  BY <1>1, <1>2, <1>3, <1>4 DEF Gen!LineComes, GenTypes

\* Another line of the same /24, or the first one: nothing more is complete.
LEMMA DealSameSlash24 ==
  ASSUME DealInv, NEW l \in Lines, Gen!SameSlash24(l)
  PROVE  DealInv'
<1>0. GenTypes /\ BlockIsHeard /\ InTurn /\ FilesAre
  BY DEF DealInv
<1>1. /\ Gen!LineComes(l) /\ last_slash24 \in {0, l.net} /\ last_slash24' = l.net
      /\ skip' = (IF last_slash24 = 0 THEN Gen!Skipped(l.net) ELSE skip)
      /\ Gen!Record(l, e_b, e_b_cnt, e_b_sum)
      /\ history' = history \cup {l}
      /\ UNCHANGED <<phase, summary_only, outfiles, outfiles_idx, objects_written>>
  BY DEF Gen!SameSlash24, Gen!optionVars, Gen!outVars
<1>2. /\ l \notin history /\ phase = "reading" /\ l.net \in Nat \ {0}
      /\ history \in Histories /\ history \cup {l} \in Histories
  BY <1>0, <1>1, NewLine
<1>3. GenTypes'
  BY <1>0, <1>1, <1>2 DEF GenTypes
<1>4. last_slash24 = 0 => history = {}
  BY <1>0, <1>2 DEF InTurn
<1>5. /\ e_b_cnt = Cardinality(Heard(history, l.net))
      /\ e_b_sum = Cardinality(Answers(history, l.net))
      /\ e_b \in [Gen!Hosts -> -1..4]
      /\ {h \in Gen!Hosts : e_b[h] # Gen!Never} = HostsOf(history, l.net)
  <2>1. history = {} => Heard(history, l.net) = Heard(history, last_slash24)
    BY DEF Heard
  <2>2. Heard(history, l.net) = Heard(history, last_slash24)
    BY <1>1, <1>4, <2>1
  <2> QED  BY <1>0, <1>2, <2>2 DEF BlockIsHeard, Answers, HostsOf
<1>6. BlockIsHeard'
  <2>1. /\ e_b_cnt' = Cardinality(Heard(history \cup {l}, l.net))
        /\ e_b_sum' = Cardinality(Answers(history \cup {l}, l.net))
        /\ e_b' \in [Gen!Hosts -> -1..4]
        /\ {h \in Gen!Hosts : e_b'[h] # Gen!Never} = HostsOf(history \cup {l}, l.net)
    BY <1>1, <1>2, <1>5, RecordHears
  <2> QED  BY <1>1, <2>1 DEF BlockIsHeard
<1>7. InTurn'
  <2>1. \A k \in history \cup {l} : k.net <= l.net
    <3>1. l.net <= l.net
      BY <1>2
    <3>2. \A k \in history : k.net <= l.net
      BY <1>0, <1>1, <1>2, <1>4 DEF InTurn
    <3> QED  BY <3>1, <3>2
  <2>2. l.net \in NetsOf(history \cup {l})
    BY DEF NetsOf
  <2>3. skip' = Gen!Skipped(l.net)
    BY <1>0, <1>1, <1>2 DEF InTurn
  <2> QED  BY <1>1, <1>2, <2>1, <2>2, <2>3 DEF InTurn
<1>8. Written' = Written
  <2>1. Gen!Complete' = Gen!Complete
    <3>1. /\ Gen!Complete = {k.net : k \in history} \ {last_slash24}
          /\ Gen!Complete' = {k.net : k \in history \cup {l}} \ {l.net}
      BY <1>1, <1>2 DEF Gen!Complete
    <3>2. {k.net : k \in history \cup {l}} \ {l.net} = {k.net : k \in history} \ {l.net}
      OBVIOUS
    <3>3. {k.net : k \in history} \ {l.net} = {k.net : k \in history} \ {last_slash24}
      BY <1>1, <1>4
    <3> QED  BY <3>1, <3>2, <3>3
  <2>2. l.net \notin Gen!Complete
    <3>1. Gen!Complete' = {k.net : k \in history \cup {l}} \ {l.net}
      BY <1>1, <1>2 DEF Gen!Complete
    <3> QED  BY <2>1, <3>1
  <2>3. \A s \in Gen!Complete : Heard(history \cup {l}, s) = Heard(history, s)
    BY <1>2, <2>2, HearsMore
  <2>4. Objects(history \cup {l}, Gen!Complete) = Objects(history, Gen!Complete)
    BY <1>0, <2>3, CompleteIs, ObjectsOnly
  <2> QED  BY <1>1, <2>1, <2>4 DEF Written
<1>9. FilesAre'
  BY <1>0, <1>1, <1>8 DEF FilesAre, Ending
<1> QED  BY <1>3, <1>6, <1>7, <1>9 DEF DealInv

\* A line of another /24: the last one is complete, and dumped.
LEMMA DealNextSlash24 ==
  ASSUME DealInv, NEW l \in Lines, Gen!NextSlash24(l)
  PROVE  DealInv'
<1>0. GenTypes /\ BlockIsHeard /\ InTurn /\ FilesAre
  BY DEF DealInv
<1>1. /\ Gen!LineComes(l) /\ last_slash24 > 0 /\ l.net > last_slash24
      /\ Gen!Dump /\ outfiles' = Gen!OutfilesAfterDump /\ last_slash24' = l.net
      /\ Gen!Record(l, Gen!Unset, 0, 0)
      /\ skip' = (Gen!Stops \/ Gen!Skipped(l.net))
      /\ phase' = (IF Gen!Stops THEN "stopped" ELSE "reading")
      /\ history' = (IF Gen!Stops THEN history ELSE history \cup {l})
      /\ UNCHANGED summary_only
  BY DEF Gen!NextSlash24, Gen!optionVars
<1>2. /\ l \notin history /\ phase = "reading" /\ l.net \in Nat \ {0}
      /\ history \in Histories /\ history \cup {l} \in Histories
      /\ last_slash24 \in Nat
  BY <1>0, <1>1, NewLine DEF GenTypes
<1>3. GenTypes'
  BY <1>0, <1>1, <1>2 DEF GenTypes
<1>4. l.net \notin NetsOf(history) /\ last_slash24 \in NetsOf(history)
  <2>1. \A k \in history : k.net <= last_slash24
    BY <1>0, <1>2 DEF InTurn
  <2>2. ~(l.net <= last_slash24)
    BY <1>1, <1>2
  <2>3. l.net \notin NetsOf(history)
    BY <2>1, <2>2 DEF NetsOf
  <2> QED  BY <1>0, <1>1, <1>2, <2>3 DEF InTurn
<1>5. BlockIsHeard'
  <2> SUFFICES ASSUME ~Gen!Stops PROVE BlockIsHeard'
    BY <1>1 DEF BlockIsHeard
  <2>1. Heard(history, l.net) = {} /\ Answers(history, l.net) = {} /\ HostsOf(history, l.net) = {}
    BY <1>4 DEF Heard, Answers, HostsOf, NetsOf
  <2>2. Gen!Unset \in [Gen!Hosts -> -1..4] /\ {h \in Gen!Hosts : Gen!Unset[h] # Gen!Never} = {}
    BY DEF Gen!Unset, Gen!Never
  <2>3. Gen!Record(l, Gen!Unset, Cardinality(Heard(history, l.net)), Cardinality(Answers(history, l.net)))
    BY <1>1, <2>1, FS_EmptySet
  <2>4. /\ e_b_cnt' = Cardinality(Heard(history \cup {l}, l.net))
        /\ e_b_sum' = Cardinality(Answers(history \cup {l}, l.net))
        /\ e_b' \in [Gen!Hosts -> -1..4]
        /\ {h \in Gen!Hosts : e_b'[h] # Gen!Never} = HostsOf(history \cup {l}, l.net)
    BY <1>2, <2>1, <2>2, <2>3, RecordHears
  <2> QED  BY <1>1, <2>4 DEF BlockIsHeard
<1>6. InTurn'
  <2>1. CASE Gen!Stops
    BY <1>1, <2>1 DEF InTurn
  <2>2. CASE ~Gen!Stops
    <3>1. \A k \in history \cup {l} : k.net <= l.net
      <4>1. l.net <= l.net
        BY <1>2
      <4>2. \A k \in history : k.net \in Nat /\ k.net <= last_slash24
        BY <1>0, <1>2, ProbelistFileAssumption DEF InTurn, Histories, Gen!GenConstants
      <4>3. \A k \in history : k.net <= l.net
        BY <1>1, <1>2, <4>2
      <4> QED  BY <4>1, <4>3
    <3>2. l.net \in NetsOf(history \cup {l})
      BY DEF NetsOf
    <3>3. /\ phase' = "reading" /\ last_slash24' = l.net /\ history' = history \cup {l}
          /\ skip' = Gen!Skipped(l.net) /\ l.net # 0
      <4>1. skip' = Gen!Skipped(l.net)
        <5>1. Gen!Skipped(l.net) \in BOOLEAN
          BY DEF Gen!Skipped
        <5>2. skip' = (FALSE \/ Gen!Skipped(l.net))
          BY <1>1, <2>2, Zenon
        <5> QED  BY <5>1, <5>2
      <4> QED  BY <1>1, <1>2, <2>2, <4>1
    <3> QED  BY <3>1, <3>2, <3>3 DEF InTurn
  <2> QED  BY <2>1, <2>2
<1>7. Written' = IF Gen!Writes THEN Append(Written, Gen!DumpedObject) ELSE Written
  <2>1. Gen!Complete' = NetsOf(history)
    <3>1. Gen!Complete' = NetsOf(history') \ (IF phase' \in {"reading", "failed"} THEN {l.net} ELSE {})
      BY <1>1 DEF Gen!Complete, NetsOf
    <3>2. CASE Gen!Stops
      BY <1>1, <3>1, <3>2
    <3>3. CASE ~Gen!Stops
      <4>1. NetsOf(history \cup {l}) = NetsOf(history) \cup {l.net}
        BY DEF NetsOf
      <4> QED  BY <1>1, <1>4, <3>1, <3>3, <4>1
    <3> QED  BY <3>2, <3>3
  <2>2. \A s \in NetsOf(history) : Heard(history', s) = Heard(history, s)
    BY <1>1, <1>2, <1>4, HearsMore, ZenonT(60)
  <2>3. Objects(history', NetsOf(history)) = Objects(history, NetsOf(history))
    BY <1>2, <2>2, NetsFinite, ObjectsOnly
  <2>4. Written' = IF summary_only THEN <<>> ELSE Objects(history, NetsOf(history))
    BY <1>1, <2>1, <2>3 DEF Written
  <2> QED  BY <1>2, <2>4, DumpedIsNext
<1>8. FilesAre'
  <2>1. Gen!Writes => Gen!DumpedObject \in Seq(Tokens)
    BY <1>2, DumpedIsNext
  <2>2. /\ objects_written' = Len(Written')
        /\ outfiles_idx' = Len(Written') % Gen!outfiles_cnt
        /\ Gen!OutfilesAfterDump = [f \in 0..(Gen!outfiles_cnt - 1) |-> Text(Written', f, <<>>)]
    <3>1. Written \in Seq(Seq(Tokens)) /\ phase # "done"
      BY <1>0, <1>2, CompleteIs
    <3> QED  BY <1>0, <1>1, <1>7, <2>1, <3>1, DumpDeals
  <2>3. Ending' = <<>>
    BY <1>1 DEF Ending
  <2> QED  BY <1>1, <2>2, <2>3 DEF FilesAre
<1> QED  BY <1>3, <1>5, <1>6, <1>8 DEF DealInv

\* The last /24 is dumped, and every file is ended.
LEMMA DealFinish ==
  ASSUME DealInv, Gen!Finish
  PROVE  DealInv'
<1>0. GenTypes /\ BlockIsHeard /\ InTurn /\ FilesAre
  BY DEF DealInv
<1>1. /\ phase \in {"reading", "stopped"} /\ Gen!Dump /\ phase' = "done"
      /\ outfiles' = [f \in DOMAIN outfiles |-> Append(Gen!OutfilesAfterDump[f], Close)]
      /\ UNCHANGED <<summary_only, history, last_slash24>>
  BY GenText DEF Gen!Finish, Gen!optionVars, Gen!blockVars
<1>2. GenTypes' /\ BlockIsHeard' /\ InTurn'
  BY <1>0, <1>1 DEF GenTypes, BlockIsHeard, InTurn
<1>3. Written' = IF Gen!Writes THEN Append(Written, Gen!DumpedObject) ELSE Written
  <2>1. Gen!Complete' = NetsOf(history)
    BY <1>1 DEF Gen!Complete, NetsOf
  <2>2. Written' = IF summary_only THEN <<>> ELSE Objects(history, NetsOf(history))
    BY <1>1, <2>1 DEF Written
  <2> QED  BY <1>1, <2>2, DumpedIsNext
<1>4. /\ objects_written' = Len(Written')
      /\ outfiles_idx' = Len(Written') % Gen!outfiles_cnt
      /\ Gen!OutfilesAfterDump = [f \in 0..(Gen!outfiles_cnt - 1) |-> Text(Written', f, <<>>)]
  <2>1. Written \in Seq(Seq(Tokens)) /\ phase # "done"
    BY <1>0, <1>1, CompleteIs
  <2>2. Gen!Writes => Gen!DumpedObject \in Seq(Tokens)
    BY <1>1, DumpedIsNext
  <2> QED  BY <1>0, <1>1, <1>3, <2>1, <2>2, DumpDeals
<1>5. Ending' = <<Close>>
  BY <1>1 DEF Ending
<1>6. \A f \in 0..(Gen!outfiles_cnt - 1) :
        Append(Text(Written', f, <<>>), Close) = Text(Written', f, <<Close>>)
  <2> SUFFICES ASSUME NEW f \in 0..(Gen!outfiles_cnt - 1)
               PROVE  Append(Text(Written', f, <<>>), Close) = Text(Written', f, <<Close>>)
    OBVIOUS
  <2> DEFINE w == Written'
  <2>1. w \in Seq(Seq(Tokens))
    <3>1. Written \in Seq(Seq(Tokens))
      BY <1>0, CompleteIs
    <3>2. Gen!Writes => Gen!DumpedObject \in Seq(Tokens)
      BY <1>1, DumpedIsNext
    <3> QED  BY <1>3, <3>1, <3>2, AppendProperties
  <2>2. <<>> \in Seq(Tokens)
    OBVIOUS
  <2> HIDE DEF w
  <2>3. /\ Text(w, f, <<>>) \in Seq(Tokens)
        /\ Text(w, f, <<Close>>) = Text(w, f, <<>>) \o <<Close>>
    BY <2>1, <2>2, TextMore
  <2>4. Append(Text(w, f, <<>>), Close) = Text(w, f, <<>>) \o <<Close>>
    BY <2>3, TokensAre, AppendIsConcat
  <2> QED  BY <2>3, <2>4 DEF w
<1>7. outfiles' = [f \in 0..(Gen!outfiles_cnt - 1) |-> Text(Written', f, <<Close>>)]
  <2>1. DOMAIN outfiles = 0..(Gen!outfiles_cnt - 1)
    BY <1>0 DEF FilesAre
  <2> QED  BY <1>1, <1>4, <1>6, <2>1
<1>8. FilesAre'
  BY <1>4, <1>5, <1>7 DEF FilesAre
<1> QED  BY <1>2, <1>8 DEF DealInv

\* Every step keeps the invariant.
LEMMA DealStep ==
  ASSUME DealInv, [Next]_vars
  PROVE  DealInv'
<1>0. GenTypes /\ BlockIsHeard /\ InTurn /\ FilesAre
  BY DEF DealInv
<1>1. ASSUME NEW l \in Lines, Gen!SameSlash24(l) PROVE DealInv'
  BY <1>1, DealSameSlash24
<1>2. ASSUME NEW l \in Lines, Gen!NextSlash24(l) PROVE DealInv'
  BY <1>2, DealNextSlash24
<1>3. CASE Gen!BadLine
  <2>1. /\ phase = "reading" /\ phase' = "failed"
        /\ UNCHANGED <<summary_only, last_slash24, history, objects_written, outfiles_idx, outfiles>>
    BY <1>3 DEF Gen!BadLine, Gen!optionVars, Gen!blockVars, Gen!outVars
  <2>2. GenTypes' /\ BlockIsHeard' /\ InTurn'
    BY <1>0, <2>1 DEF GenTypes, BlockIsHeard, InTurn
  <2>3. Written' = Written /\ Ending' = Ending
    BY <2>1 DEF Written, Gen!Complete, Ending
  <2> QED  BY <1>0, <2>1, <2>2, <2>3 DEF DealInv, FilesAre
<1>4. CASE Gen!Finish
  BY <1>4, DealFinish
<1>5. CASE OpensFile \/ Reads \/ UNCHANGED vars
  <2>1. UNCHANGED genVars
    BY <1>5 DEF OpensFile, Reads, vars
  <2>2. UNCHANGED <<phase, summary_only, last_slash24, skip, e_b, e_b_cnt, e_b_sum,
                    outfiles, outfiles_idx, objects_written, history>>
    BY <2>1 DEF genVars
  <2>3. Written' = Written /\ Ending' = Ending
    BY <2>2 DEF Written, Gen!Complete, Ending
  <2>4. GenTypes' /\ BlockIsHeard' /\ InTurn'
    BY <1>0, <2>2 DEF GenTypes, BlockIsHeard, InTurn
  <2>5. FilesAre'
    BY <1>0, <2>2, <2>3 DEF FilesAre
  <2> QED  BY <2>4, <2>5 DEF DealInv
<1> QED  BY <1>1, <1>2, <1>3, <1>4, <1>5 DEF Next, Generates, Gen!Next

\* What the texts of FilesAreDealt are.
LEMMA TextIs ==
  ASSUME GenTypes, NEW f
  PROVE  Gen!TextOf(f) = Text(Written, f, Ending)
<1>1. \A s : Gen!Answered(s) = Heard(history, s)
  BY DEF Gen!Answered, Heard
<1>2. \A s : Gen!Total(s) = Cardinality(Answers(history, s))
  BY <1>1, GenText DEF Gen!Total, Answers
<1>3. \A s : Gen!WorthProbing(s) <=> Worth(history, s)
  BY <1>1, <1>2, GenText DEF Gen!WorthProbing, Worth
<1>4. \A s : Gen!ObjectOf(s) = ObjectIn(history, s)
  BY <1>1, <1>2, GenText DEF Gen!ObjectOf, ObjectIn, HostsOf, AebOf
<1>5. Gen!ToWrite = IF summary_only THEN <<>> ELSE Chosen(history, Gen!Complete)
  <2>1. {s \in Gen!Complete : Gen!WorthProbing(s)} = {s \in Gen!Complete : Worth(history, s)}
    BY <1>3
  <2> QED  BY <2>1, GenText DEF Gen!ToWrite, Chosen
<1> DEFINE w == Gen!ToWrite
<1>6. /\ DOMAIN w = 1..Len(Written) /\ Len(Written) \in Nat
      /\ \A i \in DOMAIN w : Written[i] = Gen!ObjectOf(w[i])
  <2>1. CASE summary_only
    BY <1>5, <2>1 DEF Written
  <2>2. CASE ~summary_only
    <3>1. w = Chosen(history, Gen!Complete) /\ Written = Objects(history, Gen!Complete)
      BY <1>5, <2>2 DEF Written
    <3>2. Len(Written) = Len(w) /\ DOMAIN w = 1..Len(w) /\ Len(w) \in Nat
      BY <3>1, CompleteIs, ChosenFacts, ObjectsType DEF GenTypes
    <3>3. \A i \in DOMAIN w : Written[i] = ObjectIn(history, w[i])
      BY <3>1 DEF Objects
    <3> QED  BY <1>4, <3>2, <3>3
  <2> QED  BY <2>1, <2>2
<1> DEFINE own == Turns(Len(Written), Gen!outfiles_cnt, f)
<1>7. Gen!InOrder({i \in DOMAIN w : (i - 1) % Gen!outfiles_cnt = f}) = own
  BY <1>6, GenText DEF Turns
<1>8. \A i \in DOMAIN own : own[i] \in DOMAIN w
  <2> DEFINE S == {i \in 1..Len(Written) : (i - 1) % Gen!outfiles_cnt = f}
  <2>1. S \in SUBSET Nat /\ IsFiniteSet(S)
    <3>1. S \in SUBSET (1..Len(Written)) /\ IsFiniteSet(1..Len(Written))
      BY <1>6, FS_Interval
    <3>2. 1..Len(Written) \subseteq Nat
      BY <1>6
    <3> HIDE DEF S
    <3>3. IsFiniteSet(S)
      BY <3>1, FS_Subset
    <3> QED  BY <3>1, <3>2, <3>3
  <2>2. S \subseteq DOMAIN w /\ own = InOrder(S)
    BY <1>6 DEF Turns
  <2> HIDE DEF S, own
  <2>3. own \in Seq(S)
    BY <2>1, <2>2, InOrderFacts
  <2> QED  BY <2>2, <2>3, LenProperties, ElementOfSeq
<1> HIDE DEF w, own
<1> DEFINE comma(i) == IF i = 1 THEN <<>> ELSE <<Comma>>
<1>9. [i \in DOMAIN own |-> comma(i) \o Gen!ObjectOf(w[own[i]])] = Parts(Written, Gen!outfiles_cnt, f)
  <2>1. Parts(Written, Gen!outfiles_cnt, f) = [i \in DOMAIN own |-> comma(i) \o Written[own[i]]]
    BY DEF Parts, own
  <2>2. \A i \in DOMAIN own : Written[own[i]] = Gen!ObjectOf(w[own[i]])
    BY <1>6, <1>8
  <2> HIDE DEF comma
  <2> QED  BY <2>1, <2>2
<1>10. Gen!TextOf(f) =
         <<Gen!Open>>
         \o Gen!FlattenSeq([i \in DOMAIN own |->
              (IF i = 1 THEN <<>> ELSE <<Gen!Comma>>) \o Gen!ObjectOf(w[own[i]])])
         \o (IF phase = "done" THEN <<Gen!Close>> ELSE <<>>)
  BY <1>7, Zenon DEF Gen!TextOf, w
<1>11. Gen!TextOf(f) =
         <<Open>> \o FlattenSeq([i \in DOMAIN own |-> comma(i) \o Gen!ObjectOf(w[own[i]])]) \o Ending
  BY <1>10, GenText, Zenon DEF Ending
<1> HIDE DEF comma
<1> QED  BY <1>9, <1>11 DEF Text

\* At every moment, each output file holds exactly the text that the history read so
\* far calls for: its share of the /24s that are worth probing, in order, each with
\* the hosts and the A(E(b)) of the history, separated by commas, and a closing brace
\* once the tool has ended well.
THEOREM EveryFileIsDealt == Spec => []FilesAreDealt
<1>1. DealInv => FilesAreDealt
  <2> SUFFICES ASSUME DealInv, NEW f \in DOMAIN outfiles PROVE outfiles[f] = Gen!TextOf(f)
    BY DEF FilesAreDealt, Gen!FilesAreDealt
  <2>1. outfiles[f] = Text(Written, f, Ending)
    BY DEF DealInv, FilesAre
  <2> QED  BY <2>1, TextIs DEF DealInv
<1> QED  BY <1>1, DealInit, DealStep, PTL DEF Spec

-----------------------------------------------------------------------------
(* The tokens of a list                                                      *)

\* The tokens of an object with h hosts, and what those of each kind say.
ObjectShape(o, s, h) ==
  /\ o \in Seq(Tokens) /\ Len(o) = 6 + 3 * h
  /\ o[1] = Token("key", s) /\ o[2] = Open
  /\ o[3].kind = "host_cnt" /\ o[4].kind = "avg_resp_rate" /\ o[5].kind = "meta"
  /\ \A i \in 1..h : /\ o[3 * i + 3] = Open
                     /\ o[3 * i + 4].kind = "host_ip"
                     /\ o[3 * i + 5] = Close
  /\ o[6 + 3 * h] = Close

ObjectSays(o, s, a, hosts, h) ==
  /\ OfKinds(o, {"key"}) = <<Token("key", s)>>
  /\ OfKinds(o, {"host_cnt"}) = <<Token("host_cnt", h)>>
  /\ OfKinds(o, {"avg_resp_rate"}) = <<Token("avg_resp_rate", a)>>
  /\ OfKinds(o, {"meta"}) = <<Token("meta", SetToSeq(Gen!Metadata(s)))>>
  /\ OfKinds(o, {"host_ip"}) =
       [i \in 1..h |-> Token("host_ip", Address(s, InOrder(hosts)[i]))]

\* The tokens of an object, and what they say.
LEMMA ObjectTokens ==
  ASSUME NEW s \in Nat, NEW a \in Int, NEW hosts \in SUBSET Nat, IsFiniteSet(hosts),
         NEW o, o = Object(s, a, Gen!Metadata(s), hosts), NEW h, h = Cardinality(hosts)
  PROVE  h \in Nat /\ ObjectShape(o, s, h) /\ ObjectSays(o, s, a, hosts, h)
<1> DEFINE t1 == Token("key", s)
           t3 == Token("host_cnt", h)
           t4 == Token("avg_resp_rate", a)
           t5 == Token("meta", SetToSeq(Gen!Metadata(s)))
           head == <<t1, Open, t3, t4, t5>>
           g == HostObjects(s, hosts)
           F == FlattenSeq(g)
           ips == [i \in 1..h |-> Token("host_ip", Address(s, InOrder(hosts)[i]))]
<1>1. /\ g \in Seq(Seq(Tokens)) /\ Len(g) = h /\ h \in Nat
      /\ \A i \in 1..h : Token("host_ip", Address(s, InOrder(hosts)[i])) \in Tokens
  BY HostObjectsType
<1>2. \A i \in 1..h : g[i] = <<Open, ips[i], Close>> /\ ips[i] \in Tokens
                      /\ ips[i].kind = "host_ip"
  BY <1>1 DEF HostObjects, Token
<1>3. t1 \in Tokens /\ t3 \in Tokens /\ t4 \in Tokens /\ t5 \in Tokens
      /\ Open \in Tokens /\ Close \in Tokens
  <2>1. {"key", "host_cnt", "avg_resp_rate"} \subseteq Kinds
    BY DEF Kinds
  <2> QED  BY <1>1, <2>1, TokensAre
<1>4. o = head \o F \o <<Close>>
  BY ObjectIs
<1>5. /\ t1.kind = "key" /\ t3.kind = "host_cnt" /\ t4.kind = "avg_resp_rate"
      /\ t5.kind = "meta" /\ Open.kind = "{" /\ Close.kind = "}"
  BY DEF Token, Open, Close
<1>6. ips \in Seq(Tokens) /\ Len(ips) = h
  <2>1. ips \in [1..h -> Tokens]
    BY <1>1
  <2> HIDE DEF ips
  <2> QED  BY <1>1, <2>1, SeqDef
<1>7. ips = [i \in 1..h |-> Token("host_ip", Address(s, InOrder(hosts)[i]))]
  OBVIOUS
<1> HIDE DEF g, ips, t1, t3, t4, t5
<1>8. /\ F \in Seq(Tokens) /\ Len(F) = 3 * h
      /\ \A i \in 1..h : F[3 * i - 2] = Open /\ F[3 * i - 1] = ips[i] /\ F[3 * i] = Close
  <2>1. \A i \in 1..h : Len(g[i]) = 3 /\ g[i][1] = Open /\ g[i][2] = ips[i] /\ g[i][3] = Close
    BY <1>2
  <2>2. /\ F \in Seq(Tokens) /\ Len(F) = 3 * h
        /\ \A i \in 1..h, d \in 1..3 : F[3 * (i - 1) + d] = g[i][d]
    <3>1. \A i \in 1..Len(g) : Len(g[i]) = 3
      BY <1>1, <2>1
    <3>2. /\ FlattenSeq(g) \in Seq(Tokens) /\ Len(FlattenSeq(g)) = 3 * Len(g)
          /\ \A i \in 1..Len(g), d \in 1..3 : FlattenSeq(g)[3 * (i - 1) + d] = g[i][d]
      BY <1>1, <3>1, Triples
    <3> QED  BY <1>1, <3>2
  <2>3. \A i \in 1..h : 3 * (i - 1) + 1 = 3 * i - 2 /\ 3 * (i - 1) + 2 = 3 * i - 1 /\ 3 * (i - 1) + 3 = 3 * i
    BY <1>1
  <2>4. 1 \in 1..3 /\ 2 \in 1..3 /\ 3 \in 1..3
    OBVIOUS
  <2> HIDE DEF F
  <2>5. \A i \in 1..h : F[3 * (i - 1) + 1] = Open /\ F[3 * (i - 1) + 2] = ips[i] /\ F[3 * (i - 1) + 3] = Close
    BY <2>1, <2>2, <2>4
  <2> QED  BY <2>2, <2>3, <2>5, ZenonT(60)
<1>9. head \in Seq(Tokens) /\ Len(head) = 5 /\ <<Close>> \in Seq(Tokens)
      /\ head[1] = t1 /\ head[2] = Open /\ head[3] = t3 /\ head[4] = t4 /\ head[5] = t5
  BY <1>3
<1>10. ASSUME NEW K
      PROVE  OfKinds(o, K) = (OfKinds(head, K) \o OfKinds(F, K)) \o OfKinds(<<Close>>, K)
  <2> HIDE DEF head, F
  <2>1. head \o F \in Seq(Tokens)
    BY <1>8, <1>9, ConcatProperties
  <2>2. OfKinds(head \o F \o <<Close>>, K) = OfKinds(head \o F, K) \o OfKinds(<<Close>>, K)
    BY <1>9, <2>1, OfKindsConcat, Zenon
  <2>3. OfKinds(head \o F, K) = OfKinds(head, K) \o OfKinds(F, K)
    BY <1>8, <1>9, OfKindsConcat, Zenon
  <2> QED  BY <1>4, <2>2, <2>3
<1>11. ASSUME NEW K, "}" \notin K PROVE OfKinds(<<Close>>, K) = <<>>
  BY <1>3, <1>5, <1>11, OfKindsOne
<1>12. ASSUME NEW K, "{" \notin K, "}" \notin K, "host_ip" \notin K
      PROVE  OfKinds(F, K) = <<>>
  <2>1. \A i \in 1..h : OfKinds(g[i], K) = <<>>
    <3> SUFFICES ASSUME NEW i \in 1..h PROVE OfKinds(g[i], K) = <<>>
      OBVIOUS
    <3>1. OfKinds(<<Open, ips[i], Close>>, K) =
            Keep(Keep(Keep(<<>>, Open, K), ips[i], K), Close, K)
      BY <1>2, <1>3, OfKindsThree
    <3> QED  BY <1>2, <1>5, <1>12, <3>1 DEF Keep
  <2> HIDE DEF F
  <2>2. OfKinds(FlattenSeq(g), K) = <<>>
    BY <1>1, <2>1, FlattenNone
  <2> QED  BY <2>2 DEF F
<1>13. OfKinds(F, {"host_ip"}) = ips
  <2> DEFINE K == {"host_ip"}
  <2>1. \A i \in 1..h : OfKinds(g[i], K) = <<ips[i]>>
    <3> SUFFICES ASSUME NEW i \in 1..h PROVE OfKinds(g[i], K) = <<ips[i]>>
      OBVIOUS
    <3>1. OfKinds(<<Open, ips[i], Close>>, K) =
            Keep(Keep(Keep(<<>>, Open, K), ips[i], K), Close, K)
      BY <1>2, <1>3, OfKindsThree
    <3>2. Append(<<>>, ips[i]) = <<ips[i]>>
      OBVIOUS
    <3> QED  BY <1>2, <1>5, <3>1, <3>2 DEF Keep
  <2> HIDE DEF K
  <2> QED  BY <1>1, <1>6, <2>1, FlattenOfKinds, ZenonT(60) DEF K
<1> DEFINE K1 == {"key"} K3 == {"host_cnt"} K4 == {"avg_resp_rate"} K5 == {"meta"} K6 == {"host_ip"}
<1>14. /\ OfKinds(head, K1) = <<t1>> /\ OfKinds(head, K3) = <<t3>> /\ OfKinds(head, K4) = <<t4>>
      /\ OfKinds(head, K5) = <<t5>> /\ OfKinds(head, K6) = <<>>
  <2>1. \A K : OfKinds(head, K) =
          Keep(Keep(Keep(Keep(Keep(<<>>, t1, K), Open, K), t3, K), t4, K), t5, K)
    BY <1>3, OfKindsFive
  <2>2. \A x : Append(<<>>, x) = <<x>>
    OBVIOUS
  <2> HIDE DEF head
  <2>3. OfKinds(head, K1) = <<t1>>
    BY <1>5, <2>1, <2>2 DEF Keep
  <2>4. OfKinds(head, K3) = <<t3>>
    BY <1>5, <2>1, <2>2 DEF Keep
  <2>5. OfKinds(head, K4) = <<t4>>
    BY <1>5, <2>1, <2>2 DEF Keep
  <2>6. OfKinds(head, K5) = <<t5>>
    BY <1>5, <2>1, <2>2 DEF Keep
  <2>7. OfKinds(head, K6) = <<>>
    BY <1>5, <2>1, <2>2 DEF Keep
  <2> QED  BY <2>3, <2>4, <2>5, <2>6, <2>7
<1>15. /\ OfKinds(o, K1) = <<t1>> /\ OfKinds(o, K3) = <<t3>> /\ OfKinds(o, K4) = <<t4>>
       /\ OfKinds(o, K5) = <<t5>>
  <2>1. \A K : K \in {K1, K3, K4, K5} => OfKinds(F, K) = <<>> /\ OfKinds(<<Close>>, K) = <<>>
    BY <1>11, <1>12
  <2>2. \A x : (<<x>> \o <<>>) \o <<>> = <<x>>
    OBVIOUS
  <2> HIDE DEF head, F, K1, K3, K4, K5
  <2> QED  BY <1>10, <1>14, <2>1, <2>2
<1>16. OfKinds(o, K6) = ips
  <2>1. OfKinds(<<Close>>, K6) = <<>>
    BY <1>11
  <2>2. OfKinds(F, K6) = ips
    BY <1>13
  <2>3. (<<>> \o ips) \o <<>> = ips
    BY <1>6, ConcatEmptySeq
  <2> HIDE DEF head, F, K6
  <2> QED  BY <1>10, <1>14, <2>1, <2>2, <2>3
<1>17. /\ o \in Seq(Tokens) /\ Len(o) = 6 + 3 * h
       /\ o[1] = t1 /\ o[2] = Open /\ o[3] = t3 /\ o[4] = t4 /\ o[5] = t5
       /\ \A i \in 1..h : o[3 * i + 3] = Open /\ o[3 * i + 4] = ips[i] /\ o[3 * i + 5] = Close
       /\ o[6 + 3 * h] = Close
  <2> HIDE DEF head, F
  <2> DEFINE hf == head \o F
  <2>1. /\ hf \in Seq(Tokens) /\ Len(hf) = 5 + 3 * h
        /\ \A j \in 1..(5 + 3 * h) : hf[j] = IF j <= 5 THEN head[j] ELSE F[j - 5]
    <3>1. /\ hf \in Seq(Tokens) /\ Len(hf) = Len(head) + Len(F)
          /\ \A j \in 1..(Len(head) + Len(F)) :
               hf[j] = IF j <= Len(head) THEN head[j] ELSE F[j - Len(head)]
      BY <1>8, <1>9, ConcatProperties
    <3> HIDE DEF hf
    <3>2. Len(head) = 5 /\ Len(F) = 3 * h
      BY <1>8, <1>9
    <3> QED  BY <3>1, <3>2
  <2> HIDE DEF hf
  <2>2. o = Append(hf, Close)
    BY <1>3, <1>4, <2>1, AppendIsConcat DEF hf
  <2>3. /\ o \in Seq(Tokens) /\ Len(o) = (5 + 3 * h) + 1
        /\ \A j \in 1..(5 + 3 * h) : o[j] = hf[j]
        /\ o[(5 + 3 * h) + 1] = Close
    BY <1>3, <2>1, <2>2, AppendProperties
  <2>4. \A j \in 1..(5 + 3 * h) : o[j] = IF j <= 5 THEN head[j] ELSE F[j - 5]
    BY <2>1, <2>3
  <2>5. /\ 1 \in 1..(5 + 3 * h) /\ 2 \in 1..(5 + 3 * h) /\ 3 \in 1..(5 + 3 * h)
        /\ 4 \in 1..(5 + 3 * h) /\ 5 \in 1..(5 + 3 * h)
        /\ (5 + 3 * h) + 1 = 6 + 3 * h
    BY <1>1
  <2>6. o[1] = t1 /\ o[2] = Open /\ o[3] = t3 /\ o[4] = t4 /\ o[5] = t5
    BY <1>9, <2>4, <2>5
  <2>7. \A i \in 1..h : o[3 * i + 3] = Open /\ o[3 * i + 4] = ips[i] /\ o[3 * i + 5] = Close
    <3> SUFFICES ASSUME NEW i \in 1..h
                 PROVE  o[3 * i + 3] = Open /\ o[3 * i + 4] = ips[i] /\ o[3 * i + 5] = Close
      OBVIOUS
    <3>1. /\ 3 * i + 3 \in 1..(5 + 3 * h) /\ ~(3 * i + 3 <= 5) /\ (3 * i + 3) - 5 = 3 * i - 2
          /\ 3 * i + 4 \in 1..(5 + 3 * h) /\ ~(3 * i + 4 <= 5) /\ (3 * i + 4) - 5 = 3 * i - 1
          /\ 3 * i + 5 \in 1..(5 + 3 * h) /\ ~(3 * i + 5 <= 5) /\ (3 * i + 5) - 5 = 3 * i
      BY <1>1
    <3>2. o[3 * i + 3] = F[3 * i - 2] /\ o[3 * i + 4] = F[3 * i - 1] /\ o[3 * i + 5] = F[3 * i]
      BY <2>4, <3>1
    <3> QED  BY <1>8, <3>2
  <2> QED  BY <2>3, <2>5, <2>6, <2>7
<1> HIDE DEF head, F
<1>18. \A i \in 1..h : o[3 * i + 4].kind = "host_ip"
  BY <1>2, <1>17
<1>19. ObjectShape(o, s, h)
  BY <1>5, <1>17, <1>18 DEF ObjectShape, t1
<1>20. ObjectSays(o, s, a, hosts, h)
  BY <1>7, <1>15, <1>16 DEF ObjectSays, t1, t3, t4, t5
<1> QED  BY <1>1, <1>19, <1>20

\* The operators of ProbelistText are the same in module ProbelistReader.
LEMMA ReaderText ==
  /\ \A t, K : Reader!OfKinds(t, K) = OfKinds(t, K)
  /\ \A t, k : Reader!Values(t, k) = Values(t, k)
  /\ Reader!Kinds = Kinds
  /\ \A s : Reader!FlattenSeq(s) = FlattenSeq(s)
  /\ \A f : Reader!Range(f) = Range(f)
  /\ \A S : Reader!Min(S) = Min(S)
  /\ \A s : Reader!Last(s) = Last(s)
  /\ \A S, T : Reader!Bijection(S, T) = Bijection(S, T)
<1>1. \A t, K : Reader!OfKinds(t, K) = OfKinds(t, K)
  BY Zenon DEF Reader!OfKinds, OfKinds
<1>2. \A t, k : Reader!Values(t, k) = Values(t, k)
  BY <1>1, Zenon DEF Reader!Values, Values
<1>3. Reader!Kinds = Kinds
  BY DEF Reader!Kinds, Kinds
<1>4. \A s : Reader!FlattenSeq(s) = FlattenSeq(s)
  BY Zenon DEF Reader!FlattenSeq, FlattenSeq
<1>5. \A f : Reader!Range(f) = Range(f)
  BY Zenon DEF Reader!Range, Range
<1>6. \A S : Reader!Min(S) = Min(S)
  BY Zenon DEF Reader!Min, Min
<1>7. \A s : Reader!Last(s) = Last(s)
  BY Zenon DEF Reader!Last, Last
<1>8. \A S, T : Reader!Bijection(S, T) = Bijection(S, T)
  BY Zenon DEF Reader!Bijection, Bijection, Reader!Injection, Injection,
               Reader!Surjection, Surjection, Reader!IsInjective, IsInjective
<1> QED  BY <1>1, <1>2, <1>3, <1>4, <1>5, <1>6, <1>7, <1>8

\* A list: its pieces, each the object of one /24 and the comma before it.
IsList(H, text, ps, ns) ==
  /\ H \in Histories
  /\ ps \in Seq(Seq(Tokens)) /\ ns \in Seq(Nat) /\ Len(ps) = Len(ns)
  /\ \A i \in 1..Len(ns) :
       /\ Worth(H, ns[i])
       /\ IsFiniteSet(Gen!Metadata(ns[i])) /\ Gen!Metadata(ns[i]) # {}
       /\ ps[i] = (IF i = 1 THEN <<>> ELSE <<Comma>>) \o ObjectIn(H, ns[i])
  /\ \A i, j \in 1..Len(ns) : ns[i] = ns[j] => i = j
  /\ text = <<Open>> \o FlattenSeq(ps) \o <<Close>>

\* How many hosts the object of a /24 has.
HostCnt(H, s) == Cardinality(HostsOf(H, s))

\* How many tokens come before the object in its piece.
Before(k) == IF k = 0 THEN 0 ELSE 1

\* A /24 that is worth probing has a host.
LEMMA WorthHasHosts ==
  ASSUME NEW H \in Histories, NEW s, Worth(H, s)
  PROVE  HostCnt(H, s) \in Nat \ {0}
<1>1. IsFiniteSet(HostsOf(H, s)) /\ Cardinality(Heard(H, s)) \in Nat
  BY HeardFacts
<1>2. Cardinality(Heard(H, s)) # 0
  BY <1>1, ProbelistFileAssumption DEF Gen!GenConstants, Worth
<1>3. Heard(H, s) # {}
  BY <1>2, FS_EmptySet
<1>4. HostsOf(H, s) # {}
  BY <1>3 DEF HostsOf
<1>5. Cardinality(HostsOf(H, s)) \in Nat /\ Cardinality(HostsOf(H, s)) # 0
  BY <1>1, <1>4, FS_CardinalityType, FS_EmptySet
<1> QED  BY <1>5 DEF HostCnt

\* The tokens of the object of a /24.
LEMMA ObjectInTokens ==
  ASSUME NEW H \in Histories, NEW s \in Nat, Worth(H, s)
  PROVE  /\ ObjectShape(ObjectIn(H, s), s, HostCnt(H, s))
         /\ ObjectSays(ObjectIn(H, s), s, AebOf(H, s), HostsOf(H, s), HostCnt(H, s))
<1>1. AebOf(H, s) \in Int /\ HostsOf(H, s) \in SUBSET Nat /\ IsFiniteSet(HostsOf(H, s))
  BY ObjectInType
<1> QED  BY <1>1, ObjectTokens DEF ObjectIn, HostCnt

\* The tokens of a piece: those of its object after at most a comma.
PieceShape(p, b, o, h) ==
  /\ p \in Seq(Tokens) /\ Len(p) = b + (6 + 3 * h)
  /\ b = 1 => p[1] = Comma
  /\ \A q \in 1..(6 + 3 * h) : p[b + q] = o[q]

\* What is in a piece.
LEMMA PieceTokens ==
  ASSUME NEW H, NEW text, NEW ps, NEW ns, IsList(H, text, ps, ns),
         NEW k \in 0..(Len(ns) - 1)
  PROVE  /\ H \in Histories /\ ns[k + 1] \in Nat /\ Worth(H, ns[k + 1])
         /\ HostCnt(H, ns[k + 1]) \in Nat \ {0}
         /\ PieceShape(ps[k + 1], Before(k), ObjectIn(H, ns[k + 1]), HostCnt(H, ns[k + 1]))
<1> DEFINE s == ns[k + 1]
           b == Before(k)
           h == HostCnt(H, s)
           o == ObjectIn(H, s)
           pre == IF k + 1 = 1 THEN <<>> ELSE <<Comma>>
<1>1. k + 1 \in 1..Len(ns) /\ Len(ns) \in Nat /\ H \in Histories
  BY LenProperties DEF IsList
<1>2. Worth(H, s) /\ s \in Nat /\ ps[k + 1] = pre \o o
  BY <1>1, ElementOfSeq DEF IsList
<1>3. h \in Nat \ {0}
  BY <1>1, <1>2, WorthHasHosts
<1>4. o \in Seq(Tokens) /\ Len(o) = 6 + 3 * h
  BY <1>1, <1>2, ObjectInTokens DEF ObjectShape
<1>5. pre \in Seq(Tokens) /\ Len(pre) = b /\ b \in Nat /\ (b = 1 => pre[1] = Comma)
  <2>1. k + 1 = 1 <=> k = 0
    OBVIOUS
  <2> QED  BY <2>1, TokensAre DEF Before
<1> HIDE DEF o, pre, b, h, s
<1>6. /\ pre \o o \in Seq(Tokens) /\ Len(pre \o o) = Len(pre) + Len(o)
      /\ \A i \in 1..(Len(pre) + Len(o)) :
           (pre \o o)[i] = IF i <= Len(pre) THEN pre[i] ELSE o[i - Len(pre)]
  BY <1>4, <1>5, ConcatProperties
<1>7. /\ ps[k + 1] \in Seq(Tokens) /\ Len(ps[k + 1]) = b + (6 + 3 * h)
      /\ \A i \in 1..(b + (6 + 3 * h)) :
           ps[k + 1][i] = IF i <= b THEN pre[i] ELSE o[i - b]
  BY <1>2, <1>4, <1>5, <1>6
<1>8. b = 1 => ps[k + 1][1] = Comma
  <2> SUFFICES ASSUME b = 1 PROVE ps[k + 1][1] = Comma
    OBVIOUS
  <2>1. 1 \in 1..(b + (6 + 3 * h)) /\ 1 <= b
    BY <1>3
  <2> QED  BY <1>5, <1>7, <2>1
<1>9. ASSUME NEW q \in 1..(6 + 3 * h) PROVE ps[k + 1][b + q] = o[q]
  <2>1. b + q \in 1..(b + (6 + 3 * h)) /\ ~(b + q <= b) /\ (b + q) - b = q
    BY <1>3, <1>5
  <2> QED  BY <1>7, <2>1
<1>10. PieceShape(ps[k + 1], b, o, h)
  BY <1>7, <1>8, <1>9 DEF PieceShape
<1> QED  BY <1>1, <1>2, <1>3, <1>10 DEF s, b, h, o

\* The braces among the first c tokens of an object.
Braces(c, opens, closes) ==
  \/ c < 2 /\ opens = 0 /\ closes = 0
  \/ c \in 2..5 /\ opens = 1 /\ closes = 0
  \/ \E i \in Nat \ {0}, d \in 0..2 :
       c = 3 * i + 3 + d /\ opens = i + 1 /\ closes = IF d = 2 THEN i ELSE i - 1

\* What the token after j tokens of a piece may be, c of them its object's.
Follows(t, p, j, c, opens, closes) ==
  \/ /\ t.kind \notin {"{", "}"}
     /\ j + 1 < Len(p) /\ Braces(c + 1, opens, closes)
  \/ /\ t.kind = "{"
     /\ j + 1 < Len(p) /\ Braces(c + 1, opens + 1, closes)
  \/ /\ t.kind = "}" /\ opens > 0 /\ opens # closes + 1
     /\ j + 1 < Len(p) /\ Braces(c + 1, opens, closes + 1)
  \/ /\ t.kind = "}" /\ opens > 0 /\ opens = closes + 1
     /\ j + 1 = Len(p)

\* Inside of a piece, the next token keeps the count of the braces; the last token is
\* the only one that ends the object.
LEMMA NextOfPiece ==
  ASSUME NEW H, NEW text, NEW ps, NEW ns, IsList(H, text, ps, ns),
         NEW k \in 0..(Len(ns) - 1), NEW j \in Nat, j < Len(ps[k + 1]),
         NEW c, c = j - Before(k),
         NEW opens \in Nat, NEW closes \in Nat, Braces(c, opens, closes),
         NEW t, t = ps[k + 1][j + 1]
  PROVE  Follows(t, ps[k + 1], j, c, opens, closes)
<1> DEFINE s == ns[k + 1]
           b == Before(k)
           h == HostCnt(H, s)
           o == ObjectIn(H, s)
           p == ps[k + 1]
           Other == t.kind \notin {"{", "}"} /\ j + 1 < Len(p) /\ Braces(c + 1, opens, closes)
           OneOpens == t.kind = "{" /\ j + 1 < Len(p) /\ Braces(c + 1, opens + 1, closes)
           OneCloses == /\ t.kind = "}" /\ opens > 0 /\ opens # closes + 1
                        /\ j + 1 < Len(p) /\ Braces(c + 1, opens, closes + 1)
           Ends == t.kind = "}" /\ opens > 0 /\ opens = closes + 1 /\ j + 1 = Len(p)
<1> SUFFICES Other \/ OneOpens \/ OneCloses \/ Ends
  BY Zenon DEF Follows
<1>1. /\ h \in Nat \ {0} /\ Len(p) = b + (6 + 3 * h)
      /\ b = 1 => p[1] = Comma
      /\ \A q \in 1..(6 + 3 * h) : p[b + q] = o[q]
  BY PieceTokens DEF PieceShape
<1>2. b \in {0, 1} /\ b \in Int /\ c \in Int /\ j = b + c
  <2>1. b \in {0, 1} /\ c = j - b
    BY DEF Before
  <2> HIDE DEF b
  <2> QED  BY <2>1
<1>3. /\ o[1] = Token("key", s) /\ o[2] = Open
      /\ o[3].kind = "host_cnt" /\ o[4].kind = "avg_resp_rate" /\ o[5].kind = "meta"
      /\ \A i \in 1..h : /\ o[3 * i + 3] = Open
                         /\ o[3 * i + 4].kind = "host_ip"
                         /\ o[3 * i + 5] = Close
      /\ o[6 + 3 * h] = Close
  <2>1. ObjectShape(o, s, h)
    BY PieceTokens, ObjectInTokens
  <2> HIDE DEF o, s, h
  <2> QED  BY <2>1 DEF ObjectShape
<1>6. /\ Open.kind = "{" /\ Close.kind = "}" /\ Comma.kind = ","
      /\ Token("key", s).kind = "key"
  BY DEF Open, Close, Comma, Token
<1>7. t = p[j + 1] /\ j < Len(p)
  OBVIOUS
<1> HIDE DEF s, b, h, o, p, Other, OneOpens, OneCloses, Ends
<1>8. CASE c < 0
  <2>1. b = 1 /\ j = 0 /\ c = -1 /\ j + 1 = 1 /\ c + 1 = 0
    BY <1>2, <1>8
  <2>4. j + 1 < Len(p)
    BY <1>1, <2>1
  <2>2. t = Comma
    BY <1>1, <1>7, <2>1
  <2>3. Braces(c + 1, opens, closes)
    <3>1. ~(c \in 2..5) /\ \A i \in Nat, d \in 0..2 : c # 3 * i + 3 + d
      BY <2>1
    <3> QED  BY <2>1, <3>1 DEF Braces
  <2> QED  BY <1>6, <2>2, <2>3, <2>4 DEF Other
<1>9. CASE c >= 0
  <2>1. c \in Nat /\ c + 1 \in 1..(6 + 3 * h) /\ b + (c + 1) = j + 1
        /\ (j + 1 < Len(p) <=> c < 5 + 3 * h) /\ (j + 1 = Len(p) <=> c = 5 + 3 * h)
    <3>0. h \in Nat /\ Len(p) = b + (6 + 3 * h)
      BY <1>1
    <3>1. j < b + (6 + 3 * h)
      BY <1>7, <3>0
    <3>2. c \in Nat /\ c + 1 \in 1..(6 + 3 * h) /\ b + (c + 1) = j + 1
      BY <1>2, <1>9, <3>0, <3>1, SMTT(60)
    <3>3. j + 1 < b + (6 + 3 * h) <=> c < 5 + 3 * h
      BY <1>2, <3>0, SMTT(60)
    <3>4. j + 1 = b + (6 + 3 * h) <=> c = 5 + 3 * h
      BY <1>2, <3>0, SMTT(60)
    <3> QED  BY <3>0, <3>2, <3>3, <3>4
  <2>2. t = o[c + 1]
    BY <1>1, <1>7, <2>1
  <2>3. CASE c < 2
    <3>1. opens = 0 /\ closes = 0
      BY <2>1, <2>3, SMTT(60) DEF Braces
    <3>2. c < 5 + 3 * h
      BY <1>1, <2>1, <2>3
    <3>3. CASE c = 0
      <4>1. c + 1 = 1 /\ Braces(c + 1, opens, closes)
        BY <3>1, <3>3 DEF Braces
      <4> QED  BY <1>3, <1>6, <2>1, <2>2, <3>2, <4>1 DEF Other
    <3>4. CASE c = 1
      <4>1. c + 1 = 2 /\ Braces(c + 1, opens + 1, closes)
        BY <3>1, <3>4 DEF Braces
      <4> QED  BY <1>3, <1>6, <2>1, <2>2, <3>2, <4>1 DEF OneOpens
    <3> QED  BY <2>1, <2>3, <3>3, <3>4, SMTT(60)
  <2>4. CASE c \in 2..4
    <3>1. opens = 1 /\ closes = 0
      BY <2>4 DEF Braces
    <3>2. c < 5 + 3 * h /\ Braces(c + 1, opens, closes)
      BY <1>1, <2>4, <3>1 DEF Braces
    <3>3. c + 1 \in {3, 4, 5}
      BY <2>4
    <3>4. t.kind \in {"host_cnt", "avg_resp_rate", "meta"}
      BY <1>3, <2>2, <3>3
    <3> QED  BY <2>1, <3>2, <3>4 DEF Other
  <2>5. CASE c = 5
    <3>1. opens = 1 /\ closes = 0
      BY <2>5 DEF Braces
    <3>2. 1 \in 1..h /\ 3 * 1 + 3 = 6 /\ c + 1 = 6 /\ c < 5 + 3 * h
      BY <1>1, <2>5
    <3>3. t = Open
      BY <1>3, <2>2, <3>2
    <3>4. Braces(c + 1, opens + 1, closes)
      <4>1. c + 1 = 3 * 1 + 3 + 0 /\ opens + 1 = 1 + 1 /\ closes = 1 - 1
            /\ 1 \in Nat \ {0} /\ 0 \in 0..2 /\ 0 # 2
        BY <3>1, <3>2
      <4> QED  BY <4>1 DEF Braces
    <3> QED  BY <1>6, <2>1, <3>2, <3>3, <3>4 DEF OneOpens
  <2>6. CASE c > 5
    <3>1. PICK i \in Nat \ {0}, d \in 0..2 :
            c = 3 * i + 3 + d /\ opens = i + 1 /\ closes = IF d = 2 THEN i ELSE i - 1
      <4>1. Braces(c, opens, closes) /\ ~(c < 2) /\ ~(c \in 2..5)
        BY <2>1, <2>6, SMTT(60)
      <4> QED  BY <4>1 DEF Braces
    <3>2. CASE d = 0
      <4>1. i \in 1..h /\ c + 1 = 3 * i + 4 /\ c < 5 + 3 * h
        <5>1. h \in Nat /\ c < 6 + 3 * h
          BY <1>1, <2>1
        <5>2. i \in Nat \ {0} /\ c = 3 * i + 3
          BY <3>1, <3>2
        <5>3. c + 1 = 3 * i + 4 /\ 3 * i + 3 < 6 + 3 * h
          BY <5>1, <5>2
        <5>4. i <= h
          BY <5>1, <5>2, <5>3
        <5>5. i \in 1..h
          BY <5>1, <5>2, <5>4
        <5>6. c < 5 + 3 * h
          BY <5>1, <5>2, <5>4
        <5> QED  BY <5>3, <5>5, <5>6
      <4>2. t.kind = "host_ip"
        BY <1>3, <2>2, <4>1
      <4>3. Braces(c + 1, opens, closes)
        <5>1. c + 1 = 3 * i + 3 + 1 /\ opens = i + 1 /\ closes = i - 1 /\ 1 \in 0..2 /\ 1 # 2
          BY <3>1, <3>2
        <5> QED  BY <5>1 DEF Braces
      <4> QED  BY <2>1, <4>1, <4>2, <4>3 DEF Other
    <3>3. CASE d = 1
      <4>1. i \in 1..h /\ c + 1 = 3 * i + 5 /\ c < 5 + 3 * h
        <5>1. h \in Nat /\ c < 6 + 3 * h
          BY <1>1, <2>1
        <5>2. i \in Nat \ {0} /\ c = 3 * i + 4
          BY <3>1, <3>3
        <5>3. c + 1 = 3 * i + 5 /\ 3 * i + 4 < 6 + 3 * h
          BY <5>1, <5>2
        <5>4. i <= h
          BY <5>1, <5>2, <5>3
        <5>5. i \in 1..h
          BY <5>1, <5>2, <5>4
        <5>6. c < 5 + 3 * h
          BY <5>1, <5>2, <5>4
        <5> QED  BY <5>3, <5>5, <5>6
      <4>2. t = Close
        BY <1>3, <2>2, <4>1
      <4>3. Braces(c + 1, opens, closes + 1)
        <5>1. c + 1 = 3 * i + 3 + 2 /\ opens = i + 1 /\ closes + 1 = i /\ 2 \in 0..2
          BY <3>1, <3>3
        <5> QED  BY <5>1 DEF Braces
      <4>4. opens > 0 /\ opens # closes + 1
        BY <3>1, <3>3
      <4> QED  BY <1>6, <2>1, <4>1, <4>2, <4>3, <4>4 DEF OneCloses
    <3>4. CASE d = 2
      <4>1. opens > 0 /\ opens = closes + 1 /\ i <= h
        BY <1>1, <2>1, <3>1, <3>4
      <4>2. CASE i = h
        <5>1. c + 1 = 6 + 3 * h /\ c = 5 + 3 * h
          BY <1>1, <3>1, <3>4, <4>2, SMTT(60)
        <5>2. t = Close
          BY <1>3, <2>2, <5>1
        <5> QED  BY <1>6, <2>1, <4>1, <5>1, <5>2 DEF Ends
      <4>3. CASE i < h
        <5>1. i + 1 \in 1..h /\ c + 1 = 3 * (i + 1) + 3 /\ c < 5 + 3 * h
          BY <1>1, <3>1, <3>4, <4>3, SMTT(60)
        <5>2. t = Open
          BY <1>3, <2>2, <5>1
        <5>3. Braces(c + 1, opens + 1, closes)
          <6>1. /\ c + 1 = 3 * (i + 1) + 3 + 0 /\ opens + 1 = (i + 1) + 1 /\ closes = (i + 1) - 1
                /\ i + 1 \in Nat \ {0} /\ 0 \in 0..2 /\ 0 # 2
            BY <3>1, <3>4, <5>1
          <6> QED  BY <6>1 DEF Braces
        <5> QED  BY <1>6, <2>1, <5>1, <5>2, <5>3 DEF OneOpens
      <4> QED  BY <1>1, <4>1, <4>2, <4>3
    <3> QED  BY <3>2, <3>3, <3>4
  <2> QED  BY <2>1, <2>3, <2>4, <2>5, <2>6, SMTT(60)
<1> QED  BY <1>7, <1>8, <1>9, <1>2

\* A place in a list, after k pieces and j tokens of the next one, and how many
\* tokens of the text come before it.
InList(ps, ns, k, j) ==
  /\ k \in 0..Len(ns) /\ j \in Nat
  /\ IF k = Len(ns) THEN j = 0 ELSE j < Len(ps[k + 1])

Pos(ps, k, j) == 1 + Len(Upto(ps, k)) + j

\* The text of a list starts with a brace.
LEMMA ListText ==
  ASSUME NEW H, NEW text, NEW ps, NEW ns, IsList(H, text, ps, ns)
  PROVE  /\ text \in Seq(Tokens) /\ Len(text) = Len(FlattenSeq(ps)) + 2
         /\ Len(text) \in Nat /\ text[1] = Open /\ text[Len(text)] = Close
         /\ FlattenSeq(ps) \in Seq(Tokens) /\ Len(FlattenSeq(ps)) \in Nat
         /\ \A i \in 1..Len(FlattenSeq(ps)) : text[i + 1] = FlattenSeq(ps)[i]
<1> DEFINE F == FlattenSeq(ps)
           c == <<Open>> \o F
<1>1. F \in Seq(Tokens) /\ Len(F) \in Nat
  <2>1. ps \in Seq(Seq(Tokens))
    BY DEF IsList
  <2>2. F \in Seq(Tokens)
    BY <2>1, FlattenFacts
  <2> QED  BY <2>2, LenProperties
<1>2. /\ <<Open>> \in Seq(Tokens) /\ Len(<<Open>>) = 1 /\ <<Open>>[1] = Open
      /\ <<Close>> \in Seq(Tokens) /\ Len(<<Close>>) = 1 /\ <<Close>>[1] = Close
  BY TokensAre
<1>3. text = c \o <<Close>>
  BY DEF IsList
<1> HIDE DEF F
<1>4. /\ c \in Seq(Tokens) /\ Len(c) = 1 + Len(F)
      /\ \A i \in 1..(1 + Len(F)) : c[i] = IF i <= 1 THEN Open ELSE F[i - 1]
  <2>1. /\ c \in Seq(Tokens) /\ Len(c) = Len(<<Open>>) + Len(F)
        /\ \A i \in 1..(Len(<<Open>>) + Len(F)) :
             c[i] = IF i <= Len(<<Open>>) THEN <<Open>>[i] ELSE F[i - Len(<<Open>>)]
    BY <1>1, <1>2, ConcatProperties
  <2> HIDE DEF c
  <2>2. /\ Len(c) = 1 + Len(F)
        /\ \A i \in 1..(1 + Len(F)) :
             c[i] = IF i <= 1 THEN <<Open>>[i] ELSE F[i - 1]
    BY <1>2, <2>1
  <2>3. \A i \in 1..(1 + Len(F)) : i <= 1 => i = 1
    BY <1>1
  <2> QED  BY <1>2, <2>1, <2>2, <2>3
<1> HIDE DEF c
<1>5. text = Append(c, Close) /\ Close \in Tokens
  BY <1>3, <1>4, AppendIsConcat, TokensAre
<1>6. /\ text \in Seq(Tokens) /\ Len(text) = Len(c) + 1
      /\ \A i \in 1..Len(c) : text[i] = c[i]
      /\ text[Len(c) + 1] = Close
  BY <1>4, <1>5, AppendProperties
<1>7. Len(text) = Len(F) + 2 /\ Len(text) \in Nat /\ text[Len(text)] = Close
  BY <1>1, <1>4, <1>6
<1>8. text[1] = Open
  <2>1. 1 \in 1..(1 + Len(F))
    BY <1>1
  <2> QED  BY <1>4, <1>6, <2>1
<1>9. \A i \in 1..Len(F) : text[i + 1] = F[i]
  <2> SUFFICES ASSUME NEW i \in 1..Len(F) PROVE text[i + 1] = F[i]
    OBVIOUS
  <2>1. i + 1 \in 1..(1 + Len(F)) /\ ~(i + 1 <= 1) /\ (i + 1) - 1 = i
    BY <1>1
  <2> QED  BY <1>4, <1>6, <2>1
<1> QED  BY <1>1, <1>6, <1>7, <1>8, <1>9 DEF F

\* The token at a place, and the place after it.
LEMMA TokenAt ==
  ASSUME NEW H, NEW text, NEW ps, NEW ns, IsList(H, text, ps, ns),
         NEW k, NEW j, InList(ps, ns, k, j)
  PROVE  /\ Pos(ps, k, j) \in Nat /\ Pos(ps, k, j) < Len(text)
         /\ k = Len(ns) => text[Pos(ps, k, j) + 1] = Close
         /\ k # Len(ns) => text[Pos(ps, k, j) + 1] = ps[k + 1][j + 1]
         /\ k # Len(ns) /\ j + 1 < Len(ps[k + 1]) =>
              InList(ps, ns, k, j + 1) /\ Pos(ps, k, j + 1) = Pos(ps, k, j) + 1
         /\ k # Len(ns) /\ j + 1 = Len(ps[k + 1]) =>
              InList(ps, ns, k + 1, 0) /\ Pos(ps, k + 1, 0) = Pos(ps, k, j) + 1
<1> DEFINE F == FlattenSeq(ps)
           n == Len(ns)
           u(i) == Len(Upto(ps, i))
<1>1. /\ ps \in Seq(Seq(Tokens)) /\ Len(ps) = n /\ n \in Nat
      /\ k \in 0..n /\ j \in Nat /\ (k = n => j = 0)
      /\ k # n => j < Len(ps[k + 1])
  BY LenProperties DEF IsList, InList
<1>2. /\ Len(text) = Len(F) + 2 /\ Len(F) \in Nat /\ text[Len(text)] = Close
      /\ \A i \in 1..Len(F) : text[i + 1] = F[i]
  BY ListText
<1>3. /\ \A i \in 0..n : u(i) \in Nat
      /\ \A i \in 0..(n - 1) : Len(ps[i + 1]) \in Nat /\ u(i + 1) = u(i) + Len(ps[i + 1])
      /\ u(n) = Len(F)
  BY <1>1, UptoFacts
<1>4. Pos(ps, k, j) = 1 + u(k) + j /\ Pos(ps, k, j + 1) = 1 + u(k) + (j + 1)
      /\ Pos(ps, k + 1, 0) = 1 + u(k + 1) + 0
  BY DEF Pos
<1>5. CASE k = n
  <2>1. Pos(ps, k, j) = 1 + Len(F)
    BY <1>1, <1>2, <1>3, <1>4, <1>5
  <2>2. (1 + Len(F)) + 1 = Len(text) /\ 1 + Len(F) < Len(text) /\ 1 + Len(F) \in Nat
    BY <1>2
  <2> QED  BY <1>2, <1>5, <2>1, <2>2
<1>6. CASE k # n
  <2>1. k \in 0..(n - 1) /\ k + 1 \in 0..n /\ k \in 0..n
    BY <1>1, <1>6
  <2>2. /\ \A i \in 1..Len(ps[k + 1]) : F[u(k) + i] = ps[k + 1][i]
        /\ u(k) + Len(ps[k + 1]) <= Len(F)
    BY <1>1, <2>1, FlattenAt
  <2>3. u(k) \in Nat /\ Len(ps[k + 1]) \in Nat /\ u(k + 1) = u(k) + Len(ps[k + 1])
    BY <1>3, <2>1
  <2> HIDE DEF F, n, u
  <2>4. /\ j + 1 \in 1..Len(ps[k + 1]) /\ u(k) + (j + 1) \in 1..Len(F)
        /\ Pos(ps, k, j) = u(k) + (j + 1)
    <3>1. j \in Nat /\ j < Len(ps[k + 1]) /\ Len(F) \in Nat
      BY <1>1, <1>2, <1>6
    <3>2. j + 1 \in 1..Len(ps[k + 1])
      BY <2>3, <3>1
    <3>3. u(k) + (j + 1) \in 1..Len(F)
      BY <2>2, <2>3, <3>1
    <3>4. Pos(ps, k, j) = u(k) + (j + 1)
      BY <1>4, <2>3, <3>1
    <3> QED  BY <3>2, <3>3, <3>4
  <2>5. Pos(ps, k, j) \in Nat /\ Pos(ps, k, j) < Len(text)
    BY <1>2, <2>4
  <2>6. text[Pos(ps, k, j) + 1] = ps[k + 1][j + 1]
    BY <1>2, <2>2, <2>4
  <2>7. ASSUME j + 1 < Len(ps[k + 1])
        PROVE  InList(ps, ns, k, j + 1) /\ Pos(ps, k, j + 1) = Pos(ps, k, j) + 1
    <3>1. Pos(ps, k, j + 1) = Pos(ps, k, j) + 1 /\ j + 1 \in Nat
      BY <1>1, <1>4, <2>3
    <3> QED  BY <1>1, <1>6, <2>7, <3>1 DEF InList, n
  <2>8. ASSUME j + 1 = Len(ps[k + 1])
        PROVE  InList(ps, ns, k + 1, 0) /\ Pos(ps, k + 1, 0) = Pos(ps, k, j) + 1
    <3>1. Pos(ps, k + 1, 0) = Pos(ps, k, j) + 1
      BY <1>1, <1>4, <2>3, <2>8
    <3>2. k + 1 # n => 0 < Len(ps[(k + 1) + 1])
      <4> SUFFICES ASSUME k + 1 # n PROVE 0 < Len(ps[(k + 1) + 1])
        OBVIOUS
      <4>1. k + 1 \in 0..(Len(ns) - 1)
        BY <1>1, <2>1 DEF n
      <4>2. /\ HostCnt(H, ns[(k + 1) + 1]) \in Nat \ {0}
            /\ Len(ps[(k + 1) + 1]) = Before(k + 1) + (6 + 3 * HostCnt(H, ns[(k + 1) + 1]))
        BY <4>1, PieceTokens, SMTT(60) DEF PieceShape
      <4>3. Before(k + 1) \in Nat
        BY DEF Before
      <4> QED  BY <4>2, <4>3
    <3> QED  BY <2>1, <3>1, <3>2 DEF InList, n
  <2> QED  BY <1>6, <2>5, <2>6, <2>7, <2>8 DEF n
<1> QED  BY <1>5, <1>6

-----------------------------------------------------------------------------
(* What the reader makes of an object                                        *)

\* What the JSON parser is given.
Fields == Kinds \ {","}

\* Without its comma, a piece is the object of the /24.
LEMMA PieceJson ==
  ASSUME NEW H, NEW text, NEW ps, NEW ns, IsList(H, text, ps, ns),
         NEW k \in 0..(Len(ns) - 1)
  PROVE  OfKinds(ps[k + 1], Fields) = ObjectIn(H, ns[k + 1])
<1> DEFINE K == Fields
           s == ns[k + 1]
           h == HostCnt(H, s)
           o == ObjectIn(H, s)
           pre == IF k + 1 = 1 THEN <<>> ELSE <<Comma>>
<1>1. H \in Histories /\ s \in Nat /\ Worth(H, s) /\ h \in Nat \ {0}
  BY PieceTokens
<1>2. ps[k + 1] = pre \o o
  <2>1. k + 1 \in 1..Len(ns)
    BY LenProperties DEF IsList
  <2> QED  BY <2>1 DEF IsList
<1>3. ObjectShape(o, s, h)
  BY <1>1, ObjectInTokens
<1>4. o \in Seq(Tokens) /\ Len(o) = 6 + 3 * h
  BY <1>3 DEF ObjectShape
<1>5. ASSUME NEW q \in 1..Len(o) PROVE o[q].kind \in K
  <2> HIDE DEF o, h, s
  <2>1. o[q] \in Tokens
    BY <1>4, ElementOfSeq
  <2>2. o[q].kind \in Kinds
    BY <2>1 DEF Tokens
  <2>3. o[q].kind # ","
    <3>0. Open.kind = "{" /\ Close.kind = "}" /\ Token("key", s).kind = "key"
      BY DEF Open, Close, Token
    <3>1. q \in 1..(6 + 3 * h)
      BY <1>4
    <3>2. CASE q \in {1, 2, 3, 4, 5, 6 + 3 * h}
      <4>1. /\ o[1].kind = "key" /\ o[2].kind = "{" /\ o[3].kind = "host_cnt"
            /\ o[4].kind = "avg_resp_rate" /\ o[5].kind = "meta" /\ o[6 + 3 * h].kind = "}"
        BY <1>3, <3>0 DEF ObjectShape
      <4> QED  BY <3>2, <4>1
    <3>3. CASE q \notin {1, 2, 3, 4, 5, 6 + 3 * h}
      <4> DEFINE i == (q - 3) \div 3
                 d == (q - 3) % 3
      <4>0. q - 3 \in Nat /\ q \in Nat /\ q >= 6 /\ q <= 5 + 3 * h
        BY <1>1, <3>1, <3>3
      <4>1. i \in Nat /\ d \in 0..2 /\ q = 3 * i + 3 + d
        BY <4>0
      <4> HIDE DEF i, d
      <4>2. i \in 1..h
        BY <1>1, <4>0, <4>1
      <4>3. q = 3 * i + 3 \/ q = 3 * i + 4 \/ q = 3 * i + 5
        BY <4>0, <4>1
      <4>4. o[q] = Open \/ o[q].kind = "host_ip" \/ o[q] = Close
        BY <1>3, <4>2, <4>3 DEF ObjectShape
      <4> QED  BY <3>0, <4>4
    <3> QED  BY <3>2, <3>3
  <2> QED  BY <2>2, <2>3 DEF Fields
<1> HIDE DEF o, K, pre
<1>6. OfKinds(o, K) = o
  BY <1>4, <1>5, OfKindsAll
<1>7. OfKinds(pre \o o, K) = o
  <2>1. CASE k + 1 = 1
    <3>1. pre = <<>> /\ <<>> \o o = o
      BY <1>4, <2>1, ConcatEmptySeq DEF pre
    <3> QED  BY <1>6, <3>1
  <2>2. CASE k + 1 # 1
    <3>1. pre = <<Comma>> /\ <<Comma>> \in Seq(Tokens)
      BY <2>2, TokensAre DEF pre
    <3>2. OfKinds(<<Comma>>, K) = <<>>
      <4>1. Comma \in Tokens /\ Comma.kind \notin K
        BY TokensAre DEF Comma, Token, K, Fields
      <4> QED  BY <4>1, OfKindsOne
    <3>3. OfKinds(<<Comma>> \o o, K) = OfKinds(<<Comma>>, K) \o OfKinds(o, K)
      BY <1>4, <3>1, OfKindsConcat, Zenon
    <3>4. <<>> \o o = o
      BY <1>4, ConcatEmptySeq
    <3> QED  BY <1>6, <3>1, <3>2, <3>3, <3>4
  <2> QED  BY <2>1, <2>2
<1> QED  BY <1>2, <1>7 DEF K, o, s

\* What the object says.
LEMMA ObjectValues ==
  ASSUME NEW H \in Histories, NEW s \in Nat, Worth(H, s), IsFiniteSet(Gen!Metadata(s)),
         NEW o, o = ObjectIn(H, s), NEW h, h = HostCnt(H, s)
  PROVE  /\ Values(o, "host_cnt") = <<h>>
         /\ Values(o, "avg_resp_rate") = <<AebOf(H, s)>>
         /\ Values(o, "meta") = <<SetToSeq(Gen!Metadata(s))>>
         /\ Values(o, "host_ip") = [i \in 1..h |-> Address(s, InOrder(HostsOf(H, s))[i])]
<1>1. ObjectSays(o, s, AebOf(H, s), HostsOf(H, s), h)
  BY ObjectInTokens
<1>2. \A k, v : Token(k, v).value = v
  BY DEF Token
<1>3. \A x, t : x = <<t>> => [i \in DOMAIN x |-> x[i].value] = <<t.value>>
  OBVIOUS
<1>4. Values(o, "host_cnt") = <<h>>
  BY <1>1, <1>2, <1>3 DEF Values, ObjectSays
<1>5. Values(o, "avg_resp_rate") = <<AebOf(H, s)>>
  BY <1>1, <1>2, <1>3 DEF Values, ObjectSays
<1>6. Values(o, "meta") = <<SetToSeq(Gen!Metadata(s))>>
  BY <1>1, <1>2, <1>3 DEF Values, ObjectSays
<1>7. Values(o, "host_ip") = [i \in 1..h |-> Address(s, InOrder(HostsOf(H, s))[i])]
  BY <1>1, <1>2 DEF Values, ObjectSays
<1> QED  BY <1>4, <1>5, <1>6, <1>7

\* What the addresses say of the network and of the hosts.
LEMMA AddressesSay ==
  ASSUME NEW H \in Histories, NEW s \in Nat, Worth(H, s), NEW h, h = HostCnt(H, s),
         NEW ips, ips = [i \in 1..h |-> Address(s, InOrder(HostsOf(H, s))[i])]
  PROVE  /\ Len(ips) = h /\ ips # <<>> /\ DOMAIN ips = 1..h
         /\ \A i \in DOMAIN ips : ips[i] \div 256 = s
         /\ {ip % 256 : ip \in Range(ips)} = HostsOf(H, s)
<1> DEFINE hosts == HostsOf(H, s)
           own == InOrder(hosts)
<1>1. hosts \in SUBSET (0..255) /\ hosts \in SUBSET Nat /\ IsFiniteSet(hosts) /\ h = Cardinality(hosts)
  <2>1. hosts \in SUBSET (0..255) /\ IsFiniteSet(hosts)
    BY HeardFacts, ZenonT(60)
  <2>2. h = Cardinality(hosts)
    BY DEF HostCnt
  <2> HIDE DEF hosts
  <2>3. hosts \in SUBSET Nat
    BY <2>1
  <2> QED  BY <2>1, <2>2, <2>3
<1>2. h \in Nat \ {0}
  BY WorthHasHosts
<1> HIDE DEF hosts
<1>3. /\ \A i \in 1..h : own[i] \in hosts
      /\ \A n \in hosts : \E i \in 1..h : own[i] = n
  BY <1>1, InOrderFacts, ElementOfSeq
<1> HIDE DEF own
<1>4. ips = [i \in 1..h |-> Address(s, own[i])]
  BY DEF own, hosts
<1>5. DOMAIN ips = 1..h /\ \A i \in 1..h : ips[i] = Address(s, own[i])
  BY <1>4
<1>6. Len(ips) = h
  <2>1. ips \in [1..h -> {Address(s, own[i]) : i \in 1..h}]
    BY <1>4
  <2> QED  BY <1>2, <2>1, SeqDef
<1>7. ips # <<>>
  BY <1>2, <1>6
<1>8. \A i \in 1..h : ips[i] \div 256 = s /\ ips[i] % 256 = own[i]
  <2> SUFFICES ASSUME NEW i \in 1..h PROVE ips[i] \div 256 = s /\ ips[i] % 256 = own[i]
    OBVIOUS
  <2>1. own[i] \in 0..255 /\ ips[i] = Address(s, own[i])
    BY <1>1, <1>3, <1>5
  <2>2. \A x \in 0..255 : Address(s, x) \div 256 = s /\ Address(s, x) % 256 = x
    BY AddressFacts
  <2> QED  BY <2>1, <2>2, ZenonT(60)
<1>9. Range(ips) = {ips[i] : i \in 1..h}
  BY <1>5 DEF Range
<1>10. {ip % 256 : ip \in Range(ips)} = hosts
  <2>1. ASSUME NEW ip \in Range(ips) PROVE ip % 256 \in hosts
    BY <1>3, <1>8, <1>9
  <2>2. ASSUME NEW n \in hosts PROVE \E ip \in Range(ips) : ip % 256 = n
    <3>1. PICK i \in 1..h : own[i] = n
      BY <1>3
    <3>2. ips[i] \in Range(ips) /\ ips[i] % 256 = n
      BY <1>8, <1>9, <3>1
    <3> QED  BY <3>2
  <2> QED  BY <2>1, <2>2
<1> QED  BY <1>5, <1>6, <1>7, <1>8, <1>10, ZenonT(60) DEF hosts

\* A text of texts of which there is one.
LEMMA FlattenOne ==
  ASSUME NEW X, NEW p \in Seq(X)
  PROVE  FlattenSeq(<<p>>) = p
<1>1. <<>> \in Seq(Seq(X)) /\ Append(<<>>, p) = <<p>>
  OBVIOUS
<1>2. \A seqs \in Seq(Seq(X)) : FlattenSeq(<<>>) = <<>>
                                /\ FlattenSeq(Append(seqs, p)) = FlattenSeq(seqs) \o p
  BY FlattenFacts
<1>3. FlattenSeq(<<p>>) = <<>> \o p
  BY <1>1, <1>2, Zenon
<1> QED  BY <1>3, ConcatEmptySeq

-----------------------------------------------------------------------------
(* The reader scans a list                                                   *)

\* What the table says of a /24 that has been read.
EntryOf(H, s) ==
  [hosts |-> HostsOf(H, s), aeb |-> AebOf(H, s),
   md |-> Reader!Kept(SetToSeq(Gen!Metadata(s)))]

\* The buffer holds what follows the first p tokens of the file, and less than
\* it could only at the end of the file.
Buffered(p) ==
  /\ buf \in Seq(Tokens) /\ bufp \in 0..Len(buf) /\ Len(buf) # 0
  /\ filePos \in p..Len(file)
  /\ bufp + (filePos - p) <= Len(buf)
  /\ \A i \in 1..(filePos - p) : buf[bufp + i] = file[p + i]
  /\ bufp + (filePos - p) < Len(buf) => filePos = Len(file)

\* The brace of the list is still to come.
AtStart ==
  /\ Buffered(0)
  /\ state = "OUTER_OPEN" /\ js = <<>> /\ slash24s = <<>> /\ DOMAIN s24_hash = {}

\* k /24s have been read, and j tokens of the next piece.
Scanned(ps, ns, k, j) ==
  /\ InList(ps, ns, k, j) /\ Buffered(Pos(ps, k, j))
  /\ state = "S24" /\ js = SubSeq(ps[k + 1], 1, j)
  /\ obj_start \in Nat /\ obj_end \in Nat /\ Braces(j - Before(k), obj_start, obj_end)
  /\ slash24s = SubSeq(ns, 1, k) /\ DOMAIN s24_hash = {ns[i] : i \in 1..k}

\* The /24s that have been read are of the list, each once, and as the history has
\* them.
Arrived(H, ns) ==
  /\ slash24s \in Seq(Nat)
  /\ \A i, j \in 1..Len(slash24s) : slash24s[i] = slash24s[j] => i = j
  /\ \A i \in 1..Len(slash24s) :
       /\ \E m \in 1..Len(ns) : ns[m] = slash24s[i]
       /\ s24_hash[slash24s[i]] = EntryOf(H, slash24s[i])

\* The reader is at a place of the list, or has read it.
ReadsFrom(H, ps, ns) ==
  /\ Arrived(H, ns)
  /\ result \in {"reading", "ok"}
  /\ result = "reading" => AtStart \/ \E k \in 0..Len(ns), j \in Nat : Scanned(ps, ns, k, j)
  /\ result = "ok" /\ ~readFailed => Len(slash24s) = Len(ns)

\* The next byte of the buffer is the next one of the file.
LEMMA NextByte ==
  ASSUME NEW p \in Nat, Buffered(p), file \in Seq(Tokens), p < Len(file), bufp < Len(buf)
  PROVE  /\ Reader!Byte = file[p + 1]
         /\ bufp' = bufp + 1 /\ UNCHANGED <<file, filePos, buf>> => Buffered(p + 1)'
<1> DEFINE r == filePos - p
<1>1. /\ buf \in Seq(Tokens) /\ Len(buf) \in Nat /\ bufp \in 0..Len(buf) /\ bufp \in Nat
      /\ Len(file) \in Nat /\ filePos \in Nat /\ filePos <= Len(file) /\ p <= filePos
      /\ bufp + r <= Len(buf) /\ (bufp + r < Len(buf) => filePos = Len(file))
      /\ \A i \in 1..r : buf[bufp + i] = file[p + i]
  BY LenProperties DEF Buffered
<1>2. r \in Nat
  BY <1>1
<1>3. r # 0
  <2> SUFFICES ASSUME r = 0 PROVE FALSE
    OBVIOUS
  <2>1. bufp + r < Len(buf) /\ filePos = p
    BY <1>1
  <2> QED  BY <1>1, <2>1
<1>4. 1 \in 1..r
  BY <1>2, <1>3
<1>5. Reader!Byte = file[p + 1]
  BY <1>1, <1>4 DEF Reader!Byte
<1>6. ASSUME bufp' = bufp + 1, UNCHANGED <<file, filePos, buf>> PROVE Buffered(p + 1)'
  <2>1. filePos - (p + 1) = r - 1 /\ (bufp + 1) + (r - 1) = bufp + r
    BY <1>1
  <2>2. /\ bufp' \in 0..Len(buf) /\ filePos \in (p + 1)..Len(file)
    BY <1>1, <1>2, <1>3, <1>6
  <2>3. \A i \in 1..(r - 1) : buf[(bufp + 1) + i] = file[(p + 1) + i]
    <3> SUFFICES ASSUME NEW i \in 1..(r - 1) PROVE buf[(bufp + 1) + i] = file[(p + 1) + i]
      OBVIOUS
    <3>1. i + 1 \in 1..r /\ bufp + (i + 1) = (bufp + 1) + i /\ p + (i + 1) = (p + 1) + i
      BY <1>1, <1>2
    <3>2. buf[bufp + (i + 1)] = file[p + (i + 1)]
      BY <1>1, <3>1
    <3> QED  BY <3>1, <3>2
  <2>4. Len(buf) # 0
    BY DEF Buffered
  <2> HIDE DEF r
  <2> QED  BY <1>1, <1>6, <2>1, <2>2, <2>3, <2>4 DEF Buffered
<1> QED  BY <1>5, <1>6

\* At the end of the buffer, all that was read of the file has been scanned.
LEMMA BufferUsed ==
  ASSUME NEW p \in Nat, Buffered(p), file \in Seq(Tokens), bufp = Len(buf)
  PROVE  filePos = p
<1>1. /\ Len(buf) \in Nat /\ filePos \in p..Len(file) /\ Len(file) \in Nat
      /\ bufp + (filePos - p) <= Len(buf)
  BY LenProperties DEF Buffered
<1> QED  BY <1>1

\* Reading into the buffer, unless the read is short, keeps the place in the file.
LEMMA Refill ==
  ASSUME NEW p \in Nat, Buffered(p), file \in Seq(Tokens), Reader!ReadBuffer, ~readShort'
  PROVE  Buffered(p)'
<1> DEFINE L == Len(buf)
           rest == Len(file) - filePos
           n == IF L <= rest THEN L ELSE rest
           new == SubSeq(file, filePos + 1, filePos + n)
           old == SubSeq(buf, n + 1, L)
<1>1. bufp = Len(buf) /\ filePos < Len(file) /\ bufp' = 0 /\ file' = file
  BY DEF Reader!ReadBuffer, Reader!AtBufferEnd
<1>2. filePos = p
  BY <1>1, BufferUsed
<1>3. /\ buf \in Seq(Tokens) /\ L \in Nat \ {0} /\ Len(file) \in Nat /\ rest \in Nat \ {0}
  BY <1>1, <1>2, LenProperties DEF Buffered
<1>4. Reader!Min({L, rest}) = n
  <2> HIDE DEF L, rest
  <2> QED  BY <1>3, MinIs, ReaderText
<1>5. buf' = new \o old /\ filePos' = filePos + n
  <2> DEFINE most == Reader!Min({Len(buf), Len(file) - filePos})
  <2>1. PICK m \in {most} \cup {c \in Counts : c < most} :
           /\ buf' = SubSeq(file, filePos + 1, filePos + m) \o SubSeq(buf, m + 1, Len(buf))
           /\ filePos' = filePos + m
           /\ readShort' = (readShort \/ m < most)
    BY Zenon DEF Reader!ReadBuffer
  <2>2. ~(m < most)
    BY <2>1, Zenon
  <2>3. m = most
    BY <2>1, <2>2, Zenon
  <2>4. most = n
    BY <1>4, Zenon
  <2> HIDE DEF most, n
  <2> QED  BY <2>1, <2>3, <2>4, Zenon
<1>6. n \in Nat \ {0} /\ n <= L /\ n <= rest /\ (n < L => n = rest)
  BY <1>3
<1> HIDE DEF n
<1>7. /\ new \in Seq(Tokens) /\ Len(new) = n
      /\ \A i \in 1..n : new[i] = file[p + i]
  <2>1. \A i \in (filePos + 1)..(filePos + n) : file[i] \in Tokens
    <3> SUFFICES ASSUME NEW i \in (filePos + 1)..(filePos + n) PROVE file[i] \in Tokens
      OBVIOUS
    <3>1. i \in 1..Len(file)
      BY <1>2, <1>3, <1>6
    <3> QED  BY <3>1, ElementOfSeq
  <2>2. filePos + 1 \in Int /\ filePos + n \in Int
    BY <1>2, <1>6
  <2>3. /\ new \in Seq(Tokens)
        /\ Len(new) = IF filePos + 1 <= filePos + n THEN (filePos + n) - (filePos + 1) + 1 ELSE 0
        /\ \A i \in 1..((filePos + n) - (filePos + 1) + 1) : new[i] = file[(filePos + 1) + i - 1]
    BY <2>1, <2>2, SubSeqProperties
  <2>4. /\ filePos + 1 <= filePos + n /\ (filePos + n) - (filePos + 1) + 1 = n
        /\ \A i \in 1..n : (filePos + 1) + i - 1 = p + i
    BY <1>2, <1>6
  <2> HIDE DEF new
  <2> QED  BY <2>3, <2>4
<1>8. old \in Seq(Tokens) /\ Len(old) = L - n
  <2>1. \A i \in (n + 1)..L : buf[i] \in Tokens
    <3> SUFFICES ASSUME NEW i \in (n + 1)..L PROVE buf[i] \in Tokens
      OBVIOUS
    <3>1. i \in 1..Len(buf)
      BY <1>3, <1>6
    <3> QED  BY <1>3, <3>1, ElementOfSeq
  <2>2. n + 1 \in Int /\ L \in Int
    BY <1>3, <1>6
  <2>3. old \in Seq(Tokens) /\ Len(old) = IF n + 1 <= L THEN L - (n + 1) + 1 ELSE 0
    BY <2>1, <2>2, SubSeqProperties
  <2> HIDE DEF old, L
  <2> QED  BY <1>3, <1>6, <2>3
<1> HIDE DEF new, old, L
<1>9. /\ buf' \in Seq(Tokens) /\ Len(buf') = L
      /\ \A i \in 1..n : buf'[i] = file[p + i]
  <2>1. /\ new \o old \in Seq(Tokens) /\ Len(new \o old) = Len(new) + Len(old)
        /\ \A i \in 1..(Len(new) + Len(old)) :
             (new \o old)[i] = IF i <= Len(new) THEN new[i] ELSE old[i - Len(new)]
    BY <1>7, <1>8, ConcatProperties
  <2>2. n + (L - n) = L
    BY <1>3, <1>6
  <2>3. \A i \in 1..n : i \in 1..(Len(new) + Len(old)) /\ i <= Len(new)
    BY <1>3, <1>6, <1>7, <1>8
  <2> QED  BY <1>5, <1>7, <1>8, <2>1, <2>2, <2>3
<1>10. /\ filePos' - p = n /\ 0 + n = n /\ filePos' \in p..Len(file) /\ 0 \in 0..L
       /\ n < L => filePos' = Len(file)
  BY <1>2, <1>3, <1>5, <1>6
<1>11. \A i \in 1..n : 0 + i = i
  BY <1>6
<1> QED  BY <1>1, <1>3, <1>6, <1>9, <1>10, <1>11 DEF Buffered

\* What has been copied when the object of a /24 ends is that object, without its
\* comma.
LEMMA JsonIs ==
  ASSUME NEW H, NEW text, NEW ps, NEW ns, IsList(H, text, ps, ns),
         NEW k \in 0..(Len(ns) - 1), NEW j \in Nat, j + 1 = Len(ps[k + 1]),
         js = SubSeq(ps[k + 1], 1, j), Reader!Byte = ps[k + 1][j + 1]
  PROVE  Reader!Json = ObjectIn(H, ns[k + 1])
<1> DEFINE p == ps[k + 1]
<1>1. p \in Seq(Tokens)
  BY PieceTokens DEF PieceShape
<1> HIDE DEF p
<1>2. j \in 0..(Len(p) - 1) /\ js = SubSeq(p, 1, j) /\ Reader!Byte = p[j + 1] /\ j + 1 = Len(p)
  BY DEF p
<1>3. Append(js, Reader!Byte) = p
  <2>1. Append(js, Reader!Byte) = SubSeq(p, 1, Len(p))
    BY <1>1, <1>2, PrefixAppend
  <2> QED  BY <1>1, <2>1, SubSeqFull
<1>4. Reader!Json = OfKinds(p, Fields)
  BY <1>3, ReaderText DEF Reader!Json, Fields
<1>5. OfKinds(ps[k + 1], Fields) = ObjectIn(H, ns[k + 1])
  BY PieceJson
<1> QED  BY <1>4, <1>5 DEF p

\* The object of a /24 is accepted, and the table gets what it should.
LEMMA ObjectArrives ==
  ASSUME NEW H \in Histories, NEW s \in Nat, Worth(H, s), IsFiniteSet(Gen!Metadata(s)),
         Reader!Json = ObjectIn(H, s)
  PROVE  /\ Reader!IsMember /\ Reader!HostsBelong /\ ~Reader!MissingField /\ Reader!CountsAgree
         /\ Reader!Network = s
         /\ [hosts |-> {ip % 256 : ip \in Reader!Range(Reader!HostIps)},
             aeb   |-> Reader!Last(Reader!Values(Reader!Json, "avg_resp_rate")),
             md    |-> Reader!Kept(Reader!FlattenSeq(Reader!Values(Reader!Json, "meta")))]
              = EntryOf(H, s)
<1> DEFINE h == HostCnt(H, s)
           o == ObjectIn(H, s)
           ips == [i \in 1..h |-> Address(s, InOrder(HostsOf(H, s))[i])]
           M == SetToSeq(Gen!Metadata(s))
<1>1. /\ Values(o, "host_cnt") = <<h>> /\ Values(o, "avg_resp_rate") = <<AebOf(H, s)>>
      /\ Values(o, "meta") = <<M>> /\ Values(o, "host_ip") = ips
  BY ObjectValues
<1>2. /\ Len(ips) = h /\ ips # <<>> /\ DOMAIN ips = 1..h
      /\ \A i \in DOMAIN ips : ips[i] \div 256 = s
      /\ {ip % 256 : ip \in Range(ips)} = HostsOf(H, s)
  <2>1. h = HostCnt(H, s) /\ ips = [i \in 1..h |-> Address(s, InOrder(HostsOf(H, s))[i])]
    OBVIOUS
  <2> HIDE DEF h, ips
  <2> QED  BY <2>1, AddressesSay
<1>3. o[1].kind = "key" /\ o[1].value = s /\ o[2].kind = "{"
  <2>1. ObjectShape(o, s, h)
    BY ObjectInTokens
  <2> HIDE DEF o, h
  <2>2. o[1] = Token("key", s) /\ o[2] = Open
    BY <2>1 DEF ObjectShape
  <2>3. /\ Token("key", s).kind = "key" /\ Token("key", s).value = s
        /\ Open.kind = "{"
    BY DEF Token, Open
  <2> QED  BY <2>2, <2>3
<1>4. FlattenSeq(<<M>>) = M
  BY SetToSeqFacts, FlattenOne
<1> HIDE DEF ips, o, h, M
<1>5. Reader!Json = o
  BY DEF o
<1>6. Reader!HostIps = ips
  BY <1>1, <1>5, ReaderText DEF Reader!HostIps
<1>7. Reader!Network = s
  BY <1>3, <1>5 DEF Reader!Network
<1>8. Reader!IsMember
  BY <1>3, <1>5 DEF Reader!IsMember
<1>9. Reader!HostsBelong
  BY <1>2, <1>6, <1>7 DEF Reader!HostsBelong
<1>10. \A x : <<x>> # <<>> /\ <<x>>[Len(<<x>>)] = x
  OBVIOUS
<1>11. ~Reader!MissingField
  BY <1>1, <1>2, <1>5, <1>6, <1>10, ReaderText DEF Reader!MissingField
<1>12. \A x : Reader!Last(<<x>>) = x
  BY <1>10, ReaderText DEF Last
<1>13. Reader!CountsAgree
  BY <1>1, <1>2, <1>5, <1>6, <1>12, ReaderText DEF Reader!CountsAgree
<1>14. {ip % 256 : ip \in Reader!Range(Reader!HostIps)} = HostsOf(H, s)
  BY <1>2, <1>6, ReaderText
<1>15. Reader!Last(Reader!Values(Reader!Json, "avg_resp_rate")) = AebOf(H, s)
  BY <1>1, <1>5, <1>12, ReaderText
<1>16. Reader!Kept(Reader!FlattenSeq(Reader!Values(Reader!Json, "meta"))) = Reader!Kept(M)
  BY <1>1, <1>4, <1>5, ReaderText
<1> QED  BY <1>7, <1>8, <1>9, <1>11, <1>13, <1>14, <1>15, <1>16 DEF EntryOf, M

\* The end of a list: the /24s are shuffled.
LEMMA ShuffleArrives ==
  ASSUME NEW H, NEW ns, Arrived(H, ns), slash24s' \in Reader!Shuffles(slash24s),
         s24_hash' = s24_hash
  PROVE  Arrived(H, ns)' /\ Len(slash24s') = Len(slash24s)
<1> DEFINE n == Len(slash24s)
<1>1. n \in Nat /\ DOMAIN slash24s = 1..n /\ \A i \in 1..n : slash24s[i] \in Nat
  BY LenProperties, ElementOfSeq DEF Arrived
<1>2. PICK p \in Bijection(1..n, 1..n) : slash24s' = [i \in 1..n |-> slash24s[p[i]]]
  BY <1>1, ReaderText DEF Reader!Shuffles
<1>3. /\ \A i \in 1..n : p[i] \in 1..n
      /\ \A i, j \in 1..n : p[i] = p[j] => i = j
  BY <1>2 DEF Bijection, Injection, IsInjective
<1>4. slash24s' \in Seq(Nat) /\ Len(slash24s') = n /\ \A i \in 1..n : slash24s'[i] = slash24s[p[i]]
  <2>1. slash24s' \in [1..n -> Nat] /\ \A i \in 1..n : slash24s'[i] = slash24s[p[i]]
    BY <1>1, <1>2, <1>3
  <2> QED  BY <1>1, <2>1, SeqDef
<1>5. \A i, j \in 1..n : slash24s'[i] = slash24s'[j] => i = j
  <2> SUFFICES ASSUME NEW i \in 1..n, NEW j \in 1..n, slash24s'[i] = slash24s'[j]
               PROVE  i = j
    OBVIOUS
  <2>1. slash24s[p[i]] = slash24s[p[j]] /\ p[i] \in 1..n /\ p[j] \in 1..n
    BY <1>3, <1>4
  <2>2. p[i] = p[j]
    BY <2>1 DEF Arrived
  <2> QED  BY <1>3, <2>2
<1>6. \A i \in 1..n : /\ \E m \in 1..Len(ns) : ns[m] = slash24s'[i]
                      /\ s24_hash'[slash24s'[i]] = EntryOf(H, slash24s'[i])
  BY <1>3, <1>4, SMTT(60) DEF Arrived
<1>7. \A s : EntryOf(H, s)' = EntryOf(H, s)
  BY DEF EntryOf
<1> QED  BY <1>4, <1>5, <1>6, <1>7 DEF Arrived

\* The byte that the scan has come to, inside of a piece or after the last one.
Inside(ps, ns, k, j) ==
  /\ k \in 0..(Len(ns) - 1) /\ j \in Nat /\ j < Len(ps[k + 1])
  /\ Reader!Byte = ps[k + 1][j + 1]

\* The byte that comes, at a place of the list.
LEMMA AtByte ==
  ASSUME NEW H, NEW ps, NEW ns, IsList(H, file, ps, ns),
         NEW k, NEW j, Scanned(ps, ns, k, j), bufp < Len(buf)
  PROVE  /\ k = Len(ns) => Reader!Byte.kind = "}" /\ obj_start = 0 /\ obj_end = 0
         /\ k # Len(ns) => Inside(ps, ns, k, j)
         /\ bufp' = bufp + 1 /\ UNCHANGED <<file, filePos, buf>> =>
              Buffered(Pos(ps, k, j) + 1)'
<1> DEFINE p == Pos(ps, k, j)
<1>1. /\ InList(ps, ns, k, j) /\ Buffered(p) /\ obj_start \in Nat /\ obj_end \in Nat
      /\ Braces(j - Before(k), obj_start, obj_end)
  BY DEF Scanned
<1>2. file \in Seq(Tokens)
  BY ListText
<1>3. /\ p \in Nat /\ p < Len(file)
      /\ k = Len(ns) => file[p + 1] = Close
      /\ k # Len(ns) => file[p + 1] = ps[k + 1][j + 1]
  BY <1>1, TokenAt
<1> HIDE DEF p
<1>4. /\ Reader!Byte = file[p + 1]
      /\ bufp' = bufp + 1 /\ UNCHANGED <<file, filePos, buf>> => Buffered(p + 1)'
  BY <1>1, <1>2, <1>3, NextByte
<1>5. ASSUME k = Len(ns) PROVE Reader!Byte.kind = "}" /\ obj_start = 0 /\ obj_end = 0
  <2>1. j = 0
    BY <1>1, <1>5 DEF InList
  <2>2. j - Before(k) < 2
    BY <2>1 DEF Before
  <2>3. ~(j - Before(k) \in 2..5) /\ \A i \in Nat, d \in 0..2 : j - Before(k) # 3 * i + 3 + d
    BY <2>1 DEF Before
  <2>4. obj_start = 0 /\ obj_end = 0
    BY <1>1, <2>3 DEF Braces
  <2>5. Close.kind = "}"
    BY DEF Close, Token
  <2> QED  BY <1>3, <1>4, <1>5, <2>4, <2>5
<1>6. k # Len(ns) => k \in 0..(Len(ns) - 1) /\ j \in Nat /\ j < Len(ps[k + 1])
  BY <1>1, LenProperties DEF InList, IsList
<1> QED  BY <1>3, <1>4, <1>5, <1>6 DEF p, Inside

\* A token of a piece is copied, and it is not the last one.
LEMMA Copies ==
  ASSUME NEW H, NEW ps, NEW ns, IsList(H, file, ps, ns),
         NEW k, NEW j, Scanned(ps, ns, k, j), bufp < Len(buf), k # Len(ns),
         j + 1 < Len(ps[k + 1]),
         bufp' = bufp + 1, UNCHANGED <<file, filePos, buf, state, slash24s, s24_hash>>,
         js' = Append(js, Reader!Byte), obj_start' \in Nat, obj_end' \in Nat,
         Braces((j - Before(k)) + 1, obj_start', obj_end')
  PROVE  \E k2 \in 0..Len(ns), j2 \in Nat : Scanned(ps, ns, k2, j2)'
<1>1. /\ InList(ps, ns, k, j) /\ state = "S24" /\ js = SubSeq(ps[k + 1], 1, j)
      /\ slash24s = SubSeq(ns, 1, k) /\ DOMAIN s24_hash = {ns[i] : i \in 1..k}
  BY DEF Scanned
<1>2. /\ k \in 0..(Len(ns) - 1) /\ j \in Nat /\ j < Len(ps[k + 1])
      /\ Reader!Byte = ps[k + 1][j + 1]
      /\ Buffered(Pos(ps, k, j) + 1)'
  <2>1. Inside(ps, ns, k, j)
    BY AtByte
  <2>2. Buffered(Pos(ps, k, j) + 1)'
    BY AtByte
  <2> QED  BY <2>1, <2>2 DEF Inside
<1>3. InList(ps, ns, k, j + 1) /\ Pos(ps, k, j + 1) = Pos(ps, k, j) + 1
  BY <1>1, TokenAt
<1>4. js' = SubSeq(ps[k + 1], 1, j + 1)
  <2>1. ps[k + 1] \in Seq(Tokens)
    BY <1>2, PieceTokens DEF PieceShape
  <2>2. j \in 0..(Len(ps[k + 1]) - 1)
    BY <1>2, <2>1, LenProperties
  <2> QED  BY <1>1, <1>2, <2>1, <2>2, PrefixAppend
<1>5. (j - Before(k)) + 1 = (j + 1) - Before(k) /\ j + 1 \in Nat /\ k \in 0..Len(ns)
  <2>1. Before(k) \in Nat
    BY DEF Before
  <2>2. Len(ns) \in Nat
    BY LenProperties DEF IsList
  <2>3. (j - Before(k)) + 1 = (j + 1) - Before(k)
    BY <1>2, <2>1
  <2> QED  BY <1>2, <2>2, <2>3
<1>6. Buffered(Pos(ps, k, j + 1))'
  BY <1>2, <1>3
<1>7. Scanned(ps, ns, k, j + 1)'
  BY <1>1, <1>3, <1>4, <1>5, <1>6 DEF Scanned
<1> QED  BY <1>5, <1>7

\* The object of a /24 ends.
LEMMA Adds ==
  ASSUME NEW H, NEW ps, NEW ns, IsList(H, file, ps, ns), Arrived(H, ns),
         NEW k, NEW j, Scanned(ps, ns, k, j), bufp < Len(buf), k # Len(ns),
         j + 1 = Len(ps[k + 1])
  PROVE  /\ ~Reader!InvalidObject /\ ~Reader!AssertionFails
         /\ Reader!AddSlash24 => /\ Arrived(H, ns)'
                                 /\ Scanned(ps, ns, k + 1, 0)' /\ k + 1 \in 0..Len(ns)
<1> DEFINE s == ns[k + 1]
<1>1. /\ InList(ps, ns, k, j) /\ state = "S24" /\ js = SubSeq(ps[k + 1], 1, j)
      /\ slash24s = SubSeq(ns, 1, k) /\ DOMAIN s24_hash = {ns[i] : i \in 1..k}
  BY DEF Scanned
<1>2. /\ k \in 0..(Len(ns) - 1) /\ j \in Nat
      /\ Reader!Byte = ps[k + 1][j + 1]
  <2>1. Inside(ps, ns, k, j)
    BY AtByte
  <2> QED  BY <2>1 DEF Inside
<1>3. Reader!Json = ObjectIn(H, s)
  BY <1>1, <1>2, JsonIs
<1>4. /\ H \in Histories /\ s \in Nat /\ Worth(H, s) /\ k + 1 \in 1..Len(ns)
      /\ IsFiniteSet(Gen!Metadata(s)) /\ Len(ns) \in Nat /\ ns \in Seq(Nat)
      /\ \A a, b \in 1..Len(ns) : ns[a] = ns[b] => a = b
  <2>1. Len(ns) \in Nat /\ ns \in Seq(Nat)
    BY LenProperties DEF IsList
  <2>2. k + 1 \in 1..Len(ns)
    BY <1>2, <2>1
  <2> QED  BY <2>1, <2>2, ElementOfSeq DEF IsList
<1>5. /\ Reader!IsMember /\ Reader!HostsBelong /\ ~Reader!MissingField /\ Reader!CountsAgree
      /\ Reader!Network = s
      /\ [hosts |-> {ip % 256 : ip \in Reader!Range(Reader!HostIps)},
          aeb   |-> Reader!Last(Reader!Values(Reader!Json, "avg_resp_rate")),
          md    |-> Reader!Kept(Reader!FlattenSeq(Reader!Values(Reader!Json, "meta")))]
           = EntryOf(H, s)
  BY <1>3, <1>4, ObjectArrives
<1>6. ~Reader!InvalidObject /\ ~Reader!AssertionFails
  BY <1>5 DEF Reader!InvalidObject, Reader!AssertionFails
<1>7. ASSUME Reader!AddSlash24
      PROVE  Arrived(H, ns)' /\ Scanned(ps, ns, k + 1, 0)'
  <2>1. /\ obj_start' = 0 /\ obj_end' = 0 /\ js' = <<>> /\ state' = "S24"
        /\ bufp' = bufp + 1 /\ UNCHANGED <<file, filePos, buf>>
        /\ slash24s' = Append(slash24s, s)
    BY <1>1, <1>5, <1>7 DEF Reader!AddSlash24, Reader!ObjectEnds, Reader!Scans, Reader!fileVars
  <2>2. s24_hash' = [x \in {s} \cup DOMAIN s24_hash |->
                       IF x = s THEN EntryOf(H, s) ELSE s24_hash[x]]
    BY <1>5, <1>7, Zenon DEF Reader!AddSlash24
  <2>3. /\ slash24s' = SubSeq(ns, 1, k + 1) /\ slash24s' \in Seq(Nat) /\ Len(slash24s') = k + 1
        /\ \A i \in 1..(k + 1) : slash24s'[i] = ns[i]
    <3>1. slash24s' = SubSeq(ns, 1, k + 1)
      BY <1>1, <1>2, <1>4, <2>1, PrefixAppend
    <3>2. /\ slash24s \in Seq(Nat) /\ Len(slash24s) = k
          /\ \A i \in 1..k : slash24s[i] = ns[i]
      BY <1>1, <1>2, <1>4, PrefixAppend, ZenonT(60)
    <3>3. /\ Append(slash24s, s) \in Seq(Nat) /\ Len(Append(slash24s, s)) = k + 1
          /\ \A i \in 1..k : Append(slash24s, s)[i] = slash24s[i]
          /\ Append(slash24s, s)[k + 1] = s
      BY <1>4, <3>2, AppendProperties
    <3>4. \A i \in 1..(k + 1) : i \in 1..k \/ i = k + 1
      BY <1>2
    <3> QED  BY <2>1, <3>1, <3>2, <3>3, <3>4
  <2>4. DOMAIN s24_hash' = {ns[i] : i \in 1..(k + 1)}
    <3>1. DOMAIN s24_hash' = {s} \cup {ns[i] : i \in 1..k}
      BY <1>1, <2>2
    <3>2. \A i : i \in 1..(k + 1) <=> i \in 1..k \/ i = k + 1
      BY <1>2
    <3> QED  BY <3>1, <3>2
  <2>5. \A i \in 1..(k + 1) : s24_hash'[ns[i]] = EntryOf(H, ns[i])
    <3> SUFFICES ASSUME NEW i \in 1..(k + 1) PROVE s24_hash'[ns[i]] = EntryOf(H, ns[i])
      OBVIOUS
    <3>1. CASE i = k + 1
      BY <2>2, <3>1
    <3>2. CASE i \in 1..k
      <4>1. ns[i] # s /\ ns[i] \in DOMAIN s24_hash
        <5>1. i \in 1..Len(ns) /\ i # k + 1
          BY <1>2, <1>4, <3>2
        <5> QED  BY <1>1, <1>4, <3>2, <5>1
      <4>2. s24_hash[ns[i]] = EntryOf(H, ns[i])
        <5>1. Len(slash24s) = k /\ slash24s[i] = ns[i]
          BY <1>1, <1>2, <1>4, <3>2, PrefixAppend
        <5> QED  BY <3>2, <5>1 DEF Arrived
      <4> QED  BY <2>2, <4>1, <4>2
    <3> QED  BY <1>2, <3>1, <3>2
  <2>6. Arrived(H, ns)'
    <3>1. \A x : EntryOf(H, x)' = EntryOf(H, x)
      BY DEF EntryOf
    <3>2. \A i \in 1..(k + 1) : i \in 1..Len(ns)
      BY <1>2, <1>4
    <3>3. \A a, b \in 1..Len(slash24s') : slash24s'[a] = slash24s'[b] => a = b
      BY <1>4, <2>3, <3>2
    <3>4. \A i \in 1..Len(slash24s') : /\ \E m \in 1..Len(ns) : ns[m] = slash24s'[i]
                                       /\ s24_hash'[slash24s'[i]] = EntryOf(H, slash24s'[i])
      BY <2>3, <2>5, <3>2
    <3> QED  BY <2>3, <3>1, <3>3, <3>4 DEF Arrived
  <2>7. InList(ps, ns, k + 1, 0) /\ Pos(ps, k + 1, 0) = Pos(ps, k, j) + 1
    BY <1>1, TokenAt
  <2>8. Buffered(Pos(ps, k + 1, 0))'
    <3>1. Buffered(Pos(ps, k, j) + 1)'
      BY <2>1, AtByte
    <3> QED  BY <2>7, <3>1
  <2>9. Braces(0 - Before(k + 1), 0, 0)
    BY DEF Braces, Before
  <2>10. js' = SubSeq(ps[(k + 1) + 1], 1, 0)
    BY <2>1, SubSeqEmpty
  <2>11. Scanned(ps, ns, k + 1, 0)'
    BY <2>1, <2>3, <2>4, <2>7, <2>8, <2>9, <2>10 DEF Scanned
  <2> QED  BY <2>6, <2>11
<1>8. k + 1 \in 0..Len(ns)
  BY <1>2, <1>4
<1> QED  BY <1>6, <1>7, <1>8

\* What a step of the reader needs of the list and keeps.
LEMMA ReadFailsKeeps ==
  ASSUME NEW H, NEW ps, NEW ns, Arrived(H, ns), Reader!ReadFails
  PROVE  ReadsFrom(H, ps, ns)' /\ file' = file
<1>1. /\ result' = "ok" /\ slash24s' \in Reader!Shuffles(slash24s) /\ s24_hash' = s24_hash
      /\ readFailed' = TRUE /\ file' = file
  BY DEF Reader!ReadFails, Reader!Done, Reader!fileVars
<1>2. Arrived(H, ns)'
  BY <1>1, ShuffleArrives
<1> QED  BY <1>1, <1>2 DEF ReadsFrom

\* A step of the reader before the brace of the list.
LEMMA StartStep ==
  ASSUME NEW H, NEW ps, NEW ns, IsList(H, file, ps, ns), Arrived(H, ns),
         result = "reading", AtStart, Reader!Step, ~readShort'
  PROVE  ReadsFrom(H, ps, ns)' /\ file' = file
<1>1. /\ Buffered(0) /\ state = "OUTER_OPEN" /\ js = <<>> /\ slash24s = <<>>
      /\ DOMAIN s24_hash = {}
  BY DEF AtStart
<1>2. file \in Seq(Tokens) /\ 0 < Len(file) /\ file[1] = Open /\ Open.kind = "{"
      /\ Len(file) # 0
  <2>1. /\ file \in Seq(Tokens) /\ Len(file) = Len(FlattenSeq(ps)) + 2
        /\ Len(FlattenSeq(ps)) \in Nat /\ file[1] = Open
    BY ListText
  <2>2. Open.kind = "{"
    BY DEF Open, Token
  <2>3. 0 < Len(file) /\ Len(file) # 0
    BY <2>1
  <2> QED  BY <2>1, <2>2, <2>3
<1>3. bufp < Len(buf) => /\ Reader!Byte = Open
                         /\ bufp' = bufp + 1 /\ UNCHANGED <<file, filePos, buf>> => Buffered(1)'
  <2> SUFFICES ASSUME bufp < Len(buf)
               PROVE  /\ Reader!Byte = Open
                      /\ bufp' = bufp + 1 /\ UNCHANGED <<file, filePos, buf>> => Buffered(1)'
    OBVIOUS
  <2>1. /\ Reader!Byte = file[0 + 1]
        /\ bufp' = bufp + 1 /\ UNCHANGED <<file, filePos, buf>> => Buffered(0 + 1)'
    BY <1>1, <1>2, NextByte
  <2>2. 0 + 1 = 1
    OBVIOUS
  <2> QED  BY <1>2, <2>1, <2>2
<1>4. CASE Reader!ReadBuffer
  <2>1. Buffered(0)'
    BY <1>1, <1>2, <1>4, Refill
  <2>2. UNCHANGED <<result, file, state, js, slash24s, s24_hash, readFailed>>
    BY <1>4 DEF Reader!ReadBuffer, Reader!listVars
  <2>3. AtStart'
    BY <1>1, <2>1, <2>2 DEF AtStart
  <2>4. Arrived(H, ns)'
    BY <2>2 DEF Arrived, EntryOf
  <2> QED  BY <2>2, <2>3, <2>4 DEF ReadsFrom
<1>5. ~Reader!FileEnds
  <2> SUFFICES ASSUME Reader!FileEnds PROVE FALSE
    OBVIOUS
  <2>1. bufp = Len(buf) /\ filePos = Len(file)
    BY DEF Reader!FileEnds, Reader!AtBufferEnd
  <2>2. filePos = 0
    BY <1>1, <1>2, <2>1, BufferUsed
  <2> QED  BY <1>2, <2>1, <2>2
<1>6. CASE Reader!ReadFails
  BY <1>6, ReadFailsKeeps
<1>7. ~Reader!SkipByte
  BY <1>2, <1>3 DEF Reader!SkipByte, Reader!Scans
<1>8. CASE Reader!OuterOpen
  <2>1. /\ bufp < Len(buf) /\ bufp' = bufp + 1 /\ UNCHANGED <<file, filePos, buf>>
        /\ state' = "S24" /\ obj_start' = 0 /\ obj_end' = 0
        /\ UNCHANGED <<result, js, slash24s, s24_hash, readFailed>>
    BY <1>8 DEF Reader!OuterOpen, Reader!Scans, Reader!fileVars, Reader!readVars, Reader!listVars
  <2>2. Buffered(1)'
    BY <1>3, <2>1
  <2>3. Pos(ps, 0, 0) = 1
    <3>1. Upto(ps, 0) = <<>> /\ ps \in Seq(Seq(Tokens))
      BY UptoFacts DEF IsList
    <3> QED  BY <3>1 DEF Pos
  <2>4. Len(ns) \in Nat
    BY LenProperties DEF IsList
  <2>5. InList(ps, ns, 0, 0)
    <3>1. 0 # Len(ns) => 0 < Len(ps[0 + 1])
      <4> SUFFICES ASSUME 0 # Len(ns) PROVE 0 < Len(ps[0 + 1])
        OBVIOUS
      <4>1. 0 \in 0..(Len(ns) - 1)
        BY <2>4
      <4>2. /\ HostCnt(H, ns[0 + 1]) \in Nat \ {0}
            /\ Len(ps[0 + 1]) = Before(0) + (6 + 3 * HostCnt(H, ns[0 + 1]))
        BY <4>1, PieceTokens DEF PieceShape
      <4> QED  BY <4>2 DEF Before
    <3> QED  BY <2>4, <3>1 DEF InList
  <2>6. Braces(0 - Before(0), 0, 0)
    BY DEF Braces, Before
  <2>7. SubSeq(ps[0 + 1], 1, 0) = <<>> /\ SubSeq(ns, 1, 0) = <<>> /\ {ns[i] : i \in 1..0} = {}
    BY SubSeqEmpty
  <2>8. Scanned(ps, ns, 0, 0)'
    BY <1>1, <2>1, <2>2, <2>3, <2>5, <2>6, <2>7 DEF Scanned
  <2>9. Arrived(H, ns)'
    BY <2>1 DEF Arrived, EntryOf
  <2>10. 0 \in 0..Len(ns)
    BY <2>4
  <2> QED  BY <2>1, <2>8, <2>9, <2>10 DEF ReadsFrom
<1>9. ~\E s \in {"S24"} : Reader!Scans(s)
  BY <1>1 DEF Reader!Scans
<1>10. /\ ~Reader!CopyByte /\ ~Reader!CopyOpen /\ ~Reader!CopyClose /\ ~Reader!ListEnds
       /\ ~Reader!AddSlash24 /\ ~Reader!InvalidObject /\ ~Reader!AssertionFails
  BY <1>9 DEF Reader!CopyByte, Reader!CopyOpen, Reader!CopyClose, Reader!ListEnds,
              Reader!AddSlash24, Reader!InvalidObject, Reader!AssertionFails, Reader!ObjectEnds
<1> QED  BY <1>4, <1>5, <1>6, <1>7, <1>8, <1>10 DEF Reader!Step

\* A step of the reader inside of the list.
LEMMA ScanStep ==
  ASSUME NEW H, NEW ps, NEW ns, IsList(H, file, ps, ns), Arrived(H, ns),
         result = "reading", NEW k \in 0..Len(ns), NEW j \in Nat, Scanned(ps, ns, k, j),
         Reader!Step, ~readShort'
  PROVE  ReadsFrom(H, ps, ns)' /\ file' = file
<1>1. /\ InList(ps, ns, k, j) /\ Buffered(Pos(ps, k, j)) /\ state = "S24"
      /\ obj_start \in Nat /\ obj_end \in Nat /\ Braces(j - Before(k), obj_start, obj_end)
      /\ slash24s = SubSeq(ns, 1, k)
  BY DEF Scanned
<1>0. obj_start \in Nat /\ obj_end \in Nat
  BY <1>1
<1>2. file \in Seq(Tokens) /\ Pos(ps, k, j) \in Nat /\ Pos(ps, k, j) < Len(file)
  BY <1>1, ListText, TokenAt
<1>3. ASSUME bufp < Len(buf), Reader!Byte.kind # "}" PROVE k # Len(ns)
  BY <1>3, AtByte
<1>4. ASSUME bufp < Len(buf), obj_start # 0 PROVE k # Len(ns)
  BY <1>4, AtByte
<1>5. ASSUME bufp < Len(buf), k # Len(ns)
      PROVE  Follows(Reader!Byte, ps[k + 1], j, j - Before(k), obj_start, obj_end)
  <2>1. Inside(ps, ns, k, j)
    BY <1>5, AtByte
  <2>2. k \in 0..(Len(ns) - 1) /\ j < Len(ps[k + 1]) /\ Reader!Byte = ps[k + 1][j + 1]
    BY <2>1 DEF Inside
  <2> QED  BY <1>1, <2>2, NextOfPiece
<1>6. CASE Reader!ReadBuffer
  <2>1. Buffered(Pos(ps, k, j))'
    BY <1>1, <1>2, <1>6, Refill
  <2>2. UNCHANGED <<result, file, state, obj_start, obj_end, js, slash24s, s24_hash, readFailed>>
    BY <1>6 DEF Reader!ReadBuffer, Reader!listVars, Reader!countVars
  <2>3. Scanned(ps, ns, k, j)'
    BY <1>1, <2>1, <2>2 DEF Scanned
  <2>4. Arrived(H, ns)'
    BY <2>2 DEF Arrived, EntryOf
  <2> QED  BY <2>2, <2>3, <2>4 DEF ReadsFrom
<1>7. ~Reader!FileEnds
  <2> SUFFICES ASSUME Reader!FileEnds PROVE FALSE
    OBVIOUS
  <2>1. bufp = Len(buf) /\ filePos = Len(file)
    BY DEF Reader!FileEnds, Reader!AtBufferEnd
  <2>2. filePos = Pos(ps, k, j)
    BY <1>1, <1>2, <2>1, BufferUsed
  <2> QED  BY <1>2, <2>1, <2>2
<1>8. CASE Reader!ReadFails
  BY <1>8, ReadFailsKeeps
<1>9. ~Reader!SkipByte /\ ~Reader!OuterOpen
  BY <1>1 DEF Reader!SkipByte, Reader!OuterOpen, Reader!Scans
<1>10. ASSUME Reader!Scans("S24"), k # Len(ns), j + 1 < Len(ps[k + 1]),
              UNCHANGED <<result, state, slash24s, s24_hash>>,
              js' = Append(js, Reader!Byte), obj_start' \in Nat, obj_end' \in Nat,
              Braces((j - Before(k)) + 1, obj_start', obj_end')
       PROVE  ReadsFrom(H, ps, ns)' /\ file' = file
  <2>1. bufp < Len(buf) /\ bufp' = bufp + 1 /\ UNCHANGED <<file, filePos, buf>>
    BY <1>10 DEF Reader!Scans, Reader!fileVars
  <2>2. \E k2 \in 0..Len(ns), j2 \in Nat : Scanned(ps, ns, k2, j2)'
    BY <1>10, <2>1, Copies
  <2>3. Arrived(H, ns)'
    BY <1>10 DEF Arrived, EntryOf
  <2> QED  BY <1>10, <2>1, <2>2, <2>3 DEF ReadsFrom
<1>11. CASE Reader!CopyByte
  <2>1. /\ Reader!Scans("S24") /\ bufp < Len(buf) /\ Reader!Byte.kind \notin {"{", "}"}
        /\ js' = Append(js, Reader!Byte)
        /\ UNCHANGED <<result, state, obj_start, obj_end, slash24s, s24_hash>>
    BY <1>11 DEF Reader!CopyByte, Reader!Scans, Reader!countVars, Reader!listVars
  <2>2. k # Len(ns)
    BY <1>3, <2>1
  <2>3. j + 1 < Len(ps[k + 1]) /\ Braces((j - Before(k)) + 1, obj_start, obj_end)
    BY <1>5, <2>1, <2>2 DEF Follows
  <2> QED  BY <1>1, <1>10, <2>1, <2>2, <2>3
<1>12. CASE Reader!CopyOpen
  <2>1. /\ Reader!Scans("S24") /\ bufp < Len(buf) /\ Reader!Byte.kind = "{"
        /\ js' = Append(js, Reader!Byte) /\ obj_start' = obj_start + 1
        /\ UNCHANGED <<result, state, obj_end, slash24s, s24_hash>>
    BY <1>12 DEF Reader!CopyOpen, Reader!Scans, Reader!listVars
  <2>2. k # Len(ns)
    BY <1>3, <2>1
  <2>3. j + 1 < Len(ps[k + 1]) /\ Braces((j - Before(k)) + 1, obj_start + 1, obj_end)
    BY <1>5, <2>1, <2>2 DEF Follows
  <2>4. obj_start' \in Nat /\ obj_end' \in Nat
    <3>1. obj_start' = obj_start + 1 /\ obj_end' = obj_end
      BY <2>1
    <3> QED  BY <1>0, <3>1
  <2> QED  BY <1>10, <2>1, <2>2, <2>3, <2>4
<1>13. CASE Reader!CopyClose
  <2>1. /\ Reader!Scans("S24") /\ bufp < Len(buf) /\ Reader!Byte.kind = "}"
        /\ obj_start > 0 /\ obj_start # obj_end + 1
        /\ js' = Append(js, Reader!Byte) /\ obj_end' = obj_end + 1
        /\ UNCHANGED <<result, state, obj_start, slash24s, s24_hash>>
    BY <1>13 DEF Reader!CopyClose, Reader!Scans, Reader!listVars, Reader!EndsObject
  <2>2. k # Len(ns)
    <3>1. obj_start > 0
      BY <2>1
    <3>2. obj_start # 0
      BY <1>0, <3>1
    <3> QED  BY <1>4, <2>1, <3>2
  <2>3. j + 1 < Len(ps[k + 1]) /\ Braces((j - Before(k)) + 1, obj_start, obj_end + 1)
    BY <1>5, <2>1, <2>2 DEF Follows
  <2>4. obj_start' \in Nat /\ obj_end' \in Nat
    <3>1. obj_start' = obj_start /\ obj_end' = obj_end + 1
      BY <2>1
    <3> QED  BY <1>0, <3>1
  <2> QED  BY <1>10, <2>1, <2>2, <2>3, <2>4
<1>14. CASE Reader!ListEnds
  <2>1. /\ bufp < Len(buf) /\ Reader!Byte.kind = "}" /\ obj_start = 0
        /\ result' = "ok" /\ slash24s' \in Reader!Shuffles(slash24s) /\ s24_hash' = s24_hash
        /\ UNCHANGED <<file, readFailed>>
    BY <1>14 DEF Reader!ListEnds, Reader!Scans, Reader!Done, Reader!fileVars, Reader!readVars
  <2>2. k = Len(ns)
    <3>1. obj_start = 0
      BY <2>1
    <3>2. ~(obj_start > 0)
      BY <3>1
    <3> QED  BY <1>5, <2>1, <3>2 DEF Follows
  <2>3. Len(slash24s) = Len(ns)
    <3>1. ns \in Seq(Nat)
      BY DEF IsList
    <3> QED  BY <1>1, <2>2, <3>1, SubSeqFull
  <2>4. Arrived(H, ns)' /\ Len(slash24s') = Len(slash24s)
    BY <2>1, ShuffleArrives
  <2> QED  BY <2>1, <2>3, <2>4 DEF ReadsFrom
<1>15. ASSUME Reader!ObjectEnds
       PROVE  /\ bufp < Len(buf) /\ k # Len(ns) /\ j + 1 = Len(ps[k + 1])
              /\ file' = file
  <2>1. /\ bufp < Len(buf) /\ Reader!Byte.kind = "}" /\ obj_start = obj_end + 1 /\ file' = file
    BY <1>15 DEF Reader!ObjectEnds, Reader!Scans, Reader!EndsObject, Reader!fileVars
  <2>2. obj_start # 0
    <3>1. obj_start = obj_end + 1
      BY <2>1
    <3> QED  BY <1>0, <3>1
  <2>3. k # Len(ns)
    BY <1>4, <2>1, <2>2
  <2> QED  BY <1>5, <2>1, <2>3 DEF Follows
<1>16. CASE Reader!AddSlash24
  <2>1. Reader!ObjectEnds /\ result' = result
    BY <1>16 DEF Reader!AddSlash24
  <2>2. bufp < Len(buf) /\ k # Len(ns) /\ j + 1 = Len(ps[k + 1]) /\ file' = file
    BY <1>15, <2>1
  <2>3. Arrived(H, ns)' /\ Scanned(ps, ns, k + 1, 0)' /\ k + 1 \in 0..Len(ns)
    BY <1>16, <2>2, Adds
  <2> QED  BY <2>1, <2>2, <2>3 DEF ReadsFrom
<1>17. ~Reader!InvalidObject /\ ~Reader!AssertionFails
  <2> SUFFICES ASSUME Reader!ObjectEnds PROVE ~Reader!InvalidObject /\ ~Reader!AssertionFails
    BY DEF Reader!InvalidObject, Reader!AssertionFails
  <2>1. bufp < Len(buf) /\ k # Len(ns) /\ j + 1 = Len(ps[k + 1])
    BY <1>15
  <2> QED  BY <2>1, Adds
<1> QED  BY <1>6, <1>7, <1>8, <1>9, <1>11, <1>12, <1>13, <1>14, <1>16, <1>17 DEF Reader!Step

-----------------------------------------------------------------------------
(* A file of the tool is a list                                              *)

\* The /24s that a file is dealt, of those that are written.
Nets(w, n, f) ==
  LET own == Turns(n, Gen!outfiles_cnt, f)
  IN  [i \in DOMAIN own |-> w[own[i]]]

\* The /24s that are written, in order.
Order == IF summary_only THEN <<>> ELSE Chosen(history, Gen!Complete)

\* Each /24 that is written is one of the history and is written once.
LEMMA OrderFacts ==
  ASSUME GenTypes
  PROVE  /\ Len(Order) = Len(Written) /\ Len(Order) \in Nat
         /\ \A i \in 1..Len(Order) :
              /\ Order[i] \in Nat /\ Order[i] \in NetsOf(history) /\ Worth(history, Order[i])
              /\ Written[i] = ObjectIn(history, Order[i])
         /\ \A i, j \in 1..Len(Order) : Order[i] = Order[j] => i = j
<1>1. CASE summary_only
  <2>1. Order = <<>> /\ Written = <<>>
    BY <1>1 DEF Order, Written
  <2>2. Len(<<>>) = 0 /\ 1..0 = {}
    OBVIOUS
  <2> QED  BY <2>1, <2>2
<1>2. CASE ~summary_only
  <2> DEFINE C == Gen!Complete
             w == Chosen(history, C)
  <2>1. Order = w /\ Written = Objects(history, C)
    BY <1>2 DEF Order, Written
  <2>2. history \in Histories /\ C \in SUBSET Nat /\ IsFiniteSet(C) /\ C \subseteq NetsOf(history)
    BY CompleteIs DEF GenTypes
  <2> HIDE DEF C
  <2>3. /\ Len(w) \in Nat /\ DOMAIN w = 1..Len(w)
        /\ \A i \in 1..Len(w) : w[i] \in C /\ Worth(history, w[i])
        /\ \A i, j \in 1..Len(w) : i < j => w[i] < w[j]
    BY <2>2, ChosenFacts
  <2>4. Len(Objects(history, C)) = Len(w)
    BY <2>2, ObjectsType
  <2>5. \A i \in 1..Len(w) : Objects(history, C)[i] = ObjectIn(history, w[i])
    BY <2>3 DEF Objects
  <2>6. \A i, j \in 1..Len(w) : w[i] = w[j] => i = j
    <3> SUFFICES ASSUME NEW i \in 1..Len(w), NEW j \in 1..Len(w), w[i] = w[j], i # j PROVE FALSE
      OBVIOUS
    <3> HIDE DEF w
    <3>1. i < j \/ j < i
      BY <2>3
    <3>2. w[i] \in Nat /\ w[j] \in Nat
      BY <2>2, <2>3
    <3>3. w[i] < w[j] \/ w[j] < w[i]
      BY <2>3, <3>1
    <3> QED  BY <3>2, <3>3
  <2> HIDE DEF w
  <2> QED  BY <2>1, <2>2, <2>3, <2>4, <2>5, <2>6
<1> QED  BY <1>1, <1>2

\* A file that the tool has ended is a list.
LEMMA FileIsList ==
  ASSUME DealInv, phase = "done", NEW f \in DOMAIN outfiles
  PROVE  \E ps, ns : IsList(history, outfiles[f], ps, ns)
<1> DEFINE c == Gen!outfiles_cnt
           own == Turns(Len(Written), c, f)
           ps == Parts(Written, c, f)
           ns == Nets(Order, Len(Written), f)
<1>1. /\ GenTypes /\ history \in Histories /\ c \in Nat \ {0} /\ f \in 0..(c - 1)
      /\ outfiles[f] = Text(Written, f, <<Close>>)
  BY CountType DEF DealInv, GenTypes, FilesAre, Ending
<1>2. Written \in Seq(Seq(Tokens)) /\ Len(Written) \in Nat /\ Comma \in Tokens
  BY <1>1, CompleteIs, TokensAre
<1>3. own \in Seq(1..Len(Written))
  BY <1>1, <1>2, TurnsFacts
<1>4. /\ Len(own) \in Nat /\ DOMAIN own = 1..Len(own)
      /\ \A i \in 1..Len(own) : own[i] \in 1..Len(Written)
  BY <1>3, LenProperties, ElementOfSeq
<1>5. \A i, j \in 1..Len(own) : own[i] = own[j] => i = j
  <2> DEFINE S == {i \in 1..Len(Written) : (i - 1) % c = f}
  <2>1. S \in SUBSET Nat /\ IsFiniteSet(S)
    <3>1. S \in SUBSET (1..Len(Written)) /\ IsFiniteSet(1..Len(Written))
      BY <1>2, FS_Interval
    <3>2. 1..Len(Written) \subseteq Nat
      BY <1>2
    <3> HIDE DEF S
    <3>3. IsFiniteSet(S)
      BY <3>1, FS_Subset
    <3> QED  BY <3>1, <3>2, <3>3
  <2>2. own = InOrder(S)
    BY DEF Turns
  <2> HIDE DEF S, own
  <2>3. Len(own) = Cardinality(S) /\ \A i, j \in 1..Cardinality(S) : i < j => own[i] < own[j]
    BY <2>1, <2>2, InOrderFacts
  <2> SUFFICES ASSUME NEW i \in 1..Len(own), NEW j \in 1..Len(own), own[i] = own[j], i # j
               PROVE  FALSE
    OBVIOUS
  <2>4. i < j \/ j < i
    BY <1>4
  <2>5. own[i] < own[j] \/ own[j] < own[i]
    BY <2>3, <2>4
  <2>6. own[i] \in Nat /\ own[j] \in Nat
    BY <1>2, <1>4
  <2> QED  BY <2>5, <2>6
<1>6. ps = [i \in 1..Len(own) |-> (IF i = 1 THEN <<>> ELSE <<Comma>>) \o Written[own[i]]]
  BY <1>4 DEF Parts
<1>7. ps \in Seq(Seq(Tokens)) /\ Len(ps) = Len(own)
  BY <1>1, <1>2, PartsType
<1>8. ns = [i \in 1..Len(own) |-> Order[own[i]]]
  BY <1>4 DEF Nets
<1>9. /\ Len(Order) = Len(Written)
      /\ \A i \in 1..Len(Order) :
           /\ Order[i] \in Nat /\ Order[i] \in NetsOf(history) /\ Worth(history, Order[i])
           /\ Written[i] = ObjectIn(history, Order[i])
      /\ \A i, j \in 1..Len(Order) : Order[i] = Order[j] => i = j
  BY <1>1, OrderFacts
<1> HIDE DEF c, own, ps, ns
<1>10. ns \in Seq(Nat) /\ Len(ns) = Len(own)
  <2>1. ns \in [1..Len(own) -> Nat]
    BY <1>4, <1>8, <1>9
  <2>2. ns \in Seq(Nat)
    BY <1>4, <2>1, SeqDef
  <2> QED  BY <1>4, <2>1, <2>2, LenProperties
<1>11. \A i \in 1..Len(ns) : \A j \in 1..Len(ns) : ns[i] = ns[j] => i = j
  BY <1>4, <1>5, <1>8, <1>9, <1>10
<1>12. ASSUME NEW i \in 1..Len(ns)
       PROVE  /\ Worth(history, ns[i])
              /\ IsFiniteSet(Gen!Metadata(ns[i])) /\ Gen!Metadata(ns[i]) # {}
              /\ ps[i] = (IF i = 1 THEN <<>> ELSE <<Comma>>) \o ObjectIn(history, ns[i])
  <2>1. /\ Worth(history, ns[i]) /\ ns[i] \in NetsOf(history)
        /\ Written[own[i]] = ObjectIn(history, ns[i])
    BY <1>4, <1>8, <1>9, <1>10
  <2>2. PICK l \in history : ns[i] = l.net
    BY <2>1 DEF NetsOf
  <2>3. l \in Lines
    BY <1>1 DEF Histories
  <2>4. IsFiniteSet(Gen!Metadata(l.net))
    BY <2>3, ProbelistFileAssumption
  <2>5. IsFiniteSet(Gen!Metadata(ns[i]))
    BY <2>2, <2>4
  <2>6. Gen!Metadata(ns[i]) # {}
    <3>1. Gen!MatchesFilter(ns[i])
      BY <2>1 DEF Worth, Gen!Skipped
    <3> QED  BY <3>1 DEF Gen!MatchesFilter
  <2>7. ps[i] = (IF i = 1 THEN <<>> ELSE <<Comma>>) \o Written[own[i]]
    BY <1>6, <1>10
  <2> QED  BY <2>1, <2>5, <2>6, <2>7
<1>13. outfiles[f] = <<Open>> \o FlattenSeq(ps) \o <<Close>>
  BY <1>1 DEF Text, ps, c
<1>14. IsList(history, outfiles[f], ps, ns)
  BY <1>1, <1>7, <1>10, <1>11, <1>12, <1>13 DEF IsList
<1> QED  BY <1>14

-----------------------------------------------------------------------------
(* What has been read                                                        *)

\* A list that the tool has ended is being read, or has been, and no read of it has
\* been short: after a short one nothing is known of what the scan takes for the
\* list.
ReadInv ==
  /\ result = "none" => slash24s = <<>>
  /\ result # "none" => phase \in {"done", "failed"}
  /\ result # "none" /\ Ended /\ ~readShort =>
       \E H, ps, ns : /\ H = history
                      /\ IsList(H, file, ps, ns) /\ ReadsFrom(H, ps, ns)

\* At first nothing is read.
LEMMA ReadInit == Init => ReadInv
  BY DEF Init, Reader!Init, ReadInv

\* Once the tool has exited, its files and the history stay.
LEMMA ReadGenerates ==
  ASSUME ReadInv, Generates
  PROVE  ReadInv'
<1>1. phase \in {"reading", "stopped"} /\ Gen!Next
  BY DEF Generates, Gen!Next, Gen!SameSlash24, Gen!NextSlash24, Gen!LineComes,
         Gen!BadLine, Gen!Finish
<1>2. result = "none"
  BY <1>1 DEF ReadInv
<1>3. result' = result /\ slash24s' = slash24s
  BY DEF Generates, readerVars
<1> QED  BY <1>2, <1>3 DEF ReadInv

\* Opening a list, with whatever is in the memory of the buffer.
LEMMA CreateStarts ==
  ASSUME NEW H, NEW ns, NEW text, text \in Seq(Tokens), Reader!Create(text)
  PROVE  Arrived(H, ns)' /\ AtStart' /\ result' = "reading" /\ file' = text
<1>1. /\ result' = "reading" /\ file' = text /\ filePos' = 0 /\ state' = "OUTER_OPEN"
      /\ js' = <<>> /\ slash24s' = <<>> /\ s24_hash' = <<>>
  BY DEF Reader!Create
<1>2. PICK n \in BufSizes, g \in Reader!Garbage : buf' = [i \in 1..n |-> g] /\ bufp' = n
  BY DEF Reader!Create
<1>3. n \in Nat \ {0}
  BY ProbelistFileAssumption DEF Reader!ReaderConstants
<1>4. g \in Tokens
  <2>1. Reader!Garbage = {Open, Close, Token("host_ip", 0)}
    BY DEF Reader!Garbage, Reader!Open, Reader!Close, Reader!Token, Open, Close, Token
  <2>2. "host_ip" \in Kinds /\ 0 \in Int
    BY DEF Kinds
  <2> QED  BY <2>1, <2>2, TokensAre
<1>5. buf' \in Seq(Tokens) /\ Len(buf') = n
  <2>1. buf' \in [1..n -> Tokens]
    BY <1>2, <1>4
  <2>2. buf' \in Seq(Tokens)
    BY <1>3, <2>1, SeqDef
  <2> QED  BY <1>3, <2>1, <2>2, LenProperties
<1>6. Len(text) \in Nat
  BY LenProperties
<1>7. Buffered(0)'
  <2>1. n \in 0..n /\ 0 \in 0..Len(text) /\ 0 - 0 = 0 /\ n + 0 <= n /\ ~(n + 0 < n) /\ 1..0 = {}
    BY <1>3, <1>6
  <2> QED  BY <1>1, <1>2, <1>3, <1>5, <2>1 DEF Buffered
<1>8. DOMAIN s24_hash' = {}
  <2>1. DOMAIN (<<>>) = {}
    OBVIOUS
  <2> QED  BY <1>1, <2>1
<1>9. AtStart'
  BY <1>1, <1>7, <1>8 DEF AtStart
<1>10. Arrived(H, ns)'
  <2>1. <<>> \in Seq(Nat) /\ Len(<<>>) = 0 /\ 1..0 = {}
    OBVIOUS
  <2> QED  BY <1>1, <2>1 DEF Arrived
<1> QED  BY <1>1, <1>9, <1>10

\* A prober opens a list: if the tool has ended it, it is one.
LEMMA ReadOpens ==
  ASSUME DealInv, ReadInv, OpensFile
  PROVE  ReadInv'
<1>1. PICK text \in Range(outfiles) \cup HandWritten : Reader!Create(text)
  BY DEF OpensFile
<1>2. phase \in {"done", "failed"} /\ UNCHANGED genVars
  BY DEF OpensFile
<1>3. phase' = phase /\ history' = history /\ outfiles' = outfiles
  BY <1>2 DEF genVars
<1>4. result' = "reading" /\ file' = text
  BY <1>1 DEF Reader!Create
<1>5. ASSUME Ended', ~readShort'
      PROVE  \E H, ps, ns : /\ H = history'
                            /\ IsList(H, file', ps, ns) /\ ReadsFrom(H, ps, ns)'
  <2>1. phase = "done" /\ text \in Range(outfiles)
    BY <1>3, <1>4, <1>5 DEF Ended
  <2>2. PICK f \in DOMAIN outfiles : outfiles[f] = text
    BY <2>1 DEF Range
  <2>3. PICK ps, ns : IsList(history, text, ps, ns)
    BY <2>1, <2>2, FileIsList
  <2>4. PICK H : H = history
    OBVIOUS
  <2>5. IsList(H, text, ps, ns)
    BY <2>3, <2>4
  <2>6. text \in Seq(Tokens)
    BY <2>5, ListText
  <2>7. Arrived(H, ns)' /\ AtStart'
    BY <1>1, <2>6, CreateStarts
  <2>8. ReadsFrom(H, ps, ns)'
    BY <1>4, <2>7 DEF ReadsFrom
  <2> QED  BY <1>3, <1>4, <2>4, <2>5, <2>8
<1> QED  BY <1>2, <1>3, <1>4, <1>5 DEF ReadInv

\* A step of the reader.
LEMMA ReadReads ==
  ASSUME ReadInv, Reads
  PROVE  ReadInv'
<1>1. Reader!Step /\ phase' = phase /\ history' = history /\ outfiles' = outfiles
  BY DEF Reads, genVars
<1>2. result = "reading" /\ result' # "none" /\ file' = file
  BY <1>1 DEF Reader!Step, Reader!ReadBuffer, Reader!FileEnds, Reader!ReadFails,
     Reader!SkipByte, Reader!OuterOpen, Reader!CopyByte, Reader!CopyOpen,
     Reader!CopyClose, Reader!ListEnds, Reader!AddSlash24, Reader!InvalidObject,
     Reader!AssertionFails, Reader!ObjectEnds, Reader!Scans, Reader!AtBufferEnd,
     Reader!Done, Reader!fileVars
<1>3. ASSUME ~readShort' PROVE ~readShort
  <2>1. CASE Reader!ReadBuffer
    BY <1>3, <2>1, Zenon DEF Reader!ReadBuffer
  <2>2. CASE ~Reader!ReadBuffer
    <3>1. UNCHANGED readShort
      BY <1>1, <2>2, Zenon DEF Reader!Step, Reader!FileEnds, Reader!ReadFails,
         Reader!SkipByte, Reader!OuterOpen, Reader!CopyByte, Reader!CopyOpen,
         Reader!CopyClose, Reader!ListEnds, Reader!AddSlash24, Reader!InvalidObject,
         Reader!AssertionFails, Reader!ObjectEnds, Reader!Scans, Reader!readVars
    <3> QED  BY <1>3, <3>1
  <2> QED  BY <2>1, <2>2
<1>4. ASSUME Ended', ~readShort'
      PROVE  \E H, ps, ns : /\ H = history'
                            /\ IsList(H, file', ps, ns) /\ ReadsFrom(H, ps, ns)'
  <2>1. Ended /\ ~readShort
    BY <1>1, <1>2, <1>3, <1>4 DEF Ended
  <2>2. PICK H, ps, ns : H = history /\ IsList(H, file, ps, ns) /\ ReadsFrom(H, ps, ns)
    BY <1>2, <2>1 DEF ReadInv
  <2>3. Arrived(H, ns) /\ (AtStart \/ \E k \in 0..Len(ns), j \in Nat : Scanned(ps, ns, k, j))
    BY <1>2, <2>2 DEF ReadsFrom
  <2>4. CASE AtStart
    <3>1. ReadsFrom(H, ps, ns)'
      BY <1>1, <1>2, <1>4, <2>2, <2>3, <2>4, StartStep
    <3> QED  BY <1>1, <1>2, <2>2, <3>1
  <2>5. ASSUME NEW k \in 0..Len(ns), NEW j \in Nat, Scanned(ps, ns, k, j)
        PROVE  ReadsFrom(H, ps, ns)'
    BY <1>1, <1>2, <1>4, <2>2, <2>3, <2>5, ScanStep
  <2> QED  BY <1>1, <1>2, <2>2, <2>3, <2>4, <2>5
<1>5. phase \in {"done", "failed"}
  BY <1>2 DEF ReadInv
<1> QED  BY <1>1, <1>2, <1>4, <1>5 DEF ReadInv

\* Every step keeps the invariant of the reader.
LEMMA ReadStep == DealInv /\ ReadInv /\ [Next]_vars => ReadInv'
<1> SUFFICES ASSUME DealInv, ReadInv, [Next]_vars PROVE ReadInv'
  OBVIOUS
<1>1. CASE Generates
  BY <1>1, ReadGenerates
<1>2. CASE OpensFile
  BY <1>2, ReadOpens
<1>3. CASE Reads
  BY <1>3, ReadReads
<1>4. CASE UNCHANGED vars
  <2>1. /\ result' = result /\ slash24s' = slash24s /\ phase' = phase /\ file' = file
        /\ outfiles' = outfiles /\ history' = history
        /\ UNCHANGED <<filePos, buf, bufp, state, obj_start, obj_end, js, s24_hash, readFailed>>
        /\ readShort' = readShort
    BY <1>4 DEF vars, genVars, readerVars
  <2>2. \A p : Buffered(p)' <=> Buffered(p)
    BY <2>1 DEF Buffered
  <2>3. AtStart' <=> AtStart
    BY <2>1, <2>2 DEF AtStart
  <2>4. \A ps, ns, k, j : Scanned(ps, ns, k, j)' <=> Scanned(ps, ns, k, j)
    BY <2>1, <2>2 DEF Scanned
  <2>5. \A H, ns : Arrived(H, ns)' <=> Arrived(H, ns)
    BY <2>1 DEF Arrived, EntryOf
  <2>6. \A H, ps, ns : ReadsFrom(H, ps, ns)' <=> ReadsFrom(H, ps, ns)
    BY <2>1, <2>3, <2>4, <2>5 DEF ReadsFrom
  <2>7. Ended' <=> Ended
    BY <2>1 DEF Ended
  <2> QED  BY <2>1, <2>6, <2>7 DEF ReadInv
<1> QED  BY <1>1, <1>2, <1>3, <1>4 DEF Next

\* A list names its /24s.
LEMMA NetworksAre ==
  ASSUME NEW H, NEW text, NEW ps, NEW ns, IsList(H, text, ps, ns)
  PROVE  Networks(text) = ns
<1> DEFINE K == {"key"}
           F == FlattenSeq(ps)
           keys == [i \in 1..Len(ns) |-> Token("key", ns[i])]
<1>1. /\ ps \in Seq(Seq(Tokens)) /\ ns \in Seq(Nat) /\ Len(ps) = Len(ns) /\ Len(ns) \in Nat
      /\ \A i \in 1..Len(ns) : ns[i] \in Nat
      /\ text = (<<Open>> \o F) \o <<Close>>
  BY LenProperties, ElementOfSeq DEF IsList
<1>2. /\ <<Open>> \in Seq(Tokens) /\ <<Close>> \in Seq(Tokens)
      /\ OfKinds(<<Open>>, K) = <<>> /\ OfKinds(<<Close>>, K) = <<>>
      /\ OfKinds(<<Comma>>, K) = <<>>
  <2>1. Open \in Tokens /\ Close \in Tokens /\ Comma \in Tokens
    BY TokensAre
  <2>2. Open.kind \notin K /\ Close.kind \notin K /\ Comma.kind \notin K
    BY DEF Open, Close, Comma, Token
  <2> HIDE DEF K
  <2> QED  BY <2>1, <2>2, OfKindsOne
<1>3. keys \in Seq(Tokens) /\ Len(keys) = Len(ns)
  <2>1. \A i \in 1..Len(ns) : Token("key", ns[i]) \in Tokens
    <3>1. "key" \in Kinds /\ Nat \subseteq Int
      BY DEF Kinds
    <3> QED  BY <1>1, <3>1, TokensAre
  <2>2. keys \in [1..Len(ns) -> Tokens]
    BY <2>1
  <2> HIDE DEF keys
  <2>3. \A n \in Nat : \A g \in [1..n -> Tokens] : g \in Seq(Tokens) /\ Len(g) = n
    BY SeqDef
  <2>4. Len(ns) \in Nat
    BY <1>1
  <2> QED  BY <2>2, <2>3, <2>4, Zenon
<1>4. ASSUME NEW i \in 1..Len(ps) PROVE OfKinds(ps[i], K) = <<keys[i]>>
  <2> DEFINE o == ObjectIn(H, ns[i])
             pre == IF i = 1 THEN <<>> ELSE <<Comma>>
  <2>1. H \in Histories /\ ns[i] \in Nat /\ Worth(H, ns[i]) /\ ps[i] = pre \o o
    BY <1>1 DEF IsList
  <2>2. \A h : h = HostCnt(H, ns[i]) => OfKinds(o, K) = <<Token("key", ns[i])>>
    BY <2>1, ObjectInTokens DEF ObjectSays
  <2>3. OfKinds(o, K) = <<keys[i]>> /\ o \in Seq(Tokens)
    BY <1>1, <2>1, <2>2, ObjectInType
  <2>4. pre \in Seq(Tokens) /\ OfKinds(pre, K) = <<>>
    <3>1. <<>> \in Seq(Tokens) /\ <<Comma>> \in Seq(Tokens)
      BY TokensAre
    <3>2. \A t \in Seq(Tokens) : OfKinds(<<>>, K) = <<>>
      BY OfKindsFacts
    <3> HIDE DEF K
    <3> QED  BY <1>2, <3>1, <3>2
  <2> HIDE DEF o, pre, K, keys
  <2>5. OfKinds(pre \o o, K) = OfKinds(pre, K) \o OfKinds(o, K)
    BY <2>3, <2>4, OfKindsConcat, Zenon
  <2>6. <<keys[i]>> \in Seq(Tokens)
    BY <1>1, <1>3, ElementOfSeq
  <2>7. <<>> \o <<keys[i]>> = <<keys[i]>>
    BY <2>6, ConcatEmptySeq
  <2> QED  BY <2>1, <2>3, <2>4, <2>5, <2>7
<1> HIDE DEF K, keys, F
<1>5. OfKinds(F, K) = keys
  BY <1>1, <1>3, <1>4, FlattenOfKinds DEF F
<1>6. OfKinds(text, K) = keys
  <2>1. F \in Seq(Tokens)
    BY <1>1, FlattenFacts DEF F
  <2>2. <<Open>> \o F \in Seq(Tokens)
    BY <1>2, <2>1, ConcatProperties
  <2>3. OfKinds(<<Open>> \o F, K) = <<>> \o keys
    <3>1. OfKinds(<<Open>> \o F, K) = OfKinds(<<Open>>, K) \o OfKinds(F, K)
      BY <1>2, <2>1, OfKindsConcat, Zenon
    <3> QED  BY <1>2, <1>5, <3>1, Zenon
  <2>4. <<>> \o keys = keys /\ keys \o <<>> = keys
    BY <1>3, ConcatEmptySeq
  <2>5. \A s \in Seq(Tokens) : OfKinds(s \o <<Close>>, K) = OfKinds(s, K) \o OfKinds(<<Close>>, K)
    BY <1>2, OfKindsConcat, Zenon
  <2>6. OfKinds((<<Open>> \o F) \o <<Close>>, K) = OfKinds(<<Open>> \o F, K) \o OfKinds(<<Close>>, K)
    BY <2>2, <2>5, Zenon
  <2> QED  BY <1>1, <1>2, <2>3, <2>4, <2>6, Zenon
<1>7. Networks(text) = [i \in DOMAIN keys |-> keys[i].value]
  BY <1>6 DEF Networks, Values, K
<1>8. [i \in DOMAIN keys |-> keys[i].value] = [i \in 1..Len(ns) |-> ns[i]]
  BY DEF keys, Token
<1>9. ns = [i \in 1..Len(ns) |-> ns[i]]
  BY <1>1, LenProperties
<1> QED  BY <1>7, <1>8, <1>9

\* The tags that are kept.
LEMMA TagsKept ==
  ASSUME NEW M, IsFiniteSet(M), M # {}, NEW md, md = Reader!Kept(SetToSeq(M))
  PROVE  /\ Range(md) \subseteq M /\ Range(md) # {}
         /\ Cardinality(Range(md)) = Min({Cardinality(M), MetaMax})
<1> DEFINE t == SetToSeq(M)
           c == Cardinality(M)
           q == Min({c, MetaMax})
<1>1. /\ t \in Seq(M) /\ Len(t) = c /\ c \in Nat
      /\ \A i, j \in 1..c : t[i] = t[j] => i = j
  BY SetToSeqFacts
<1>2. c # 0 /\ MetaMax \in Nat \ {0}
  BY FS_EmptySet, ProbelistFileAssumption DEF Reader!ReaderConstants
<1>3. md = SubSeq(t, 1, q)
  <2>1. Reader!Kept(t) = SubSeq(t, 1, Min({Len(t), MetaMax}))
    BY ReaderText, Zenon DEF Reader!Kept
  <2> HIDE DEF t
  <2> QED  BY <1>1, <2>1 DEF t
<1> HIDE DEF t, c
<1>4. q \in Nat /\ 1 <= q /\ q <= c
  BY <1>1, <1>2, MinIs
<1> HIDE DEF q
<1>5. md \in Seq(M) /\ Len(md) = q /\ \A i \in 1..q : md[i] = t[i]
  <2>1. \A i \in 1..q : t[i] \in M
    <3>1. \A i \in 1..q : i \in 1..Len(t)
      BY <1>1, <1>4
    <3> QED  BY <1>1, <3>1, ElementOfSeq
  <2>2. /\ SubSeq(t, 1, q) \in Seq(M)
        /\ Len(SubSeq(t, 1, q)) = IF 1 <= q THEN q - 1 + 1 ELSE 0
        /\ \A i \in 1..(q - 1 + 1) : SubSeq(t, 1, q)[i] = t[1 + i - 1]
    BY <1>4, <2>1, SubSeqProperties
  <2>3. q - 1 + 1 = q /\ \A i \in 1..q : 1 + i - 1 = i
    BY <1>4
  <2> QED  BY <1>3, <1>4, <2>2, <2>3
<1>6. DOMAIN md = 1..q /\ \A i \in 1..q : md[i] \in M
  BY <1>5, LenProperties, ElementOfSeq
<1>7. Range(md) \subseteq M /\ Range(md) # {}
  <2>1. 1 \in 1..q
    BY <1>4
  <2> QED  BY <1>6, <2>1 DEF Range
<1>8. Cardinality(Range(md)) = q
  <2>1. md \in [1..q -> Range(md)]
    <3>1. md \in [1..q -> M]
      BY <1>4, <1>5, <1>6, LenProperties
    <3> QED  BY <1>6, <3>1 DEF Range
  <2>2. \A a, b \in 1..q : md[a] = md[b] => a = b
    <3>1. \A a \in 1..q : a \in 1..c
      BY <1>1, <1>4
    <3> QED  BY <1>1, <1>5, <3>1
  <2>3. \A x \in Range(md) : \E a \in 1..q : md[a] = x
    BY <1>6 DEF Range
  <2>4. md \in Bijection(1..q, Range(md))
    BY <2>1, <2>2, <2>3, Fun_IsBij
  <2>5. IsFiniteSet(1..q) /\ Cardinality(1..q) = q
    BY <1>4, FS_Interval
  <2>6. ExistsBijection(1..q, Range(md))
    BY <2>4 DEF ExistsBijection
  <2> QED  BY <2>5, <2>6, FS_Bijection
<1> QED  BY <1>7, <1>8 DEF q, c

\* A /24 that has been read is the one of the history.
LEMMA EntryIsFaithful ==
  ASSUME NEW s, s24_hash[s] = EntryOf(history, s),
         IsFiniteSet(Gen!Metadata(s)), Gen!Metadata(s) # {}
  PROVE  Faithful(s)
<1>1. Gen!Answered(s) = Heard(history, s)
  BY DEF Gen!Answered, Heard
<1>2. Gen!Total(s) = Cardinality(Answers(history, s))
  BY <1>1, GenText DEF Gen!Total, Answers
<1>3. /\ s24_hash[s].hosts = HostsOf(history, s)
      /\ s24_hash[s].aeb = AebOf(history, s)
      /\ s24_hash[s].md = Reader!Kept(SetToSeq(Gen!Metadata(s)))
  BY DEF EntryOf
<1>4. s24_hash[s].hosts = {l.host : l \in Gen!Answered(s)}
  BY <1>1, <1>3 DEF HostsOf
<1>5. s24_hash[s].aeb = (25 * Gen!Total(s)) \div Cardinality(Gen!Answered(s))
  BY <1>1, <1>2, <1>3 DEF AebOf
<1>6. /\ Range(s24_hash[s].md) \subseteq Gen!Metadata(s) /\ Range(s24_hash[s].md) # {}
      /\ Cardinality(Range(s24_hash[s].md)) = Min({Cardinality(Gen!Metadata(s)), MetaMax})
  BY <1>3, TagsKept
<1> QED  BY <1>4, <1>5, <1>6 DEF Faithful

\* The inductive invariant.
FileInv == DealInv /\ ReadInv

LEMMA FileInvHolds == Spec => []FileInv
<1>1. Init => FileInv
  BY DealInit, ReadInit DEF FileInv
<1>2. FileInv /\ [Next]_vars => FileInv'
  BY DealStep, ReadStep DEF FileInv
<1> QED  BY <1>1, <1>2, PTL DEF Spec

\* Wherever the buffer cuts a list that the tool has ended, and whichever read fails,
\* every /24 that the prober has got from it is one that was written to it, is there
\* once, and has the hosts and the A(E(b)) of the history, and as much of its metadata
\* as eight bits can count: as long as no read has left bytes out that it could have
\* returned.
THEOREM NothingIsInvented == Spec => []NeverInvents
<1>1. FileInv => NeverInvents
  <2> SUFFICES ASSUME FileInv, Ended, ~readShort
               PROVE  /\ Distinct(slash24s)
                      /\ \A i \in DOMAIN slash24s :
                           Contains(Networks(file), slash24s[i]) /\ Faithful(slash24s[i])
    BY DEF NeverInvents, Sound
  <2>1. CASE result = "none"
    <3>1. slash24s = <<>>
      BY <2>1 DEF FileInv, ReadInv
    <3>2. DOMAIN (<<>>) = {}
      OBVIOUS
    <3> QED  BY <3>1, <3>2 DEF Distinct
  <2>2. CASE result # "none"
    <3>1. PICK H, ps, ns : H = history /\ IsList(H, file, ps, ns) /\ ReadsFrom(H, ps, ns)
      BY <2>2 DEF FileInv, ReadInv
    <3>2. Arrived(H, ns) /\ Networks(file) = ns
      BY <3>1, NetworksAre DEF ReadsFrom
    <3>3. DOMAIN slash24s = 1..Len(slash24s)
      BY <3>2, LenProperties DEF Arrived
    <3>4. Distinct(slash24s)
      BY <3>2, <3>3 DEF Distinct, Arrived
    <3>5. ASSUME NEW i \in DOMAIN slash24s
          PROVE  Contains(Networks(file), slash24s[i]) /\ Faithful(slash24s[i])
      <4>1. PICK m \in 1..Len(ns) : ns[m] = slash24s[i]
        BY <3>2, <3>3 DEF Arrived
      <4>2. Contains(Networks(file), slash24s[i])
        BY <3>2, <4>1 DEF Contains
      <4>3. s24_hash[slash24s[i]] = EntryOf(history, slash24s[i])
        BY <3>1, <3>2, <3>3 DEF Arrived
      <4>4. IsFiniteSet(Gen!Metadata(ns[m])) /\ Gen!Metadata(ns[m]) # {}
        BY <3>1 DEF IsList
      <4>5. Faithful(slash24s[i])
        BY <4>1, <4>3, <4>4, EntryIsFaithful
      <4> QED  BY <4>2, <4>5
    <3> QED  BY <3>4, <3>5
  <2> QED  BY <2>1, <2>2
<1> QED  BY <1>1, FileInvHolds, PTL

\* A list that the tool has ended is never refused, the prober does not abort on it,
\* and unless a read fails it has every /24 of it in the end, as long as no read has
\* been short.
THEOREM EndedListsAreRead == Spec => []ReadsBack
<1>1. FileInv => ReadsBack
  <2> SUFFICES ASSUME FileInv, Ended, ~readShort, result \notin {"none", "reading"}
               PROVE  /\ result = "ok"
                      /\ ~readFailed => Len(slash24s) = Len(Networks(file))
    BY DEF ReadsBack
  <2>1. PICK H, ps, ns : H = history /\ IsList(H, file, ps, ns) /\ ReadsFrom(H, ps, ns)
    BY DEF FileInv, ReadInv
  <2>2. Networks(file) = ns
    BY <2>1, NetworksAre
  <2> QED  BY <2>1, <2>2 DEF ReadsFrom
<1> QED  BY <1>1, FileInvHolds, PTL

-----------------------------------------------------------------------------
(* What a short read may leave                                               *)

\* The tokens of a list and of the memory: they name only /24s of the list, and
\* the addresses of hosts that answered.
Listed(H, ns) ==
  {t \in Tokens :
     /\ t.kind = "key" => \E m \in 1..Len(ns) : ns[m] = t.value
     /\ t.kind = "host_ip" =>
          t.value = 0 \/ \E s \in Nat : \E x \in HostsOf(H, s) : t.value = Address(s, x)}

LEMMA ListedTokens ==
  ASSUME NEW H, NEW ns
  PROVE  /\ Open \in Listed(H, ns) /\ Close \in Listed(H, ns) /\ Comma \in Listed(H, ns)
         /\ Token("host_ip", 0) \in Listed(H, ns)
         /\ \A t \in Tokens : t.kind \notin {"key", "host_ip"} => t \in Listed(H, ns)
<1>1. \A t \in Tokens : t.kind \notin {"key", "host_ip"} => t \in Listed(H, ns)
  BY DEF Listed
<1>2. Open.kind = "{" /\ Close.kind = "}" /\ Comma.kind = ","
  BY DEF Open, Close, Comma, Token
<1>3. Token("host_ip", 0) \in Listed(H, ns)
  <2>1. "host_ip" \in Kinds /\ 0 \in Int
    BY DEF Kinds
  <2>2. Token("host_ip", 0) \in Tokens
    BY <2>1, TokensAre
  <2>3. Token("host_ip", 0).kind = "host_ip" /\ Token("host_ip", 0).value = 0
    BY DEF Token
  <2> QED  BY <2>2, <2>3 DEF Listed
<1> QED  BY <1>1, <1>2, <1>3, TokensAre

\* The object of a /24 of the list consists of them.
LEMMA ObjectListed ==
  ASSUME NEW H \in Histories, NEW ns \in Seq(Nat), NEW k \in 1..Len(ns), Worth(H, ns[k])
  PROVE  ObjectIn(H, ns[k]) \in Seq(Listed(H, ns))
<1> DEFINE L == Listed(H, ns)
           s == ns[k]
           hosts == HostsOf(H, s)
           a == AebOf(H, s)
           c == Cardinality(hosts)
           ip(i) == Token("host_ip", Address(s, InOrder(hosts)[i]))
           head == <<Token("key", s), Open, Token("host_cnt", c),
                     Token("avg_resp_rate", a), Token("meta", SetToSeq(Gen!Metadata(s)))>>
           g == HostObjects(s, hosts)
<1>1. s \in Nat
  BY ElementOfSeq
<1>2. a \in Nat /\ hosts \in SUBSET Nat /\ IsFiniteSet(hosts)
  BY <1>1, ObjectInType
<1>3. /\ Len(g) = c /\ c \in Nat /\ g = [i \in 1..c |-> <<Open, ip(i), Close>>]
      /\ \A i \in 1..c : InOrder(hosts)[i] \in hosts /\ ip(i) \in Tokens
  BY <1>1, <1>2, HostObjectsType DEF HostObjects
<1>4. Open \in L /\ Close \in L
  BY ListedTokens
<1>5. ASSUME NEW i \in 1..c PROVE ip(i) \in L
  <2>1. /\ ip(i).kind = "host_ip" /\ ip(i).value = Address(s, InOrder(hosts)[i])
    BY DEF Token
  <2> QED  BY <1>1, <1>3, <2>1 DEF Listed
<1>6. head \in Seq(L)
  <2>1. {"key", "host_cnt", "avg_resp_rate"} \subseteq Kinds /\ c \in Int /\ s \in Int /\ a \in Int
    BY <1>1, <1>2, <1>3 DEF Kinds
  <2>2. /\ Token("key", s) \in Tokens /\ Token("host_cnt", c) \in Tokens
        /\ Token("avg_resp_rate", a) \in Tokens
        /\ Token("meta", SetToSeq(Gen!Metadata(s))) \in Tokens
    BY <1>1, <2>1, TokensAre
  <2>3. /\ Token("key", s).kind = "key" /\ Token("key", s).value = s
        /\ Token("host_cnt", c).kind = "host_cnt"
        /\ Token("avg_resp_rate", a).kind = "avg_resp_rate"
        /\ Token("meta", SetToSeq(Gen!Metadata(s))).kind = "meta"
    BY DEF Token
  <2>4. Token("key", s) \in L
    BY <2>2, <2>3 DEF Listed
  <2>5. /\ Token("host_cnt", c) \in L /\ Token("avg_resp_rate", a) \in L
        /\ Token("meta", SetToSeq(Gen!Metadata(s))) \in L
    BY <2>2, <2>3, ListedTokens
  <2> HIDE DEF L
  <2> QED  BY <1>4, <2>4, <2>5
<1> HIDE DEF L, head
<1>7. g \in Seq(Seq(L))
  <2>1. \A x \in L : <<Open, x, Close>> \in Seq(L)
    BY <1>4
  <2>2. g \in [1..c -> Seq(L)]
    BY <1>3, <1>5, <2>1
  <2>3. c \in Nat
    BY <1>3
  <2> HIDE DEF g, c
  <2> QED  BY <2>2, <2>3, SeqDef
<1>8. FlattenSeq(g) \in Seq(L)
  BY <1>7, FlattenFacts
<1>9. <<Close>> \in Seq(L)
  BY <1>4
<1>10. head \o FlattenSeq(g) \o <<Close>> \in Seq(L)
  BY <1>6, <1>8, <1>9, ConcatProperties
<1> QED  BY <1>10, ObjectIs DEF ObjectIn, head, L

\* So does the list.
LEMMA FileListed ==
  ASSUME NEW H, NEW text, NEW ps, NEW ns, IsList(H, text, ps, ns)
  PROVE  text \in Seq(Listed(H, ns)) /\ Len(text) \in Nat
<1> DEFINE L == Listed(H, ns)
<1>1. /\ H \in Histories /\ ns \in Seq(Nat) /\ ps \in Seq(Seq(Tokens)) /\ Len(ps) = Len(ns)
      /\ Len(ns) \in Nat
      /\ \A i \in 1..Len(ns) : Worth(H, ns[i])
      /\ \A i \in 1..Len(ns) : ps[i] = (IF i = 1 THEN <<>> ELSE <<Comma>>) \o ObjectIn(H, ns[i])
      /\ text = <<Open>> \o FlattenSeq(ps) \o <<Close>>
  BY LenProperties DEF IsList
<1>2. \A i \in 1..Len(ns) : ObjectIn(H, ns[i]) \in Seq(L)
  BY <1>1, ObjectListed
<1>3. Open \in L /\ Close \in L /\ Comma \in L
  BY ListedTokens
<1> HIDE DEF L
<1>4. <<Open>> \in Seq(L) /\ <<Close>> \in Seq(L) /\ <<Comma>> \in Seq(L) /\ <<>> \in Seq(L)
  BY <1>3
<1>5. ps \in Seq(Seq(L))
  <2>1. ASSUME NEW i \in 1..Len(ns) PROVE ps[i] \in Seq(L)
    <3> DEFINE pre == IF i = 1 THEN <<>> ELSE <<Comma>>
               o == ObjectIn(H, ns[i])
    <3>1. pre \in Seq(L) /\ o \in Seq(L) /\ ps[i] = pre \o o
      BY <1>1, <1>2, <1>4
    <3> HIDE DEF pre, o
    <3> QED  BY <3>1, ConcatProperties
  <2>2. ps \in [1..Len(ns) -> Seq(L)]
    <3>1. ps \in [1..Len(ps) -> Seq(Tokens)]
      BY <1>1, LenProperties
    <3> QED  BY <1>1, <2>1, <3>1
  <2>3. Len(ns) \in Nat
    BY <1>1
  <2> QED  BY <2>2, <2>3, SeqDef
<1>6. FlattenSeq(ps) \in Seq(L)
  BY <1>5, FlattenFacts
<1>7. text \in Seq(L)
  BY <1>1, <1>4, <1>6, ConcatProperties
<1> QED  BY <1>7, LenProperties DEF L

\* No /24 of the list is number 0, which is what is read from the memory.
LEMMA WorthIsNotZero ==
  ASSUME NEW H \in Histories, NEW s, Worth(H, s)
  PROVE  s # 0
<1>1. Cardinality(HostsOf(H, s)) # 0
  BY WorthHasHosts DEF HostCnt
<1>2. HostsOf(H, s) # {}
  BY <1>1, FS_EmptySet
<1>3. PICK l \in H : l.net = s
  BY <1>2 DEF HostsOf, Heard
<1> QED  BY <1>3, ProbelistFileAssumption DEF Histories, Gen!GenConstants

\* A /24 that has been read is one of the list, with none but its own hosts.
Fits(H, ns, s) ==
  /\ \E m \in 1..Len(ns) : ns[m] = s
  /\ s \in DOMAIN s24_hash
  /\ s24_hash[s].hosts \subseteq HostsOf(H, s)

\* What holds of the reader whatever the reads return.
Stray(H, ns) ==
  /\ buf \in Seq(Listed(H, ns)) /\ bufp \in 0..Len(buf) /\ filePos \in 0..Len(file)
  /\ js \in Seq(Listed(H, ns))
  /\ slash24s \in Seq(Nat)
  /\ \A i \in 1..Len(slash24s) : Fits(H, ns, slash24s[i])

StrayInv ==
  result # "none" /\ Ended =>
    \E H, ps, ns : H = history /\ IsList(H, file, ps, ns) /\ Stray(H, ns)

\* The byte that is scanned is one of those tokens.
LEMMA ByteListed ==
  ASSUME NEW H, NEW ns, Stray(H, ns), bufp < Len(buf)
  PROVE  Reader!Byte \in Listed(H, ns) /\ bufp + 1 \in 0..Len(buf)
<1>1. buf \in Seq(Listed(H, ns)) /\ Len(buf) \in Nat /\ bufp \in 0..Len(buf)
  BY LenProperties DEF Stray
<1>2. bufp + 1 \in 1..Len(buf)
  BY <1>1
<1>3. buf[bufp + 1] \in Listed(H, ns)
  BY <1>1, <1>2, ElementOfSeq
<1> QED  BY <1>1, <1>2, <1>3 DEF Reader!Byte

\* What is parsed consists of tokens that were copied.
LEMMA JsonListed ==
  ASSUME NEW L, js \in Seq(L), Reader!Byte \in L, Reader!Byte.kind \in Fields
  PROVE  /\ Reader!Json[1] \in L
         /\ \A i \in DOMAIN Reader!HostIps :
              \E t \in L : t.kind = "host_ip" /\ t.value = Reader!HostIps[i]
<1> DEFINE o == OfKinds(Append(js, Reader!Byte), Fields)
           own == OfKinds(o, {"host_ip"})
           Y == {x \in L : x.kind \in {"host_ip"}}
<1>1. Reader!Json = o
  BY ReaderText DEF Reader!Json, Fields
<1>2. Reader!Byte.kind \in Fields
  OBVIOUS
<1>3. o = Append(OfKinds(js, Fields), Reader!Byte) /\ OfKinds(js, Fields) \in Seq(L)
  <2>1. /\ OfKinds(js, Fields) \in Seq(L)
        /\ \A x \in L : x.kind \in Fields =>
             OfKinds(Append(js, x), Fields) = Append(OfKinds(js, Fields), x)
    BY OfKindsFacts
  <2> QED  BY <1>2, <2>1
<1> HIDE DEF o
<1>4. o \in Seq(L) /\ Len(o) = Len(OfKinds(js, Fields)) + 1
  BY <1>3, AppendProperties
<1>5. 1 \in 1..Len(o)
  <2>1. Len(OfKinds(js, Fields)) \in Nat
    BY <1>3, LenProperties
  <2>2. \A c \in Nat : 1 \in 1..(c + 1)
    OBVIOUS
  <2> QED  BY <1>4, <2>1, <2>2
<1>6. o[1] \in L
  BY <1>4, <1>5, ElementOfSeq
<1>7. own \in Seq(Y)
  BY <1>4, OfKindsHave
<1>8. Reader!HostIps = [i \in DOMAIN own |-> own[i].value]
  BY <1>1, ReaderText DEF Reader!HostIps, Values
<1> HIDE DEF own, Y
<1>9. \A i \in DOMAIN own : own[i] \in Y
  BY <1>7, LenProperties, ElementOfSeq
<1>10. \A i \in DOMAIN Reader!HostIps : own[i] \in Y /\ own[i].value = Reader!HostIps[i]
  BY <1>8, <1>9
<1> QED  BY <1>1, <1>6, <1>10 DEF Y

\* The hosts of a /24 that passes the assertion are its own.
LEMMA HostsAreOwn ==
  ASSUME NEW H, NEW text, NEW ps, NEW ns, IsList(H, text, ps, ns),
         js \in Seq(Listed(H, ns)), Reader!Byte \in Listed(H, ns), Reader!Byte.kind \in Fields,
         Reader!IsMember, Reader!HostsBelong
  PROVE  /\ Reader!Network \in Nat /\ \E m \in 1..Len(ns) : ns[m] = Reader!Network
         /\ {ip % 256 : ip \in Reader!Range(Reader!HostIps)} \subseteq HostsOf(H, Reader!Network)
<1> DEFINE L == Listed(H, ns)
           n == Reader!Network
           ips == Reader!HostIps
<1>1. /\ Reader!Json[1] \in L
      /\ \A i \in DOMAIN ips : \E t \in L : t.kind = "host_ip" /\ t.value = ips[i]
  BY JsonListed
<1>2. PICK m \in 1..Len(ns) : ns[m] = n
  BY <1>1 DEF Reader!IsMember, Reader!Network, Listed
<1>3. H \in Histories /\ n \in Nat /\ Worth(H, n)
  BY <1>2, ElementOfSeq DEF IsList
<1>4. n # 0
  BY <1>3, WorthIsNotZero
<1>5. ASSUME NEW i \in DOMAIN ips PROVE ips[i] % 256 \in HostsOf(H, n)
  <2>1. ips[i] \div 256 = n
    BY DEF Reader!HostsBelong
  <2>2. ips[i] = 0 \/ \E s \in Nat : \E x \in HostsOf(H, s) : ips[i] = Address(s, x)
    BY <1>1 DEF Listed
  <2>3. ips[i] # 0
    <3>1. 0 \div 256 = 0
      <4>1. Address(0, 0) \div 256 = 0
        BY AddressFacts
      <4>2. Address(0, 0) = 0
        BY DEF Address
      <4> QED  BY <4>1, <4>2
    <3> QED  BY <1>4, <2>1, <3>1
  <2>4. PICK s \in Nat : \E x \in HostsOf(H, s) : ips[i] = Address(s, x)
    BY <2>2, <2>3
  <2>5. PICK x \in HostsOf(H, s) : ips[i] = Address(s, x)
    BY <2>4
  <2>6. x \in 0..255
    BY <1>3, <2>5, HeardFacts
  <2>7. Address(s, x) \div 256 = s /\ Address(s, x) % 256 = x
    BY <2>6, AddressFacts
  <2>8. s = n
    BY <2>1, <2>5, <2>7
  <2> QED  BY <2>5, <2>7, <2>8
<1>6. Reader!Range(ips) = {ips[i] : i \in DOMAIN ips}
  BY ReaderText DEF Range
<1> HIDE DEF ips, n
<1>7. {ip % 256 : ip \in Reader!Range(ips)} \subseteq HostsOf(H, n)
  BY <1>5, <1>6
<1> QED  BY <1>2, <1>3, <1>7 DEF n, ips

\* A read leaves such tokens in the buffer, the new ones and the old ones.
LEMMA StrayRefill ==
  ASSUME NEW H, NEW ps, NEW ns, IsList(H, file, ps, ns), Stray(H, ns), Reader!ReadBuffer
  PROVE  Stray(H, ns)'
<1> DEFINE L == Listed(H, ns)
           rest == Len(file) - filePos
           most == Reader!Min({Len(buf), Len(file) - filePos})
<1>1. PICK m \in {most} \cup {c \in Counts : c < most} :
         /\ buf' = SubSeq(file, filePos + 1, filePos + m) \o SubSeq(buf, m + 1, Len(buf))
         /\ filePos' = filePos + m
  BY Zenon DEF Reader!ReadBuffer
<1>2. /\ bufp' = 0 /\ file' = file /\ js' = js /\ slash24s' = slash24s /\ s24_hash' = s24_hash
      /\ filePos < Len(file)
  BY DEF Reader!ReadBuffer, Reader!listVars
<1>3. /\ file \in Seq(L) /\ buf \in Seq(L) /\ Len(file) \in Nat /\ Len(buf) \in Nat
      /\ filePos \in Nat /\ rest \in Nat
  BY <1>2, FileListed, LenProperties DEF Stray
<1>4. m \in Nat /\ m <= Len(buf) /\ m <= rest
  <2>1. most = IF Len(buf) <= rest THEN Len(buf) ELSE rest
    BY <1>3, MinIs, ReaderText
  <2>2. Counts \subseteq Nat
    BY ProbelistFileAssumption DEF Reader!ReaderConstants
  <2>3. m = most \/ (m \in Counts /\ m < most)
    BY Zenon
  <2> HIDE DEF most, rest
  <2>4. most \in Nat /\ most <= Len(buf) /\ most <= rest
    BY <1>3, <2>1
  <2>5. CASE m = most
    BY <2>4, <2>5
  <2>6. CASE m \in Counts /\ m < most
    BY <1>3, <2>2, <2>4, <2>6
  <2> QED  BY <2>3, <2>5, <2>6
<1> HIDE DEF most, L
<1>5. \A i \in (filePos + 1)..(filePos + m) : file[i] \in L
  <2> SUFFICES ASSUME NEW i \in (filePos + 1)..(filePos + m) PROVE file[i] \in L
    OBVIOUS
  <2>1. i \in 1..Len(file)
    BY <1>3, <1>4
  <2> QED  BY <1>3, <2>1, ElementOfSeq
<1>6. \A i \in (m + 1)..Len(buf) : buf[i] \in L
  <2> SUFFICES ASSUME NEW i \in (m + 1)..Len(buf) PROVE buf[i] \in L
    OBVIOUS
  <2>1. i \in 1..Len(buf)
    BY <1>3, <1>4
  <2> QED  BY <1>3, <2>1, ElementOfSeq
<1>7. SubSeq(file, filePos + 1, filePos + m) \in Seq(L)
  <2>1. filePos + 1 \in Int /\ filePos + m \in Int
    BY <1>3, <1>4
  <2> QED  BY <1>5, <2>1, SubSeqProperties
<1>8. SubSeq(buf, m + 1, Len(buf)) \in Seq(L)
  <2>1. m + 1 \in Int /\ Len(buf) \in Int
    BY <1>3, <1>4
  <2> QED  BY <1>6, <2>1, SubSeqProperties
<1>9. buf' \in Seq(L)
  BY <1>1, <1>7, <1>8, ConcatProperties
<1>10. bufp' \in 0..Len(buf')
  BY <1>2, <1>9, LenProperties
<1>11. filePos' \in 0..Len(file')
  BY <1>1, <1>2, <1>3, <1>4
<1>12. \A s : Fits(H, ns, s)' <=> Fits(H, ns, s)
  BY <1>2 DEF Fits
<1> QED  BY <1>2, <1>9, <1>10, <1>11, <1>12 DEF Stray, L

\* The end of the reading shuffles the /24s.
LEMMA StrayShuffle ==
  ASSUME NEW H, NEW ns, Stray(H, ns), slash24s' \in Reader!Shuffles(slash24s),
         s24_hash' = s24_hash
  PROVE  (slash24s \in Seq(Nat) /\ \A i \in 1..Len(slash24s) : Fits(H, ns, slash24s[i]))'
<1> DEFINE n == Len(slash24s)
<1>1. n \in Nat /\ DOMAIN slash24s = 1..n /\ \A i \in 1..n : slash24s[i] \in Nat
  BY LenProperties, ElementOfSeq DEF Stray
<1>2. PICK p \in Bijection(1..n, 1..n) : slash24s' = [i \in 1..n |-> slash24s[p[i]]]
  BY <1>1, ReaderText DEF Reader!Shuffles
<1>3. \A i \in 1..n : p[i] \in 1..n
  BY <1>2 DEF Bijection, Injection
<1>4. slash24s' \in Seq(Nat) /\ Len(slash24s') = n
      /\ \A i \in 1..n : slash24s'[i] = slash24s[p[i]]
  <2>1. slash24s' \in [1..n -> Nat] /\ \A i \in 1..n : slash24s'[i] = slash24s[p[i]]
    BY <1>1, <1>2, <1>3
  <2> QED  BY <1>1, <2>1, SeqDef
<1>5. ASSUME NEW i \in 1..n PROVE Fits(H, ns, slash24s[p[i]])
  BY <1>3 DEF Stray
<1>6. \A i \in 1..n : /\ \E m \in 1..Len(ns) : ns[m] = slash24s'[i]
                      /\ slash24s'[i] \in DOMAIN s24_hash'
                      /\ s24_hash'[slash24s'[i]].hosts \subseteq HostsOf(H, slash24s'[i])
  <2> SUFFICES ASSUME NEW i \in 1..n
               PROVE  /\ \E m \in 1..Len(ns) : ns[m] = slash24s'[i]
                      /\ slash24s'[i] \in DOMAIN s24_hash'
                      /\ s24_hash'[slash24s'[i]].hosts \subseteq HostsOf(H, slash24s'[i])
    OBVIOUS
  <2>1. slash24s'[i] = slash24s[p[i]] /\ Fits(H, ns, slash24s[p[i]])
    BY <1>4, <1>5
  <2> QED  BY <2>1 DEF Fits
<1> QED  BY <1>4, <1>6 DEF Fits

\* What a scan of one byte keeps, and what is copied.
LEMMA StrayScan ==
  ASSUME NEW H, NEW ns, Stray(H, ns), bufp < Len(buf), bufp' = bufp + 1,
         UNCHANGED <<file, filePos, buf>>,
         js' \in {js, <<>>, Append(js, Reader!Byte)}
  PROVE  (/\ buf \in Seq(Listed(H, ns)) /\ bufp \in 0..Len(buf) /\ filePos \in 0..Len(file)
          /\ js \in Seq(Listed(H, ns)))'
<1>1. Reader!Byte \in Listed(H, ns) /\ bufp + 1 \in 0..Len(buf)
  BY ByteListed
<1>2. js \in Seq(Listed(H, ns)) /\ <<>> \in Seq(Listed(H, ns))
  BY DEF Stray
<1>3. Append(js, Reader!Byte) \in Seq(Listed(H, ns))
  BY <1>1, <1>2, AppendProperties
<1> QED  BY <1>1, <1>2, <1>3 DEF Stray

\* The /24s stay.
LEMMA StraySame ==
  ASSUME NEW H, NEW ns, Stray(H, ns), UNCHANGED <<slash24s, s24_hash>>
  PROVE  (slash24s \in Seq(Nat) /\ \A i \in 1..Len(slash24s) : Fits(H, ns, slash24s[i]))'
  BY DEF Stray, Fits

\* A /24 is added, maybe again.
LEMMA StrayAdds ==
  ASSUME NEW H, NEW text, NEW ps, NEW ns, IsList(H, text, ps, ns), Stray(H, ns),
         Reader!AddSlash24
  PROVE  (slash24s \in Seq(Nat) /\ \A i \in 1..Len(slash24s) : Fits(H, ns, slash24s[i]))'
<1> DEFINE n == Reader!Network
           own == {ip % 256 : ip \in Reader!Range(Reader!HostIps)}
           entry == [hosts |-> own,
                     aeb   |-> Reader!Last(Reader!Values(Reader!Json, "avg_resp_rate")),
                     md    |-> Reader!Kept(Reader!FlattenSeq(Reader!Values(Reader!Json, "meta")))]
<1>1. Reader!IsMember /\ Reader!HostsBelong /\ bufp < Len(buf)
  BY Zenon DEF Reader!AddSlash24, Reader!ObjectEnds, Reader!Scans
<1>2. Reader!Byte.kind \in Fields
  <2>1. Reader!Byte.kind = "}"
    BY Zenon DEF Reader!AddSlash24, Reader!ObjectEnds
  <2>2. "}" \in Fields
    BY DEF Fields, Kinds
  <2> QED  BY <2>1, <2>2, Zenon
<1>3. Reader!Byte \in Listed(H, ns) /\ js \in Seq(Listed(H, ns))
  BY <1>1, ByteListed DEF Stray
<1>4. n \in Nat /\ (\E m \in 1..Len(ns) : ns[m] = n) /\ own \subseteq HostsOf(H, n)
  BY <1>1, <1>2, <1>3, HostsAreOwn
<1>5. slash24s' = Append(slash24s, n)
  BY Zenon DEF Reader!AddSlash24
<1>6. s24_hash' = [x \in {n} \cup DOMAIN s24_hash |-> IF x = n THEN entry ELSE s24_hash[x]]
  BY Zenon DEF Reader!AddSlash24
<1>7. entry.hosts = own
  OBVIOUS
<1> HIDE DEF n, own, entry
<1>8. slash24s \in Seq(Nat) /\ Len(slash24s) \in Nat
  BY LenProperties DEF Stray
<1>9. /\ slash24s' \in Seq(Nat) /\ Len(slash24s') = Len(slash24s) + 1
      /\ \A i \in 1..Len(slash24s) : slash24s'[i] = slash24s[i]
      /\ slash24s'[Len(slash24s) + 1] = n
  BY <1>4, <1>5, <1>8, AppendProperties
<1>10. \A i \in 1..Len(slash24s') : /\ \E m \in 1..Len(ns) : ns[m] = slash24s'[i]
                                   /\ slash24s'[i] \in DOMAIN s24_hash'
                                   /\ s24_hash'[slash24s'[i]].hosts \subseteq HostsOf(H, slash24s'[i])
  <2> SUFFICES ASSUME NEW i \in 1..Len(slash24s')
               PROVE  /\ \E m \in 1..Len(ns) : ns[m] = slash24s'[i]
                      /\ slash24s'[i] \in DOMAIN s24_hash'
                      /\ s24_hash'[slash24s'[i]].hosts \subseteq HostsOf(H, slash24s'[i])
    OBVIOUS
  <2>1. CASE slash24s'[i] = n
    BY <1>4, <1>6, <1>7, <2>1
  <2>2. CASE slash24s'[i] # n
    <3>1. i \in 1..Len(slash24s)
      BY <1>8, <1>9, <2>2
    <3>2. slash24s'[i] = slash24s[i] /\ Fits(H, ns, slash24s[i])
      BY <1>9, <3>1 DEF Stray
    <3> QED  BY <1>6, <2>2, <3>2 DEF Fits
  <2> QED  BY <2>1, <2>2
<1> QED  BY <1>9, <1>10 DEF Fits

\* A step of the reader keeps all of that.
LEMMA StrayStep ==
  ASSUME NEW H, NEW ps, NEW ns, IsList(H, file, ps, ns), Stray(H, ns), Reader!Step
  PROVE  Stray(H, ns)'
<1>1. CASE Reader!ReadBuffer
  BY <1>1, StrayRefill
<1>2. CASE Reader!FileEnds \/ Reader!ReadFails
  <2>1. /\ UNCHANGED <<file, filePos, buf, bufp, js, s24_hash>>
        /\ slash24s' \in Reader!Shuffles(slash24s)
    BY <1>2, Zenon DEF Reader!FileEnds, Reader!ReadFails, Reader!Done, Reader!fileVars
  <2>2. (slash24s \in Seq(Nat) /\ \A i \in 1..Len(slash24s) : Fits(H, ns, slash24s[i]))'
    BY <2>1, StrayShuffle
  <2> QED  BY <2>1, <2>2 DEF Stray
<1>3. CASE \/ Reader!SkipByte \/ Reader!OuterOpen \/ Reader!CopyByte \/ Reader!CopyOpen
           \/ Reader!CopyClose \/ Reader!AssertionFails
  <2>1. /\ bufp < Len(buf) /\ bufp' = bufp + 1 /\ UNCHANGED <<file, filePos, buf>>
        /\ UNCHANGED <<slash24s, s24_hash>>
        /\ js' \in {js, <<>>, Append(js, Reader!Byte)}
    BY <1>3, Zenon DEF Reader!SkipByte, Reader!OuterOpen, Reader!CopyByte, Reader!CopyOpen,
       Reader!CopyClose, Reader!AssertionFails, Reader!ObjectEnds, Reader!Scans,
       Reader!fileVars, Reader!listVars
  <2> QED  BY <2>1, StrayScan, StraySame DEF Stray
<1>4. CASE Reader!ListEnds
  <2>1. /\ bufp < Len(buf) /\ bufp' = bufp + 1 /\ UNCHANGED <<file, filePos, buf, s24_hash>>
        /\ slash24s' \in Reader!Shuffles(slash24s)
        /\ js' \in {js, <<>>, Append(js, Reader!Byte)}
    BY <1>4, Zenon DEF Reader!ListEnds, Reader!Done, Reader!Scans, Reader!fileVars
  <2> QED  BY <2>1, StrayScan, StrayShuffle DEF Stray
<1>5. CASE Reader!AddSlash24
  <2>1. /\ bufp < Len(buf) /\ bufp' = bufp + 1 /\ UNCHANGED <<file, filePos, buf>>
        /\ js' \in {js, <<>>, Append(js, Reader!Byte)}
    BY <1>5, Zenon DEF Reader!AddSlash24, Reader!ObjectEnds, Reader!Scans, Reader!fileVars
  <2> QED  BY <1>5, <2>1, StrayScan, StrayAdds DEF Stray
<1>6. CASE Reader!InvalidObject
  <2>1. /\ bufp < Len(buf) /\ bufp' = bufp + 1 /\ UNCHANGED <<file, filePos, buf>>
        /\ slash24s' = <<>>
        /\ js' \in {js, <<>>, Append(js, Reader!Byte)}
    BY <1>6, Zenon DEF Reader!InvalidObject, Reader!ObjectEnds, Reader!Scans, Reader!fileVars
  <2>2. slash24s' \in Seq(Nat) /\ 1..Len(slash24s') = {}
    BY <2>1
  <2> QED  BY <2>1, <2>2, StrayScan DEF Stray
<1> QED  BY <1>1, <1>2, <1>3, <1>4, <1>5, <1>6, Zenon DEF Reader!Step

\* A prober opens a list, with anything in the memory of the buffer.
LEMMA StrayOpens ==
  ASSUME DealInv, OpensFile
  PROVE  StrayInv'
<1> SUFFICES ASSUME Ended'
             PROVE  \E H, ps, ns : H = history' /\ IsList(H, file', ps, ns) /\ Stray(H, ns)'
  BY DEF StrayInv
<1>1. PICK text \in Range(outfiles) \cup HandWritten : Reader!Create(text)
  BY DEF OpensFile
<1>2. phase' = phase /\ history' = history /\ outfiles' = outfiles
  BY DEF OpensFile, genVars
<1>3. /\ file' = text /\ filePos' = 0 /\ js' = <<>> /\ slash24s' = <<>>
  BY <1>1 DEF Reader!Create
<1>4. phase = "done" /\ text \in Range(outfiles)
  BY <1>2, <1>3 DEF Ended
<1>5. PICK f \in DOMAIN outfiles : outfiles[f] = text
  BY <1>4 DEF Range
<1>6. PICK H, ps, ns : H = history /\ IsList(H, text, ps, ns)
  BY <1>4, <1>5, FileIsList
<1>7. PICK n \in BufSizes, g \in Reader!Garbage : buf' = [i \in 1..n |-> g] /\ bufp' = n
  BY <1>1 DEF Reader!Create
<1>8. n \in Nat \ {0}
  BY ProbelistFileAssumption DEF Reader!ReaderConstants
<1>9. g \in Listed(H, ns)
  <2>1. Reader!Garbage = {Open, Close, Token("host_ip", 0)}
    BY DEF Reader!Garbage, Reader!Open, Reader!Close, Reader!Token, Open, Close, Token
  <2> QED  BY <2>1, ListedTokens
<1>10. buf' \in Seq(Listed(H, ns)) /\ Len(buf') = n
  <2>1. buf' \in [1..n -> Listed(H, ns)]
    BY <1>7, <1>9
  <2>2. buf' \in Seq(Listed(H, ns))
    BY <1>8, <2>1, SeqDef
  <2> QED  BY <1>8, <2>1, <2>2, LenProperties
<1>11. Len(file') \in Nat
  BY <1>3, <1>6, FileListed
<1>12. Stray(H, ns)'
  <2>1. /\ bufp' \in 0..Len(buf') /\ filePos' \in 0..Len(file')
    BY <1>3, <1>7, <1>8, <1>10, <1>11
  <2>2. /\ js' \in Seq(Listed(H, ns)) /\ slash24s' \in Seq(Nat) /\ 1..Len(slash24s') = {}
    BY <1>3
  <2> QED  BY <1>10, <2>1, <2>2 DEF Stray
<1> QED  BY <1>2, <1>3, <1>6, <1>12

\* Every step keeps it.
LEMMA StrayInvStep == FileInv /\ StrayInv /\ [Next]_vars => StrayInv'
<1> SUFFICES ASSUME FileInv, StrayInv, [Next]_vars PROVE StrayInv'
  OBVIOUS
<1>1. CASE Generates
  <2>1. phase \in {"reading", "stopped"}
    BY <1>1 DEF Generates, Gen!Next, Gen!SameSlash24, Gen!NextSlash24, Gen!LineComes,
           Gen!BadLine, Gen!Finish
  <2>2. result = "none"
    BY <2>1 DEF FileInv, ReadInv
  <2>3. result' = "none"
    BY <1>1, <2>2 DEF Generates, readerVars
  <2> QED  BY <2>3 DEF StrayInv
<1>2. CASE OpensFile
  BY <1>2, StrayOpens DEF FileInv
<1>3. CASE Reads
  <2>1. Reader!Step /\ phase' = phase /\ history' = history /\ outfiles' = outfiles
    BY <1>3 DEF Reads, genVars
  <2>2. result = "reading" /\ file' = file
    BY <2>1 DEF Reader!Step, Reader!ReadBuffer, Reader!FileEnds, Reader!ReadFails,
       Reader!SkipByte, Reader!OuterOpen, Reader!CopyByte, Reader!CopyOpen,
       Reader!CopyClose, Reader!ListEnds, Reader!AddSlash24, Reader!InvalidObject,
       Reader!AssertionFails, Reader!ObjectEnds, Reader!Scans, Reader!AtBufferEnd,
       Reader!Done, Reader!fileVars
  <2> SUFFICES ASSUME Ended'
               PROVE  \E H, ps, ns : H = history' /\ IsList(H, file', ps, ns) /\ Stray(H, ns)'
    BY DEF StrayInv
  <2>3. Ended
    BY <2>1, <2>2 DEF Ended
  <2>4. PICK H, ps, ns : H = history /\ IsList(H, file, ps, ns) /\ Stray(H, ns)
    BY <2>2, <2>3 DEF StrayInv
  <2>5. Stray(H, ns)'
    BY <2>1, <2>4, StrayStep
  <2> QED  BY <2>1, <2>2, <2>4, <2>5
<1>4. CASE UNCHANGED vars
  <2>1. /\ UNCHANGED <<result, phase, file, outfiles, history>>
        /\ UNCHANGED <<filePos, buf, bufp, js, slash24s, s24_hash>>
    BY <1>4 DEF vars, genVars, readerVars
  <2>2. \A H, ns : Stray(H, ns)' <=> Stray(H, ns)
    BY <2>1 DEF Stray, Fits
  <2>3. Ended' <=> Ended
    BY <2>1 DEF Ended
  <2> QED  BY <2>1, <2>2, <2>3 DEF StrayInv
<1> QED  BY <1>1, <1>2, <1>3, <1>4 DEF Next

\* Whatever the reads return, and whatever bytes of earlier reads are scanned again
\* behind them, a list that the tool has ended gives the prober no /24 that is not in
\* it, and no address that did not answer.
THEOREM NoStrangersAreProbed == Spec => []OnlyListedAddresses
<1>1. FileInv /\ StrayInv => OnlyListedAddresses
  <2> SUFFICES ASSUME FileInv, StrayInv, Ended, NEW i \in DOMAIN slash24s
               PROVE  /\ Contains(Networks(file), slash24s[i])
                      /\ s24_hash[slash24s[i]].hosts
                           \subseteq {l.host : l \in Gen!Answered(slash24s[i])}
    BY DEF OnlyListedAddresses
  <2>1. result # "none"
    <3> SUFFICES ASSUME result = "none" PROVE FALSE
      OBVIOUS
    <3>1. slash24s = <<>>
      BY DEF FileInv, ReadInv
    <3>2. DOMAIN (<<>>) = {}
      OBVIOUS
    <3> QED  BY <3>1, <3>2
  <2>2. PICK H, ps, ns : H = history /\ IsList(H, file, ps, ns) /\ Stray(H, ns)
    BY <2>1 DEF StrayInv
  <2>3. DOMAIN slash24s = 1..Len(slash24s)
    BY <2>2, LenProperties DEF Stray
  <2>4. Fits(H, ns, slash24s[i])
    BY <2>2, <2>3 DEF Stray
  <2>5. Networks(file) = ns
    BY <2>2, NetworksAre
  <2>6. Contains(Networks(file), slash24s[i])
    BY <2>4, <2>5 DEF Fits, Contains
  <2>7. HostsOf(H, slash24s[i]) = {l.host : l \in Gen!Answered(slash24s[i])}
    BY <2>2 DEF HostsOf, Heard, Gen!Answered
  <2> QED  BY <2>4, <2>6, <2>7 DEF Fits
<1>2. Init => StrayInv
  BY DEF Init, Reader!Init, StrayInv
<1>3. Init => FileInv
  BY DealInit, ReadInit DEF FileInv
<1>4. FileInv /\ [Next]_vars => FileInv'
  BY DealStep, ReadStep DEF FileInv
<1> QED  BY <1>1, <1>2, <1>3, <1>4, StrayInvStep, PTL DEF Spec

=============================================================================

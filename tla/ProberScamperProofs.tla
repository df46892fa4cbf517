------------------------ MODULE ProberScamperProofs ------------------------
(***************************************************************************)
(* Proofs about module ProberScamper, for every value of the parameters:   *)
(* the composed system is a prober, and its driver needs no more room than *)
(* the prober's allowance.                                                 *)
(***************************************************************************)
EXTENDS ProberScamper, ProberProofs

-----------------------------------------------------------------------------
(* The prober in the composed system                                         *)

LEMMA ScamperStepIsStep == [ScamperNext]_allVars => [Next]_vars
<1> SUFFICES ASSUME [ScamperNext]_allVars PROVE [Next]_vars
  OBVIOUS
<1>1. CASE Timer
  BY <1>1 DEF Timer, Next
<1>2. ASSUME NEW s \in Slash24s, Answer(s) PROVE [Next]_vars
  BY <1>2 DEF Answer, Next
<1>3. CASE Stop
  BY <1>3 DEF Stop, Next
<1>4. CASE SendBatch
  BY <1>4 DEF SendBatch
<1>5. CASE UNCHANGED allVars
  BY <1>5 DEF allVars
<1> QED  BY <1>1, <1>2, <1>3, <1>4, <1>5 DEF ScamperNext

\* With a driver that waits for a full batch, the event loop does nothing that it
\* would not do with any other: what is proved of Prober holds here.
THEOREM ScamperImplementsProber == ScamperSpec => Spec
<1>1. ScamperInit => Init
  BY DEF ScamperInit
<1> QED  BY <1>1, ScamperStepIsStep, PTL DEF ScamperSpec, Spec

\* The types of the composed system.
THEOREM ScamperTypeCorrect == ScamperSpec => []TypeOK
  BY ScamperImplementsProber, TypeCorrect, PTL

-----------------------------------------------------------------------------
(* Requests in the queue                                                     *)

\* The places of the queue where a /24 waits.
Waiting(q, s) == {i \in DOMAIN q : q[i] = s}

LEMMA WaitingIsFinite ==
  \A q \in Seq(Slash24s) : \A s : /\ IsFiniteSet(Waiting(q, s))
                                  /\ Cardinality(Waiting(q, s)) \in Nat
<1> SUFFICES ASSUME NEW q \in Seq(Slash24s), NEW s
             PROVE  IsFiniteSet(Waiting(q, s)) /\ Cardinality(Waiting(q, s)) \in Nat
  OBVIOUS
<1>1. 1 \in Int /\ Len(q) \in Int /\ DOMAIN q = 1..Len(q)
  BY LenProperties
<1>2. IsFiniteSet(1..Len(q))
  BY <1>1, FS_Interval
<1>3. Waiting(q, s) \in SUBSET (1..Len(q))
  BY <1>1 DEF Waiting
<1> QED  BY <1>2, <1>3, FS_Subset, FS_CardinalityType

\* A request is queued.
LEMMA WaitingAfterAppend ==
  ASSUME NEW q \in Seq(Slash24s), NEW s \in Slash24s
  PROVE  /\ Append(q, s) \in Seq(Slash24s)
         /\ Cardinality(Waiting(Append(q, s), s)) = Cardinality(Waiting(q, s)) + 1
         /\ \A p \in Slash24s : p # s => Waiting(Append(q, s), p) = Waiting(q, p)
<1> DEFINE n == Len(q)
           new == Append(q, s)
<1>1. /\ n \in Nat /\ DOMAIN q = 1..n
      /\ new \in Seq(Slash24s) /\ DOMAIN new = 1..(n + 1)
      /\ \A i \in 1..n : new[i] = q[i]
      /\ new[n + 1] = s
  BY LenProperties, AppendProperties
<1>2. 1..(n + 1) = (1..n) \cup {n + 1} /\ n + 1 \notin 1..n
  BY <1>1
<1> HIDE DEF n, new
<1>3. Waiting(new, s) = Waiting(q, s) \cup {n + 1} /\ n + 1 \notin Waiting(q, s)
  BY <1>1, <1>2 DEF Waiting
<1>4. \A p \in Slash24s : p # s => Waiting(new, p) = Waiting(q, p)
  BY <1>1, <1>2 DEF Waiting
<1>5. Cardinality(Waiting(new, s)) = Cardinality(Waiting(q, s)) + 1
  BY <1>3, WaitingIsFinite, FS_AddElement
<1> QED  BY <1>1, <1>4, <1>5 DEF new

\* The requests of a slice are queued, one for each /24.
LEMMA WaitingAfterSlice ==
  ASSUME NEW q \in Seq(Slash24s), NEW l \in Lists,
         NEW from \in 0..Len(l), NEW to \in from..Len(l), NEW s \in Slash24s
  PROVE  LET new == q \o SubSeq(l, from + 1, to) IN
         /\ new \in Seq(Slash24s)
         /\ Cardinality(Waiting(new, s))
              = IF s \in {l[i] : i \in (from + 1)..to} THEN Cardinality(Waiting(q, s)) + 1
                                                       ELSE Cardinality(Waiting(q, s))
<1> DEFINE n == Len(q)
           slice == SubSeq(l, from + 1, to)
           new == q \o slice
           asked == {l[i] : i \in (from + 1)..to}
<1>1. /\ l \in Seq(Slash24s) /\ Len(l) \in Nat /\ DOMAIN l = 1..Len(l)
      /\ \A i, j \in DOMAIN l : l[i] = l[j] => i = j
      /\ n \in Nat /\ DOMAIN q = 1..n
  BY ConstantsAssumption, LenProperties
<1>2. from \in Nat /\ to \in Nat /\ from <= to /\ to <= Len(l)
  BY <1>1
<1>3. /\ slice \in Seq(Slash24s) /\ Len(slice) = to - from
      /\ \A i \in 1..(to - from) : slice[i] = l[from + i]
  <2>1. from + 1 \in Int /\ to \in Int /\ \A i \in (from + 1)..to : l[i] \in Slash24s
    BY <1>1, <1>2
  <2>2. /\ slice \in Seq(Slash24s)
        /\ Len(slice) = IF from + 1 <= to THEN to - (from + 1) + 1 ELSE 0
        /\ \A i \in 1..(to - (from + 1) + 1) : slice[i] = l[i + (from + 1) - 1]
    BY <2>1, SubSeqProperties
  <2> HIDE DEF slice
  <2>3. Len(slice) = to - from
    BY <1>2, <2>2
  <2>4. ASSUME NEW i \in 1..(to - from) PROVE slice[i] = l[from + i]
    <3>1. to - (from + 1) + 1 = to - from /\ i + (from + 1) - 1 = from + i
      BY <1>2
    <3> QED  BY <2>2, <3>1
  <2> QED  BY <2>2, <2>3, <2>4
<1>4. /\ new \in Seq(Slash24s) /\ DOMAIN new = 1..(n + (to - from))
      /\ \A i \in 1..n : new[i] = q[i]
      /\ \A i \in 1..(to - from) : new[n + i] = l[from + i]
  <2> HIDE DEF slice
  <2>1. /\ new \in Seq(Slash24s) /\ Len(new) = Len(q) + Len(slice)
        /\ \A i \in 1..(Len(q) + Len(slice)) :
             new[i] = IF i <= Len(q) THEN q[i] ELSE slice[i - Len(q)]
    BY <1>3, ConcatProperties
  <2>2. /\ Len(new) = n + (to - from)
        /\ \A i \in 1..(n + (to - from)) : new[i] = IF i <= n THEN q[i] ELSE slice[i - n]
    BY <1>3, <2>1
  <2> HIDE DEF new, n
  <2>3. ASSUME NEW i \in 1..(to - from) PROVE new[n + i] = l[from + i]
    <3>1. n + i \in 1..(n + (to - from)) /\ ~(n + i <= n) /\ (n + i) - n = i
      BY <1>1, <1>2
    <3> QED  BY <1>3, <2>2, <3>1
  <2>4. \A i \in 1..n : new[i] = q[i]
    BY <1>1, <1>2, <2>2
  <2> QED  BY <2>1, <2>2, <2>3, <2>4, LenProperties
<1> DEFINE k == to - from
<1>0. /\ k \in Nat /\ DOMAIN new = 1..(n + k)
      /\ \A i \in 1..k : new[n + i] = l[from + i]
      /\ \A i \in DOMAIN q : i \in DOMAIN new /\ new[i] = q[i]
      /\ \A i \in (from + 1)..to : i - from \in 1..k /\ from + (i - from) = i /\ i \in DOMAIN l
  <2> HIDE DEF new, n
  <2> QED  BY <1>1, <1>2, <1>4
<1> HIDE DEF new, slice, n, k
\* A place that was not in the queue before is one of the slice's.
<1>7. ASSUME NEW j \in DOMAIN new, j \notin DOMAIN q
      PROVE  /\ j - n \in 1..k /\ n + (j - n) = j
             /\ from + (j - n) \in (from + 1)..to /\ new[j] = l[from + (j - n)]
  <2>1. j \in Int /\ n \in Nat /\ 1 <= j /\ j <= n + k /\ ~(j <= n)
    BY <1>0, <1>1, <1>7
  <2>2. j - n \in 1..k /\ n + (j - n) = j
    BY <1>0, <2>1
  <2>3. from + (j - n) \in (from + 1)..to
    BY <1>2, <2>2 DEF k
  <2> QED  BY <1>0, <2>2, <2>3
<1>5. CASE s \in asked
  <2>1. PICK i \in (from + 1)..to : s = l[i]
    BY <1>5
  <2>2. PICK h \in Int : h = n + (i - from)
    BY <1>1, <1>2
  <2>3. h \in DOMAIN new /\ h \notin DOMAIN q /\ new[h] = s
    <3>1. i - from \in 1..k /\ new[n + (i - from)] = l[i]
      BY <1>0
    <3>2. n + (i - from) \in 1..(n + k) /\ n + (i - from) \notin 1..n
      BY <1>0, <1>1, <3>1
    <3> QED  BY <1>0, <1>1, <2>1, <2>2, <3>1, <3>2
  <2>4. ASSUME NEW j \in DOMAIN new, new[j] = s, j \notin DOMAIN q PROVE j = h
    <3>1. /\ j - n \in 1..k /\ n + (j - n) = j /\ from + (j - n) \in DOMAIN l
          /\ l[from + (j - n)] = l[i] /\ i \in DOMAIN l
      BY <1>0, <1>7, <2>1, <2>4
    <3>2. from + (j - n) = i
      BY <1>1, <3>1
    <3> QED  BY <1>1, <1>2, <2>2, <3>1, <3>2
  <2>5. Waiting(new, s) = Waiting(q, s) \cup {h} /\ h \notin Waiting(q, s)
    BY <1>0, <2>3, <2>4 DEF Waiting
  <2>6. Cardinality(Waiting(new, s)) = Cardinality(Waiting(q, s)) + 1
    BY <2>5, WaitingIsFinite, FS_AddElement
  <2> QED  BY <1>4, <1>5, <2>6 DEF new, slice
<1>6. CASE s \notin asked
  <2>1. ASSUME NEW j \in DOMAIN new, new[j] = s, j \notin DOMAIN q PROVE FALSE
    BY <1>6, <1>7, <2>1
  <2>2. Waiting(new, s) = Waiting(q, s)
    BY <1>0, <2>1 DEF Waiting
  <2> QED  BY <1>4, <1>6, <2>2 DEF new, slice
<1> QED  BY <1>5, <1>6

\* A batch leaves the queue.
LEMMA WaitingAfterBatch ==
  ASSUME NEW q \in Seq(Slash24s), NEW n \in 0..Len(q), NEW s \in Slash24s
  PROVE  LET new == SubSeq(q, n + 1, Len(q)) IN
         /\ new \in Seq(Slash24s)
         /\ Cardinality(Waiting(new, s)) <= Cardinality(Waiting(q, s))
<1> DEFINE len == Len(q)
           new == SubSeq(q, n + 1, len)
<1>1. len \in Nat /\ DOMAIN q = 1..len /\ n \in Nat /\ n <= len
  BY LenProperties
<1>2. /\ new \in Seq(Slash24s) /\ DOMAIN new = 1..(len - n)
      /\ \A i \in 1..(len - n) : new[i] = q[n + i]
  <2>1. n + 1 \in Int /\ len \in Int /\ \A i \in (n + 1)..len : q[i] \in Slash24s
    BY <1>1
  <2>2. /\ new \in Seq(Slash24s)
        /\ Len(new) = IF n + 1 <= len THEN len - (n + 1) + 1 ELSE 0
        /\ \A i \in 1..(len - (n + 1) + 1) : new[i] = q[i + (n + 1) - 1]
    BY <2>1, SubSeqProperties
  <2> HIDE DEF new, len
  <2>3. Len(new) = len - n
    BY <1>1, <2>2
  <2>4. ASSUME NEW i \in 1..(len - n) PROVE new[i] = q[n + i]
    <3>1. len - (n + 1) + 1 = len - n /\ i + (n + 1) - 1 = n + i
      BY <1>1
    <3> QED  BY <2>2, <3>1
  <2> QED  BY <2>2, <2>3, <2>4, LenProperties
<1> DEFINE shift == [i \in Waiting(new, s) |-> n + i]
<1>3. shift \in Injection(Waiting(new, s), Waiting(q, s))
  <2> HIDE DEF new, len
  <2>1. shift \in [Waiting(new, s) -> Waiting(q, s)]
    BY <1>1, <1>2 DEF Waiting
  <2>2. \A a, b \in Waiting(new, s) : shift[a] = shift[b] => a = b
    BY <1>1, <1>2 DEF Waiting
  <2> HIDE DEF shift
  <2> QED  BY <2>1, <2>2, Fun_IsInj
<1>4. Cardinality(Waiting(new, s)) <= Cardinality(Waiting(q, s))
  <2> HIDE DEF shift, new
  <2> QED  BY <1>3, WaitingIsFinite, FS_Injection
<1> QED  BY <1>2, <1>4

\* A queue in which no /24 waits more often than f says is no longer than f's
\* probes are many: number the requests of each /24.
LEMMA QueueIsCounted ==
  ASSUME NEW q \in Seq(Slash24s), NEW f \in [Slash24s -> Nat],
         \A s \in Slash24s : Cardinality(Waiting(q, s)) <= f[s]
  PROVE  Len(q) <= Total(f)
<1> DEFINE places == 1..Len(q)
           upTo(i) == {j \in 1..i : q[j] = q[i]}
           number == [i \in places |-> <<q[i], Cardinality(upTo(i))>>]
<1>1. Len(q) \in Nat /\ DOMAIN q = places /\ \A i \in places : q[i] \in Slash24s
  BY LenProperties
<1>2. ASSUME NEW i \in places
      PROVE  /\ IsFiniteSet(upTo(i)) /\ Cardinality(upTo(i)) \in 1..f[q[i]]
  <2>1. upTo(i) \in SUBSET Waiting(q, q[i]) /\ i \in upTo(i)
    BY <1>1 DEF Waiting
  <2>2. /\ IsFiniteSet(upTo(i)) /\ Cardinality(upTo(i)) \in Nat
        /\ Cardinality(upTo(i)) <= Cardinality(Waiting(q, q[i]))
        /\ Cardinality(upTo(i)) # 0
    <3> HIDE DEF upTo
    <3> QED  BY <2>1, WaitingIsFinite, FS_Subset, FS_CardinalityType, FS_EmptySet
  <2>3. Cardinality(Waiting(q, q[i])) \in Nat /\ f[q[i]] \in Nat
    BY <1>1, WaitingIsFinite
  <2>4. Cardinality(Waiting(q, q[i])) <= f[q[i]]
    BY <1>1
  <2> HIDE DEF upTo
  <2> QED  BY <2>2, <2>3, <2>4
<1>3. ASSUME NEW i \in places, NEW j \in places, q[i] = q[j], i < j
      PROVE  Cardinality(upTo(i)) # Cardinality(upTo(j))
  <2>1. upTo(i) \in SUBSET upTo(j) /\ j \in upTo(j) /\ j \notin upTo(i)
    BY <1>1, <1>3
  <2> HIDE DEF upTo
  <2> QED  BY <1>2, <2>1, FS_Subset
<1>4. number \in Injection(places, ProbesOf(f))
  <2>1. number \in [places -> ProbesOf(f)]
    <3>1. ASSUME NEW i \in places PROVE number[i] \in ProbesOf(f)
      <4>1. q[i] \in Slash24s /\ Cardinality(upTo(i)) \in 1..f[q[i]]
        BY <1>1, <1>2
      <4>2. number[i] = <<q[i], Cardinality(upTo(i))>>
        OBVIOUS
      <4> HIDE DEF number, upTo
      <4> QED  BY <4>1, <4>2 DEF ProbesOf
    <3> HIDE DEF upTo
    <3> QED  BY <3>1
  <2>2. ASSUME NEW i \in places, NEW j \in places, number[i] = number[j] PROVE i = j
    <3>1. q[i] = q[j] /\ Cardinality(upTo(i)) = Cardinality(upTo(j))
      <4> HIDE DEF upTo
      <4> QED  BY <2>2
    <3>2. i \in Int /\ j \in Int
      BY <1>1
    <3> HIDE DEF upTo, number, places
    <3>3. ~(i < j) /\ ~(j < i)
      BY <1>3, <3>1
    <3> QED  BY <3>2, <3>3
  <2> HIDE DEF number, places
  <2> QED  BY <2>1, <2>2, Fun_IsInj
<1>5. Cardinality(places) <= Cardinality(ProbesOf(f))
  <2> HIDE DEF number, places
  <2> QED  BY <1>4, ProbesAreFinite, FS_Injection
<1>6. Cardinality(places) = Len(q)
  BY <1>1, FS_Interval
<1> QED  BY <1>5, <1>6 DEF Total

-----------------------------------------------------------------------------
(* The queue of the driver                                                   *)

\* What is queued is in flight, as many times as it is queued.  In the composed
\* system no reload is under way, so one slice size holds for ever, and what is
\* outstanding stays within what the prober allows.
QueueOK ==
  /\ queue \in Seq(Slash24s)
  /\ \A s \in Slash24s : Cardinality(Waiting(queue, s)) <= inflight[s]
  /\ reload = NoReload
  /\ outstanding <= sliceSize * SkipFactor + sliceSize

LEMMA NothingToAdopt ==
  ASSUME reload = NoReload
  PROVE  AfterScheduling = {NoReload} /\ ~Adopts(NoReload)
  BY NoReloadFacts DEF AfterScheduling, Adopts

\* What the timer queues: the places (from + 1)..to of the list, one probe each.
TimerAdds(from, to) ==
  /\ iter' = to /\ outstanding' = outstanding + (to - from)
  /\ inflight' = [s \in Slash24s |-> IF s \in {list[i] : i \in (from + 1)..to}
                                     THEN inflight[s] + 1 ELSE inflight[s]]

\* No /24 is added.
LEMMA TimerAddsNothing ==
  ASSUME RestOK, NEW to \in 0..Len(list), iter' = to,
         outstanding' = outstanding, inflight' = inflight
  PROVE  TimerAdds(to, to)
<1>1. to \in Nat
  BY ListLength DEF RestOK
<1>2. (to + 1)..to = {}
  BY <1>1
<1>3. {list[i] : i \in (to + 1)..to} = {}
  BY <1>2
<1>4. outstanding' = outstanding + (to - to)
  BY <1>1 DEF RestOK
<1>5. inflight' = [s \in Slash24s |-> inflight[s]]
  BY DEF RestOK
<1> QED  BY <1>3, <1>4, <1>5 DEF TimerAdds

LEMMA SliceAdds ==
  ASSUME RestOK, NEW from \in 0..Len(list), NEW size \in Nat,
         NEW st, NEW before, QueueSlice(list, from, size, st, before)
  PROVE  \E f \in 0..Len(list) : \E to \in f..Len(list) : TimerAdds(f, to)
<1>1. list \in Seq(Slash24s) /\ Len(list) \in Nat /\ DOMAIN list = 1..Len(list)
  BY ConstantsAssumption, LenProperties DEF RestOK
<1>2. CASE Backlogged(size)
  <2>1. outstanding' = outstanding /\ inflight' = inflight /\ iter' = from
    BY <1>2 DEF QueueSlice, Reached
  <2>2. TimerAdds(from, from)
    BY <2>1, TimerAddsNothing
  <2>3. from \in from..Len(list)
    BY <1>1
  <2> QED  BY <2>2, <2>3
<1>3. CASE ~Backlogged(size)
  <2> DEFINE to == SliceEnd(list, from, size)
  <2>1. to \in from..Len(list)
    BY <1>1 DEF SliceEnd
  <2>2. ((from + 1)..(from + size)) \cap DOMAIN list = (from + 1)..to
    BY <1>1 DEF SliceEnd
  <2>3. /\ iter' = to /\ outstanding' = outstanding + to - from
        /\ inflight' = [s \in Slash24s |-> IF s \in {list[i] : i \in (from + 1)..to}
                                           THEN inflight[s] + 1 ELSE inflight[s]]
    BY <1>3, <2>2 DEF QueueSlice, Reached
  <2> HIDE DEF to
  <2>4. outstanding + to - from = outstanding + (to - from)
    BY <1>1, <2>1 DEF RestOK
  <2>5. TimerAdds(from, to)
    BY <2>3, <2>4 DEF TimerAdds
  <2> QED  BY <2>1, <2>5
<1> QED  BY <1>2, <1>3

LEMMA TimerFacts ==
  ASSUME IInv, reload = NoReload, HandleTimer
  PROVE  /\ list' = list /\ sliceSize' = sliceSize /\ reload' = NoReload
         /\ \E from \in 0..Len(list) : \E to \in from..Len(list) : TimerAdds(from, to)
<1>0. /\ RestOK /\ iter \in 0..Len(list) /\ sliceSize \in Nat
      /\ 0 \in 0..Len(list)
  BY IInvByState, ListLength DEF RestOK
<1>1. CASE TimerMidRound
  <2>1. /\ QueueSlice(list, iter, sliceSize, state, skipped)
        /\ list' = list /\ sliceSize' = sliceSize /\ reload' = NoReload
    BY <1>1, NothingToAdopt DEF TimerMidRound
  <2> QED  BY <1>0, <2>1, SliceAdds
<1>2. CASE TimerNothingLeft
  <2>1. /\ list' = list /\ sliceSize' = sliceSize /\ reload' = NoReload
        /\ iter' = iter /\ outstanding' = outstanding /\ inflight' = inflight
    BY <1>2, NothingToAdopt DEF TimerNothingLeft
  <2>2. TimerAdds(iter, iter) /\ iter \in iter..Len(list)
    BY <1>0, <2>1, TimerAddsNothing, ListLength DEF RestOK
  <2> QED  BY <1>0, <2>1, <2>2
<1>3. CASE TimerNewRound
  <2>1. /\ SettleList(NoReload)
        /\ QueueSlice(list', 0, sliceSize', StatesAfterSettling(NoReload), FALSE)
    BY <1>3, NothingToAdopt DEF TimerNewRound
  <2>2. list' = list /\ sliceSize' = sliceSize /\ reload' = NoReload
    BY <2>1, NothingToAdopt DEF SettleList
  <2>3. QueueSlice(list, 0, sliceSize, StatesAfterSettling(NoReload), FALSE)
    BY <2>1, <2>2
  <2> QED  BY <1>0, <2>2, <2>3, SliceAdds
<1>4. CASE TimerLimitReached
  <2>1. /\ list' = list /\ sliceSize' = sliceSize /\ reload' = NoReload
        /\ iter' = iter /\ outstanding' = outstanding /\ inflight' = inflight
    BY <1>4, NothingToAdopt DEF TimerLimitReached, SettleList
  <2>2. TimerAdds(iter, iter) /\ iter \in iter..Len(list)
    BY <1>0, <2>1, TimerAddsNothing, ListLength DEF RestOK
  <2> QED  BY <1>0, <2>1, <2>2
<1> QED  BY <1>1, <1>2, <1>3, <1>4 DEF HandleTimer

LEMMA QueueInit == ScamperInit => QueueOK
<1> SUFFICES ASSUME ScamperInit PROVE QueueOK
  OBVIOUS
<1>1. queue = <<>> /\ reload = NoReload /\ outstanding = 0
      /\ inflight = [s \in Slash24s |-> 0]
  BY DEF ScamperInit, Init
<1>2. ASSUME NEW s \in Slash24s PROVE Cardinality(Waiting(queue, s)) <= inflight[s]
  <2>1. Waiting(queue, s) = {}
    BY <1>1 DEF Waiting
  <2> QED  BY <1>1, <2>1, FS_EmptySet
<1>3. outstanding <= sliceSize * SkipFactor + sliceSize
  <2>1. sliceSize \in Nat /\ SkipFactor \in Nat
    BY InitIInv, ConstantsAssumption DEF ScamperInit, IInv, TypeOK
  <2>2. sliceSize * SkipFactor \in Nat
    BY <2>1
  <2> QED  BY <1>1, <2>1, <2>2
<1> QED  BY <1>1, <1>2, <1>3 DEF QueueOK

\* What an answer does to the probes of its /24.
LEMMA AnswerFacts ==
  ASSUME IInv, NEW s \in Slash24s, HandleDriverResp(s)
  PROVE  /\ reload' = reload /\ sliceSize' = sliceSize
         /\ \/ inflight' = inflight
            \/ inflight' = [inflight EXCEPT ![s] = @ - 1]
         /\ \/ outstanding' = outstanding
            \/ outstanding' = outstanding - 1
<1>1. CASE AnswerMissing(s) \/ AnswerIgnored(s)
  BY <1>1 DEF AnswerMissing, AnswerIgnored, roundVars
<1>2. CASE AnswerAdaptive(s) \/ AnswerRecovery(s)
  BY <1>2 DEF AnswerAdaptive, AnswerRecovery, roundVars
<1>3. CASE AnswerOutOfBudget(s) \/ AnswerSettles(s)
  <2>1. \E b : Settle(s, b)
    BY <1>3 DEF AnswerOutOfBudget, AnswerSettles
  <2> QED  BY <2>1 DEF Settle, roundVars
<1> QED  BY <1>1, <1>2, <1>3 DEF HandleDriverResp

LEMMA QueueStep ==
  ASSUME IInv, QueueOK, [ScamperNext]_allVars
  PROVE  QueueOK'
<1>0. /\ RestOK /\ outstanding \in Int /\ sliceSize \in Nat
      /\ list \in Lists /\ inflight \in [Slash24s -> Nat]
      /\ queue \in Seq(Slash24s) /\ reload = NoReload
      /\ sliceSize * SkipFactor \in Nat
      /\ outstanding <= sliceSize * SkipFactor + sliceSize
      /\ \A s \in Slash24s : /\ Cardinality(Waiting(queue, s)) \in Nat
                             /\ Cardinality(Waiting(queue, s)) <= inflight[s]
  BY IInvByState, WaitingIsFinite, ConstantsAssumption DEF RestOK, QueueOK
<1>1. CASE Timer
  <2>1. /\ list' = list /\ sliceSize' = sliceSize /\ reload' = NoReload
        /\ \E from \in 0..Len(list) : \E to \in from..Len(list) : TimerAdds(from, to)
    BY <1>0, <1>1, TimerFacts DEF Timer
  <2>0. PICK from \in 0..Len(list) : \E to \in from..Len(list) : TimerAdds(from, to)
    BY <2>1
  <2>2. PICK to \in from..Len(list) : TimerAdds(from, to)
    BY <2>0
  <2>3. /\ from \in Int /\ to \in Int /\ iter' = to
        /\ outstanding' = outstanding + (to - from)
    BY <1>0, <2>2, ListLength DEF TimerAdds
  <2>4. iter' - (outstanding' - outstanding) + 1 = from + 1
    BY <1>0, <2>3
  <2>5. queue' = queue \o SubSeq(list, from + 1, to)
    BY <1>1, <2>1, <2>3, <2>4 DEF Timer
  <2>6. queue' \in Seq(Slash24s)
    <3>1. list \in Seq(Slash24s) /\ Len(list) \in Nat /\ DOMAIN list = 1..Len(list)
      BY <1>0, ConstantsAssumption, LenProperties
    <3>2. from + 1 \in Int /\ to \in Int /\ \A i \in (from + 1)..to : list[i] \in Slash24s
      BY <2>2, <2>3, <3>1
    <3>3. SubSeq(list, from + 1, to) \in Seq(Slash24s)
      BY <3>2, SubSeqProperties
    <3> QED  BY <1>0, <2>5, <3>3, ConcatProperties
  <2>7. ASSUME NEW s \in Slash24s PROVE Cardinality(Waiting(queue', s)) <= inflight'[s]
    <3> DEFINE asked == {list[i] : i \in (from + 1)..to}
    <3>1. Cardinality(Waiting(queue', s))
            = IF s \in asked THEN Cardinality(Waiting(queue, s)) + 1
                             ELSE Cardinality(Waiting(queue, s))
      BY <1>0, <2>2, <2>5, WaitingAfterSlice
    <3>2. inflight'[s] = IF s \in asked THEN inflight[s] + 1 ELSE inflight[s]
      BY <2>2 DEF TimerAdds
    <3>3. inflight[s] \in Nat
      BY <1>0
    <3> HIDE DEF asked
    <3> QED  BY <1>0, <3>1, <3>2, <3>3
  <2>8. outstanding' <= sliceSize' * SkipFactor + sliceSize'
    <3>1. CASE outstanding' > outstanding
      <4>1. Next
        BY <1>1 DEF Timer, Next
      <4> QED  BY <3>1, <4>1, OnlySlicesAdd
    <3>2. CASE ~(outstanding' > outstanding)
      <4>1. outstanding' <= sliceSize * SkipFactor + sliceSize
        BY <1>0, <2>3, <3>2
      <4> QED  BY <2>1, <4>1
    <3> QED  BY <3>1, <3>2
  <2> QED  BY <2>1, <2>6, <2>7, <2>8 DEF QueueOK, Waiting
<1>2. ASSUME NEW s \in Slash24s, Answer(s) PROVE QueueOK'
  <2>1. /\ reload' = NoReload /\ sliceSize' = sliceSize
        /\ \/ inflight' = inflight
           \/ inflight' = [inflight EXCEPT ![s] = @ - 1]
        /\ \/ outstanding' = outstanding
           \/ outstanding' = outstanding - 1
    BY <1>0, <1>2, AnswerFacts DEF Answer
  <2>2. outstanding' <= sliceSize' * SkipFactor + sliceSize'
    <3>1. outstanding' <= sliceSize * SkipFactor + sliceSize
      BY <1>0, <2>1
    <3> QED  BY <2>1, <3>1
  <2>3. inflight[s] \in Nat /\ Cardinality(Waiting(queue, s)) < inflight[s]
    BY <1>0, <1>2 DEF Answer, WithScamper, Waiting
  <2>4. CASE inflight' = inflight
    <3>1. queue' = Append(queue, s)
      BY <1>2, <2>4 DEF Answer
    <3>2. /\ queue' \in Seq(Slash24s)
          /\ Cardinality(Waiting(queue', s)) = Cardinality(Waiting(queue, s)) + 1
          /\ \A p \in Slash24s : p # s => Waiting(queue', p) = Waiting(queue, p)
      BY <1>0, <3>1, WaitingAfterAppend
    <3>3. Cardinality(Waiting(queue', s)) <= inflight[s]
      BY <1>0, <2>3, <3>2
    <3>4. \A p \in Slash24s : Cardinality(Waiting(queue', p)) <= inflight'[p]
      BY <1>0, <2>4, <3>2, <3>3
    <3> QED  BY <2>1, <2>2, <3>2, <3>4 DEF QueueOK, Waiting
  <2>5. CASE inflight' = [inflight EXCEPT ![s] = @ - 1]
    <3>1. inflight'[s] # inflight[s] /\ inflight'[s] = inflight[s] - 1
      BY <1>0, <2>3, <2>5
    <3>2. queue' = queue
      BY <1>2, <3>1 DEF Answer
    <3>3. ASSUME NEW p \in Slash24s PROVE Cardinality(Waiting(queue', p)) <= inflight'[p]
      <4>1. CASE p = s
        BY <1>0, <2>3, <3>1, <3>2, <4>1
      <4>2. CASE p # s
        <5>1. inflight'[p] = inflight[p]
          BY <1>0, <2>5, <4>2
        <5> QED  BY <1>0, <3>2, <5>1
      <4> QED  BY <4>1, <4>2
    <3> QED  BY <1>0, <2>1, <2>2, <3>2, <3>3 DEF QueueOK, Waiting
  <2> QED  BY <2>1, <2>4, <2>5
<1>3. CASE SendBatch
  <2>1. /\ Batch \in 0..Len(queue)
        /\ queue' = SubSeq(queue, Batch + 1, Len(queue))
        /\ UNCHANGED vars
    BY <1>0, <1>3, BatchAssumption, LenProperties DEF SendBatch
  <2>2. /\ reload' = reload /\ sliceSize' = sliceSize /\ outstanding' = outstanding
        /\ inflight' = inflight
    BY <2>1 DEF vars
  <2>3. queue' \in Seq(Slash24s)
    <3>1. Batch + 1 \in Int /\ Len(queue) \in Int
      BY <1>0, BatchAssumption, LenProperties
    <3>2. \A i \in (Batch + 1)..Len(queue) : queue[i] \in Slash24s
      BY <1>0, <3>1, BatchAssumption, LenProperties
    <3> QED  BY <2>1, <3>1, <3>2, SubSeqProperties
  <2>4. ASSUME NEW s \in Slash24s PROVE Cardinality(Waiting(queue', s)) <= inflight'[s]
    <3>1. Cardinality(Waiting(queue', s)) <= Cardinality(Waiting(queue, s))
      BY <1>0, <2>1, WaitingAfterBatch
    <3>2. Cardinality(Waiting(queue', s)) \in Nat
      BY <2>3, WaitingIsFinite
    <3>3. inflight[s] \in Nat
      BY <1>0
    <3> QED  BY <1>0, <2>2, <3>1, <3>2, <3>3
  <2> QED  BY <1>0, <2>2, <2>3, <2>4 DEF QueueOK, Waiting
<1>4. CASE Stop \/ UNCHANGED allVars
  <2>1. UNCHANGED <<queue, inflight, reload, outstanding, sliceSize>>
    BY <1>4 DEF Stop, RequestStop, CheckShutdown, allVars, vars, roundVars
  <2> QED  BY <2>1 DEF QueueOK, Waiting
<1> QED  BY <1>1, <1>2, <1>3, <1>4 DEF ScamperNext

LEMMA QueueIsWithinAllowance ==
  ASSUME IInv, QueueOK, OutstandingAccounts
  PROVE  QueueWithinAllowance
<1>1. /\ inflight \in [Slash24s -> Nat] /\ lost \in [Slash24s -> Nat] /\ missing \in Nat
      /\ Total(inflight) \in Nat /\ Total(lost) \in Nat
      /\ sliceSize \in Nat /\ SkipFactor \in Nat
      /\ Len(queue) \in Nat
  BY IInvByState, ProbesAreFinite, ConstantsAssumption, LenProperties DEF RestOK, QueueOK
<1>2. Len(queue) <= Total(inflight)
  BY <1>1, QueueIsCounted DEF QueueOK
<1>3. Total(inflight) <= outstanding /\ outstanding \in Int
  BY <1>1 DEF OutstandingAccounts
<1>4. \A size, factor \in Nat : size * (factor + 1) = size * factor + size
                                 /\ size * factor + size \in Int
  OBVIOUS
<1>5. /\ sliceSize * (SkipFactor + 1) = sliceSize * SkipFactor + sliceSize
      /\ sliceSize * SkipFactor + sliceSize \in Int
  BY <1>1, <1>4
<1>6. outstanding <= sliceSize * (SkipFactor + 1)
  BY <1>5 DEF QueueOK
<1> QED  BY <1>1, <1>2, <1>3, <1>5, <1>6 DEF QueueWithinAllowance

\* However slowly scamper takes the commands, the driver's queue never holds more
\* than the prober allows to be outstanding, and one slice: a ring with as much
\* room loses no probe.
THEOREM QueueIsBounded == ScamperSpec => []QueueWithinAllowance
<1>1. IInv /\ [ScamperNext]_allVars => IInv'
  BY StepIInv, ScamperStepIsStep
<1>2. IInv /\ OutstandingAccounts /\ [ScamperNext]_allVars => OutstandingAccounts'
  BY AccountsStep, ScamperStepIsStep
<1>3. ScamperInit => IInv /\ OutstandingAccounts
  BY InitIInv, AccountsInit DEF ScamperInit
<1> QED  BY <1>1, <1>2, <1>3, QueueInit, QueueStep, QueueIsWithinAllowance, PTL
         DEF ScamperSpec

-----------------------------------------------------------------------------
(* Answers to come                                                           *)

\* A queue in which every /24 waits as often as f says is as long as f's probes
\* are many: each of them has a place.
LEMMA QueueHoldsAll ==
  ASSUME NEW q \in Seq(Slash24s), NEW f \in [Slash24s -> Nat],
         \A s \in Slash24s : f[s] <= Cardinality(Waiting(q, s))
  PROVE  Total(f) <= Len(q)
<1> DEFINE numbering == [s \in Slash24s |->
                           CHOOSE b : b \in Bijection(1..Cardinality(Waiting(q, s)),
                                                      Waiting(q, s))]
           place == [p \in ProbesOf(f) |-> numbering[p[1]][p[2]]]
<1>1. Len(q) \in Nat /\ DOMAIN q = 1..Len(q)
  BY LenProperties
<1>2. ASSUME NEW s \in Slash24s
      PROVE  numbering[s] \in Bijection(1..Cardinality(Waiting(q, s)), Waiting(q, s))
  <2>1. ExistsBijection(1..Cardinality(Waiting(q, s)), Waiting(q, s))
    BY WaitingIsFinite, FS_CardinalityType
  <2>2. \E b : b \in Bijection(1..Cardinality(Waiting(q, s)), Waiting(q, s))
    BY <2>1, Zenon DEF ExistsBijection
  <2>3. numbering[s] = CHOOSE b : b \in Bijection(1..Cardinality(Waiting(q, s)),
                                                  Waiting(q, s))
    OBVIOUS
  <2> HIDE DEF numbering
  <2> QED  BY <2>2, <2>3, Zenon
<1>3. ASSUME NEW s \in Slash24s
      PROVE  /\ numbering[s] \in [1..Cardinality(Waiting(q, s)) -> Waiting(q, s)]
             /\ \A a, b \in 1..Cardinality(Waiting(q, s)) :
                  numbering[s][a] = numbering[s][b] => a = b
  <2> HIDE DEF numbering
  <2> QED  BY <1>2 DEF Bijection, Injection, IsInjective
<1>4. ASSUME NEW p \in ProbesOf(f)
      PROVE  /\ p = <<p[1], p[2]>> /\ p[1] \in Slash24s
             /\ p[2] \in 1..Cardinality(Waiting(q, p[1]))
             /\ place[p] \in 1..Len(q) /\ q[place[p]] = p[1]
  <2>1. PICK s \in Slash24s : p \in {s} \X (1..f[s])
    BY DEF ProbesOf
  <2>2. p = <<p[1], p[2]>> /\ p[1] = s /\ p[2] \in 1..f[s]
    BY <2>1
  <2>3. Cardinality(Waiting(q, s)) \in Nat /\ f[s] \in Nat
    BY WaitingIsFinite
  <2>4. p[2] \in 1..Cardinality(Waiting(q, s))
    BY <2>2, <2>3
  <2>5. place[p] = numbering[s][p[2]]
    BY <2>2
  <2> HIDE DEF place, numbering
  <2>6. place[p] \in Waiting(q, s)
    BY <1>3, <2>4, <2>5
  <2> QED  BY <1>1, <2>2, <2>4, <2>6 DEF Waiting
<1>5. ASSUME NEW p \in ProbesOf(f), NEW r \in ProbesOf(f), place[p] = place[r]
      PROVE  p = r
  <2>1. p[1] = r[1]
    <3> HIDE DEF place, numbering
    <3> QED  BY <1>4, <1>5
  <2>2. numbering[p[1]][p[2]] = numbering[p[1]][r[2]]
    BY <1>5, <2>1
  <2> HIDE DEF place, numbering
  <2>3. p[2] = r[2]
    BY <1>3, <1>4, <2>1, <2>2
  <2> QED  BY <1>4, <2>1, <2>3
<1>6. place \in Injection(ProbesOf(f), 1..Len(q))
  <2>1. place \in [ProbesOf(f) -> 1..Len(q)]
    <3>1. place = [p \in ProbesOf(f) |-> place[p]]
      OBVIOUS
    <3> HIDE DEF place, numbering
    <3> QED  BY <1>4, <3>1
  <2> HIDE DEF place, numbering
  <2> QED  BY <1>5, <2>1, Fun_IsInj
<1>7. IsFiniteSet(1..Len(q)) /\ Cardinality(1..Len(q)) = Len(q)
  <2>1. 1 \in Int /\ Len(q) \in Int
    BY <1>1
  <2>2. IsFiniteSet(1..Len(q)) /\ Cardinality(1..Len(q)) = IF 1 > Len(q) THEN 0 ELSE Len(q) - 1 + 1
    BY <2>1, FS_Interval
  <2> QED  BY <1>1, <2>2
<1> HIDE DEF place
<1> QED  BY <1>6, <1>7, FS_Injection DEF Total

\* In the composed system nothing that is outstanding is out of reach: no probe
\* is dropped, and none is in flight for a /24 that is not in the list.
NothingLost ==
  /\ lost = [s \in Slash24s |-> 0] /\ missing = 0
  /\ \A s \in Slash24s : inflight[s] > 0 => s \in Range(list)

LEMMA NothingLostInit == ScamperInit => NothingLost
  BY DEF ScamperInit, Init, NothingLost

LEMMA NothingLostStep ==
  ASSUME IInv, QueueOK, NothingLost, [ScamperNext]_allVars
  PROVE  NothingLost'
<1>0. /\ RestOK /\ reload = NoReload /\ list \in Lists /\ inflight \in [Slash24s -> Nat]
  BY IInvByState DEF RestOK, QueueOK
<1>1. CASE Timer
  <2>1. PICK from \in 0..Len(list) : \E to \in from..Len(list) : TimerAdds(from, to)
    BY <1>0, <1>1, TimerFacts DEF Timer
  <2>2. PICK to \in from..Len(list) : TimerAdds(from, to)
    BY <2>1
  <2>3. list' = list
    BY <1>0, <1>1, TimerFacts DEF Timer
  <2>4. lost' = lost /\ missing' = missing
    BY <1>1 DEF Timer, HandleTimer, TimerMidRound, TimerNothingLeft, TimerNewRound,
                TimerLimitReached, ghostVars
  <2>5. {list[i] : i \in (from + 1)..to} \subseteq Range(list)
    <3>1. list \in Seq(Slash24s) /\ Len(list) \in Nat /\ DOMAIN list = 1..Len(list)
      BY <1>0, ConstantsAssumption, LenProperties
    <3>2. (from + 1)..to \subseteq DOMAIN list
      BY <3>1
    <3> QED  BY <3>2 DEF Range
  <2>6. ASSUME NEW s \in Slash24s, inflight'[s] > 0 PROVE s \in Range(list)
    <3> DEFINE asked == {list[i] : i \in (from + 1)..to}
    <3>1. inflight'[s] = IF s \in asked THEN inflight[s] + 1 ELSE inflight[s]
      BY <2>2 DEF TimerAdds
    <3> HIDE DEF asked
    <3>2. s \notin asked => inflight[s] > 0
      BY <2>6, <3>1
    <3> QED  BY <2>5, <3>2 DEF NothingLost, asked
  <2> QED  BY <2>3, <2>4, <2>6 DEF NothingLost, Range
<1>2. ASSUME NEW s \in Slash24s, Answer(s) PROVE NothingLost'
  <2>1. /\ HandleDriverResp(s) /\ inflight[s] > 0 /\ s \in Range(list)
    <3>1. HandleDriverResp(s)
      BY <1>2 DEF Answer
    <3>2. inflight[s] > 0
      BY <3>1 DEF HandleDriverResp, AnswerMissing, AnswerIgnored, AnswerAdaptive,
                  AnswerOutOfBudget, AnswerRecovery, AnswerSettles, AnswerCounts,
                  AnswerArrives
    <3> QED  BY <3>1, <3>2 DEF NothingLost
  <2>2. ~AnswerMissing(s)
    BY <2>1 DEF AnswerMissing
  <2>3. lost' = lost /\ missing' = missing /\ list' = list
    <3>1. CASE AnswerIgnored(s) \/ AnswerAdaptive(s) \/ AnswerRecovery(s)
      BY <3>1 DEF AnswerIgnored, AnswerAdaptive, AnswerRecovery, roundVars, ghostVars
    <3>2. CASE AnswerOutOfBudget(s) \/ AnswerSettles(s)
      <4>1. \E b : Settle(s, b)
        BY <3>2 DEF AnswerOutOfBudget, AnswerSettles
      <4> QED  BY <4>1 DEF Settle, roundVars, ghostVars
    <3> QED  BY <2>1, <2>2, <3>1, <3>2 DEF HandleDriverResp
  <2>4. ASSUME NEW p \in Slash24s, inflight'[p] > 0 PROVE inflight[p] > 0
    <3>1. inflight' = inflight \/ inflight' = [inflight EXCEPT ![s] = @ - 1]
      BY <2>1, AnswerFacts
    <3> QED  BY <1>0, <2>1, <2>4, <3>1
  <2> QED  BY <2>3, <2>4 DEF NothingLost, Range
<1>3. CASE SendBatch \/ Stop \/ UNCHANGED allVars
  <2>1. UNCHANGED <<lost, missing, list, inflight>>
    BY <1>3 DEF SendBatch, Stop, RequestStop, CheckShutdown, allVars, vars, roundVars,
                ghostVars
  <2> QED  BY <2>1 DEF NothingLost, Range
<1> QED  BY <1>1, <1>2, <1>3 DEF ScamperNext

\* If scamper had nothing, all that is outstanding would wait in the queue, and
\* that is a batch.
LEMMA AnswersAreToCome ==
  ASSUME IInv, QueueOK, NothingLost, OutstandingAccounts
  PROVE  SkipsOnlyWithAnswersToCome
<1> SUFFICES ASSUME Backlogged(sliceSize), Batch <= sliceSize * SkipFactor + 1,
                    \A s \in Slash24s : ~(WithScamper(s) > 0)
             PROVE  Len(queue) >= Batch
  BY DEF SkipsOnlyWithAnswersToCome
<1>1. /\ inflight \in [Slash24s -> Nat] /\ outstanding \in Int
      /\ Total(inflight) \in Nat
      /\ queue \in Seq(Slash24s) /\ Len(queue) \in Nat
      /\ Batch \in Nat
  BY IInvByState, ProbesAreFinite, BatchAssumption, LenProperties DEF RestOK, QueueOK
<1>2. sliceSize * SkipFactor \in Nat
  <2>1. sliceSize \in Nat /\ SkipFactor \in Nat
    BY IInvByState, ConstantsAssumption DEF RestOK
  <2> QED  BY <2>1
<1>3. \A s \in Slash24s : inflight[s] <= Cardinality(Waiting(queue, s))
  <2> SUFFICES ASSUME NEW s \in Slash24s
               PROVE  inflight[s] <= Cardinality(Waiting(queue, s))
    OBVIOUS
  <2>1. ~(inflight[s] - Cardinality(Waiting(queue, s)) > 0)
    BY DEF WithScamper, Waiting
  <2>2. inflight[s] \in Nat /\ Cardinality(Waiting(queue, s)) \in Nat
    BY <1>1, WaitingIsFinite
  <2> QED  BY <2>1, <2>2
<1>4. Total(inflight) <= Len(queue)
  BY <1>1, <1>3, QueueHoldsAll
<1>5. Total(lost) = 0 /\ missing = 0
  <2>1. ProbesOf([s \in Slash24s |-> 0]) = {}
    BY DEF ProbesOf
  <2> QED  BY <2>1, FS_EmptySet DEF NothingLost, Total
<1>6. outstanding = Total(inflight)
  BY <1>1, <1>5 DEF OutstandingAccounts
<1>7. outstanding > sliceSize * SkipFactor
  BY DEF Backlogged
<1> QED  BY <1>1, <1>2, <1>4, <1>6, <1>7

\* As long as the prober lets a batch be outstanding, it never skips a slice for
\* the sake of probes that nobody will answer before it sends more.
THEOREM SkippingIsSafe == ScamperSpec => []SkipsOnlyWithAnswersToCome
<1>1. IInv /\ [ScamperNext]_allVars => IInv'
  BY StepIInv, ScamperStepIsStep
<1>2. IInv /\ OutstandingAccounts /\ [ScamperNext]_allVars => OutstandingAccounts'
  BY AccountsStep, ScamperStepIsStep
<1>3. ScamperInit => IInv /\ OutstandingAccounts
  BY InitIInv, AccountsInit DEF ScamperInit
<1> QED  BY <1>1, <1>2, <1>3, QueueInit, QueueStep, NothingLostInit, NothingLostStep,
            AnswersAreToCome, PTL DEF ScamperSpec

=============================================================================

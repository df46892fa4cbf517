------------------------ MODULE ScamperDriverProofs ------------------------
(***************************************************************************)
(* Proofs about module ScamperDriver, for rings and batches of any size:   *)
(* the ring implements a bounded queue that is sent in batches of its      *)
(* oldest requests, and the driver does not sit on work it could do.       *)
(***************************************************************************)
EXTENDS ScamperDriver, SequenceTheorems, TLAPS

\* The two indices are as far apart as the count says.  Without it a request
\* could be put over one that is still to be sent.
RingConsistent == req_queue_last_idx = After(req_queue_next_idx, req_queue_cnt)

\* What is in the ring was put there by a request.
HoldsRequests == \A i \in 1..req_queue_cnt : Queued[i] \in Requests

\* Inside the handler of a MORE: there is one command to give, or nothing to
\* give.  NeverIdleWithWork says nothing of the middle of a handler, and a MORE
\* makes one attempt only.
OneAttemptSuffices == pc = "asked" => more = 1 \/ req_queue_cnt < Batch

IInv ==
  /\ TypeOK
  /\ RingConsistent
  /\ HoldsRequests
  /\ OneAttemptSuffices
  /\ NeverIdleWithWork

-----------------------------------------------------------------------------
(* The ring                                                                  *)

\* Counting modulo the capacity, up to one lap ahead.
LEMMA RemainderWithinLaps ==
  \A x \in Nat, l \in Nat \ {0} :
    /\ x < l => x % l = x
    /\ l <= x /\ x < 2 * l => x % l = x - l
  BY SMTT(60)

LEMMA AfterFacts ==
  \A i \in Slots, n \in 0..Capacity :
    /\ After(i, n) \in Slots
    /\ After(i, n) = IF i + n < Capacity THEN i + n ELSE i + n - Capacity
<1> SUFFICES ASSUME NEW i \in Slots, NEW n \in 0..Capacity
             PROVE  /\ After(i, n) \in Slots
                    /\ After(i, n) = IF i + n < Capacity THEN i + n ELSE i + n - Capacity
  OBVIOUS
<1>1. Capacity \in Nat \ {0} /\ i + n \in Nat /\ i + n < 2 * Capacity
  BY ScamperAssumption DEF Slots
<1>2. CASE i + n < Capacity
  <2>1. (i + n) % Capacity = i + n
    BY <1>1, <1>2, RemainderWithinLaps
  <2> QED  BY <1>1, <1>2, <2>1 DEF After, Slots
<1>3. CASE Capacity <= i + n
  <2> DEFINE x == i + n
  <2>1. x \in Nat /\ Capacity \in Nat \ {0} /\ Capacity <= x /\ x < 2 * Capacity
    BY <1>1, <1>3
  <2>2. After(i, n) = x % Capacity /\ x = i + n
    BY DEF After
  <2> HIDE DEF x
  <2>3. x % Capacity = x - Capacity
    BY <2>1, RemainderWithinLaps
  <2> QED  BY <1>1, <1>3, <2>1, <2>2, <2>3 DEF Slots
<1> QED  BY <1>1, <1>2, <1>3

\* Two steps around the ring are one.
LEMMA AfterAfter ==
  \A i \in Slots, m, n \in 0..Capacity :
    m + n <= Capacity => After(After(i, m), n) = After(i, m + n)
<1> SUFFICES ASSUME NEW i \in Slots, NEW m \in 0..Capacity, NEW n \in 0..Capacity,
                    m + n <= Capacity
             PROVE  After(After(i, m), n) = After(i, m + n)
  OBVIOUS
<1>1. Capacity \in Nat \ {0}
  BY ScamperAssumption
<1>2. m + n \in 0..Capacity
  BY <1>1
<1>3. /\ After(i, m) \in Slots
      /\ After(i, m) = IF i + m < Capacity THEN i + m ELSE i + m - Capacity
  BY AfterFacts
<1>4. After(i, m + n) = IF i + (m + n) < Capacity THEN i + (m + n) ELSE i + (m + n) - Capacity
  BY <1>2, AfterFacts
<1> DEFINE j == After(i, m)
<1>5. After(j, n) = IF j + n < Capacity THEN j + n ELSE j + n - Capacity
  BY <1>3, AfterFacts
<1> HIDE DEF j
<1>6. j = IF i + m < Capacity THEN i + m ELSE i + m - Capacity
  BY <1>3 DEF j
<1>7. After(j, n) = After(i, m + n)
  BY <1>1, <1>4, <1>5, <1>6 DEF Slots
<1> QED  BY <1>7 DEF j

\* Distinct positions of the queue are distinct slots.
LEMMA AfterInjective ==
  \A i \in Slots, m, n \in 0..(Capacity - 1) : m # n => After(i, m) # After(i, n)
<1> SUFFICES ASSUME NEW i \in Slots, NEW m \in 0..(Capacity - 1),
                    NEW n \in 0..(Capacity - 1), m # n
             PROVE  After(i, m) # After(i, n)
  OBVIOUS
<1>1. Capacity \in Nat \ {0}
  BY ScamperAssumption
<1>2. m \in 0..Capacity /\ n \in 0..Capacity
  BY <1>1
<1>3. After(i, m) = IF i + m < Capacity THEN i + m ELSE i + m - Capacity
  BY <1>2, AfterFacts
<1>4. After(i, n) = IF i + n < Capacity THEN i + n ELSE i + n - Capacity
  BY <1>2, AfterFacts
<1> QED  BY <1>1, <1>3, <1>4 DEF Slots

LEMMA QueuedFacts ==
  ASSUME IInv
  PROVE  Queued \in Seq(Requests) /\ Len(Queued) = req_queue_cnt
<1>1. req_queue_cnt \in Nat
  BY ScamperAssumption DEF IInv, TypeOK
<1>2. Queued \in [1..req_queue_cnt -> Requests]
  BY DEF IInv, HoldsRequests, Queued
<1>3. Queued \in Seq(Requests)
  BY <1>1, <1>2, SeqDef
<1> QED  BY <1>1, <1>2, <1>3, LenProperties

\* The same of a ring that has changed.
LEMMA QueuedFactsNext ==
  ASSUME IInv'
  PROVE  Queued' \in Seq(Requests) /\ Len(Queued') = req_queue_cnt'
<1>1. req_queue_cnt' \in Nat
  BY ScamperAssumption DEF IInv, TypeOK
<1>2. Queued' \in [1..req_queue_cnt' -> Requests]
  BY DEF IInv, HoldsRequests, Queued
<1>3. Queued' \in Seq(Requests)
  BY <1>1, <1>2, SeqDef
<1> QED  BY <1>1, <1>2, <1>3, LenProperties

\* A request that is queued goes to the tail and disturbs no other.
LEMMA QueueRequestAppends ==
  ASSUME IInv, NEW r \in Requests, QueueRequest(r)
  PROVE  /\ req_queue_cnt' = req_queue_cnt + 1
         /\ \A i \in 1..req_queue_cnt : Queued'[i] = Queued[i]
         /\ Queued'[req_queue_cnt + 1] = r
<1>1. /\ req_queue_cnt \in 0..(Capacity - 1) /\ Capacity \in Nat \ {0}
      /\ req_queue_next_idx \in Slots /\ req_queue_last_idx \in Slots
      /\ req_queue \in [Slots -> Requests \cup {NoRequest}]
      /\ req_queue_last_idx = After(req_queue_next_idx, req_queue_cnt)
  BY ScamperAssumption DEF IInv, TypeOK, RingConsistent, QueueRequest, HasRoom
<1>2. /\ req_queue' = [req_queue EXCEPT ![req_queue_last_idx] = r]
      /\ req_queue_next_idx' = req_queue_next_idx
      /\ req_queue_cnt' = req_queue_cnt + 1
  BY DEF QueueRequest
<1>3. ASSUME NEW i \in 1..req_queue_cnt
      PROVE  Queued'[i] = Queued[i]
  <2>1. i - 1 \in 0..(Capacity - 1) /\ i - 1 \in 0..Capacity /\ i - 1 # req_queue_cnt
    BY <1>1
  <2>2. After(req_queue_next_idx, i - 1) # req_queue_last_idx
    BY <1>1, <2>1, AfterInjective
  <2>3. After(req_queue_next_idx, i - 1) \in Slots
    BY <1>1, <2>1, AfterFacts
  <2>4. i \in 1..(req_queue_cnt + 1)
    BY <1>1
  <2>5. After(req_queue_next_idx, i - 1)' = After(req_queue_next_idx, i - 1)
    BY <1>2 DEF After
  <2> QED  BY <1>2, <2>2, <2>3, <2>4, <2>5 DEF Queued
<1>4. ASSUME NEW k, k = req_queue_cnt + 1
      PROVE  Queued'[k] = r
  <2>1. k \in 1..req_queue_cnt' /\ k - 1 = req_queue_cnt
    BY <1>1, <1>2, <1>4
  <2>2. After(req_queue_next_idx, k - 1)' = req_queue_last_idx
    BY <1>1, <1>2, <2>1 DEF After
  <2> QED  BY <1>1, <1>2, <2>1, <2>2 DEF Queued
<1> QED  BY <1>2, <1>3, <1>4

\* Popping n requests leaves the others in their order.
LEMMA PoppingKeepsOrder ==
  ASSUME IInv, NEW n \in 1..req_queue_cnt,
         req_queue' = req_queue,
         req_queue_next_idx' = After(req_queue_next_idx, n),
         req_queue_cnt' = req_queue_cnt - n
  PROVE  \A i \in 1..(req_queue_cnt - n) : Queued'[i] = Queued[n + i]
<1> TAKE i \in 1..(req_queue_cnt - n)
<1>1. /\ req_queue_cnt \in 0..Capacity /\ Capacity \in Nat \ {0}
      /\ req_queue_next_idx \in Slots
  BY ScamperAssumption DEF IInv, TypeOK
<1>2. /\ n \in 0..Capacity /\ i - 1 \in 0..Capacity /\ n + (i - 1) <= Capacity
      /\ n + (i - 1) = (n + i) - 1 /\ n + i \in 1..req_queue_cnt
      /\ i \in 1..req_queue_cnt'
  BY <1>1
<1>3. After(req_queue_next_idx, i - 1)' = After(req_queue_next_idx, (n + i) - 1)
  <2>1. After(After(req_queue_next_idx, n), i - 1) = After(req_queue_next_idx, n + (i - 1))
    BY <1>1, <1>2, AfterAfter
  <2>2. After(req_queue_next_idx, i - 1)' = After(After(req_queue_next_idx, n), i - 1)
    BY DEF After
  <2> QED  BY <1>2, <2>1, <2>2
<1> QED  BY <1>2, <1>3 DEF Queued

-----------------------------------------------------------------------------
(* The invariant                                                             *)

\* A sent batch, as a command.
LEMMA BatchIsCommand ==
  ASSUME IInv, NEW n \in 1..Batch, Enough
  PROVE  /\ n \in 1..req_queue_cnt
         /\ SubSeq(Queued, 1, n) \in Seq(Requests)
         /\ [requests |-> SubSeq(Queued, 1, n), place |-> "writebuf"] \in Commands
<1>1. /\ n \in 1..req_queue_cnt /\ n \in Int /\ 1 \in Int
  BY ScamperAssumption DEF IInv, TypeOK, Enough
<1>2. \A i \in 1..n : Queued[i] \in Requests
  BY <1>1 DEF IInv, HoldsRequests, TypeOK
<1>3. SubSeq(Queued, 1, n) \in Seq(Requests)
  BY <1>1, <1>2, SubSeqProperties
<1> QED  BY <1>1, <1>3 DEF Commands, Places

\* What removing an element does.
LEMMA RemoveAtFacts ==
  ASSUME NEW C, NEW s \in Seq(C), NEW i \in 1..Len(s)
  PROVE  /\ RemoveAt(s, i) \in Seq(C)
         /\ Len(RemoveAt(s, i)) = Len(s) - 1
         /\ \A k \in 1..(Len(s) - 1) : RemoveAt(s, i)[k] = IF k < i THEN s[k] ELSE s[k + 1]
<1>1. Len(s) \in Nat /\ DOMAIN s = 1..Len(s) /\ \A k \in 1..Len(s) : s[k] \in C
  BY LenProperties, ElementOfSeq
<1> DEFINE front == SubSeq(s, 1, i - 1)
           rest == SubSeq(s, i + 1, Len(s))
<1>2. /\ front \in Seq(C) /\ Len(front) = i - 1
      /\ \A k \in 1..(i - 1) : front[k] = s[k]
  <2>1. 1 \in Int /\ i - 1 \in Int /\ \A k \in 1..(i - 1) : s[k] \in C
    BY <1>1
  <2>2. /\ front \in Seq(C) /\ Len(front) = IF 1 <= i - 1 THEN (i - 1) - 1 + 1 ELSE 0
        /\ \A k \in 1..((i - 1) - 1 + 1) : front[k] = s[1 + k - 1]
    BY <2>1, SubSeqProperties
  <2> HIDE DEF front
  <2>3. \A k \in 1..(i - 1) : k \in 1..((i - 1) - 1 + 1) /\ 1 + k - 1 = k
    BY <1>1
  <2>4. Len(front) = i - 1
    <3>1. Len(front) = IF 1 <= i - 1 THEN (i - 1) - 1 + 1 ELSE 0
      BY <2>2
    <3>2. i \in Int /\ 1 <= i
      BY <1>1
    <3> QED  BY <3>1, <3>2
  <2> QED  BY <2>2, <2>3, <2>4
<1>3. /\ rest \in Seq(C) /\ Len(rest) = Len(s) - i
      /\ \A k \in 1..(Len(s) - i) : rest[k] = s[i + k]
  <2>1. i + 1 \in Int /\ Len(s) \in Int /\ \A k \in (i + 1)..Len(s) : s[k] \in C
    BY <1>1
  <2>2. /\ rest \in Seq(C)
        /\ Len(rest) = IF i + 1 <= Len(s) THEN Len(s) - (i + 1) + 1 ELSE 0
        /\ \A k \in 1..(Len(s) - (i + 1) + 1) : rest[k] = s[(i + 1) + k - 1]
    BY <2>1, SubSeqProperties
  <2> HIDE DEF rest
  <2>3. \A k \in 1..(Len(s) - i) :
          k \in 1..(Len(s) - (i + 1) + 1) /\ (i + 1) + k - 1 = i + k
    BY <1>1
  <2>4. Len(rest) = Len(s) - i
    <3>1. Len(rest) = IF i + 1 <= Len(s) THEN Len(s) - (i + 1) + 1 ELSE 0
      BY <2>2
    <3>2. i \in Int /\ i <= Len(s) /\ Len(s) \in Int
      BY <1>1
    <3> QED  BY <3>1, <3>2
  <2> QED  BY <2>2, <2>3, <2>4
<1>4. RemoveAt(s, i) = front \o rest
  BY DEF RemoveAt
<1> HIDE DEF front, rest
<1>5. /\ front \o rest \in Seq(C)
      /\ Len(front \o rest) = Len(front) + Len(rest)
      /\ \A k \in 1..(Len(front) + Len(rest)) :
           (front \o rest)[k] = IF k <= Len(front) THEN front[k] ELSE rest[k - Len(front)]
  BY <1>2, <1>3, ConcatProperties
<1>6. Len(front) + Len(rest) = Len(s) - 1
  BY <1>1, <1>2, <1>3
<1>7. ASSUME NEW k \in 1..(Len(s) - 1)
      PROVE  (front \o rest)[k] = IF k < i THEN s[k] ELSE s[k + 1]
  <2>1. (front \o rest)[k] = IF k <= i - 1 THEN front[k] ELSE rest[k - (i - 1)]
    BY <1>2, <1>5, <1>6
  <2>2. CASE k < i
    BY <1>1, <1>2, <2>1, <2>2
  <2>3. CASE ~(k < i)
    <3>1. k - (i - 1) \in 1..(Len(s) - i) /\ i + (k - (i - 1)) = k + 1 /\ ~(k <= i - 1)
      BY <1>1, <2>3
    <3>2. rest[k - (i - 1)] = s[i + (k - (i - 1))]
      BY <1>3, <3>1
    <3> QED  BY <2>1, <2>3, <3>1, <3>2
  <2> QED  BY <2>2, <2>3
<1> QED  BY <1>4, <1>5, <1>6, <1>7

\* Moving a command on leaves commands.
LEMMA MovingCommand ==
  ASSUME IInv, NEW i \in DOMAIN commands, NEW from, NEW to \in Places, Move(i, from, to)
  PROVE  commands' \in Seq(Commands)
<1>1. commands \in Seq(Commands) /\ i \in 1..Len(commands)
  BY LenProperties DEF IInv, TypeOK
<1>2. commands[i] \in Commands
  BY <1>1, ElementOfSeq
<1>3. [commands[i] EXCEPT !.place = to] \in Commands
  BY <1>2 DEF Commands
<1> QED  BY <1>1, <1>3, ExceptSeq DEF Move

LEMMA InitIInv == Init => IInv
<1> SUFFICES ASSUME Init PROVE IInv
  OBVIOUS
<1>1. TypeOK
  <2>1. <<>> \in Seq(Commands)
    BY EmptySeq
  <2>2. 0 \in Slots /\ 0 \in 0..Capacity
    BY ScamperAssumption DEF Slots
  <2> QED  BY <2>1, <2>2 DEF Init, TypeOK
<1>2. RingConsistent
  <2>1. 0 \in Slots /\ 0 \in 0..Capacity /\ 0 + 0 < Capacity
    BY ScamperAssumption DEF Slots
  <2>2. After(0, 0) = 0
    BY <2>1, AfterFacts
  <2> QED  BY <2>2 DEF Init, RingConsistent
<1>3. HoldsRequests
  BY DEF Init, HoldsRequests
<1>4. OneAttemptSuffices /\ NeverIdleWithWork
  BY DEF Init, OneAttemptSuffices, NeverIdleWithWork
<1> QED  BY <1>1, <1>2, <1>3, <1>4 DEF IInv

\* Steps that leave the ring alone leave what is true of it.
LEMMA RingUnchanged ==
  ASSUME IInv, UNCHANGED ringVars
  PROVE  /\ RingConsistent' /\ HoldsRequests'
         /\ req_queue' \in [Slots -> Requests \cup {NoRequest}]
         /\ req_queue_cnt' \in 0..Capacity
         /\ req_queue_next_idx' \in Slots /\ req_queue_last_idx' \in Slots
<1>1. RingConsistent' /\ HoldsRequests'
  BY DEF IInv, RingConsistent, HoldsRequests, Queued, After, ringVars
<1> QED  BY <1>1 DEF IInv, TypeOK, ringVars

LEMMA QueueRequestIInv ==
  ASSUME IInv, NEW r \in Requests, QueueRequest(r)
  PROVE  IInv'
<1>1. /\ req_queue_cnt \in 0..(Capacity - 1) /\ Capacity \in Nat \ {0}
      /\ 1 \in 0..Capacity
  BY ScamperAssumption DEF IInv, TypeOK, QueueRequest, HasRoom
<1>2. TypeOK'
  <2>1. req_queue_last_idx' \in Slots
    BY <1>1, AfterFacts DEF IInv, TypeOK, QueueRequest
  <2> QED  BY <1>1, <2>1 DEF IInv, TypeOK, QueueRequest
<1>3. RingConsistent'
  <2>1. After(After(req_queue_next_idx, req_queue_cnt), 1)
          = After(req_queue_next_idx, req_queue_cnt + 1)
    BY <1>1, AfterAfter DEF IInv, TypeOK
  <2> QED  BY <2>1 DEF IInv, RingConsistent, QueueRequest, After
<1>4. HoldsRequests'
  BY <1>1, QueueRequestAppends DEF IInv, HoldsRequests
<1>5. OneAttemptSuffices' /\ NeverIdleWithWork'
  BY DEF QueueRequest, OneAttemptSuffices, NeverIdleWithWork
<1> QED  BY <1>2, <1>3, <1>4, <1>5 DEF IInv

LEMMA SendBatchIInv ==
  ASSUME IInv, SendBatch
  PROVE  IInv'
<1>1. PICK n \in 1..Batch :
        /\ commands' = Append(commands, [requests |-> SubSeq(Queued, 1, n),
                                         place    |-> "writebuf"])
        /\ req_queue_next_idx' = After(req_queue_next_idx, n)
        /\ req_queue_cnt' = req_queue_cnt - n
  BY DEF SendBatch
<1>2. /\ n \in 1..req_queue_cnt
      /\ [requests |-> SubSeq(Queued, 1, n), place |-> "writebuf"] \in Commands
  BY BatchIsCommand DEF SendBatch
<1>3. /\ req_queue_cnt \in 0..Capacity /\ Capacity \in Nat \ {0} /\ n \in 0..Capacity
      /\ req_queue_cnt - n \in 0..Capacity /\ n + (req_queue_cnt - n) = req_queue_cnt
      /\ req_queue_next_idx \in Slots
  BY <1>2, ScamperAssumption DEF IInv, TypeOK
<1>4. TypeOK'
  <2>1. commands' \in Seq(Commands)
    BY <1>1, <1>2, AppendProperties DEF IInv, TypeOK
  <2>2. req_queue_next_idx' \in Slots
    BY <1>1, <1>3, AfterFacts
  <2>3. more' \in Nat
    BY DEF IInv, TypeOK, SendBatch
  <2>4. pc' \in {"idle", "requested", "asked"}
    BY DEF IInv, TypeOK, SendBatch
  <2> QED  BY <1>1, <1>3, <2>1, <2>2, <2>3, <2>4 DEF IInv, TypeOK, SendBatch
<1>5. RingConsistent'
  <2>1. After(After(req_queue_next_idx, n), req_queue_cnt - n)
          = After(req_queue_next_idx, req_queue_cnt)
    BY <1>3, AfterAfter
  <2> QED  BY <1>1, <2>1 DEF IInv, RingConsistent, SendBatch, After
<1>6. HoldsRequests'
  <2>1. req_queue' = req_queue
    BY DEF SendBatch
  <2>2. \A i \in 1..(req_queue_cnt - n) : Queued'[i] = Queued[n + i]
    BY <1>1, <1>2, <2>1, PoppingKeepsOrder
  <2>3. \A i \in 1..(req_queue_cnt - n) : n + i \in 1..req_queue_cnt
    BY <1>2, <1>3
  <2> QED  BY <1>1, <2>2, <2>3 DEF IInv, HoldsRequests
<1>7. OneAttemptSuffices' /\ NeverIdleWithWork'
  <2>1. ~(req_queue_cnt < Batch)
    BY <1>3, ScamperAssumption DEF SendBatch, Enough
  <2>2. CASE pc = "asked"
    <3>1. more' = 0 /\ pc' = "idle"
      BY <2>1, <2>2 DEF IInv, OneAttemptSuffices, SendBatch
    <3> QED  BY <3>1 DEF OneAttemptSuffices, NeverIdleWithWork
  <2>3. CASE pc = "requested"
    <3>1. pc' = "requested"
      BY <2>3 DEF SendBatch
    <3> QED  BY <3>1 DEF OneAttemptSuffices, NeverIdleWithWork
  <2> QED  BY <2>2, <2>3 DEF IInv, TypeOK, SendBatch
<1> QED  BY <1>4, <1>5, <1>6, <1>7 DEF IInv

LEMMA StepIInv == IInv /\ [Next]_vars => IInv'
<1> SUFFICES ASSUME IInv, [Next]_vars PROVE IInv'
  OBVIOUS
<1>1. ASSUME NEW r \in Requests, QueueRequest(r) PROVE IInv'
  BY <1>1, QueueRequestIInv
<1>2. CASE SendBatch
  BY <1>2, SendBatchIInv
<1>3. CASE DropRequest \/ StopSending \/ LineMore
  <2>1. UNCHANGED ringVars /\ UNCHANGED <<commands, connected, dead>>
    BY <1>3 DEF DropRequest, StopSending, LineMore
  <2>2. more' \in Nat /\ pc' \in {"idle", "requested", "asked"}
    BY <1>3 DEF IInv, TypeOK, DropRequest, StopSending, LineMore
  <2>3. TypeOK'
    BY <2>1, <2>2, RingUnchanged DEF IInv, TypeOK
  <2>4. req_queue_cnt' = req_queue_cnt
    BY <2>1 DEF ringVars
  <2>5. OneAttemptSuffices' /\ NeverIdleWithWork'
    BY <1>3, <2>4, ScamperAssumption
    DEF IInv, TypeOK, DropRequest, StopSending, LineMore, Ready, Enough,
        OneAttemptSuffices, NeverIdleWithWork
  <2> QED  BY <2>1, <2>3, <2>5, RingUnchanged DEF IInv
<1>4. CASE \/ WriteCommand \/ WriteFails \/ LineData \/ LineErr \/ EndOfFile
           \/ ReadFails \/ HandleDecodeIn \/ UNCHANGED vars
  <2>1. UNCHANGED ringVars /\ UNCHANGED <<more, pc>>
    BY <1>4 DEF WriteCommand, WriteFails, LineData, LineErr, EndOfFile, ReadFails,
                HandleDecodeIn, vars
  <2>2. connected' \in BOOLEAN /\ dead' \in BOOLEAN
    BY <1>4 DEF IInv, TypeOK, WriteCommand, WriteFails, LineData, LineErr, EndOfFile,
                ReadFails, HandleDecodeIn, vars
  <2>3. commands' \in Seq(Commands)
    <3>1. CASE \E i \in DOMAIN commands : commands' = RemoveAt(commands, i)
      BY <3>1, RemoveAtFacts, LenProperties DEF IInv, TypeOK
    <3>2. CASE \E i \in DOMAIN commands : \/ Move(i, "writebuf", "scamper")
                                          \/ Move(i, "scamper", "decoder")
      BY <3>2, MovingCommand DEF Places
    <3>3. CASE UNCHANGED commands
      BY <3>3 DEF IInv, TypeOK
    <3> QED  BY <1>4, <3>1, <3>2, <3>3
             DEF WriteCommand, WriteFails, LineData, LineErr, EndOfFile, ReadFails,
                 HandleDecodeIn, vars
  <2>4. TypeOK'
    BY <2>1, <2>2, <2>3, RingUnchanged DEF IInv, TypeOK
  <2>5. OneAttemptSuffices' /\ NeverIdleWithWork'
    BY <2>1 DEF IInv, OneAttemptSuffices, NeverIdleWithWork, ringVars
  <2> QED  BY <2>1, <2>4, <2>5, RingUnchanged DEF IInv
<1> QED  BY <1>1, <1>2, <1>3, <1>4 DEF Next, HandleReq

-----------------------------------------------------------------------------
(* The refinement                                                            *)

\* Batches leave the front of the queue in order.
LEMMA QueueAfterAccept ==
  ASSUME IInv, NEW r \in Requests, QueueRequest(r)
  PROVE  Queued' = Append(Queued, r)
<1>1. /\ Queued \in Seq(Requests) /\ Len(Queued) = req_queue_cnt
      /\ Queued' \in Seq(Requests) /\ Len(Queued') = req_queue_cnt'
  BY QueuedFacts, QueuedFactsNext, QueueRequestIInv
<1>2. /\ Append(Queued, r) \in Seq(Requests)
      /\ Len(Append(Queued, r)) = req_queue_cnt + 1
      /\ \A i \in 1..req_queue_cnt : Append(Queued, r)[i] = Queued[i]
      /\ Append(Queued, r)[req_queue_cnt + 1] = r
  BY <1>1, AppendProperties
<1>3. req_queue_cnt \in Nat
  BY ScamperAssumption DEF IInv, TypeOK
<1>4. \A i \in 1..Len(Queued') : Queued'[i] = Append(Queued, r)[i]
  BY <1>1, <1>2, <1>3, QueueRequestAppends
<1>5. Len(Queued') = Len(Append(Queued, r))
  BY <1>1, <1>2, QueueRequestAppends
<1> QED  BY <1>1, <1>2, <1>4, <1>5, SeqEqual

LEMMA QueueAfterSend ==
  ASSUME IInv, SendBatch, NEW n \in 1..req_queue_cnt,
         req_queue_next_idx' = After(req_queue_next_idx, n),
         req_queue_cnt' = req_queue_cnt - n
  PROVE  Queued' = SubSeq(Queued, n + 1, Len(Queued))
<1>1. /\ Queued \in Seq(Requests) /\ Len(Queued) = req_queue_cnt
      /\ Queued' \in Seq(Requests) /\ Len(Queued') = req_queue_cnt'
  BY QueuedFacts, QueuedFactsNext, SendBatchIInv
<1>2. req_queue_cnt \in Nat /\ n + 1 \in Int /\ req_queue_cnt \in Int
  BY ScamperAssumption DEF IInv, TypeOK
<1>3. \A i \in (n + 1)..req_queue_cnt : Queued[i] \in Requests
  BY <1>2 DEF IInv, HoldsRequests
<1> DEFINE rest == SubSeq(Queued, n + 1, req_queue_cnt)
<1>4. /\ rest \in Seq(Requests)
      /\ Len(rest) = IF n + 1 <= req_queue_cnt THEN req_queue_cnt - (n + 1) + 1 ELSE 0
      /\ \A i \in 1..(req_queue_cnt - (n + 1) + 1) : rest[i] = Queued[(n + 1) + i - 1]
  BY <1>2, <1>3, SubSeqProperties
<1> HIDE DEF rest
<1>5. Len(rest) = req_queue_cnt - n
  BY <1>2, <1>4
<1>6. \A i \in 1..(req_queue_cnt - n) : rest[i] = Queued[n + i]
  <2> TAKE i \in 1..(req_queue_cnt - n)
  <2>1. i \in 1..(req_queue_cnt - (n + 1) + 1) /\ (n + 1) + i - 1 = n + i
    BY <1>2
  <2> QED  BY <1>4, <2>1
<1>7. \A i \in 1..(req_queue_cnt - n) : Queued'[i] = Queued[n + i]
  BY PoppingKeepsOrder DEF SendBatch
<1>8. Queued' = rest
  BY <1>1, <1>4, <1>5, <1>6, <1>7, SeqEqual
<1> QED  BY <1>1, <1>8 DEF rest

\* The requests of the commands, as the abstract queue sees them.
Sent(cs) == [i \in DOMAIN cs |-> cs[i].requests]

LEMMA SentFacts ==
  ASSUME NEW s \in Seq(Commands)
  PROVE  /\ Sent(s) \in Seq(Seq(Requests))
         /\ DOMAIN s = 1..Len(s) /\ DOMAIN Sent(s) = 1..Len(s)
         /\ Len(s) \in Nat /\ Len(Sent(s)) = Len(s)
         /\ \A i \in 1..Len(s) : Sent(s)[i] = s[i].requests
<1>1. Len(s) \in Nat /\ DOMAIN s = 1..Len(s)
  BY LenProperties
<1>2. \A i \in 1..Len(s) : s[i] \in Commands
  BY ElementOfSeq
<1>3. Sent(s) \in [1..Len(s) -> Seq(Requests)]
  BY <1>1, <1>2 DEF Sent, Commands
<1>4. Sent(s) \in Seq(Seq(Requests))
  BY <1>1, <1>3, SeqDef
<1>5. DOMAIN Sent(s) = 1..Len(s)
  BY <1>3
<1>6. Len(Sent(s)) \in Nat /\ DOMAIN Sent(s) = 1..Len(Sent(s))
  BY <1>4, LenProperties
<1>7. Len(Sent(s)) = Len(s)
  BY <1>1, <1>3, <1>4, <1>5, <1>6
<1> QED  BY <1>1, <1>4, <1>5, <1>7 DEF Sent

\* Sending appends to them.
LEMMA SentAfterAppend ==
  ASSUME NEW s \in Seq(Commands), NEW c \in Commands
  PROVE  Sent(Append(s, c)) = Append(Sent(s), c.requests)
<1>1. /\ Append(s, c) \in Seq(Commands)
      /\ Len(Append(s, c)) = Len(s) + 1
      /\ \A i \in 1..Len(s) : Append(s, c)[i] = s[i]
      /\ Append(s, c)[Len(s) + 1] = c
  BY AppendProperties
<1>2. /\ Sent(s) \in Seq(Seq(Requests)) /\ Len(Sent(s)) = Len(s) /\ Len(s) \in Nat
      /\ \A i \in 1..Len(s) : Sent(s)[i] = s[i].requests
  BY SentFacts
<1>3. /\ Sent(Append(s, c)) \in Seq(Seq(Requests))
      /\ Len(Sent(Append(s, c))) = Len(s) + 1
      /\ \A i \in 1..(Len(s) + 1) : Sent(Append(s, c))[i] = Append(s, c)[i].requests
  BY <1>1, SentFacts
<1>4. c.requests \in Seq(Requests)
  BY DEF Commands
<1>5. /\ Append(Sent(s), c.requests) \in Seq(Seq(Requests))
      /\ Len(Append(Sent(s), c.requests)) = Len(s) + 1
      /\ \A i \in 1..Len(s) : Append(Sent(s), c.requests)[i] = Sent(s)[i]
      /\ Append(Sent(s), c.requests)[Len(s) + 1] = c.requests
  BY <1>2, <1>4, AppendProperties
<1>6. ASSUME NEW i \in 1..(Len(s) + 1)
      PROVE  Sent(Append(s, c))[i] = Append(Sent(s), c.requests)[i]
  <2>1. Sent(Append(s, c))[i] = Append(s, c)[i].requests
    BY <1>3
  <2>2. CASE i = Len(s) + 1
    BY <1>1, <1>5, <2>1, <2>2
  <2>3. CASE i # Len(s) + 1
    <3>1. i \in 1..Len(s)
      BY <1>2, <2>3
    <3> QED  BY <1>1, <1>2, <1>5, <2>1, <3>1
  <2> QED  BY <2>2, <2>3
<1> QED  BY <1>3, <1>5, <1>6, SeqEqual

\* Answering or refusing a command removes its requests.
LEMMA SentAfterRemove ==
  ASSUME NEW s \in Seq(Commands), NEW i \in DOMAIN s
  PROVE  i \in DOMAIN Sent(s) /\ Sent(RemoveAt(s, i)) = RemoveAt(Sent(s), i)
<1>1. /\ Sent(s) \in Seq(Seq(Requests)) /\ Len(Sent(s)) = Len(s) /\ Len(s) \in Nat
      /\ \A k \in 1..Len(s) : Sent(s)[k] = s[k].requests
      /\ i \in 1..Len(s) /\ i \in 1..Len(Sent(s)) /\ i \in DOMAIN Sent(s)
  BY SentFacts
<1>2. /\ RemoveAt(s, i) \in Seq(Commands) /\ Len(RemoveAt(s, i)) = Len(s) - 1
      /\ \A k \in 1..(Len(s) - 1) : RemoveAt(s, i)[k] = IF k < i THEN s[k] ELSE s[k + 1]
  BY <1>1, RemoveAtFacts
<1>3. /\ RemoveAt(Sent(s), i) \in Seq(Seq(Requests))
      /\ Len(RemoveAt(Sent(s), i)) = Len(s) - 1
      /\ \A k \in 1..(Len(s) - 1) :
           RemoveAt(Sent(s), i)[k] = IF k < i THEN Sent(s)[k] ELSE Sent(s)[k + 1]
  BY <1>1, RemoveAtFacts
<1>4. /\ Sent(RemoveAt(s, i)) \in Seq(Seq(Requests))
      /\ Len(Sent(RemoveAt(s, i))) = Len(s) - 1
      /\ \A k \in 1..(Len(s) - 1) : Sent(RemoveAt(s, i))[k] = RemoveAt(s, i)[k].requests
  BY <1>2, SentFacts
<1>5. ASSUME NEW k \in 1..(Len(s) - 1)
      PROVE  Sent(RemoveAt(s, i))[k] = RemoveAt(Sent(s), i)[k]
  <2>1. k \in 1..Len(s) /\ k + 1 \in 1..Len(s)
    BY <1>1
  <2> QED  BY <1>1, <1>2, <1>3, <1>4, <2>1
<1> QED  BY <1>1, <1>3, <1>4, <1>5, SeqEqual

\* Moving a command on does not change them.
LEMMA SentAfterMove ==
  ASSUME IInv, NEW i \in DOMAIN commands, NEW from, NEW to \in Places, Move(i, from, to)
  PROVE  Sent(commands') = Sent(commands)
<1>1. commands \in Seq(Commands) /\ DOMAIN commands = 1..Len(commands)
  BY LenProperties DEF IInv, TypeOK
<1>2. \A k \in DOMAIN commands : commands[k] \in Commands
  BY <1>1, ElementOfSeq
<1>3. commands' = [commands EXCEPT ![i].place = to]
  BY DEF Move
<1>4. DOMAIN commands' = DOMAIN commands
  BY <1>3
<1>5. \A k \in DOMAIN commands : commands'[k].requests = commands[k].requests
  BY <1>2, <1>3 DEF Commands
<1> QED  BY <1>4, <1>5 DEF Sent

\* The initial ring is the empty queue, and every step of the driver is one of
\* the queue or leaves it alone.
LEMMA InitRefines == Init => Queue!Init
<1> SUFFICES ASSUME Init PROVE Queue!Init
  OBVIOUS
<1>1. Queued = <<>>
  BY DEF Init, Queued
<1>2. [i \in DOMAIN commands |-> commands[i].requests] = <<>>
  BY DEF Init
<1> QED  BY <1>1, <1>2 DEF Init, Queue!Init

LEMMA StepRefines == IInv /\ [Next]_vars => [Queue!Next]_(Queue!vars)
<1> SUFFICES ASSUME IInv, [Next]_vars PROVE [Queue!Next]_(Queue!vars)
  OBVIOUS
<1> DEFINE sent == [i \in DOMAIN commands |-> commands[i].requests]
<1>0. sent = Sent(commands) /\ sent' = Sent(commands') /\ commands \in Seq(Commands)
  BY DEF Sent, IInv, TypeOK
<1> HIDE DEF sent
<1>1. ASSUME NEW r \in Requests, QueueRequest(r) PROVE Queue!Accept(r)
  <2>1. Len(Queued) < Capacity /\ Queued' = Append(Queued, r)
    BY <1>1, QueuedFacts, QueueAfterAccept DEF QueueRequest, HasRoom
  <2>2. UNCHANGED <<more, sent>>
    BY <1>0, <1>1 DEF QueueRequest
  <2> QED  BY <2>1, <2>2 DEF Queue!Accept, sent
<1>2. CASE SendBatch
  <2>1. PICK n \in 1..Batch :
          /\ IsBatch(n)
          /\ commands' = Append(commands, [requests |-> SubSeq(Queued, 1, n),
                                           place    |-> "writebuf"])
          /\ req_queue_next_idx' = After(req_queue_next_idx, n)
          /\ req_queue_cnt' = req_queue_cnt - n
    BY <1>2 DEF SendBatch
  <2>2. /\ n \in 1..req_queue_cnt
        /\ [requests |-> SubSeq(Queued, 1, n), place |-> "writebuf"] \in Commands
    BY <1>2, BatchIsCommand DEF SendBatch
  <2>3. Queued' = SubSeq(Queued, n + 1, Len(Queued))
    BY <1>2, <2>1, <2>2, QueueAfterSend
  <2>4. sent' = Append(sent, SubSeq(Queued, 1, n))
    BY <1>0, <2>1, <2>2, SentAfterAppend
  <2>5. more > 0 /\ Len(Queued) >= Batch /\ more' = more - 1
    BY <1>2, QueuedFacts DEF SendBatch, Enough
  <2>6. Queue!IsBatch(Queued, n)
    <3>1. Len(Queued) = req_queue_cnt /\ req_queue_cnt \in Nat /\ Batch \in Nat /\ n \in Nat
      BY QueuedFacts, ScamperAssumption DEF IInv, TypeOK
    <3>2. n <= Len(Queued) /\ (n < Batch => n < Len(Queued))
      BY <2>2, <2>5, <3>1
    <3> QED  BY <2>1, <3>2 DEF IsBatch, Queue!IsBatch
  <2>7. Queue!Send
    BY <2>3, <2>4, <2>5, <2>6 DEF Queue!Send, sent
  <2> QED  BY <2>7 DEF Queue!Next
<1>3. CASE LineMore
  <2>1. UNCHANGED <<Queued, sent>> /\ more' = more + 1
    BY <1>0, <1>3 DEF LineMore, ringVars, Queued, After
  <2> QED  BY <2>1 DEF Queue!Next, Queue!Ask, sent
<1>4. CASE \/ DropRequest \/ StopSending \/ WriteFails \/ EndOfFile \/ ReadFails
           \/ UNCHANGED vars
  <2>1. UNCHANGED <<Queued, more, sent>>
    BY <1>0, <1>4 DEF DropRequest, StopSending, WriteFails, EndOfFile, ReadFails, vars,
                      ringVars, Queued, After
  <2> QED  BY <2>1 DEF Queue!vars, sent
<1>5. CASE WriteCommand \/ LineData
  <2>1. UNCHANGED <<Queued, more>>
    BY <1>5 DEF WriteCommand, LineData, ringVars, Queued, After
  <2>2. PICK i \in DOMAIN commands : \/ Move(i, "writebuf", "scamper")
                                     \/ Move(i, "scamper", "decoder")
    BY <1>5 DEF WriteCommand, LineData
  <2>3. UNCHANGED sent
    BY <1>0, <2>2, SentAfterMove DEF Places
  <2> QED  BY <2>1, <2>3 DEF Queue!vars, sent
<1>6. CASE LineErr \/ HandleDecodeIn
  <2>1. UNCHANGED <<Queued, more>>
    BY <1>6 DEF LineErr, HandleDecodeIn, ringVars, Queued, After
  <2>2. PICK i \in DOMAIN commands : commands' = RemoveAt(commands, i)
    BY <1>6 DEF LineErr, HandleDecodeIn
  <2>3. i \in DOMAIN sent /\ sent' = RemoveAt(sent, i)
    BY <1>0, <2>2, SentAfterRemove
  <2>4. Queue!Finish
    BY <2>1, <2>3 DEF Queue!Finish, Queue!RemoveAt, RemoveAt, sent
  <2> QED  BY <2>4 DEF Queue!Next
<1>7. (\E r \in Requests : QueueRequest(r)) => Queue!Next
  BY <1>1 DEF Queue!Next
<1> QED  BY <1>2, <1>3, <1>4, <1>5, <1>6, <1>7 DEF Next, HandleReq

\* The ring is a bounded queue sent in batches of its oldest requests.
THEOREM RingIsAQueue == Spec => ImplementsQueue
<1> QED  BY InitIInv, StepIInv, InitRefines, StepRefines, PTL
         DEF Spec, ImplementsQueue, Queue!Spec

\* Indices, counts and commands keep their types.
THEOREM TypeCorrect == Spec => []TypeOK
<1>1. IInv => TypeOK
  BY DEF IInv
<1> QED  BY InitIInv, StepIInv, <1>1, PTL DEF Spec

\* A batch that is ready is not kept from a scamper that waits for it.
THEOREM WorkIsNotKept == Spec => []NeverIdleWithWork
<1>1. IInv => NeverIdleWithWork
  BY DEF IInv
<1> QED  BY InitIInv, StepIInv, <1>1, PTL DEF Spec

=============================================================================

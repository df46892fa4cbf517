----------------------------- MODULE BatchQueue -----------------------------
(***************************************************************************)
(* What the scamper driver promises about the requests it accepts: they    *)
(* wait in a first-in first-out queue of bounded length and leave it only  *)
(* as a command that scamper has asked for, made of the oldest requests.   *)
(* A command is a full batch, or is cut short where the parameters of the  *)
(* requests change.  A command that was sent is answered at most once.     *)
(* Module ScamperDriver implements this with a ring.                       *)
(***************************************************************************)
EXTENDS Integers, Sequences, SequencesExt

CONSTANTS
  Requests,  \* the probe requests
  WaitOf,    \* the parameter that the requests of a command have in common
  Capacity,  \* REQ_QUEUE_LEN
  Batch      \* req_per_command

VARIABLES
  queue,  \* the requests accepted and not yet sent
  more,   \* commands scamper has asked for and not yet been given
  sent    \* the commands not yet answered, oldest first

vars == <<queue, more, sent>>

Init == queue = <<>> /\ more = 0 /\ sent = <<>>

Accept(r) ==
  /\ Len(queue) < Capacity
  /\ queue' = Append(queue, r)
  /\ UNCHANGED <<more, sent>>

Ask ==
  /\ more' = more + 1
  /\ UNCHANGED <<queue, sent>>

\* The first n requests may share a command, and no more of them may.
IsBatch(q, n) ==
  /\ n \in 1..Batch /\ n <= Len(q)
  /\ \A i \in 1..n : WaitOf[q[i]] = WaitOf[q[1]]
  /\ n < Batch => n < Len(q) /\ WaitOf[q[n + 1]] # WaitOf[q[1]]

Send ==
  /\ more > 0
  /\ Len(queue) >= Batch
  /\ \E n \in 1..Batch :
       /\ IsBatch(queue, n)
       /\ sent' = Append(sent, SubSeq(queue, 1, n))
       /\ queue' = SubSeq(queue, n + 1, Len(queue))
  /\ more' = more - 1

\* A command is answered, or refused.
Finish ==
  /\ \E i \in DOMAIN sent : sent' = RemoveAt(sent, i)
  /\ UNCHANGED <<queue, more>>

Next == (\E r \in Requests : Accept(r)) \/ Ask \/ Send \/ Finish

Spec == Init /\ [][Next]_vars

=============================================================================

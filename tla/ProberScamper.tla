--------------------------- MODULE ProberScamper ---------------------------
(***************************************************************************)
(* The prober's event loop composed with the scamper driver: Prober, with  *)
(* the queue of BatchQueue in the place of drivers that answer everything. *)
(* A probe can be answered only once it has left the queue, and it leaves  *)
(* it only with a full batch (send_req), while the prober queues nothing   *)
(* as long as too many probes are outstanding (handle_timer).              *)
(*                                                                         *)
(* There is one driver.  scamper is at its best: it asks for a command     *)
(* whenever there is one, and answers every probe it is given.  The queue  *)
(* is not bounded: QueueWithinAllowance is the room a ring must have for   *)
(* the driver to drop nothing.  Reloads are left to Prober.                *)
(***************************************************************************)
EXTENDS Prober

CONSTANT Batch   \* req_per_command

ASSUME BatchAssumption == Batch \in Nat \ {0}

VARIABLE queue   \* the /24s whose probes the driver has not sent, oldest first

allVars == <<vars, queue>>

\* The probes that scamper has.
WithScamper(s) == inflight[s] - Cardinality({i \in DOMAIN queue : queue[i] = s})

\* The requests of a slice reach the driver in the order of the list: as many
\* as have become outstanding, up to where the round has come.
Timer ==
  /\ HandleTimer
  /\ queue' = queue \o SubSeq(list', iter' - (outstanding' - outstanding) + 1, iter')

\* An answer whose handler leaves as many probes in flight queued another one.
Answer(s) ==
  /\ WithScamper(s) > 0
  /\ HandleDriverResp(s)
  /\ queue' = IF inflight'[s] = inflight[s] THEN Append(queue, s) ELSE queue

\* A full batch leaves the queue.
SendBatch ==
  /\ Len(queue) >= Batch
  /\ queue' = SubSeq(queue, Batch + 1, Len(queue))
  /\ UNCHANGED vars

Stop == (RequestStop \/ CheckShutdown) /\ UNCHANGED queue

ScamperInit == Init /\ queue = <<>>

ScamperNext ==
  \/ Timer
  \/ \E s \in Slash24s : Answer(s)
  \/ SendBatch
  \/ Stop

ScamperSpec == ScamperInit /\ [][ScamperNext]_allVars

\* The loop serves its timer and its sockets, the driver sends what it can,
\* and scamper answers what it was sent (it turns a timeout into an answer).
ScamperFairness ==
  /\ WF_allVars(Timer)
  /\ WF_allVars(CheckShutdown /\ UNCHANGED queue)
  /\ WF_allVars(SendBatch)
  /\ \A s \in Slash24s : WF_allVars(Answer(s))

ScamperFairSpec == ScamperSpec /\ ScamperFairness

\* "we just silently drop the probe": what a ring must have room for so that the
\* driver never does, however slow scamper is.  Retries count, but what the
\* prober allows to be outstanding bounds them as well.
QueueWithinAllowance == Len(queue) <= sliceSize * (SkipFactor + 1)

\* The prober skips slices only while an answer is to come: scamper has a probe,
\* or a full batch is ready for it.  What the prober lets be outstanding has to
\* make up a batch for that.
SkipsOnlyWithAnswersToCome ==
  Backlogged(sliceSize) /\ Batch <= sliceSize * SkipFactor + 1 =>
    Len(queue) >= Batch \/ \E s \in Slash24s : WithScamper(s) > 0

============================================================================

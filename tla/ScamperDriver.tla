---------------------------- MODULE ScamperDriver ----------------------------
(***************************************************************************)
(* The scamper driver (lib/drivers/trinarkular_driver_scamper.c): a thread *)
(* that keeps probe requests in a ring, and gives them to a scamper        *)
(* process in batches, each time scamper says MORE.  Results come back on  *)
(* the same connection, are decoded through a socket pair, and are yielded *)
(* to the prober one command at a time.                                    *)
(*                                                                         *)
(* scamper is external.  It asks for at most Window commands it has not    *)
(* finished, finishes them in any order, may refuse one, and may close the *)
(* connection.  A failure to allocate or to convert an address is left     *)
(* out.                                                                    *)
(*                                                                         *)
(* An operator whose name starts with Mut is a broken variant of the one   *)
(* it precedes; no specification uses it.                                  *)
(***************************************************************************)
EXTENDS Integers, Sequences, SequencesExt

CONSTANTS
  Requests,   \* the probe requests
  NoRequest,  \* a slot of the ring that was never written
  WaitOf,     \* req->wait: only requests that agree on it share a command
  Capacity,   \* REQ_QUEUE_LEN
  Batch,      \* req_per_command
  Window      \* commands scamper works on at a time

ASSUME ScamperAssumption ==
  /\ NoRequest \notin Requests
  /\ Capacity \in Nat \ {0}
  /\ Batch \in 1..Capacity
  /\ Window \in Nat \ {0}

Slots == 0..(Capacity - 1)
Places == {"writebuf", "scamper", "decoder"}

VARIABLES
  req_queue,           \* the ring
  req_queue_cnt,
  req_queue_next_idx,  \* the next request to send
  req_queue_last_idx,  \* where the next request is put
  more,                \* commands scamper has asked for
  pc,                  \* whether, and for whom, send_req is called again
  commands,            \* commands not yet answered, and where they are
  connected,           \* scamper_fd is open
  dead                 \* the driver's loop has ended

ringVars == <<req_queue, req_queue_cnt, req_queue_next_idx, req_queue_last_idx>>
vars == <<ringVars, more, pc, commands, connected, dead>>

\* A handler can run: the one before has returned.
Ready == ~dead /\ pc = "idle"

\* An index n slots after i.
After(i, n) == (i + n) % Capacity

\* The requests in the ring, oldest first.
Queued == [i \in 1..req_queue_cnt |-> req_queue[After(req_queue_next_idx, i - 1)]]

-----------------------------------------------------------------------------
(* Requests: handle_req.                                                     *)

\* There is room for one request too many.
MutHasRoom == req_queue_cnt <= Capacity

HasRoom == req_queue_cnt < Capacity

QueueRequest(r) ==
  /\ Ready
  /\ HasRoom
  /\ req_queue' = [req_queue EXCEPT ![req_queue_last_idx] = r]
  /\ req_queue_last_idx' = After(req_queue_last_idx, 1)
  /\ req_queue_cnt' = req_queue_cnt + 1
  /\ pc' = "requested"
  /\ UNCHANGED <<req_queue_next_idx, more, commands, connected, dead>>

\* "we just silently drop the probe"
DropRequest ==
  /\ Ready
  /\ ~HasRoom
  /\ pc' = "requested"
  /\ UNCHANGED <<ringVars, more, commands, connected, dead>>

HandleReq == (\E r \in Requests : QueueRequest(r)) \/ DropRequest

-----------------------------------------------------------------------------
(* Sending: send_req.                                                        *)

\* Every batch is full, whatever the parameters of its requests.
MutIsBatch(n) == n = Batch

\* The oldest request sets the parameters, and requests are popped as long as
\* they agree with it.
IsBatch(n) ==
  LET Agrees(i) == WaitOf[Queued[i]] = WaitOf[Queued[1]]
  IN  (\A i \in 1..n : Agrees(i)) /\ (n < Batch => ~Agrees(n + 1))

\* Once there are more requests than a batch, none is sent.
MutEnough == req_queue_cnt = Batch

Enough == req_queue_cnt >= Batch

\* handle_req calls send_req until nothing is sent; a MORE calls it once.
SendBatch ==
  /\ ~dead /\ pc # "idle"
  /\ more > 0
  /\ Enough
  /\ \E n \in 1..Batch :
       /\ IsBatch(n)
       /\ commands' = Append(commands, [requests |-> SubSeq(Queued, 1, n),
                                        place    |-> "writebuf"])
       /\ req_queue_next_idx' = After(req_queue_next_idx, n)
       /\ req_queue_cnt' = req_queue_cnt - n
  /\ more' = more - 1
  /\ pc' = IF pc = "asked" THEN "idle" ELSE pc
  /\ UNCHANGED <<req_queue, req_queue_last_idx, connected, dead>>

StopSending ==
  /\ ~dead /\ pc # "idle"
  /\ more = 0 \/ ~Enough
  /\ pc' = "idle"
  /\ UNCHANGED <<ringVars, more, commands, connected, dead>>

-----------------------------------------------------------------------------
(* The connection to scamper.                                                *)

Move(i, from, to) ==
  /\ commands[i].place = from
  /\ commands' = [commands EXCEPT ![i].place = to]

\* handle_scamper_fd_write: commands are written in order.
WriteCommand ==
  /\ Ready /\ connected
  /\ \E i \in DOMAIN commands :
       /\ Move(i, "writebuf", "scamper")
       /\ \A j \in 1..(i - 1) : commands[j].place # "writebuf"
  /\ UNCHANGED <<ringVars, more, pc, connected, dead>>

\* A write to the closed descriptor fails, and the loop with it.
WriteFails ==
  /\ Ready /\ ~connected
  /\ \E i \in DOMAIN commands : commands[i].place = "writebuf"
  /\ dead' = TRUE
  /\ UNCHANGED <<ringVars, more, pc, commands, connected>>

\* MORE is counted, and served by the next request.
MutLineMore ==
  /\ Ready /\ connected
  /\ more + Len(commands) < Window
  /\ more' = more + 1
  /\ UNCHANGED <<ringVars, pc, commands, connected, dead>>

\* "MORE"
LineMore ==
  /\ Ready /\ connected
  /\ more + Len(commands) < Window
  /\ more' = more + 1
  /\ pc' = "asked"
  /\ UNCHANGED <<ringVars, commands, connected, dead>>

\* "DATA" and its lines: the result of a command goes to the decoder.
LineData ==
  /\ Ready /\ connected
  /\ \E i \in DOMAIN commands : Move(i, "scamper", "decoder")
  /\ UNCHANGED <<ringVars, more, pc, connected, dead>>

\* "ERR": the error of the line handler is ignored by its caller.
LineErr ==
  /\ Ready /\ connected
  /\ \E i \in DOMAIN commands :
       commands[i].place = "scamper" /\ commands' = RemoveAt(commands, i)
  /\ UNCHANGED <<ringVars, more, pc, connected, dead>>

\* A read of 0 bytes: the descriptor is closed and the loop goes on.
EndOfFile ==
  /\ Ready /\ connected
  /\ connected' = FALSE
  /\ UNCHANGED <<ringVars, more, pc, commands, dead>>

\* A read fails, on the connection or, after the end of file, on the closed
\* descriptor, which is still polled: the loop ends.
ReadFails ==
  /\ Ready
  /\ dead' = TRUE
  /\ UNCHANGED <<ringVars, more, pc, commands, connected>>

\* handle_decode_in_fd_read: every probe of a command is answered at once.
HandleDecodeIn ==
  /\ Ready
  /\ \E i \in DOMAIN commands :
       commands[i].place = "decoder" /\ commands' = RemoveAt(commands, i)
  /\ UNCHANGED <<ringVars, more, pc, connected, dead>>

-----------------------------------------------------------------------------

Init ==
  /\ req_queue = [i \in Slots |-> NoRequest]
  /\ req_queue_cnt = 0
  /\ req_queue_next_idx = 0 /\ req_queue_last_idx = 0
  /\ more = 0
  /\ pc = "idle"
  /\ commands = <<>>
  /\ connected = TRUE
  /\ dead = FALSE

Next ==
  \/ HandleReq \/ SendBatch \/ StopSending
  \/ WriteCommand \/ WriteFails
  \/ LineMore \/ LineData \/ LineErr \/ EndOfFile \/ ReadFails
  \/ HandleDecodeIn

Spec == Init /\ [][Next]_vars

\* A handler returns, and a connection that lasts is served by both sides.
Fairness ==
  /\ WF_vars(SendBatch \/ StopSending)
  /\ SF_vars(WriteCommand) /\ SF_vars(LineMore)
  /\ SF_vars(LineData) /\ SF_vars(HandleDecodeIn)

FairSpec == Spec /\ Fairness

-----------------------------------------------------------------------------
(***************************************************************************)
(* Properties                                                              *)
(***************************************************************************)

Commands == [requests : Seq(Requests), place : Places]

\* The indices stay in the ring and the count within its capacity.
TypeOK ==
  /\ req_queue \in [Slots -> Requests \cup {NoRequest}]
  /\ req_queue_cnt \in 0..Capacity
  /\ req_queue_next_idx \in Slots /\ req_queue_last_idx \in Slots
  /\ more \in Nat
  /\ pc \in {"idle", "requested", "asked"}
  /\ commands \in Seq(Commands)
  /\ connected \in BOOLEAN /\ dead \in BOOLEAN

\* Between two handlers the driver never sits on work: a batch that is ready
\* and a command that scamper waits for do not exist together, although a MORE
\* tries to send only once.
NeverIdleWithWork == pc = "idle" => more = 0 \/ req_queue_cnt < Batch

\* The ring is a bounded queue, sent in batches of the oldest requests.
Queue == INSTANCE BatchQueue
           WITH queue <- Queued,
                sent  <- [i \in DOMAIN commands |-> commands[i].requests]

ImplementsQueue == Queue!Spec

\* As long as the connection lasts and requests keep coming, batches keep being
\* sent.  (They need to come: the tail of the queue waits for a full batch.)
KeepsSending ==
  [](connected /\ ~dead) /\ []<><<HandleReq>>_vars => []<><<SendBatch>>_vars

=============================================================================

----------------------------- MODULE TestDriver -----------------------------
(***************************************************************************)
(* lib/drivers/trinarkular_driver_test.c: the driver that sends no probe   *)
(* but makes up an answer for each, kept until it is due in a doubly       *)
(* linked list ordered by due time.                                        *)
(*                                                                         *)
(* Requests are numbered in the order they reach the driver.  Time passes  *)
(* in units of which a second has Second (1000 in the code); a due time is *)
(* kept as the time left until then, 0 when it has come, and a handler     *)
(* takes no time.                                                          *)
(*                                                                         *)
(* An operator whose name starts with Mut is a broken variant of the one   *)
(* it precedes; no specification uses it.                                  *)
(***************************************************************************)
EXTENDS Integers, Sequences

CONSTANTS
  TargetCnt,  \* requests
  Waits,      \* seconds that a request may ask to wait
  Second,
  MaxRtt,     \* max_rtt
  RespTimer   \* RESP_TIMER

ASSUME TestDriverAssumption ==
  /\ TargetCnt \in Nat
  /\ Waits \subseteq Nat
  /\ {Second, MaxRtt, RespTimer} \subseteq Nat \ {0}

VARIABLES
  nodes,        \* req_wrap of each queued request
  next_req_rx,  \* head and tail of the list
  last_req_rx,
  sinceTimer    \* time since the timer fired, up to RespTimer

listVars == <<nodes, next_req_rx, last_req_rx>>
testVars == <<listVars, sinceTimer>>

Null == 0
Requests == 1..TargetCnt

-----------------------------------------------------------------------------
(* send_probe                                                                *)

\* Due when the answer comes, or when it is given up: after as many units of
\* time as it was to wait seconds.
Answered(rtt) == [rtt |-> rtt, left |-> rtt]
GivenUp(wait) == [rtt |-> 0, left |-> wait]

\* The target or the probe is unresponsive, or it has a round-trip time that
\* may be longer than the wait.
Outcomes(wait) ==
  {GivenUp(wait)}
    \cup {IF rtt > Second * wait THEN GivenUp(wait) ELSE Answered(rtt) :
            rtt \in 0..(MaxRtt - 1)}

-----------------------------------------------------------------------------
(* queue_probe                                                               *)

\* What stands before a node, or before the end of the list.
Before(n) == IF n = Null THEN last_req_rx ELSE nodes[n].prev

\* Those that are due at the same time are passed as well.
MutPlace(left) ==
  LET walk[higher \in DOMAIN nodes \cup {Null}] ==
        LET lower == Before(higher)
        IN  IF lower # Null /\ nodes[lower].left >= left THEN walk[lower]
            ELSE <<lower, higher>>
  IN  walk[Null]

\* The neighbours of a new node: from the tail, pass those that are due later.
Place(left) ==
  LET walk[higher \in DOMAIN nodes \cup {Null}] ==
        LET lower == Before(higher)
        IN  IF lower # Null /\ nodes[lower].left > left THEN walk[lower]
            ELSE <<lower, higher>>
  IN  walk[Null]

\* A new first node stays out of reach.
MutHeadAfter(r, higher) == IF next_req_rx = Null THEN r ELSE next_req_rx

HeadAfter(r, higher) == IF higher = next_req_rx THEN r ELSE next_req_rx

TailAfter(r, lower) == IF lower = last_req_rx THEN r ELSE last_req_rx

Insert(r, outcome) ==
  LET lower == Place(outcome.left)[1]
      higher == Place(outcome.left)[2]
  IN  /\ nodes' = [n \in DOMAIN nodes \cup {r} |->
                     IF n = r
                     THEN [rtt |-> outcome.rtt, left |-> outcome.left,
                           prev |-> lower, next |-> higher]
                     ELSE [nodes[n] EXCEPT
                             !.next = IF n = lower THEN r ELSE @,
                             !.prev = IF n = higher THEN r ELSE @]]
      /\ next_req_rx' = HeadAfter(r, higher)
      /\ last_req_rx' = TailAfter(r, lower)

\* trinarkular_driver_test_handle_req
HandleRequest(r, wait) ==
  /\ \E outcome \in Outcomes(wait) : Insert(r, outcome)
  /\ UNCHANGED sinceTimer

-----------------------------------------------------------------------------
(* handle_resp_timer, check_for_response                                     *)

TimerDue == sinceTimer = RespTimer

\* The first node is due.
Expired == next_req_rx # Null /\ nodes[next_req_rx].left = 0

TailWithout(r) == IF last_req_rx = r THEN nodes[r].next ELSE last_req_rx

\* The next answer is taken off the list.
Pop ==
  LET r == next_req_rx
  IN  /\ nodes' = [n \in DOMAIN nodes \ {r} |->
                     [nodes[n] EXCEPT !.prev = IF n = nodes[r].next THEN Null ELSE @]]
      /\ next_req_rx' = nodes[r].next
      /\ last_req_rx' = TailWithout(r)

\* A round-trip time of 0 stands for no answer.
Verdict(r) == IF nodes[r].rtt # 0 THEN "RESPONSIVE" ELSE "UNRESPONSIVE"

-----------------------------------------------------------------------------

\* trinarkular_driver_test_destroy: what was not answered is freed.
DestroyList == nodes' = <<>> /\ next_req_rx' = Null /\ last_req_rx' = Null

TimePasses ==
  /\ nodes' = [n \in DOMAIN nodes |->
                 [nodes[n] EXCEPT !.left = IF @ = 0 THEN 0 ELSE @ - 1]]
  /\ sinceTimer' = IF TimerDue THEN RespTimer ELSE sinceTimer + 1
  /\ UNCHANGED <<next_req_rx, last_req_rx>>

TestInit ==
  /\ nodes = <<>>
  /\ next_req_rx = Null /\ last_req_rx = Null
  /\ sinceTimer = 0

-----------------------------------------------------------------------------
(***************************************************************************)
(* Properties                                                              *)
(***************************************************************************)

\* The list as it is read from the head, or from the tail.
Forward ==
  LET from[n \in DOMAIN nodes \cup {Null}] ==
        IF n = Null THEN <<>> ELSE <<n>> \o from[nodes[n].next]
  IN  from[next_req_rx]
Backward ==
  LET to[n \in DOMAIN nodes \cup {Null}] ==
        IF n = Null THEN <<>> ELSE Append(to[nodes[n].prev], n)
  IN  to[last_req_rx]

\* Read from either end the list is the same: every queued request, in the
\* order of the due times, and of arrival among equal ones.  Of two overdue
\* answers the order of the due times is no longer known.
ListInOrder ==
  /\ Forward = Backward
  /\ {Forward[i] : i \in DOMAIN Forward} = DOMAIN nodes
  /\ \A i, j \in DOMAIN Forward :
       i < j =>
         \/ nodes[Forward[i]].left < nodes[Forward[j]].left
         \/ nodes[Forward[i]].left = nodes[Forward[j]].left
              /\ (Forward[i] < Forward[j] \/ nodes[Forward[i]].left = 0)

=============================================================================

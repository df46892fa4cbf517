---------------------------- MODULE ManualDriver ----------------------------
(***************************************************************************)
(* tools/manual-driver.c: creates a driver, queues all its requests, then  *)
(* receives as many answers, each time blocking until one comes, and       *)
(* destroys the driver.  Sending to a driver that is gone blocks.          *)
(*                                                                         *)
(* The handler of SIGINT, which destroys the driver from wherever the tool *)
(* is, is left out, and so is the printing.                                *)
(*                                                                         *)
(* An operator whose name starts with Mut is a broken variant of the one   *)
(* it precedes; no specification uses it.                                  *)
(***************************************************************************)
EXTENDS DriverActor

VARIABLES
  user,      \* "creating", "queueing", "receiving", "destroying" or "joining"
             \* the driver, "exited"
  status,    \* 0 or -1, what main returns
  req_cnt,
  answers    \* the requests answered; resp_cnt is their number

userVars == <<user, status, req_cnt, answers>>
vars == <<driverVars, userVars>>

-----------------------------------------------------------------------------
(* trinarkular_driver_create                                                 *)

ReceivesAny ==
  /\ toUser # <<>>
  /\ toUser' = Tail(toUser)

\* zactor_new returns with the first signal; a driver that died before is not
\* joined again.
Create ==
  /\ user = "creating"
  /\ ReceivesAny
  /\ user' = IF dead THEN "exited" ELSE "queueing"
  /\ status' = IF dead THEN -1 ELSE status
  /\ IF dead THEN DestroyList ELSE UNCHANGED listVars
  /\ UNCHANGED <<req_cnt, answers, sinceTimer, thread, dead, toDriver>>

-----------------------------------------------------------------------------
(* main                                                                      *)

\* trinarkular_driver_queue_req
QueueReq ==
  /\ user = "queueing"
  /\ thread # "gone"
  /\ req_cnt < TargetCnt
  /\ req_cnt' = req_cnt + 1
  /\ \E wait \in Waits : toDriver' = Append(toDriver, Req(req_cnt', wait))
  /\ UNCHANGED <<user, status, answers, testVars, thread, dead, toUser>>

\* All targets, or the end of the list of addresses.
Queued ==
  /\ user = "queueing"
  /\ user' = "receiving"
  /\ UNCHANGED <<status, req_cnt, answers, driverVars>>

\* trinarkular_driver_recv_resp finds the driver dead, or something else than
\* an answer.
RecvFails ==
  /\ user = "receiving"
  /\ Len(answers) < req_cnt
  /\ ReceivesAny
  /\ dead \/ Head(toUser).command # "RESP"
  /\ status' = -1
  /\ user' = "destroying"
  /\ UNCHANGED <<req_cnt, answers, testVars, thread, dead, toDriver>>

RecvResp ==
  /\ user = "receiving"
  /\ Len(answers) < req_cnt
  /\ ReceivesAny
  /\ ~dead /\ Head(toUser).command = "RESP"
  /\ answers' = Append(answers, Head(toUser).r)
  /\ UNCHANGED <<user, status, req_cnt, testVars, thread, dead, toDriver>>

AllReceived ==
  /\ user = "receiving"
  /\ Len(answers) = req_cnt
  /\ status' = 0
  /\ user' = "destroying"
  /\ UNCHANGED <<req_cnt, answers, driverVars>>

-----------------------------------------------------------------------------
(* trinarkular_driver_destroy                                                *)

\* A thread that has quit is not joined.
AlreadyGone ==
  /\ user = "destroying"
  /\ thread = "gone"
  /\ DestroyList
  /\ user' = "exited"
  /\ UNCHANGED <<status, req_cnt, answers, sinceTimer, thread, dead, pipeVars>>

SendTerm ==
  /\ user = "destroying"
  /\ thread # "gone"
  /\ toDriver' = Append(toDriver, Term)
  /\ user' = "joining"
  /\ UNCHANGED <<status, req_cnt, answers, testVars, thread, dead, toUser>>

\* Answers that are still in the pipe are dropped.
DropAnswer ==
  /\ user = "joining"
  /\ ReceivesAny
  /\ Head(toUser) # Signal
  /\ UNCHANGED <<user, status, req_cnt, answers, testVars, thread, dead, toDriver>>

Join ==
  /\ user = "joining"
  /\ ReceivesAny
  /\ Head(toUser) = Signal
  /\ DestroyList
  /\ user' = "exited"
  /\ UNCHANGED <<status, req_cnt, answers, sinceTimer, thread, dead, toDriver>>

-----------------------------------------------------------------------------

Init ==
  /\ DriverInit
  /\ user = "creating" /\ status = 0 /\ req_cnt = 0 /\ answers = <<>>

\* The actions of the driver leave the tool alone.
DriverSteps == DriverNext /\ UNCHANGED userVars

UserNext ==
  \/ Create \/ QueueReq \/ Queued \/ RecvResp \/ RecvFails \/ AllReceived
  \/ AlreadyGone \/ SendTerm \/ DropAnswer \/ Join

Next == DriverSteps \/ UserNext

\* Time goes on, the thread runs its handlers and both ends of the pipe are
\* served; nothing obliges the driver to fail, or to be interrupted.  A pass of
\* zloop polls the pipe after the timers, so a timer that fires again and again
\* does not keep a message waiting: that takes strong fairness.
Fairness ==
  /\ WF_vars(UserNext)
  /\ WF_vars(Tick /\ UNCHANGED userVars)
  /\ WF_vars((InitThread \/ MarkDead \/ SignalEnd) /\ UNCHANGED userVars)
  /\ WF_vars((YieldResp \/ TimerDone) /\ UNCHANGED userVars)
  /\ WF_vars(TimerFires /\ UNCHANGED userVars)
  /\ SF_vars((HandleReq \/ HandleTerm) /\ UNCHANGED userVars)

Spec == Init /\ [][Next]_vars
FairSpec == Spec /\ Fairness

-----------------------------------------------------------------------------
(***************************************************************************)
(* Properties                                                              *)
(***************************************************************************)

\* Where a request can be: a place in one of the pipes, in the driver's list, or
\* among the answers.
Places ==
  {<<"toDriver", i>> : i \in {j \in DOMAIN toDriver : toDriver[j].command = "REQ"}}
    \cup {<<"list", i>> : i \in DOMAIN Forward}
    \cup {<<"toUser", i>> : i \in {j \in DOMAIN toUser : toUser[j].command = "RESP"}}
    \cup {<<"answers", i>> : i \in DOMAIN answers}

RequestAt(place) ==
  LET i == place[2]
  IN  CASE place[1] = "toDriver" -> toDriver[i].r
        [] place[1] = "list" -> Forward[i]
        [] place[1] = "toUser" -> toUser[i].r
        [] place[1] = "answers" -> answers[i]

\* Every request is in one place, once: on its way to the driver, waiting in
\* its list, on its way back, or answered; only a driver that fails loses one,
\* and only the tool's own destruction of the driver drops answers.
EachAnsweredOnce ==
  /\ \A p, q \in Places : RequestAt(p) = RequestAt(q) => p = q
  /\ ~dead /\ user # "joining" => {RequestAt(p) : p \in Places} = 1..req_cnt

\* The tool ends, with success only if every request was answered, whether or
\* not the driver survives it; unless it is left queueing for a driver that is
\* gone.
Ends == <>(\/ user = "exited" /\ (status = 0 => Len(answers) = req_cnt)
           \/ user = "queueing" /\ thread = "gone")

=============================================================================

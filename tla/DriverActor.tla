---------------------------- MODULE DriverActor ----------------------------
(***************************************************************************)
(* lib/trinarkular_driver.c and lib/trinarkular_probe_io.c: the thread of  *)
(* a driver, here the test driver's, and the pipe to the thread that uses  *)
(* it.  ZeroMQ delivers a command and the body that follows it as one      *)
(* message, so a message is one record.                                    *)
(*                                                                         *)
(* CZMQ is external: it posts a signal to the pipe when the thread is      *)
(* ready and when it has ended, and a loop may end by itself when the      *)
(* process is interrupted.                                                 *)
(*                                                                         *)
(* An operator whose name starts with Mut is a broken variant of the one   *)
(* it precedes; no specification uses it.                                  *)
(***************************************************************************)
EXTENDS TestDriver

VARIABLES
  thread,    \* "starting", "looping", "yielding" in the timer's handler,
             \* "ending" out of the loop, "dead" once it has said so, "gone"
  dead,      \* TRINARKULAR_DRIVER_DEAD
  toDriver,  \* the two directions of the pipe
  toUser

pipeVars == <<toDriver, toUser>>
driverVars == <<testVars, thread, dead, pipeVars>>

Req(r, wait) == [command |-> "REQ", r |-> r, wait |-> wait]
Resp(r, verdict) == [command |-> "RESP", r |-> r, verdict |-> verdict]
Term == [command |-> "$TERM"]
Signal == [command |-> "signal"]

-----------------------------------------------------------------------------
(* drv_run                                                                   *)

\* The loop, its readers and its timer are created, and the user is told.
InitThread ==
  /\ thread = "starting"
  /\ thread' = "looping"
  /\ toUser' = Append(toUser, Signal)
  /\ UNCHANGED <<testVars, dead, toDriver>>

InitFails ==
  /\ thread = "starting"
  /\ thread' = "ending"
  /\ UNCHANGED <<testVars, dead, pipeVars>>

\* zloop_start returns without a handler asking for it.
Interrupted ==
  /\ thread = "looping"
  /\ thread' = "ending"
  /\ UNCHANGED <<testVars, dead, pipeVars>>

MarkDead ==
  /\ thread = "ending"
  /\ thread' = "dead"
  /\ dead' = TRUE
  /\ UNCHANGED <<testVars, pipeVars>>

\* CZMQ tells the user that the thread has ended.
SignalEnd ==
  /\ thread = "dead"
  /\ thread' = "gone"
  /\ toUser' = Append(toUser, Signal)
  /\ UNCHANGED <<testVars, dead, toDriver>>

-----------------------------------------------------------------------------
(* handle_req                                                                *)

Receives(command) ==
  /\ thread = "looping"
  /\ toDriver # <<>>
  /\ Head(toDriver).command = command
  /\ toDriver' = Tail(toDriver)

HandleReq ==
  /\ Receives("REQ")
  /\ HandleRequest(Head(toDriver).r, Head(toDriver).wait)
  /\ UNCHANGED <<thread, dead, toUser>>

\* The process is interrupted, or out of memory.
HandleReqFails ==
  /\ Receives("REQ")
  /\ dead' = TRUE
  /\ thread' = "ending"
  /\ UNCHANGED <<testVars, toUser>>

\* The driver is marked dead but its loop goes on.
MutHandleTerm ==
  /\ Receives("$TERM")
  /\ dead' = TRUE
  /\ UNCHANGED <<testVars, thread, toUser>>

HandleTerm ==
  /\ Receives("$TERM")
  /\ dead' = TRUE
  /\ thread' = "ending"
  /\ UNCHANGED <<testVars, toUser>>

-----------------------------------------------------------------------------
(* The timer of the test driver                                              *)

TimerFires ==
  /\ thread = "looping"
  /\ TimerDue
  /\ thread' = "yielding"
  /\ sinceTimer' = 0
  /\ UNCHANGED <<listVars, dead, pipeVars>>

YieldResp ==
  /\ thread = "yielding"
  /\ Expired
  /\ toUser' = Append(toUser, Resp(next_req_rx, Verdict(next_req_rx)))
  /\ Pop
  /\ UNCHANGED <<sinceTimer, thread, dead, toDriver>>

TimerDone ==
  /\ thread = "yielding"
  /\ ~Expired
  /\ thread' = "looping"
  /\ UNCHANGED <<testVars, dead, pipeVars>>

Tick ==
  /\ thread # "yielding"
  /\ TimePasses
  /\ UNCHANGED <<thread, dead, pipeVars>>

-----------------------------------------------------------------------------

DriverInit ==
  /\ TestInit
  /\ thread = "starting"
  /\ dead = FALSE
  /\ toDriver = <<>> /\ toUser = <<>>

DriverNext ==
  \/ InitThread \/ InitFails \/ Interrupted \/ MarkDead \/ SignalEnd
  \/ HandleReq \/ HandleReqFails \/ HandleTerm
  \/ TimerFires \/ YieldResp \/ TimerDone
  \/ Tick

=============================================================================

------------------------------- MODULE Reload -------------------------------
(***************************************************************************)
(* A probelist reload step by step (lib/trinarkular_prober.c).  Three      *)
(* parties share reload_probelist_state and NEXT_PL with no lock: the      *)
(* SIGHUP handler, which may run on any thread; the event loop, which      *)
(* creates the reload thread on a timer tick and adopts its list at the    *)
(* end of a round; and the reload thread.  One action per access to the    *)
(* shared state.  The rest of a timer tick is in module Prober.            *)
(*                                                                         *)
(* A signal also ends the poll or the sleep of the thread it is delivered  *)
(* to.  The event loop, and the loop of a driver's thread, then return     *)
(* from zloop_start and go back to it if sighup_received says that it was  *)
(* a SIGHUP.  CZMQ is external: a poll that is interrupted makes           *)
(* zloop_start return 0 before it runs a timer.  A signal that comes as    *)
(* the thread is about to poll, or has just polled, interrupts nothing.    *)
(*                                                                         *)
(* An operator whose name starts with Mut is a broken variant of the one   *)
(* it precedes; no specification uses it.                                  *)
(***************************************************************************)
EXTENDS Naturals, FiniteSets

CONSTANTS
  Loaders,        \* names for the reload threads that may exist at once
  SignalThreads,  \* the threads the kernel may deliver a SIGHUP to
  Slices,         \* timer ticks in a round
  Overlapping     \* whether a SIGHUP may come before the last one is dealt with

ASSUME ReloadAssumption ==
  /\ SignalThreads \subseteq {"main", "driver", "loader"}
  /\ Slices \in Nat \ {0}
  /\ Overlapping \in BOOLEAN

VARIABLES
  status,   \* reload_probelist_state
  nextPl,   \* NEXT_PL: "none" (NULL), "partial" or "ready"
  mainPc,   \* where the event loop is in its timer handler; "returned" from
            \* zloop_start, "ended" for good
  tick,     \* current_slice % periodic_round_slices
  more,     \* trinarkular_probelist_has_more_slash24(ACTIVE_PL)
  loader,   \* where each reload thread is in reload_probelist
  handler,  \* where each thread is in the SIGHUP handler
  aborted,  \* assert(NEXT_PL == NULL) has failed
  sighup,   \* sighup_received, shared by the two loops
  driverPc, \* the loop of a driver: "polling", "returned" or "ended"
  shutdown  \* prober->shutdown

signalVars == <<sighup, driverPc, shutdown>>
roundVars == <<tick, more>>
vars == <<status, nextPl, mainPc, roundVars, loader, handler, aborted, signalVars>>

Active(l) == loader[l] # "idle"

\* A thread in its signal handler does nothing else.
MainRuns == "main" \in SignalThreads => handler["main"] = "idle"
LoaderRuns == "loader" \in SignalThreads => handler["loader"] = "idle"

-----------------------------------------------------------------------------
(* Signals                                                                   *)

\* What a signal does to the thread that is waiting.
Wakes(t) ==
  /\ mainPc' \in {mainPc} \cup (IF t = "main" /\ mainPc = "poll" THEN {"returned"} ELSE {})
  /\ driverPc' \in {driverPc}
                   \cup (IF t = "driver" /\ driverPc = "polling" THEN {"returned"} ELSE {})
  /\ loader' = [l \in Loaders |->
                  IF t = "loader" /\ loader[l] = "sleeping" THEN "interrupted" ELSE loader[l]]

Delivers(t) ==
  /\ ~aborted
  /\ handler[t] = "idle"
  /\ t = "main" => mainPc # "ended"
  /\ t = "driver" => driverPc # "ended"
  /\ t = "loader" => \E l \in Loaders : Active(l)

DealtWith ==
  /\ \A t \in SignalThreads : handler[t] = "idle"
  /\ mainPc # "returned" /\ driverPc # "returned"

\* The handler does not look at the state.
MutSighupArrives(t) ==
  /\ Delivers(t)
  /\ Overlapping \/ DealtWith
  /\ sighup' = TRUE
  /\ handler' = [handler EXCEPT ![t] = "schedule"]
  /\ Wakes(t)
  /\ UNCHANGED <<status, nextPl, roundVars, aborted, shutdown>>

\* catch_sighup: reload_probelist tests the state, then sets it.
SighupArrives(t) ==
  /\ Delivers(t)
  /\ Overlapping \/ DealtWith
  /\ sighup' = TRUE
  /\ handler' = [handler EXCEPT ![t] = IF status = "NONE" THEN "schedule" ELSE "idle"]
  /\ Wakes(t)
  /\ UNCHANGED <<status, nextPl, roundVars, aborted, shutdown>>

SighupSchedules(t) ==
  /\ ~aborted
  /\ handler[t] = "schedule"
  /\ handler' = [handler EXCEPT ![t] = "idle"]
  /\ status' = "SCHEDULED"
  /\ UNCHANGED <<nextPl, mainPc, roundVars, loader, aborted, signalVars>>

\* catch_sigint: prober_stop.
SigintArrives(t) ==
  /\ Delivers(t)
  /\ ~shutdown
  /\ shutdown' = TRUE
  /\ Wakes(t)
  /\ UNCHANGED <<status, nextPl, roundVars, handler, aborted, sighup>>

-----------------------------------------------------------------------------
(* zloop_start and the loop around it                                        *)

At(pc) == ~aborted /\ MainRuns /\ mainPc = pc
DriverAt(pc) ==
  /\ ~aborted
  /\ "driver" \in SignalThreads => handler["driver"] = "idle"
  /\ driverPc = pc

\* Nothing but a SIGHUP takes a loop back into zloop_start.
MutMainReturns ==
  /\ At("returned")
  /\ mainPc' = "ended"
  /\ UNCHANGED <<status, nextPl, roundVars, loader, handler, aborted, signalVars>>

MainReturns ==
  /\ At("returned")
  /\ mainPc' = IF sighup THEN "poll" ELSE "ended"
  /\ sighup' = FALSE
  /\ UNCHANGED <<status, nextPl, roundVars, loader, handler, aborted, driverPc, shutdown>>

DriverReturns ==
  /\ DriverAt("returned")
  /\ driverPc' = IF sighup THEN "polling" ELSE "ended"
  /\ sighup' = FALSE
  /\ UNCHANGED <<status, nextPl, mainPc, roundVars, loader, handler, aborted, shutdown>>

\* The end of the driver's thread reaches the event loop as a message that is
\* no answer: the handler returns -1.
DriverDied ==
  /\ At("poll")
  /\ driverPc = "ended"
  /\ mainPc' = "ended"
  /\ UNCHANGED <<status, nextPl, roundVars, loader, handler, aborted, signalVars>>

\* The timer handler starts with CHECK_SHUTDOWN.
MutStopSeen ==
  /\ At("poll")
  /\ shutdown /\ status = "NONE"
  /\ mainPc' = "ended"
  /\ UNCHANGED <<status, nextPl, roundVars, loader, handler, aborted, signalVars>>

StopSeen ==
  /\ At("poll")
  /\ shutdown
  /\ mainPc' = "ended"
  /\ UNCHANGED <<status, nextPl, roundVars, loader, handler, aborted, signalVars>>

-----------------------------------------------------------------------------
(* The timer handler of the event loop.                                      *)

NothingScheduled ==
  /\ At("poll") /\ ~shutdown
  /\ status # "SCHEDULED"
  /\ mainPc' = "settle"
  /\ UNCHANGED <<status, nextPl, roundVars, loader, handler, aborted, signalVars>>

CreateThread ==
  /\ At("poll") /\ ~shutdown
  /\ status = "SCHEDULED"
  /\ \E l \in Loaders : ~Active(l) /\ loader' = [loader EXCEPT ![l] = "start"]
  /\ mainPc' = "created"
  /\ UNCHANGED <<status, nextPl, roundVars, handler, aborted, signalVars>>

CreateThreadFails ==
  /\ At("poll") /\ ~shutdown
  /\ status = "SCHEDULED"
  /\ status' = "NONE"
  /\ mainPc' = "settle"
  /\ UNCHANGED <<nextPl, roundVars, loader, handler, aborted, signalVars>>

\* The state stays as it was.
MutMarkRunning ==
  At("created") /\ mainPc' = "settle" /\ UNCHANGED <<status, nextPl, roundVars, loader, handler, aborted, signalVars>>

\* The last statement of schedule_probelist_reload, after the thread started.
MarkRunning ==
  /\ At("created")
  /\ status' = "RUNNING"
  /\ mainPc' = "settle"
  /\ UNCHANGED <<nextPl, roundVars, loader, handler, aborted, signalVars>>

\* The rest of the handler: a slice of the /24s that are left, or none of them if
\* the slice is skipped.  Only the first slice of a round starts over.
Probes == more' \in BOOLEAN /\ (more' => more \/ tick = 0)

\* Ticks are not counted modulo the round.
MutEndTick == tick' = tick + 1 /\ Probes /\ mainPc' = "poll"

EndTick == tick' = (tick + 1) % Slices /\ Probes /\ mainPc' = "poll"

\* A list still being prepared is taken as well.
MutAdopts == tick = 0 /\ ~more /\ status \in {"RUNNING", "DONE"}

\* The state is read again at the end of a round: when its ticks have passed and
\* no /24 is left.
Adopts == tick = 0 /\ ~more /\ status = "DONE"

NothingToAdopt ==
  /\ At("settle")
  /\ ~Adopts
  /\ EndTick
  /\ UNCHANGED <<status, nextPl, loader, handler, aborted, signalVars>>

\* update_probelist: NEXT_PL becomes the active list and its slot is free.
UpdateProbelist ==
  /\ At("settle")
  /\ Adopts
  /\ nextPl' = "none"
  /\ mainPc' = "adopted"
  /\ UNCHANGED <<status, roundVars, loader, handler, aborted, signalVars>>

\* The state stays DONE.
MutClearStatus ==
  At("adopted") /\ EndTick /\ UNCHANGED <<status, nextPl, loader, handler, aborted, signalVars>>

ClearStatus ==
  /\ At("adopted")
  /\ status' = "NONE"
  /\ EndTick
  /\ UNCHANGED <<nextPl, loader, handler, aborted, signalVars>>

-----------------------------------------------------------------------------
(* The reload thread: prepare_probelist, then the status.                    *)

LoaderAt(l, pc) == ~aborted /\ LoaderRuns /\ loader[l] = pc
GoTo(l, pc) == loader' = [loader EXCEPT ![l] = pc]

\* assert(NEXT_PL(prober) == NULL)
LoaderAsserts(l) ==
  /\ LoaderAt(l, "start")
  /\ IF nextPl = "none" THEN GoTo(l, "creating") /\ UNCHANGED aborted
                        ELSE aborted' = TRUE /\ UNCHANGED loader
  /\ UNCHANGED <<status, nextPl, mainPc, roundVars, handler, signalVars>>

\* The file has been read (or not) and NEXT_PL is assigned.
LoaderCreates(l) ==
  /\ LoaderAt(l, "creating")
  /\ \/ nextPl' = "partial" /\ GoTo(l, "filling")
     \/ nextPl' = "none" /\ GoTo(l, "error")
  /\ UNCHANGED <<status, mainPc, roundVars, handler, aborted, signalVars>>

\* Key packages, statistics and the state of every /24.
LoaderFills(l) ==
  /\ LoaderAt(l, "filling")
  /\ GoTo(l, "resolving") \/ GoTo(l, "error")
  /\ UNCHANGED <<status, nextPl, mainPc, roundVars, handler, aborted, signalVars>>

LoaderResolves(l) ==
  /\ LoaderAt(l, "resolving")
  /\ nextPl' = "ready"
  /\ GoTo(l, "prepared")
  /\ UNCHANGED <<status, mainPc, roundVars, handler, aborted, signalVars>>

LoaderSleeps(l) ==
  /\ LoaderAt(l, "resolving")
  /\ GoTo(l, "sleeping")
  /\ UNCHANGED <<status, nextPl, mainPc, roundVars, handler, aborted, signalVars>>

LoaderWakes(l) ==
  /\ LoaderAt(l, "sleeping")
  /\ GoTo(l, "resolving")
  /\ UNCHANGED <<status, nextPl, mainPc, roundVars, handler, aborted, signalVars>>

\* "Sleep interrupted, exiting": return -1, and the thread is over.
LoaderInterrupted(l) ==
  /\ LoaderAt(l, "interrupted")
  /\ GoTo(l, "idle")
  /\ UNCHANGED <<status, nextPl, mainPc, roundVars, handler, aborted, signalVars>>

\* The list is freed and its pointer is not cleared.
MutLoaderDestroysNext(l) ==
  LoaderAt(l, "error") /\ GoTo(l, "failed") /\ UNCHANGED <<status, nextPl, mainPc, roundVars, handler, aborted, signalVars>>

LoaderDestroysNext(l) ==
  /\ LoaderAt(l, "error")
  /\ nextPl' = "none"
  /\ GoTo(l, "failed")
  /\ UNCHANGED <<status, mainPc, roundVars, handler, aborted, signalVars>>

LoaderFails(l) ==
  /\ LoaderAt(l, "failed")
  /\ status' = "NONE"
  /\ GoTo(l, "idle")
  /\ UNCHANGED <<nextPl, mainPc, roundVars, handler, aborted, signalVars>>

LoaderIsDone(l) ==
  /\ LoaderAt(l, "prepared")
  /\ status' = "DONE"
  /\ GoTo(l, "idle")
  /\ UNCHANGED <<nextPl, mainPc, roundVars, handler, aborted, signalVars>>

-----------------------------------------------------------------------------

Init ==
  /\ status = "NONE"
  /\ nextPl = "none"
  /\ mainPc = "poll"
  /\ tick = 1 % Slices /\ more \in BOOLEAN   \* the first tick ends no round
  /\ loader = [l \in Loaders |-> "idle"]
  /\ handler = [t \in SignalThreads |-> "idle"]
  /\ aborted = FALSE
  /\ sighup = FALSE /\ driverPc = "polling" /\ shutdown = FALSE

Signals ==
  \E t \in SignalThreads : SighupArrives(t) \/ SighupSchedules(t) \/ SigintArrives(t)

Loops == MainReturns \/ DriverReturns \/ DriverDied \/ StopSeen

Tick ==
  \/ NothingScheduled \/ CreateThread \/ CreateThreadFails \/ MarkRunning
  \/ NothingToAdopt \/ UpdateProbelist \/ ClearStatus

Load(l) ==
  \/ LoaderAsserts(l) \/ LoaderCreates(l) \/ LoaderFills(l) \/ LoaderResolves(l)
  \/ LoaderSleeps(l) \/ LoaderWakes(l) \/ LoaderInterrupted(l)
  \/ LoaderDestroysNext(l) \/ LoaderFails(l) \/ LoaderIsDone(l)

Next == Signals \/ Loops \/ Tick \/ \E l \in Loaders : Load(l)

Spec == Init /\ [][Next]_vars

\* Threads make progress and handlers return.  Signals are not so frequent that
\* they interrupt every poll, so the timer fires although each of them keeps it
\* from firing; and the backend resolves its keys if it is asked often enough.
Fairness ==
  /\ SF_vars(Tick)
  /\ WF_vars(MainReturns) /\ WF_vars(DriverReturns) /\ SF_vars(StopSeen)
  /\ \A t \in SignalThreads : WF_vars(SighupSchedules(t))
  /\ \A l \in Loaders : WF_vars(Load(l)) /\ SF_vars(LoaderResolves(l))

FairSpec == Spec /\ Fairness

-----------------------------------------------------------------------------
(***************************************************************************)
(* Properties                                                              *)
(***************************************************************************)

\* The types of the shared state and of the program counters.
TypeOK ==
  /\ status \in {"NONE", "SCHEDULED", "RUNNING", "DONE"}
  /\ nextPl \in {"none", "partial", "ready"}
  /\ mainPc \in {"poll", "created", "settle", "adopted", "returned", "ended"}
  /\ tick \in 0..(Slices - 1) /\ more \in BOOLEAN
  /\ loader \in [Loaders -> {"idle", "start", "creating", "filling", "resolving",
                             "sleeping", "interrupted", "prepared", "error", "failed"}]
  /\ handler \in [SignalThreads -> {"idle", "schedule"}]
  /\ aborted \in BOOLEAN /\ sighup \in BOOLEAN /\ shutdown \in BOOLEAN
  /\ driverPc \in {"polling", "returned", "ended"}

\* assert(NEXT_PL(prober) == NULL): nothing is in the slot when a reload
\* starts to fill it.
NextNullAtPrepare == ~aborted

\* There is never more than one reload thread, although creating one is guarded
\* by nothing but the status word.
OneLoader == \A k, l \in Loaders : Active(k) /\ Active(l) => k = l

\* The loop only ever adopts a list that was prepared to its end, and no thread
\* is at work on either list while the two trade places.
AdoptsWhole ==
  [][UpdateProbelist => nextPl = "ready" /\ \A l \in Loaders : ~Active(l)]_vars

\* A list that is ready is adopted, after which reloads can be requested again,
\* unless the prober is stopped, or there is from some time on always a /24 left
\* to probe: rounds whose slices are skipped do not end, and adopt nothing.
DoneIsAdopted ==
  (status = "DONE" /\ mainPc # "created") ~> (status = "NONE" \/ shutdown \/ []more)

\* "Only reenter zloop_start() if we got a SIGHUP": as long as SIGHUPs do not
\* overlap, whichever threads they reach, no loop takes one for the end,
\* although the two loops and all handlers share one flag that each loop
\* clears.
OnlyStopEndsLoops == mainPc = "ended" \/ driverPc = "ended" => shutdown

\* A request to stop ends the event loop, also when a SIGHUP that interrupted
\* nothing has left the flag set, so that the interrupt of the request itself
\* is taken for a SIGHUP.
StopEndsLoop == shutdown ~> (mainPc = "ended" \/ aborted)

\* "Probelist reload still in progress.  Waiting until next round.": what the
\* loop logs whenever it finds RUNNING.
RunningHasLoader == status = "RUNNING" => \E l \in Loaders : Active(l)

\* The loop's view of a reload: the thread exists once RUNNING is written, and
\* adopting a list frees the status.
Loading == mainPc # "created" /\ \E l \in Loaders : Active(l)

View ==
  [status  |-> CASE mainPc = "created" -> "SCHEDULED"
                 [] mainPc = "adopted" -> "NONE"
                 [] OTHER -> status,
   loading |-> Loading,
   next    |-> IF mainPc = "created" \/ Loading THEN "none" ELSE nextPl]

Protocol == INSTANCE ReloadProtocol
              WITH Lists <- {"partial", "ready"}, NoList <- "none", reload <- View

\* The steps of the handler, the loop and the thread implement the protocol
\* that Prober is built on.
ImplementsProtocol == Protocol!ReloadSpec

=============================================================================

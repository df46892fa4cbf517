---------------------------- MODULE ReloadProofs ----------------------------
(***************************************************************************)
(* Proofs about module Reload, for any names of threads and any number of  *)
(* ticks in a round: while SIGHUPs do not overlap, the status word alone   *)
(* keeps the event loop, the handlers and the reload thread out of each    *)
(* other's way, and together they implement ReloadProtocol.                *)
(***************************************************************************)
EXTENDS Reload, TLAPS

\* A reload thread is at work; a handler has tested the status and not set it.
Busy == \E l \in Loaders : Active(l)
Deciding(t) == handler[t] = "schedule"

\* What stands in NEXT_PL while a thread is at work on it, and after.
SlotWhileLoading ==
  \A l \in Loaders :
    /\ loader[l] \in {"start", "creating", "failed"} => nextPl = "none"
    /\ loader[l] \in {"filling", "resolving", "sleeping", "interrupted"} => nextPl = "partial"
    /\ loader[l] = "prepared" => nextPl = "ready"
    /\ loader[l] = "error" => nextPl # "ready"

SlotAfterLoading ==
  ~Busy => /\ status = "NONE" \/ mainPc = "adopted" => nextPl = "none"
           /\ status = "SCHEDULED" => \/ nextPl = "none"
                                      \/ mainPc = "created" /\ nextPl = "partial"
           /\ status = "DONE" /\ mainPc # "adopted" => nextPl = "ready"

\* The status that each phase of a reload is seen under.
StatusOK ==
  /\ Busy => status = IF mainPc = "created" THEN "SCHEDULED" ELSE "RUNNING"
  /\ mainPc = "adopted" => status = "DONE"

\* One handler at a time is about to schedule, and only over a reload that has
\* ended and left nothing behind, even if the loop has since written RUNNING.
HandlersOK ==
  \A t \in SignalThreads :
    Deciding(t) => /\ \A u \in SignalThreads : Deciding(u) => u = t
                   /\ status \in {"NONE", "RUNNING"} /\ nextPl = "none" /\ ~Busy

\* As long as nobody asked for a stop, at most one loop is out of its poll, and
\* the flag that takes it back is set.
LoopsOK ==
  ~shutdown => /\ mainPc # "ended" /\ driverPc # "ended"
               /\ mainPc # "returned" \/ driverPc # "returned"
               /\ mainPc = "returned" \/ driverPc = "returned" => sighup

IInv ==
  /\ TypeOK
  /\ ~aborted
  /\ OneLoader
  /\ SlotWhileLoading
  /\ SlotAfterLoading
  /\ StatusOK
  /\ HandlersOK
  /\ LoopsOK

-----------------------------------------------------------------------------
(* Types                                                                     *)

LEMMA TickType ==
  ASSUME TypeOK, EndTick
  PROVE  tick' \in 0..(Slices - 1) /\ more' \in BOOLEAN
<1>1. \A n \in Nat, d \in Nat \ {0} : (n + 1) % d \in 0..(d - 1)
  OBVIOUS
<1>2. tick \in Nat /\ Slices \in Nat \ {0}
  BY ReloadAssumption DEF TypeOK
<1>3. tick' \in 0..(Slices - 1)
  BY <1>1, <1>2 DEF EndTick
<1>4. more' \in BOOLEAN
  BY DEF EndTick, Probes
<1> QED  BY <1>3, <1>4

LEMMA TypeInit == Init => TypeOK
<1>1. 1 % Slices \in 0..(Slices - 1)
  BY ReloadAssumption
<1> QED  BY <1>1 DEF Init, TypeOK

LEMMA TypeStep == TypeOK /\ [Next]_vars => TypeOK'
<1> SUFFICES ASSUME TypeOK, [Next]_vars PROVE TypeOK'
  OBVIOUS
<1> USE DEF TypeOK, signalVars, roundVars
<1>1. ASSUME NEW t \in SignalThreads,
             SighupArrives(t) \/ SighupSchedules(t) \/ SigintArrives(t)
      PROVE  TypeOK'
  <2>1. SighupArrives(t) => TypeOK'
    BY DEF SighupArrives, Wakes
  <2>2. SighupSchedules(t) => TypeOK'
    BY DEF SighupSchedules
  <2>3. SigintArrives(t) => TypeOK'
    BY DEF SigintArrives, Wakes
  <2> QED  BY <1>1, <2>1, <2>2, <2>3
<1>2. CASE Loops
  BY <1>2, ZenonT(60) DEF Loops, MainReturns, DriverReturns, DriverDied, StopSeen
<1>3. CASE NothingScheduled \/ CreateThread \/ CreateThreadFails \/ MarkRunning
  BY <1>3 DEF NothingScheduled, CreateThread, CreateThreadFails, MarkRunning
<1>4. CASE NothingToAdopt \/ UpdateProbelist \/ ClearStatus
  <2>1. CASE UpdateProbelist
    BY <2>1 DEF UpdateProbelist
  <2>2. CASE NothingToAdopt
    BY <2>2, TickType DEF NothingToAdopt, EndTick
  <2>3. CASE ClearStatus
    BY <2>3, TickType DEF ClearStatus, EndTick
  <2> QED  BY <1>4, <2>1, <2>2, <2>3
<1>5. ASSUME NEW l \in Loaders, Load(l) PROVE TypeOK'
  <2>1. CASE LoaderAsserts(l)
    BY <2>1 DEF GoTo, LoaderAsserts
  <2>5. CASE LoaderCreates(l) \/ LoaderFills(l)
    <3>1. CASE LoaderCreates(l)
      BY <3>1 DEF GoTo, LoaderCreates
    <3>2. CASE LoaderFills(l)
      BY <3>2 DEF GoTo, LoaderFills
    <3> QED  BY <2>5, <3>1, <3>2
  <2>2. CASE LoaderResolves(l) \/ LoaderSleeps(l) \/ LoaderWakes(l)
    BY <2>2 DEF GoTo, LoaderResolves, LoaderSleeps, LoaderWakes
  <2>3. CASE LoaderInterrupted(l) \/ LoaderDestroysNext(l)
    BY <2>3 DEF GoTo, LoaderInterrupted, LoaderDestroysNext
  <2>4. CASE LoaderFails(l) \/ LoaderIsDone(l)
    BY <2>4 DEF GoTo, LoaderFails, LoaderIsDone
  <2> QED  BY <1>5, <2>1, <2>2, <2>3, <2>4, <2>5 DEF Load
<1>6. CASE UNCHANGED vars
  BY <1>6 DEF vars
<1> QED  BY <1>1, <1>2, <1>3, <1>4, <1>5, <1>6 DEF Next, Signals, Tick

\* The types of what the parties share, however the signals come.
THEOREM TypeCorrect == Spec => []TypeOK
  BY TypeInit, TypeStep, PTL DEF Spec

-----------------------------------------------------------------------------
(* The reload thread                                                         *)

\* Everything but the types, the reload threads and the loops: what is shared.
SharedOK == SlotWhileLoading /\ SlotAfterLoading /\ StatusOK /\ HandlersOK

\* The thread at work is the only one that moves.
LEMMA TheLoaderMoves ==
  ASSUME TypeOK, OneLoader, NEW l \in Loaders, Active(l), NEW pc, GoTo(l, pc)
  PROVE  /\ loader'[l] = pc
         /\ \A k \in Loaders : k # l => loader[k] = "idle" /\ loader'[k] = "idle"
         /\ Busy /\ (Busy' <=> pc # "idle")
         /\ OneLoader'
<1>1. loader'[l] = pc /\ \A k \in Loaders : k # l => loader'[k] = loader[k]
  BY DEF GoTo, TypeOK
<1>2. \A k \in Loaders : k # l => loader[k] = "idle"
  BY DEF OneLoader, Active
<1>3. Busy /\ (Busy' <=> pc # "idle")
  BY <1>1, <1>2 DEF Busy, Active
<1>4. OneLoader'
  BY <1>1, <1>2 DEF OneLoader, Active
<1> QED  BY <1>1, <1>2, <1>3, <1>4

\* A thread that goes on working keeps what is shared in order, if it leaves in
\* NEXT_PL what belongs there.
LEMMA LoaderGoesOn ==
  ASSUME IInv, NEW l \in Loaders, Active(l), NEW pc, GoTo(l, pc), pc # "idle",
         UNCHANGED <<status, mainPc, handler>>,
         pc \in {"start", "creating", "failed"} => nextPl' = "none",
         pc \in {"filling", "resolving", "sleeping", "interrupted"} => nextPl' = "partial",
         pc = "prepared" => nextPl' = "ready",
         pc = "error" => nextPl' # "ready"
  PROVE  OneLoader' /\ SharedOK'
<1>1. /\ loader'[l] = pc
      /\ \A k \in Loaders : k # l => loader'[k] = "idle"
      /\ Busy /\ Busy' /\ OneLoader'
  BY TheLoaderMoves DEF IInv
<1>2. SlotWhileLoading'
  <2> SUFFICES ASSUME NEW k \in Loaders
               PROVE  /\ loader'[k] \in {"start", "creating", "failed"} => nextPl' = "none"
                      /\ loader'[k] \in {"filling", "resolving", "sleeping", "interrupted"}
                           => nextPl' = "partial"
                      /\ loader'[k] = "prepared" => nextPl' = "ready"
                      /\ loader'[k] = "error" => nextPl' # "ready"
    BY DEF SlotWhileLoading
  <2>1. CASE k = l
    BY <1>1, <2>1
  <2>2. CASE k # l
    BY <1>1, <2>2
  <2> QED  BY <2>1, <2>2
<1>3. SlotAfterLoading'
  BY <1>1 DEF SlotAfterLoading
<1>4. StatusOK'
  BY <1>1 DEF IInv, StatusOK
<1>5. HandlersOK'
  BY <1>1 DEF IInv, HandlersOK, Deciding
<1> QED  BY <1>1, <1>2, <1>3, <1>4, <1>5 DEF SharedOK

\* A thread that ends leaves its list, or nothing.
LEMMA LoaderGoes ==
  ASSUME IInv, NEW l \in Loaders, Active(l), GoTo(l, "idle"),
         UNCHANGED <<nextPl, mainPc, handler>>,
         \/ status' = "NONE" /\ nextPl = "none"
         \/ status' = "DONE" /\ nextPl = "ready"
         \/ status' = status /\ nextPl = "partial"
  PROVE  OneLoader' /\ SharedOK'
<1>1. /\ \A k \in Loaders : loader'[k] = "idle"
      /\ Busy /\ ~Busy' /\ OneLoader'
  BY TheLoaderMoves DEF IInv
<1>2. status = (IF mainPc = "created" THEN "SCHEDULED" ELSE "RUNNING") /\ mainPc # "adopted"
  BY <1>1 DEF IInv, StatusOK
<1>3. SlotWhileLoading'
  BY <1>1 DEF SlotWhileLoading
<1>4. SlotAfterLoading'
  BY <1>1, <1>2 DEF SlotAfterLoading
<1>5. StatusOK'
  BY <1>1, <1>2 DEF StatusOK
<1>6. HandlersOK'
  BY <1>1 DEF IInv, HandlersOK, Deciding
<1> QED  BY <1>1, <1>3, <1>4, <1>5, <1>6 DEF SharedOK

\* The thread waits, or gives up its sleep: to the others it is all the same.
LEMMA LoadIInv ==
  ASSUME IInv, NEW l \in Loaders, Load(l)
  PROVE  OneLoader' /\ SharedOK' /\ ~aborted' /\ UNCHANGED <<mainPc, handler, signalVars>>
<1>0. /\ ~aborted /\ SlotWhileLoading /\ loader[l] # "idle" /\ Active(l)
      /\ UNCHANGED <<mainPc, handler, signalVars>>
  BY DEF IInv, Load, LoaderAt, Active, LoaderAsserts, LoaderCreates, LoaderFills,
         LoaderResolves, LoaderSleeps, LoaderWakes, LoaderInterrupted,
         LoaderDestroysNext, LoaderFails, LoaderIsDone
<1>1. CASE LoaderAsserts(l)
  <2>1. nextPl = "none"
    BY <1>0, <1>1 DEF LoaderAsserts, LoaderAt, SlotWhileLoading
  <2>2. GoTo(l, "creating") /\ UNCHANGED <<status, nextPl, aborted>>
    BY <1>1, <2>1 DEF LoaderAsserts
  <2> QED  BY <1>0, <2>1, <2>2, LoaderGoesOn
<1>2. CASE LoaderCreates(l)
  BY <1>0, <1>2, LoaderGoesOn DEF LoaderCreates
<1>3. CASE LoaderFills(l)
  <2>1. nextPl' = "partial"
    BY <1>0, <1>3 DEF LoaderFills, LoaderAt, SlotWhileLoading
  <2> QED  BY <1>0, <1>3, <2>1, LoaderGoesOn DEF LoaderFills
<1>4. CASE LoaderResolves(l)
  BY <1>0, <1>4, LoaderGoesOn DEF LoaderResolves
<1>5. CASE LoaderSleeps(l) \/ LoaderWakes(l)
  <2>1. nextPl' = "partial"
    BY <1>0, <1>5 DEF LoaderSleeps, LoaderWakes, LoaderAt, SlotWhileLoading
  <2> QED  BY <1>0, <1>5, <2>1, LoaderGoesOn DEF LoaderSleeps, LoaderWakes
<1>6. CASE LoaderDestroysNext(l)
  BY <1>0, <1>6, LoaderGoesOn DEF LoaderDestroysNext
<1>7. CASE LoaderInterrupted(l)
  <2>1. nextPl = "partial"
    BY <1>0, <1>7 DEF LoaderInterrupted, LoaderAt, SlotWhileLoading
  <2> QED  BY <1>0, <1>7, <2>1, LoaderGoes DEF LoaderInterrupted
<1>8. CASE LoaderFails(l)
  <2>1. nextPl = "none"
    BY <1>0, <1>8 DEF LoaderFails, LoaderAt, SlotWhileLoading
  <2> QED  BY <1>0, <1>8, <2>1, LoaderGoes DEF LoaderFails
<1>9. CASE LoaderIsDone(l)
  <2>1. nextPl = "ready"
    BY <1>0, <1>9 DEF LoaderIsDone, LoaderAt, SlotWhileLoading
  <2> QED  BY <1>0, <1>9, <2>1, LoaderGoes DEF LoaderIsDone
<1> QED  BY <1>1, <1>2, <1>3, <1>4, <1>5, <1>6, <1>7, <1>8, <1>9 DEF Load

-----------------------------------------------------------------------------
(* Signals                                                                   *)

\* A signal ends a sleep and no thread.
LEMMA WakesFacts ==
  ASSUME TypeOK, NEW t, Wakes(t)
  PROVE  /\ \A l \in Loaders : loader'[l] = "idle" <=> loader[l] = "idle"
         /\ Busy' <=> Busy
         /\ OneLoader => OneLoader'
         /\ SlotWhileLoading /\ nextPl' = nextPl => SlotWhileLoading'
<1>1. \A l \in Loaders :
        \/ loader'[l] = loader[l]
        \/ loader[l] = "sleeping" /\ loader'[l] = "interrupted"
  BY DEF Wakes
<1>2. \A l \in Loaders : loader'[l] = "idle" <=> loader[l] = "idle"
  BY <1>1
<1>3. (Busy' <=> Busy) /\ (OneLoader => OneLoader')
  BY <1>2 DEF Busy, Active, OneLoader
<1>4. SlotWhileLoading /\ nextPl' = nextPl => SlotWhileLoading'
  BY <1>1 DEF SlotWhileLoading
<1> QED  BY <1>2, <1>3, <1>4

\* A loop that is woken was in its poll, and what the phases of a reload are
\* told apart by does not change.
LEMMA WakesLoops ==
  ASSUME NEW t, Wakes(t)
  PROVE  /\ mainPc' = mainPc \/ (t = "main" /\ mainPc = "poll" /\ mainPc' = "returned")
         /\ driverPc' = driverPc
              \/ (t = "driver" /\ driverPc = "polling" /\ driverPc' = "returned")
  BY DEF Wakes

LEMMA SighupIInv ==
  ASSUME ~Overlapping, IInv, NEW t \in SignalThreads, SighupArrives(t)
  PROVE  OneLoader' /\ SharedOK' /\ ~aborted' /\ LoopsOK'
<1>0. /\ Wakes(t) /\ DealtWith /\ ~aborted' /\ sighup' = TRUE
      /\ UNCHANGED <<status, nextPl, shutdown>>
      /\ handler' = [handler EXCEPT ![t] = IF status = "NONE" THEN "schedule" ELSE "idle"]
  BY DEF SighupArrives, IInv
<1>1. /\ Busy' <=> Busy
      /\ OneLoader' /\ SlotWhileLoading'
  BY <1>0, WakesFacts DEF IInv
<1>2. /\ mainPc' = "created" <=> mainPc = "created"
      /\ mainPc' = "adopted" <=> mainPc = "adopted"
      /\ mainPc' = "ended" <=> mainPc = "ended"
      /\ driverPc' = "ended" <=> driverPc = "ended"
      /\ mainPc' # "returned" \/ driverPc' # "returned"
  BY <1>0, WakesLoops DEF DealtWith
<1>3. SlotAfterLoading'
  BY <1>0, <1>1, <1>2 DEF IInv, SlotAfterLoading
<1>4. StatusOK'
  BY <1>0, <1>1, <1>2 DEF IInv, StatusOK
<1>5. HandlersOK'
  <2> SUFFICES ASSUME NEW u \in SignalThreads, Deciding(u)'
               PROVE  /\ \A w \in SignalThreads : Deciding(w)' => w = u
                      /\ status' \in {"NONE", "RUNNING"} /\ nextPl' = "none" /\ ~Busy'
    BY DEF HandlersOK, Deciding
  <2>1. \A w \in SignalThreads : Deciding(w)' => w = t /\ status = "NONE"
    BY <1>0 DEF DealtWith, Deciding, IInv, TypeOK
  <2>2. status = "NONE" /\ u = t
    BY <2>1
  <2>3. ~Busy /\ nextPl = "none"
    BY <2>2 DEF IInv, StatusOK, SlotAfterLoading
  <2> QED  BY <1>0, <1>1, <2>1, <2>2, <2>3
<1>6. LoopsOK'
  BY <1>0, <1>2 DEF IInv, LoopsOK
<1> QED  BY <1>0, <1>1, <1>3, <1>4, <1>5, <1>6 DEF SharedOK

LEMMA ScheduleIInv ==
  ASSUME IInv, NEW t \in SignalThreads, SighupSchedules(t)
  PROVE  OneLoader' /\ SharedOK' /\ ~aborted' /\ LoopsOK'
<1>0. /\ Deciding(t) /\ handler' = [handler EXCEPT ![t] = "idle"] /\ status' = "SCHEDULED"
      /\ UNCHANGED <<nextPl, mainPc, loader, aborted, signalVars>>
  BY DEF SighupSchedules, Deciding
<1>1. /\ \A u \in SignalThreads : Deciding(u) => u = t
      /\ status \in {"NONE", "RUNNING"} /\ nextPl = "none" /\ ~Busy
  BY <1>0 DEF IInv, HandlersOK
<1>2. \A u \in SignalThreads : ~Deciding(u)'
  BY <1>0, <1>1 DEF IInv, TypeOK, Deciding
<1>3. ~Busy' /\ OneLoader' /\ SlotWhileLoading'
  BY <1>0, <1>1 DEF IInv, Busy, Active, OneLoader, SlotWhileLoading
<1>4. mainPc # "adopted"
  BY <1>1 DEF IInv, StatusOK
<1>5. SlotAfterLoading' /\ StatusOK' /\ HandlersOK'
  BY <1>0, <1>1, <1>2, <1>3, <1>4 DEF SlotAfterLoading, StatusOK, HandlersOK
<1>6. LoopsOK'
  BY <1>0 DEF IInv, LoopsOK, signalVars
<1> QED  BY <1>0, <1>3, <1>5, <1>6 DEF SharedOK, IInv

LEMMA SigintIInv ==
  ASSUME IInv, NEW t \in SignalThreads, SigintArrives(t)
  PROVE  OneLoader' /\ SharedOK' /\ ~aborted' /\ LoopsOK'
<1>0. /\ Wakes(t) /\ shutdown' = TRUE /\ ~aborted'
      /\ UNCHANGED <<status, nextPl, handler>>
  BY DEF SigintArrives, IInv
<1>1. /\ Busy' <=> Busy
      /\ OneLoader' /\ SlotWhileLoading'
  BY <1>0, WakesFacts DEF IInv
<1>2. /\ mainPc' = "created" <=> mainPc = "created"
      /\ mainPc' = "adopted" <=> mainPc = "adopted"
  BY <1>0, WakesLoops
<1>3. SlotAfterLoading' /\ StatusOK'
  BY <1>0, <1>1, <1>2 DEF IInv, SlotAfterLoading, StatusOK
<1>4. HandlersOK'
  BY <1>0, <1>1 DEF IInv, HandlersOK, Deciding
<1> QED  BY <1>0, <1>1, <1>3, <1>4 DEF SharedOK, LoopsOK

-----------------------------------------------------------------------------
(* The loops                                                                 *)

\* A step of a loop that leaves the reload alone.
LEMMA ReloadUntouched ==
  ASSUME IInv, UNCHANGED <<status, nextPl, loader, handler, aborted>>,
         mainPc' = "created" <=> mainPc = "created",
         mainPc' = "adopted" <=> mainPc = "adopted"
  PROVE  OneLoader' /\ SharedOK' /\ ~aborted'
<1>1. (Busy' <=> Busy) /\ OneLoader'
  BY DEF IInv, Busy, Active, OneLoader
<1>2. SlotWhileLoading' /\ SlotAfterLoading' /\ StatusOK'
  BY <1>1 DEF IInv, SlotWhileLoading, SlotAfterLoading, StatusOK
<1>3. HandlersOK'
  BY <1>1 DEF IInv, HandlersOK, Deciding
<1> QED  BY <1>1, <1>2, <1>3 DEF SharedOK, IInv

LEMMA LoopsIInv ==
  ASSUME IInv, Loops
  PROVE  OneLoader' /\ SharedOK' /\ ~aborted' /\ LoopsOK'
<1>1. CASE MainReturns
  <2>1. LoopsOK'
    BY <1>1 DEF MainReturns, At, IInv, LoopsOK
  <2>2. OneLoader' /\ SharedOK' /\ ~aborted'
    BY <1>1, ReloadUntouched DEF MainReturns, At
  <2> QED  BY <2>1, <2>2
<1>2. CASE DriverReturns
  <2>1. LoopsOK'
    BY <1>2 DEF DriverReturns, DriverAt, IInv, LoopsOK
  <2>2. OneLoader' /\ SharedOK' /\ ~aborted'
    BY <1>2, ReloadUntouched DEF DriverReturns
  <2> QED  BY <2>1, <2>2
<1>3. CASE DriverDied \/ StopSeen
  <2>1. LoopsOK'
    BY <1>3 DEF DriverDied, StopSeen, At, IInv, LoopsOK, signalVars
  <2>2. OneLoader' /\ SharedOK' /\ ~aborted'
    BY <1>3, ReloadUntouched DEF DriverDied, StopSeen, At
  <2> QED  BY <2>1, <2>2
<1> QED  BY <1>1, <1>2, <1>3 DEF Loops

\* A tick of the event loop leaves the loops as they are.
LEMMA TickLoops == IInv /\ Tick => LoopsOK'
<1> SUFFICES ASSUME IInv, Tick PROVE LoopsOK'
  OBVIOUS
<1>1. /\ mainPc \notin {"returned", "ended"} /\ mainPc' \notin {"returned", "ended"}
      /\ UNCHANGED signalVars
  BY DEF Tick, At, NothingScheduled, CreateThread, CreateThreadFails, MarkRunning,
         NothingToAdopt, UpdateProbelist, ClearStatus, EndTick
<1> QED  BY <1>1 DEF IInv, LoopsOK, signalVars

LEMMA TickIInv ==
  ASSUME IInv, Tick
  PROVE  OneLoader' /\ SharedOK' /\ ~aborted'
<1>1. CASE NothingScheduled \/ NothingToAdopt
  BY <1>1, ReloadUntouched DEF NothingScheduled, NothingToAdopt, At, EndTick
<1>2. CASE CreateThread
  <2>1. PICK l \in Loaders : ~Active(l) /\ loader' = [loader EXCEPT ![l] = "start"]
    BY <1>2 DEF CreateThread
  <2>2. /\ mainPc = "poll" /\ mainPc' = "created" /\ status = "SCHEDULED"
        /\ UNCHANGED <<status, nextPl, handler, aborted>>
    BY <1>2 DEF CreateThread, At
  <2>3. ~Busy /\ nextPl = "none" /\ \A t \in SignalThreads : ~Deciding(t)
    BY <2>2 DEF IInv, StatusOK, SlotAfterLoading, HandlersOK
  <2>4. /\ loader'[l] = "start"
        /\ \A k \in Loaders : k # l => loader'[k] = "idle"
    BY <2>1, <2>3 DEF Busy, Active, IInv, TypeOK
  <2>5. Busy' /\ OneLoader'
    BY <2>4 DEF Busy, Active, OneLoader
  <2>6. SlotWhileLoading'
    <3>1. \A k \in Loaders : loader'[k] \in {"start", "idle"}
      BY <2>4
    <3> QED  BY <2>2, <2>3, <3>1 DEF SlotWhileLoading
  <2>7. SlotAfterLoading' /\ StatusOK' /\ HandlersOK'
    BY <2>2, <2>3, <2>5 DEF SlotAfterLoading, StatusOK, HandlersOK, Deciding
  <2> QED  BY <2>2, <2>5, <2>6, <2>7 DEF SharedOK, IInv
<1>3. CASE CreateThreadFails
  <2>1. /\ mainPc = "poll" /\ mainPc' = "settle" /\ status = "SCHEDULED" /\ status' = "NONE"
        /\ UNCHANGED <<nextPl, loader, handler, aborted>>
    BY <1>3 DEF CreateThreadFails, At
  <2>2. ~Busy /\ nextPl = "none" /\ \A t \in SignalThreads : ~Deciding(t)
    BY <2>1 DEF IInv, StatusOK, SlotAfterLoading, HandlersOK
  <2>3. ~Busy' /\ OneLoader' /\ SlotWhileLoading'
    BY <2>1, <2>2 DEF IInv, Busy, Active, OneLoader, SlotWhileLoading
  <2>4. SlotAfterLoading' /\ StatusOK' /\ HandlersOK'
    BY <2>1, <2>2, <2>3 DEF SlotAfterLoading, StatusOK, HandlersOK, Deciding
  <2> QED  BY <2>1, <2>3, <2>4 DEF SharedOK, IInv
<1>4. CASE MarkRunning
  <2>1. /\ mainPc = "created" /\ mainPc' = "settle" /\ status' = "RUNNING"
        /\ UNCHANGED <<nextPl, loader, handler, aborted>>
    BY <1>4 DEF MarkRunning, At
  <2>2. (Busy' <=> Busy) /\ OneLoader' /\ SlotWhileLoading'
    BY <2>1 DEF IInv, Busy, Active, OneLoader, SlotWhileLoading
  <2>3. SlotAfterLoading' /\ StatusOK' /\ HandlersOK'
    BY <2>1, <2>2 DEF IInv, SlotAfterLoading, StatusOK, HandlersOK, Deciding
  <2> QED  BY <2>1, <2>2, <2>3 DEF SharedOK, IInv
<1>5. CASE UpdateProbelist
  <2>1. /\ mainPc = "settle" /\ mainPc' = "adopted" /\ status = "DONE" /\ nextPl' = "none"
        /\ UNCHANGED <<status, loader, handler, aborted>>
    BY <1>5 DEF UpdateProbelist, At, Adopts
  <2>2. ~Busy /\ \A t \in SignalThreads : ~Deciding(t)
    BY <2>1 DEF IInv, StatusOK, HandlersOK
  <2>3. \A l \in Loaders : loader'[l] = "idle"
    BY <2>1, <2>2 DEF Busy, Active
  <2>4. ~Busy' /\ OneLoader' /\ SlotWhileLoading'
    BY <2>3 DEF Busy, Active, OneLoader, SlotWhileLoading
  <2>5. SlotAfterLoading' /\ StatusOK' /\ HandlersOK'
    BY <2>1, <2>2, <2>4 DEF SlotAfterLoading, StatusOK, HandlersOK, Deciding
  <2> QED  BY <2>1, <2>4, <2>5 DEF SharedOK, IInv
<1>6. CASE ClearStatus
  <2>1. /\ mainPc = "adopted" /\ mainPc' = "poll" /\ status' = "NONE"
        /\ UNCHANGED <<nextPl, loader, handler, aborted>>
    BY <1>6 DEF ClearStatus, At, EndTick
  <2>2. /\ ~Busy /\ nextPl = "none" /\ \A t \in SignalThreads : ~Deciding(t)
    BY <2>1 DEF IInv, StatusOK, SlotAfterLoading, HandlersOK
  <2>3. ~Busy' /\ OneLoader' /\ SlotWhileLoading'
    BY <2>1, <2>2 DEF IInv, Busy, Active, OneLoader, SlotWhileLoading
  <2>4. SlotAfterLoading' /\ StatusOK' /\ HandlersOK'
    BY <2>1, <2>2, <2>3 DEF SlotAfterLoading, StatusOK, HandlersOK, Deciding
  <2> QED  BY <2>1, <2>3, <2>4 DEF SharedOK, IInv
<1> QED  BY <1>1, <1>2, <1>3, <1>4, <1>5, <1>6 DEF Tick

-----------------------------------------------------------------------------
(* The invariant                                                             *)

LEMMA InitIInv == Init => IInv
<1> SUFFICES ASSUME Init PROVE IInv
  OBVIOUS
<1>1. ~Busy /\ OneLoader /\ SlotWhileLoading
  BY DEF Init, Busy, Active, OneLoader, SlotWhileLoading
<1>2. SlotAfterLoading /\ StatusOK /\ HandlersOK /\ LoopsOK /\ ~aborted
  BY <1>1 DEF Init, SlotAfterLoading, StatusOK, HandlersOK, Deciding, LoopsOK
<1> QED  BY <1>1, <1>2, TypeInit DEF IInv

LEMMA StepIInv ==
  ASSUME ~Overlapping, IInv, [Next]_vars
  PROVE  IInv'
<1> SUFFICES OneLoader' /\ SharedOK' /\ ~aborted' /\ LoopsOK'
  BY TypeStep DEF IInv, SharedOK
<1>1. CASE Signals
  BY <1>1, SighupIInv, ScheduleIInv, SigintIInv DEF Signals
<1>2. CASE Loops
  BY <1>2, LoopsIInv
<1>3. CASE Tick
  BY <1>3, TickIInv, TickLoops
<1>4. ASSUME NEW l \in Loaders, Load(l) PROVE OneLoader' /\ SharedOK' /\ ~aborted' /\ LoopsOK'
  BY <1>4, LoadIInv DEF IInv, LoopsOK, signalVars
<1>5. CASE UNCHANGED vars
  BY <1>5, ReloadUntouched DEF vars, signalVars, IInv, LoopsOK
<1> QED  BY <1>1, <1>2, <1>3, <1>4, <1>5 DEF Next

\* assert(NEXT_PL == NULL) never fails: as long as SIGHUPs do not overlap, a
\* reload starts over an empty slot, however the last one ended.
THEOREM SlotIsFree == ASSUME ~Overlapping PROVE Spec => []NextNullAtPrepare
<1>1. IInv => NextNullAtPrepare
  BY DEF IInv, NextNullAtPrepare
<1> QED  BY InitIInv, StepIInv, <1>1, PTL DEF Spec

\* The status word alone keeps a second reload thread from being created.
THEOREM OneReloadThread == ASSUME ~Overlapping PROVE Spec => []OneLoader
<1>1. IInv => OneLoader
  BY DEF IInv
<1> QED  BY InitIInv, StepIInv, <1>1, PTL DEF Spec

\* No loop takes a SIGHUP for the end, whichever threads it wakes.
THEOREM LoopsEndOnlyWhenStopped == ASSUME ~Overlapping PROVE Spec => []OnlyStopEndsLoops
<1>1. IInv => OnlyStopEndsLoops
  BY DEF IInv, LoopsOK, OnlyStopEndsLoops
<1> QED  BY InitIInv, StepIInv, <1>1, PTL DEF Spec

\* The list that the loop adopts has been prepared to its end, and no thread is
\* at work on it.
THEOREM WholeListsAdopted == ASSUME ~Overlapping PROVE Spec => AdoptsWhole
<1>1. ASSUME IInv, UpdateProbelist
      PROVE  nextPl = "ready" /\ \A l \in Loaders : ~Active(l)
  <2>1. status = "DONE" /\ mainPc = "settle"
    BY <1>1 DEF UpdateProbelist, Adopts, At
  <2>2. ~Busy
    BY <1>1, <2>1 DEF IInv, StatusOK
  <2> QED  BY <1>1, <2>1, <2>2 DEF IInv, SlotAfterLoading, Busy
<1>2. IInv /\ [Next]_vars =>
        [UpdateProbelist => nextPl = "ready" /\ \A l \in Loaders : ~Active(l)]_vars
  BY <1>1
<1> QED  BY InitIInv, StepIInv, <1>2, PTL DEF Spec, AdoptsWhole

-----------------------------------------------------------------------------
(* The refinement                                                            *)

\* What the protocol sees outside the two windows in which the loop has started
\* a change of the status and not yet written it, and inside them.
LEMMA ViewFacts ==
  /\ mainPc = "created"
       => View = [status |-> "SCHEDULED", loading |-> FALSE, next |-> "none"]
  /\ mainPc \notin {"created", "adopted"} /\ Busy
       => View = [status |-> status, loading |-> TRUE, next |-> "none"]
  /\ mainPc \notin {"created", "adopted"} /\ ~Busy
       => View = [status |-> status, loading |-> FALSE, next |-> nextPl]
  /\ mainPc = "adopted" /\ ~Busy
       => View = [status |-> "NONE", loading |-> FALSE, next |-> nextPl]
<1>1. Loading <=> mainPc # "created" /\ Busy
  BY DEF Loading, Busy
<1> QED  BY <1>1 DEF View

LEMMA ViewFactsNext ==
  /\ mainPc' = "created"
       => View' = [status |-> "SCHEDULED", loading |-> FALSE, next |-> "none"]
  /\ mainPc' \notin {"created", "adopted"} /\ Busy'
       => View' = [status |-> status', loading |-> TRUE, next |-> "none"]
  /\ mainPc' \notin {"created", "adopted"} /\ ~Busy'
       => View' = [status |-> status', loading |-> FALSE, next |-> nextPl']
  /\ mainPc' = "adopted" /\ ~Busy'
       => View' = [status |-> "NONE", loading |-> FALSE, next |-> nextPl']
<1>1. Loading' <=> mainPc' # "created" /\ Busy'
  BY DEF Loading, Busy, Active
<1> QED  BY <1>1 DEF View

\* An adopted list is never a thread's.
LEMMA AdoptedIsIdle == IInv /\ mainPc = "adopted" => ~Busy
  BY DEF IInv, StatusOK

LEMMA AdoptedIsIdleNext == IInv' /\ mainPc' = "adopted" => ~Busy'
  BY DEF IInv, StatusOK

\* Where nothing shared changes, the protocol sees nothing.
LEMMA ViewStutters ==
  ASSUME IInv, IInv', status' = status, nextPl' = nextPl, Busy' <=> Busy,
         mainPc' = "created" <=> mainPc = "created",
         mainPc' = "adopted" <=> mainPc = "adopted"
  PROVE  View' = View
BY ViewFacts, ViewFactsNext, AdoptedIsIdle, AdoptedIsIdleNext

LEMMA ViewInit == Init => Protocol!ReloadInit
<1> SUFFICES ASSUME Init PROVE Protocol!ReloadInit
  OBVIOUS
<1>1. ~Busy /\ mainPc = "poll" /\ status = "NONE" /\ nextPl = "none"
  BY DEF Init, Busy, Active
<1> QED  BY <1>1, ViewFacts DEF Protocol!ReloadInit, Protocol!NoReload

\* The handler's assignment is the protocol's request, unless the loop is about
\* to write RUNNING over it.
LEMMA ScheduleView ==
  ASSUME IInv, IInv', NEW t \in SignalThreads, SighupSchedules(t)
  PROVE  Protocol!Request \/ View' = View
<1>1. /\ status \in {"NONE", "RUNNING"} /\ nextPl = "none" /\ ~Busy /\ ~Busy'
      /\ status' = "SCHEDULED" /\ nextPl' = nextPl /\ mainPc' = mainPc
  BY DEF SighupSchedules, IInv, HandlersOK, Deciding, Busy, Active
<1>2. mainPc # "adopted"
  BY <1>1 DEF IInv, StatusOK
<1>3. CASE mainPc = "created"
  BY <1>1, <1>3, ViewFacts, ViewFactsNext
<1>4. CASE mainPc # "created"
  <2>1. /\ View = [status |-> status, loading |-> FALSE, next |-> "none"]
        /\ View' = [status |-> "SCHEDULED", loading |-> FALSE, next |-> "none"]
    BY <1>1, <1>2, <1>4, ViewFacts, ViewFactsNext
  <2>2. View' = [View EXCEPT !.status = "SCHEDULED"]
    <3> DEFINE idle(st, loading) == [status |-> st, loading |-> loading, next |-> "none"]
    <3>1. ASSUME NEW st, NEW loading
          PROVE  idle("SCHEDULED", loading) = [idle(st, loading) EXCEPT !.status = "SCHEDULED"]
      OBVIOUS
    <3>2. View = idle(status, FALSE) /\ View' = idle("SCHEDULED", FALSE)
      BY <2>1
    <3> HIDE DEF idle
    <3> QED  BY <3>1, <3>2, Zenon
  <2>3. \/ View.status = "NONE"
        \/ View.status = "RUNNING" /\ ~View.loading /\ View.next = "none"
    BY <1>1, <2>1
  <2> QED  BY <2>2, <2>3 DEF Protocol!Request
<1> QED  BY <1>3, <1>4

\* Creating the thread shows when RUNNING is written over what it has done by
\* then, or when it fails.
LEMMA TickView ==
  ASSUME IInv, IInv', Tick
  PROVE  Protocol!ReloadNext \/ View' = View
<1>1. CASE NothingScheduled \/ NothingToAdopt
  <2>1. /\ status' = status /\ nextPl' = nextPl /\ (Busy' <=> Busy)
        /\ mainPc \notin {"created", "adopted"} /\ mainPc' \notin {"created", "adopted"}
    BY <1>1 DEF NothingScheduled, NothingToAdopt, At, EndTick, Busy, Active
  <2> QED  BY <2>1, ViewStutters
<1>2. CASE CreateThread
  <2>1. mainPc = "poll" /\ mainPc' = "created" /\ status = "SCHEDULED"
    BY <1>2 DEF CreateThread, At
  <2>2. ~Busy /\ nextPl = "none"
    BY <2>1 DEF IInv, StatusOK, SlotAfterLoading
  <2> QED  BY <2>1, <2>2, ViewFacts, ViewFactsNext
<1>3. CASE CreateThreadFails
  <2>1. /\ mainPc = "poll" /\ mainPc' = "settle" /\ status = "SCHEDULED"
        /\ status' = "NONE" /\ nextPl' = nextPl /\ (Busy' <=> Busy)
    BY <1>3 DEF CreateThreadFails, At, Busy, Active
  <2>2. ~Busy /\ nextPl = "none"
    BY <2>1 DEF IInv, StatusOK, SlotAfterLoading
  <2>3. /\ View = [status |-> "SCHEDULED", loading |-> FALSE, next |-> "none"]
        /\ View' = [status |-> "NONE", loading |-> FALSE, next |-> "none"]
    BY <2>1, <2>2, ViewFacts, ViewFactsNext
  <2> QED  BY <2>3
           DEF Protocol!ReloadNext, Protocol!AfterScheduling, Protocol!NoReload
<1>4. CASE MarkRunning
  <2>1. /\ mainPc = "created" /\ mainPc' = "settle" /\ status' = "RUNNING"
        /\ nextPl' = nextPl
    BY <1>4 DEF MarkRunning, At
  <2>2. View = [status |-> "SCHEDULED", loading |-> FALSE, next |-> "none"]
    BY <2>1, ViewFacts
  <2>3. CASE Busy'
    <3>1. View' = [status |-> "RUNNING", loading |-> TRUE, next |-> "none"]
      BY <2>1, <2>3, ViewFactsNext
    <3> QED  BY <2>2, <3>1 DEF Protocol!ReloadNext, Protocol!AfterScheduling
  <2>4. CASE ~Busy'
    <3>1. View' = [status |-> "RUNNING", loading |-> FALSE, next |-> nextPl]
      BY <2>1, <2>4, ViewFactsNext
    <3>2. nextPl \in {"partial", "ready"} \cup {"none"}
      BY DEF IInv, TypeOK
    <3>3. View' \in [status : {"RUNNING"}, loading : {FALSE},
                     next : {"partial", "ready"} \cup {"none"}]
      BY <3>1, <3>2
    <3> QED  BY <2>2, <3>3 DEF Protocol!ReloadNext, Protocol!AfterScheduling
  <2> QED  BY <2>3, <2>4
<1>5. CASE UpdateProbelist
  <2>1. /\ mainPc = "settle" /\ mainPc' = "adopted" /\ status = "DONE"
        /\ nextPl' = "none" /\ (Busy' <=> Busy)
    BY <1>5 DEF UpdateProbelist, At, Adopts, Busy, Active
  <2>2. ~Busy
    BY <2>1 DEF IInv, StatusOK
  <2>3. /\ View = [status |-> "DONE", loading |-> FALSE, next |-> nextPl]
        /\ View' = [status |-> "NONE", loading |-> FALSE, next |-> "none"]
    BY <2>1, <2>2, ViewFacts, ViewFactsNext
  <2> QED  BY <2>3 DEF Protocol!ReloadNext, Protocol!Adopt, Protocol!NoReload
<1>6. CASE ClearStatus
  <2>1. /\ mainPc = "adopted" /\ mainPc' = "poll" /\ status' = "NONE"
        /\ nextPl' = nextPl /\ (Busy' <=> Busy)
    BY <1>6 DEF ClearStatus, At, EndTick, Busy, Active
  <2>2. ~Busy
    BY <2>1, AdoptedIsIdle
  <2> QED  BY <2>1, <2>2, ViewFacts, ViewFactsNext
<1> QED  BY <1>1, <1>2, <1>3, <1>4, <1>5, <1>6 DEF Tick

\* The thread's steps show when it ends, unless RUNNING is still to be written.
LEMMA LoadView ==
  ASSUME IInv, IInv', NEW l \in Loaders, Load(l)
  PROVE  Protocol!LoaderEnds \/ View' = View
<1>0. /\ mainPc' = mainPc /\ Active(l) /\ Busy /\ ~aborted /\ ~aborted'
      /\ mainPc # "adopted" /\ SlotWhileLoading
      /\ mainPc # "created" => status = "RUNNING"
  BY LoadIInv DEF IInv, StatusOK, Busy, Active, Load, LoaderAt, LoaderAsserts,
     LoaderCreates, LoaderFills, LoaderResolves, LoaderSleeps, LoaderWakes,
     LoaderInterrupted, LoaderDestroysNext, LoaderFails, LoaderIsDone
<1>1. CASE mainPc = "created"
  BY <1>0, <1>1, ViewFacts, ViewFactsNext
<1>2. CASE mainPc # "created"
  <2>1. View = [status |-> "RUNNING", loading |-> TRUE, next |-> "none"]
    BY <1>0, <1>2, ViewFacts
  <2>2. CASE Busy'
    <3>1. status' = status
      BY <1>0, <1>2, <2>2 DEF IInv, StatusOK
    <3>2. View' = View
      BY <1>0, <1>2, <2>1, <2>2, <3>1, ViewFactsNext
    <3> QED  BY <3>2
  <2>3. CASE ~Busy'
    <3>1. View' = [status |-> status', loading |-> FALSE, next |-> nextPl']
      BY <1>0, <1>2, <2>3, ViewFactsNext
    <3>2. LoaderInterrupted(l) \/ LoaderFails(l) \/ LoaderIsDone(l)
      <4>1. ASSUME NEW pc, GoTo(l, pc), pc # "idle" PROVE FALSE
        BY <1>0, <2>3, <4>1, TheLoaderMoves DEF IInv
      <4> QED  BY <1>0, <4>1 DEF Load, LoaderAsserts, LoaderCreates, LoaderFills,
                    LoaderResolves, LoaderSleeps, LoaderWakes, LoaderDestroysNext
    <3>3. \/ status' = "RUNNING" /\ nextPl' = "partial"
          \/ status' = "NONE" /\ nextPl' = "none"
          \/ status' = "DONE" /\ nextPl' = "ready"
      BY <1>0, <1>2, <3>2 DEF LoaderInterrupted, LoaderFails, LoaderIsDone, LoaderAt,
                              SlotWhileLoading
    <3> QED  BY <2>1, <3>1, <3>3 DEF Protocol!LoaderEnds, Protocol!NoReload
  <2> QED  BY <2>2, <2>3
<1> QED  BY <1>1, <1>2

LEMMA StepView ==
  ASSUME IInv, IInv', [Next]_vars
  PROVE  [Protocol!ReloadNext]_View
<1> SUFFICES Protocol!ReloadNext \/ View' = View
  OBVIOUS
<1>1. ASSUME NEW t \in SignalThreads, SighupArrives(t) \/ SigintArrives(t)
      PROVE  View' = View
  <2>1. status' = status /\ nextPl' = nextPl /\ Wakes(t)
    BY <1>1 DEF SighupArrives, SigintArrives
  <2>2. Busy' <=> Busy
    BY <2>1, WakesFacts DEF IInv
  <2>3. /\ mainPc' = "created" <=> mainPc = "created"
        /\ mainPc' = "adopted" <=> mainPc = "adopted"
    BY <2>1, WakesLoops
  <2> QED  BY <2>1, <2>2, <2>3, ViewStutters
<1>2. ASSUME NEW t \in SignalThreads, SighupSchedules(t)
      PROVE  Protocol!ReloadNext \/ View' = View
  BY <1>2, ScheduleView DEF Protocol!ReloadNext
<1>3. CASE Loops \/ UNCHANGED vars
  <2>1. /\ status' = status /\ nextPl' = nextPl /\ (Busy' <=> Busy)
        /\ mainPc' = "created" <=> mainPc = "created"
        /\ mainPc' = "adopted" <=> mainPc = "adopted"
    BY <1>3 DEF Loops, MainReturns, DriverReturns, DriverDied, StopSeen, At, vars, Busy,
                Active
  <2> QED  BY <2>1, ViewStutters
<1>4. CASE Tick
  BY <1>4, TickView
<1>5. ASSUME NEW l \in Loaders, Load(l) PROVE Protocol!ReloadNext \/ View' = View
  BY <1>5, LoadView DEF Protocol!ReloadNext
<1> QED  BY <1>1, <1>2, <1>3, <1>4, <1>5 DEF Next, Signals

\* The handler, the loop and the thread implement the protocol that Prober is
\* built on, one access to the shared state at a time.
THEOREM ReloadImplementsProtocol == ASSUME ~Overlapping PROVE Spec => ImplementsProtocol
<1>1. IInv /\ IInv' /\ [Next]_vars => [Protocol!ReloadNext]_View
  BY StepView
<1> QED  BY InitIInv, StepIInv, ViewInit, <1>1, PTL
         DEF Spec, ImplementsProtocol, Protocol!ReloadSpec

=============================================================================

------------------------------- MODULE Prober -------------------------------
(***************************************************************************)
(* The prober's event loop (lib/trinarkular_prober.c): one thread that, on *)
(* a periodic timer, hands the next slice of the probelist to the probe    *)
(* drivers, and that, on every answer, updates its belief in the /24 and   *)
(* decides whether to probe it again.  A probelist can be replaced while   *)
(* the loop runs: a signal schedules a reload, a thread prepares the next  *)
(* list, the timer adopts it at the end of a round.                        *)
(*                                                                         *)
(* The drivers are one channel: every probe queued is answered once, in    *)
(* any order, unless the driver drops it.  Beliefs are percentages drawn   *)
(* from a finite set of levels: an answer moves the belief strictly up or  *)
(* down unless it is already at the cap, to any level (the Bayesian update *)
(* decides which one; the control flow only sees the direction and the     *)
(* class of the new belief).  The thread that reloads is one step here;    *)
(* its own steps are in module Reload.                                     *)
(*                                                                         *)
(* An operator whose name starts with Mut is a broken variant of the one   *)
(* it precedes; no specification uses it.                                  *)
(***************************************************************************)
EXTENDS ReloadProtocol, Integers, Sequences, FiniteSets, Functions

CONSTANTS
  Slash24s,          \* the /24s any probelist of this instance may name
  Slices,            \* periodic_round_slices while the loop runs
  SizingSlices,      \* periodic_round_slices when the first list was sized
  SkipFactor,        \* slices that may be outstanding before one is skipped (5)
  ProbeBudget,       \* adaptive probes per /24 (TRINARKULAR_PROBER_ROUND_PROBE_BUDGET)
  RecoveryBudgetOf,  \* recovery probes per /24, from its A(E(b))
  Levels,            \* the beliefs of this instance, in percent
  RsuMax,            \* largest rounds_since_up (255)
  BackoffMax,        \* where rounds_since_up restarts (RECOVERY_BACKOFF_MAX)
  Metas,             \* metadata tags with aggregate counters
  MetasOf,           \* the tags of each /24
  RoundLimit,        \* periodic_round_limit, 0 when unlimited
  MaxLost,           \* bound: probes the drivers drop in a behaviour
  Sighups            \* whether reloads are requested in this instance

ProbeTypes == {"PERIODIC", "ADAPTIVE", "RECOVERY"}
BeliefStates == {"UNCERTAIN", "DOWN", "UP"}

BeliefMax == 99   \* the cap of sec 4.2 of the paper, and the first belief
BeliefMin == 1
Undecided == 50   \* where a /24 goes when its budget runs out

ASSUME ConstantsAssumption ==
  /\ IsFiniteSet(Slash24s)
  /\ \A l \in Lists : /\ l \in Seq(Slash24s)
                      /\ \A i, j \in DOMAIN l : l[i] = l[j] => i = j
  /\ NoList \notin Lists
  /\ Slices \in Nat \ {0}
  /\ SizingSlices \in Nat \ {0}
  /\ SkipFactor \in Nat
  /\ ProbeBudget \in Nat
  /\ RecoveryBudgetOf \in [Slash24s -> Nat]
  /\ Levels \subseteq BeliefMin..BeliefMax
  /\ {BeliefMin, Undecided, BeliefMax} \subseteq Levels
  /\ RsuMax \in Nat /\ BackoffMax \in 0..RsuMax
  \* on a /24 with no tag realloc (copy_state) may fail and end the loop
  /\ MetasOf \in [Slash24s -> (SUBSET Metas) \ {{}}]
  /\ RoundLimit \in Nat
  /\ MaxLost \in Nat
  /\ Sighups \in BOOLEAN

VARIABLES
  running,       \* zloop_start has not returned
  shutdown,      \* prober->shutdown, or the interrupt flag of the loop
  list,          \* ACTIVE_PL: the probelist being probed
  iter,          \* slash24_iter: how many /24s of it this round has reached
  sliceSize,     \* slice_size
  currentSlice,  \* current_slice
  started,       \* probing_started
  state,         \* the trinarkular_slash24_state_t of every /24
  stateCnt,      \* stats.slash24_state_cnts of the active list
  overall,       \* the aggregate counters of every metadata tag
  outstanding,   \* outstanding_probe_cnt
  inflight,      \* probes of each /24 a driver will still answer
  \* Variables that no action reads, for the properties:
  lost,          \* probes of each /24 that a driver dropped
  missing,       \* answers whose /24 was not in the active list
  skipped,       \* was a slice skipped since the round started?
  roundAdaptive, \* adaptive probes sent to each /24 since the round started
  roundsEnded    \* calls of end_of_round, counted when there is a round limit

vars == <<running, shutdown, list, iter, sliceSize, currentSlice, started,
          state, stateCnt, overall, outstanding, inflight, reload,
          lost, missing, skipped, roundAdaptive, roundsEnded>>

loopVars == <<running, shutdown>>
roundVars == <<list, iter, sliceSize, currentSlice, started, skipped, roundsEnded>>
countVars == <<stateCnt, overall>>
ghostVars == <<lost, missing, roundAdaptive>>

(***************************************************************************)
(* Operators                                                               *)
(***************************************************************************)

CeilDiv(n, d) == (n + d - 1) \div d

\* BELIEF_STATE
Class(b) == IF b < 10 THEN "DOWN" ELSE IF b > 90 THEN "UP" ELSE "UNCERTAIN"

\* RECOVERY_ELIGIBLE
RecoveryEligible(rsu) == rsu <= 4 \/ rsu = 8 \/ rsu % 16 = 0

\* A down /24 that answers is taken to be up at once.
MutBecomingUncertain(old, new) ==
  Class(new) = "UNCERTAIN" \/ (Class(old) = "UP" /\ old > new)

\* BECOMING_UNCERTAIN
BecomingUncertain(old, new) ==
  \/ Class(new) = "UNCERTAIN"
  \/ Class(old) = "UP" /\ old > new
  \/ Class(old) = "DOWN" /\ new > old

\* update_bayesian_belief: where a positive or a negative answer can lead.
BeliefAfter(old, responsive) ==
  IF responsive THEN {b \in Levels : b > old \/ b = BeliefMax}
                ELSE {b \in Levels : b < old \/ b = BeliefMin}

\* The probes that f counts, f[s] of each /24, and their number.
ProbesOf(f) == UNION {{s} \X (1..f[s]) : s \in Slash24s}
Total(f) == Cardinality(ProbesOf(f))

FreshState(s) ==
  [last_probe_type |-> "UNPROBED",
   adaptive        |-> ProbeBudget,
   recovery        |-> RecoveryBudgetOf[s],
   current_belief  |-> BeliefMax,
   current_state   |-> Class(BeliefMax),
   rounds_since_up |-> 0]

Tagged(l, m) == {s \in Range(l) : m \in MetasOf[s]}
FreshCnt(S) == [c \in BeliefStates |-> IF c = "UP" THEN Cardinality(S) ELSE 0]
FreshOverall(l) == [m \in Metas |-> FreshCnt(Tagged(l, m))]

\* The counter is not folded.
MutNextRoundsSinceUp(st) ==
  IF Class(st.current_belief) = "UP" THEN 0 ELSE st.rounds_since_up + 1

\* One more round since the /24 was up, folded so that it never wraps.
NextRoundsSinceUp(st) ==
  IF Class(st.current_belief) = "UP" THEN 0
  ELSE IF st.rounds_since_up < RsuMax THEN st.rounds_since_up + 1
  ELSE BackoffMax

\* Budgets add up from round to round.
MutProbePeriodically(s, st) ==
  [st EXCEPT !.last_probe_type = "PERIODIC",
             !.adaptive = @ + ProbeBudget,
             !.recovery = RecoveryBudgetOf[s],
             !.rounds_since_up = NextRoundsSinceUp(st)]

\* What the timer does to a /24 of its slice, the give-up on an unanswered
\* probe and the periodic probe included.
ProbePeriodically(s, st) ==
  [st EXCEPT !.last_probe_type = "PERIODIC",
             !.adaptive = ProbeBudget,
             !.recovery = RecoveryBudgetOf[s],
             !.rounds_since_up = NextRoundsSinceUp(st)]

Move(cnt, from, to) ==
  [c \in BeliefStates |-> cnt[c] - (IF c = from THEN 1 ELSE 0)
                                 + (IF c = to THEN 1 ELSE 0)]

-----------------------------------------------------------------------------
(***************************************************************************)
(* The timer                                                               *)
(***************************************************************************)

Round == currentSlice \div Slices
AtBoundary == currentSlice % Slices = 0

RoundOver == ~started \/ iter >= Len(list)

\* current_slice counts for ever.  The code only asks where in its round it
\* is, whether this is the first round and whether the limit is reached, so the
\* model folds the counter over the last round it can tell apart.
LastRound == IF RoundLimit = 0 THEN 1 ELSE RoundLimit

NextSlice ==
  IF currentSlice + 1 = (LastRound + 1) * Slices THEN LastRound * Slices
                                                 ELSE currentSlice + 1

Adopts(r) == Round > 0 /\ r.status = "DONE"

\* No limit to the probes outstanding.
MutBacklogged(size) == FALSE

\* One probe too early.
MutBackloggedEarly(size) == outstanding >= size * SkipFactor

Backlogged(size) == outstanding > size * SkipFactor

SliceEnd(l, from, size) == IF from + size < Len(l) THEN from + size ELSE Len(l)

\* The iterator moves on over a slice that is skipped.
MutReached(l, from, size) == SliceEnd(l, from, size)

Reached(l, from, size) == IF Backlogged(size) THEN from ELSE SliceEnd(l, from, size)

\* The rest of the handler once the round is settled: skip the slice, or queue
\* a periodic probe for each /24 of it.  before: was a slice of the round
\* skipped already?
QueueSlice(l, from, size, st, before) ==
  LET batch == {l[i] : i \in ((from + 1)..(from + size)) \cap DOMAIN l}
  IN  /\ currentSlice' = NextSlice
      /\ iter' = Reached(l, from, size)
      /\ IF Backlogged(size)
         THEN /\ state' = st
              /\ skipped' = TRUE
              /\ UNCHANGED <<outstanding, inflight>>
         ELSE /\ state' = [s \in Slash24s |->
                             IF s \in batch THEN ProbePeriodically(s, st[s]) ELSE st[s]]
              /\ outstanding' = outstanding + iter' - from
              /\ inflight' = [s \in Slash24s |->
                                IF s \in batch THEN inflight[s] + 1 ELSE inflight[s]]
              /\ skipped' = before

TimerFires == running /\ ~shutdown

\* In the middle of a round with /24s left.
TimerMidRound ==
  /\ TimerFires
  /\ ~RoundOver
  /\ reload' \in AfterScheduling
  /\ QueueSlice(list, iter, sliceSize, state, skipped)
  /\ UNCHANGED <<loopVars, list, sliceSize, started, roundsEnded, countVars,
                 ghostVars>>

\* "No /24s left to probe in round"
TimerNothingLeft ==
  /\ TimerFires
  /\ RoundOver
  /\ ~AtBoundary
  /\ reload' \in AfterScheduling
  /\ currentSlice' = NextSlice
  /\ UNCHANGED <<loopVars, list, iter, sliceSize, started, skipped, roundsEnded,
                 state, countVars, outstanding, inflight, ghostVars>>

\* One round too many.
MutLimitReached == RoundLimit > 0 /\ Round > RoundLimit

LimitReached == RoundLimit > 0 /\ Round >= RoundLimit

\* end_of_round dumps the statistics of the round; the first tick has none.
EndOfRound ==
  roundsEnded' = IF RoundLimit > 0 /\ Round > 0 THEN roundsEnded + 1 ELSE roundsEnded

\* The slice size of the old list is kept.
MutSettleList(r) ==
  IF Adopts(r)
  THEN /\ list' = r.next
       /\ stateCnt' = FreshCnt(Range(r.next))
       /\ overall' = FreshOverall(r.next)
       /\ reload' = NoReload
       /\ UNCHANGED sliceSize
  ELSE reload' = r /\ UNCHANGED <<list, sliceSize, countVars>>

\* Take the list the thread prepared, if it is ready: update_probelist.
SettleList(r) ==
  IF Adopts(r)
  THEN /\ list' = r.next
       /\ sliceSize' = CeilDiv(Len(r.next), Slices)
       /\ stateCnt' = FreshCnt(Range(r.next))
       /\ overall' = FreshOverall(r.next)
       /\ reload' = NoReload
  ELSE /\ reload' = r
       /\ UNCHANGED <<list, sliceSize, countVars>>

\* Beliefs survive a reload that resets the counters.
MutStatesAfterSettling(r) == state

StatesAfterSettling(r) ==
  IF Adopts(r) THEN [s \in Slash24s |-> FreshState(s)] ELSE state

\* The first round starts, or a round ends and the next one starts.
TimerNewRound ==
  /\ TimerFires
  /\ RoundOver
  /\ AtBoundary
  /\ ~LimitReached
  /\ EndOfRound
  /\ \E r \in AfterScheduling :
       /\ SettleList(r)
       /\ QueueSlice(list', 0, sliceSize', StatesAfterSettling(r), FALSE)
  /\ started' = TRUE
  /\ roundAdaptive' = [s \in Slash24s |-> 0]
  /\ UNCHANGED <<loopVars, lost, missing>>

\* The last round ends: the handler returns -1 and the loop with it.
TimerLimitReached ==
  /\ TimerFires
  /\ RoundOver
  /\ AtBoundary
  /\ LimitReached
  /\ EndOfRound
  /\ \E r \in AfterScheduling :
       /\ SettleList(r)
       /\ state' = StatesAfterSettling(r)
       /\ iter' = IF Adopts(r) THEN Len(r.next) ELSE iter
  /\ running' = FALSE
  /\ UNCHANGED <<shutdown, currentSlice, started, skipped, outstanding, inflight,
                 ghostVars>>

HandleTimer ==
  TimerMidRound \/ TimerNothingLeft \/ TimerNewRound \/ TimerLimitReached

-----------------------------------------------------------------------------
(***************************************************************************)
(* Answers                                                                 *)
(***************************************************************************)

AnswerArrives(s) == running /\ ~shutdown /\ inflight[s] > 0

\* "Missing /24": the answer is dropped before the counter is decremented.
AnswerMissing(s) ==
  /\ AnswerArrives(s)
  /\ s \notin Range(list)
  /\ inflight' = [inflight EXCEPT ![s] = @ - 1]
  /\ missing' = missing + 1
  /\ UNCHANGED <<loopVars, roundVars, state, countVars, outstanding, reload,
                 lost, roundAdaptive>>

\* An answer nobody waits for is not counted.
MutAnswerIgnored(s) ==
  /\ AnswerArrives(s)
  /\ s \in Range(list)
  /\ state[s].last_probe_type = "UNPROBED"
  /\ inflight' = [inflight EXCEPT ![s] = @ - 1]
  /\ UNCHANGED <<loopVars, roundVars, state, countVars, outstanding, reload,
                 ghostVars>>

\* The answer of a probe the prober has already decided without.
AnswerIgnored(s) ==
  /\ AnswerArrives(s)
  /\ s \in Range(list)
  /\ state[s].last_probe_type = "UNPROBED"
  /\ inflight' = [inflight EXCEPT ![s] = @ - 1]
  /\ outstanding' = outstanding - 1
  /\ UNCHANGED <<loopVars, roundVars, state, countVars, reload, ghostVars>>

\* b is the belief the answer leads to.
AnswerCounts(s, b) ==
  /\ AnswerArrives(s)
  /\ s \in Range(list)
  /\ state[s].last_probe_type # "UNPROBED"
  /\ \E responsive \in BOOLEAN : b \in BeliefAfter(state[s].current_belief, responsive)

\* The /24 is left waiting.
MutSettled(st, b) == [st EXCEPT !.current_belief = b, !.current_state = Class(b)]

\* The stable state is not brought up to date.
MutSettledStale(st, b) ==
  [st EXCEPT !.last_probe_type = "UNPROBED", !.current_belief = b]

Settled(st, b) ==
  [st EXCEPT !.last_probe_type = "UNPROBED",
             !.current_belief = b,
             !.current_state = Class(b)]

\* The /24 is done for now: publish its belief and make it the stable state.
Settle(s, b) ==
  /\ state' = [state EXCEPT ![s] = Settled(@, b)]
  /\ stateCnt' = Move(stateCnt, state[s].current_state, Class(b))
  /\ overall' = [m \in Metas |->
                   IF m \in MetasOf[s]
                   THEN Move(overall[m], state[s].current_state, Class(b))
                   ELSE overall[m]]
  /\ inflight' = [inflight EXCEPT ![s] = @ - 1]
  /\ outstanding' = outstanding - 1
  /\ UNCHANGED <<loopVars, roundVars, reload, ghostVars>>

\* The belief is, or is becoming, uncertain: probe again at once.
AnswerAdaptive(s) ==
  \E b \in Levels :
    /\ AnswerCounts(s, b)
    /\ BecomingUncertain(state[s].current_belief, b)
    /\ state[s].adaptive > 0
    /\ state' = [state EXCEPT ![s].last_probe_type = "ADAPTIVE",
                              ![s].adaptive = @ - 1,
                              ![s].current_belief = b]
    /\ roundAdaptive' = [roundAdaptive EXCEPT ![s] = @ + 1]
    /\ UNCHANGED <<loopVars, roundVars, countVars, outstanding, inflight, reload,
                   lost, missing>>

\* The same with no adaptive probe left: the /24 is uncertain.
AnswerOutOfBudget(s) ==
  \E b \in Levels :
    /\ AnswerCounts(s, b)
    /\ BecomingUncertain(state[s].current_belief, b)
    /\ state[s].adaptive = 0
    /\ Settle(s, IF Class(b) = "UNCERTAIN" THEN b ELSE Undecided)

\* The back-off is not consulted.
MutWantsRecovery(st, b) ==
  Class(st.current_belief) = "DOWN" /\ Class(b) = "DOWN" /\ st.recovery > 0

WantsRecovery(st, b) ==
  /\ Class(st.current_belief) = "DOWN"
  /\ Class(b) = "DOWN"
  /\ RecoveryEligible(st.rounds_since_up)
  /\ st.recovery > 0

\* Down and staying down: look for a host that is back up.
AnswerRecovery(s) ==
  \E b \in Levels :
    /\ AnswerCounts(s, b)
    /\ ~BecomingUncertain(state[s].current_belief, b)
    /\ WantsRecovery(state[s], b)
    /\ state' = [state EXCEPT ![s].last_probe_type = "RECOVERY",
                              ![s].recovery = @ - 1,
                              ![s].current_belief = b]
    /\ UNCHANGED <<loopVars, roundVars, countVars, outstanding, inflight, reload,
                   ghostVars>>

\* The belief is certain enough: done.
AnswerSettles(s) ==
  \E b \in Levels :
    /\ AnswerCounts(s, b)
    /\ ~BecomingUncertain(state[s].current_belief, b)
    /\ ~WantsRecovery(state[s], b)
    /\ Settle(s, b)

HandleDriverResp(s) ==
  \/ AnswerMissing(s) \/ AnswerIgnored(s) \/ AnswerAdaptive(s)
  \/ AnswerOutOfBudget(s) \/ AnswerRecovery(s) \/ AnswerSettles(s)

-----------------------------------------------------------------------------
(***************************************************************************)
(* The environment: drivers that drop probes, signals, the reload thread   *)
(***************************************************************************)

\* A driver discards a probe without telling the prober.
DriverDrops(s) ==
  /\ running
  /\ inflight[s] > 0
  /\ Total(lost) < MaxLost
  /\ inflight' = [inflight EXCEPT ![s] = @ - 1]
  /\ lost' = [lost EXCEPT ![s] = @ + 1]
  /\ UNCHANGED <<loopVars, roundVars, state, countVars, outstanding, reload,
                 missing, roundAdaptive>>

\* prober_stop, or the interrupt: seen by the next handler that runs.
RequestStop ==
  /\ running /\ ~shutdown
  /\ shutdown' = TRUE
  /\ UNCHANGED <<running, roundVars, state, countVars, outstanding, inflight,
                 reload, ghostVars>>

\* Stopping waits for answers that are no longer handled.
MutCheckShutdown ==
  /\ running /\ shutdown /\ outstanding = 0
  /\ running' = FALSE
  /\ UNCHANGED <<shutdown, roundVars, state, countVars, outstanding, inflight,
                 reload, ghostVars>>

CheckShutdown ==
  /\ running /\ shutdown
  /\ running' = FALSE
  /\ UNCHANGED <<shutdown, roundVars, state, countVars, outstanding, inflight,
                 reload, ghostVars>>

\* The SIGHUP handler.
RequestReload ==
  /\ Sighups /\ running
  /\ Request
  /\ UNCHANGED <<loopVars, roundVars, state, countVars, outstanding, inflight,
                 ghostVars>>

LoaderDone ==
  /\ LoaderEnds
  /\ UNCHANGED <<loopVars, roundVars, state, countVars, outstanding, inflight,
                 ghostVars>>

-----------------------------------------------------------------------------

Init ==
  /\ running = TRUE /\ shutdown = FALSE
  /\ list \in {l \in Lists : Len(l) > 0}
  /\ iter = 0
  /\ sliceSize = CeilDiv(Len(list), SizingSlices)
  /\ currentSlice = 0
  /\ started = FALSE
  /\ state = [s \in Slash24s |-> FreshState(s)]
  /\ stateCnt = FreshCnt(Range(list))
  /\ overall = FreshOverall(list)
  /\ outstanding = 0
  /\ inflight = [s \in Slash24s |-> 0]
  /\ reload = NoReload
  /\ lost = [s \in Slash24s |-> 0]
  /\ missing = 0
  /\ skipped = FALSE
  /\ roundAdaptive = [s \in Slash24s |-> 0]
  /\ roundsEnded = 0

Next ==
  \/ HandleTimer
  \/ \E s \in Slash24s : HandleDriverResp(s)
  \/ \E s \in Slash24s : DriverDrops(s)
  \/ RequestStop
  \/ CheckShutdown
  \/ RequestReload
  \/ LoaderDone

Spec == Init /\ [][Next]_vars

\* The loop serves its timer and its sockets, and a driver answers every probe
\* it has not dropped (it turns a timeout into an answer).
Fairness ==
  /\ WF_vars(HandleTimer)
  /\ WF_vars(CheckShutdown)
  /\ WF_vars(LoaderDone)
  /\ \A s \in Slash24s : WF_vars(HandleDriverResp(s))

FairSpec == Spec /\ Fairness

-----------------------------------------------------------------------------
(***************************************************************************)
(* Properties                                                              *)
(***************************************************************************)

Slash24State ==
  [last_probe_type : ProbeTypes \cup {"UNPROBED"},
   adaptive        : 0..ProbeBudget,
   recovery        : Nat,
   current_belief  : Levels,
   current_state   : BeliefStates,
   rounds_since_up : 0..RsuMax]

\* Every variable has its type; the budgets and the round counter of a /24
\* stay in the ranges their bit fields were cut for.
TypeOK ==
  /\ running \in BOOLEAN /\ shutdown \in BOOLEAN /\ started \in BOOLEAN
  /\ skipped \in BOOLEAN
  /\ list \in Lists
  /\ iter \in 0..Len(list)
  /\ sliceSize \in Nat /\ currentSlice \in Nat
  /\ state \in [Slash24s -> Slash24State]
  /\ \A s \in Slash24s : state[s].recovery <= RecoveryBudgetOf[s]
  /\ stateCnt \in [BeliefStates -> Int]
  /\ overall \in [Metas -> [BeliefStates -> Int]]
  /\ outstanding \in Int
  /\ inflight \in [Slash24s -> Nat]
  /\ ReloadType
  /\ lost \in [Slash24s -> Nat]
  /\ missing \in Nat
  /\ roundAdaptive \in [Slash24s -> Nat]
  /\ roundsEnded \in Nat

\* The outstanding counter is the probes in flight, plus exactly the two kinds
\* it never learns about: those a driver dropped and those whose answer names
\* a /24 that has left the probelist.
OutstandingAccounts == outstanding = Total(inflight) + Total(lost) + missing

\* A /24 that waits for an answer has a probe that can still be answered, or
\* one that a driver dropped: no path leaves a /24 waiting for nothing.
WaitingHasProbe ==
  \A s \in Slash24s :
    state[s].last_probe_type # "UNPROBED" => inflight[s] + lost[s] > 0

\* The warning of current_state ("may not match BELIEF_STATE(current_belief)
\* if adaptive probing has been used") is about /24s still being probed: as
\* soon as a /24 is idle, what is published is the class of its belief.
IdleIsStable ==
  \A s \in Slash24s :
    state[s].last_probe_type = "UNPROBED"
      => state[s].current_state = Class(state[s].current_belief)

\* The published number of /24s in each state is the number of /24s of the
\* active list in that state, for the whole list and for every metadata tag,
\* whatever answers, give-ups and reloads happened.
StateCountsMatch ==
  LET In(S, c) == Cardinality({s \in S : state[s].current_state = c})
  IN  /\ \A c \in BeliefStates : stateCnt[c] = In(Range(list), c)
      /\ \A m \in Metas, c \in BeliefStates : overall[m][c] = In(Tagged(list, m), c)

\* A recovery probe is outstanding only for a /24 that is down, in a round its
\* back-off admits; in particular no give-up leaves one behind.
RecoveryOnlyWhenDown ==
  \A s \in Slash24s :
    state[s].last_probe_type = "RECOVERY"
      => /\ Class(state[s].current_belief) = "DOWN"
         /\ RecoveryEligible(state[s].rounds_since_up)

\* The /24s of the list that the round has reached.
Asked == {list[i] : i \in 1..iter}

\* "Default maximum number of adaptive probes that can be sent to a single /24
\* in one round" (trinarkular_prober.h:72): however late the answers are, that
\* holds of a /24 until the round reaches it.  The budget is given there and not
\* at the start of the round, on top of what was spent of the old one, so that
\* afterwards the documented maximum may be exceeded, by one budget at most.
AdaptivePerRound ==
  running =>
    \A s \in Slash24s :
      roundAdaptive[s] + state[s].adaptive
        <= IF s \in Asked THEN 2 * ProbeBudget ELSE ProbeBudget

\* Unless a slice was skipped, every /24 of the list has been probed when the
\* interval of a round ends ("round up to ensure we cover everything in the
\* interval").
CoversInterval ==
  running /\ started /\ AtBoundary /\ ~skipped => iter = Len(list)

\* Probes are added to those outstanding only while at most SkipFactor slices
\* are, and then one slice at most: the drivers' backlog is bounded whatever
\* they do with it.
BackPressure ==
  [][outstanding' > outstanding =>
       /\ outstanding <= sliceSize' * SkipFactor
       /\ outstanding' <= sliceSize' * SkipFactor + sliceSize']_vars

\* A prober with a round limit never completes more rounds than it was given.
WithinRoundLimit == RoundLimit > 0 => roundsEnded <= RoundLimit

\* The published state of a /24 jumps between up and down only when earlier
\* answers had already taken the belief out of the old class: one answer never
\* turns an up /24 down or a down /24 up.  (A reload does: its fresh states
\* are up.)
NoSnapJudgement ==
  [][\A s \in Slash24s :
       LET old == state[s].current_state
           new == state'[s].current_state
       IN  HandleDriverResp(s) /\ old # new /\ "UNCERTAIN" \notin {old, new}
             => Class(state[s].current_belief) # old]_vars

\* Without drops, every /24 of the list is sent a periodic probe again and
\* again, although slices are skipped whenever too many probes are outstanding.
ProbedForEver ==
  \A s \in Slash24s :
    [](~shutdown) =>
      []<><<inflight'[s] > inflight[s] /\ state'[s].last_probe_type = "PERIODIC">>_vars

\* A request to stop ends the loop.
StopsWhenAsked == shutdown ~> ~running

\* "number of rounds to complete before shutting down": what prober.h says of
\* the round limit; a prober that has one stops by itself.
StopsAtLimit == RoundLimit > 0 => <>(~running)

=============================================================================

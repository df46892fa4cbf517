---------------------------- MODULE ProberProofs ----------------------------
(***************************************************************************)
(* Proofs about module Prober, for every set of /24s, every probelist and  *)
(* every value of the parameters: the invariant on the state of a /24, the *)
(* action properties that follow from it, and what the counters and the    *)
(* rounds promise: the probes outstanding, the /24s of the active list in  *)
(* each state, the adaptive probes of a round, the round limit, and the    *)
(* coverage of the list by the slices of a round.                          *)
(***************************************************************************)
EXTENDS Prober, FiniteSetTheorems, FunctionTheorems, SequenceTheorems, TLAPS

-----------------------------------------------------------------------------
(* The state of a /24                                                        *)

\* The status word says DONE only over a list that can be adopted.  Without it
\* the active list could become NULL, and TypeOK would not be inductive.
DoneHasList == reload.status = "DONE" => reload.next \in Lists

\* A /24 that is not in the active list waits for nothing: this is what allows
\* an answer for it to be dropped (WaitingHasProbe would not be inductive).
OffListIdle ==
  \A s \in Slash24s : s \notin Range(list) => state[s].last_probe_type = "UNPROBED"

IInv ==
  /\ TypeOK
  /\ DoneHasList
  /\ OffListIdle
  /\ WaitingHasProbe
  /\ IdleIsStable
  /\ RecoveryOnlyWhenDown

-----------------------------------------------------------------------------
(* The operators                                                             *)

LEMMA ClassType == \A b : Class(b) \in BeliefStates
  BY DEF Class, BeliefStates

LEMMA CeilDivType == \A n \in Nat, d \in Nat \ {0} : CeilDiv(n, d) \in Nat
  BY DEF CeilDiv

\* A level is a level, and the first belief is up.
LEMMA LevelFacts ==
  /\ \A b \in Levels : b \in Int
  /\ BeliefMax \in Levels /\ Undecided \in Levels
  /\ Class(BeliefMax) = "UP" /\ Class(Undecided) = "UNCERTAIN"
  BY ConstantsAssumption DEF BeliefMin, BeliefMax, Undecided, Class

\* The states of a new list: idle, up, with full budgets.
LEMMA FreshStateFacts ==
  \A s \in Slash24s : /\ FreshState(s) \in Slash24State
                      /\ FreshState(s).last_probe_type = "UNPROBED"
                      /\ FreshState(s).recovery <= RecoveryBudgetOf[s]
                      /\ FreshState(s).current_state = Class(FreshState(s).current_belief)
  BY ConstantsAssumption, ClassType, LevelFacts DEF FreshState, Slash24State

\* The counters of a new list.
LEMMA FreshCntType ==
  \A l \in Lists : /\ FreshCnt(Range(l)) \in [BeliefStates -> Int]
                   /\ FreshOverall(l) \in [Metas -> [BeliefStates -> Int]]
<1> SUFFICES ASSUME NEW l \in Lists
             PROVE  /\ FreshCnt(Range(l)) \in [BeliefStates -> Int]
                    /\ FreshOverall(l) \in [Metas -> [BeliefStates -> Int]]
  OBVIOUS
<1>1. Range(l) \subseteq Slash24s
  BY ConstantsAssumption DEF Range
<1>2. ASSUME NEW S, S \subseteq Range(l) PROVE Cardinality(S) \in Nat
  BY <1>1, <1>2, ConstantsAssumption, FS_Subset, FS_CardinalityType
<1>3. ASSUME NEW S, S \subseteq Range(l) PROVE FreshCnt(S) \in [BeliefStates -> Int]
  BY <1>2, <1>3 DEF FreshCnt
<1>4. \A m \in Metas : Tagged(l, m) \subseteq Range(l)
  BY DEF Tagged
<1> QED  BY <1>3, <1>4 DEF FreshOverall

LEMMA MoveType ==
  \A cnt \in [BeliefStates -> Int] : \A c, d : Move(cnt, c, d) \in [BeliefStates -> Int]
  BY DEF Move

\* The timer's treatment of a /24, whatever it was waiting for.
LEMMA ProbePeriodicallyFacts ==
  \A s \in Slash24s, st \in Slash24State :
    /\ ProbePeriodically(s, st) \in Slash24State
    /\ ProbePeriodically(s, st).last_probe_type = "PERIODIC"
    /\ ProbePeriodically(s, st).adaptive = ProbeBudget
    /\ ProbePeriodically(s, st).recovery = RecoveryBudgetOf[s]
    /\ ProbePeriodically(s, st).current_state = st.current_state
    /\ ProbePeriodically(s, st).current_belief = st.current_belief
<1> SUFFICES ASSUME NEW s \in Slash24s, NEW st \in Slash24State
             PROVE  LET p == ProbePeriodically(s, st) IN
                    /\ p \in Slash24State
                    /\ p.last_probe_type = "PERIODIC"
                    /\ p.adaptive = ProbeBudget
                    /\ p.recovery = RecoveryBudgetOf[s]
                    /\ p.current_state = st.current_state
                    /\ p.current_belief = st.current_belief
  OBVIOUS
<1>1. NextRoundsSinceUp(st) \in 0..RsuMax
  BY ConstantsAssumption DEF NextRoundsSinceUp, Slash24State
<1>2. ProbeBudget \in 0..ProbeBudget /\ RecoveryBudgetOf[s] \in Nat
  BY ConstantsAssumption
<1>3. /\ st.last_probe_type \in ProbeTypes \cup {"UNPROBED"}
      /\ st.current_belief \in Levels /\ st.current_state \in BeliefStates
  BY DEF Slash24State
<1>4. st = [last_probe_type |-> st.last_probe_type,
            adaptive        |-> st.adaptive,
            recovery        |-> st.recovery,
            current_belief  |-> st.current_belief,
            current_state   |-> st.current_state,
            rounds_since_up |-> st.rounds_since_up]
  BY Zenon DEF Slash24State
<1> QED  BY <1>1, <1>2, <1>3, <1>4 DEF ProbePeriodically, Slash24State, ProbeTypes

LEMMA NoReloadFacts ==
  /\ NoReload \in [status : ReloadStates, loading : BOOLEAN, next : Lists \cup {NoList}]
  /\ NoReload.status = "NONE"
  BY DEF NoReload, ReloadStates

\* Scheduling a reload never leaves DONE over nothing.
LEMMA AfterSchedulingFacts ==
  ASSUME ReloadType, DoneHasList
  PROVE  \A r \in AfterScheduling :
           /\ r \in [status : ReloadStates, loading : BOOLEAN, next : Lists \cup {NoList}]
           /\ r.status = "DONE" => r.next \in Lists
<1> DEFINE Type == [status : ReloadStates, loading : BOOLEAN, next : Lists \cup {NoList}]
<1>1. CASE reload.status # "SCHEDULED"
  BY <1>1 DEF AfterScheduling, ReloadType, DoneHasList
<1>2. CASE reload.status = "SCHEDULED"
  <2>1. \A r \in {[status |-> "RUNNING", loading |-> TRUE, next |-> NoList], NoReload} :
          r \in Type /\ r.status # "DONE"
    <3>1. NoReload \in Type /\ NoReload.status # "DONE"
      BY NoReloadFacts
    <3> DEFINE working == [status |-> "RUNNING", loading |-> TRUE, next |-> NoList]
    <3>2. working \in Type /\ working.status # "DONE"
      BY DEF ReloadStates
    <3> HIDE DEF working, Type
    <3>3. \A r \in {working, NoReload} : r \in Type /\ r.status # "DONE"
      BY <3>1, <3>2
    <3> QED  BY <3>3 DEF working
  <2>2. \A r \in [status : {"RUNNING"}, loading : {FALSE}, next : Lists \cup {NoList}] :
          r \in Type /\ r.status # "DONE"
    BY DEF ReloadStates
  <2>3. \A r \in [status : {"DONE"}, loading : {FALSE}, next : Lists] :
          r \in Type /\ r.next \in Lists
    BY DEF ReloadStates
  <2> HIDE DEF Type
  <2>4. \A r \in AfterScheduling : r \in Type /\ (r.status = "DONE" => r.next \in Lists)
    BY <1>2, <2>1, <2>2, <2>3 DEF AfterScheduling
  <2> QED  BY <2>4 DEF Type
<1> QED  BY <1>1, <1>2

\* What the invariant asks of the state st of a /24 s of which n probes are in
\* flight or were dropped.
GoodState(s, st, n) ==
  /\ st \in Slash24State
  /\ st.recovery <= RecoveryBudgetOf[s]
  /\ st.last_probe_type # "UNPROBED" => n > 0
  /\ st.last_probe_type = "UNPROBED" => st.current_state = Class(st.current_belief)
  /\ st.last_probe_type = "RECOVERY" => /\ Class(st.current_belief) = "DOWN"
                                        /\ RecoveryEligible(st.rounds_since_up)

AllGood ==
  /\ \A s \in Slash24s : GoodState(s, state[s], inflight[s] + lost[s])
  /\ OffListIdle

\* The rest of the invariant: the types of everything but the states.
RestOK ==
  /\ running \in BOOLEAN /\ shutdown \in BOOLEAN /\ started \in BOOLEAN
  /\ skipped \in BOOLEAN
  /\ list \in Lists
  /\ iter \in 0..Len(list)
  /\ sliceSize \in Nat /\ currentSlice \in Nat
  /\ stateCnt \in [BeliefStates -> Int]
  /\ overall \in [Metas -> [BeliefStates -> Int]]
  /\ outstanding \in Int
  /\ inflight \in [Slash24s -> Nat]
  /\ ReloadType /\ DoneHasList
  /\ lost \in [Slash24s -> Nat]
  /\ missing \in Nat
  /\ roundAdaptive \in [Slash24s -> Nat]
  /\ roundsEnded \in Nat

LEMMA IInvByState == IInv <=> RestOK /\ state \in [Slash24s -> Slash24State] /\ AllGood
<1>1. IInv => RestOK /\ state \in [Slash24s -> Slash24State] /\ AllGood
  BY DEF IInv, TypeOK, RestOK, AllGood, GoodState, WaitingHasProbe, IdleIsStable,
         RecoveryOnlyWhenDown
<1>2. RestOK /\ state \in [Slash24s -> Slash24State] /\ AllGood => IInv
  BY DEF IInv, TypeOK, RestOK, AllGood, GoodState, WaitingHasProbe, IdleIsStable,
         RecoveryOnlyWhenDown
<1> QED  BY <1>1, <1>2

\* The same of the next state.
LEMMA IInvByNextState ==
  IInv' <=> RestOK' /\ state' \in [Slash24s -> Slash24State] /\ AllGood'
<1>1. IInv' => RestOK' /\ state' \in [Slash24s -> Slash24State] /\ AllGood'
  BY DEF IInv, TypeOK, RestOK, AllGood, GoodState, WaitingHasProbe, IdleIsStable,
         RecoveryOnlyWhenDown
<1>2. RestOK' /\ state' \in [Slash24s -> Slash24State] /\ AllGood' => IInv'
  BY DEF IInv, TypeOK, RestOK, AllGood, GoodState, WaitingHasProbe, IdleIsStable,
         RecoveryOnlyWhenDown
<1> QED  BY <1>1, <1>2

LEMMA ListLength == \A l \in Lists : Len(l) \in Nat
<1>1. \A l \in Seq(Slash24s) : Len(l) \in Nat
  OBVIOUS
<1> QED  BY <1>1, ConstantsAssumption

LEMMA NextSliceType == currentSlice \in Nat => NextSlice \in Nat
  BY ConstantsAssumption DEF NextSlice, LastRound

\* A slice leaves every /24 good, from states that are: those of the slice wait
\* for a periodic probe that is in flight, the others are as they were.
LEMMA QueueSliceFacts ==
  ASSUME RestOK,
         NEW l \in Lists, NEW from \in 0..Len(l), NEW size \in Nat,
         NEW st \in [Slash24s -> Slash24State], NEW before \in BOOLEAN,
         \A s \in Slash24s : GoodState(s, st[s], inflight[s] + lost[s]),
         \A s \in Slash24s : s \notin Range(l) => st[s].last_probe_type = "UNPROBED",
         QueueSlice(l, from, size, st, before),
         lost' = lost, list' = l
  PROVE  /\ currentSlice' \in Nat /\ skipped' \in BOOLEAN
         /\ iter' \in 0..Len(l)
         /\ outstanding' \in Int
         /\ inflight' \in [Slash24s -> Nat]
         /\ state' \in [Slash24s -> Slash24State]
         /\ AllGood'
<1>1. currentSlice' \in Nat
  BY NextSliceType DEF QueueSlice, Backlogged, Reached, SliceEnd, RestOK
<1>2. CASE outstanding > size * SkipFactor
  BY <1>1, <1>2 DEF QueueSlice, Backlogged, Reached, SliceEnd, RestOK, AllGood, OffListIdle
<1>3. CASE ~(outstanding > size * SkipFactor)
  <2> DEFINE batch == {l[i] : i \in ((from + 1)..(from + size)) \cap DOMAIN l}
  <2>1. /\ state' = [s \in Slash24s |->
                       IF s \in batch THEN ProbePeriodically(s, st[s]) ELSE st[s]]
        /\ iter' = IF from + size < Len(l) THEN from + size ELSE Len(l)
        /\ outstanding' = outstanding + iter' - from
        /\ inflight' = [s \in Slash24s |->
                          IF s \in batch THEN inflight[s] + 1 ELSE inflight[s]]
        /\ skipped' = before
    BY <1>3 DEF QueueSlice, Backlogged, Reached, SliceEnd
  <2>0. batch \subseteq Range(l)
    BY DEF Range
  <2> HIDE DEF batch
  <2>2. iter' \in 0..Len(l) /\ outstanding' \in Int
    BY <2>1, ListLength DEF RestOK
  <2>3. inflight' \in [Slash24s -> Nat]
    BY <2>1 DEF RestOK
  <2>4. ASSUME NEW s \in Slash24s
        PROVE  state'[s] \in Slash24State /\ GoodState(s, state'[s], inflight'[s] + lost'[s])
    <3>1. CASE s \in batch
      <4>1. state'[s] = ProbePeriodically(s, st[s]) /\ inflight'[s] = inflight[s] + 1
        BY <2>1, <3>1
      <4>2. /\ state'[s] \in Slash24State
            /\ state'[s].last_probe_type = "PERIODIC"
            /\ state'[s].recovery = RecoveryBudgetOf[s]
        BY <4>1, ProbePeriodicallyFacts
      <4>3. inflight'[s] + lost'[s] > 0
        BY <4>1 DEF RestOK
      <4>4. RecoveryBudgetOf[s] \in Nat
        BY ConstantsAssumption
      <4> QED  BY <4>2, <4>3, <4>4 DEF GoodState
    <3>2. CASE s \notin batch
      BY <2>1, <3>2
    <3> QED  BY <3>1, <3>2
  <2>5. OffListIdle'
    BY <2>1, <2>0 DEF OffListIdle
  <2> QED  BY <1>1, <2>1, <2>2, <2>3, <2>4, <2>5 DEF AllGood
<1> QED  BY <1>2, <1>3

\* Adopting a list, or keeping the old one, leaves list, sizes and counters well
\* typed and every /24 good.
LEMMA SettleListFacts ==
  ASSUME RestOK, state \in [Slash24s -> Slash24State], AllGood,
         NEW r \in AfterScheduling, SettleList(r)
  PROVE  /\ list' \in Lists /\ sliceSize' \in Nat
         /\ stateCnt' \in [BeliefStates -> Int]
         /\ overall' \in [Metas -> [BeliefStates -> Int]]
         /\ ReloadType' /\ DoneHasList'
         /\ ~Adopts(r) => list' = list
         /\ Adopts(r) => list' = r.next
         /\ StatesAfterSettling(r) \in [Slash24s -> Slash24State]
         /\ \A s \in Slash24s :
              /\ GoodState(s, StatesAfterSettling(r)[s], inflight[s] + lost[s])
              /\ s \notin Range(list')
                   => StatesAfterSettling(r)[s].last_probe_type = "UNPROBED"
<1>1. /\ r \in [status : ReloadStates, loading : BOOLEAN, next : Lists \cup {NoList}]
      /\ r.status = "DONE" => r.next \in Lists
  BY AfterSchedulingFacts DEF RestOK
<1>2. CASE Adopts(r)
  <2>1. r.next \in Lists
    BY <1>1, <1>2 DEF Adopts
  <2>2. CeilDiv(Len(r.next), Slices) \in Nat
    BY <2>1, ListLength, CeilDivType, ConstantsAssumption
  <2>3. ReloadType' /\ DoneHasList'
    <3>1. reload' = NoReload
      BY <1>2 DEF SettleList
    <3> QED  BY <3>1, NoReloadFacts DEF ReloadType, DoneHasList
  <2>4. StatesAfterSettling(r) = [s \in Slash24s |-> FreshState(s)]
    BY <1>2 DEF StatesAfterSettling
  <2>5. \A s \in Slash24s :
          /\ StatesAfterSettling(r)[s] \in Slash24State
          /\ StatesAfterSettling(r)[s].last_probe_type = "UNPROBED"
          /\ GoodState(s, StatesAfterSettling(r)[s], inflight[s] + lost[s])
    BY <2>4, FreshStateFacts DEF GoodState
  <2> QED  BY <1>2, <2>1, <2>2, <2>3, <2>4, <2>5, FreshCntType DEF SettleList
<1>3. CASE ~Adopts(r)
  BY <1>1, <1>3 DEF SettleList, StatesAfterSettling, RestOK, AllGood, OffListIdle,
                    ReloadType, DoneHasList, countVars
<1> QED  BY <1>2, <1>3

-----------------------------------------------------------------------------
(* The initial states and the steps                                          *)

LEMMA InitIInv == Init => IInv
<1> SUFFICES ASSUME Init PROVE RestOK /\ state \in [Slash24s -> Slash24State] /\ AllGood
  BY IInvByState
<1>1. list \in Lists /\ Len(list) \in Nat
  BY ListLength DEF Init
<1>2. sliceSize \in Nat
  BY <1>1, CeilDivType, ConstantsAssumption DEF Init
<1>3. ReloadType /\ DoneHasList
  BY NoReloadFacts DEF Init, ReloadType, DoneHasList
<1>4. /\ stateCnt \in [BeliefStates -> Int]
      /\ overall \in [Metas -> [BeliefStates -> Int]]
  BY <1>1, FreshCntType DEF Init
<1>5. RestOK
  <2>1. iter \in 0..Len(list) /\ currentSlice \in Nat /\ outstanding \in Int
    BY <1>1 DEF Init
  <2>2. /\ inflight \in [Slash24s -> Nat] /\ lost \in [Slash24s -> Nat]
        /\ roundAdaptive \in [Slash24s -> Nat]
    BY DEF Init
  <2>3. missing \in Nat /\ roundsEnded \in Nat
    BY DEF Init
  <2>4. /\ running \in BOOLEAN /\ shutdown \in BOOLEAN /\ started \in BOOLEAN
        /\ skipped \in BOOLEAN
    BY DEF Init
  <2> QED  BY <1>1, <1>2, <1>3, <1>4, <2>1, <2>2, <2>3, <2>4 DEF RestOK
<1>6. \A s \in Slash24s : state[s] = FreshState(s)
  BY DEF Init
<1>7. state \in [Slash24s -> Slash24State] /\ AllGood
  BY <1>6, FreshStateFacts DEF Init, AllGood, GoodState, OffListIdle
<1> QED  BY <1>5, <1>7

LEMMA TimerIInv == IInv /\ HandleTimer => IInv'
<1> SUFFICES ASSUME RestOK, state \in [Slash24s -> Slash24State], AllGood, HandleTimer
             PROVE  RestOK' /\ state' \in [Slash24s -> Slash24State] /\ AllGood'
  BY IInvByState, IInvByNextState
<1>1. CASE TimerMidRound
  <2>1. /\ QueueSlice(list, iter, sliceSize, state, skipped)
        /\ lost' = lost /\ list' = list
    BY <1>1 DEF TimerMidRound, ghostVars
  <2>2. ReloadType' /\ DoneHasList'
    BY <1>1, AfterSchedulingFacts DEF TimerMidRound, RestOK, ReloadType, DoneHasList
  <2>3. /\ currentSlice' \in Nat /\ skipped' \in BOOLEAN /\ iter' \in 0..Len(list)
        /\ outstanding' \in Int /\ inflight' \in [Slash24s -> Nat]
        /\ state' \in [Slash24s -> Slash24State] /\ AllGood'
    <3>1. /\ list \in Lists /\ iter \in 0..Len(list) /\ sliceSize \in Nat
          /\ skipped \in BOOLEAN
      BY DEF RestOK
    <3>2. \A s \in Slash24s :
            /\ GoodState(s, state[s], inflight[s] + lost[s])
            /\ s \notin Range(list) => state[s].last_probe_type = "UNPROBED"
      BY DEF AllGood, OffListIdle
    <3> QED  BY <2>1, <3>1, <3>2, QueueSliceFacts
  <2> QED  BY <1>1, <2>2, <2>3 DEF TimerMidRound, RestOK, loopVars, countVars, ghostVars
<1>2. CASE TimerNothingLeft
  <2>1. ReloadType' /\ DoneHasList'
    BY <1>2, AfterSchedulingFacts DEF TimerNothingLeft, RestOK, ReloadType, DoneHasList
  <2>2. currentSlice' \in Nat
    BY <1>2, NextSliceType DEF TimerNothingLeft, RestOK
  <2> QED  BY <1>2, <2>1, <2>2
           DEF TimerNothingLeft, RestOK, AllGood, OffListIdle, loopVars, countVars, ghostVars
<1>3. CASE TimerNewRound
  <2>1. PICK r \in AfterScheduling :
          /\ SettleList(r)
          /\ QueueSlice(list', 0, sliceSize', StatesAfterSettling(r), FALSE)
    BY <1>3 DEF TimerNewRound
  <2>2. /\ list' \in Lists /\ sliceSize' \in Nat
        /\ stateCnt' \in [BeliefStates -> Int]
        /\ overall' \in [Metas -> [BeliefStates -> Int]]
        /\ ReloadType' /\ DoneHasList'
        /\ StatesAfterSettling(r) \in [Slash24s -> Slash24State]
        /\ \A s \in Slash24s :
             /\ GoodState(s, StatesAfterSettling(r)[s], inflight[s] + lost[s])
             /\ s \notin Range(list')
                  => StatesAfterSettling(r)[s].last_probe_type = "UNPROBED"
    BY <2>1, SettleListFacts
  <2>3. lost' = lost /\ 0 \in 0..Len(list')
    BY <1>3, <2>2, ListLength DEF TimerNewRound
  <2>4. /\ currentSlice' \in Nat /\ skipped' \in BOOLEAN /\ iter' \in 0..Len(list')
        /\ outstanding' \in Int /\ inflight' \in [Slash24s -> Nat]
        /\ state' \in [Slash24s -> Slash24State] /\ AllGood'
    BY <2>1, <2>2, <2>3, QueueSliceFacts
  <2>5. roundsEnded' \in Nat
    BY <1>3 DEF TimerNewRound, EndOfRound, RestOK
  <2> QED  BY <1>3, <2>2, <2>4, <2>5 DEF TimerNewRound, RestOK, loopVars
<1>4. CASE TimerLimitReached
  <2>1. PICK r \in AfterScheduling :
          /\ SettleList(r)
          /\ state' = StatesAfterSettling(r)
          /\ iter' = IF Adopts(r) THEN Len(r.next) ELSE iter
    BY <1>4 DEF TimerLimitReached
  <2>2. /\ list' \in Lists /\ sliceSize' \in Nat
        /\ stateCnt' \in [BeliefStates -> Int]
        /\ overall' \in [Metas -> [BeliefStates -> Int]]
        /\ ReloadType' /\ DoneHasList'
        /\ ~Adopts(r) => list' = list
        /\ Adopts(r) => list' = r.next
        /\ StatesAfterSettling(r) \in [Slash24s -> Slash24State]
        /\ \A s \in Slash24s :
             /\ GoodState(s, StatesAfterSettling(r)[s], inflight[s] + lost[s])
             /\ s \notin Range(list')
                  => StatesAfterSettling(r)[s].last_probe_type = "UNPROBED"
    BY <2>1, SettleListFacts
  <2>3. iter' \in 0..Len(list')
    BY <2>1, <2>2, ListLength DEF RestOK
  <2>4. roundsEnded' \in Nat
    BY <1>4 DEF TimerLimitReached, EndOfRound, RestOK
  <2> QED  BY <1>4, <2>1, <2>2, <2>3, <2>4 
           DEF TimerLimitReached, RestOK, AllGood, OffListIdle, ghostVars
<1> QED  BY <1>1, <1>2, <1>3, <1>4 DEF HandleTimer

\* One step of a /24 s at a time: if the others are as they were, and s is good,
\* all are.
LEMMA OneSlash24Moves ==
  ASSUME RestOK, state \in [Slash24s -> Slash24State], AllGood,
         NEW s \in Slash24s, NEW st \in Slash24State, NEW n \in Nat,
         state' = [state EXCEPT ![s] = st],
         inflight' = [inflight EXCEPT ![s] = n],
         lost' = lost, list' = list,
         GoodState(s, st, n + lost[s]),
         s \in Range(list) \/ st.last_probe_type = "UNPROBED"
  PROVE  state' \in [Slash24s -> Slash24State] /\ inflight' \in [Slash24s -> Nat] /\ AllGood'
<1>1. state' \in [Slash24s -> Slash24State] /\ inflight' \in [Slash24s -> Nat]
  BY DEF RestOK
<1>2. ASSUME NEW q \in Slash24s PROVE GoodState(q, state'[q], inflight'[q] + lost'[q])
  <2>1. CASE q = s
    BY <2>1 DEF RestOK
  <2>2. CASE q # s
    BY <2>2 DEF RestOK, AllGood
  <2> QED  BY <2>1, <2>2
<1>3. OffListIdle'
  BY DEF OffListIdle, AllGood
<1> QED  BY <1>1, <1>2, <1>3 DEF AllGood

\* Settling a /24 on a level.
LEMMA SettleFacts ==
  ASSUME RestOK, state \in [Slash24s -> Slash24State], AllGood,
         NEW s \in Slash24s, inflight[s] > 0, NEW b \in Levels, Settle(s, b)
  PROVE  RestOK' /\ state' \in [Slash24s -> Slash24State] /\ AllGood'
<1> DEFINE st == [state[s] EXCEPT !.last_probe_type = "UNPROBED",
                                 !.current_belief = b,
                                 !.current_state = Class(b)]
<1>1. /\ st \in Slash24State
      /\ st.last_probe_type = "UNPROBED"
      /\ st.current_state = Class(st.current_belief)
      /\ st.recovery = state[s].recovery
  BY ClassType DEF Slash24State, ProbeTypes
<1>2. state' = [state EXCEPT ![s] = st]
  BY DEF Settle, Settled
<1> HIDE DEF st
<1>3. state[s].recovery <= RecoveryBudgetOf[s]
  BY DEF AllGood, GoodState
<1>4. GoodState(s, st, inflight[s] - 1 + lost[s])
  BY <1>1, <1>3 DEF GoodState
<1>5. inflight' = [inflight EXCEPT ![s] = inflight[s] - 1] /\ inflight[s] - 1 \in Nat
  BY DEF Settle, Settled, RestOK
<1>6. lost' = lost /\ list' = list
  BY DEF Settle, Settled, ghostVars, roundVars
<1>7. /\ state' \in [Slash24s -> Slash24State] /\ AllGood'
      /\ inflight' \in [Slash24s -> Nat]
  BY <1>1, <1>2, <1>4, <1>5, <1>6, OneSlash24Moves
<1>8. stateCnt' \in [BeliefStates -> Int] /\ overall' \in [Metas -> [BeliefStates -> Int]]
  BY MoveType DEF Settle, Settled, RestOK
<1>9. outstanding' \in Int
  BY DEF Settle, Settled, RestOK
<1>10. ReloadType' /\ DoneHasList'
  BY DEF Settle, Settled, RestOK, ReloadType, DoneHasList
<1> QED  BY <1>7, <1>8, <1>9, <1>10 DEF Settle, Settled, RestOK, loopVars, roundVars, ghostVars

LEMMA AnswerIInv == IInv /\ (\E s \in Slash24s : HandleDriverResp(s)) => IInv'
<1> SUFFICES ASSUME RestOK, state \in [Slash24s -> Slash24State], AllGood,
                    NEW s \in Slash24s, HandleDriverResp(s)
             PROVE  RestOK' /\ state' \in [Slash24s -> Slash24State] /\ AllGood'
  BY IInvByState, IInvByNextState
<1>0. /\ state[s] \in Slash24State
      /\ GoodState(s, state[s], inflight[s] + lost[s])
      /\ inflight[s] \in Nat /\ lost[s] \in Nat
      /\ state = [state EXCEPT ![s] = state[s]]
      /\ inflight = [inflight EXCEPT ![s] = inflight[s]]
  BY DEF AllGood, RestOK
<1>1. CASE AnswerMissing(s)
  <2>1. /\ state' = [state EXCEPT ![s] = state[s]]
        /\ inflight' = [inflight EXCEPT ![s] = inflight[s] - 1] /\ inflight[s] - 1 \in Nat
        /\ lost' = lost /\ list' = list
    BY <1>0, <1>1 DEF AnswerMissing, AnswerArrives, roundVars
  <2>2. state[s].last_probe_type = "UNPROBED"
    BY <1>1 DEF AnswerMissing, AllGood, OffListIdle
  <2>3. GoodState(s, state[s], inflight[s] - 1 + lost[s])
    BY <1>0, <2>2 DEF GoodState
  <2>4. /\ state' \in [Slash24s -> Slash24State] /\ AllGood'
        /\ inflight' \in [Slash24s -> Nat]
    BY <1>0, <2>1, <2>2, <2>3, OneSlash24Moves
  <2> QED  BY <1>1, <2>4 DEF AnswerMissing, RestOK, ReloadType, DoneHasList, loopVars,
                             roundVars, countVars
<1>2. CASE AnswerIgnored(s)
  <2>1. /\ state' = [state EXCEPT ![s] = state[s]]
        /\ inflight' = [inflight EXCEPT ![s] = inflight[s] - 1] /\ inflight[s] - 1 \in Nat
        /\ lost' = lost /\ list' = list
    BY <1>0, <1>2 DEF AnswerIgnored, AnswerArrives, roundVars, ghostVars
  <2>2. state[s].last_probe_type = "UNPROBED"
    BY <1>2 DEF AnswerIgnored
  <2>3. GoodState(s, state[s], inflight[s] - 1 + lost[s])
    BY <1>0, <2>2 DEF GoodState
  <2>4. /\ state' \in [Slash24s -> Slash24State] /\ AllGood'
        /\ inflight' \in [Slash24s -> Nat]
    BY <1>0, <2>1, <2>2, <2>3, OneSlash24Moves
  <2> QED  BY <1>2, <2>4 DEF AnswerIgnored, RestOK, ReloadType, DoneHasList, loopVars,
                             roundVars, countVars, ghostVars
<1>3. CASE AnswerAdaptive(s)
  <2>1. PICK b \in Levels :
          /\ AnswerCounts(s, b)
          /\ state[s].adaptive > 0
          /\ state' = [state EXCEPT ![s].last_probe_type = "ADAPTIVE",
                                    ![s].adaptive = @ - 1,
                                    ![s].current_belief = b]
    BY <1>3 DEF AnswerAdaptive
  <2> DEFINE st == [state[s] EXCEPT !.last_probe_type = "ADAPTIVE",
                                    !.adaptive = @ - 1,
                                    !.current_belief = b]
  <2>2. /\ st \in Slash24State /\ st.last_probe_type = "ADAPTIVE"
        /\ st.recovery = state[s].recovery
    <3>1. state[s].adaptive - 1 \in 0..ProbeBudget
      <4>1. state[s].adaptive \in 0..ProbeBudget
        BY <1>0 DEF Slash24State
      <4>2. state[s].adaptive > 0 /\ ProbeBudget \in Nat
        BY <2>1, ConstantsAssumption
      <4> QED  BY <4>1, <4>2
    <3> QED  BY <1>0, <3>1 DEF Slash24State, ProbeTypes
  <2>3. state' = [state EXCEPT ![s] = st]
    BY <2>1
  <2> HIDE DEF st
  <2>4. inflight[s] > 0 /\ s \in Range(list)
    BY <2>1 DEF AnswerCounts, AnswerArrives
  <2>5. GoodState(s, st, inflight[s] + lost[s])
    BY <1>0, <2>2, <2>4 DEF GoodState
  <2>6. /\ inflight' = [inflight EXCEPT ![s] = inflight[s]]
        /\ lost' = lost /\ list' = list
    BY <1>0, <1>3 DEF AnswerAdaptive, roundVars
  <2>7. state' \in [Slash24s -> Slash24State] /\ AllGood'
    BY <1>0, <2>2, <2>3, <2>4, <2>5, <2>6, OneSlash24Moves
  <2> QED  BY <1>3, <2>7 DEF AnswerAdaptive, RestOK, ReloadType, DoneHasList, loopVars,
                             roundVars, countVars
<1>4. CASE AnswerOutOfBudget(s)
  <2>1. PICK b \in Levels :
          Settle(s, IF Class(b) = "UNCERTAIN" THEN b ELSE Undecided)
    BY <1>4 DEF AnswerOutOfBudget
  <2>2. inflight[s] > 0
    BY <1>4 DEF AnswerOutOfBudget, AnswerCounts, AnswerArrives
  <2>3. (IF Class(b) = "UNCERTAIN" THEN b ELSE Undecided) \in Levels
    BY LevelFacts
  <2> QED  BY <2>1, <2>2, <2>3, SettleFacts
<1>5. CASE AnswerRecovery(s)
  <2>1. PICK b \in Levels :
          /\ AnswerCounts(s, b)
          /\ WantsRecovery(state[s], b)
          /\ state' = [state EXCEPT ![s].last_probe_type = "RECOVERY",
                                    ![s].recovery = @ - 1,
                                    ![s].current_belief = b]
    BY <1>5 DEF AnswerRecovery
  <2> DEFINE st == [state[s] EXCEPT !.last_probe_type = "RECOVERY",
                                    !.recovery = @ - 1,
                                    !.current_belief = b]
  <2>2. /\ st \in Slash24State /\ st.last_probe_type = "RECOVERY"
        /\ st.recovery <= state[s].recovery /\ state[s].recovery \in Nat
        /\ st.current_belief = b /\ st.rounds_since_up = state[s].rounds_since_up
    BY <1>0, <2>1 DEF Slash24State, ProbeTypes, WantsRecovery
  <2>3. state' = [state EXCEPT ![s] = st]
    BY <2>1
  <2> HIDE DEF st
  <2>4. inflight[s] > 0 /\ s \in Range(list)
    BY <2>1 DEF AnswerCounts, AnswerArrives
  <2>5. GoodState(s, st, inflight[s] + lost[s])
    <3>1. st.recovery <= RecoveryBudgetOf[s]
      BY <1>0, <2>2, ConstantsAssumption, SMTT(60) DEF GoodState, Slash24State
    <3>2. Class(st.current_belief) = "DOWN" /\ RecoveryEligible(st.rounds_since_up)
      BY <2>1, <2>2 DEF WantsRecovery
    <3> QED  BY <1>0, <2>2, <2>4, <3>1, <3>2 DEF GoodState
  <2>6. /\ inflight' = [inflight EXCEPT ![s] = inflight[s]]
        /\ lost' = lost /\ list' = list
    BY <1>0, <1>5 DEF AnswerRecovery, roundVars, ghostVars
  <2>7. state' \in [Slash24s -> Slash24State] /\ AllGood'
    BY <1>0, <2>2, <2>3, <2>4, <2>5, <2>6, OneSlash24Moves
  <2> QED  BY <1>5, <2>7 DEF AnswerRecovery, RestOK, ReloadType, DoneHasList, loopVars,
                             roundVars, countVars, ghostVars
<1>6. CASE AnswerSettles(s)
  <2>1. PICK b \in Levels : Settle(s, b)
    BY <1>6 DEF AnswerSettles
  <2>2. inflight[s] > 0
    BY <1>6 DEF AnswerSettles, AnswerCounts, AnswerArrives
  <2> QED  BY <2>1, <2>2, SettleFacts
<1> QED  BY <1>1, <1>2, <1>3, <1>4, <1>5, <1>6 DEF HandleDriverResp

LEMMA EnvironmentIInv ==
  ASSUME IInv,
         \/ \E s \in Slash24s : DriverDrops(s)
         \/ RequestStop \/ CheckShutdown \/ RequestReload \/ LoaderDone
         \/ UNCHANGED vars
  PROVE  IInv'
<1> SUFFICES ASSUME RestOK, state \in [Slash24s -> Slash24State], AllGood
             PROVE  RestOK' /\ state' \in [Slash24s -> Slash24State] /\ AllGood'
  BY IInvByState, IInvByNextState
<1>1. ASSUME NEW s \in Slash24s, DriverDrops(s)
      PROVE  RestOK' /\ state' \in [Slash24s -> Slash24State] /\ AllGood'
  <2>1. /\ inflight' \in [Slash24s -> Nat] /\ lost' \in [Slash24s -> Nat]
        /\ \A q \in Slash24s : inflight'[q] + lost'[q] = inflight[q] + lost[q]
    <3>1. /\ inflight' = [inflight EXCEPT ![s] = @ - 1]
          /\ lost' = [lost EXCEPT ![s] = @ + 1]
          /\ inflight[s] > 0
      BY <1>1 DEF DriverDrops
    <3>2. inflight \in [Slash24s -> Nat] /\ lost \in [Slash24s -> Nat]
      BY DEF RestOK
    <3>3. inflight' \in [Slash24s -> Nat] /\ lost' \in [Slash24s -> Nat]
      BY <3>1, <3>2
    <3>4. ASSUME NEW q \in Slash24s
          PROVE  inflight'[q] + lost'[q] = inflight[q] + lost[q]
      <4>1. CASE q = s
        BY <3>1, <3>2, <4>1
      <4>2. CASE q # s
        BY <3>1, <3>2, <4>2
      <4> QED  BY <4>1, <4>2
    <3> QED  BY <3>3, <3>4
  <2> QED  BY <1>1, <2>1 DEF DriverDrops, RestOK, AllGood, OffListIdle, ReloadType,
                             DoneHasList, loopVars, roundVars, countVars
<1>2. CASE RequestStop
  BY <1>2 DEF RequestStop, RestOK, AllGood, OffListIdle, ReloadType, DoneHasList,
              roundVars, countVars, ghostVars
<1>3. CASE CheckShutdown
  BY <1>3 DEF CheckShutdown, RestOK, AllGood, OffListIdle, ReloadType, DoneHasList,
              roundVars, countVars, ghostVars
<1>4. CASE RequestReload
  <2>1. ReloadType' /\ DoneHasList'
    BY <1>4 DEF RequestReload, Request, RestOK, ReloadType, ReloadStates, DoneHasList
  <2> QED  BY <1>4, <2>1 DEF RequestReload, RestOK, AllGood, OffListIdle, loopVars,
                             roundVars, countVars, ghostVars
<1>5. CASE LoaderDone
  <2>1. ReloadType' /\ DoneHasList'
    <3>1. CASE reload' = NoReload
      BY <3>1, NoReloadFacts DEF ReloadType, DoneHasList
    <3>2. CASE reload' \in [status : {"DONE", "RUNNING"}, loading : {FALSE}, next : Lists]
      BY <3>2 DEF ReloadType, ReloadStates, DoneHasList
    <3> QED  BY <1>5, <3>1, <3>2 DEF LoaderDone, LoaderEnds
  <2> QED  BY <1>5, <2>1 DEF LoaderDone, RestOK, AllGood, OffListIdle, loopVars,
                             roundVars, countVars, ghostVars
<1>6. CASE UNCHANGED vars
  BY <1>6 DEF vars, RestOK, AllGood, OffListIdle, ReloadType, DoneHasList
<1> QED  BY <1>1, <1>2, <1>3, <1>4, <1>5, <1>6

LEMMA StepIInv == IInv /\ [Next]_vars => IInv'
  BY TimerIInv, AnswerIInv, EnvironmentIInv DEF Next

-----------------------------------------------------------------------------
(* The theorems                                                              *)

\* The types of the prober's state.
THEOREM TypeCorrect == Spec => []TypeOK
<1>1. IInv => TypeOK
  BY DEF IInv
<1> QED  BY InitIInv, StepIInv, <1>1, PTL DEF Spec

\* No path through the handlers leaves a /24 waiting for an answer that can no
\* longer come, unless a driver dropped the probe.
THEOREM NeverWaitsForNothing == Spec => []WaitingHasProbe
<1>1. IInv => WaitingHasProbe
  BY DEF IInv
<1> QED  BY InitIInv, StepIInv, <1>1, PTL DEF Spec

\* What is published of an idle /24 is the class of its belief.
THEOREM PublishedStateIsBelief == Spec => []IdleIsStable
<1>1. IInv => IdleIsStable
  BY DEF IInv
<1> QED  BY InitIInv, StepIInv, <1>1, PTL DEF Spec

\* Recovery probes go to /24s that are down, in rounds the back-off admits.
THEOREM RecoveryIsForDown == Spec => []RecoveryOnlyWhenDown
<1>1. IInv => RecoveryOnlyWhenDown
  BY DEF IInv
<1> QED  BY InitIInv, StepIInv, <1>1, PTL DEF Spec

-----------------------------------------------------------------------------
(* One answer never turns an up /24 down, or a down /24 up.                  *)

\* The states of a /24 that an answer settles.
LEMMA SettledState ==
  ASSUME TypeOK, NEW s \in Slash24s, NEW b, Settle(s, b)
  PROVE  state'[s].current_state = Class(b)
<1>1. state[s] \in Slash24State
  BY DEF TypeOK
<1>2. state'[s] = [state[s] EXCEPT !.last_probe_type = "UNPROBED",
                                   !.current_belief = b,
                                   !.current_state = Class(b)]
  BY DEF Settle, Settled, TypeOK
<1> QED  BY <1>1, <1>2 DEF Slash24State

LEMMA OneAnswerIsNotEnough ==
  ASSUME TypeOK, NEW s \in Slash24s, HandleDriverResp(s),
         state[s].current_state # state'[s].current_state,
         "UNCERTAIN" \notin {state[s].current_state, state'[s].current_state}
  PROVE  Class(state[s].current_belief) # state[s].current_state
<1>0. state[s] \in Slash24State /\ state \in [Slash24s -> Slash24State]
  BY DEF TypeOK
<1>1. ~AnswerMissing(s) /\ ~AnswerIgnored(s)
  BY DEF AnswerMissing, AnswerIgnored
<1>2. ~AnswerAdaptive(s)
  <2> SUFFICES ASSUME AnswerAdaptive(s) PROVE FALSE
    OBVIOUS
  <2>1. PICK b : state' = [state EXCEPT ![s].last_probe_type = "ADAPTIVE",
                                        ![s].adaptive = @ - 1,
                                        ![s].current_belief = b]
    BY DEF AnswerAdaptive
  <2>2. state'[s].current_state = state[s].current_state
    BY <1>0, <2>1 DEF Slash24State
  <2> QED  BY <2>2
<1>3. ~AnswerRecovery(s)
  <2> SUFFICES ASSUME AnswerRecovery(s) PROVE FALSE
    OBVIOUS
  <2>1. PICK b : state' = [state EXCEPT ![s].last_probe_type = "RECOVERY",
                                        ![s].recovery = @ - 1,
                                        ![s].current_belief = b]
    BY DEF AnswerRecovery
  <2>2. state'[s].current_state = state[s].current_state
    BY <1>0, <2>1 DEF Slash24State
  <2> QED  BY <2>2
<1>4. ~AnswerOutOfBudget(s)
  <2> SUFFICES ASSUME AnswerOutOfBudget(s) PROVE FALSE
    OBVIOUS
  <2>1. PICK b \in Levels : Settle(s, IF Class(b) = "UNCERTAIN" THEN b ELSE Undecided)
    BY DEF AnswerOutOfBudget
  <2>2. Class(IF Class(b) = "UNCERTAIN" THEN b ELSE Undecided) = "UNCERTAIN"
    BY LevelFacts
  <2>3. state'[s].current_state = "UNCERTAIN"
    BY <2>1, <2>2, SettledState
  <2> QED  BY <2>3
<1>5. CASE AnswerSettles(s)
  <2>1. PICK b \in Levels : /\ ~BecomingUncertain(state[s].current_belief, b)
                           /\ Settle(s, b)
    BY <1>5 DEF AnswerSettles
  <2>2. state'[s].current_state = Class(b)
    BY <2>1, SettledState
  <2>3. /\ state[s].current_state \in BeliefStates /\ state[s].current_belief \in Int
        /\ b \in Int
    BY <1>0, LevelFacts DEF Slash24State
  <2> QED  BY <2>1, <2>2, <2>3 DEF BecomingUncertain, Class, BeliefStates
<1> QED  BY <1>1, <1>2, <1>3, <1>4, <1>5 DEF HandleDriverResp

\* The published state of a /24 goes from up to down, or back, only when earlier
\* answers had already taken its belief out of its class.
THEOREM OneAnswerNeverDecides == Spec => NoSnapJudgement
<1>1. IInv => TypeOK
  BY DEF IInv
<1>2. TypeOK /\ [Next]_vars =>
        [\A s \in Slash24s :
           LET old == state[s].current_state
               new == state'[s].current_state
           IN  HandleDriverResp(s) /\ old # new /\ "UNCERTAIN" \notin {old, new}
                 => Class(state[s].current_belief) # old]_vars
  BY OneAnswerIsNotEnough
<1> QED  BY InitIInv, StepIInv, <1>1, <1>2, PTL DEF Spec, NoSnapJudgement

-----------------------------------------------------------------------------
(* The drivers' backlog grows by a slice at most.                            *)

LEMMA SliceIsBounded ==
  ASSUME outstanding \in Int, NEW l \in Lists, NEW from \in 0..Len(l), NEW size \in Nat,
         NEW st, NEW before, QueueSlice(l, from, size, st, before),
         outstanding' > outstanding
  PROVE  outstanding <= size * SkipFactor /\ outstanding' <= size * SkipFactor + size
<1> DEFINE allowed == size * SkipFactor
<1>1. allowed \in Int
  BY ConstantsAssumption
<1>2. ~(outstanding > allowed)
  BY DEF QueueSlice, Backlogged, Reached, SliceEnd
<1>3. /\ outstanding' = outstanding + iter' - from
      /\ iter' = IF from + size < Len(l) THEN from + size ELSE Len(l)
  BY <1>2 DEF QueueSlice, Backlogged, Reached, SliceEnd
<1>4. Len(l) \in Nat
  BY ListLength
<1> HIDE DEF allowed
<1>5. outstanding <= allowed /\ outstanding' <= allowed + size
  BY <1>1, <1>2, <1>3, <1>4
<1> QED  BY <1>5 DEF allowed

LEMMA OnlySlicesAdd ==
  ASSUME IInv, Next, outstanding' > outstanding
  PROVE  /\ outstanding <= sliceSize' * SkipFactor
         /\ outstanding' <= sliceSize' * SkipFactor + sliceSize'
<1>0. RestOK /\ state \in [Slash24s -> Slash24State] /\ AllGood
  BY IInvByState
<1>1. CASE TimerMidRound
  <2>1. /\ QueueSlice(list, iter, sliceSize, state, skipped)
        /\ sliceSize' = sliceSize
    BY <1>1 DEF TimerMidRound
  <2>2. /\ list \in Lists /\ iter \in 0..Len(list) /\ sliceSize \in Nat
        /\ outstanding \in Int
    BY <1>0 DEF RestOK
  <2> QED  BY <2>1, <2>2, SliceIsBounded
<1>2. CASE TimerNewRound
  <2>1. PICK r \in AfterScheduling :
          /\ SettleList(r)
          /\ QueueSlice(list', 0, sliceSize', StatesAfterSettling(r), FALSE)
    BY <1>2 DEF TimerNewRound
  <2>2. list' \in Lists /\ sliceSize' \in Nat
    BY <1>0, <2>1, SettleListFacts
  <2>3. 0 \in 0..Len(list') /\ outstanding \in Int
    BY <1>0, <2>2, ListLength DEF RestOK
  <2> QED  BY <2>1, <2>2, <2>3, SliceIsBounded
<1>3. ASSUME NEW s \in Slash24s, HandleDriverResp(s)
      PROVE  outstanding' = outstanding \/ outstanding' = outstanding - 1
  <2>1. CASE AnswerMissing(s) \/ AnswerAdaptive(s) \/ AnswerRecovery(s)
    BY <2>1 DEF AnswerMissing, AnswerAdaptive, AnswerRecovery
  <2>2. CASE AnswerIgnored(s)
    BY <2>2 DEF AnswerIgnored
  <2>3. CASE AnswerOutOfBudget(s) \/ AnswerSettles(s)
    BY <2>3 DEF AnswerOutOfBudget, AnswerSettles, Settle, Settled
  <2> QED  BY <1>3, <2>1, <2>2, <2>3 DEF HandleDriverResp
<1>4. CASE \/ TimerNothingLeft \/ TimerLimitReached
           \/ \E s \in Slash24s : DriverDrops(s)
           \/ RequestStop \/ CheckShutdown \/ RequestReload \/ LoaderDone
  <2>1. outstanding' = outstanding
    BY <1>4 DEF TimerNothingLeft, TimerLimitReached, DriverDrops, RequestStop,
                CheckShutdown, RequestReload, LoaderDone
  <2> QED  BY <1>0, <2>1 DEF RestOK
<1>5. CASE \E s \in Slash24s : HandleDriverResp(s)
  <2>1. outstanding' = outstanding \/ outstanding' = outstanding - 1
    BY <1>3, <1>5
  <2>2. outstanding \in Int
    BY <1>0 DEF RestOK
  <2>3. ~(outstanding' > outstanding)
    BY <2>1, <2>2
  <2> QED  BY <2>3
<1> QED  BY <1>1, <1>2, <1>4, <1>5 DEF Next, HandleTimer

\* Probes are added to those outstanding only within the allowance, one slice at
\* a time.
THEOREM BacklogIsBounded == Spec => BackPressure
<1>1. IInv /\ [Next]_vars =>
        [outstanding' > outstanding =>
           /\ outstanding <= sliceSize' * SkipFactor
           /\ outstanding' <= sliceSize' * SkipFactor + sliceSize']_vars
  BY OnlySlicesAdd
<1> QED  BY InitIInv, StepIInv, <1>1, PTL DEF Spec, BackPressure

-----------------------------------------------------------------------------
(* Reloads                                                                   *)

\* The loop's part in a reload: it schedules the thread, and takes its list.
LEMMA SettlingFollowsProtocol ==
  ASSUME NEW r \in AfterScheduling, SettleList(r)
  PROVE  [ReloadNext]_reload
<1>1. CASE ~Adopts(r)
  <2>1. reload' \in AfterScheduling
    BY <1>1 DEF SettleList
  <2> QED  BY <2>1 DEF AfterScheduling, ReloadNext
<1>2. CASE Adopts(r) /\ reload.status = "SCHEDULED"
  <2>1. reload' = NoReload
    BY <1>2 DEF SettleList
  <2> QED  BY <1>2, <2>1 DEF AfterScheduling, ReloadNext
<1>3. CASE Adopts(r) /\ reload.status # "SCHEDULED"
  <2>1. reload' = NoReload /\ r = reload /\ r.status = "DONE"
    BY <1>3 DEF SettleList, Adopts, AfterScheduling
  <2> QED  BY <2>1 DEF Adopt, ReloadNext
<1> QED  BY <1>1, <1>2, <1>3

\* Whatever the loop and the drivers do, a reload goes the way of the protocol
\* that the handler, the timer and the thread of module Reload implement.
THEOREM ReloadsFollowProtocol == Spec => ReloadSpec
<1>1. Init => ReloadInit
  BY DEF Init, ReloadInit
<1>2. [Next]_vars => [ReloadNext]_reload
  <2> SUFFICES ASSUME [Next]_vars PROVE [ReloadNext]_reload
    OBVIOUS
  <2>1. CASE TimerMidRound \/ TimerNothingLeft
    <3>1. reload' \in AfterScheduling
      BY <2>1 DEF TimerMidRound, TimerNothingLeft
    <3> QED  BY <3>1 DEF AfterScheduling, ReloadNext
  <2>2. CASE TimerNewRound \/ TimerLimitReached
    <3>1. \E r \in AfterScheduling : SettleList(r)
      BY <2>2 DEF TimerNewRound, TimerLimitReached
    <3> QED  BY <3>1, SettlingFollowsProtocol
  <2>3. CASE RequestReload \/ LoaderDone
    BY <2>3 DEF RequestReload, LoaderDone, ReloadNext
  <2>4. CASE \/ \E s \in Slash24s : HandleDriverResp(s) \/ DriverDrops(s)
             \/ RequestStop \/ CheckShutdown \/ UNCHANGED vars
    <3>1. UNCHANGED reload
      BY <2>4 DEF HandleDriverResp, AnswerMissing, AnswerIgnored, AnswerAdaptive,
                  AnswerOutOfBudget, AnswerRecovery, AnswerSettles, Settle, DriverDrops,
                  RequestStop, CheckShutdown, vars
    <3> QED  BY <3>1
  <2> QED  BY <2>1, <2>2, <2>3, <2>4 DEF Next, HandleTimer
<1> QED  BY <1>1, <1>2, PTL DEF Spec, ReloadSpec

-----------------------------------------------------------------------------
(* Counting probes                                                           *)

LEMMA ProbesAreFinite ==
  \A f \in [Slash24s -> Nat] : IsFiniteSet(ProbesOf(f)) /\ Total(f) \in Nat
<1> SUFFICES ASSUME NEW f \in [Slash24s -> Nat]
             PROVE  IsFiniteSet(ProbesOf(f)) /\ Total(f) \in Nat
  OBVIOUS
<1> DEFINE own == [s \in Slash24s |-> {s} \X (1..f[s])]
           all == {{s} \X (1..f[s]) : s \in Slash24s}
<1>1. own \in Surjection(Slash24s, all)
  <2>1. own \in [Slash24s -> all]
    OBVIOUS
  <2>2. \A T \in all : \E s \in Slash24s : own[s] = T
    OBVIOUS
  <2> HIDE DEF own, all
  <2> QED  BY <2>1, <2>2, Fun_IsSurj
<1>2. IsFiniteSet(all)
  <2> HIDE DEF own, all
  <2> QED  BY <1>1, ConstantsAssumption, FS_Surjection
<1>3. ASSUME NEW s \in Slash24s PROVE IsFiniteSet({s} \X (1..f[s]))
  <2>1. IsFiniteSet({s})
    BY FS_Singleton
  <2>2. 1 \in Int /\ f[s] \in Int
    OBVIOUS
  <2>3. IsFiniteSet(1..f[s])
    BY <2>2, FS_Interval
  <2> QED  BY <2>1, <2>3, FS_Product
<1>4. \A T \in all : IsFiniteSet(T)
  BY <1>3
<1>5. IsFiniteSet(UNION all)
  <2> HIDE DEF all
  <2> QED  BY <1>2, <1>4, FS_UNION
<1> QED  BY <1>5, FS_CardinalityType DEF ProbesOf, Total

\* A probe is answered, or dropped.
LEMMA OneProbeFewer ==
  ASSUME NEW f \in [Slash24s -> Nat], NEW s \in Slash24s, f[s] > 0
  PROVE  Total([f EXCEPT ![s] = @ - 1]) = Total(f) - 1
<1> DEFINE g == [f EXCEPT ![s] = @ - 1]
<1>1. <<s, f[s]>> \in ProbesOf(f)
  BY DEF ProbesOf
<1>2. ProbesOf(g) = ProbesOf(f) \ {<<s, f[s]>>}
  <2>1. ASSUME NEW q \in Slash24s
        PROVE  {q} \X (1..g[q]) = ({q} \X (1..f[q])) \ {<<s, f[s]>>}
    <3>1. CASE q = s
      <4>1. 1..g[q] = (1..f[q]) \ {f[s]}
        BY <3>1
      <4> QED  BY <4>1, <3>1
    <3>2. CASE q # s
      BY <3>2
    <3> QED  BY <3>1, <3>2
  <2> HIDE DEF g
  <2> QED  BY <2>1 DEF ProbesOf
<1>3. IsFiniteSet(ProbesOf(f))
  BY ProbesAreFinite
<1> QED  BY <1>1, <1>2, <1>3, FS_RemoveElement DEF Total

\* A batch of /24s is probed, one probe each.
LEMMA BatchOfProbes ==
  ASSUME NEW f \in [Slash24s -> Nat], NEW batch \in SUBSET Slash24s
  PROVE  Total([s \in Slash24s |-> IF s \in batch THEN f[s] + 1 ELSE f[s]])
           = Total(f) + Cardinality(batch)
<1> DEFINE g == [s \in Slash24s |-> IF s \in batch THEN f[s] + 1 ELSE f[s]]
           new == {<<s, f[s] + 1>> : s \in batch}
           probe == [s \in batch |-> <<s, f[s] + 1>>]
<1>1. ProbesOf(g) = ProbesOf(f) \cup new
  <2>1. ASSUME NEW q \in Slash24s
        PROVE  {q} \X (1..g[q])
                 = ({q} \X (1..f[q])) \cup {p \in new : p[1] = q}
    <3>1. CASE q \in batch
      <4>1. 1..g[q] = (1..f[q]) \cup {f[q] + 1}
        BY <3>1
      <4>2. {p \in new : p[1] = q} = {<<q, f[q] + 1>>}
        BY <3>1
      <4> QED  BY <4>1, <4>2
    <3>2. CASE q \notin batch
      <4>1. {p \in new : p[1] = q} = {}
        BY <3>2
      <4>2. g[q] = f[q]
        BY <3>2
      <4> QED  BY <4>1, <4>2
    <3> QED  BY <3>1, <3>2
  <2>2. \A p \in new : p[1] \in Slash24s
    OBVIOUS
  <2> HIDE DEF g, new
  <2> QED  BY <2>1, <2>2 DEF ProbesOf
<1>2. ProbesOf(f) \cap new = {}
  BY DEF ProbesOf
<1>3. IsFiniteSet(batch) /\ Cardinality(batch) \in Nat
  BY ConstantsAssumption, FS_Subset, FS_CardinalityType
<1>4. probe \in Bijection(batch, new)
  <2>1. probe \in [batch -> new]
    OBVIOUS
  <2>2. \A a, b \in batch : probe[a] = probe[b] => a = b
    OBVIOUS
  <2>3. \A p \in new : \E s \in batch : probe[s] = p
    OBVIOUS
  <2> HIDE DEF probe, new
  <2> QED  BY <2>1, <2>2, <2>3, Fun_IsBij
<1>5. IsFiniteSet(new) /\ Cardinality(new) = Cardinality(batch)
  <2> HIDE DEF probe, new
  <2>1. ExistsBijection(batch, new)
    BY <1>4, Fun_ExistsBij
  <2> QED  BY <1>3, <2>1, FS_Bijection
<1>6. Cardinality(ProbesOf(f) \cup new) = Total(f) + Cardinality(new)
  <2> HIDE DEF new
  <2> QED  BY <1>2, <1>3, <1>5, ProbesAreFinite, FS_Union, FS_EmptySet DEF Total
<1> QED  BY <1>1, <1>5, <1>6 DEF Total

\* The /24s of consecutive places of a list.
LEMMA BatchSize ==
  ASSUME NEW l \in Lists, NEW from \in 0..Len(l), NEW to \in from..Len(l)
  PROVE  Cardinality({l[i] : i \in (from + 1)..to}) = to - from
<1> DEFINE places == (from + 1)..to
           batch == {l[i] : i \in places}
           at == [i \in places |-> l[i]]
<1>1. /\ l \in Seq(Slash24s) /\ Len(l) \in Nat
      /\ \A i, j \in 1..Len(l) : l[i] = l[j] => i = j
  <2>1. l \in Seq(Slash24s) /\ \A i, j \in DOMAIN l : l[i] = l[j] => i = j
    BY ConstantsAssumption
  <2> QED  BY <2>1, LenProperties
<1>2. from + 1 \in Int /\ to \in Int /\ from \in Int /\ from <= to
  BY <1>1
<1>3. IsFiniteSet(places) /\ Cardinality(places) = to - from
  <2>1. IsFiniteSet(places) /\ Cardinality(places) = IF from + 1 > to THEN 0 ELSE to - (from + 1) + 1
    BY <1>2, FS_Interval
  <2> HIDE DEF places
  <2> QED  BY <1>2, <2>1
<1>4. at \in Bijection(places, batch)
  <2>1. at \in [places -> batch]
    OBVIOUS
  <2>2. \A a, b \in places : at[a] = at[b] => a = b
    BY <1>1, <1>2
  <2>3. \A s \in batch : \E i \in places : at[i] = s
    OBVIOUS
  <2> HIDE DEF at, places, batch
  <2> QED  BY <2>1, <2>2, <2>3, Fun_IsBij
<1>5. Cardinality(batch) = Cardinality(places)
  <2> HIDE DEF at, places, batch
  <2>1. ExistsBijection(places, batch)
    BY <1>4, Fun_ExistsBij
  <2> QED  BY <1>3, <2>1, FS_Bijection
<1> QED  BY <1>3, <1>5

LEMMA OneProbeMore ==
  ASSUME NEW f \in [Slash24s -> Nat], NEW s \in Slash24s
  PROVE  Total([f EXCEPT ![s] = @ + 1]) = Total(f) + 1
<1>1. [f EXCEPT ![s] = @ + 1]
        = [q \in Slash24s |-> IF q \in {s} THEN f[q] + 1 ELSE f[q]]
  OBVIOUS
<1>2. {s} \in SUBSET Slash24s /\ Cardinality({s}) = 1
  BY FS_Singleton
<1> QED  BY <1>1, <1>2, BatchOfProbes

-----------------------------------------------------------------------------
(* The probes outstanding                                                    *)

LEMMA AccountsOfNextState ==
  OutstandingAccounts' <=> outstanding' = Total(inflight') + Total(lost') + missing'
  BY DEF OutstandingAccounts, Total, ProbesOf

\* A slice adds as many probes in flight as it adds to those outstanding.
LEMMA SliceIsCounted ==
  ASSUME RestOK, NEW l \in Lists, NEW from \in 0..Len(l), NEW size \in Nat,
         NEW st, NEW before, QueueSlice(l, from, size, st, before)
  PROVE  \E n \in Nat : /\ outstanding' = outstanding + n
                         /\ Total(inflight') = Total(inflight) + n
<1>0. outstanding \in Int /\ inflight \in [Slash24s -> Nat]
  BY DEF RestOK
<1>1. Total(inflight) \in Nat
  BY <1>0, ProbesAreFinite
<1>2. CASE Backlogged(size)
  <2>1. outstanding' = outstanding /\ inflight' = inflight
    BY <1>2 DEF QueueSlice
  <2> QED  BY <1>0, <1>1, <2>1
<1>3. CASE ~Backlogged(size)
  <2> DEFINE to == SliceEnd(l, from, size)
             batch == {l[i] : i \in (from + 1)..to}
  <2>1. l \in Seq(Slash24s) /\ Len(l) \in Nat /\ DOMAIN l = 1..Len(l)
    BY ConstantsAssumption, LenProperties
  <2>2. to \in from..Len(l)
    BY <2>1 DEF SliceEnd
  <2>3. ((from + 1)..(from + size)) \cap DOMAIN l = (from + 1)..to
    BY <2>1 DEF SliceEnd
  <2>4. /\ outstanding' = outstanding + to - from
        /\ inflight' = [s \in Slash24s |->
                          IF s \in batch THEN inflight[s] + 1 ELSE inflight[s]]
    BY <1>3, <2>3 DEF QueueSlice, Reached
  <2>5. batch \in SUBSET Slash24s
    BY <2>1, <2>2
  <2>6. Cardinality(batch) = to - from
    BY <2>2, BatchSize
  <2> HIDE DEF batch, to
  <2>7. Total(inflight') = Total(inflight) + (to - from)
    BY <1>0, <2>4, <2>5, <2>6, BatchOfProbes
  <2>8. to \in Int /\ from \in Int /\ to - from \in Nat
    BY <2>1, <2>2
  <2>9. outstanding' = outstanding + (to - from)
    BY <1>0, <2>4, <2>8
  <2> QED  BY <2>7, <2>8, <2>9
<1> QED  BY <1>2, <1>3

LEMMA AccountsInit == Init => OutstandingAccounts
<1> SUFFICES ASSUME Init PROVE OutstandingAccounts
  OBVIOUS
<1>1. ProbesOf([s \in Slash24s |-> 0]) = {}
  BY DEF ProbesOf
<1>2. Total([s \in Slash24s |-> 0]) = 0
  BY <1>1, FS_EmptySet DEF Total
<1> QED  BY <1>2 DEF Init, OutstandingAccounts

LEMMA AccountsStep ==
  ASSUME IInv, OutstandingAccounts, [Next]_vars
  PROVE  OutstandingAccounts'
<1>0. /\ RestOK /\ state \in [Slash24s -> Slash24State] /\ AllGood
      /\ outstanding \in Int /\ missing \in Nat
      /\ inflight \in [Slash24s -> Nat] /\ lost \in [Slash24s -> Nat]
      /\ Total(inflight) \in Nat /\ Total(lost) \in Nat
      /\ outstanding = Total(inflight) + Total(lost) + missing
  BY IInvByState, ProbesAreFinite DEF RestOK, OutstandingAccounts
<1>1. CASE TimerMidRound
  <2>1. /\ QueueSlice(list, iter, sliceSize, state, skipped)
        /\ lost' = lost /\ missing' = missing
    BY <1>1 DEF TimerMidRound, ghostVars
  <2>2. list \in Lists /\ iter \in 0..Len(list) /\ sliceSize \in Nat
    BY <1>0 DEF RestOK
  <2> QED  BY <1>0, <2>1, <2>2, SliceIsCounted, AccountsOfNextState
<1>2. CASE TimerNewRound
  <2>1. PICK r \in AfterScheduling :
          /\ SettleList(r)
          /\ QueueSlice(list', 0, sliceSize', StatesAfterSettling(r), FALSE)
    BY <1>2 DEF TimerNewRound
  <2>2. list' \in Lists /\ sliceSize' \in Nat
    BY <1>0, <2>1, SettleListFacts
  <2>3. 0 \in 0..Len(list')
    BY <2>2, ListLength
  <2>4. lost' = lost /\ missing' = missing
    BY <1>2 DEF TimerNewRound
  <2>5. PICK n \in Nat : /\ outstanding' = outstanding + n
                         /\ Total(inflight') = Total(inflight) + n
    BY <1>0, <2>1, <2>2, <2>3, SliceIsCounted
  <2> QED  BY <1>0, <2>4, <2>5, AccountsOfNextState
<1>3. ASSUME NEW s \in Slash24s, HandleDriverResp(s) PROVE OutstandingAccounts'
  <2>0. inflight[s] > 0
    BY <1>3 DEF HandleDriverResp, AnswerMissing, AnswerIgnored, AnswerAdaptive,
                AnswerOutOfBudget, AnswerRecovery, AnswerSettles, AnswerCounts,
                AnswerArrives
  <2>1. Total([inflight EXCEPT ![s] = @ - 1]) = Total(inflight) - 1
    BY <1>0, <2>0, OneProbeFewer
  <2>2. CASE AnswerMissing(s)
    <3>1. /\ inflight' = [inflight EXCEPT ![s] = @ - 1]
          /\ missing' = missing + 1 /\ outstanding' = outstanding /\ lost' = lost
      BY <2>2 DEF AnswerMissing
    <3> QED  BY <1>0, <2>1, <3>1, AccountsOfNextState
  <2>3. CASE \/ AnswerIgnored(s)
             \/ \E b : Settle(s, b)
    <3>1. /\ inflight' = [inflight EXCEPT ![s] = @ - 1]
          /\ outstanding' = outstanding - 1 /\ missing' = missing /\ lost' = lost
      BY <2>3 DEF AnswerIgnored, Settle, ghostVars
    <3> QED  BY <1>0, <2>1, <3>1, AccountsOfNextState
  <2>4. CASE AnswerAdaptive(s) \/ AnswerRecovery(s)
    <3>1. /\ inflight' = inflight /\ outstanding' = outstanding
          /\ missing' = missing /\ lost' = lost
      BY <2>4 DEF AnswerAdaptive, AnswerRecovery, ghostVars
    <3> QED  BY <1>0, <3>1, AccountsOfNextState
  <2>5. CASE AnswerOutOfBudget(s) \/ AnswerSettles(s)
    <3>1. \E b : Settle(s, b)
      BY <2>5 DEF AnswerOutOfBudget, AnswerSettles
    <3> QED  BY <2>3, <3>1
  <2> QED  BY <1>3, <2>2, <2>3, <2>4, <2>5 DEF HandleDriverResp
<1>4. ASSUME NEW s \in Slash24s, DriverDrops(s) PROVE OutstandingAccounts'
  <2>1. /\ inflight' = [inflight EXCEPT ![s] = @ - 1] /\ inflight[s] > 0
        /\ lost' = [lost EXCEPT ![s] = @ + 1]
        /\ outstanding' = outstanding /\ missing' = missing
    BY <1>4 DEF DriverDrops
  <2>2. Total(inflight') = Total(inflight) - 1
    BY <1>0, <2>1, OneProbeFewer
  <2>3. Total(lost') = Total(lost) + 1
    BY <1>0, <2>1, OneProbeMore
  <2> QED  BY <1>0, <2>1, <2>2, <2>3, AccountsOfNextState
<1>5. CASE \/ TimerNothingLeft \/ TimerLimitReached \/ RequestStop \/ CheckShutdown
           \/ RequestReload \/ LoaderDone \/ UNCHANGED vars
  <2>1. UNCHANGED <<outstanding, inflight, lost, missing>>
    BY <1>5 DEF TimerNothingLeft, TimerLimitReached, RequestStop, CheckShutdown,
                RequestReload, LoaderDone, vars, ghostVars
  <2> QED  BY <1>0, <2>1, AccountsOfNextState
<1> QED  BY <1>1, <1>2, <1>3, <1>4, <1>5 DEF Next, HandleTimer

\* The outstanding counter is the probes in flight, plus those it never learns
\* about: dropped by a driver, or answered for a /24 that left the list.
THEOREM OutstandingIsAccountedFor == Spec => []OutstandingAccounts
  BY InitIInv, StepIInv, AccountsInit, AccountsStep, PTL DEF Spec

-----------------------------------------------------------------------------
(* The /24s in each state                                                    *)

\* The /24s of S that st has in state c, and the counters of a list l.
Having(st, S, c) == {s \in S : st[s].current_state = c}

CountsOf(st, l, cnt, all) ==
  /\ \A c \in BeliefStates : cnt[c] = Cardinality(Having(st, Range(l), c))
  /\ \A m \in Metas, c \in BeliefStates :
       all[m][c] = Cardinality(Having(st, Tagged(l, m), c))

LEMMA CountsOfState ==
  /\ StateCountsMatch <=> CountsOf(state, list, stateCnt, overall)
  /\ StateCountsMatch' <=> CountsOf(state', list', stateCnt', overall')
<1>1. StateCountsMatch <=> CountsOf(state, list, stateCnt, overall)
  BY DEF StateCountsMatch, CountsOf, Having
<1>2. StateCountsMatch' <=> CountsOf(state', list', stateCnt', overall')
  BY DEF StateCountsMatch, CountsOf, Having, Tagged, Range
<1> QED  BY <1>1, <1>2

\* What is counted: finitely many /24s.
LEMMA CountedSets ==
  \A l \in Lists : /\ Range(l) \subseteq Slash24s
                   /\ IsFiniteSet(Range(l))
                   /\ \A m \in Metas : Tagged(l, m) \subseteq Range(l)
<1> SUFFICES ASSUME NEW l \in Lists
             PROVE  Range(l) \subseteq Slash24s /\ IsFiniteSet(Range(l))
  BY DEF Tagged
<1>1. Range(l) \subseteq Slash24s
  BY ConstantsAssumption DEF Range
<1> QED  BY <1>1, ConstantsAssumption, FS_Subset

LEMMA HavingIsFinite ==
  ASSUME NEW S, S \subseteq Slash24s, NEW st, NEW c
  PROVE  IsFiniteSet(Having(st, S, c)) /\ Cardinality(Having(st, S, c)) \in Nat
<1>1. Having(st, S, c) \in SUBSET Slash24s
  BY DEF Having
<1> QED  BY <1>1, ConstantsAssumption, FS_Subset, FS_CardinalityType

\* The counters of a new list: every /24 is up.
LEMMA FreshCounts ==
  ASSUME NEW l \in Lists, NEW st, \A s \in Slash24s : st[s].current_state = "UP"
  PROVE  CountsOf(st, l, FreshCnt(Range(l)), FreshOverall(l))
<1>1. ASSUME NEW S, S \subseteq Range(l), NEW c \in BeliefStates
      PROVE  FreshCnt(S)[c] = Cardinality(Having(st, S, c))
  <2>0. Range(l) \subseteq Slash24s
    BY CountedSets
  <2>1. CASE c = "UP"
    <3>1. Having(st, S, c) = S
      BY <1>1, <2>0, <2>1 DEF Having
    <3> QED  BY <2>1, <3>1 DEF FreshCnt
  <2>2. CASE c # "UP"
    <3>1. Having(st, S, c) = {}
      BY <1>1, <2>0, <2>2 DEF Having
    <3> QED  BY <2>2, <3>1, FS_EmptySet DEF FreshCnt
  <2> QED  BY <2>1, <2>2
<1>2. \A m \in Metas : Tagged(l, m) \subseteq Range(l)
  BY CountedSets
<1> QED  BY <1>1, <1>2 DEF CountsOf, FreshOverall

\* Counters do not change as long as states do not.
LEMMA SameCounts ==
  ASSUME NEW l \in Lists, NEW cnt, NEW all, NEW st, NEW new, CountsOf(st, l, cnt, all),
         \A s \in Slash24s : new[s].current_state = st[s].current_state
  PROVE  CountsOf(new, l, cnt, all)
<1>1. ASSUME NEW S, S \subseteq Range(l), NEW c
      PROVE  Having(new, S, c) = Having(st, S, c)
  BY <1>1, CountedSets DEF Having
<1>2. \A m \in Metas : Tagged(l, m) \subseteq Range(l)
  BY CountedSets
<1> QED  BY <1>1, <1>2 DEF CountsOf

\* One /24 of those counted goes from one state to another, or to the same.
LEMMA MoveCounts ==
  ASSUME NEW S, S \subseteq Slash24s, NEW st, NEW new, NEW s \in S,
         \A q \in S \ {s} : new[q].current_state = st[q].current_state,
         NEW cnt \in [BeliefStates -> Int],
         \A c \in BeliefStates : cnt[c] = Cardinality(Having(st, S, c))
  PROVE  \A c \in BeliefStates :
           Move(cnt, st[s].current_state, new[s].current_state)[c]
             = Cardinality(Having(new, S, c))
<1> SUFFICES ASSUME NEW c \in BeliefStates
             PROVE  Move(cnt, st[s].current_state, new[s].current_state)[c]
                      = Cardinality(Having(new, S, c))
  OBVIOUS
<1> DEFINE from == st[s].current_state
           to == new[s].current_state
           old == Having(st, S, c)
<1>1. IsFiniteSet(old) /\ Cardinality(old) \in Nat /\ cnt[c] = Cardinality(old)
  BY HavingIsFinite
<1>2. Move(cnt, from, to)[c]
        = cnt[c] - (IF c = from THEN 1 ELSE 0) + (IF c = to THEN 1 ELSE 0)
  BY DEF Move
<1>3. s \in old <=> c = from
  BY DEF Having
<1>4. CASE (c = from) = (c = to)
  <2>1. Having(new, S, c) = old
    BY <1>4 DEF Having
  <2> QED  BY <1>1, <1>2, <1>4, <2>1
<1>5. CASE c = from /\ c # to
  <2>1. Having(new, S, c) = old \ {s}
    BY <1>5 DEF Having
  <2>2. Cardinality(old \ {s}) = Cardinality(old) - 1
    BY <1>1, <1>3, <1>5, FS_RemoveElement
  <2> QED  BY <1>1, <1>2, <1>5, <2>1, <2>2
<1>6. CASE c # from /\ c = to
  <2>1. Having(new, S, c) = old \cup {s}
    BY <1>6 DEF Having
  <2>2. Cardinality(old \cup {s}) = Cardinality(old) + 1
    BY <1>1, <1>3, <1>6, FS_AddElement
  <2> QED  BY <1>1, <1>2, <1>6, <2>1, <2>2
<1> QED  BY <1>4, <1>5, <1>6

\* A slice of probes changes no state.
LEMMA SliceKeepsStates ==
  ASSUME NEW l, NEW from, NEW size, NEW before, NEW st \in [Slash24s -> Slash24State],
         QueueSlice(l, from, size, st, before)
  PROVE  \A s \in Slash24s : state'[s].current_state = st[s].current_state
<1>1. CASE Backlogged(size)
  BY <1>1 DEF QueueSlice
<1>2. CASE ~Backlogged(size)
  <2> DEFINE batch == {l[i] : i \in ((from + 1)..(from + size)) \cap DOMAIN l}
  <2>1. state' = [s \in Slash24s |->
                    IF s \in batch THEN ProbePeriodically(s, st[s]) ELSE st[s]]
    BY <1>2 DEF QueueSlice
  <2> HIDE DEF batch
  <2> QED  BY <2>1, ProbePeriodicallyFacts
<1> QED  BY <1>1, <1>2

\* A list that is adopted comes with its own states and counters.
LEMMA SettlingKeepsCounts ==
  ASSUME RestOK, state \in [Slash24s -> Slash24State], AllGood, StateCountsMatch,
         NEW r \in AfterScheduling, SettleList(r)
  PROVE  CountsOf(StatesAfterSettling(r), list', stateCnt', overall')
<1>1. CASE Adopts(r)
  <2>1. /\ list' = r.next /\ list' \in Lists
        /\ stateCnt' = FreshCnt(Range(list')) /\ overall' = FreshOverall(list')
    BY <1>1, SettleListFacts DEF SettleList
  <2>2. \A s \in Slash24s : StatesAfterSettling(r)[s].current_state = "UP"
    BY <1>1, LevelFacts DEF StatesAfterSettling, FreshState
  <2> QED  BY <2>1, <2>2, FreshCounts
<1>2. CASE ~Adopts(r)
  BY <1>2, CountsOfState DEF SettleList, StatesAfterSettling, countVars
<1> QED  BY <1>1, <1>2

\* Settling a /24 of the list moves it from its old state to its new one, in
\* the counters of the list and of each of its tags.
LEMMA SettlingMovesCounts ==
  ASSUME RestOK, state \in [Slash24s -> Slash24State], StateCountsMatch,
         NEW s \in Range(list), NEW b, Settle(s, b)
  PROVE  StateCountsMatch'
<1>0. /\ s \in Slash24s /\ Range(list) \subseteq Slash24s
      /\ \A m \in Metas : Tagged(list, m) \subseteq Slash24s
      /\ list' = list /\ list \in Lists
      /\ stateCnt \in [BeliefStates -> Int]
      /\ \A m \in Metas : overall[m] \in [BeliefStates -> Int]
  BY CountedSets DEF RestOK, Settle, roundVars
<1>1. /\ state'[s].current_state = Class(b)
      /\ \A q \in Slash24s \ {s} : state'[q] = state[q]
  <2>1. state' = [state EXCEPT ![s] = [state[s] EXCEPT !.last_probe_type = "UNPROBED",
                                                       !.current_belief = b,
                                                       !.current_state = Class(b)]]
    BY DEF Settle, Settled
  <2>2. state[s] \in Slash24State
    BY <1>0
  <2> QED  BY <1>0, <2>1, <2>2 DEF Slash24State
<1>2. /\ stateCnt' = Move(stateCnt, state[s].current_state, state'[s].current_state)
      /\ \A m \in Metas :
           overall'[m] = IF m \in MetasOf[s]
                         THEN Move(overall[m], state[s].current_state,
                                   state'[s].current_state)
                         ELSE overall[m]
  BY <1>1 DEF Settle
<1>3. \A c \in BeliefStates : stateCnt'[c] = Cardinality(Having(state', Range(list), c))
  <2>1. \A c \in BeliefStates : stateCnt[c] = Cardinality(Having(state, Range(list), c))
    BY CountsOfState DEF CountsOf
  <2>2. \A q \in Range(list) \ {s} : state'[q].current_state = state[q].current_state
    BY <1>0, <1>1
  <2> QED  BY <1>0, <1>2, <2>1, <2>2, MoveCounts
<1>4. ASSUME NEW m \in Metas
      PROVE  \A c \in BeliefStates :
               overall'[m][c] = Cardinality(Having(state', Tagged(list, m), c))
  <2>1. \A c \in BeliefStates :
          overall[m][c] = Cardinality(Having(state, Tagged(list, m), c))
    BY CountsOfState DEF CountsOf
  <2>2. CASE m \in MetasOf[s]
    <3>1. s \in Tagged(list, m)
      BY <2>2 DEF Tagged
    <3>2. \A q \in Tagged(list, m) \ {s} : state'[q].current_state = state[q].current_state
      BY <1>0, <1>1
    <3>3. overall'[m] = Move(overall[m], state[s].current_state, state'[s].current_state)
      BY <1>2, <2>2
    <3> QED  BY <1>0, <2>1, <3>1, <3>2, <3>3, MoveCounts
  <2>3. CASE m \notin MetasOf[s]
    <3>1. s \notin Tagged(list, m)
      BY <2>3 DEF Tagged
    <3>2. \A c : Having(state', Tagged(list, m), c) = Having(state, Tagged(list, m), c)
      BY <1>0, <1>1, <3>1 DEF Having
    <3> QED  BY <1>2, <2>1, <2>3, <3>2
  <2> QED  BY <2>2, <2>3
<1> QED  BY <1>0, <1>3, <1>4, CountsOfState DEF CountsOf

LEMMA CountsInit == Init => StateCountsMatch
<1> SUFFICES ASSUME Init PROVE StateCountsMatch
  OBVIOUS
<1>1. list \in Lists /\ \A s \in Slash24s : state[s].current_state = "UP"
  BY LevelFacts DEF Init, FreshState
<1>2. CountsOf(state, list, FreshCnt(Range(list)), FreshOverall(list))
  BY <1>1, FreshCounts
<1> QED  BY <1>2, CountsOfState DEF Init

LEMMA CountsStep ==
  ASSUME IInv, StateCountsMatch, [Next]_vars
  PROVE  StateCountsMatch'
<1>0. /\ RestOK /\ state \in [Slash24s -> Slash24State] /\ AllGood
      /\ list \in Lists
      /\ CountsOf(state, list, stateCnt, overall)
  BY IInvByState, CountsOfState DEF RestOK
<1>1. CASE TimerMidRound
  <2>1. /\ QueueSlice(list, iter, sliceSize, state, skipped)
        /\ list' = list /\ stateCnt' = stateCnt /\ overall' = overall
    BY <1>1 DEF TimerMidRound, countVars
  <2>2. \A s \in Slash24s : state'[s].current_state = state[s].current_state
    BY <1>0, <2>1, SliceKeepsStates
  <2>3. CountsOf(state', list, stateCnt, overall)
    BY <1>0, <2>2, SameCounts
  <2> QED  BY <2>1, <2>3, CountsOfState
<1>2. CASE TimerNewRound
  <2>1. PICK r \in AfterScheduling :
          /\ SettleList(r)
          /\ QueueSlice(list', 0, sliceSize', StatesAfterSettling(r), FALSE)
    BY <1>2 DEF TimerNewRound
  <2>2. list' \in Lists /\ StatesAfterSettling(r) \in [Slash24s -> Slash24State]
    BY <1>0, <2>1, SettleListFacts
  <2>3. CountsOf(StatesAfterSettling(r), list', stateCnt', overall')
    BY <1>0, <2>1, SettlingKeepsCounts
  <2>4. \A s \in Slash24s :
          state'[s].current_state = StatesAfterSettling(r)[s].current_state
    BY <2>1, <2>2, SliceKeepsStates
  <2>5. CountsOf(state', list', stateCnt', overall')
    BY <2>2, <2>3, <2>4, SameCounts
  <2> QED  BY <2>5, CountsOfState
<1>3. CASE TimerLimitReached
  <2>1. PICK r \in AfterScheduling : SettleList(r) /\ state' = StatesAfterSettling(r)
    BY <1>3 DEF TimerLimitReached
  <2> QED  BY <1>0, <2>1, SettlingKeepsCounts, CountsOfState
<1>4. ASSUME NEW s \in Slash24s, HandleDriverResp(s) PROVE StateCountsMatch'
  <2>1. CASE AnswerOutOfBudget(s) \/ AnswerSettles(s)
    <3>1. s \in Range(list) /\ \E b : Settle(s, b)
      BY <2>1 DEF AnswerOutOfBudget, AnswerSettles, AnswerCounts
    <3> QED  BY <1>0, <3>1, SettlingMovesCounts
  <2>2. CASE AnswerMissing(s) \/ AnswerIgnored(s) \/ AnswerAdaptive(s) \/ AnswerRecovery(s)
    <3>1. list' = list /\ stateCnt' = stateCnt /\ overall' = overall
      BY <2>2 DEF AnswerMissing, AnswerIgnored, AnswerAdaptive, AnswerRecovery,
                  roundVars, countVars
    <3>2. \A q \in Slash24s : state'[q].current_state = state[q].current_state
      BY <1>0, <2>2 DEF AnswerMissing, AnswerIgnored, AnswerAdaptive, AnswerRecovery,
                        Slash24State
    <3>3. CountsOf(state', list, stateCnt, overall)
      BY <1>0, <3>2, SameCounts
    <3> QED  BY <3>1, <3>3, CountsOfState
  <2> QED  BY <1>4, <2>1, <2>2 DEF HandleDriverResp
<1>5. CASE \/ TimerNothingLeft \/ \E s \in Slash24s : DriverDrops(s)
           \/ RequestStop \/ CheckShutdown \/ RequestReload \/ LoaderDone
           \/ UNCHANGED vars
  <2>1. UNCHANGED <<state, list, stateCnt, overall>>
    BY <1>5 DEF TimerNothingLeft, DriverDrops, RequestStop, CheckShutdown,
                RequestReload, LoaderDone, vars, roundVars, countVars
  <2> QED  BY <1>0, <2>1, CountsOfState
<1> QED  BY <1>1, <1>2, <1>3, <1>4, <1>5 DEF Next, HandleTimer

\* What is published is the number of /24s of the active list in each state, in
\* all and for every tag, across answers, rounds and reloads.
THEOREM PublishedCountsMatch == Spec => []StateCountsMatch
  BY InitIInv, StepIInv, CountsInit, CountsStep, PTL DEF Spec


-----------------------------------------------------------------------------
(* The adaptive probes of a round                                            *)

LEMMA AdaptiveType ==
  ASSUME IInv
  PROVE  \A s \in Slash24s : state[s].adaptive \in 0..ProbeBudget
  BY DEF IInv, TypeOK, Slash24State

\* A slice gives a new budget to the /24s it reaches and to no other.
LEMMA SliceRefillsBudgets ==
  ASSUME NEW l, NEW from, NEW size, NEW before, NEW st \in [Slash24s -> Slash24State],
         QueueSlice(l, from, size, st, before), NEW s \in Slash24s
  PROVE  \/ state'[s].adaptive = st[s].adaptive
         \/ /\ ~Backlogged(size)
            /\ state'[s].adaptive = ProbeBudget
            /\ \E i \in ((from + 1)..(from + size)) \cap DOMAIN l : s = l[i]
<1>1. CASE Backlogged(size)
  BY <1>1 DEF QueueSlice
<1>2. CASE ~Backlogged(size)
  <2> DEFINE batch == {l[i] : i \in ((from + 1)..(from + size)) \cap DOMAIN l}
  <2>1. state' = [q \in Slash24s |->
                    IF q \in batch THEN ProbePeriodically(q, st[q]) ELSE st[q]]
    BY <1>2 DEF QueueSlice
  <2>2. s \in batch <=> \E i \in ((from + 1)..(from + size)) \cap DOMAIN l : s = l[i]
    OBVIOUS
  <2> HIDE DEF batch
  <2>3. CASE s \in batch
    BY <1>2, <2>1, <2>2, <2>3, ProbePeriodicallyFacts
  <2>4. CASE s \notin batch
    BY <2>1, <2>4
  <2> QED  BY <2>3, <2>4
<1> QED  BY <1>1, <1>2

\* Where a slice ends, and that it reaches each /24 for the first time: no list
\* names a /24 twice.
LEMMA SliceMovesOn ==
  ASSUME NEW l \in Lists, NEW from \in 0..Len(l), NEW size \in Nat, NEW st, NEW before,
         QueueSlice(l, from, size, st, before)
  PROVE  /\ iter' \in from..Len(l)
         /\ Backlogged(size) => iter' = from
         /\ ~Backlogged(size) => iter' = IF from + size < Len(l) THEN from + size ELSE Len(l)
         /\ \A i \in ((from + 1)..(from + size)) \cap DOMAIN l :
              /\ ~Backlogged(size) => l[i] \in {l[j] : j \in 1..iter'}
              /\ l[i] \notin {l[j] : j \in 1..from}
<1>0. l \in Seq(Slash24s) /\ Len(l) \in Nat /\ DOMAIN l = 1..Len(l)
  BY ConstantsAssumption, LenProperties
<1>1. iter' = IF Backlogged(size) THEN from ELSE SliceEnd(l, from, size)
  BY DEF QueueSlice, Reached
<1>2. SliceEnd(l, from, size) \in from..Len(l)
  BY <1>0 DEF SliceEnd
<1>3. ASSUME NEW i \in ((from + 1)..(from + size)) \cap DOMAIN l
      PROVE  /\ ~Backlogged(size) => l[i] \in {l[j] : j \in 1..iter'}
             /\ l[i] \notin {l[j] : j \in 1..from}
  <2>1. i \in 1..Len(l) /\ i > from /\ i <= from + size
    BY <1>0
  <2>2. ~Backlogged(size) => i \in 1..iter'
    BY <1>0, <1>1, <2>1 DEF SliceEnd
  <2>3. \A j \in 1..from : l[j] # l[i]
    <3> SUFFICES ASSUME NEW j \in 1..from, l[j] = l[i] PROVE FALSE
      OBVIOUS
    <3>1. j \in DOMAIN l /\ i \in DOMAIN l /\ j # i
      BY <1>0, <2>1
    <3> QED  BY <3>1, ConstantsAssumption
  <2> QED  BY <2>2, <2>3
<1>4. /\ iter' \in from..Len(l)
      /\ Backlogged(size) => iter' = from
  BY <1>0, <1>1, <1>2
<1>5. ~Backlogged(size) => iter' = IF from + size < Len(l) THEN from + size ELSE Len(l)
  BY <1>1 DEF SliceEnd
<1> QED  BY <1>3, <1>4, <1>5

LEMMA AdaptiveInit == Init => AdaptivePerRound
<1> SUFFICES ASSUME Init, NEW s \in Slash24s
             PROVE  roundAdaptive[s] + state[s].adaptive
                      <= IF s \in Asked THEN 2 * ProbeBudget ELSE ProbeBudget
  BY DEF AdaptivePerRound
<1>1. roundAdaptive[s] = 0 /\ state[s].adaptive = ProbeBudget
  BY DEF Init, FreshState
<1>2. s \notin Asked
  BY DEF Init, Asked
<1> QED  BY <1>1, <1>2, ConstantsAssumption

LEMMA AdaptiveStep ==
  ASSUME IInv, AdaptivePerRound, [Next]_vars
  PROVE  AdaptivePerRound'
<1>0. /\ RestOK /\ state \in [Slash24s -> Slash24State] /\ AllGood
      /\ list \in Lists /\ iter \in 0..Len(list) /\ sliceSize \in Nat
      /\ ProbeBudget \in Nat
  BY IInvByState, ConstantsAssumption DEF RestOK
<1>1. CASE TimerMidRound
  <2>1. /\ running /\ roundAdaptive' = roundAdaptive /\ list' = list
        /\ QueueSlice(list, iter, sliceSize, state, skipped)
    BY <1>1 DEF TimerMidRound, TimerFires, ghostVars
  <2> SUFFICES ASSUME NEW s \in Slash24s
               PROVE  roundAdaptive'[s] + state'[s].adaptive
                        <= IF s \in Asked' THEN 2 * ProbeBudget ELSE ProbeBudget
    BY DEF AdaptivePerRound
  <2>2. /\ state[s].adaptive \in 0..ProbeBudget /\ roundAdaptive[s] \in Nat
        /\ roundAdaptive[s] + state[s].adaptive
             <= IF s \in Asked THEN 2 * ProbeBudget ELSE ProbeBudget
    BY <1>0, <2>1, AdaptiveType DEF RestOK, AdaptivePerRound
  <2>3. s \in Asked => s \in Asked'
    <3>1. iter' \in iter..Len(list)
      BY <1>0, <2>1, SliceMovesOn
    <3>2. \A i \in 1..iter : i \in 1..iter'
      BY <1>0, <3>1, ListLength
    <3> QED  BY <2>1, <3>2 DEF Asked
  <2>4. CASE state'[s].adaptive = state[s].adaptive
    BY <1>0, <2>1, <2>2, <2>3, <2>4
  <2>5. CASE state'[s].adaptive # state[s].adaptive
    <3>1. PICK i \in ((iter + 1)..(iter + sliceSize)) \cap DOMAIN list :
            ~Backlogged(sliceSize) /\ state'[s].adaptive = ProbeBudget /\ s = list[i]
      BY <1>0, <2>1, <2>5, SliceRefillsBudgets
    <3>2. s \in Asked' /\ s \notin Asked
      BY <1>0, <2>1, <3>1, SliceMovesOn DEF Asked
    <3> QED  BY <1>0, <2>1, <2>2, <3>1, <3>2
  <2> QED  BY <2>4, <2>5
<1>2. CASE TimerNewRound
  <2>1. PICK r \in AfterScheduling :
          /\ SettleList(r)
          /\ QueueSlice(list', 0, sliceSize', StatesAfterSettling(r), FALSE)
    BY <1>2 DEF TimerNewRound
  <2>2. /\ list' \in Lists /\ sliceSize' \in Nat
        /\ StatesAfterSettling(r) \in [Slash24s -> Slash24State]
    BY <1>0, <2>1, SettleListFacts
  <2> SUFFICES ASSUME NEW s \in Slash24s
               PROVE  roundAdaptive'[s] + state'[s].adaptive
                        <= IF s \in Asked' THEN 2 * ProbeBudget ELSE ProbeBudget
    BY DEF AdaptivePerRound
  <2>3. roundAdaptive'[s] = 0
    BY <1>2 DEF TimerNewRound
  <2>4. state'[s].adaptive \in 0..ProbeBudget
    <3>1. StatesAfterSettling(r)[s].adaptive \in 0..ProbeBudget
      BY <2>2 DEF Slash24State
    <3>2. \/ state'[s].adaptive = StatesAfterSettling(r)[s].adaptive
          \/ state'[s].adaptive = ProbeBudget
      BY <2>1, <2>2, SliceRefillsBudgets
    <3> QED  BY <1>0, <3>1, <3>2
  <2> QED  BY <1>0, <2>3, <2>4
<1>3. CASE TimerLimitReached \/ CheckShutdown
  <2>1. ~running'
    BY <1>3 DEF TimerLimitReached, CheckShutdown
  <2> QED  BY <2>1 DEF AdaptivePerRound
<1>4. ASSUME NEW s \in Slash24s, HandleDriverResp(s) PROVE AdaptivePerRound'
  <2>0. running /\ list' = list /\ iter' = iter
    BY <1>4 DEF HandleDriverResp, AnswerMissing, AnswerIgnored, AnswerAdaptive,
                AnswerOutOfBudget, AnswerRecovery, AnswerSettles, AnswerCounts,
                AnswerArrives, Settle, roundVars
  <2>1. ASSUME NEW q \in Slash24s
        PROVE  roundAdaptive'[q] + state'[q].adaptive
                 = roundAdaptive[q] + state[q].adaptive
    <3>0. /\ state[q] \in Slash24State /\ state[q].adaptive \in Nat
          /\ roundAdaptive[q] \in Nat /\ roundAdaptive \in [Slash24s -> Nat]
      BY <1>0, AdaptiveType DEF RestOK
    <3>1. CASE AnswerAdaptive(s)
      <4>1. /\ roundAdaptive' = [roundAdaptive EXCEPT ![s] = @ + 1]
            /\ \E b : state' = [state EXCEPT ![s].last_probe_type = "ADAPTIVE",
                                            ![s].adaptive = @ - 1,
                                            ![s].current_belief = b]
        BY <3>1 DEF AnswerAdaptive
      <4>2. CASE q = s
        <5>1. roundAdaptive'[q] = roundAdaptive[q] + 1
          BY <3>0, <4>1, <4>2
        <5>2. state'[q].adaptive = state[q].adaptive - 1
          BY <1>0, <3>0, <4>1, <4>2 DEF Slash24State
        <5> QED  BY <3>0, <5>1, <5>2
      <4>3. CASE q # s
        BY <1>0, <3>0, <4>1, <4>3
      <4> QED  BY <4>2, <4>3
    <3>2. CASE ~AnswerAdaptive(s)
      <4>1. roundAdaptive' = roundAdaptive
        BY <1>4, <3>2 DEF HandleDriverResp, AnswerMissing, AnswerIgnored,
                          AnswerOutOfBudget, AnswerRecovery, AnswerSettles, Settle,
                          ghostVars
      <4>2. state'[q].adaptive = state[q].adaptive
        <5>1. CASE AnswerMissing(s) \/ AnswerIgnored(s)
          BY <5>1 DEF AnswerMissing, AnswerIgnored
        <5>2. CASE AnswerRecovery(s)
          BY <1>0, <3>0, <5>2 DEF AnswerRecovery, Slash24State
        <5>3. CASE AnswerOutOfBudget(s) \/ AnswerSettles(s)
          <6>1. \E b : state' = [state EXCEPT ![s] = Settled(@, b)]
            BY <5>3 DEF AnswerOutOfBudget, AnswerSettles, Settle
          <6> QED  BY <1>0, <3>0, <6>1 DEF Settled, Slash24State
        <5> QED  BY <1>4, <3>2, <5>1, <5>2, <5>3 DEF HandleDriverResp
      <4> QED  BY <4>1, <4>2
    <3> QED  BY <3>1, <3>2
  <2> QED  BY <2>0, <2>1 DEF AdaptivePerRound, Asked
<1>5. CASE \/ TimerNothingLeft \/ \E s \in Slash24s : DriverDrops(s)
           \/ RequestStop \/ RequestReload \/ LoaderDone \/ UNCHANGED vars
  <2>1. UNCHANGED <<running, list, iter, state, roundAdaptive>>
    BY <1>5 DEF TimerNothingLeft, DriverDrops, RequestStop, RequestReload, LoaderDone,
                vars, loopVars, roundVars, ghostVars
  <2> QED  BY <2>1 DEF AdaptivePerRound, Asked
<1> QED  BY <1>1, <1>2, <1>3, <1>4, <1>5 DEF Next, HandleTimer

\* Whatever the answers' delays, a round sends a /24 at most one budget of
\* adaptive probes before it reaches it, and two in all.
THEOREM AdaptiveProbesAreBounded == Spec => []AdaptivePerRound
  BY InitIInv, StepIInv, AdaptiveInit, AdaptiveStep, PTL DEF Spec

-----------------------------------------------------------------------------
(* Slices and rounds: current_slice is a number of rounds and a position     *)

LEMMA DivMod ==
  \A n \in Nat, d \in Nat \ {0} : /\ n = (n \div d) * d + (n % d)
                                  /\ n \div d \in Nat /\ n % d \in 0..(d - 1)
  OBVIOUS

LEMMA ProductFacts ==
  /\ \A n \in Nat, d \in Nat \ {0} : (n * d) % d = 0
  /\ \A a, b \in Nat : a * b \in Nat
  /\ \A a, b, d \in Nat : a <= b => a * d <= b * d
  /\ \A a, b \in Nat, d \in Nat \ {0} : a < b => a * d < b * d
<1>1. \A n \in Nat, d \in Nat \ {0} : (n * d) % d = 0
  OBVIOUS
<1>2. \A a, b \in Nat : a * b \in Nat
  OBVIOUS
<1>3. \A a, b, d \in Nat : a <= b => a * d <= b * d
  OBVIOUS
<1>4. \A a, b \in Nat, d \in Nat \ {0} : a < b => a * d < b * d
  OBVIOUS
<1> QED  BY <1>1, <1>2, <1>3, <1>4

LEMMA DivModUnique ==
  ASSUME NEW d \in Nat \ {0}, NEW q \in Nat, NEW p \in Nat,
         NEW r \in 0..(d - 1), NEW t \in 0..(d - 1), q * d + r = p * d + t
  PROVE  q = p /\ r = t
<1>1. ~(q < p)
  <2> SUFFICES ASSUME q + 1 <= p PROVE FALSE
    OBVIOUS
  <2>1. (q + 1) * d <= p * d
    OBVIOUS
  <2>2. (q + 1) * d = q * d + d
    OBVIOUS
  <2> QED  BY <2>1, <2>2
<1>2. ~(p < q)
  <2> SUFFICES ASSUME p + 1 <= q PROVE FALSE
    OBVIOUS
  <2>1. (p + 1) * d <= q * d
    OBVIOUS
  <2>2. (p + 1) * d = p * d + d
    OBVIOUS
  <2> QED  BY <2>1, <2>2
<1>3. q = p
  BY <1>1, <1>2
<1> QED  BY <1>3

LEMMA ModOfNext ==
  ASSUME NEW n \in Nat, NEW d \in Nat \ {0}
  PROVE  (n + 1) % d = IF (n % d) + 1 = d THEN 0 ELSE (n % d) + 1
<1> DEFINE q == n \div d
           r == n % d
           p == (n + 1) \div d
           t == (n + 1) % d
<1>1. /\ q \in Nat /\ r \in 0..(d - 1) /\ n = q * d + r
      /\ p \in Nat /\ t \in 0..(d - 1) /\ n + 1 = p * d + t
  BY DivMod, n + 1 \in Nat
<1> HIDE DEF q, r, p, t
<1>2. CASE r + 1 = d
  <2>1. (q + 1) * d + 0 = p * d + t
    BY <1>1, <1>2
  <2>2. q + 1 \in Nat /\ 0 \in 0..(d - 1)
    BY <1>1
  <2>3. t = 0
    BY ONLY <2>1, <2>2, <1>1, DivModUnique
  <2> QED  BY <1>2, <2>3 DEF r, t
<1>3. CASE r + 1 # d
  <2>1. q * d + (r + 1) = p * d + t
    BY <1>1
  <2>2. r + 1 \in 0..(d - 1)
    BY <1>1, <1>3
  <2>3. t = r + 1
    BY ONLY <2>1, <2>2, <1>1, DivModUnique
  <2> QED  BY <1>3, <2>3 DEF r, t
<1> QED  BY <1>2, <1>3

\* Folding current_slice changes its round and not its position.
LEMMA NextSliceFacts ==
  ASSUME currentSlice \in Nat
  PROVE  /\ NextSlice \in Nat
         /\ NextSlice % Slices = (currentSlice + 1) % Slices
         /\ \/ NextSlice = currentSlice + 1
            \/ /\ currentSlice + 1 = (LastRound + 1) * Slices
               /\ NextSlice = LastRound * Slices
<1>0. Slices \in Nat \ {0} /\ LastRound \in Nat
  BY ConstantsAssumption DEF LastRound
<1>1. CASE currentSlice + 1 = (LastRound + 1) * Slices
  <2>1. NextSlice = LastRound * Slices
    BY <1>1 DEF NextSlice
  <2>2. LastRound * Slices \in Nat
    BY <1>0, ProductFacts
  <2>3. (LastRound * Slices) % Slices = 0 /\ ((LastRound + 1) * Slices) % Slices = 0
    BY <1>0, ProductFacts, LastRound + 1 \in Nat
  <2> QED  BY <1>1, <2>1, <2>2, <2>3
<1>2. CASE currentSlice + 1 # (LastRound + 1) * Slices
  <2>1. NextSlice = currentSlice + 1
    BY <1>2 DEF NextSlice
  <2> QED  BY <2>1
<1> QED  BY <1>1, <1>2

-----------------------------------------------------------------------------
(* The round limit                                                           *)

\* The rounds that ended before the slice current_slice.  The loop that still
\* runs has not ended its last round.
RoundsBounded ==
  RoundLimit > 0 =>
    /\ roundsEnded <= RoundLimit
    /\ running => /\ roundsEnded < RoundLimit
                  /\ roundsEnded # 0 => roundsEnded * Slices < currentSlice

LEMMA RoundsInit == Init => RoundsBounded
  BY ConstantsAssumption DEF Init, RoundsBounded

\* One more slice, as long as no round ends, keeps the count.
LEMMA RoundsOfNextSlice ==
  ASSUME RoundsBounded, currentSlice \in Nat, roundsEnded \in Nat,
         roundsEnded' = roundsEnded, running, currentSlice' = NextSlice
  PROVE  RoundsBounded'
<1> SUFFICES ASSUME RoundLimit > 0, roundsEnded # 0
             PROVE  roundsEnded * Slices < NextSlice
  BY DEF RoundsBounded
<1>0. /\ roundsEnded < RoundLimit /\ roundsEnded * Slices < currentSlice
      /\ Slices \in Nat \ {0} /\ RoundLimit \in Nat
  BY ConstantsAssumption DEF RoundsBounded
<1>1. CASE NextSlice = currentSlice + 1
  BY <1>0, <1>1
<1>2. CASE NextSlice = RoundLimit * Slices
  BY <1>0, <1>2
<1> QED  BY <1>1, <1>2, NextSliceFacts DEF LastRound

LEMMA RoundsStep ==
  ASSUME IInv, RoundsBounded, [Next]_vars
  PROVE  RoundsBounded'
<1>0. /\ currentSlice \in Nat /\ roundsEnded \in Nat
      /\ Slices \in Nat \ {0} /\ RoundLimit \in Nat
  BY ConstantsAssumption DEF IInv, TypeOK
<1>1. CASE TimerMidRound \/ TimerNothingLeft
  <2>1. running /\ roundsEnded' = roundsEnded /\ currentSlice' = NextSlice
    BY <1>1 DEF TimerMidRound, TimerNothingLeft, TimerFires, QueueSlice
  <2> QED  BY <1>0, <2>1, RoundsOfNextSlice
<1>2. CASE TimerNewRound
  <2>0. running /\ AtBoundary /\ ~LimitReached /\ EndOfRound /\ currentSlice' = NextSlice
    BY <1>2 DEF TimerNewRound, TimerFires, QueueSlice
  <2> SUFFICES ASSUME RoundLimit > 0
               PROVE  /\ roundsEnded' < RoundLimit
                      /\ roundsEnded' # 0 => roundsEnded' * Slices < NextSlice
    BY <1>0, <2>0 DEF RoundsBounded, EndOfRound
  <2>1. Round \in Nat /\ currentSlice = Round * Slices /\ Round < RoundLimit
    <3>1. /\ currentSlice = Round * Slices + (currentSlice % Slices) /\ Round \in Nat
      BY <1>0, DivMod DEF Round
    <3>2. Round * Slices \in Nat
      BY <1>0, <3>1
    <3> QED  BY <1>0, <2>0, <3>1, <3>2 DEF AtBoundary, LimitReached
  <2>2. roundsEnded' <= Round
    <3>1. CASE roundsEnded = 0
      BY <2>0, <2>1, <3>1 DEF EndOfRound
    <3>2. CASE roundsEnded # 0
      <4>1. roundsEnded * Slices < Round * Slices
        BY <2>0, <2>1, <3>2 DEF RoundsBounded
      <4>2. roundsEnded < Round
        BY <1>0, <2>1, <4>1
      <4> QED  BY <1>0, <2>0, <2>1, <4>2 DEF EndOfRound
    <3> QED  BY <3>1, <3>2
  <2>3. roundsEnded' \in Nat
    BY <1>0, <2>0 DEF EndOfRound
  <2>4. roundsEnded' * Slices <= currentSlice
    BY <1>0, <2>1, <2>2, <2>3, ProductFacts
  <2>5. NextSlice = currentSlice + 1 \/ NextSlice = RoundLimit * Slices
    BY <1>0, NextSliceFacts DEF LastRound
  <2>6. roundsEnded' < RoundLimit
    BY <1>0, <2>1, <2>2, <2>3
  <2>7. roundsEnded' * Slices < RoundLimit * Slices /\ roundsEnded' * Slices \in Nat
    BY <1>0, <2>3, <2>6, ProductFacts
  <2> QED  BY <1>0, <2>4, <2>5, <2>6, <2>7
<1>3. CASE TimerLimitReached
  <2>1. running /\ ~running' /\ EndOfRound
    BY <1>3 DEF TimerLimitReached, TimerFires
  <2> QED  BY <1>0, <2>1 DEF RoundsBounded, EndOfRound
<1>4. CASE CheckShutdown
  BY <1>4 DEF CheckShutdown, RoundsBounded, roundVars
<1>5. CASE \/ \E s \in Slash24s : HandleDriverResp(s)
           \/ \E s \in Slash24s : DriverDrops(s)
           \/ RequestStop \/ RequestReload \/ LoaderDone \/ UNCHANGED vars
  <2>1. UNCHANGED <<running, currentSlice, roundsEnded>>
    BY <1>5 DEF HandleDriverResp, AnswerMissing, AnswerIgnored, AnswerAdaptive,
                AnswerOutOfBudget, AnswerRecovery, AnswerSettles, Settle, DriverDrops,
                RequestStop, RequestReload, LoaderDone, vars, loopVars, roundVars
  <2> QED  BY <2>1, SMTT(60) DEF RoundsBounded
<1> QED  BY <1>1, <1>2, <1>3, <1>4, <1>5 DEF Next, HandleTimer

\* A prober with a round limit never completes more rounds than it was given.
THEOREM RoundLimitIsKept == Spec => []WithinRoundLimit
<1>1. RoundsBounded => WithinRoundLimit
  BY DEF RoundsBounded, WithinRoundLimit
<1> QED  BY InitIInv, StepIInv, RoundsInit, RoundsStep, <1>1, PTL DEF Spec

-----------------------------------------------------------------------------
(* Coverage of the list                                                      *)

\* The slices that the round has had: at a boundary, all of them.
SlicesOfRound == IF AtBoundary THEN Slices ELSE currentSlice % Slices

\* The slices of a round are long enough for the list, and a round that skipped
\* none has reached as much of it as they allow.
SlicesCover ==
  /\ sliceSize * Slices >= Len(list)
  /\ running /\ started /\ ~skipped
       => iter = Len(list) \/ iter >= SlicesOfRound * sliceSize

LEMMA CeilDivCovers ==
  ASSUME NEW n \in Nat, NEW d \in Nat \ {0}, NEW e \in Nat, d <= e
  PROVE  CeilDiv(n, d) * e >= n
<1>1. CeilDiv(n, d) \in Nat /\ CeilDiv(n, d) * d >= n
  BY DEF CeilDiv
<1>2. CeilDiv(n, d) * e >= CeilDiv(n, d) * d
  BY <1>1
<1>3. CeilDiv(n, d) * e \in Nat /\ CeilDiv(n, d) * d \in Nat
  BY <1>1
<1> QED  BY <1>1, <1>2, <1>3

\* A round that has skipped no slice by its boundary has reached the whole list.
LEMMA CoveredAtBoundary ==
  ASSUME IInv, SlicesCover
  PROVE  CoversInterval
<1> SUFFICES ASSUME running, started, AtBoundary, ~skipped PROVE iter = Len(list)
  BY DEF CoversInterval
<1>1. /\ iter \in 0..Len(list) /\ Len(list) \in Nat
      /\ sliceSize \in Nat /\ Slices \in Nat
  BY ListLength, ConstantsAssumption DEF IInv, TypeOK
<1>2. iter = Len(list) \/ iter >= Slices * sliceSize
  BY DEF SlicesCover, SlicesOfRound
<1>3. Slices * sliceSize >= Len(list) /\ Slices * sliceSize \in Nat
  BY <1>1 DEF SlicesCover
<1> QED  BY <1>1, <1>2, <1>3

LEMMA CoverInit == ASSUME SizingSlices <= Slices, Init PROVE SlicesCover
<1>1. list \in Lists /\ sliceSize = CeilDiv(Len(list), SizingSlices) /\ ~started
  BY DEF Init
<1>2. CeilDiv(Len(list), SizingSlices) * Slices >= Len(list)
  BY <1>1, ListLength, CeilDivCovers, ConstantsAssumption
<1> QED  BY <1>1, <1>2 DEF SlicesCover

\* How many slices the round has had after one more.
LEMMA SlicesOfRoundNext ==
  ASSUME currentSlice \in Nat, currentSlice' = NextSlice
  PROVE  /\ AtBoundary => SlicesOfRound' = 1
         /\ ~AtBoundary => SlicesOfRound' = SlicesOfRound + 1
         /\ SlicesOfRound \in Nat
<1>0. Slices \in Nat \ {0} /\ currentSlice % Slices \in 0..(Slices - 1)
  BY DivMod, ConstantsAssumption
<1>1. currentSlice' % Slices
        = IF (currentSlice % Slices) + 1 = Slices THEN 0 ELSE (currentSlice % Slices) + 1
  BY <1>0, NextSliceFacts, ModOfNext
<1>2. SlicesOfRound' = IF currentSlice' % Slices = 0 THEN Slices
                                                     ELSE currentSlice' % Slices
  BY DEF SlicesOfRound, AtBoundary
<1> QED  BY <1>0, <1>1, <1>2 DEF SlicesOfRound, AtBoundary

LEMMA CoverStep ==
  ASSUME IInv, SlicesCover, [Next]_vars
  PROVE  SlicesCover'
<1>0. /\ RestOK /\ state \in [Slash24s -> Slash24State] /\ AllGood
      /\ list \in Lists /\ iter \in 0..Len(list) /\ Len(list) \in Nat
      /\ sliceSize \in Nat /\ currentSlice \in Nat /\ Slices \in Nat \ {0}
  BY IInvByState, ListLength, ConstantsAssumption DEF RestOK
<1>1. CASE TimerMidRound
  <2>1. /\ QueueSlice(list, iter, sliceSize, state, skipped)
        /\ list' = list /\ sliceSize' = sliceSize /\ running /\ started /\ started' = started
        /\ iter < Len(list) /\ currentSlice' = NextSlice
    BY <1>0, <1>1 DEF TimerMidRound, TimerFires, RoundOver, QueueSlice
  <2> SUFFICES ASSUME ~skipped'
               PROVE  iter' = Len(list) \/ iter' >= SlicesOfRound' * sliceSize
    BY <2>1 DEF SlicesCover
  <2>2. ~skipped /\ ~Backlogged(sliceSize)
    BY <2>1 DEF QueueSlice
  <2>3. ~AtBoundary
    BY <2>1, <2>2, CoveredAtBoundary, <1>0 DEF CoversInterval, TimerMidRound
  <2>4. SlicesOfRound \in Nat /\ SlicesOfRound' = SlicesOfRound + 1
    BY <1>0, <2>1, <2>3, SlicesOfRoundNext
  <2>5. iter >= SlicesOfRound * sliceSize
    BY <1>0, <2>1, <2>2, <1>1 DEF SlicesCover, TimerMidRound, TimerFires
  <2>6. (SlicesOfRound + 1) * sliceSize = SlicesOfRound * sliceSize + sliceSize
    BY <1>0, <2>4
  <2>7. iter' = IF iter + sliceSize < Len(list) THEN iter + sliceSize ELSE Len(list)
    BY <1>0, <2>1, <2>2, SliceMovesOn
  <2>8. SlicesOfRound * sliceSize \in Nat
    BY <1>0, <2>4
  <2> QED  BY <1>0, <2>4, <2>5, <2>6, <2>7, <2>8
<1>2. CASE TimerNewRound
  <2>1. PICK r \in AfterScheduling :
          /\ SettleList(r)
          /\ QueueSlice(list', 0, sliceSize', StatesAfterSettling(r), FALSE)
    BY <1>2 DEF TimerNewRound
  <2>2. list' \in Lists /\ sliceSize' \in Nat /\ Len(list') \in Nat /\ AtBoundary
    BY <1>0, <1>2, <2>1, SettleListFacts, ListLength DEF TimerNewRound
  <2>3. sliceSize' * Slices >= Len(list')
    <3>1. CASE Adopts(r)
      <4>1. list' = r.next /\ sliceSize' = CeilDiv(Len(list'), Slices)
        BY <2>1, <3>1 DEF SettleList
      <4> QED  BY <1>0, <2>2, <4>1, CeilDivCovers
    <3>2. CASE ~Adopts(r)
      BY <2>1, <3>2 DEF SettleList, SlicesCover
    <3> QED  BY <3>1, <3>2
  <2>4. ASSUME ~skipped'
        PROVE  iter' = Len(list') \/ iter' >= SlicesOfRound' * sliceSize'
    <3>1. ~Backlogged(sliceSize') /\ currentSlice' = NextSlice
      BY <2>1, <2>4 DEF QueueSlice
    <3>2. SlicesOfRound' = 1
      BY <1>0, <2>2, <3>1, SlicesOfRoundNext
    <3>3. iter' = IF 0 + sliceSize' < Len(list') THEN 0 + sliceSize' ELSE Len(list')
      <4>1. 0 \in 0..Len(list')
        BY <2>2
      <4> QED  BY <2>1, <2>2, <3>1, <4>1, SliceMovesOn
    <3>4. SlicesOfRound' * sliceSize' = sliceSize'
      <4>1. \A n \in Nat : 1 * n = n
        OBVIOUS
      <4> QED  BY ONLY <2>2, <3>2, <4>1
    <3>5. iter' = Len(list') \/ iter' = sliceSize'
      <4>1. \A n \in Nat : 0 + n = n
        OBVIOUS
      <4>2. 0 + sliceSize' = sliceSize'
        BY ONLY <2>2, <4>1, Zenon
      <4> QED  BY <3>3, <4>2, Zenon
    <3>6. sliceSize' >= sliceSize'
      BY <2>2
    <3> QED  BY <3>4, <3>5, <3>6
  <2> QED  BY <2>3, <2>4 DEF SlicesCover
<1>3. CASE TimerLimitReached
  <2>1. PICK r \in AfterScheduling : SettleList(r)
    BY <1>3 DEF TimerLimitReached
  <2>2. ~running'
    BY <1>3 DEF TimerLimitReached
  <2>3. CASE Adopts(r)
    <3>1. /\ list' = r.next /\ sliceSize' = CeilDiv(Len(list'), Slices)
          /\ list' \in Lists
      BY <1>0, <2>1, <2>3, SettleListFacts DEF SettleList
    <3>2. sliceSize' * Slices >= Len(list')
      BY <1>0, <3>1, CeilDivCovers, ListLength
    <3> QED  BY <2>2, <3>2 DEF SlicesCover
  <2>4. CASE ~Adopts(r)
    BY <2>1, <2>2, <2>4 DEF SettleList, SlicesCover
  <2> QED  BY <2>3, <2>4
<1>4. CASE TimerNothingLeft
  <2>1. /\ UNCHANGED <<list, sliceSize, started, running, iter, skipped>>
        /\ ~started \/ iter = Len(list)
    BY <1>0, <1>4 DEF TimerNothingLeft, RoundOver, loopVars
  <2> QED  BY <2>1 DEF SlicesCover
<1>5. CASE CheckShutdown
  BY <1>5 DEF CheckShutdown, SlicesCover, roundVars
<1>6. CASE \/ \E s \in Slash24s : HandleDriverResp(s)
           \/ \E s \in Slash24s : DriverDrops(s)
           \/ RequestStop \/ RequestReload \/ LoaderDone \/ UNCHANGED vars
  <2>1. UNCHANGED <<running, roundVars>>
    BY <1>6 DEF HandleDriverResp, AnswerMissing, AnswerIgnored, AnswerAdaptive,
                AnswerOutOfBudget, AnswerRecovery, AnswerSettles, Settle, DriverDrops,
                RequestStop, RequestReload, LoaderDone, vars, loopVars, roundVars
  <2> QED  BY <2>1, SMTT(60) DEF SlicesCover, SlicesOfRound, AtBoundary, roundVars
<1> QED  BY <1>1, <1>2, <1>3, <1>4, <1>5, <1>6 DEF Next, HandleTimer

\* When the slices that the first list was sized for are at most those of a
\* round, a round that skipped none has probed every /24 of the list.
THEOREM RoundsCoverTheList ==
  ASSUME SizingSlices <= Slices
  PROVE  Spec => []CoversInterval
<1>1. Init => SlicesCover
  BY CoverInit
<1> QED  BY InitIInv, StepIInv, <1>1, CoverStep, CoveredAtBoundary, PTL DEF Spec

=============================================================================

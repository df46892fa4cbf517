------------------------- MODULE Slash24StateProofs -------------------------
(***************************************************************************)
(* Proofs about module Slash24State: the two budgets share a byte without  *)
(* disturbing each other, the fold of rounds_since_up leaves the back-off  *)
(* as it was, and the hosts are probed in turn, for every A(E(b)), every   *)
(* number of hosts and however long a /24 is down.                         *)
(***************************************************************************)
EXTENDS Slash24State, TLAPS

\* The folded counter is the true one less a number of laps of 240 rounds, and
\* it has reached the constant part of the back-off before the first lap ends.
\* Without this BackoffFollowsRounds is not inductive: eligibility alone does
\* not say in which phase the counter is.
FoldsByLaps ==
  \E laps \in Nat : /\ rounds = rounds_since_up + 240 * laps
                    /\ laps > 0 => rounds_since_up >= BackoffMax

IInv == TypeOK /\ BudgetsAreIndependent /\ FoldsByLaps /\ HostsInTurn

\* Writing one half of the byte reads back masked, and leaves the other half.
LEMMA HalvesAreIndependent ==
  \A byte \in Byte, val \in Int :
         /\ SetAdaptive(byte, val) \in Byte
         /\ AdaptiveOf(SetAdaptive(byte, val)) = val % 16
         /\ RecoveryOf(SetAdaptive(byte, val)) = RecoveryOf(byte)
         /\ SetRecovery(byte, val) \in Byte
         /\ RecoveryOf(SetRecovery(byte, val)) = val % 16
         /\ AdaptiveOf(SetRecovery(byte, val)) = AdaptiveOf(byte)
  BY SMTT(60) DEF Byte, SetAdaptive, SetRecovery, AdaptiveOf, RecoveryOf

\* Each half holds four bits.
LEMMA HalvesAreSmall ==
  \A byte \in Byte : /\ AdaptiveOf(byte) \in Int /\ 0 <= AdaptiveOf(byte) /\ AdaptiveOf(byte) <= 15
                     /\ RecoveryOf(byte) \in Int /\ 0 <= RecoveryOf(byte) /\ RecoveryOf(byte) <= 15
  BY SMTT(60) DEF Byte, AdaptiveOf, RecoveryOf

\* Every value the budget can be set from is an entry of the table, or, past
\* its end, four bits.
LEMMA EntriesFit == \A a \in Percents : AebToRecovery(a) \subseteq -1..16
<1>1. \A i \in 1..99 : recovery_probe_cnt[i] \in -1..16
  BY SMTT(60) DEF recovery_probe_cnt
<1>2. DOMAIN recovery_probe_cnt = 1..99
  BY SMTT(60) DEF recovery_probe_cnt
<1> QED  BY <1>1, <1>2 DEF AebToRecovery

-----------------------------------------------------------------------------
(* The invariant                                                             *)

\* The sizes of a /24.
LEMMA HostCountsFit == HostCounts \subseteq 1..256
  BY Slash24StateAssumption DEF HostCounts

\* Sending a probe moves on to the next host, whether the index is put back to
\* zero by the test or wraps by itself.
LEMMA PickKeepsTurn ==
  ASSUME IInv, PickHost, UNCHANGED block
  PROVE  /\ current_host' \in Byte
         /\ hosts_cnt' \in HostCounts /\ aeb' \in Percents
         /\ turn' \in 0..(hosts_cnt' - 1)
         /\ HostsInTurn'
<1>1. /\ hosts_cnt \in 1..256 /\ hosts_cnt' = hosts_cnt
      /\ aeb' = aeb
      /\ current_host \in 0..255 /\ turn \in 0..(hosts_cnt - 1)
      /\ turn = (IF current_host >= hosts_cnt THEN 0 ELSE current_host)
  BY HostCountsFit DEF IInv, TypeOK, HostsInTurn, NextHost, Byte, block
<1>2. current_host' = (turn + 1) % 256 /\ turn' = (turn + 1) % hosts_cnt
  BY <1>1 DEF PickHost, NextHost
<1>3. CASE turn + 1 < hosts_cnt
  <2>1. current_host' = turn + 1 /\ turn' = turn + 1
    BY <1>1, <1>2, <1>3
  <2> QED  BY <1>1, <1>3, <2>1 DEF HostsInTurn, NextHost, Byte, IInv, TypeOK
<1>4. CASE turn + 1 = hosts_cnt
  <2>1. turn' = 0
    BY <1>1, <1>2, <1>4
  <2>2. current_host' \in 0..255 /\ (current_host' = hosts_cnt \/ current_host' = 0)
    BY <1>1, <1>2, <1>4
  <2> QED  BY <1>1, <2>1, <2>2 DEF HostsInTurn, NextHost, Byte, IInv, TypeOK
<1> QED  BY <1>1, <1>3, <1>4

LEMMA InitIInv == Init => IInv
<1> SUFFICES ASSUME Init PROVE IInv
  OBVIOUS
<1> USE Slash24StateAssumption
<1>0. aeb \in Percents
  BY DEF Init, Percents
<1>1. PICK g \in -1..16 : granted = g
  BY <1>0, EntriesFit DEF Init
<1>2. /\ AdaptiveBudget % 16 = AdaptiveBudget
      /\ SetAdaptive(0, AdaptiveBudget) \in Byte
      /\ AdaptiveOf(SetAdaptive(0, AdaptiveBudget)) = AdaptiveBudget % 16
  <2>1. 0 \in Byte
    BY DEF Byte
  <2>2. AdaptiveBudget \in Int /\ AdaptiveBudget % 16 = AdaptiveBudget
    OBVIOUS
  <2> QED  BY <2>1, <2>2, HalvesAreIndependent
<1>3. /\ probe_budget \in Byte
      /\ AdaptiveOf(probe_budget) = AdaptiveBudget
      /\ RecoveryOf(probe_budget) = granted % 16
  <2> DEFINE half == SetAdaptive(0, AdaptiveBudget)
  <2>1. half \in Byte /\ granted \in Int /\ AdaptiveOf(half) = AdaptiveBudget
    BY <1>1, <1>2
  <2>2. probe_budget = SetRecovery(half, granted)
    BY DEF Init
  <2> HIDE DEF half
  <2> QED  BY <2>1, <2>2, HalvesAreIndependent
<1>4. TypeOK
  <2>1. 0 \in Byte
    BY DEF Byte
  <2>2. aeb \in Percents /\ hosts_cnt \in HostCounts
    BY DEF Init, Percents, HostCounts
  <2>3. 0 \in 0..(hosts_cnt - 1)
    BY <2>2, HostCountsFit
  <2> QED  BY <1>1, <1>3, <2>1, <2>2, <2>3 DEF Init, TypeOK
<1>5. BudgetsAreIndependent
  <2>1. granted % 16 \in Int /\ AdaptiveBudget \in Int
    BY <1>1
  <2>2. sentAdaptive = 0 /\ sentRecovery = 0
    BY DEF Init
  <2> QED  BY <1>3, <2>1, <2>2 DEF BudgetsAreIndependent
<1>6. FoldsByLaps
  BY DEF Init, FoldsByLaps
<1>7. HostsInTurn
  BY HostCountsFit, <1>4 DEF Init, HostsInTurn, NextHost, TypeOK
<1> QED  BY <1>4, <1>5, <1>6, <1>7 DEF IInv

\* Setting both budgets from a table entry starts the count of probes afresh.
LEMMA ResetKeepsBudgets ==
  ASSUME IInv, NEW entry \in AebToRecovery(aeb), ResetBudgets(entry)
  PROVE  /\ probe_budget' \in Byte /\ granted' \in -1..16
         /\ sentAdaptive' \in Nat /\ sentRecovery' \in Nat
         /\ BudgetsAreIndependent'
<1> USE Slash24StateAssumption
<1>1. entry \in -1..16 /\ probe_budget \in Byte
  BY EntriesFit DEF IInv, TypeOK
<1> DEFINE half == SetAdaptive(probe_budget, AdaptiveBudget)
<1>2. half \in Byte /\ AdaptiveOf(half) = AdaptiveBudget
  <2>1. AdaptiveBudget \in Int /\ AdaptiveBudget % 16 = AdaptiveBudget
    OBVIOUS
  <2> QED  BY <1>1, <2>1, HalvesAreIndependent
<1>3. /\ SetRecovery(half, entry) \in Byte
      /\ RecoveryOf(SetRecovery(half, entry)) = entry % 16
      /\ AdaptiveOf(SetRecovery(half, entry)) = AdaptiveBudget
  BY <1>1, <1>2, HalvesAreIndependent
<1>4. probe_budget' = SetRecovery(half, entry) /\ granted' = entry
      /\ sentAdaptive' = 0 /\ sentRecovery' = 0
  BY DEF ResetBudgets
<1> HIDE DEF half
<1>5. BudgetsAreIndependent'
  <2>1. AdaptiveOf(probe_budget)' = AdaptiveBudget
    BY <1>3, <1>4 DEF AdaptiveOf
  <2>2. RecoveryOf(probe_budget)' = entry % 16
    BY <1>3, <1>4 DEF RecoveryOf
  <2> QED  BY <1>1, <1>4, <2>1, <2>2 DEF BudgetsAreIndependent
<1> QED  BY <1>1, <1>3, <1>4, <1>5

LEMMA StepIInv == IInv /\ [Next]_vars => IInv'
<1> SUFFICES ASSUME IInv, [Next]_vars PROVE IInv'
  OBVIOUS
<1> USE Slash24StateAssumption
<1>1. CASE RoundWhileUp
  <2>1. FoldsByLaps'
    BY <1>1 DEF RoundWhileUp, FoldsByLaps
  <2>2. 0 \in Byte
    BY DEF Byte
  <2> QED  BY <1>1, <2>1, <2>2, ResetKeepsBudgets, PickKeepsTurn DEF RoundWhileUp, IInv, TypeOK
<1>2. CASE RoundWhileNotUp
  <2>1. rounds_since_up' \in Byte /\ rounds' \in Nat
    BY <1>2 DEF RoundWhileNotUp, NextRounds, BackoffMax, IInv, TypeOK, Byte
  <2>2. FoldsByLaps'
    <3>1. PICK laps \in Nat : /\ rounds = rounds_since_up + 240 * laps
                              /\ laps > 0 => rounds_since_up >= 16
      BY DEF IInv, FoldsByLaps, BackoffMax
    <3>2. CASE rounds_since_up < 255
      BY <1>2, <3>1, <3>2
      DEF RoundWhileNotUp, NextRounds, FoldsByLaps, BackoffMax, IInv, TypeOK, Byte
    <3>3. CASE rounds_since_up = 255
      <4>1. rounds' = rounds_since_up' + 240 * (laps + 1) /\ rounds_since_up' = 16
        BY <1>2, <3>1, <3>3, SMTT(30) DEF RoundWhileNotUp, NextRounds, BackoffMax, IInv, TypeOK, Byte
      <4> QED  BY <4>1 DEF FoldsByLaps, BackoffMax
    <3> QED  BY <3>2, <3>3 DEF IInv, TypeOK, Byte
  <2> QED  BY <1>2, <2>1, <2>2, ResetKeepsBudgets, PickKeepsTurn DEF RoundWhileNotUp, IInv, TypeOK
<1>3. CASE SendAdaptive
  <2> DEFINE left == AdaptiveOf(probe_budget) - 1
  <2> probe_budget \in Byte
    BY DEF IInv, TypeOK
  <2>1. left \in Int /\ left % 16 = left
    BY <1>3, HalvesAreSmall DEF SendAdaptive
  <2>2. /\ probe_budget' \in Byte
        /\ AdaptiveOf(probe_budget') = left
        /\ RecoveryOf(probe_budget') = RecoveryOf(probe_budget)
    BY <1>3, <2>1, HalvesAreIndependent DEF SendAdaptive
  <2>3. BudgetsAreIndependent'
    BY <1>3, <2>1, <2>2 DEF SendAdaptive, BudgetsAreIndependent, AdaptiveOf, RecoveryOf,
                            IInv, TypeOK
  <2> QED  BY <1>3, <2>2, <2>3, PickKeepsTurn DEF SendAdaptive, IInv, TypeOK, FoldsByLaps
<1>4. CASE SendRecovery
  <2> DEFINE left == RecoveryOf(probe_budget) - 1
  <2> probe_budget \in Byte
    BY DEF IInv, TypeOK
  <2>1. left \in Int /\ left % 16 = left
    BY <1>4, HalvesAreSmall DEF SendRecovery
  <2>2. /\ probe_budget' \in Byte
        /\ RecoveryOf(probe_budget') = left
        /\ AdaptiveOf(probe_budget') = AdaptiveOf(probe_budget)
    BY <1>4, <2>1, HalvesAreIndependent DEF SendRecovery
  <2>3. BudgetsAreIndependent'
    BY <1>4, <2>1, <2>2 DEF SendRecovery, BudgetsAreIndependent, AdaptiveOf, RecoveryOf,
                            IInv, TypeOK
  <2> QED  BY <1>4, <2>2, <2>3, PickKeepsTurn DEF SendRecovery, IInv, TypeOK, FoldsByLaps
<1>5. CASE UNCHANGED vars
  BY <1>5 DEF vars, block, IInv, TypeOK, BudgetsAreIndependent, FoldsByLaps, HostsInTurn, NextHost
<1> QED  BY <1>1, <1>2, <1>3, <1>4, <1>5 DEF Next

LEMMA RemainderOfLaps == \A n, k \in Nat : (n + 240 * k) % 16 = n % 16
  OBVIOUS

\* A whole number of laps of 240 = 15 * 16 rounds leaves the back-off's tests on
\* the counter as they were.
LEMMA LapsKeepEligibility == IInv => BackoffFollowsRounds
<1> SUFFICES ASSUME IInv PROVE BackoffFollowsRounds
  OBVIOUS
<1>1. PICK laps \in Nat : /\ rounds = rounds_since_up + 240 * laps
                          /\ laps > 0 => rounds_since_up >= 16
  BY DEF IInv, FoldsByLaps, BackoffMax
<1>2. rounds_since_up \in Nat /\ rounds \in Nat
  BY DEF IInv, TypeOK, Byte
<1>3. CASE laps = 0
  <2>1. rounds = rounds_since_up
    BY <1>1, <1>2, <1>3
  <2> QED  BY <2>1 DEF BackoffFollowsRounds
<1>4. CASE laps > 0
  <2>1. rounds % 16 = rounds_since_up % 16
    BY <1>1, <1>2, RemainderOfLaps
  <2> QED  BY <1>1, <1>2, <1>4, <2>1 DEF BackoffFollowsRounds, Eligible
<1> QED  BY <1>3, <1>4

-----------------------------------------------------------------------------
(* The theorems                                                              *)

\* The bytes of the state of a /24, and its position among its hosts, keep their
\* ranges, for every table entry and number of hosts.
THEOREM TypeCorrect == Spec => []TypeOK
<1>1. IInv => TypeOK
  BY DEF IInv
<1> QED  BY InitIInv, StepIInv, <1>1, PTL DEF Spec

\* The two budgets of a /24 never disturb each other: it is sent exactly the
\* probes its budgets allow.
THEOREM BudgetsCorrect == Spec => [](TypeOK /\ BudgetsAreIndependent)
<1>1. IInv => TypeOK /\ BudgetsAreIndependent
  BY DEF IInv
<1> QED  BY InitIInv, StepIInv, <1>1, PTL DEF Spec

\* However long a /24 is down, the folded byte admits it to recovery in exactly
\* the rounds in which a counter that never wraps would.
THEOREM BackoffCorrect == Spec => []BackoffFollowsRounds
  BY InitIInv, StepIInv, LapsKeepEligibility, PTL DEF Spec

\* A /24 with any number of hosts up to 256 has them probed in turn, for ever.
THEOREM HostsAreProbedInTurn == Spec => []HostsInTurn
<1>1. IInv => HostsInTurn
  BY DEF IInv
<1> QED  BY InitIInv, StepIInv, <1>1, PTL DEF Spec

=============================================================================

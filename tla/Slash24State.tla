---------------------------- MODULE Slash24State ----------------------------
(***************************************************************************)
(* The bytes in which the state of a /24 keeps its probe budgets, its      *)
(* back-off and the next host to probe (trinarkular_slash24_state_t), and  *)
(* the table its recovery budget is read from.  Module Prober has the      *)
(* budgets as two counters; here they are the two halves of one byte, and  *)
(* a table entry is masked to four bits when it is stored.  A host is its  *)
(* index in the /24's array of hosts.                                      *)
(*                                                                         *)
(* An operator whose name starts with Mut is a broken variant of the one   *)
(* it precedes; no specification uses it.                                  *)
(***************************************************************************)
EXTENDS Integers, Sequences

CONSTANTS
  Blocks,         \* the /24s of this instance: A(E(b)), times 100 and truncated,
                  \* and the number of hosts
  AdaptiveBudget, \* TRINARKULAR_PROBER_ROUND_PROBE_BUDGET
  RoundsMax       \* bound: rounds in a row without the /24 being up

ASSUME Slash24StateAssumption ==
  /\ Blocks \subseteq (0..100) \X (1..256)
  /\ AdaptiveBudget \in 0..15
  /\ RoundsMax \in Nat

VARIABLES
  aeb,              \* A(E(b)) in percent: the index into the table
  probe_budget,     \* adaptive budget in the low half, recovery in the high half
  rounds_since_up,
  hosts_cnt,        \* hosts of the /24
  current_host,     \* where the next host is looked for, eight bits
  \* Variables that no action reads, for the properties:
  granted,          \* the table entry the recovery budget was last set from
  sentAdaptive,     \* probes of each kind sent since the budgets were set
  sentRecovery,
  rounds,           \* rounds since the /24 was up, counted without a limit
  turn              \* probes of any kind sent to the /24, modulo hosts_cnt

block == <<aeb, hosts_cnt>>
vars == <<block, probe_budget, rounds_since_up, current_host,
          granted, sentAdaptive, sentRecovery, rounds, turn>>

Percents == {b[1] : b \in Blocks}
HostCounts == {b[2] : b \in Blocks}

\* recovery_probe_cnt, first entry at index 0
recovery_probe_cnt ==
  <<-1, -1, -1, -1, -1, -1, -1, -1, -1, 16, 14, 13, 12, 11, 10, 10, 9, 9, 8, 8,
     7,  7,  7,  6,  6,  6,  6,  5,  5,  5,  5,  5,  5,  4,  4,  4, 4, 4, 4, 4,
     4,  3,  3,  3,  3,  3,  3,  3,  3,  3,  3,  3,  3,  3,  3,  2, 2, 2, 2, 2,
     2,  2,  2,  2,  2,  2,  2,  2,  2,  2,  2,  2,  2,  2,  2,  2, 2, 2, 2, 1,
     1,  1,  1,  1,  1,  1,  1,  1,  1,  1,  1,  1,  1,  1,  1,  1, 1, 1, 1>>

\* AEB_TO_RECOVERY: what may be read.  Past the end of the table it is whatever
\* the memory holds, of which four bits are kept.
AebToRecovery(a) ==
  IF a + 1 \in DOMAIN recovery_probe_cnt THEN {recovery_probe_cnt[a + 1]} ELSE 0..15

AdaptiveOf(byte) == byte % 16

\* The other half of the byte is cleared.
MutSetAdaptive(byte, val) == val % 16

SetAdaptive(byte, val) == 16 * (byte \div 16) + (val % 16)
RecoveryOf(byte) == byte \div 16

\* The old value of the half is not cleared.
MutSetRecovery(byte, val) == (byte + 16 * (val % 16)) % 256

SetRecovery(byte, val) == (byte % 16) + 16 * (val % 16)

\* RECOVERY_ELIGIBLE
Eligible(n) == n <= 4 \/ n = 8 \/ n % 16 = 0

BackoffMax == 16   \* RECOVERY_BACKOFF_MAX

\* The counter is not limited, or is left to wrap.
MutNextRounds(rsu) == rsu + 1
MutNextRoundsWraps(rsu) == (rsu + 1) % 256

NextRounds(rsu) == IF rsu < 255 THEN rsu + 1 ELSE BackoffMax

\* One host too many is looked for.
MutNextHost == IF current_host > hosts_cnt THEN 0 ELSE current_host

\* trinarkular_probelist_get_next_host: the host a probe is sent to.
NextHost == IF current_host >= hosts_cnt THEN 0 ELSE current_host

\* "we trust that the value will correctly wrap to zero"
PickHost ==
  /\ current_host' = (NextHost + 1) % 256
  /\ turn' = (turn + 1) % hosts_cnt

ResetBudgets(entry) ==
  /\ probe_budget' = SetRecovery(SetAdaptive(probe_budget, AdaptiveBudget), entry)
  /\ granted' = entry
  /\ sentAdaptive' = 0
  /\ sentRecovery' = 0

\* The timer reaches the /24, whose belief is up.
RoundWhileUp ==
  /\ \E entry \in AebToRecovery(aeb) : ResetBudgets(entry)
  /\ rounds_since_up' = 0
  /\ rounds' = 0
  /\ PickHost
  /\ UNCHANGED block

\* The timer reaches the /24, whose belief is not up.
RoundWhileNotUp ==
  /\ rounds < RoundsMax
  /\ \E entry \in AebToRecovery(aeb) : ResetBudgets(entry)
  /\ rounds_since_up' = NextRounds(rounds_since_up)
  /\ rounds' = rounds + 1
  /\ PickHost
  /\ UNCHANGED block

\* queue_slash24_probe, for the two kinds of probe that have a budget.
SendAdaptive ==
  /\ AdaptiveOf(probe_budget) > 0
  /\ probe_budget' = SetAdaptive(probe_budget, AdaptiveOf(probe_budget) - 1)
  /\ sentAdaptive' = sentAdaptive + 1
  /\ PickHost
  /\ UNCHANGED <<block, rounds_since_up, granted, sentRecovery, rounds>>

SendRecovery ==
  /\ Eligible(rounds_since_up)
  /\ RecoveryOf(probe_budget) > 0
  /\ probe_budget' = SetRecovery(probe_budget, RecoveryOf(probe_budget) - 1)
  /\ sentRecovery' = sentRecovery + 1
  /\ PickHost
  /\ UNCHANGED <<block, rounds_since_up, granted, sentAdaptive, rounds>>

Init ==
  /\ \E b \in Blocks : aeb = b[1] /\ hosts_cnt = b[2]
  /\ granted \in AebToRecovery(aeb)
  /\ probe_budget = SetRecovery(SetAdaptive(0, AdaptiveBudget), granted)
  /\ rounds_since_up = 0
  /\ current_host = 0
  /\ sentAdaptive = 0 /\ sentRecovery = 0
  /\ rounds = 0 /\ turn = 0

Next == RoundWhileUp \/ RoundWhileNotUp \/ SendAdaptive \/ SendRecovery

Spec == Init /\ [][Next]_vars

-----------------------------------------------------------------------------
(***************************************************************************)
(* Properties                                                              *)
(***************************************************************************)

Byte == 0..255

\* The fields stay within a byte each.
TypeOK ==
  /\ aeb \in Percents /\ hosts_cnt \in HostCounts
  /\ current_host \in Byte
  /\ probe_budget \in Byte
  /\ rounds_since_up \in Byte
  /\ granted \in -1..16
  /\ sentAdaptive \in Nat /\ sentRecovery \in Nat
  /\ rounds \in Nat
  /\ turn \in 0..(hosts_cnt - 1)

\* Sending one kind of probe never touches the other half of the byte, whatever
\* the table entry: between two periodic probes a /24 is sent exactly the probes
\* its budgets allow.  Of an entry that does not fit, four bits are granted: -1
\* stands for 15 probes and 16 for none, and neither reaches the adaptive half.
BudgetsAreIndependent ==
  /\ AdaptiveOf(probe_budget) = AdaptiveBudget - sentAdaptive
  /\ RecoveryOf(probe_budget) = (granted % 16) - sentRecovery

\* "Once the value reaches 255, it is reset to RECOVERY_BACKOFF_MAX to avoid
\* wrapping": the reset does not disturb the back-off, which admits a /24 to
\* recovery in the same rounds as a counter that never wraps would.
BackoffFollowsRounds == Eligible(rounds_since_up) <=> Eligible(rounds)

\* The hosts of a /24 are probed in turn, periodic, adaptive and recovery probes
\* together: each host is probed once before any is probed again, also when
\* there are 256 of them and the index wraps by itself.
HostsInTurn == NextHost = turn

\* The least n with (1 - i/100)^n <= 0.2, which is ceil(log(0.2)/log(1-i/100)),
\* in millionths: what the comment of the table says of i percent.
Documented(i) ==
  LET left[n \in 0..40] == IF n = 0 THEN 1000000 ELSE (left[n - 1] * (100 - i)) \div 100
  IN  IF i < 10 THEN -1
      ELSE CHOOSE n \in 1..40 : left[n] <= 200000 /\ \A m \in 1..(n - 1) : left[m] > 200000

\* "The number of recovery probes that may be sent for various A(E(b)) values":
\* between two periodic probes a /24 is sent no more than the number for its
\* percentage.  The entry read is that of the next percentage, which is never
\* larger; for 10, 11, 12, 13, 14, 16, 18, 20, 23, 27, 33, 41, 55 and 79 it is
\* smaller, and for 99 it lies behind the table.
RecoveryWithinDocumented == aeb \in 10..98 => sentRecovery <= Documented(aeb)

=============================================================================

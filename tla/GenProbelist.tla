---------------------------- MODULE GenProbelist ----------------------------
(***************************************************************************)
(* tools/gen-probelist.c: reads the history of every address, in order,    *)
(* collects what it says of one /24 at a time, and deals the /24s that are *)
(* worth probing to one output file per prober, round robin.               *)
(*                                                                         *)
(* A line of the history is the /24 and the host of its address and how    *)
(* many of the last four measurements the host answered, or Never.  The    *)
(* environment is a history with at most one line per address, in order    *)
(* within a /24.  The databases of locations and origins are external.     *)
(* The numbers that are only printed are left out.                         *)
(*                                                                         *)
(* An operator whose name starts with Mut is a broken variant of the one   *)
(* it precedes; no specification uses it.                                  *)
(***************************************************************************)
EXTENDS ProbelistText

CONSTANTS
  Lines,       \* the lines a history may have: [net, host, recent]
  MinHosts,    \* MIN_SLASH24_RESP_CNT
  ProberCnt,   \* -n, 0 when not given
  NamesCnt,    \* how many probers were named
  Limits,      \* values of -c, 0 when not given
  Blacklist,   \* /24s in the blacklist
  RecordsOf,   \* locations of each /24: [continent, country, polygons]
  OriginsOf,   \* origins of each /24: the sets of ASes that announce parts of it
  Filters      \* the metadata asked for with -m

Never == -1   \* the host did not answer in any of the 16 measurements

\* What the constants may be; module ProbelistFile assumes it.
GenConstants ==
  /\ Lines \subseteq [net : Nat \ {0}, host : 0..255, recent : -1..4]
  /\ MinHosts \in Nat \ {0}
  /\ ProberCnt \in Nat /\ NamesCnt \in Nat
  /\ Limits \subseteq Nat

VARIABLES
  phase,             \* "reading", "stopped", "done" or "failed"
  max_slash24_cnt,
  summary_only,
  last_slash24,      \* the /24 being collected, 0 before the first line
  skip,
  e_b,               \* answers of each host of it, Never when unset
  e_b_cnt,
  e_b_sum,
  outfiles,          \* the text of each output file
  outfiles_idx,      \* the file the next object goes to
  objects_written,
  resp_slash24_cnt,
  history            \* the lines of the /24s not cut short by the limit, for
                     \* the properties

optionVars == <<max_slash24_cnt, summary_only>>
blockVars == <<last_slash24, skip, e_b, e_b_cnt, e_b_sum>>
outVars == <<outfiles, outfiles_idx, objects_written, resp_slash24_cnt>>
vars == <<phase, optionVars, blockVars, outVars, history>>

Hosts == {l.host : l \in Lines}
Unset == [h \in Hosts |-> Never]

\* One file per prober, and at least as many probers as there are names.
outfiles_cnt ==
  LET asked == IF ProberCnt = 0 THEN 1 ELSE ProberCnt
  IN  IF NamesCnt > asked THEN NamesCnt ELSE asked

-----------------------------------------------------------------------------
(* lookup_metadata                                                           *)

\* The metadata of a /24; an origin is recorded only when it is a single AS.
Metadata(s) ==
  UNION ({{rec.continent, rec.country} \cup rec.polygons : rec \in RecordsOf[s]}
           \cup {asns \in OriginsOf[s] : Cardinality(asns) = 1})

\* Without filters any metadata will do, but there has to be some.
MatchesFilter(s) == \E metric \in Metadata(s) : Filters = {} \/ metric \in Filters

-----------------------------------------------------------------------------
(* dump_slash24_info                                                         *)

Responsive == e_b_cnt >= MinHosts

\* avg >= MIN_SLASH24_AVG_RESP_RATE
Usable == Responsive /\ 10 * e_b_sum >= 4 * e_b_cnt

Writes == ~skip /\ Usable /\ ~summary_only

\* The first object of the last file is taken for a second one.
MutNeedsComma == objects_written + 1 >= outfiles_cnt

\* With round robin, the file has an object already.
NeedsComma == objects_written >= outfiles_cnt

\* What e_b holds of the /24.
DumpedObject ==
  Object(last_slash24, (25 * e_b_sum) \div e_b_cnt, Metadata(last_slash24),
         {h \in Hosts : e_b[h] # Never})

OutfilesAfterDump ==
  IF Writes
  THEN [outfiles EXCEPT ![outfiles_idx] =
          @ \o (IF NeedsComma THEN <<Comma>> ELSE <<>>) \o DumpedObject]
  ELSE outfiles

Dump ==
  /\ resp_slash24_cnt' = resp_slash24_cnt + (IF ~skip /\ Responsive THEN 1 ELSE 0)
  /\ outfiles_idx' = IF Writes THEN (outfiles_idx + 1) % outfiles_cnt ELSE outfiles_idx
  /\ objects_written' = IF Writes THEN objects_written + 1 ELSE objects_written

-----------------------------------------------------------------------------
(* process_history_line                                                      *)

Skipped(s) == ~MatchesFilter(s) \/ s \in Blacklist

LineComes(l) ==
  /\ phase = "reading"
  /\ \A k \in history : k.net = l.net => k.host < l.host

\* Only addresses that have ever responded are recorded.
Record(l, rates, cnt, sum) ==
  IF l.recent = Never
  THEN e_b' = rates /\ e_b_cnt' = cnt /\ e_b_sum' = sum
  ELSE /\ e_b' = [rates EXCEPT ![l.host] = l.recent]
       /\ e_b_cnt' = cnt + 1
       /\ e_b_sum' = sum + l.recent

\* The first line, or another one of the same /24.
SameSlash24(l) ==
  /\ LineComes(l)
  /\ last_slash24 \in {0, l.net}
  /\ last_slash24' = l.net
  /\ skip' = IF last_slash24 = 0 THEN Skipped(l.net) ELSE skip
  /\ Record(l, e_b, e_b_cnt, e_b_sum)
  /\ history' = history \cup {l}
  /\ UNCHANGED <<phase, optionVars, outVars>>

\* One /24 too many.
MutStops == max_slash24_cnt > 0 /\ resp_slash24_cnt' > max_slash24_cnt

\* The limit is reached: the /24 that the line begins is incomplete.
Stops == max_slash24_cnt > 0 /\ resp_slash24_cnt' = max_slash24_cnt

NextSlash24(l) ==
  /\ LineComes(l)
  /\ last_slash24 > 0
  /\ l.net > last_slash24
  /\ Dump
  /\ outfiles' = OutfilesAfterDump
  /\ last_slash24' = l.net
  /\ Record(l, Unset, 0, 0)
  /\ skip' = (Stops \/ Skipped(l.net))
  /\ phase' = IF Stops THEN "stopped" ELSE "reading"
  /\ history' = IF Stops THEN history ELSE history \cup {l}
  /\ UNCHANGED optionVars

\* "History file must be sorted by IP", or a line with the wrong columns: the
\* files are closed as they are.
BadLine ==
  /\ phase = "reading"
  /\ phase' = "failed"
  /\ UNCHANGED <<optionVars, blockVars, outVars, history>>

\* After the last line, or the limit: the final /24, and the end of the files.
Finish ==
  /\ phase \in {"reading", "stopped"}
  /\ Dump
  /\ outfiles' = [f \in DOMAIN outfiles |-> Append(OutfilesAfterDump[f], Close)]
  /\ phase' = "done"
  /\ UNCHANGED <<optionVars, blockVars, history>>

-----------------------------------------------------------------------------

Init ==
  /\ phase = "reading"
  /\ max_slash24_cnt \in Limits
  /\ summary_only \in BOOLEAN
  /\ last_slash24 = 0
  /\ skip = FALSE
  /\ e_b = Unset /\ e_b_cnt = 0 /\ e_b_sum = 0
  /\ outfiles = [f \in 0..(outfiles_cnt - 1) |-> <<Open>>]
  /\ outfiles_idx = 0 /\ objects_written = 0
  /\ resp_slash24_cnt = 0
  /\ history = {}

Next ==
  \/ \E l \in Lines : SameSlash24(l) \/ NextSlash24(l)
  \/ BadLine
  \/ Finish

Spec == Init /\ [][Next]_vars

-----------------------------------------------------------------------------
(***************************************************************************)
(* Properties                                                              *)
(***************************************************************************)

\* What the history read so far says of a /24.
Answered(s) == {l \in history : l.net = s /\ l.recent # Never}
Total(s) == Cardinality(UNION {{l} \X (1..l.recent) : l \in Answered(s)})

\* |E(b)| >= 15 and A(E(b)) >= 0.1, and neither filtered nor blacklisted.
WorthProbing(s) ==
  /\ Cardinality(Answered(s)) >= MinHosts
  /\ 10 * Total(s) >= 4 * Cardinality(Answered(s))
  /\ ~Skipped(s)

\* The /24s of which every line has been read.
Complete ==
  {l.net : l \in history} \ (IF phase \in {"reading", "failed"} THEN {last_slash24} ELSE {})

\* The /24s to write, in order, and the text of the file that is dealt every
\* outfiles_cnt-th of them, from the first-th on.
ToWrite ==
  IF summary_only THEN <<>> ELSE InOrder({s \in Complete : WorthProbing(s)})

ObjectOf(s) ==
  Object(s, (25 * Total(s)) \div Cardinality(Answered(s)), Metadata(s),
         {l.host : l \in Answered(s)})

TextOf(first) ==
  LET own == InOrder({i \in DOMAIN ToWrite : (i - 1) % outfiles_cnt = first})
  IN  <<Open>>
      \o FlattenSeq([i \in DOMAIN own |->
                       (IF i = 1 THEN <<>> ELSE <<Comma>>) \o ObjectOf(ToWrite[own[i]])])
      \o (IF phase = "done" THEN <<Close>> ELSE <<>>)

\* Every /24 worth probing is written once, to the file whose turn it is, with
\* exactly the hosts that have answered; every file is an object whose members
\* are separated by commas, and is ended when the tool ends well.
FilesAreDealt == \A f \in DOMAIN outfiles : outfiles[f] = TextOf(f)

\* "max number of /24s to output"
WithinLimit ==
  max_slash24_cnt > 0 => objects_written <= max_slash24_cnt

=============================================================================

--------------------------- MODULE ProbelistFile ---------------------------
(***************************************************************************)
(* A probelist from the history of the addresses to the prober: module     *)
(* GenProbelist writes a file per prober, and a prober reads its file with *)
(* module ProbelistReader, also one that the tool left unfinished.         *)
(***************************************************************************)
EXTENDS ProbelistText, Functions

CONSTANTS Lines, MinHosts, ProberCnt, NamesCnt, Limits, Blacklist, RecordsOf, OriginsOf,
  Filters, BufSizes, Counts, MetaMax,
  HandWritten   \* lists that the tool did not write

VARIABLES
  \* gen-probelist
  phase, max_slash24_cnt, summary_only, last_slash24, skip, e_b, e_b_cnt, e_b_sum,
  outfiles, outfiles_idx, objects_written, resp_slash24_cnt, history,
  \* the reader
  result, file, filePos, buf, bufp, state, obj_start, obj_end, js, slash24s,
  s24_hash, readFailed, readShort

Gen == INSTANCE GenProbelist
Reader == INSTANCE ProbelistReader

\* The databases know finitely much of a /24.
ASSUME ProbelistFileAssumption ==
  /\ Gen!GenConstants /\ Reader!ReaderConstants
  /\ \A l \in Lines : IsFiniteSet(Gen!Metadata(l.net))

genVars ==
  <<phase, max_slash24_cnt, summary_only, last_slash24, skip, e_b, e_b_cnt, e_b_sum,
    outfiles, outfiles_idx, objects_written, resp_slash24_cnt, history>>
readerVars ==
  <<result, file, filePos, buf, bufp, state, obj_start, obj_end, js, slash24s,
    s24_hash, readFailed, readShort>>
vars == <<genVars, readerVars>>

Generates ==
  /\ Gen!Next
  /\ UNCHANGED readerVars

\* A prober is started on one of the files, once the tool has exited, or on a
\* list from elsewhere.
OpensFile ==
  /\ phase \in {"done", "failed"}
  /\ \E text \in Range(outfiles) \cup HandWritten : Reader!Create(text)
  /\ UNCHANGED genVars

Reads ==
  /\ Reader!Step
  /\ UNCHANGED genVars

Init == Gen!Init /\ Reader!Init

Next == Generates \/ OpensFile \/ Reads

Spec == Init /\ [][Next]_vars

-----------------------------------------------------------------------------
(***************************************************************************)
(* Properties                                                              *)
(***************************************************************************)

FilesAreDealt == Gen!FilesAreDealt
WithinLimit == Gen!WithinLimit

\* The prober reads a list that the tool has ended.
Ended == phase = "done" /\ file \in Range(outfiles)

Distinct(s) == \A i, j \in DOMAIN s : s[i] = s[j] => i = j

\* A /24 has reached the prober as the history has it, with as many of its tags
\* as are kept, and one at least: the prober cannot save a state without tags.
Faithful(s) ==
  LET tags == Range(s24_hash[s].md)
  IN  /\ s24_hash[s].hosts = {l.host : l \in Gen!Answered(s)}
      /\ s24_hash[s].aeb = (25 * Gen!Total(s)) \div Cardinality(Gen!Answered(s))
      /\ tags \subseteq Gen!Metadata(s) /\ tags # {}
      /\ Cardinality(tags) = Min({Cardinality(Gen!Metadata(s)), MetaMax})

\* The prober has only /24s that were written, each once.
Sound ==
  /\ Distinct(slash24s)
  /\ \A i \in DOMAIN slash24s :
       Contains(Networks(file), slash24s[i]) /\ Faithful(slash24s[i])

\* Whatever the buffer cuts in two, and also when a read fails, a list that the
\* tool has ended gives the prober only /24s that were written, each once, with
\* the hosts and the A(E(b)) of the history and with its metadata: as long as
\* every read fills the buffer or reaches the end of the file.  The bytes left
\* in the buffer behind that end do no harm.
NeverInvents == Ended /\ ~readShort => Sound

\* A list that the tool has ended is accepted, and read to its end unless a
\* read fails: again as long as no read is short.
ReadsBack ==
  Ended /\ ~readShort /\ result \notin {"none", "reading"} =>
    /\ result = "ok"
    /\ ~readFailed => Len(slash24s) = Len(Networks(file))

\* Also when a read is short, and bytes of earlier reads are scanned again in a
\* place where they were not written, a list that the tool has ended gives the
\* prober no /24 that is not in it, and no host that did not answer.
OnlyListedAddresses ==
  Ended =>
    \A i \in DOMAIN slash24s :
      /\ Contains(Networks(file), slash24s[i])
      /\ s24_hash[slash24s[i]].hosts \subseteq {l.host : l \in Gen!Answered(slash24s[i])}

=============================================================================

# A verification project for trinarkular

trinarkular is an implementation of the Trinocular outage detection method: a
*prober* keeps, for every /24 of a *probelist*, a Bayesian belief that the block
is up, and refreshes it by sending probes through *probe drivers*. This
directory holds TLA+ models of its core logic, TLC configurations that check
them on small instances, and proofs that TLAPS checks for every instance.

Paths such as `prober.c` are short for `src/lib/trinarkular_prober.c`, and
likewise for the other files of `lib/`; `scamper.c` is
`src/lib/drivers/trinarkular_driver_scamper.c`.

Contents: [1 The system](#1-the-system) ·
[2 The models](#2-the-models) · [3 The runs](#3-the-runs) ·
[4 The proofs](#4-the-proofs) · [5 Findings](#5-where-the-code-and-its-words-disagree) ·
[6 Not modelled](#6-not-modelled) · [7 Plan](#7-plan) · [8 Running it](#8-running-it)

## 1 The system

### Threads and how they interact

* **main thread**: runs the prober's event loop (a CZMQ `zloop`). Its handlers
  are `handle_timer` (one tick per slice of a round) and `handle_driver_resp`
  (one per answer). Handlers never run concurrently with each other.
* **driver threads**: one CZMQ actor per driver. A pipe carries probe requests
  to the driver and answers back, two message parts each. A driver has its own
  event loop.
* **reload thread**: detached, at most one by design. It reads the probelist
  file, registers time-series keys and waits for the backend to resolve them.
* **signal handlers**: SIGINT and SIGHUP, on whichever thread the kernel picks.

The main thread, the reload thread and the SIGHUP handler share
`reload_probelist_state` and the two-entry array of probelists (`ACTIVE_PL`,
`NEXT_PL`), without a lock or an atomic. All the other state belongs to one
thread.

### Components

| Component | State | Operations | Hard part |
|---|---|---|---|
| Prober: rounds (`prober.c` `handle_timer`, `queue_slash24_probe`) | position in the probelist, `slice_size`, `current_slice`, `outstanding_probe_cnt`, `probing_started` | start a round, send a slice, skip a slice, end a round, stop | rounds overtaken by slow answers; back-pressure; last slice; a list replaced in the middle |
| Prober: one /24 (`handle_driver_resp`, `update_bayesian_belief`) | belief, stable state, last probe type, two budgets in one byte, `rounds_since_up` | periodic, adaptive and recovery probes; give up; settle | sequences of answers, late answers, answers for removed /24s, counters kept by increments |
| Prober: reload | `reload_probelist_state`, `NEXT_PL` | signal, create thread, prepare, adopt | three parties, no lock, failures at every step |
| Prober: life cycle | driver list, parameters | create, configure, start, destroy | the order of configuration; destroying during a reload |
| Signals and `zloop` | `sighup_received`, `zsys_interrupted` | SIGHUP, SIGINT, re-entry of the loop | one flag, several loops |
| Driver actor (`driver.c`, `probe_io.c`) | pipe, `dead` flag | start, send, receive, die | death in mid-message, blocking receive |
| scamper driver | ring queue, `MORE` credits, batches, line buffer | queue, drop, send a batch, parse answers | full queue, partial batch, broken connection |
| test driver | ordered list of simulated answers | queue, answer on a timer | order of answers with equal times |
| Probelist (`probelist.c`) | hash tables of /24s and hosts, version, iterator | chunked read, lookup, next host | short reads, 8-bit host counter |
| gen-probelist | the /24 being collected, open output files | read a line, dump a /24, limit, round robin | the seam between two /24s, commas, the limit |
| manual-driver | counts of requests and answers | create a driver, queue, receive, destroy | a driver that dies meanwhile |
| manual-prober | options, the prober | configure, start, SIGINT, SIGHUP | the order of configuration |
| probe messages, log, scripts | | | see section 6 |

### What has to be right

* **Accounting.** The counter of outstanding probes agrees with what the drivers
  still owe; it drives the back-pressure, so a leak is not cosmetic.
* **No /24 is stuck or starved.** A /24 that waits has something to wait for;
  one that is skipped is reached later; a round covers the list.
* **Inference.** Published states are those of settled /24s; a single answer
  does not flip a block; budgets and back-off are respected; the aggregate
  counters, which are only ever incremented and decremented, agree with the
  states they summarise.
* **Reload.** A list is adopted whole, by one party, between two rounds; a
  reload that fails leaves the prober able to try again.
* **Shutdown.** A request to stop and a round limit both end the loop, and
  nothing else does; a tool that uses a driver ends whatever the driver does.
* **Delivery.** A request is answered at most once and by a living driver
  exactly once; simulated answers come in the order in which they are due.
* **Probelists.** The files hold the /24s they should, and what the prober reads
  of a file, in whatever pieces, is what was written.

PROJECT.json lists, under "hazards", the lines where these can go wrong, with
the properties that watch them.

## 2 The models

```
ReloadProtocol: what a reload promises     BatchQueue: what the scamper driver
the event loop                             promises
   ^ extended by        ^ refined by          ^ refined by
Prober                Reload                ScamperDriver        Slash24State
   ^ extended by        ^                     ^                    ^
ProberScamper           |                     |                    |
   ^                    |                     |                    |
MCProberScamper       MCReload              MCScamperDriver      MCSlash24State
MCProber              ReloadProofs          ScamperDriverProofs  Slash24StateProofs
ProberProofs
ProberScamperProofs

ProbelistText: what a list may say          TestDriver: the list of answers
   ^ extended by    ^ extended by              ^ extended by
GenProbelist      ProbelistReader           DriverActor: thread and pipe
   ^ instance of    ^ instance of              ^ extended by
ProbelistFile: writer and reader            ManualDriver: the tool
   ^                                           ^
MCProbelistFile                             MCManualDriver
ProbelistFileProofs                         ManualDriverProofs
```

`ProberScamperProofs` extends `ProberProofs` and `ProberScamper`;
`ProbelistFileProofs` extends `ProbelistFile` and `ProbelistTextProofs`, which has
the lemmas about `ProbelistText`.

`ProberScamper` has the queue of `BatchQueue`, without its bound, rather than the
ring of `ScamperDriver`: the refinement, proved and checked, is what allows that
as long as the bound is not met, which `QueueIsBounded` is about.

Some modules hold operators whose names begin with `Mut`. Each is a plausible
wrong version of the operator it precedes. No specification uses them: they are
there so that one can substitute them and see that a property notices.
PROJECT.json pairs every checked property with one, under "mutants".

### Prober: the event loop

State, and where it is in the code:

| Variable | Code |
|---|---|
| `running`, `shutdown` | whether `zloop_start` runs; `prober->shutdown` or `zsys_interrupted` |
| `list`, `iter`, `sliceSize`, `currentSlice`, `started` | `ACTIVE_PL`, its iterator (as the number of /24s passed), `slice_size`, `current_slice`, `probing_started` |
| `state[s]` | `trinarkular_slash24_state_t`: `last_probe_type`, budgets, belief, stable state, `rounds_since_up` |
| `stateCnt`, `overall` | the counts of /24s per state, of the list and of each metadata tag |
| `outstanding` | `outstanding_probe_cnt` |
| `inflight[s]` | external: probes of `s` that a driver still has to answer |
| `reload` | the reload state, whether a thread is at work, and `NEXT_PL` |
| `lost`, `missing`, `skipped`, `roundAdaptive`, `roundsEnded` | no code: history, for properties |

Actions, one per path through a handler:

| Action | Code path |
|---|---|
| `TimerMidRound` | `handle_timer` inside a round: send the next slice, or skip it |
| `TimerNothingLeft` | inside a round with no /24 left |
| `TimerNewRound` | first tick, or end of a round: statistics, adoption of a new list if one is ready, restart of the iterator, first slice |
| `TimerLimitReached` | end of the last round: the handler returns -1 |
| `AnswerMissing` | `handle_driver_resp`: /24 not in the list |
| `AnswerIgnored` | not waiting for an answer |
| `AnswerAdaptive`, `AnswerOutOfBudget` | belief is or becomes uncertain, with or without budget |
| `AnswerRecovery` | down and staying down, with budget, in an eligible round |
| `AnswerSettles` | belief certain |
| `DriverDrops` | external: `scamper.c` drops a probe when its queue is full |
| `RequestStop`, `CheckShutdown` | `trinarkular_prober_stop` or SIGINT; `CHECK_SHUTDOWN` in either handler |
| `RequestReload`, `LoaderDone` | the SIGHUP handler; the reload thread ends |

Every timer action contains the whole handler: `schedule_probelist_reload`
(`AfterScheduling`), the end of a round, `update_probelist`, and for each /24 of
the slice the give-up, the budgets, the round counter and the periodic probe.

Abstractions:

* *Beliefs.* The Bayesian update is replaced by its direction: a positive answer
  raises the belief strictly, a negative one lowers it strictly, unless it is at
  its cap (0.99 or 0.01), and the new belief is any level of `Levels` on that
  side. A positive answer raises the belief when A(E(b)) is larger than the
  probability of a reply from a down block, 0.99/256 ≈ 0.0039; probelists hold
  /24s far above this. What levels a given update can reach is left open, so the
  model has more behaviours than the program, not fewer.
* *Drivers* are one unordered channel that answers every probe once. A driver
  turns a timeout into an answer itself, so a timeout is a negative answer.
  Drops are limited to `MaxLost`.
* *Counters.* `current_slice` counts for ever in the code, which only asks for
  its remainder, whether the first round has passed and whether the limit is
  reached. The model folds it at the last round that these questions can
  distinguish (`NextSlice`, `LastRound`).
* *The order of /24s* in a list is the list's own order; hash iteration order is
  an arbitrary list.
* *Failures of a send on the pipe* (the handler returns -1) belong to the driver
  actor and are left to it.
* A reload resets the state of every /24, also of one that stays in the list:
  the new list comes with new state objects. `StatesAfterSettling` says so.

### ReloadProtocol and Reload: replacing a probelist

`ReloadProtocol` is the abstract specification: a request, the outcomes of
creating the thread, the end of the thread, the adoption. `Prober` is built from
its operators.

`Reload` is the same with every access to the shared words a step of its own:
the handler tests and then sets (`SighupArrives`, `SighupSchedules`); the loop
creates the thread and *then* writes RUNNING (`CreateThread`, `MarkRunning`),
reads the state again at the end of a round, takes the list (`UpdateProbelist`)
and then clears the state (`ClearStatus`); the thread asserts that its slot is
empty, fills it, waits for keys to be resolved, sleeps between attempts, and
writes DONE or NONE at its end, or returns without writing when a signal cut its
sleep short. A thread that is inside its signal handler does nothing else.

A round ends, and a list is adopted, only on a tick that ends an interval and
finds no /24 left (`Adopts`). `more` says whether /24s are left. The ticks of
module `Prober` decide that; here it is open (`Probes`), but for what the code
rules out: that a list that was used up has /24s again before a new round
starts. If slices are skipped for ever, /24s are left for ever and nothing is
adopted. `DoneIsAdopted` says that this is the only reason, besides a stop:
what is ready is adopted, or from some time on there is always a /24 left. When
slices are skipped for ever is the business of `prober_leak` and `scamper_stuck`
(section 5). The round limit is left to `Prober`: it is tested after the
adoption.

`ImplementsProtocol` says that `Reload`, seen through `View`, is a behaviour of
`ReloadProtocol`. `View` hides the two windows in which the shared words lag
behind: between creating the thread and RUNNING, and between taking the list and
NONE.

Signals do more than set the status. One that reaches the main thread, or a
driver's, may end its poll: zloop_start returns, and the loop around it goes
back only if `sighup_received` is set, which it then clears (`MainReturns`,
`DriverReturns`). The flag is one for the process, so a loop may clear it for
the other. SIGINT sets `shutdown` and interrupts as well (`SigintArrives`); a
tick that finds it ends the loop (`StopSeen`); the end of a driver's loop
reaches the event loop as a message that is no answer, and ends it
(`DriverDied`). `OnlyStopEndsLoops` says that nothing but a request to stop ever
ends a loop, and `StopEndsLoop` that a request does.

With `Overlapping` FALSE a SIGHUP comes only once the last one has been dealt
with: no thread is in the handler, and no loop has yet to look at the flag. With
`Overlapping` TRUE TLC finds every property of `reload_safe` but `TypeOK` and
`StopEndsLoop` violated: two handlers on two threads both pass the test at
`prober.c:1447`, the second writes SCHEDULED over a reload that has progressed
and the next thread fails the assertion at line 720, and a loop whose flag was
cleared by the other takes its SIGHUP for the end. That is the limit of this
bound, and what "attempting to reload" promises to someone who sends one signal
at a time.

### BatchQueue and ScamperDriver: requests in batches

`BatchQueue` is the abstract specification: a bounded first-in first-out queue
that is only emptied by commands scamper asked for, each made of the oldest
requests, full unless the requests' parameters change, and answered at most
once.

`ScamperDriver` is the code: the ring `req_queue` with its two indices and its
counter, the silent drop when it is full, the credits in `more`, and the
handlers of the driver's loop. `handle_req` and the MORE line both end in
`send_req`, the first in a loop and the second once; `pc` says which of them is
still to call it, and no other handler runs before it returns. A command is in
the write buffer, with scamper, or in the decoder (`place`). Lines that end a
connection or refuse a command are modelled with what the code does about them:
an ERR is reported to a caller that ignores it, an end of file closes the
descriptor but leaves it polled. Counters that are only logged (`probe_cnt`,
`dropped_cnt`, `probing_cnt`) are left out. `Batch` is at least 1 and at most
the capacity; the option parser accepts 0 as well, which the model excludes.

The refinement maps the queue to the slots from `req_queue_next_idx` on, and the
commands to their requests wherever they are.

### ProberScamper: the prober and a driver that waits for a full batch

`Prober` assumes less of a driver than this: that probes are answered once,
dropped or still in flight. It does not know that the tail of the queue waits
for a full batch. `ProberScamper` adds the queue: the requests of a slice are
appended in the order of the list (`Timer`), an answer whose handler sends
another probe appends that one (`Answer`), and a probe can be answered only
after it left the queue with a full batch (`SendBatch`). scamper is at its best:
it always wants another command and answers all of it. The queue has no
bound of its own, so that one can ask what room a ring needs, and there are no
reloads.

The prober skips a slice when more than `SkipFactor` slices are outstanding, so
what is outstanding when it stops adding is at least `SkipFactor * sliceSize +
1`. A batch of that many or fewer always fills (`SkipsOnlyWithAnswersToCome`,
`scamper_live`); a longer one need not (`scamper_stuck`). In the code the
numbers are 500 for the batch and 5 slices: slices of 100 /24s or more, which
with 60 slices are lists of more than 5940, are safe.

What is outstanding is at most one slice more (`QueueWithinAllowance`), six in
the code, and the ring holds 20000 requests (`scamper.c:97`). With slices of up
to 3333 /24s, which with 60 slices are lists of up to 199 980, the driver never
drops a probe, however slow scamper is. A longer list may meet the silent drop
at `scamper.c:782`, which `Prober` has as `DriverDrops`: the probe stays
outstanding for ever.

### Slash24State: bytes and a table

`Prober` keeps the two budgets as two counters. `Slash24State` keeps them where
the code does, in the halves of one byte, with the masks and shifts of
`probelist.h`, the table of recovery budgets including its -1 entries (stored as
15) and what is read past its end (any four bits), and `rounds_since_up` with
its width and its fold from 255 to 16. An unlimited counter runs beside it.
Whatever the kind of a probe, `queue_slash24_probe` asks for the next host
(`PickHost`); `current_host` has eight bits and a /24 up to 256 hosts. `turn`
counts the probes modulo the number of hosts.

### ProbelistText, GenProbelist, ProbelistReader, ProbelistFile: the list

A text is a sequence of tokens, each standing for the characters up to the next
one that the scanner or the parser can tell apart: braces, commas, the network
of a /24, its number of hosts, its response rate, its metadata, the address of a
host. `ProbelistText` has the object of a /24 as the tool writes it (`Object`, the
hosts from the lowest up) and the operators both sides are stated with: the
tokens of some kinds (`OfKinds`), what they say (`Values`).

`GenProbelist` is `tools/gen-probelist.c`. Each line of the history is an
action: of the /24 being collected (`SameSlash24`), the first of the next one,
which dumps the one before (`NextSlash24`), or one that is rejected (`BadLine`).
Metadata is looked up (`Metadata`: a /24 with none is left out, also when
nothing was asked for with -m), the blacklist is consulted, and `Dump` counts,
decides and writes to the file whose turn it is. The limit is tested after the
line that begins the next /24, and then that /24 is given up (`Stops`).

`ProbelistReader` is the reader: it reads into a buffer (`ReadBuffer`), scans it
to its end, copies, and counts braces until they balance; the object is then
parsed. A read returns what fits, or all that is left of the file, or any of
`Counts` when it is less; the rest of the buffer stays as it was and is scanned
all the same. `readShort` remembers whether a read has returned less than it
could have. An object without a field
is an error (`InvalidObject`), a host of another /24 or a wrong count fails an
assertion (`AssertionFails`). A read that fails, or a file that is too short, is
not an error: the reader returns what it has.

`ProbelistFile` composes them: one of the files of a finished or failed run of
the tool is read, or a list from elsewhere. The properties about reading are
about lists that the tool has ended, and `NeverInvents` and `ReadsBack` about
readings in which no read was short. libwandio is not in the repository; the
loop accepts any positive count, and a file that is cut off or damaged is where
one can expect a short read before an error. After a short read in the middle
of a file the old bytes behind it are taken for the list (section 5);
`OnlyListedAddresses` says what the prober can rely on even then.

On its error path the tool never writes the closing brace, and the reader then
scans old bytes of the buffer as if they were the list; what that yields depends
on the sizes.

### TestDriver, DriverActor, ManualDriver: a driver and its user

`TestDriver` is the list of `req_wrap`s with its two end pointers. Due times are
kept as the time left, so that the model stays finite; requests are numbered as
they arrive. `Outcomes` has the round-trip times and the two ways to give up,
with their units: a request that is given up is due after as many milliseconds
as it was to wait seconds.

`DriverActor` is the thread: it starts or fails to, runs its loop, may be
interrupted, handles requests and its timer, marks itself dead and says so on
the pipe. `YieldResp` is one round of the loop in the timer's handler, since the
user may run in between.

`ManualDriver` is the tool, whose main program is the simplest user of a driver:
it queues, receives as many answers as it queued, and destroys the driver.
`AlreadyGone` and `DropAnswer` are what `zactor_destroy` does.

## 3 The runs

| Run | Instance | Shows |
|---|---|---|
| `prober_reload` | three /24s, lists <1,2,3> and <2>, two slices, three rounds, reloads at any time, one drop, 662 000 states | accounting, waiting and aggregate counts across reloads, coverage, back-pressure; the round limit is never exceeded |
| `prober_one` | one /24, five belief levels, two adaptive and two recovery probes, back-off constants of the code, 360 000 states | the inference: stable states, recovery, adaptive budget per round, no snap judgement |
| `scamper_live` | two /24s, two slices, a driver with batches of 2, fairness, 156 000 states | the room that a driver's queue needs; a slice is skipped only with an answer to come; every /24 is probed for ever; a request to stop ends the loop |
| `reload_safe` | two names for reload threads, signals to three threads, one SIGHUP at a time, /24s left or not at the end of a round, 4113 states | the hand-over of a list; the refinement; only a request to stop ends a loop, and it does |
| `slash24_bytes` | percentages 0..100, 300 rounds, 1, 3 and 256 hosts | the packed byte with every entry of the table, no more recovery probes than documented, the folded counter, the turn of the hosts |
| `scamper_ring` | ring of 3, batches of 2, two credits, requests with two parameters, 306 000 states | the ring is a bounded queue sent in batches; no ready batch is kept back; batches keep being sent while requests keep coming |
| `probelist_file` | every history over seven addresses of five /24s, two files, buffers of 3 and 10 tokens, limits 0 and 2, full and short reads, 1 572 000 states | the files hold what they should, within the limit, and are read back as they were written if no read is short; no address of another /24 is taken in any case |
| `manual_driver` | three requests, five round-trip times, a driver that may fail at any time, 50 000 states | the order of the list, the delivery of answers, the end of the tool |
| `prober_unsized`, `prober_leak`, `reload_overwritten`, `scamper_stuck` | | counterexamples: section 5 |

### Why the bounds are enough

* *Slices 1 or 2.* With two, a slice can be the first, the last, or skipped, and
  a round can outlive its slices. One slice per round makes each tick a round
  boundary, which reloads need most.
* *`SkipFactor` 1 or 2 instead of 5.* The bigger the factor, the more probes can
  pile up; the smallest values at which a slice is sent while another is
  outstanding are 1 and 2. With 2, two generations of a probe for one /24 are in
  flight together, which is the case where a late answer is taken for another
  probe's.
* *`ProbeBudget` 1 or 2 instead of 14.* Zero, last and not-last budget all
  occur.
* *`Levels`.* `{1, 50, 99}` has one belief per class; `{1, 5, 50, 95, 99}` has
  both a cap and an interior belief in each decided class, which
  `BECOMING_UNCERTAIN` distinguishes (up and falling but still up).
* *`RsuMax`, `BackoffMax`.* The real 255 and 16 in `prober_one`; small values
  elsewhere, where the back-off plays no part.
* *`RoundLimit` 3.* With a limit the model counts rounds exactly; three leave
  room for a reload requested in one round, adopted after it, and followed by a
  full round on the new list.
* *`MaxLost` 1.* One drop suffices to separate the counter from the channel. It
  is also what makes that instance finite in the presence of back-pressure.
* *`Batch` 2 and 3 in `ProberScamper`*, where the slice is 1 and `SkipFactor` 1:
  two probes are outstanding when the prober stops adding, which is the whole of
  the first batch and less than the second.
* *Reload.* Two names for threads are enough to see a second one. `Slices` 2
  gives a tick that ends an interval and one that does not. `Overlapping` FALSE is
  discussed in section 2.
* *`Capacity` 3, `Batch` 2, `Window` 2.* The ring wraps at every offset, since 2
  and 3 are coprime; it can hold a batch and a request more; a second command
  can overtake the first. Three requests, two of which agree on their
  parameters, give full batches and batches cut short.
* *`BufSizes` {3, 10}, `Counts` {4}.* An object has 8 tokens and more, so a
  buffer of 3 cuts every one in all its places as the text grows, and one of 10
  holds an object and the beginning of the next, or at the end of the file old
  contents of several kinds. Its reads may return 4 tokens though there are more;
  6 old ones are then scanned again. That is enough for hosts of one /24 to stand
  in an object of another, which the assertion on the addresses stops (the mutant
  of `OnlyListedAddresses` drops it). `MetaMax` 2 instead
  of 255: /24s have two and three tags. `Limits` {0, 2}: no limit, and one that
  is met before, at and after the last /24. The seven addresses make /24s with
  none, one and two hosts that answered, above and below the minimal rate,
  blacklisted and filtered out.
* *`Second` 3 instead of 1000, `MaxRtt` 5, `RespTimer` 2, `Waits` {1}.* Round
  trips shorter and longer than the wait, and answers that become due between
  two timers and together. Three requests can be placed at the head, at the tail
  and between.
* *`RoundsMax` 300* goes past the fold at 255 and through several of the rounds
  the back-off admits after it; the proof covers the rest.

`MCProber_*.cfg` switch the deadlock check off since the event loop really
stops: at the round limit and on request, after which a prober with no reload
under way has no step left. So do `MCProberScamper_*.cfg`;
`MCScamperDriver_ring.cfg`, since an error on the connection ends the driver's
loop; `MCReload_*.cfg`, since a request to stop ends both loops;
`MCProbelistFile.cfg`, since a list is read once; and
`MCManualDriver_answers.cfg`, since the tool exits, or blocks on a driver that
is gone. `slash24_bytes` is checked for deadlock.

### Fairness

* `Prober!Fairness`: the loop's timer fires and is served, the shutdown check
  runs, the reload thread ends, and for each /24 an answer in flight is
  eventually handled. The code justifies the first two by `zloop`, which serves
  every ready reader and every timer that is due. The last is a claim about
  drivers, used by `prober_leak` only: it says that the loop is stuck even with
  drivers that answer everything.
* `ProberScamper!ScamperFairness`: the timer, the shutdown check, a full batch
  is sent, and a probe *that has left the queue* is answered: scamper turns a
  timeout into an answer. Nothing is assumed of a probe that waits for its
  batch.
* `Reload!Fairness`: handlers return, loops look at the flag, threads run, and
  the backend resolves the keys if asked again and again (strong fairness of
  `LoaderResolves`: the thread alternates between asking and sleeping, so weak
  fairness would say nothing). Ticks, and the one that finds `shutdown`, are
  strongly fair: a signal takes the loop out of its poll, so a tick is not
  always enabled, but signals do not come so fast that the timer is never
  served. Nothing else is assumed of signals.
* `ManualDriver!Fairness`: time goes on, the user's thread runs, the thread of
  the driver runs its handlers; a message on its pipe is handled although timers
  come in between (strong fairness: `zloop` polls the readers in each pass,
  after the timers). Nothing obliges the driver to fail.
* `ScamperDriver!Fairness`: a handler returns; scamper asks, answers and is read
  again and again while the connection lasts. Strong fairness, because each of
  these is disabled while another handler is in the middle of `send_req`.
  `KeepsSending` assumes besides that requests keep coming and that the
  connection stays up; both are premises of the property and not of the
  specification.
* Requests (`RequestStop`, `RequestReload`, `SighupArrives`) and drops are never
  fair: they may happen or not.

## 4 The proofs

Every theorem is about a specification without fairness and holds for every
value of the constants that the named assumptions of the modules allow; what a
theorem needs beyond them is in its row. TLC evaluates the assumptions in the
runs.

| Module | Theorem | Statement |
|---|---|---|
| `ProberProofs` | `TypeCorrect` | `Spec => []TypeOK` |
| | `NeverWaitsForNothing` | `Spec => []WaitingHasProbe` |
| | `PublishedStateIsBelief` | `Spec => []IdleIsStable` |
| | `RecoveryIsForDown` | `Spec => []RecoveryOnlyWhenDown` |
| | `OneAnswerNeverDecides` | `Spec => NoSnapJudgement` |
| | `BacklogIsBounded` | `Spec => BackPressure` |
| | `ReloadsFollowProtocol` | `Spec => ReloadSpec` |
| | `OutstandingIsAccountedFor` | `Spec => []OutstandingAccounts` |
| | `PublishedCountsMatch` | `Spec => []StateCountsMatch` |
| | `AdaptiveProbesAreBounded` | `Spec => []AdaptivePerRound` |
| | `RoundLimitIsKept` | `Spec => []WithinRoundLimit` |
| | `RoundsCoverTheList` | `Spec => []CoversInterval`, if `SizingSlices <= Slices` |
| `ProberScamperProofs` | `ScamperImplementsProber` | `ScamperSpec => Spec` |
| | `ScamperTypeCorrect` | `ScamperSpec => []TypeOK` |
| | `QueueIsBounded` | `ScamperSpec => []QueueWithinAllowance` |
| | `SkippingIsSafe` | `ScamperSpec => []SkipsOnlyWithAnswersToCome` |
| `ReloadProofs` | `TypeCorrect` | `Spec => []TypeOK` |
| | `SlotIsFree` | `Spec => []NextNullAtPrepare`, if `~Overlapping` |
| | `OneReloadThread` | `Spec => []OneLoader`, if `~Overlapping` |
| | `LoopsEndOnlyWhenStopped` | `Spec => []OnlyStopEndsLoops`, if `~Overlapping` |
| | `WholeListsAdopted` | `Spec => AdoptsWhole`, if `~Overlapping` |
| | `ReloadImplementsProtocol` | `Spec => ImplementsProtocol`, if `~Overlapping` |
| `Slash24StateProofs` | `TypeCorrect`, `BudgetsCorrect` | `Spec => []TypeOK`, `Spec => [](TypeOK /\ BudgetsAreIndependent)` |
| | `BackoffCorrect` | `Spec => []BackoffFollowsRounds` |
| | `HostsAreProbedInTurn` | `Spec => []HostsInTurn` |
| `ScamperDriverProofs` | `TypeCorrect` | `Spec => []TypeOK` |
| | `WorkIsNotKept` | `Spec => []NeverIdleWithWork` |
| | `RingIsAQueue` | `Spec => ImplementsQueue` |
| `ProbelistFileProofs` | `LimitIsKept` | `Spec => []WithinLimit` |
| | `EveryFileIsDealt` | `Spec => []FilesAreDealt` |
| | `NothingIsInvented` | `Spec => []NeverInvents` |
| | `EndedListsAreRead` | `Spec => []ReadsBack` |
| | `NoStrangersAreProbed` | `Spec => []OnlyListedAddresses` |
| `ManualDriverProofs` | `ListStaysInOrder` | `Spec => []ListInOrder` |
| | `EachIsAnsweredOnce` | `Spec => []EachAnsweredOnce` |

### What is assumed

`ConstantsAssumption` (Prober): finitely many /24s; a probelist names a /24 once
and gives it a tag; at least one slice; budgets, limits, `SkipFactor` and
`MaxLost` are naturals; the levels include the caps and 50. That lists are so is
not the reader's doing: it appends a second object of a /24 to the array of
/24s, although the table keeps one (`probelist.c:190`), and accepts a /24
without metadata, whose state then cannot be saved (`copy_state` reallocates to
nothing, `probelist.c:109`). It is the tool's: of the lists it has ended,
`EveryFileIsDealt` and `NothingIsInvented` prove both. Other lists are outside
of the theorems of the prober.

`Slash24StateAssumption`: at most 256 hosts; an adaptive budget that fits in
four bits (the code has 14). `ScamperAssumption`: a batch fits in the ring.
`BatchAssumption` (ProberScamper): a batch is at least one probe.
`ReloadAssumption`: a SIGHUP reaches one of three threads; at least one tick per
round. `TestDriverAssumption`: waits are naturals, a second, the longest round
trip and the timer's period positive. `ProbelistFileAssumption`: a line names a
/24 other than 0, a host of eight bits and how many of its last four
measurements were answered, if any ever was; a /24 needs at least one host that
answered; limits are naturals; a buffer holds something (the code's has 1024
characters) and at least one tag of a /24 is kept (255 in the code); and there
is finitely much metadata of a /24. Histories, files, buffers and the metadata
itself are otherwise arbitrary.

Two theorems have hypotheses, and each is necessary.

* `SizingSlices <= Slices`: the number of slices that the first list was cut up
  for is not larger than the number in use. It is smaller or equal unless
  somebody asks for fewer slices than the default after the prober was created,
  which is what `manual-prober -s` does: `prober_unsized` is a counterexample
  (section 5).
* `~Overlapping`: a SIGHUP arrives when the last has been dealt with. With it
  TRUE all but `TypeOK` fails (section 2).

### Prober

**States and steps.** The invariant is `IInv`: the four state properties
`TypeOK`, `WaitingHasProbe`, `IdleIsStable` and `RecoveryOnlyWhenDown` with two
parts that make it inductive.

* `DoneHasList`: the status is DONE only over a list. Without it the loop could
  adopt NULL and `list` would lose its type.
* `OffListIdle`: a /24 that is not in the active list waits for nothing. An
  answer for such a /24 is consumed without its state being looked at
  (`AnswerMissing`), which preserves `WaitingHasProbe` only because nothing
  waits. It holds because adopting a list replaces the state of every /24.

`IInv` is about each /24 separately but for the type of the rest, so the proof
first splits it (`IInvByState`: `RestOK` and, for every /24, a condition
`AllGood` on its own record), then shows once per handler what it does to a
record: `ProbePeriodicallyFacts` and `QueueSliceFacts` for the timer,
`OneSlash24Moves` and `SettleFacts` for answers. One lemma per group of actions
(`TimerIInv`, `AnswerIInv`, `EnvironmentIInv`) and `StepIInv` puts them
together.

`NoSnapJudgement` then follows from `IdleIsStable` and from what
`BECOMING_UNCERTAIN` excludes: an answer that settles a /24 whose belief was up
cannot lower it, and so cannot leave it down. `BackPressure` follows from
`OnlySlicesAdd` (no other action raises the counter: adaptive and recovery
probes replace the one that was answered) and `SliceIsBounded`.
`ReloadsFollowProtocol` goes through the actions: each changes `reload` as one
action of `ReloadProtocol` does, or not at all.

**The counters and the rounds** (the second part of the module) add to `IInv` one
invariant per theorem.

* *Outstanding probes.* `OutstandingAccounts` is inductive over `IInv`, and says
  that a counter is a sum over all /24s. A sum is `Total(f)`, the number of
  pairs of a /24 and the number of one of its probes, so that it can be reasoned
  about with cardinalities: `OneProbeFewer` and `OneProbeMore` for an answer, a
  drop or a retry, and `BatchOfProbes` for a slice, which adds one to as many
  /24s as it has places, since a list names a /24 once (`SliceIsCounted`).
* *Published counts.* `StateCountsMatch` is inductive too. An answer that
  settles a /24 takes it from one class to another, here and under each of its
  tags (`MoveCounts`); a slice changes no class (`SliceKeepsStates`); a new list
  starts with every /24 uncertain (`FreshCounts`).
* *Adaptive probes.* `AdaptivePerRound` is inductive with the types: what has
  been sent and what may still be sent is one budget until the round reaches the
  /24 and two afterwards, twice the documented maximum (section 5). The
  /24s reached are the first `iter` of the list (`Asked`), and the next slice
  has none of these (`SliceMovesOn`).
* *The round limit.* The code asks for it only of `current_slice`.
  `RoundsBounded` ties that to the rounds that have ended: a running loop that
  has ended n rounds, n > 0, is past slice n * `Slices`. The fold of the counter
  in the model is the reason for the care with quotients and remainders
  (`DivModUnique`, `ModOfNext`, `NextSliceFacts`).
* *Coverage.* `SlicesCover`: the slices are long enough for the list, and a
  round that has skipped none is at the end of it or as far as its slices allow
  (`SlicesOfRound`). The first part is where `SizingSlices <= Slices` is needed;
  the rounding up of the size (`CeilDivCovers`) makes it true after a reload.

**`ProberScamperProofs`.** Each step of the composed system is a step of
`Prober` or leaves its variables alone (`ScamperImplementsProber`), so all of the
above holds of it.
`QueueOK` says that a /24 is queued at most as often as it has probes in flight,
whence the queue is no longer than the sum of the probes in flight
(`QueueIsCounted`), that sum no more than the counter (`OutstandingAccounts`),
and the counter, by back-pressure, at most `SkipFactor + 1` slices. That is
`QueueIsBounded`. For `SkippingIsSafe`, `NothingLost` says besides that all that
is outstanding is in flight for a /24 of the list: if scamper has none of it,
all of it waits in the queue (`QueueHoldsAll`), which then holds more than
`SkipFactor` slices and thus a batch. It is the safety half of "the prober and
the driver do not wait for each other"; that the answer then comes is fairness,
and `scamper_live`.

### Reload

The invariant `IInv` of `ReloadProofs` relates the status, what stands in
`NEXT_PL`, the place of the loop and those of the handlers and threads.

* `SlotWhileLoading` and `SlotAfterLoading`: what stands in `NEXT_PL` at each
  place of the thread at work, and with none at work under each status.
* `StatusOK`: while a thread works the status is RUNNING, or still SCHEDULED in
  the window between creating it and writing RUNNING; DONE while the loop has
  taken the list and not yet cleared it.
* `HandlersOK`: at most one handler has tested and not yet set the status, and
  then nothing is under way. RUNNING is not excluded: the loop may have written
  it over the end of a quick thread (finding 3), and the handler only asks for
  SCHEDULED.
* `LoopsOK`: until a stop is asked for, at most one of the two loops is out of
  its poll, and the flag that takes it back is set.

`OneLoader` and `NextNullAtPrepare` are parts of it or follow from it; the
refinement is `ViewInit` and `StepView`, with one lemma for the handlers, one
for the loop and one for the thread, each step mapping to one step of the
protocol or to none.

`ReloadImplementsProtocol` and `ReloadsFollowProtocol` meet in
`ReloadProtocol`: the threads, each access to a shared word a step, do what the
protocol says, and that is what the event loop of `Prober` is built with.

### Slash24State

`IInv` adds `FoldsByLaps`: the true number of rounds is the byte plus a multiple
of 240, and once a lap is complete the byte is at least the constant 16 of the
back-off. Eligibility alone is not inductive, since it does not say where in its
period of 16 the counter is. 240 being a multiple of 16, the theorem follows.
`BudgetsAreIndependent` holds of the entries -1 and 16 as well: four bits of them
are granted (15 and 0), and the adaptive half is never touched
(`HalvesAreIndependent`). The turn of the hosts is inductive with the range of its parts
(`PickKeepsTurn`): with fewer than 256 hosts the test resets the counter, with
256 the eight bits do.

### ScamperDriver

The invariant adds to types and to `NeverIdleWithWork`: `RingConsistent`, the
tail index is the head plus the count, without which a request could be written
over another; `HoldsRequests`, the occupied slots hold requests; and
`OneAttemptSuffices`, which covers the middle of the handler of a MORE: its
single attempt is enough because there is one credit, or nothing to send. The
refinement is proved in three layers: the arithmetic of indices modulo the
capacity (`AfterFacts`, `AfterAfter`, `AfterInjective`), what the two operations
do to the requests seen as a sequence (`QueueAfterAccept`, `QueueAfterSend`),
and the same for the commands (`SentAfterAppend`, `SentAfterRemove`,
`SentAfterMove`).

### ProbelistFile

**The limit.** `WithinLimit` is not inductive: the limit is tested once per line,
after the /24s have been counted, and a dump may write one more. `LimitInv` adds
that only counted /24s are written (`WrittenAreCounted`), that while the tool
reads the count is below the limit, and that when it stops the /24 still to be
dumped is one to skip (`LimitIsSeen`).

**Texts.** Sums, sorted sequences and flattened or filtered texts are computed
with recursive functions, about which the library's theorems cannot be
instantiated. `ProbelistTextProofs` characterises each as the one function that
satisfies its equation (`FlattensUnique`, `FlattensExists`, `KeepsUnique`,
`KeepsExists`), by way of the least place where two would differ
(`NatInduct` is the one induction all the others come from). What the properties
need follows: sorting a set with a new largest number appends it
(`InOrderAppend`); dealing one more object appends it to one file and leaves the
others (`DealOneMore`); filtering goes through concatenations
(`OfKindsConcat`, `FlattenOfKinds`); and a token of a flattened text is a token
of one of its parts, at a place one can name (`FlattenAt`).

**What is written.** `FilesAreDealt` speaks of the /24s whose lines are complete.
`DealInv` adds what the tool keeps of the one that is being collected
(`BlockIsHeard`: `e_b` and its two counters are the hosts and the answers that the
history has of it, each counted once) and what order it relies on (`InTurn`: the
lines read so far are of no later /24, and the last one is skipped exactly if it
is to be). `FilesAre` is the text of every file, its length and whose turn is
next. A line of the same /24 leaves the files and adds to what is heard
(`DealSameSlash24`); the first line of another makes the one before complete, as
the new largest of the complete ones (`CompleteIs`, `DumpedIsNext`), and the dump
appends its object if it is worth probing (`DumpDeals`). The last line and the
failures are `DealFinish`.

**What is read.** The statements are about the end, the proof about every place
the reader can be at. A list that the tool has ended is a brace, pieces, and a
brace (`IsList`, from `DealInv` by `FileIsList`): a piece is an object and, from the
second on, the comma before it. `ReadInv` says that, as long as no read was short,
the reader is before the first brace, or `j` tokens into some piece with all
pieces before that stored, or done. Without that premise there is no such
invariant: `Refill`, which says that a read keeps the reader's place in the file,
is the one lemma that needs it.

* `Buffered(p)`: the buffer holds what follows the first `p` tokens of the file, up
  to where the file has been read. Behind that it may hold old bytes, and does
  only at the end of the file; the last brace ends the reading before the scan
  gets there. That is why a cut anywhere is harmless in an ended list, and
  would not be in another, nor after a short read before the end.
* `Braces`: how many braces have been opened and closed follows from the place in
  an object. The two counts are equal at its last token and nowhere
  before (`NextOfPiece`), so that an object is parsed when it is whole, and never
  in part.
* `Arrived`: each /24 stored so far is one of the list, is in the array once, and
  its entry is what the history says (`EntryOf`), however the array has been
  shuffled since. `ObjectArrives` is the step that stores one: none of the
  assertions fails, since the counts and the networks in the object are its own
  (`AddressesSay`), and it is not there yet.

`NetworksAre`, `EntryIsFaithful` and `TagsKept` lead from there to the words of the
properties, which read hosts and A(E(b)) from the history and the tags from the
metadata. The invariant of the whole is `FileInv`, that is `DealInv` with `ReadInv`.

**After a short read.** There is no place in the file any more, but there are still
only certain tokens: `Listed` has those of the list and those the memory may
have held at first, and `Stray` says that the buffer and what has been copied
consist of them. A key among them is that of a /24 of the list, and an address
that of a host that answered, of whichever /24, or 0. The assertion on the
addresses (`HostsBelong`) then leaves only the /24's own hosts (`HostsAreOwn`), and
0 belongs to no /24 of a list (`WorthIsNotZero`). That is `OnlyListedAddresses`,
with no premise about the reads.

### ManualDriver and the test driver

Both properties read the list by following its links with recursive functions
(`Forward`, `Backward`). The proof goes by way of the list as a sequence `s`:
`Chain(s)` says that the links and the two end pointers lead through the nodes in
the order of `s` and that `s` has each node once, `Ordered(s)` that they are due
in that order. The three walks are then equal to sequences that have been
written down: what follows a node (`ForwardIsChain`), what precedes it
(`BackwardIsChain`), and the place where a request goes (`PlaceInChain`). The
library's theorems about recursive functions cannot be instantiated here, so
each of these shows that some function satisfies the recursive equation and that
two that do are equal, since there is no least place where they differ
(`LeastNat`). On sequences the operations are short to state: an insertion puts
one element between two (`InsertKeepsList`), taking an answer drops the first
(`PopKeepsList`), time lowers all the times together (`TimeKeepsList`).

`IInv` is that list (`ListOK`), the types of the pipes (`PipesOK`), and where the
requests are. `NoneTwice` (`Apart`) says more than the property: requests travel
to the driver in the order of their numbers, so that each one still under way
has a higher number than all that are past the driver. That is why the number of
a new node is not yet in the list, which the insertion needs. `NoneLost` holds
until the driver dies or is being destroyed. `SignalsOK` says what a signal on the
pipe stands for: the start of the thread before the tool has seen one, its end
afterwards, so that the tool never takes one for the other.

### Model-checked only

* *Liveness*: `ProbedForEver`, `StopsWhenAsked`, `DoneIsAdopted`,
  `StopEndsLoop`, `KeepsSending` and `Ends` rest on fairness, which the prover
  does not handle.
* `RecoveryWithinDocumented`, which compares the table with the formula it was
  generated from, a recursive function of a percentage. There are 89 of them, and
  the run has them all.

## 5 Where the code and its words disagree

Each of these has a run that ends in a counterexample.

1. **`slice_size` is computed with the default number of slices**
   (`prober_unsized`). `manual-prober` creates the prober, which adopts and cuts
   up the first list, before it sets the number of slices from `-s`. Nothing
   computes the size again until a reload. With fewer slices than the default a
   round does not cover the list, and runs on past its interval, against "round
   up to ensure we cover everything in the interval".
2. **An answer for a /24 removed by a reload is never deducted** from the
   outstanding probes (`prober_leak`; the answer returns at `prober.c:1052`, the
   decrement is at 1054). Such leaks add up over reloads. Past five slices'
   worth every slice is skipped: no probe is sent, no round ends and a prober
   with a round limit never stops. The instance has `SkipFactor` 1 so that this
   takes few reloads, and the fairness of section 3.
3. **RUNNING can be left behind with nothing running** (`reload_overwritten`):
   the loop writes it after `pthread_create`, over the DONE or NONE of a thread
   that was quicker; and a signal that interrupts the thread's sleep makes it
   return with the status as it is. Later reloads are refused for ever.
4. **The prober and the scamper driver wait for each other** (`scamper_stuck`).
   A batch is sent only when it is full (`scamper.c:279-281`, 500 by default),
   while the prober adds nothing when more than five slices are outstanding
   (`prober.c:918`). When six slices hold fewer than 500 probes, which with 60
   slices is a list of fewer than about 5000 /24s, no batch ever fills: nothing
   is sent or answered, every slice is skipped, no round ends and a round limit
   is never reached. In the run the two /24s of a round and a batch of three do
   it.
Three more contradict a comment or a message, and have no run that ends in a
counterexample; what does hold instead is checked and named.

* *A /24 may be sent two budgets of adaptive probes in one round.*
  `trinarkular_prober.h:72` calls `ROUND_PROBE_BUDGET` the "Default maximum number
  of adaptive probes that can be sent to a single /24 in one round". The budget
  is reset when the periodic probe is sent (`prober.c:950`), which may be in any
  slice of the round, and not when the round starts. An answer that comes in the
  first slices is followed up from what is left of the old budget, and the
  periodic probe brings a new one. One budget is the maximum only until the round
  reaches the /24, and two are the maximum of a whole round: that is
  `AdaptivePerRound`, checked in `prober_one` and proved.
* *The table of recovery budgets is read one entry too far.* Its comment
  (`prober.c:125-133`) says to use the percentage as the index, and that the
  entries were printed for 1 to 99 percent; the array starts with the entry for 1
  percent at index 0. A /24 of 79 percent gets the one probe of 80 percent
  instead of its two, one of 10 percent gets 14 instead of 16, and one of 99
  percent reads past the end. Fourteen percentages are affected; the property
  lists them. "The number of recovery probes that may be sent" is never exceeded
  from 10 to 98 percent (`RecoveryWithinDocumented`, in `slash24_bytes`), so that
  what the shift costs is that a /24 is given up early.
* *After a short read the list is not merely incomplete.* The reader scans the
  whole buffer whatever the number of bytes read (`probelist.c:540`, `bufend` at 546
  and 564). When any read before the end of the file is short, or when one
  returns what it still could get and the next one fails, the bytes that the
  buffer holds from before are parsed as if they followed. A list may then be
  refused or an assertion fail, both in the instance of `probelist_file`, where
  `ReadsBack` without its premise `~readShort` has counterexamples; and a /24 may
  be stored twice, with a single output file, a buffer of 20 tokens and reads of
  one, where `NeverInvents` without that premise has one. The warning says
  "Probelist may be incomplete" (`probelist.c:606`). What holds in any case is that
  no /24 and no address is taken that was not in the list (`OnlyListedAddresses`,
  checked and proved). It rests on libwandio returning
  fewer bytes than asked for before the end, which the loop's condition allows.

What follows contradicts no text, and is recorded here.

* *Overlapping SIGHUPs* break the hand-over: see section 2.
* *The test driver mixes units*: the wait of a request is in seconds
  (`probe.h:71`) and is added to a clock in milliseconds
  (`trinarkular_driver_test.c:229-233`), so that a request is given up a
  thousand times too early; a round trip of 0 ms counts as no answer (`:226`,
  `:274`). The model has both (`Outcomes`, `Verdict`).
* *Sending to a driver that is gone blocks*, so `manual-driver` can hang while
  it queues; `Ends` makes that exception.
* *gen-probelist* names unnamed probers by their number
  (`gen-probelist.c:849-854`), which may be the name of another one, and its
  `-s` takes an argument although the usage says it does not.
* *"Sleep interrupted, exiting"* (`prober.c:1349`): the prober does not exit
  there; it goes on to its loop, which ends at its first tick if the signal was
  SIGINT.

## 6 Not modelled

* *Bayesian arithmetic*: floating point; only its direction matters to the
  control flow. An integer model of its fixed points is in the plan.
* *Probe messages, logging, build files*: no state; formatting.
* *Time-series backend, CZMQ, scamper, libwandio*: external. They appear as the
  failures and delays the code provides for.
* *Filter and redis scripts*: Python that streams one JSON file.
* *The life cycle of the prober beyond its start*: the detached reload thread
  may outlive the prober (`prober.c:1294`); nothing orders the two, so there is
  nothing to check.
* *Tables*: khash is a submodule that is not in the repository. Whether
  inserting a key that exists moves the values, among them the state being saved
  (`probelist.c:803`), depends on it.
* *Options, file names, databases* of the tools, the connection of the scamper
  driver, and the SIGINT handler of `manual-driver`, which destroys the driver
  wherever the tool is: straight-line code around the state that is modelled.
* What PROJECT.json marks "partly" says what is left out.

## 7 Plan

The modules planned at the start are written, and all the invariants and action
properties that their passing runs check are proved, but for
`RecoveryWithinDocumented`. What could follow:

1. An integer model of the fixed points of the belief, so that which levels an
   update can reach is no longer left open.
2. Lists from elsewhere: what the reader does with them is checked on one such
   list, and `NothingIsInvented` leaves them out. A theorem would have to say
   which of them it reads as they are.
3. The end of the prober, once the detached reload thread is joined or ordered in
   some other way (`prober.c:1294`).

## 8 Running it

```
tlc -config MCProber_one.cfg MCProber     # the pairs are in PROJECT.json
tlapm ProberProofs.tla
tlapm ProberScamperProofs.tla
tlapm ReloadProofs.tla
tlapm Slash24StateProofs.tla
tlapm ScamperDriverProofs.tla
tlapm ProbelistTextProofs.tla
tlapm ProbelistFileProofs.tla
tlapm ManualDriverProofs.tla
```

PROJECT.json names for each definition of the models the lines it translates
("map"), and for each run its module, configuration and properties.

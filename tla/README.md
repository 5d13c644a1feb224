# lastbeat in TLA+

A verification development for lastbeat, the dead man's switch for cron jobs:
TLA+ modules translated from the Go source, TLC runs that check them on small
instances, and TLAPS proofs that hold for every instance. Paths are relative to
the repository, under `src/`.

## 1. The system

A job pings after each run; if a check is silent for longer than its interval it
is *late*, after its grace too it is *down*, and an alert is sent. A ping ends the
outage (*recovered*); a job may also report a failure outright (*failed*). State
lives in one JSON file. There are two ways to run it: **daemonless** (cron runs
`lastbeat ping`, `fail`, `sweep`, each a process) and **served**
(`lastbeat serve`, an HTTP server with a sweep loop).

| Component | State it keeps | Operations | Talks to |
|---|---|---|---|
| monitor state machine (`internal/monitor`) | none of its own: the entries of `state.State` | `RecordPing`, `RecordFail`, `Sweep`, `DueIn` | called by commands and server with configuration, state and instant; returns events |
| state file (`internal/state`) | the file; its temp files while saving | `Load`, `Save`, `Get`, `Prune` | file system |
| commands (`internal/cli`) | the locals of each process | `Run`, `parseFlags`; `ping`, `fail`, `sweep`; `status`, `checks`, `init`, `serve` | share only the file, without a lock |
| HTTP server (`internal/server`) | `Server.st` under a mutex, the ticker | `handlePing`, `SweepOnce`, `Run`, `persistLocked`, shutdown; `/status`, `/healthz` | file, dispatcher |
| alert dispatch (`internal/alert`) | none | `Dispatch`, `postWebhook`, `runCommand` | receivers, child processes |
| schedule durations (`internal/duration`) | locals of `Parse` | `Parse`, `Format` | configuration |
| configuration (`internal/config`) | none | `LoadFile`, decoding, defaults, validation, `AlertsFor`, `CheckByName` | TOML parser |
| TOML parser (`internal/toml`) | locals of the parser | `Parse` | configuration |

What is hard in it, and what makes each part correct:

* **monitor**: alerts must be edge-triggered over *every* sequence of pings,
  failures, sweeps, configuration edits and instants (`LASTBEAT_NOW` may take time
  back). Correct: one alert opens an outage and one closes it; the entry in the
  file, read alone, is consistent and agrees with the alerts already sent; sweeping
  twice, or at another spacing, ends in the same place.
* **state file**: kills, power losses and failing calls in the middle of `Save`,
  and several savers at once. Correct: the file is a whole document at every
  instant; a save takes effect at one instant or not at all; no litter.
* **commands**: load, change, save, deliver are separate steps of unlocked
  processes. Correct: what overlaps may lose an update, so which contacts are safe,
  and what may never go wrong even then?
* **server**: requests, the sweep loop and shutdown interleave; alerts go out with
  the mutex free; saves may fail while the answer is still "ok"; the process may
  die with alerts undelivered. Correct: it is the monitor, observed from
  outside; each alert has exactly one goroutine that delivers it; an answered
  contact stays recorded; silence is noticed even if some delivery hangs; a signal
  ends it.
* **both at once**: the server never rereads the file.
* **dispatch**: one failing or hanging channel must not take others with it, and
  takes no longer than its timeout.
* **configuration**: typos, wrong types, empty lists that mean "all", tables in any
  order. Correct: a file is in force only if it says nothing that the documentation
  does not, and then with exactly that meaning.
* **TOML**: what a line does depends on the table and the array that are open.
  Correct: the tables hold what the file, read as a whole, says; otherwise an error
  names the first line that is wrong.
* **command line**: flags in any place, values that look like flags. Correct: the
  arguments are taken as the usage says, what is recorded is what they name, the
  exit code tells what happened, and every run ends.
* **durations**: ordering of units, digit limit, and arithmetic that wraps.

`PROJECT.json` lists the hazards one by one with the line where each bites.

## 2. The modules

| Module | Models | Variables ↔ code |
|---|---|---|
| `MonitorOps` | the functions of `monitor.go` as operators on entries | `CheckState` is the Go struct; `PingCheck`/`PingEvents`, `FailCheck`/`FailEvents`, `SweepCheck`/`SweepEvents`/`Sweep` are what a call stores and what it returns |
| `AlertFeed` | abstract: what a receiver of alerts is promised, per check | `out` an outage is open, `feed` the types sent |
| `Monitor` | any sequence of calls, with configuration edits | `st` = `State.Checks`, `cfg`, `clock` the instant last passed in, `raised` history of alerts |
| `Selection` | a loop over a sequence that skips what is not in a set | |
| `SelectionProofs`, `MonitorOpsProofs` | lemmas about `Keep` and about the operators of `MonitorOps` | |
| `MonitorProofs`, `StateFileProofs`, `DaemonlessProofs`, `ServeProofs`, `CommandProofs`, `DurationProofs` | theorems about the module of that name (`ServeProofs`: and about `MixedMode`, which has the server in it); section 5 | |
| `AtomicFile` | abstract: what `Save` promises | `file`, `durable`, and per writer `phase`, `job` |
| `StateFile` | `Save` system call by system call on a small file system | `save[w]` locals of a save, `dir`/`dirDisk` directory now and after a power loss, `mem`/`synced` inodes |
| `Daemonless` | `ping`, `fail`, `sweep` as processes on one file | `run[p]` locals of a process (`at`: started, loaded, saved), `file`, histories `raised`, `sent`, `acked`, `solo` |
| `Serve` | `server.Run`, its sweep loop and request goroutines | `st` = `Server.st`, `main` the place of the main goroutine, `queue` its alerts, `req[h]` a request, `tick`/`nextTick` the ticker, `behind` the last save failed |
| `MixedMode` | `Serve` and `Daemonless` composed over one `clock` and one `file` | |
| `TomlText` | the lines of a configuration file, and what they say when read as a whole (`docs/config.md`) | |
| `Toml` | `toml.Parse`, line by line | `doc` the tables reached from `root`, `current`, `at` the line, `array` the locals of `parseArray` while an array is unfinished, `err` |
| `ConfigFile` | the decoder, defaults and `validate` of `internal/config` as operators from a document to a configuration; what the documentation says a file means, from its lines | |
| `Dispatch` | `Dispatcher.Dispatch`, `AlertsFor`, webhooks and child processes | `cfg`, `todo` channels left, `cur` the delivery in progress, `errs` |
| `Command` | one run of the program, from arguments to exit code; uses `Toml`, `ConfigFile` and `Dispatch`; and how its arguments are to be read | `args` (not yet looked at), `cmdArgs` (those of the command), `flags`, `pos` of `Run` and `parseFlags`, `step` the place in the command, `events` left to dispatch, `exit` |
| `CommandInvariants` | what the proofs about `Command` keep from step to step | |
| `Duration` | `Parse` token by token, `Format` | `total`, `lastUnit`, `expects` |

`MonitorOps` is the common ground: `Monitor`, `Daemonless` and `Serve` all run its
operators and cannot disagree on them. `Serve` and `Daemonless` are shown to be
`Monitor` seen through a refinement mapping (`ImplementsMonitor`,
`SoloSavesAreCalls`), `Monitor` to be `AlertFeed`, `StateFile` to be `AtomicFile`.
The last justifies that `Daemonless` and `Serve` take a save as one step that
happens or fails.

`Command` composes the rest: its arguments, each as it was typed, are taken apart
(a flag's value, and what follows `--`, stay as typed), the lines of its file
go through `Toml`, the document through `ConfigFile`, and each event it has through
`Dispatch`, one call after the other. Which events a command has and what other
processes do to the state is the matter of `Monitor` and `Daemonless`; in `Command`
it is an external choice, as is whether files can be read and written. `serve` is a
step of `Command` that may never end; `Serve` says what happens in it.

What a file means is said twice, once by the code (`Toml`, `ConfigFile!Decode`,
`Validate`: line after line, table after table, with a current table) and once from
the documentation (`TomlText!Document`, `ConfigFile!Meant`, `Valid`: positions of
lines, no state). `ReadsExactly` and `LoadsExactly` say that the two agree. So are the
arguments: once by the loop of `parseFlags`, which eats them from the front, and once
by position (`IsValue`, `Ended`, `Named`, `InForce`, `FollowsUsage`: an argument is the
value of the one before it, or stands behind a `--` that is itself no value, or is a
flag, or a name). `ExitTellsWhatHappened` says that these agree too.

Granularity. What runs under the server's mutex (read the clock, change the state,
save) is one step, since nothing can see the state in between but the file, and
there a save is atomic. In `Daemonless` load, save and each delivery are separate
steps, because other processes act between them; computing the new state touches
only locals and is one with loading. The instant is read when a process starts,
before it loads, as in `cmdPing` and `cmdSweep`.

Each operator `...Bug` is a mutant: a plausible mistake in the code. Nothing uses
them; put in place of the operator they follow, they make the property they are
paired with in `PROJECT.json` fail, which shows that the property can.

Abstractions. An instant is a number; a note is its length (the code's 512-byte
limit is `MaxNote`); JSON text is a document or `Torn`; the map of checks is total,
a missing key being the fresh entry that `Get` would create. The text of alerts,
placeholder expansion, HTTP status codes and logging are left out. The characters of
a configuration file are left out too: a line comes as its kind and its tokens, and
what the scanners of `toml.go` (`stripComment`, `splitHeader`, `scanString`) do to
get them is not modelled; what they refuse is a junk line or token. A text in the
file is a name, and `Lasts` gives the duration that module `Duration` computes of it.
`AlertsFor` of a check that is not configured (`CheckByName` returns nil) is in the
model, but no command has such an event.

## 3. The runs

Twelve runs: eight that pass and four that show a disagreement between the code
and what is said of it.

| Run | Question | Bounds |
|---|---|---|
| `monitor_calls` | alert discipline, agreement of file and feed, sweeps, refinement of `AlertFeed` | 2 checks, 3 configurations (a check removed, an interval lengthened, the order swapped), 3 instants in any order, `MaxContacts` = 3 |
| `statefile_save` | is `Save` atomic, private, clean | 2 writers, 2 documents, 2 temp names, 4 inodes; no bound on steps |
| `daemonless_side_by_side` | what holds of processes without a lock | 3 processes at a time, `MaxRuns` = 3, `MaxClock` = 4 |
| `daemonless_lost_ping` (violation) | is *down* always due, if it is sent by a sweep with nothing beside it | 2 processes at a time, no two of which report a contact and no two sweep (`CronSpec`: the two cron lines of `examples/crontab.example`), `MaxRuns` = 4, `MaxClock` = 4 |
| `serve_calls` | is the server the monitor, are alerts and contacts accounted for | 2 requests at a time, `MaxRequests` = 2, `MaxStarts` = 2, `MaxBadSaves` = 1, `MaxClock` = 4 |
| `serve_hang` | liveness, with deliveries of requests that hang | the same, with one start, no bad save, and a name that is not configured |
| `mixed_switch` | which contacts survive when the two modes meet | 1 request at a time, 1 process at a time, two starts, `MaxRuns` = 2 |
| `mixed_beside` (violation) | does a heartbeat recorded beside a server stay | the same, one start |
| `dispatch_events` | is the configuration file read exactly, are deliveries routed and bounded, does the exit code tell what happened, does the run end | all 7381 files of up to 4 lines out of 9 that build tables and arrays; a full configuration of 25 lines with each line left out or repeated, and each of 27 mistakes in every place; 2 checks and 3 channels with every routing; for each command every sequence of up to 2 arguments of 12 kinds and of up to 4 of 3 kinds (a name, `--`, a flag that takes a value), flags in the place of values and of names among them |
| `dispatch_offspring` (violation) | is a delivery bounded by its timeout | same |
| `duration_exact` | what does `Parse` accept | 3 units, numbers of up to 2 digits, a word too large to overflow |
| `duration_overflow` (violation) | is a schedule that overflows refused | the same, a word of 1024 |

Why the bounds are enough for the cases that matter:

* With interval and grace 1 a check is late at 2 after a contact and down after 3:
  `MaxClock` = 4 lets a contact at 1 become an outage. Three commands, in any
  overlap or one after the other, are what a lost update needs (a contact, a
  process that has loaded before it, another contact or a sweep); `MaxRuns` = 4
  adds a sweep that finds the damage.
* The instants {1, 3, 6} hit every side of the two deadlines for both intervals:
  before, between, after, and a single sweep that jumps over late.
* `MaxContacts` = 3 gives two outages in a row (fail, ping, fail) and a third
  contact for what follows. A sweep that prunes sets the count back, so a check may
  have any number of lives.
* Two starts give one death or shutdown and one restart from the file; a failed
  save followed by a good one, or by a death, needs `MaxBadSaves` = 1.
* Alerts about one check do not depend on other checks but through one `Sweep`
  call, so `Daemonless` and `Serve` have one check; `Monitor` has two.
* In `StateFile` a save holds one temp inode, the target and its old version on
  disk two more: four inodes serve two writers. Nothing else is bounded.
* Four lines are enough for a table inside an element of an array of tables, for a
  second element with or without it, for an array over three lines, and for every
  way of naming a table twice. The mistakes cover each condition of the decoder and
  of `validate`, each in every line, so that what comes before or after matters.
* A dispatch of three channels with timeouts 1, 2, 1 lasts 4 at most; `MaxClock` = 6
  lets one that overruns be seen.
* `Duration` replaces 64 bits and five units by a small word and three; the digit
  limit times the largest unit is beyond the word of `duration_overflow` as
  10^9 weeks is beyond 2^63 nanoseconds, and within that of `duration_exact`.

Symmetry is used only where no liveness is checked. Deadlock is not checked where
the bounds (or the end of the program) stop the system.

### Fairness

`HangSpec` of `Serve` assumes weak fairness of: the clock and the ticker; the main
goroutine (the Go scheduler runs what is runnable, and the mutex, which nobody
holds while delivering, is starvation-free); each request as far as its own code
goes, but *not* its deliveries, which may hang; `Shutdown`, which has a timeout.
Requests, starts, signals and deaths are never forced. A delivery of the main
goroutine is assumed to end: if a command of *its* alerts hangs (see
`dispatch_offspring`), `sweep` stands still with it, and silence is not noticed any
more. `FairSpec` of
`Command` assumes that the program takes its own steps and that time passes;
nothing is asked of receivers and commands, and nothing makes `serve` end.

### Time

`Daemonless`, `Serve` and `MixedMode` assume that the wall clock does not go back,
so that instants of processes and requests are ordered as they are read. `Monitor`
does not (`Monotone` = FALSE in its run).

## 4. What the runs show

Holds: alerts are edge-triggered over every sequence of calls and every order of
instants; the file agrees with what receivers were told; a process that overlaps
with no other makes exactly its call of the monitor, and the contact it recorded
is never lost by what overlaps later; even overlapping processes leave entries
that are consistent and tell nothing that was not recorded. The server is the
monitor from outside, over concurrent requests, deaths of the process and restarts; the one
exception is written into the property: if it dies after a save that failed, the
state goes back to what the file holds. An alert raised is held by exactly one
goroutine until it is delivered, fails, or dies with the process.

A status document counts as down just the checks whose outage the receivers know
of, and a sweep alerts on just what it shows as overdue, at the very deadlines too. The start-up sweep leaves
no silent check unannounced. A configuration is in force exactly if it says nothing
undocumented, and means what the documentation says, whatever the order of its
tables; syntax errors are reported for the right line. Each run of a command ends,
tells nobody of what it has not saved, and (unless it is asked for help) exits 0 only if
its arguments follow the usage and it did what they say, for the check that they name; nothing is read or
recorded for arguments that do not follow it (`status --format --json` has the
format `--json`, and is refused).

Disagreements (`findings` in `PROJECT.json`, each with the line it contradicts):

1. `daemonless_lost_ping`: a sweep that loads before a ping saves, and saves after
   it, erases the heartbeat, though the ping has exited 0; a later sweep, with nothing
   beside it, sends *down* for a check that pinged in time. `examples/crontab.example`
   recommends these very cron lines. (Without the run's restriction to one job, an
   older ping that is slow to save can erase a newer one in the same way.)
2. `mixed_beside`: `lastbeat ping` beside a running server exits 0, and the next
   save of the server erases what it recorded.
3. `dispatch_offspring`: a command that leaves a process behind that holds its
   stderr keeps the delivery going past its timeout.
4. `duration_overflow`: products and sums wrap; a wrapped total that is positive
   is accepted.

Three more were met while modelling and have no run. A second `fail` of a check
that is already down raises *failed* again (as `docs/config.md:57` says, "once per
report"; `CONTRIBUTING.md:41-42` reads otherwise): `AlertFeed!FailAgain`. Two
overlapping sweeps both send *down*, with the pair of them recorded. And a ping
that the server handles before its start-up sweep (`server.go:85` starts serving,
`server.go:95` sweeps) hides the outage that began while it was stopped.

## 5. What is proved

TLAPS proves the theorems below for *every* value of the constants: any sets of
checks, notes, processes, request goroutines, documents, arguments and files,
whatever the bounds (`MaxClock`, `MaxRuns`, `MaxContacts`, ...) are. All 35
safety properties, refinements included, that the passing runs check are
theorems; what is left to TLC is liveness.

| Module | Theorem | Says |
|---|---|---|
| `SelectionProofs` | `KeepSelects` | the loops that skip some elements keep the selected ones, all of them, none twice |
| `MonitorProofs` | `TypeCorrect`, `EntriesAlwaysExplained` | entries are well formed; status, last event, counters and instants of each entry agree |
| | `AlertedOncePerOutage`, `OutagesAlwaysSettled` | one alert opens an outage and one closes it |
| | `FileAlwaysMatchesFeed`, `PrevAlwaysChained` | the file agrees with the alerts raised, each alert continues the one before |
| | `DownSticksAlways` | only a ping, with its *recovered*, or the removal of the check ends an outage |
| | `SweepSpacing`, `SweepAlwaysIdempotent` | sweeping in between or twice makes no difference, and raises nothing twice |
| | `StatusAlwaysAgrees` | a status document counts as down just the checks whose outage was told, and shows as overdue just what a sweep alerts on |
| | `MonitorImplementsAlertFeed` | `Spec => ImplementsAlertFeed` |
| `StateFileProofs` | `TypeCorrect`, `NeverCorrupted`, `NoLitterLeft`, `PrivateFiles` | the file is whole now and after a power loss; temp files are private and removed |
| | `SaveIsAtomic` | `Spec => ImplementsAtomicFile` |
| `DaemonlessProofs` | `TypeCorrect`, `EntriesAlwaysExplained` | what overlapping processes leave in the file is consistent |
| | `SoloContactsAlwaysKept`, `SoloSavesAreMonitorCalls` | a process that ran alone made exactly its call of the monitor, and its contact is never lost |
| | `NothingEverInvented` | each alert sent was recorded, no two by the same record |
| `ServeProofs` | `TypeCorrect`, `AnswersAreKept` | what was answered is in the state, over deaths of the process, unless one follows a failed save |
| | `AlertsNeverForgotten` | each pending alert is held by exactly one goroutine |
| | `CatchesUp` | the start-up sweep leaves no silent check unannounced |
| | `ServerIsMonitor` | `Spec => ImplementsMonitor` |
| | `EntriesAlwaysExplained` | its memory and its file explain themselves, whatever fails and dies |
| | `AlertsDisciplined`, `ReliableServerIsMonitor` | while no save has failed: the alert discipline of `Monitor`, and `Monitor!Spec` with all it implies, over deaths and restarts |
| | `OfflineContactsAlwaysKept`, `ServedContactsAlwaysKept` | (of `MixedMode`) what the server and the processes cannot take from each other |
| `CommandProofs` | `ExitAlwaysTells` | for every argument list: it is read as the usage says, or exit 2; what is recorded is for the check that it names; the exit code tells what happened; nobody is told what is not saved |
| | `EachAlwaysTriedOnce` | each channel that ought to hear of an event is tried once, no other is |
| | `AlwaysBoundedIfNoneLingers` | `Dispatch` takes no longer than the timeouts of the channels it tried together, if no process is left behind |
| | `AlwaysReadsExactly` | for every file: the tables are what the file as a whole says, or the error names the first line that cannot follow, or the array left open |
| | `AlwaysLoadsExactly` | for every file: a configuration is in force only if the file says nothing undocumented, and it is what the documentation says; a file is refused only if it says something else |
| `DurationProofs` | `DurationInvariant`, `AlwaysAcceptsWrapped` | for any units and word size: `Parse` accepts exactly the well-formed texts whose wrapped sum is positive, and returns that |
| | `FitsAcceptsExactly`, `ExactWhereFits` | where the sum fits a word, it accepts what it should and returns what the text means; and only there |
| | `AlwaysRoundTrip` | what `Format` prints reads back as the duration |

**Assumptions.** Only the named ones in the modules. `Monitor`, `Serve`, `Daemonless`:
configurations have positive intervals and graces, as `config.go` validates; instants
are not the zero time. `Daemonless` and `MixedMode`: all names are configured.
`StateFile`: documents are not the marks for a torn or a missing one, temp names are not
the target's. `Command`: arguments and lines come in sequences, a header names a table (`splitHeader` refuses an empty one),
what a line assigns is a sequence of tokens, its key a string, `Text` has every text
that a file assigns, and the empty text is no duration (`duration.go:33-36`). Nothing is
assumed about lengths, counts or sizes, or that sets are finite.

**Monitor.** `OncePerOutage` is not inductive: to know that a new *down* is
allowed one must know that every earlier outage in the feed has been closed, and
that is `OutagesSettled`, which needs the status in the file; `PrevChained` needs
`FileMatchesFeed` for the last alert. Together they are (`Disciplined`, per check,
of status and feed), and

    IInv == TypeOK /\ EntriesExplained /\ Disciplined for every check

is inductive. A step touches every check at once (a sweep), so the proof is
organised per check: `StepMoves` shows that whatever a step does to a check is one
of five *moves* of the pair (status, feed), or a new life: `Quiet`, `Close`, `Fail`,
`GoDown`, `GoLate`, `Reset`. `MoveKeepsFeed` shows that every move preserves
the discipline, once and for all; it rests on `AppendAlert`, which says what
appending one alert does to the positions of a feed. The refinement maps each move
to the action of `AlertFeed` of that name. `MonitorOpsProofs` holds what every
component needs of the monitor's operators: well-formed entries and events, and at
most one event per check from a call (`OnePerCheck`).

**State file.** `NeverCorrupt` depends on what the calls before the rename have
done to a temp file that nobody else reaches. `IInv` adds what a save has achieved
at each point (`TempsReady`: the inode is written, then on disk), that no two
saves share a temp name (`NamesOwn`) and that the target is on disk before the
directory is (`TargetSynced`). In the refinement the rename is the step that takes
effect; all other calls stutter.

**Daemonless.** What is in the hands of a process counts as much as the file:
states that are loaded and not yet saved explain themselves too (`Explained`), and
none of them is older than a contact of a process that ran alone (`SoloKept`).
`AloneUndisturbed` says what a process that is still alone has in hand: the outcome
of its call on the file as it is. `Backed` gives each alert that was sent, or is
owed, a record of its own: two injections, extended by one pair at each save and
handed over at each delivery. `ContactsCounted` (contacts in an entry are processes
started, less those that have yet to save) keeps the monitor's own bound out of the
refinement's way.

**Server.** `RequestsRecorded`: a request that has been recorded is in the state,
or a later contact is. `InSync`: file and state differ only after a failed save.
`QueuesAccounted`: the queues of all goroutines together list each pending alert
once. `DownTold`: while no save has failed, the alerts of a check that is down end
with the news of it; this is what the start-up sweep rests on. `ServerIsMonitor`
uses all of it, with the theorems of `MonitorOpsProofs` about single calls.

`ImplementsMonitor` leaves out a death after a failed save, and must: the state goes
back to what the file holds, and an alert that was raised is raised again. (Without
the condition `badSaves = 0`, TLC finds `OncePerOutage` of the server's feeds
violated.) With it the exception never occurs, so the inductive invariant of
`MonitorProofs` holds of the state in memory (`Reliable`), and all that was proved of
`Monitor` is true of the server. `MonP`, an instance of `MonitorProofs`, carries its
lemmas over: `SameCalls`, `SamePromises` and `SameStatus` identify its operators
with those of the server's own instance. That entries explain themselves needs no
condition (`ServerExplains`), since it survives a fall back to the file.

**Mixed mode.** `SameSteps` shows that the processes in `MixedMode`, which share
its clock and file, take the steps of those in `Daemonless`; the step lemmas of
`ServeProofs` and `DaemonlessProofs` are used as they are. `MixedInv` adds how far
back what server, processes and file hold may go.

**Command.** `ExitTellsWhatHappened` joins two things. `ProgressOK` ties the place in
the command to what has been saved and told. And the arguments: `ReadingOK` says of
the loop of `parseFlags`, wherever it stands, that the names and flags it has are those
of the arguments behind it (`NamesTo`, `FlagsTo`), read by position. Whether an argument
is a value depends on the one before it, so along a row of flags that take values every
other one is a value: `ValueNext` is the step from one argument to the next, and
`SetInduction` carries it through rows of any length. When the loop ends, `UsageOK` has
the verdict on the whole list and `ToldOK` what was recorded by it. For the channels, `OnTheWay` says that those
who ought to hear are those tried and those still to come, with no name twice. That
names are distinct is what `validate` checks, of what the decoder finds in the
tables the parser has made: `TablesOK` (a value that stands for tables leads to
tables that exist, and a text is a text of the file) holds after every line
(`ParsedStep`), and `DecodedOK` draws `ConfigOK` from it. The clock: a delivery in
progress began within the timeouts of those before it and is within its own
(`ClockOK`); trying a channel adds its timeout (`TimeoutsMore`).

**Parser.** `ReadsExactly` speaks of the end of the file only; `ReadOK` says the same
of every line on the way: the lines read so far may begin a file (`Readable`), the
tables are those that they describe (`Document`), the open table is that of the last
header (`TableAt`), and the unfinished array is the one that the lines leave open,
with the items its text has so far (`Unfinished`, `OpenAt`). That alone is not
inductive. A header goes through the *last* element of an array of tables, which the
parser finds by the size of the array it has made, and the text by counting headers,
anew in each element of an array further out (`Position`); `Sync` says that the two
agree, for every path from every table that can still be reached. With it a header is
followed segment by segment (`Met`: the tables are those of the lines and those that
the segments so far have made), and it is refused just where the lines clash
(`HeaderRead`). An array is followed token by token, over any number of lines
(`ScansRead`). `ReadableStep` says what makes one line more readable, so an error is at
the first that is not. `BlankRead`, `HeaderReads`, `SetScalarRead`, `SetArrayRead` and
`MoreRead` are the steps, stated of a file and of what the parser holds, apart from
the state machine; the last lemmas apply them to the actions of `Toml`, of which
Command has an instance (`ReadableSame`, `DocumentSame`: its text is the same).

**Configuration.** `Decode` and `Validate` walk over tables, `Meant` and `Valid` count
lines: `AlwaysReadsExactly` leads from the first to the second. The headers of a
whole file are counted with the recursive functions of `ConfigFile` (`UpTo`,
`NthLine`), and the number of elements of an array of tables is that of its headers
(`PositionCounts`). In a file that decodes there are no headers but the documented
ones (`DecodedHeaders`): a table whose keys lead to values has no table below it
(`NoneBelow`), and a key that leads to a table is no documented scalar. From there
each header line has a table of its own (`HeadersApart`, `TableKeys`), a table decodes
just if the lines below its header are documented (`DecodesIs`, `DecodableIs`), and a
key that is read is the line that gives it, or its default (`GivenIs`). Together these are
`DecodeIs`: the decoded configuration is what the lines mean. `ValidateIs` says
that `Validate` accepts just what is usable; its maps of names find a duplicate
because there are fewer names than elements. Last, an error of the parser at one
line makes every continuation unreadable (`ReadableDown`), so a file that
is refused before it is decoded says something undocumented as well.

**Duration.** `Follows` says what the locals of `Parse` mean: the pairs read are
well-formed and in order, `lastUnit` is that of the last, `total` is their sum,
wrapped. That wrapping each product and each sum wraps the whole (`WrapSums`) is
what makes it inductive although nothing bounds the sum. An error is final:
`Refused` says that what has been read by then cannot be completed to a meaning.
`AcceptsExactly` itself is false where the sum overflows (`duration_overflow`), so
the theorem has `Fits` as its condition, a property of the text alone, and
`AlwaysAcceptsWrapped` says what happens beyond. For `Format`, what the first units
print and what they leave add up to the duration (`PrintedIs`); the division that
is left at the end is by the smallest unit, of which the units, and so the meaning
of any text, are multiples. In the code the units are in nanoseconds and the
smallest is 10^9 of them: a wrapped total need not be a whole number of seconds,
and `Format` drops the rest.

**Induction.** The library's induction theorems take an operator, which the installed
provers cannot instantiate. `SetInduction` (in `SelectionProofs`) states induction over
`Nat` for a *set* of numbers, proved from the well-foundedness of `<`; with it the
equations of recursive functions (`Kept`, `Ways`, `TimeoutSums`, `Sums`, `Rest`,
`Printed`, `Scans`, `ValueTexts`) and what they compute are proved for every length. So
loops over positions are written in the modules as recursive functions.

**Only model-checked:**

* Liveness: `Ends`, `SilenceNoticed`, `AlertsSettle`, `RequestsAnswered`,
  `ShutdownEnds` (fairness and `ENABLED` are beyond the prover).

## 6. What is not modelled

* The characters of a configuration file: comments, quoting, escapes, number syntax
  (see Abstractions). The scanners are sequential text processing without state
  beyond a line.
* Paths: `state_file` relative to the configuration file, which file `-c` names.
* A power loss that takes the state file back after `Save` has returned nil (the
  directory is not synced, `state.go:138`): `StateFile` and `AtomicFile` have it
  (`PowerLoss`), `Serve`, `MixedMode` and `Daemonless` do not. What they say of
  contacts that are kept and of restarts is about processes that die, by themselves
  or by a kill, on a machine that stays up.
* A request whose body stalls (`server.go:177`): `Serve` has a request once its body
  has been read, which is before the mutex is taken.
* The race of `init` between looking for the file and writing it: `init` is one step.
* Text: payloads, placeholders, notes beyond their length, HTTP codes, logs, the
  tables that `status` and `checks` print.
* `/status/<name>` and `/healthz`: they return a part of what `BuildStatus` returns,
  and a constant. `authorized` and the shape of request paths: what they refuse has no
  effect.
* External, modelled from how the code uses them: the file system, `time.Ticker`,
  child processes and their stderr, cron, kills and power losses.

## 7. Plan

Done, in this order: `MonitorOps`, `AlertFeed`, `Monitor` and its proofs (the core:
everything else runs these operators); `AtomicFile`/`StateFile`;
`Daemonless`; `Serve`; their composition `MixedMode`; `Dispatch`; `Duration`;
`TomlText`/`Toml`; `ConfigFile`; `Command`, which composes `Toml`,
`ConfigFile` and `Dispatch`.

Proved, in this order: `Monitor`; `StateFile` with its refinement; `Daemonless`,
`Serve`, `MixedMode`; `Command` with `Dispatch` and the parser's tables; the alert
discipline of `Serve` over restarts; `Duration`; the parser; the configuration.

Every part of the plan is done; liveness stays with TLC.

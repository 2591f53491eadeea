# A model of PeakEmi

PeakEmi measures electromagnetic emissions: it sweeps a spectrum analyzer over a
configured range, finds the peaks, dwells on each of them with the detectors the
standard asks for, and compares the levels with limit lines. This directory holds
TLA+ modules translated from its source, the TLC runs that check them on small
instances, and proofs of the most important properties for every value of their
parameters.

Paths below are relative to `src/src/` of the repository unless they begin with
`docs/` or `tests/`. FR- and NFR- numbers are those of `docs/requirements.md`.

## 1. The system

| Part | State it keeps | Operations | Talks to | What is hard about it | What makes it correct |
|---|---|---|---|---|---|
| Measurement engine, `core/engine/MeasurementEngine.*`, `core/ports`, `CancelToken.h` | configuration, driver, phase, four control flags, the session of the run, the file last saved | `setConfiguration`, `setDriver`, `start` on the worker; `requestPause`, `requestResume`, `requestAbort` from any thread | driver, command sender, autosave file; signals to the window | the control calls store flags one by one while the worker reads them; a condition variable; retries, two phases, several passes, four ways out of the dwell loop; a crash at any moment | an abort ends the run and soon, no wake-up is lost, stop commands precede every announced end, the session keeps the worst case, at most one point is lost in a crash |
| Run planning, peaks, limits, corrections, `RunConfiguration.cpp`, `PeakDetector.cpp`, `core/limits`, `core/corrections`, `Capabilities.cpp`, `Trace.cpp` | none | plan segments, bring parameters into the instrument's range, stitch traces, detect peaks, interpolate limits and corrections | the engine, the runner | integer remainders, edge frequencies that two segments share, steps and gaps in limits, plateaus, peaks that compete for spacing and the cap, a span cut at the instrument's end | every frequency is covered once, the higher reading is kept, no critical peak gives way to a milder one, a dwell loses nothing the scan saw |
| Run controller, `ui/models/RunController.cpp` | current driver and transport (GUI thread), the queue of the acquisition thread, the driver the engine holds | connect, disconnect, start, pause, resume, abort, destructor | engine through queued calls, transports, the window through signals | two threads share `m_transport`; what is queued runs later, on a connection that may be gone | one open connection, the engine measures with the newest, abandoned ones get closed |
| Main window and docks, `ui/windows`, `ui/docks`, `ui/models/ResultsTableModel.cpp` | the phase and connection it shows, its copy of the session, the table, the dirty flag, the path, the docks' widgets | buttons, file actions, edits, the controller's signals | the controller by calls, files, the docks by signals | what it shows lags behind what is; points carry the level of a pass and the session the worst; open, save and edits during a run | a run measures what the docks showed, the table ends as the session, nothing unsaved is left without a question, editing comes back |
| Headless runner, `cli/run/HeadlessRunner.cpp`, `app/cli_main.cpp` | published engine, abort flag, exit code | `run`, `requestAbort`, the signal handler and the watcher thread | the engine, on its own stack | a signal at any moment; a lock between the watcher and the end of the run | the exit code never claims a verdict the job did not earn |
| SCPI drivers, `drivers/scpi` | abort flag and token, parameters, identity | `open`, `identify`, `configureSweep`, `armAndTrigger`, `fetchTrace`, `abort`, `close` | an instrument through a transport | replies carry nothing that names their query, come late, and are given up; an EMI receiver goes deaf and mute while it scans; `abort()` comes from another thread | a trace belongs to the sweep that was configured; the instrument is left as promised |
| Simulated driver, `drivers/simulated` | abort flag, seed | the same | the engine | its abort flag is taken down when it is armed | the flag costs at most one sweep |
| Transports, `hal/transport`, `hal/scpi` | socket or handle, reply buffer, transaction id or tag | `open`, `close`, `write`, `read`, `query`, `clear` | instruments | timeouts leave replies behind, responses come in parts, the abort clears from another thread, ids and tags wrap | a response is returned whole; where it is numbered, it is that of the query, or refused; every operation returns |
| Discovery, `hal/discovery`, `ui/docks/InstrumentDock.cpp` | scanner thread and pool, abort flag, known USB devices, the instruments and the rows that number them | scan, abort, hotplug, poll, typed-in addresses, connect | the USB bus, the network, the window | an abort before or during a sweep, signals in several queues, devices that change | a row connects its instrument, a sweep's end follows its findings, rows follow the bus |
| Driver registry and plugins, `hal/registry`, `drivers/BuiltInDrivers.cpp`, `python/bridge`, `ui/dialogs/PluginManagerDialog.cpp` | registered factories, loaded plugins, approvals in memory and in a file | register, match, rescan, publish, approve, revoke | Python, the window's choice of a driver | files edited between scans, saves that fail, registrations that are never taken back, ties | what is imported is what was approved, what is listed is what is offered, a tie chooses nobody |
| Session storage, `core/session`, `core/util/AtomicFileWriter.cpp` and limit files, `core/limits/LimitLineIo.cpp` | none between calls | save, load, import | file system | two hand-kept lists of fields, values no number can hold, damaged files, crashes during a save | a session comes back as it was; damage is refused or stays where it is |
| Reports, `reporting`, `ui/dialogs/ReportTemplateDialog.cpp` | the template in its file | export CSV, JSON and PDF, edit the template | file system | page breaks, long texts, damaged templates | every result is on a page, once, under one verdict |
| Plots, other dialogs, command line, logging | none that outlives a call | drawing, parsing | screen | formatting | out of scope |

The threads: the GUI thread owns the window and the controller; the acquisition
thread executes, one after the other, what the controller queues, `start()`
among it, so nothing queued runs while a run goes on; control calls go around
the queue straight into atomics, a mutex, the cancel token and the driver. The
command-line program runs the engine on the main thread, with a watcher thread
between the signal handler and `requestAbort()`.

## 2. The modules

```
RunLifecycle            what a run promises            (abstract)
  ^ implemented by
MeasurementEngine       the engine, its control thread, the autosave file
  ^ EXTENDS             ^ EXTENDS
HeadlessRunner          MCMeasurementEngine
  ^ EXTENDS
EngineProofs            about the engine, alone and inside a job

RunController           the GUI's controller, the queue, the command sender
  ^ EXTENDS
MainWindow              the window's session, table, docks and files over it
  ^ EXTENDS
WindowProofs

Transports              five kinds of transport, numbered calls, leftovers, clear()
  ^ EXTENDS
TransportsProofs

InstrumentLine          a line transport with late replies
  ^ EXTENDS             ^ EXTENDS
ScpiAnalyzerDriver      UnitrendFscanDriver  <- MCUnitrendFscanDriver (symmetry)
  ^ EXTENDS             ^ EXTENDS
AnalyzerProofs          FscanProofs

Ordering                sorting, so that it can be proved about           (pure)
  ^ EXTENDED by LimitsAndPeaks and DriverRegistry

RunPlanning             bandwidths, segments, what an instrument can do   (pure)
  ^ EXTENDS
LimitsAndPeaks          limits, corrections, margins, the peak detector    (pure)
  ^ EXTENDS
PeakScan                one pass as a measurement: what is swept, seen, judged
  ^ EXTENDS             ^ EXTENDS
MCPeakScan              PeakScanProofs

DriverRegistry          scores and the choice of a driver                  (pure)
  ^ EXTENDS
Plugins                 files, approvals, scans, publication     <- MCPlugins
  ^ EXTENDS
PluginsProofs

Instruments             LAN sweep, USB bus, the rows of the dock <- MCInstruments
  ^ EXTENDS
InstrumentsProofs

JsonDocuments           every field of a session, written and read         (pure)
  ^ EXTENDS
LimitFiles, Reports, ConfigurationDock   imports, exports, pages, widgets  (pure)
  ^ EXTENDS
Documents               a session's way through dock, file and report <- MCDocuments
```

MeasurementEngine and PeakScan look at the same `start()` from two sides. The
first keeps its control and leaves open which peaks a scan flags and what a dwell
reads; the second keeps what those depend on, and drops waiting, retries, passes
and control calls.

A definition whose comment begins with "Mutant" is not the code's: it is a slip
the definition after it might suffer, kept beside it to show that the properties
notice.

### RunLifecycle

The phases of `MeasurementEngine::Phase` in the order a run may report them, and
`debt`: what the run owes to equipment its start commands may have switched
(`clear`, `owed`, `paid`, `closed`). It hides retries, segments, flags and
waiting. `End` needs `debt = "paid"`, or that nothing was ever switched.

### MeasurementEngine

Every store to shared state and every call out of the engine is a step.

| Action | Code |
|---|---|
| `Start`, `ClearAbort`, `ClearPause`, `ResetCancel`, `AdmitRun`, `RefuseRun` | `start()`, lines 333-372: the three flags it clears one by one, then its early exits |
| `SendStartCommand`, `SendStopCommand`, `StopCommandsDone` | the command loop and the `runStopCommands` lambda; one command per step |
| `BeginPass`, `SegmentFetched`, `AnalysePeaks`, `BeginDwell`, `PointVerified` | the loops of `start()`, `runPhase1()` and `verifyPeak()` |
| `GateStops`, `GatePasses`, `GatePauses`, `LockForWait`, `WaitReturns`, `WaitBlocks`, `Sleep`, `WakeSpuriously`, `ResumePhase` | `waitWhilePaused()`: the test of the predicate, the release of the mutex and falling asleep are separate steps, so that a missing lock would lose a wake-up |
| `Prepare`, `AttemptStops`, `AttemptBegins`, `ConfigureSweep`, `Arm`, `CallFails`, `CallCancelled`, `SweepCompletes` | `acquireSegment()` and the driver calls in it |
| `Checkpoint`, `SaveBeforeEnd`, `ReportEnd`, `Leave` | the merge loop's `autosave()`, and the exits |
| `RequestPause` ... `Notify` | the control calls, one store per step; `AbortDriverOnly` is `disconnectInstrument()`, which aborts the driver and not the engine |

Frequencies are opaque, levels integers; which peaks a scan flags is any set;
driver calls succeed, fail or report cancellation; a save replaces the file or
leaves it. `debt`, `measured`, `flagged`, `late` and `runs` are observers that
no guard reads, but for `MaxRuns`, the bound on runs.

### HeadlessRunner

`run()` from `buildConfiguration()` to the exit code, with the engine of
MeasurementEngine as the thing `run()` calls: `EngineStep` is a step of the
engine's worker, `WatcherCalls` and `WatcherGoesOn` are the steps of its
`requestAbort()`. The signal handler's flag, the watcher's poll, `m_engineMutex`
and `m_engine` (`published`) are modelled as they are. Whether a limit is
exceeded, a file is written or an instrument answers is free.

### RunController

The GUI calls are atomic (they run on one thread and do not block); what they
queue is delivered in order to the worker (`queue`), and what the worker emits
is delivered to the window later (`inbox`). A run is its start command, its
passes and its stop command; `SenderChecks` and the write are two steps, because
the GUI thread can reset `m_transport` in between. `queue` carries the
configurations too, so that what a run measures with is the last one delivered
before it. A measured point is a level, the higher the worse.

### MainWindow

| Action | Code |
|---|---|
| `OnConnectionChanged`, `OnPhaseChanged`, `OnTraceAcquired`, `OnPointMeasured`, `OnRunFinished` | the window's slots for the controller's queued signals, the table's `appendPoint()` and `setPoints()` among them |
| `PressStart`, `DeclineStart`, `UseInstrument` | `startRun()` with its question about unsaved results, connect and disconnect |
| `EditLimits`, `EditBandwidth` | a widget of the configuration dock, enabled while the window shows no run; each sends the whole configuration |
| `NewSession`, `OpenSessionFile`, `SaveSession`, `SaveSessionAs`, `EditSessionMetadata` | the file actions: a save may be refused, an opened file replaces session, docks and table |
| `ExportResults`, `ExportPdfReport` | take the table into the session before they write |
| `CloseWindow` | `confirmDiscardChanges()` and `closeEvent()` |

A dialog is one step, taken when it closes; signals cannot be delivered inside
it. The two that can, the file dialog between the confirmation and the load and
the message boxes, run a nested event loop in the code; see section 6.
Commands typed into the log dock's console are left out: `sendRawCommand()` is
refused during a run and otherwise queued with the transport of that moment; it changes
the instrument and nothing the models keep.

### Transports

One of the five kinds per behaviour, chosen by `bus`. A response is parts, of
which the last carries the terminator or the END flag. On a line (TCP, serial)
`inbound` is a stream and `got` the buffer; VXI-11 and USBTMC fetch each part
with a call whose number the answer repeats, `IsAnswer` is the comparison. A read
or a write is given up at any moment (`GiveUp`: timeout or cancellation), and
leaves what was under way on the link. `ClearX` are the worker's and the GUI
thread's `clear()`; the latter shares buffer, socket and transaction numbers
with whatever the worker is in. `LinkAccepts` lets a VXI-11 instrument accept any
number of bytes of a chunk, zero included. `Read` is also made behind no query, as
`waitUntilResponsive()` does (`at = "drain"`): what it returns is thrown away, and over
VXI-11 and USBTMC it leaves a request on the link. The instrument and the VISA runtime
are external.

### DriverRegistry, Plugins

`DriverRegistry` has the scores: built-in matchers, and manifests with regular
expressions, of which it keeps what they find somewhere and as a whole; and
`createBestMatch()`, which refuses ties. `Plugins` has the files, the trust store
in memory (`entries`) and on disk, a rescan as the fold of `Loaded` over the
directory, `Publish`, and the operator's `Approve` and `Revoke`, whose saves may
fail. `Imported` appends what each loaded file registers.
`Edit` and `LoseStore` happen outside the program; a file is not edited between
the moment it is hashed and the moment it is imported, which in the code are two
reads of it. `PluginAssumption` says that a file has a place in the listing and content
that is not the empty string, that what a script registers and what is built in
are lists, and that an expression which matches the whole of a model finds something in it.

### Instruments

The rows of the instrument dock and everything that changes them. `ScanBegins`,
`ScanClearsAbort`, `ProbeBegins`, `ProbeEnds`, `PoolCleared`, `PoolDone`,
`SweepDone`, `ScanFinishes` are `scan()` on its thread with the probes of its
pool; findings and the end are queued signals (`inbox`). `TimerPolls`,
`TimerDispatches` and `QueuedRescan` are the watch over the USB bus, with a
hotplug callback and without; a listing may fail, which ends the watch.
`Published` keeps the order of `publish()`: arrivals, then departures. Arrivals and
departures come in any order among themselves; `AddedAll` and `Removed` are
`addInstrument()` and `removeInstrument()` for each of them. That the addresses of
endpoints (host and port), of USB devices (vendor, product, serial number) and of
what is typed in do not pass for each other where the code relies on it is
`EndpointsAssumption` and `OthersAssumption`: an endpoint is not spelt like a USB
device, and only the watch over the bus lists devices of its category.

### JsonDocuments, LimitFiles, ConfigurationDock, Reports

Pure operators, two for every conversion, each with its own list of keys as in
the code. A JSON object is a record, so that a missing key is missing; `Null` and
`Alien` are null and a value of another type; a conversion's outcome is `ok`,
`refused` or, for what nlohmann throws, `thrown`. `ConfigurationDock` has the
widgets: what `setConfiguration()` shows, clamped to ranges, and what
`configuration()` reads back. `Reports` places boxes on pages by their heights.

### Documents

A session that is edited, run, stored, changed on disk by others (`ChangeFile` sets
one value of the file, or one element of a list, to null or to a value of another type,
or removes a value;
`OtherVersion` makes the schema's version too old or too new), opened
again and reported. An exception nobody catches ends the program (`outcome`): that it
happens for the values `ReadUnguarded` names and no others is part of `DamageStaysLocal`, beside that
what is opened differs in the damaged value only.

### InstrumentLine

The TCP transport as a pair of FIFOs: `wire`, what was written and not executed,
and `replies`, what was answered and not read, be it in flight, in the socket or
in `m_buffer`. `read()` takes the oldest line. `clear()` drops what has arrived,
which is any prefix of `replies`. A write that fails may have gone out. The
serial transport has the same structure. A connection that is opened again does
not execute what the previous one had still pending.

### ScpiAnalyzerDriver

The driver of the swept analyzers. A sweep is named by its parameters; `Set(0)`
stands for any part of a configuration, `Set(t)` for its last command, so that a
configuration sent by halves leaves the instrument set to nobody's parameters.
`QueryIdentity` follows `m_abortToken`, which the first `abort()` cancels and only
`open()` resets: after that every `*IDN?` goes out and its answer stays on the
line. The instrument's actions are external, and are what the driver's comments
say: commands are executed in order, `*OPC?` is answered after the sweep.

### UnitrendFscanDriver

The EMI personality of the UNI-T receivers: a scan makes the instrument deaf and
mute, so `waitUntilResponsive()` probes, takes any answer for the end, and drains
the answers to the earlier probes. `DrainEnds` is the drain that used up its
`MaxDrains` reads, or one of whose reads timed out, which may happen at any moment:
a reply that takes longer than `drainTimeout` is not waited for. Either way answers may
be left. `DrainCut` is the drain whose read was cancelled, where the
function reports success and the query after it fails (`QueryCut`). A dwell is a
reading of the meter's peak hold, repeated until it is a level.

Nothing relates the number of probes (`MaxBacklog` bounds the answers outstanding at
once) to the drain's reads: a wait of five minutes has time for over 300 probes, the
drain reads 64 replies. About the instrument nothing is assumed but
that it answers in order; while it is busy it may drop a command or keep it (`Deaf` is
a choice). Three observers tell the cases apart in which a trace may be wrong:
`deserted` (a target configured while an earlier scan was under way), `stale` (a reading
still unanswered when the drain ended; a reply to a probe is refused as a trace, a
reading's number is not) and `dirty` (an answer given up or left by the drain since the
line was last empty), which only a reading has to fear, as nothing drains before it.

### Ordering

`Ranked` is `std::sort` and `std::stable_sort` by a total order (the ties are broken
by the place in the list, as a stable sort does), `Ascending` the same for numbers. An
element stands where the number of those before it says. The community modules' `SortSeq`
and `SelectSeq` cannot be expanded in a proof.

### RunPlanning

`planSegments()`, `phase1SweepParams()`, `phase2SweepParams()`, the bandwidths of
the CISPR bands, `Capabilities::coerce()` and `validate()`, `frequencyAt()`. All
of it is integer arithmetic on frequencies in hertz, for which the code's doubles
are exact. Detector, levels and attenuation are left out; they are brought into
range like the three parameters that are kept (span, points, bandwidth), which
decide what a sweep can see.

### LimitsAndPeaks

Limit lines with their steps and their linear and logarithmic stretches,
correction tables, `evaluate()`, the verdict, and `detectPeaks()` with its
prominence (`FlaggedPeaks`), its ranking, its spacing and its cap. Levels are integers, the
logarithm is a table over the frequencies of the instance (`Log`), and an
interpolated level is rounded down. `Infinite` stands for the margin where no
limit applies.

### PeakScan

| Action | Code |
|---|---|
| `RefuseRun`, `PlanScan` | the validation and the plan at the beginning of `start()` and `runPhase1()` |
| `SweepSegment`, `SweepRefused` | `acquireSegment()`: parameters brought into range, validated, swept |
| `Analyse` | `stitch()`, the corrections, `detectPeaks()` |
| `VerifyPeak`, `VerifyRefused` | `verifyPeak()`: the dwell, its highest sample, correction, margin and verdict |

The instrument is ideal: a sample shows the strongest emission within half a
bandwidth of its frequency (`Reading`). The emitters are narrowband and steady.
What is given is in numbers: frequencies, counts and levels of a
configuration, the points of its limits and corrections (`Breakpoints`), an
instrument's range and its bandwidths, which are positive and finitely many as in the
profiles (`ConfigurationsAssumption`, `InstrumentsAssumption`, `LevelsAssumption`). The
critical margin a configuration asks for is below `Infinite`, the margin of a point no limit
covers, as any number is in the code. A frequency that a limit or a correction
is interpolated at has a logarithm (`LogAssumption`), which the table `Log` of an
instance must provide where the code calls `std::log10`. The module
asks what the software makes of such a measurement, and not what a filter's skirts or
an intermittent emitter do to it.

## 3. The runs

| Run | Instance | Distinct states | What it shows |
|---|---|---|---|
| `engine_session` | 2 passes, 2 segments, 2 peaks, 2 levels, no retry, 1 stop command | 2.1 million | the session keeps the worst measured point per frequency; the file is at most one point behind and never goes back; Finished means complete |
| `engine_control` | 1 pass, 1 segment, 1 peak, 1 retry, 1 start and 1 stop command, 2 runs | 213 thousand | every interleaving of pause, resume and abort: the lifecycle is implemented, an abort is prompt and ends the run, no wake-up is lost, an unpaused run ends |
| `headless` | 1 pass, 2 segments, 1 peak, 1 retry | 8 thousand | the exit code is honest, the engine outlives the calls into it, both threads end |
| `window` | 2 connections, 2 starts, 2 edits, no more than 3 of these together, 2 passes, 2 levels, 1 file | 227 thousand | the window, controller and worker together: one connection, the newest; a run measures what the docks showed; the table settles as the session; a clean session is stored; editing comes back |
| `controller_stop` | 1 connection, 1 run | violated | finding 1 |
| `analyzer` | 2 targets, 2 connections, 2 queries given up on each, 3 commands of lag | 558 thousand | a finished trace of the sweep that was asked for, a quiet line |
| `fscan` | 2 ranges, 2 points, 1 drain read, 3 outstanding answers, 1 command of lag, 1 connection | 4.4 million | wherever the drain stops, a scan belongs to its range and a reading to its point |
| `scan` | 10 configurations, 2 instruments, up to 2 emissions of 2 levels anywhere in the span | 117 thousand | the plan covers the span; emissions are seen, the highest reading is kept, critical peaks are flagged in order; a dwell loses none, an exceedance fails the run |
| `transports` | 5 kinds, 2 connections, 2 queries of 2 parts, 1 read behind no query, 1 clear, numbers that wrap after 6 | 164 thousand | responses are whole; numbered ones belong to the last query; every operation returns |
| `plugins` | 2 files of 5 contents, 2 built-in drivers, 3 changes from outside, 3 scans, 3 identities | 1.3 million | imports are approved, what is listed is offered, the choice is the strongest claim or none |
| `instruments` | 1 endpoint, 2 sweeps, 2 USB devices, 2 changes of the bus, 1 typed-in address | 878 thousand | a row is its instrument, findings precede the end of a sweep, rows follow the bus, the button comes back |
| `documents` | about 120 sessions, 9 limit files, 6 tables, 4 templates, 4 calls, 1 damaged value or list element | 69 thousand | a stored session returns, damage stays local, a report is whole |

Why the bounds are enough. Two passes are the fewest in which a frequency can be
flagged again, with a worse or a milder level or not at all; two segments let a
run fail half-way; two runs let flags of one run meet the start of the next; one
retry tells the first attempt from the last. Two connections are one that
is closing and one behind it; what more of them would do is proved (section 4). Two targets tell a trace
from a stale one, and two connections show that the second starts afresh; with two queries given up, answers lag far
enough behind for an identity to be read as a trace, and refused. One
drain read against three outstanding answers (the probe that was answered and two before it)
lets the drain use up its reads with an answer left, which is the relation of 64 to 300
in small, or stop before that; the receivers' driver is new on every connection, and any
number of them, and any lag, are the subject of the proof. Two emissions are the fewest that compete for the spacing between peaks, for their
rank and for the cap (which is 2 in most configurations and 1 in another). The
configurations of `scan` are those in which the arithmetic has edges: two
segments; four that do not divide evenly, at the foot of the instrument's range; a
dwell in a zero span; a last segment that leaves the instrument's range in part, and
altogether; a scan across two bands; no prominence asked for, once with a dwell
narrower than the scan's bandwidth and once with sweeps of two points; a prominence
that only the stronger emissions reach; an empty span. One instrument has four
bandwidths to choose from, the other takes any, cannot do zero span, and sweeps as few
as two points.
The engine's questions are split over two runs because the data (passes,
peaks, levels) and the control interleavings multiply, and the properties of
each kind do not need the other's detail. Symmetry is used for frequencies,
ranges and points, which the code only compares for equality in these models;
no run with symmetry checks liveness.

In `window`, a second connection, a second run and a second pass
meet what the first left behind; three file actions are a save, something in between
and an opening. Two queries, one read behind no query and one clear let a transport fall behind more than
once, and the read leaves a request that nothing answers in time; the
numbers wrap after six, before which a leftover is always consumed, as in the code
255 tags are. Two plugin files compete for a name with each other and with a
built-in driver; three scans are one before, one after and one that repairs. One
endpoint is enough for the order of a finding and an end, as the pool's jobs do not
interact; of the two USB devices one changes its address when its strings become
readable. In `documents` every field of a session takes a value
that is not its fallback, one at a time, so that a field forgotten on one side is
noticed; and in the sessions `Handled`, which between them have every kind of object, each value is damaged in
turn, the elements of lists included (of a list of objects the first stands for all). Two results take all pairs of verdicts; texts and tables are short, longer
than what is left of a page, and longer than a page. Damage is one value, because
the conversions read each value on its own.

Deadlock is checked for the engine, the runner and the window, whose ends
are explicit. The other configurations do not check it: when the bounds on
connections, queries, scans or edits are used up, the modelled caller stops, and
the pass of `scan` ends.

The engine's `SetConfiguration` while a run is under way does not occur (it is
queued to the thread that executes the run), and so on for everything queued.

### Fairness

* Engine: weak fairness of the worker's `Step` (driver calls, the sender and the
  file system return, the first because transports have timeouts) and of
  `FinishCall` (a thread inside a control call goes on). No fairness for the
  operator or for spurious wake-ups. `Step` contains no step that waits without
  being disabled, so weak fairness is enough.
* Headless job: weak fairness of the main thread and of the watcher.
* Controller and window: weak fairness of the worker and of the delivery to the
  window; none for the operator, and none for a dialog.
* Transports: weak fairness of the worker's calls, which end at the latest by their
  timeout (`Proceed \/ GiveUp`), and of the GUI thread's `clear()`; none for the
  instrument. The read loops of USBTMC and VISA have a timeout per transfer and none
  over all; that a response has finitely many parts is an assumption.
* Instruments: weak fairness of the discovery thread, whose probes have timeouts,
  and of the delivery to the dock.
* Analyzer: weak fairness of the instrument alone, the driver may stop at any time;
  only safety is checked. EMI receiver, scan, plugins and documents: no fairness.

### Finding

1. `StopCommandsSent` (`RunController.cpp:23`): disconnecting or closing the
   window during a run resets `m_transport`, and the stop commands of that run
   find nothing to go to, against FR-RUN-9.

## 4. The proofs

The theorems about the engine and the runner hold for every value of the constants
that satisfies the two assumptions of MeasurementEngine: `LevelsAssumption` (levels are integers) and
`ConfigAssumption` (passes and segments are positive, retries, commands and
runs natural numbers). `RunConfiguration::validate()` justifies the former two.

`EngineProofs`, about the engine on its own:

* `TypeCorrect`, `WorkerInvariant`. `TypeOK` alone is not inductive: `pass` and
  `attempt` keep their ranges because of where the worker is, so it is proved
  together with `CounterBounds`. `WorkerInv` then relates the reported phase,
  `running`, the debt and the outcome to the worker's position; each of them is
  needed to know what the next step will report.
* `EngineImplementsLifecycle`: `Spec => Lifecycle!Spec`, step by step under
  `WorkerInv`, with `resumePhase` as the phase a paused run returns to.
* `SessionKeepsWorstCase`: by `MergeKeepsWorst`, a lemma about the merge of one
  point into a session of any length.
* `AutosaveIsCrashSafe`: strengthened by the fact that a file of the current run
  is there only if the run began (`SavedRunStarted`).
* `SavesOnlyAdd`: from `SessionCoversDisk`, that the session is at least as bad,
  at every frequency, as the file.
* `FinishedRunIsComplete`: from `CompleteInv`, which accounts for every flagged
  peak as verified, pending, or skipped by an outcome other than Finished.
* `AbortsArePrompt`: from `AbortInv`, that a late sweep is one whose check is over.

Inside a job, `EngineProofs` first shows that every step of the job is a step of the
engine or leaves it alone (`JobStepsEngine`), so that the engine's invariants
hold inside the job, then proves `EngineLivesLongEnough` (from `LockInv`: who
holds `m_engineMutex` is who is in the call), `CancelledJobHasNoVerdict` and
`VerdictsAreEarned` (from `CodeInv`).

`PeakScanProofs` is about a whole pass, for every table of bands whose bandwidths are
positive (`BandsAssumption`) and every configuration, instrument and finite set of
emissions in numbers (the assumptions named in section 2). It has four parts.

* Data. Sequences are folded (corrections are summed, traces joined, candidates
  kept one after the other) and sets sorted. What a fold does is what the steps of a
  function on `0..n` do (`FoldSteps`, from `Recursion` and `FoldExists`), and what holds after
  every number of steps is shown with the set of the numbers it holds for: a set that
  has 0 and with each number the next has all (`SetInduction`, from
  `SmallestExists`, the library's theorem on well-founded relations). `RankedIsSorted` and
  `AscendingIsSorted` say what sorting gives. The same lemmas begin `PluginsProofs`; they
  are repeated so that each module can be read and checked by itself.
* The plan. `MaximumWidthIsPositive` keeps it from dividing by zero; `Division` bounds
  quotient and remainder; `PartsTile` shows that the parts begin where the previous one
  ended and that the last one ends with the span. `PlanIsSound` combines them for
  every valid configuration; `PlanInvariant` carries it through a pass to
  `ScanCoversSpan` (`SegmentsTile`) and `SegmentsKeepBudget` (`SegmentsNarrow`).
* The operators. `SweepCovers`: every frequency of a resolving sweep's
  span lies between two samples no further apart than the bandwidth. `HeadsKeepWorst` and
  `StitchKeepsWorst`: of samples in a row at one frequency the head has the highest
  reading, and the stitched trace is these heads. `MarginIs`: a margin is the smallest over
  the limits that cover a frequency. `StandingOut`: `detectPeaks()` flags the
  samples that `StandsOut` describes without valleys and walks. `AllCandidatesConsidered` and
  `PeaksDetected`: each candidate, in the order of its rank, is kept, or is too
  close to one kept before it, or found the cap reached.
* The pass. `PassInv` is the inductive invariant: everything given is in numbers; the
  sweeps so far are those of the plan, each as coerced and accepted (`Swept`); once
  the scan is analysed, what was measured and what is left are together its
  peaks in their order (`Analysed`). The properties say nothing of where a
  result comes from, so none of them is inductive. From `PassInv` follow
  `ScanIsWhole` (`ScanKeepsWorst`); `EmissionsAreFlagged`
  (`CriticalEmissionsFlagged`), by `EmissionsAreSeen` and `PeaksFlagged`; and
  `ExceedancesAreMeasured` (`ExceedanceMeasured`). The last one is the longest
  argument: `DwellReads` shows that a dwell has a sample at its peak, or near enough to read
  what the scan read there, also where it is cut by the instrument's range
  (`DwellsSeePeaks`); `EmissionIsHill` shows that the samples within half a bandwidth
  of an emission clear of the others are a hill, and `HillStandsOut` that the first of
  its highest stands out; so it is critical, and either it is measured or a more
  critical peak beside it or before it is (`CriticalIsMeasured`), whose margin is then
  negative too, and stays so for the level the dwell reads (`HigherFails`).

Attempts at these proofs failed where an earlier form of a property promised too much.
The run `scan` has a configuration for each of the four, with which TLC finds it, and the
properties now say:

* with a prominence of zero a peak needs no hollow beside it and may stand at the end of
  the trace (`StandsOut`);
* a trace of one or two samples has no peaks (`critical` asks for more);
* a dwell with a bandwidth narrower than the scan's, cut at the end of the instrument's
  range, does not see an emission beyond it that the scan saw (`DwellReaches`);
* an emission above its limits may not rise out of the noise, as corrected, by the
  prominence, or not be above the floor, and with a negative critical margin a peak just
  above a limit is not flagged (`Emerges`, and `threshold >= 0` in `ExceedanceFails`).

`PluginsProofs` is about any finite set of files, contents and identities, any scripts and
built-in drivers (`PluginAssumption`), and any number of edits, restarts and scans. A scan is a fold over the
files in the order of the listing: `FilesAreAdded` and `ScanAdds` say that it only adds
registrations, each of a loaded file and with its content, and at least one under every name
such a file registers. `RegisteredReplaces` and `PublishLists` follow the entries of
the registry, which replace each other by name. `BestMatchIsDefinite` shows, from what a
stable sort by score gives (`MatchIsSorted`), that `createBestMatch()` returns the only
driver that names the model, or the only one with the strongest claim, or none.
`PluginsInv` is the inductive invariant: types; what the trust store lists, in memory and on
disk, was approved and not revoked; what is loaded is offered; and the driver chosen
for an instrument that was asked is the best match in the registry as it stands. With
approvals in memory alone it would not be inductive: the next start reads the file. The theorems are
`OnlyApprovedIsImported` (`ImportsAreApproved`, an action property), `LoadedStaysOffered`
(`LoadedIsOffered`) and `ChoiceStaysDefinite` (`ChoiceIsDefinite`).

`WindowProofs` is about the controller inside the window, `WindowSpec`, for any number
of connections, starts, passes, edits, files, levels and instruments
(`BoundsAssumption`, `FilesAssumption`). `WindowIsTyped` shows that the window only
hands on configurations an instrument may be given, so that each of its steps
is one of the controller's or none (`WindowSteps`). The rest follows from the order
of what is queued. `Orderly` says that before an Open is delivered everything open
will have been closed, that between two Opens the first is closed, and that
whatever is or will be opened and not closed is the current connection; `Queue` and
`Unqueue` are the two lemmas by which any event may be added behind and taken
from the front. With `Running => driver # 0` this is inductive (`ConnectionInv`) and
gives `OneConnectionIsOpen`, `EngineFollows` and `CommandsStay`, whereas the
three properties alone say nothing of what is queued. `StartsConfigured`, that
a Start comes right behind its Configure, or first with that configuration in
force, gives `RunMeasuresWhatWasAsked`. For the document the order of the signals
counts: when no run is on, the points under way have a report behind them
(`PointsReported`), so that where no report is left either, no point can arrive
any more (`InboxArrives`). `TableInv` says what holds from there on, in every state
and not only at rest: the table is the session's, and the session is marked or
stored. It gives `TableSettles` and `LeavingLosesNothing`.

`AnalyzerProofs` holds for any set of targets and any number of connections,
abandoned queries and commands under way (`TargetsAssumption` and
`BoundsAssumption` of ScpiAnalyzerDriver are not even needed). `QuietInv` determines
what is on the line from where the driver stands: nothing, or one query as the last
command (`Asking`), or its answer alone, or nothing because it was cleared; and
what the instrument has still to do before the sweep of the target is displayed
(`Sweeping`, `Fetching`). It needs `InstrumentInv`: an instrument that was connected
sweeps on its own only until it executes the first command, or a trigger would be
ignored. `Executed` and `Answered` say how one step of the instrument moves it along.
The theorems are `TraceBelongsToSweep` and `LineFallsQuiet`.

`FscanProofs` is about the receivers' driver, for any number of ranges, points and
connections, any lag of the instrument, any backlog and any number of reads of the
drain, which may be too few for it (ranges and points are told apart). Its invariant has one layer
per thing that the next one needs to know:

* `QuietInv` says where, as long as no answer was given up or left by the drain, there
  is none on the line (outside a query) or at most one (within).
* `ReadyInv`: once anything was answered the change of personality is over, so that
  no command is lost to it any more, whatever is dropped before.
* `ScanInv` follows the two commands of a scan on the wire, until the scan was
  begun with the range in force (`ScanPending`, `ScanTaken`), and gives
  `ScanOfItsRange`. It does not ask how many answers the drain left, only that
  none of them is a number (`NumericLeft`): then the first number read is the answer to
  the trace query, which comes behind the scan. `MeterInv` does the same for the
  point of a dwell and the reset of its peak hold, and `ReadingInv` for the query of
  the hold, which must come behind the reset; they give `ReadingOfItsPoint`.

The lemmas `OrderPut` and `OrderTaken` say once what adding commands to the wire and
taking the first, or dropping it, leaves of each of these orders.

`InstrumentsProofs` is about the dock's list, for any finite sets of endpoints and
devices, any threads in the pool, any sweeps and changes of the bus. A list is
`Sound` if every row numbers an instrument of its address and category;
`AddedIsSound` and `RemovedIsSound` say that adding and removing any set of
addresses keeps it so, and what each category lists afterwards. With them
`RescanLists` gives `RowsOfBus` and the soundness gives `SelectedConnected`.
`FoundFirst` (`FoundBeforeFinished`) compares a count with rows and signals, and is
not inductive: a row may be of two sweeps. The invariant has the set behind
the count (`Counts`): there are so many endpoints, none of them waiting or
being probed, each of which is listed or announced by a signal on its way, and
these signals come before the one that carries the count. `CountsGrow`,
`CountsDelivered` and `CountsOneMore` say what sending, delivering and finding
do to it. It rests on rows of endpoints never being removed, which is where
`EndpointsAssumption` is used.

`TransportsProofs` is about all five transports, for responses of any number of parts
and any number of connections, queries, clears and reads behind no query. The kinds share the state and differ
in what makes them right, and so the invariant has one part for each.

* A line (`LineInv`): what was received and not yet cut, with what has arrived behind
  it, is one `Stream` in which every part is followed by the rest of its response, and the
  last by a first (`Chained`). Cutting any beginning off keeps it so (`ChainedLeft`), as
  does a response that is added behind (`ChainedMore`); what is cut at the first
  terminator is a response, or the end of one whose beginning was cleared
  (`ChainedCut`). Nothing ties the stream to the query written last, and no theorem
  claims that.
* A session (`SessionInv`): the output queue holds what is missing of the response
  to the last query, or nothing.
* Numbered calls (`CallInv`): the answer that is waited for is the only one under way with
  its number. `Pending` says so of a call not yet executed: it is the last transfer on
  its way, and everything before it has a smaller number, answered or not. From there
  `Commanded`, `Requested` and `Given` follow a part through the USB device or the
  instrument, and `Ready` says what the instrument has once a command was executed. For all of
  this the next number must be a new one: the observer `spent` rises when the last
  number is given out, and what is said of numbered calls is said until then
  (`Numbered`).

The theorems are `WholeResponse` (`ResponseIsWhole`) and `ResponseOfItsQuery`
(`ResponseIsOfItsQuery`). Over VXI-11 and USB they have the hypothesis `~spent`. For a
transaction id of 32 bits that is no restriction. A USB tag comes around after 255
transfers, and what happens then depends on how long a leftover lives, which the code leaves to the
device; beyond that point only the run `transports` speaks of it, with numbers that
come around after six. Over lines and sessions the theorem has no hypothesis.

Only model-checked: all liveness (`AbortEndsRun`, `RunEnds`, `JobEnds`,
`GivenUpIsClosed`, `EditingReturns`, `OperationEnds`, `ButtonComesBack`), which is
out of the prover's reach; the documents (`SavedSessionReturns`, `DamageStaysLocal`,
`ReportIsWhole`), whose content is the list of a session's fields, one conversion each
way, and which a run tries field by field; the finding; and numbered calls whose numbers
have come around.

## 5. What is not modelled

* Values: amplitudes as floating-point numbers, unit conversion, the text of
  commands, the bytes of headers and of documents.
* Torn reads. `requestAbort()` reads `m_driver` while `setDriver()` may assign it,
  and `abort()` clears a transport's buffer while a read uses it: both are data
  races on objects that are not atomic, and the models serialise them.
* In the drivers' models, a connection that drops by itself (it shows as writes that
  fail and reads that are given up) and a reply in pieces; both are in Transports.
* Capability refusals of `configureSweep()` (they change nothing), the adoption of
  a model's profile in `identify()` (it changes limits and spellings), the profile
  tables, and `lastErrors()` and `readBinaryBlock()`, which nothing calls.
* The proxy of a loaded Python plugin and the bindings: conversions under the
  interpreter's lock. Opening a plugin and measuring with it is a driver like another.
* The simulated driver's spectra; plots; menus and the texts of dialogs; the
  command line's parser, which keeps no state and whose outcomes are the free
  choices of HeadlessRunner; logging.

## 6. Observations

What the properties had to except, or say with care.

Engine and runner:

* A cancellation between the check of `m_abortRequested` (`HeadlessRunner.cpp:462`)
  and the stores at the beginning of `start()` is wiped out, and the job measures to
  its end. The exit code still says Aborted, which `CancelledNeverPasses` covers.
* The trace of a pass that flagged no peak is saved by a later checkpoint or
  exit; if the next pass's scan fails, the file lacks it (`MeasurementEngine.cpp:399`).

Scan:

* A span beyond the instrument's range is cut without a word as long as no whole
  segment lies beyond (`Capabilities.cpp:105`), where FR-HAL-3 has the configuration
  rejected; what it refuses is refused by `validate()`.
* `detectPeaks()` gives the first and the last sample of a scan prominence 0: an
  emission at the very end of the span is flagged only if no prominence is asked for. `ExceedanceFails`
  asks for emissions clear of the ends.
* Of a plateau, the first sample is the peak.
* Of two peaks too close to each other the more critical one is kept, where the
  comment in `PeakDetector.h:32` says the stronger one; FR-RUN-2 has it as the code does.
* With the default dwell of 200 kHz at 101 points, the samples in band A are
  2 kHz apart at a bandwidth of 200 Hz: the dwell sees its peak with the sample
  in the middle, and a span that is cut at the instrument's end moves that
  sample off the peak. `DwellSeesPeak` asks for dwells that resolve.
* The last segment takes the remainder of the division: a width of 29 in segments of at
  most 10 gives 9, 9 and 11. `SegmentsNarrow` bounds the excess.
* The plan uses the bandwidth mandated at the centre of the whole span, each sweep
  the one mandated at the centre of its segment (`RunConfiguration.cpp:50`), so that a
  segment in a lower band steps over what lies between its samples: 150 kHz to
  100 MHz at 401 points becomes three segments, the first swept at 9 kHz in steps of
  83 kHz, against the comment at lines 52-53. `coerce()` adds to it by lowering
  the points to what the instrument can do after the plan was made. `EmissionsSeen` and
  `ExceedanceFails` are therefore stated for sweeps that resolve what they sweep.

Drivers:

* The answer to an earlier query that was given up counts as the answer to `*OPC?`
  (`ScpiAnalyzerDriver.cpp:235`), so that `armAndTrigger()` returns while its sweep is
  under way, and a trace query may read "1", which parses as a trace of one point.
  `TraceIsOfItsSweep` is stated for connections on which nothing was given up, which
  includes any number of aborts, refused commands and half-sent configurations, as
  well as a new connection after a bad one.
* The drain after a wait is bounded at 64 reads (`UnitrendFscanDriver.cpp:237`), "one read per
  probe that could have gone unanswered, plus a margin" as lines 256-257 say. A scan is
  waited for at least five minutes (lines 452-454) with a probe every 900 ms, so that up to
  333 probes may go unanswered: after a scan of a minute the bound can be reached with
  answers left, the wait reports success, and the trace query reads a probe's answer.
  It is refused as a trace (`ScanIsOfItsRange` holds), so the sweep fails and is retried.
  `open()` waits for 20 s, for which 64 reads are enough.
* After a wait that was abandoned the EMI receiver goes on scanning, and the next
  configuration is sent into it and discarded (`UnitrendFscanDriver.cpp:294`).
  `ScanIsOfItsRange` and `ReadingIsOfItsPoint` except targets configured while
  a scan is under way (`deserted`), the scan also a reading that was still unanswered when
  the drain ended (`stale`), whose number would pass for a trace, and the reading, which
  drains nothing, a line on which an answer was given up or left by a drain (`dirty`).

Transports:

* After a call that timed out, VXI-11 and USBTMC may stay one reply behind: each
  further call refuses the reply of the one before. VXI-11 catches up only when
  a late reply is read together with the next one; its `clear()` does not help, being
  such a call itself, where `ITransport.h:82` has it discard what is pending. The
  drain of the EMI receivers' driver reads behind no query, and each such read that
  times out adds a request to those that are answered late.
* Tags start again when a USBTMC interface is reopened, and a transfer left over
  from before may carry the tag that is expected; `Renumbered` excepts it.
* `abort()` calls `clear()` on the GUI thread: over VXI-11 it takes socket and
  transaction number from under the worker's call; on a line it can cut the beginning
  off a response, which the driver then parses.

Window:

* A `connectionChanged(true)` that was queued before a disconnect is delivered after
  it: the window then shows a connection that is gone, until the next connect.
* A new or opened session during a run receives the rest of that run's traces and,
  at its end, its results. A save in the middle makes the session clean without the
  points that were measured so far, and clears nothing else; the end of the run
  marks it dirty again, which is why `CleanLosesNothing` speaks of a window at rest.
* Start pressed twice before the first phase arrives begins two runs, whose points
  share a table and an autosave file.
* Export in the middle of a run takes the table, which holds the levels of the last
  pass, into the session; the end of the run puts the worst ones back.
* FR-RUN-6 (`docs/requirements.md:242`) wants a stored session to be rerun with its
  configuration: the dock keeps limits checked that the file does not list, and
  resets settings it has no widget for, so the next run differs from the stored one.
* `openSession()` asks about unsaved changes, then shows its file dialog, then loads: a
  run that ends while the dialog is open is not asked about.

Instruments and plugins:

* A USB device whose strings become readable under the same address, or one of two
  devices of one address, is struck from the list although it is there (`hidden`).
* A failed listing ends the watch, also the hotplug one, until the next start; the
  constructor starts the timer even if its first listing failed.
* An abort before a queued sweep begins is lost, and two presses queue two sweeps.
* A driver that was revoked or whose file changed stays registered until the next
  start of the program; approving a plugin imports it even if the store was not saved.
* A plugin cannot name exactly a model whose name has a character that is special in
  a regular expression; its claim then counts as one on a family.

Documents:

* A reading that parses as "nan" or "inf" is stored as null: a trace with one is
  refused when the session is opened, a point's level comes back as zero (`Lossy`).
* A text that is not UTF-8 (a raw `*IDN?`, a CSV file in Latin-1) makes the JSON
  library throw on save, an autosave included, and nobody catches it.
* A template with `"schema": null` throws in the constructor of the window, at every
  start; a session file throws when it is opened if its `schema` or
  `schema_version` has another type, which `SessionSerializer.cpp:42` and 46 read with `value()`, or
  a frequency of a stitched trace (`JsonConversions.cpp:302`). Nothing catches it
  (`MainWindow.cpp:748`), and the program ends, where NFR-REL-1 (`docs/requirements.md:312`) has failures
  degrade to a dialog. `DamageStaysLocal` says that no other value that is damaged does
  this (`ReadUnguarded`).
* One element of `start_commands` or `stop_commands` that is no text drops the whole list
  (`JsonConversions.cpp:445`), so that a device under test is no longer switched; `LostValue`
  names the list as the value that is lost.
* A correction table in JSON without points is accepted and corrects nothing, where
  the CSV reader refuses it. A damaged limit amplitude or correction is read as zero,
  a damaged verdict as unknown: a Fail may vanish from the overall verdict, which is the
  damaged value itself and not one beside it.
* The CSV and JSON exports name the instrument of the first result only. A paragraph
  longer than a page is cut; a table's header is not repeated on its next page.

## 7. Plan

Done: the engine and its lifecycle, the headless runner, the controller and the window,
transports, both SCPI drivers, planning and peak analysis, plugins and the driver
registry, discovery, storage, imports and reports; proofs of every safety property the
runs check but those of the documents.

Next:

1. An abstract driver ("a trace is of the sweep last configured, or the call
   fails") that both SCPI drivers implement when nothing is given up, and that the
   engine's driver actions assume.
2. The command line as operators over argument lists, if its rules grow.

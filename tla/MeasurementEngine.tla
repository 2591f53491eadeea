-------------------------- MODULE MeasurementEngine --------------------------
(***************************************************************************)
(* The measurement engine (src/core/engine/MeasurementEngine.cpp): one     *)
(* worker thread runs start() from its event queue, one other thread calls *)
(* requestPause(), requestResume(), requestAbort() at any moment, and the  *)
(* driver it sweeps with may answer, fail, or report that it was           *)
(* cancelled.                                                              *)
(*                                                                         *)
(* The granularity is that of the shared state: every store to an atomic,  *)
(* the cancel token or the driver's own flag is a step of its own, and so  *)
(* is every call into the driver, the command sender or the autosave file. *)
(* Frequencies are opaque, amplitudes are integers, and which peaks a scan *)
(* flags is left open (PeakDetector decides it).  The process may be       *)
(* killed in any state, so what an invariant says of "disk" is what a      *)
(* restart finds.                                                          *)
(*                                                                         *)
(* A definition introduced by "Mutant" is not the code's: it is a slip the *)
(* definition after it might suffer, which a property below must notice.   *)
(***************************************************************************)
EXTENDS Integers, Sequences

CONSTANTS
  Freqs,          \* frequencies at which a scan can flag a peak
  Levels,         \* corrected amplitudes a dwell can measure
  Passes,         \* RunConfiguration::passes
  Segments,       \* how many segments planSegments() yields
  MaxRetries,     \* RunConfiguration::maxRetries
  StartCommands,  \* how many start commands the configuration carries
  StopCommands,   \* how many stop commands
  MaxRuns         \* bound: how many runs are admitted

ASSUME LevelsAssumption == Levels \subseteq Int
ASSUME ConfigAssumption ==
  /\ Passes \in Nat \ {0} /\ Segments \in Nat \ {0}
  /\ MaxRetries \in Nat /\ StartCommands \in Nat /\ StopCommands \in Nat
  /\ MaxRuns \in Nat

VARIABLES
  \* Shared between the threads.
  running, abortRequested, pauseRequested, phase,
  cancelled,       \* the cancel token handed to the driver
  driverAborted,   \* the driver's own m_abortRequested
  mutex,           \* holder of m_pauseMutex: "free" or "worker"
  \* The worker: where start() stands, and its locals.
  pc, stage, pass, segment, attempt, sent, resumePhase, pending, outcome,
  configured,      \* setConfiguration() left a configuration that validates
  connected,       \* setDriver() left a driver
  \* The session of the current run, and the last one saved.
  results, traces, disk, saved,
  \* The thread that controls the run.
  ctl,
  \* Observers of the current run; no action reads them.
  runs, debt, measured, flagged, late

flags == <<running, abortRequested, pauseRequested, cancelled, driverAborted>>
shared == <<flags, mutex>>
setup == <<configured, connected>>
session == <<results, traces, measured, flagged>>
storage == <<disk, saved>>
place == <<stage, pass, segment>>
position == <<place, attempt, resumePhase, pending>>
loop == <<position, sent, outcome>>
history == <<runs, debt, late>>
\* What most of the worker's steps have no business with.
quiet == <<setup, session, storage, ctl, history>>
worker == <<phase, loop, setup, session, storage>>
vars == <<shared, pc, worker, ctl, history>>

Lifecycle == INSTANCE RunLifecycle WITH left <- resumePhase

Point == [freq : Freqs, level : Levels, pass : 1..Passes]

-----------------------------------------------------------------------------
(* The merge of a verified point into the session (multi-pass max hold).   *)

\* Mutant: the lookup of the stored point is lost.
MergeAppends(rs, p) == Append(rs, p)

Merge(rs, p) ==
  IF \E i \in 1..Len(rs) : rs[i].freq = p.freq
  THEN [i \in 1..Len(rs) |->
         IF rs[i].freq = p.freq /\ p.level > rs[i].level THEN p ELSE rs[i]]
  ELSE Append(rs, p)

\* rs keeps the worst case of the points S: one entry per frequency, each of
\* them a point that was measured, none of them below another at its frequency.
KeepsWorst(rs, S) ==
  /\ \A i \in 1..Len(rs) : rs[i] \in S
  /\ \A i, j \in 1..Len(rs) : rs[i].freq = rs[j].freq => i = j
  /\ \A p \in S : \E i \in 1..Len(rs) :
       rs[i].freq = p.freq /\ rs[i].level >= p.level

-----------------------------------------------------------------------------
Init ==
  /\ running = FALSE /\ abortRequested = FALSE /\ pauseRequested = FALSE
  /\ cancelled = FALSE /\ driverAborted = FALSE /\ mutex = "free"
  /\ phase = "Idle" /\ pc = "idle" /\ ctl = "idle"
  /\ stage = "scan" /\ pass = 0 /\ segment = 1 /\ attempt = 0 /\ sent = 0
  /\ resumePhase = "Idle" /\ pending = {} /\ outcome = "Failed"
  /\ configured = FALSE /\ connected = FALSE
  /\ results = <<>> /\ traces = 0 /\ measured = {} /\ flagged = {}
  /\ disk = [run |-> 0, results |-> <<>>, traces |-> 0] /\ saved = TRUE
  /\ runs = 0 /\ debt = "closed" /\ late = 0

-----------------------------------------------------------------------------
(* Events the worker's queue delivers between runs.                        *)

SetConfiguration(valid) ==
  /\ pc = "idle"
  /\ configured' = valid /\ phase' = "Configured"
  /\ UNCHANGED <<shared, pc, loop, connected, session, storage, ctl, history>>

\* setDriver(driver) once it is open, setDriver(nullptr) once it is closed.
\* A driver that was just opened has its abort flag down.
SetDriver(present) ==
  /\ pc = "idle"
  /\ connected' = present
  /\ driverAborted' = IF present THEN FALSE ELSE driverAborted
  /\ UNCHANGED <<running, abortRequested, pauseRequested, cancelled, mutex,
                 phase, pc, loop, configured, session, storage, ctl, history>>

-----------------------------------------------------------------------------
(* start(): admission.                                                     *)

Start ==
  /\ pc = "idle" /\ runs < MaxRuns
  /\ running' = TRUE /\ debt' = "clear" /\ pc' = "clearAbort"
  /\ UNCHANGED <<abortRequested, pauseRequested, cancelled, driverAborted,
                 mutex, worker, ctl, runs, late>>

ClearAbort ==
  /\ pc = "clearAbort"
  /\ abortRequested' = FALSE /\ late' = 0 /\ pc' = "clearPause"
  /\ UNCHANGED <<running, pauseRequested, cancelled, driverAborted, mutex,
                 worker, ctl, runs, debt>>

ClearPause ==
  /\ pc = "clearPause"
  /\ pauseRequested' = FALSE /\ pc' = "resetCancel"
  /\ UNCHANGED <<running, abortRequested, cancelled, driverAborted, mutex,
                 phase, loop, quiet>>

ResetCancel ==
  /\ pc = "resetCancel"
  /\ cancelled' = FALSE /\ pc' = "admit"
  /\ UNCHANGED <<running, abortRequested, pauseRequested, driverAborted, mutex,
                 phase, loop, quiet>>

\* No driver, or a configuration that does not validate: runFailed is emitted,
\* runFinished is not, and no command has gone out.
RefuseRun ==
  /\ pc = "admit" /\ ~(connected /\ configured)
  /\ phase' = "Failed" /\ debt' = "closed" /\ pc' = "leave"
  /\ UNCHANGED <<shared, loop, setup, session, storage, ctl, runs, late>>

AdmitRun ==
  /\ pc = "admit" /\ connected /\ configured
  /\ runs' = runs + 1
  /\ results' = <<>> /\ traces' = 0 /\ measured' = {} /\ flagged' = {}
  /\ saved' = TRUE /\ debt' = "owed" /\ pc' = "startCommands"
  /\ UNCHANGED <<shared, phase, loop, setup, disk, ctl, late>>

-----------------------------------------------------------------------------
(* The ways a run is stopped: an autosave inside the dwell loop, the stop  *)
(* commands always.                                                        *)

\* Mutant: an exit that forgets the stop commands.
EndRunSwitched(result) ==
  outcome' = result /\ sent' = 0 /\ pc' = IF stage = "dwell" THEN "save" ELSE "report"

\* Mutant: an exit of the dwell loop that falls through to the normal end.
EndRunByBreak(result) ==
  /\ outcome' = IF stage = "dwell" THEN "Finished" ELSE result
  /\ sent' = 0 /\ pc' = IF stage = "dwell" THEN "save" ELSE "stopCommands"

EndRun(result) ==
  /\ outcome' = result /\ sent' = 0
  /\ pc' = IF stage = "dwell" THEN "save" ELSE "stopCommands"

\* sendCommands() ends at the first command the sender refuses.
SendStartCommand(ok) ==
  /\ pc = "startCommands" /\ sent < StartCommands
  /\ IF ok
     THEN sent' = sent + 1 /\ UNCHANGED <<pc, outcome>>
     ELSE sent' = 0 /\ pc' = "stopCommands" /\ outcome' = "Failed"
  /\ UNCHANGED <<shared, phase, position, quiet>>

SendStopCommand(ok) ==
  /\ pc = "stopCommands" /\ sent < StopCommands
  /\ sent' = IF ok THEN sent + 1 ELSE StopCommands
  /\ UNCHANGED <<shared, phase, pc, position, outcome, quiet>>

StopCommandsDone ==
  /\ pc = "stopCommands" /\ sent = StopCommands
  /\ debt' = "paid" /\ pc' = "report"
  /\ UNCHANGED <<shared, worker, ctl, runs, late>>

\* runFailed if the run failed, runFinished always, then the phase.
ReportEnd ==
  /\ pc = "report"
  /\ phase' = outcome /\ debt' = "closed" /\ pc' = "leave"
  /\ UNCHANGED <<shared, loop, setup, session, storage, ctl, runs, late>>

\* m_running falls last, and the locals of start() go with it.
Leave ==
  /\ pc = "leave"
  /\ running' = FALSE /\ pc' = "idle"
  /\ stage' = "scan" /\ pass' = 0 /\ segment' = 1 /\ attempt' = 0 /\ sent' = 0
  /\ pending' = {} /\ outcome' = "Failed"
  /\ UNCHANGED <<abortRequested, pauseRequested, cancelled, driverAborted,
                 mutex, phase, resumePhase, quiet>>

-----------------------------------------------------------------------------
(* The passes.                                                             *)

BeginPass ==
  /\ \/ pc = "startCommands" /\ sent = StartCommands
     \/ pc = "nextPass"
  /\ pass < Passes
  /\ pass' = pass + 1 /\ stage' = "scan" /\ segment' = 1
  /\ phase' = "Phase1Sweep" /\ pc' = "gate"
  /\ UNCHANGED <<shared, attempt, resumePhase, pending, sent, outcome, quiet>>

AllPassesDone ==
  /\ pc = "nextPass" /\ pass = Passes
  /\ outcome' = "Finished" /\ sent' = 0 /\ pc' = "save"
  /\ UNCHANGED <<shared, phase, position, quiet>>

-----------------------------------------------------------------------------
(* waitWhilePaused().  The reads of the two flags are one step: a pause    *)
(* stored between them is one that came after the gate.                    *)

GateStops ==
  /\ pc \in {"gate", "woken"} /\ abortRequested /\ EndRun("Aborted")
  /\ UNCHANGED <<shared, phase, position, quiet>>

GatePasses ==
  /\ pc = "gate" /\ ~abortRequested /\ ~pauseRequested
  /\ pc' = "prepare"
  /\ UNCHANGED <<shared, phase, loop, quiet>>

GatePauses ==
  /\ pc = "gate" /\ ~abortRequested /\ pauseRequested
  /\ resumePhase' = phase /\ phase' = "Paused" /\ pc' = "lock"
  /\ UNCHANGED <<shared, place, attempt, pending, sent, outcome, quiet>>

\* The predicate of the wait.  Mutant: the abort is left out of it.
Unpaused == ~pauseRequested
MayGoOn == ~pauseRequested \/ abortRequested

LockForWait ==
  /\ pc = "lock" /\ mutex = "free"
  /\ mutex' = "worker" /\ pc' = "test"
  /\ UNCHANGED <<flags, phase, loop, quiet>>

\* The predicate holds: the wait returns and the lock is released.
WaitReturns ==
  /\ pc = "test" /\ MayGoOn
  /\ mutex' = "free" /\ pc' = "woken"
  /\ UNCHANGED <<flags, phase, loop, quiet>>

\* It does not, and the worker is about to block, still holding the lock.
WaitBlocks ==
  /\ pc = "test" /\ ~MayGoOn
  /\ pc' = "block"
  /\ UNCHANGED <<shared, phase, loop, quiet>>

\* Blocking and releasing the lock are one step of the condition variable.
Sleep ==
  /\ pc = "block"
  /\ mutex' = "free" /\ pc' = "asleep"
  /\ UNCHANGED <<flags, phase, loop, quiet>>

WakeSpuriously ==
  /\ pc = "asleep"
  /\ pc' = "lock"
  /\ UNCHANGED <<shared, phase, loop, quiet>>

ResumePhase ==
  /\ pc = "woken" /\ ~abortRequested
  /\ phase' = resumePhase /\ pc' = "prepare"
  /\ UNCHANGED <<shared, loop, quiet>>

-----------------------------------------------------------------------------
(* acquireSegment(), for a scan segment or for a dwell.                    *)

\* The capabilities accept the coerced parameters, or the run fails.
Prepare(accepted) ==
  /\ pc = "prepare"
  /\ attempt' = 0
  /\ IF accepted THEN pc' = "attempt" /\ UNCHANGED <<sent, outcome>>
                 ELSE EndRun("Failed")
  /\ UNCHANGED <<shared, phase, place, resumePhase, pending, quiet>>

AttemptsLeft == attempt <= MaxRetries

AttemptStops ==
  /\ pc = "attempt"
  /\ \/ ~AttemptsLeft /\ EndRun("Failed")
     \/ AttemptsLeft /\ abortRequested /\ EndRun("Aborted")
  /\ UNCHANGED <<shared, phase, position, quiet>>

AttemptBegins ==
  /\ pc = "attempt" /\ AttemptsLeft /\ ~abortRequested
  /\ pc' = "configure"
  /\ UNCHANGED <<shared, phase, loop, quiet>>

\* Mutant: the counter is not advanced.
RetryForever == pc' = "attempt" /\ UNCHANGED attempt
Retry == attempt' = attempt + 1 /\ pc' = "attempt"

\* configureSweep() takes no token, so it is never cancelled.
ConfigureSweep(ok) ==
  /\ pc = "configure"
  /\ late' = IF abortRequested THEN late + 1 ELSE late
  /\ IF ok THEN pc' = "arm" /\ UNCHANGED attempt
           ELSE Retry
  /\ UNCHANGED <<shared, phase, place, resumePhase, pending, sent, outcome,
                 setup, session, storage, ctl, runs, debt>>

\* Every driver's armAndTrigger() begins by taking its abort flag down, so an
\* abort it was given just before is forgotten; the token is not.
Arm ==
  /\ pc = "arm"
  /\ driverAborted' = FALSE /\ pc' = "sweep"
  /\ UNCHANGED <<running, abortRequested, pauseRequested, cancelled, mutex,
                 phase, loop, quiet>>

CallFails ==
  /\ pc \in {"sweep", "fetch"} /\ Retry
  /\ UNCHANGED <<shared, phase, place, resumePhase, pending, sent, outcome,
                 quiet>>

\* A driver looks at its flag and at the token when it gets round to it.
CallCancelled ==
  /\ pc \in {"sweep", "fetch"}
  /\ cancelled \/ driverAborted
  /\ EndRun("Aborted")
  /\ UNCHANGED <<shared, phase, position, quiet>>

SweepCompletes ==
  /\ pc = "sweep"
  /\ pc' = "fetch"
  /\ UNCHANGED <<shared, phase, loop, quiet>>

-----------------------------------------------------------------------------
(* What becomes of a fetched trace.                                        *)

SegmentFetched ==
  /\ pc = "fetch" /\ stage = "scan"
  /\ IF segment < Segments
     THEN segment' = segment + 1 /\ pc' = "gate"
     ELSE pc' = "analyse" /\ UNCHANGED segment
  /\ UNCHANGED <<shared, phase, stage, pass, attempt, resumePhase, pending,
                 sent, outcome, quiet>>

\* The stitched trace joins the session and the peaks are flagged; a pass
\* without any ends here.
AnalysePeaks(peaks) ==
  /\ pc = "analyse"
  /\ traces' = traces + 1 /\ phase' = "PeakAnalysis" /\ pending' = peaks
  /\ flagged' = flagged \cup {<<pass, f>> : f \in peaks}
  /\ pc' = IF peaks = {} THEN "nextPass" ELSE "dwell"
  /\ UNCHANGED <<shared, place, attempt, resumePhase, sent, outcome, setup,
                 results, measured, storage, ctl, history>>

BeginDwell ==
  /\ pc = "dwell"
  /\ phase' = "Phase2Dwell" /\ stage' = "dwell" /\ pc' = "gate"
  /\ UNCHANGED <<shared, pass, segment, attempt, resumePhase, pending, sent,
                 outcome, quiet>>

\* verifyPeak() succeeded: the point is merged into the session and announced.
PointVerified(f, level) ==
  /\ pc = "fetch" /\ stage = "dwell" /\ f \in pending
  /\ LET point == [freq |-> f, level |-> level, pass |-> pass]
     IN  /\ results' = Merge(results, point)
         /\ measured' = measured \cup {point}
  /\ pending' = pending \ {f} /\ pc' = "checkpoint"
  /\ UNCHANGED <<shared, phase, place, attempt, resumePhase, sent, outcome,
                 setup, traces, flagged, storage, ctl, history>>

\* Mutant: the file is truncated before it is written.
AutosaveInPlace(ok) ==
  /\ disk' = [run |-> runs, traces |-> traces,
              results |-> IF ok THEN results ELSE <<>>]
  /\ saved' = ok

\* SessionSerializer::save() replaces the file or leaves it as it was.
Autosave(ok) ==
  /\ disk' = IF ok THEN [run |-> runs, results |-> results, traces |-> traces]
                   ELSE disk
  /\ saved' = ok

\* Mutant: no checkpoint between two points.
CheckpointSkipped(ok) ==
  /\ pc = "checkpoint"
  /\ pc' = IF pending = {} THEN "nextPass" ELSE "gate"
  /\ UNCHANGED <<shared, worker, ctl, history>>

Checkpoint(ok) ==
  /\ pc = "checkpoint" /\ Autosave(ok)
  /\ pc' = IF pending = {} THEN "nextPass" ELSE "gate"
  /\ UNCHANGED <<shared, phase, loop, setup, session, ctl, history>>

SaveBeforeEnd(ok) ==
  /\ pc = "save" /\ Autosave(ok)
  /\ pc' = "stopCommands"
  /\ UNCHANGED <<shared, phase, loop, setup, session, ctl, history>>

-----------------------------------------------------------------------------
(* The controlling thread.  Its calls are not atomic, and only one of them *)
(* is under way at a time.                                                 *)

RequestPause ==
  /\ ctl = "idle" /\ running
  /\ ctl' = "storePause"
  /\ UNCHANGED <<shared, worker, pc, history>>

StorePause ==
  /\ ctl = "storePause"
  /\ pauseRequested' = TRUE /\ ctl' = "idle"
  /\ UNCHANGED <<running, abortRequested, cancelled, driverAborted, mutex,
                 worker, pc, history>>

RequestAbort ==
  /\ ctl = "idle"
  /\ abortRequested' = TRUE /\ ctl' = "cancelToken"
  /\ UNCHANGED <<running, pauseRequested, cancelled, driverAborted, mutex,
                 worker, pc, history>>

AbortCancelsToken ==
  /\ ctl = "cancelToken"
  /\ cancelled' = TRUE /\ ctl' = "abortDriver"
  /\ UNCHANGED <<running, abortRequested, pauseRequested, driverAborted, mutex,
                 worker, pc, history>>

AbortReachesDriver ==
  /\ ctl = "abortDriver"
  /\ driverAborted' = (driverAborted \/ connected)
  /\ ctl' = "unpause"
  /\ UNCHANGED <<running, abortRequested, pauseRequested, cancelled, mutex,
                 worker, pc, history>>

\* Mutant: the flag is cleared without the lock.
UnpauseUnlocked ==
  /\ pauseRequested' = FALSE /\ ctl' = "notify"
  /\ UNCHANGED <<running, abortRequested, cancelled, driverAborted, mutex,
                 worker, pc, history>>

\* requestResume(), and the last part of requestAbort(): the pause is lifted
\* under the lock, then the waiter is notified.
Unpause ==
  /\ mutex = "free"
  /\ pauseRequested' = FALSE /\ ctl' = "notify"
  /\ UNCHANGED <<running, abortRequested, cancelled, driverAborted, mutex,
                 worker, pc, history>>

RequestResume == ctl = "idle" /\ Unpause

AbortUnpauses == ctl = "unpause" /\ Unpause

Notify ==
  /\ ctl = "notify"
  /\ pc' = IF pc = "asleep" THEN "lock" ELSE pc
  /\ ctl' = "idle"
  /\ UNCHANGED <<shared, worker, history>>

\* RunController::disconnectInstrument() calls driver->abort() and nothing else.
AbortDriverOnly ==
  /\ ctl = "idle" /\ connected
  /\ driverAborted' = TRUE
  /\ UNCHANGED <<running, abortRequested, pauseRequested, cancelled, mutex,
                 phase, pc, loop, quiet>>

-----------------------------------------------------------------------------
\* What the worker does once start() was entered.
Step ==
  \/ ClearAbort \/ ClearPause \/ ResetCancel \/ RefuseRun \/ AdmitRun
  \/ \E ok \in BOOLEAN : SendStartCommand(ok) \/ SendStopCommand(ok)
  \/ StopCommandsDone \/ ReportEnd \/ Leave
  \/ BeginPass \/ AllPassesDone
  \/ GateStops \/ GatePasses \/ GatePauses
  \/ LockForWait \/ WaitReturns \/ WaitBlocks \/ Sleep \/ ResumePhase
  \/ \E ok \in BOOLEAN : Prepare(ok) \/ ConfigureSweep(ok)
  \/ AttemptStops \/ AttemptBegins
  \/ Arm \/ CallFails \/ CallCancelled \/ SweepCompletes
  \/ SegmentFetched \/ BeginDwell
  \/ \E peaks \in SUBSET Freqs : AnalysePeaks(peaks)
  \/ \E f \in Freqs, level \in Levels : PointVerified(f, level)
  \/ \E ok \in BOOLEAN : Checkpoint(ok) \/ SaveBeforeEnd(ok)

\* The rest of a call the controlling thread has begun.
FinishCall ==
  \/ StorePause
  \/ AbortCancelsToken \/ AbortReachesDriver \/ AbortUnpauses
  \/ Notify

Control ==
  \/ RequestPause \/ RequestResume \/ RequestAbort \/ AbortDriverOnly
  \/ FinishCall

Queue ==
  \/ \E valid \in BOOLEAN : SetConfiguration(valid)
  \/ \E present \in BOOLEAN : SetDriver(present)
  \/ Start

Next == Step \/ WakeSpuriously \/ Control \/ Queue

\* Driver calls, the sender and the file system return in bounded time, and a
\* thread inside a call goes on; nobody has to press a button, and the
\* operating system owes nobody a spurious wake-up.
Fairness == WF_vars(Step) /\ WF_vars(FinishCall)

Spec == Init /\ [][Next]_vars /\ Fairness

-----------------------------------------------------------------------------
(* Properties.                                                             *)

Waiting == {"lock", "test", "block", "asleep", "woken"}
Acquiring == {"prepare", "attempt", "configure", "arm", "sweep", "fetch"}
Entering == {"clearAbort", "clearPause", "resetCancel", "admit"}
Ending == {"save", "stopCommands", "report"}
InPass == Waiting \cup Acquiring \cup {"gate", "analyse", "dwell", "checkpoint", "nextPass"}

FlagTypes ==
  /\ abortRequested \in BOOLEAN /\ pauseRequested \in BOOLEAN
  /\ cancelled \in BOOLEAN /\ driverAborted \in BOOLEAN
  /\ configured \in BOOLEAN /\ connected \in BOOLEAN
  /\ mutex \in {"free", "worker"}
  /\ ctl \in {"idle", "storePause", "cancelToken", "abortDriver", "unpause", "notify"}

LoopTypes ==
  /\ pc \in {"idle", "startCommands", "leave"} \cup Entering \cup InPass \cup Ending
  /\ stage \in {"scan", "dwell"}
  /\ pass \in 0..Passes /\ segment \in 1..Segments
  /\ attempt \in 0..(MaxRetries + 1)
  /\ sent \in Nat
  /\ pending \subseteq Freqs
  /\ outcome \in Lifecycle!EndPhases

SessionTypes ==
  /\ results \in Seq(Point) /\ traces \in Nat
  /\ disk \in [run : Nat, results : Seq(Point), traces : Nat]
  /\ saved \in BOOLEAN
  /\ measured \subseteq Point
  /\ flagged \subseteq (1..Passes) \X Freqs
  /\ runs \in Nat /\ late \in Nat

TypeOK == Lifecycle!TypeOK /\ FlagTypes /\ LoopTypes /\ SessionTypes

\* FR-RUN-8: over all passes the session keeps exactly one point per frequency,
\* a point that was really measured (its own pass and level, not a blend), and
\* no measurement at that frequency was worse.
WorstCaseKept == KeepsWorst(results, measured)

SavedOfThisRun == IF disk.run = runs THEN disk.results ELSE <<>>

\* FR-APP-4: in whatever state the process is killed, the autosave file holds
\* every point the run has verified, except the one whose checkpoint is just
\* due -- unless the file system refused the last save.
CrashSafe ==
  saved => \/ KeepsWorst(SavedOfThisRun, measured)
           \/ /\ pc = "checkpoint"
              /\ \E p \in measured : KeepsWorst(SavedOfThisRun, measured \ {p})

\* While a run goes on, a save never takes a point back that an earlier save
\* had put on disk, and never replaces it with a milder one.
SavedPointsStay ==
  [][disk'.run = disk.run =>
       \A i \in DOMAIN disk.results : \E j \in DOMAIN disk'.results :
         /\ disk'.results[j].freq = disk.results[i].freq
         /\ disk'.results[j].level >= disk.results[i].level]_disk

\* FR-RUN-5: once an abort is stored, at most the sweep attempt that had
\* already passed its check still goes out to the instrument.
AbortIsPrompt == late <= 1

\* A run that ends as Finished skipped nothing: every pass was scanned, every
\* peak flagged in any of them was verified in that pass, and unless the last
\* save failed all of it is on disk.
FinishedIsComplete ==
  pc \in {"stopCommands", "report", "leave"} /\ outcome = "Finished"
  => /\ traces = Passes
     /\ flagged = {<<p.pass, p.freq>> : p \in measured}
     /\ saved => disk = [run |-> runs, results |-> results, traces |-> traces]

Work == IF stage = "scan" THEN "Phase1Sweep" ELSE "Phase2Dwell"

\* The phase the operator is shown is what the worker does: it is "Paused"
\* exactly while the worker waits, and a resumed run shows the phase it left.
PhaseIsTruthful ==
  /\ pc \in Waiting => phase = "Paused" /\ resumePhase = Work
  /\ pc \in Acquiring \cup {"gate"} => phase = Work

\* FR-RUN-7: no sweep is attempted more than MaxRetries + 1 times; and a pass
\* number is always one the configuration asked for.
CounterBounds ==
  /\ pc \in {"configure", "arm", "sweep", "fetch"} => attempt <= MaxRetries
  /\ pc \in InPass => pass >= 1

\* What the stop commands are still owed for, by where the worker stands.
DebtFollowsWorker ==
  /\ pc \in {"idle", "leave"} => debt = "closed"
  /\ pc \in Entering => debt = "clear"
  /\ pc \in InPass \cup {"startCommands", "save", "stopCommands"} => debt = "owed"
  /\ pc = "report" => debt = "paid"

\* The phases the remaining places of start() can be reached in.
PhaseFollowsWorker ==
  /\ pc = "analyse" => phase = "Phase1Sweep" /\ stage = "scan"
  /\ pc = "dwell" => phase = "PeakAnalysis"
  /\ pc = "checkpoint" => phase = "Phase2Dwell" /\ stage = "dwell"
  /\ pc = "nextPass" => phase \in {"PeakAnalysis", "Phase2Dwell"}
  /\ pc \in {"idle", "startCommands", "leave"} \cup Entering
       => phase \notin Lifecycle!MeasuringPhases \cup {"Paused"}
  /\ pc = "leave" => phase \in Lifecycle!EndPhases
  /\ pc \in Ending =>
       /\ outcome = "Finished" => phase \in {"PeakAnalysis", "Phase2Dwell"}
       /\ outcome = "Aborted" => phase \in {"Phase1Sweep", "Phase2Dwell", "Paused"}

\* The inductive invariant: running is up exactly while start() executes, the
\* reported phase and the debt are the ones that belong to its position, and
\* the loop counters stay within the configuration.
WorkerInv ==
  /\ running <=> pc # "idle"
  /\ CounterBounds /\ PhaseIsTruthful /\ DebtFollowsWorker /\ PhaseFollowsWorker

\* Seen from outside the engine is the lifecycle of RunLifecycle: in particular
\* the stop commands went out before the end of any run is announced whose
\* start commands may have switched something (FR-RUN-9).
ImplementsLifecycle == Lifecycle!Spec

\* FR-RUN-5: an abort that start() did not wipe out ends the run, whatever the
\* operator presses afterwards and wherever the worker was.
AbortEndsRun == (running /\ abortRequested /\ pc # "clearAbort") ~> ~running

\* A run nobody pauses ends by itself: retries, segments and peaks are bounded.
RunEnds == running ~> (~running \/ pauseRequested)
=============================================================================

---------------------------- MODULE HeadlessRunner ----------------------------
(***************************************************************************)
(* peakemi-cli (src/cli/run/HeadlessRunner.cpp, src/app/cli_main.cpp): the *)
(* main thread builds a configuration, connects, runs the engine to its    *)
(* end, writes the outputs and turns what happened into an exit code.  The *)
(* watcher thread polls the flag the signal handler sets, calls            *)
(* requestAbort() once, and is joined before the process exits.            *)
(*                                                                         *)
(* The engine is MeasurementEngine itself: the main thread is its worker,  *)
(* the watcher is the thread that controls it.  What the input files, the  *)
(* instrument and the disk answer is open; a signal may come at any time.  *)
(***************************************************************************)
EXTENDS MeasurementEngine

VARIABLES
  runner,       \* where run() and main() stand
  watcher,      \* where CancellationWatcher::run() stands
  signalled,    \* g_cancelled
  asked,        \* HeadlessRunner::m_abortRequested
  holder,       \* holder of m_engineMutex: "free" or "watcher"
  published,    \* m_engine # nullptr
  code,         \* the exit code, once there is one
  \* Observers; no action reads them.
  inTime,       \* the abort was stored before the exit code was decided
  written       \* every output of a run that produced something was written

cancelling == <<watcher, signalled, asked, inTime>>
engine == vars
jobVars == <<engine, runner, cancelling, holder, published, code, written>>

Verdicts == {"Success", "LimitsExceeded"}
Codes == Verdicts \cup {"UsageError", "RunFailed", "Aborted"}

JobInit ==
  /\ Init
  /\ runner = "build" /\ watcher = "polling"
  /\ signalled = FALSE /\ asked = FALSE /\ inTime = FALSE
  /\ holder = "free" /\ published = FALSE
  /\ code = "none" /\ written = FALSE

-----------------------------------------------------------------------------
(* run(), on the main thread.                                              *)

\* Each of the early checks either lets the job go on or decides its exit code.
Check(at, next, ok, failure) ==
  /\ runner = at
  /\ IF ok THEN runner' = next /\ UNCHANGED code
           ELSE runner' = "stopping" /\ code' = failure
  /\ UNCHANGED <<engine, cancelling, holder, published, written>>

BuildConfiguration(ok) == Check("build", "connect", ok, "UsageError")
ConnectInstrument(ok) == Check("connect", "range", ok, "RunFailed")
CheckRange(ok) == Check("range", "setDriver", ok, "UsageError")

GiveDriver ==
  /\ runner = "setDriver" /\ SetDriver(TRUE)
  /\ runner' = "configure"
  /\ UNCHANGED <<cancelling, holder, published, code, written>>

\* The points per sweep were adapted to the instrument after the configuration
\* was validated, so start() may still refuse it.
GiveConfiguration(valid) ==
  /\ runner = "configure" /\ SetConfiguration(valid)
  /\ runner' = "publish"
  /\ UNCHANGED <<cancelling, holder, published, code, written>>

PublishEngine ==
  /\ runner = "publish" /\ holder = "free"
  /\ published' = TRUE /\ runner' = "check"
  /\ UNCHANGED <<engine, cancelling, holder, code, written>>

CheckAbort ==
  /\ runner = "check"
  /\ runner' = IF asked THEN "withdraw" ELSE "start"
  /\ UNCHANGED <<engine, cancelling, holder, published, code, written>>

EnterEngine ==
  /\ runner = "start" /\ Start
  /\ runner' = "running"
  /\ UNCHANGED <<cancelling, holder, published, code, written>>

EngineStep ==
  /\ runner = "running" /\ Step
  /\ UNCHANGED <<runner, cancelling, holder, published, code, written>>

EngineReturns ==
  /\ runner = "running" /\ pc = "idle"
  /\ runner' = "withdraw"
  /\ UNCHANGED <<engine, cancelling, holder, published, code, written>>

\* Mutant: the pointer is withdrawn without the lock.
WithdrawUnlocked ==
  /\ runner = "withdraw"
  /\ published' = FALSE /\ runner' = "outputs"
  /\ UNCHANGED <<engine, cancelling, holder, code, written>>

\* After this the driver is closed, and the engine goes with the stack frame.
WithdrawEngine ==
  /\ runner = "withdraw" /\ holder = "free"
  /\ published' = FALSE /\ runner' = "outputs"
  /\ UNCHANGED <<engine, cancelling, holder, code, written>>

\* Mutant: the job goes on when an output could not be written.
WriteWhatFits(ok) ==
  /\ runner = "outputs"
  /\ runner' = "verdict" /\ written' = ok
  /\ UNCHANGED <<engine, cancelling, holder, published, code>>

\* A run that produced nothing writes nothing; the first output that cannot be
\* written ends the job.
WriteOutputs(ok) ==
  /\ runner = "outputs"
  /\ IF ok \/ (results = <<>> /\ traces = 0)
     THEN runner' = "verdict" /\ written' = TRUE /\ UNCHANGED code
     ELSE runner' = "stopping" /\ code' = "RunFailed" /\ UNCHANGED written
  /\ UNCHANGED <<engine, cancelling, holder, published>>

\* Mutant: the exit code is only the engine's.
CodeOfPhase(exceeds) ==
  IF phase = "Aborted" THEN "Aborted"
  ELSE IF phase # "Finished" THEN "RunFailed"
  ELSE IF exceeds THEN "LimitsExceeded" ELSE "Success"

\* A failed run is reported as failed even if it was also cancelled; otherwise
\* the cancellation wins over whatever the engine got to before it landed.
ExitCodeFor(exceeds) ==
  IF phase = "Failed" THEN "RunFailed"
  ELSE IF asked \/ phase = "Aborted" THEN "Aborted"
  ELSE IF phase # "Finished" THEN "RunFailed"
  ELSE IF exceeds THEN "LimitsExceeded" ELSE "Success"

Conclude(exceeds) ==
  /\ runner = "verdict"
  /\ code' = ExitCodeFor(exceeds)
  /\ runner' = "stopping"
  /\ UNCHANGED <<engine, cancelling, holder, published, written>>

\* main() joins the watcher before it returns the code.
Exit ==
  /\ runner = "stopping" /\ watcher = "done"
  /\ runner' = "exited"
  /\ UNCHANGED <<engine, cancelling, holder, published, code, written>>

-----------------------------------------------------------------------------
(* The watcher.                                                            *)

\* SIGINT or SIGTERM.
Signal ==
  /\ ~signalled /\ runner # "exited"
  /\ signalled' = TRUE
  /\ UNCHANGED <<engine, runner, watcher, asked, inTime, holder, published,
                 code, written>>

\* The poll sees the flag, and requestAbort() begins by storing its own.
WatcherNotices ==
  /\ watcher = "polling" /\ signalled
  /\ asked' = TRUE /\ watcher' = "locking"
  /\ inTime' = (runner \notin {"stopping", "exited"})
  /\ UNCHANGED <<engine, runner, signalled, holder, published, code, written>>

\* Under m_engineMutex: call the engine if there is one.
WatcherCalls ==
  /\ watcher = "locking" /\ holder = "free"
  /\ IF published
     THEN RequestAbort /\ holder' = "watcher" /\ watcher' = "calling"
     ELSE watcher' = "done" /\ UNCHANGED <<engine, holder>>
  /\ UNCHANGED <<runner, signalled, asked, inTime, published, code, written>>

WatcherGoesOn ==
  /\ watcher = "calling" /\ FinishCall
  /\ UNCHANGED <<runner, cancelling, holder, published, code, written>>

\* Mutant: the lock is not given back.
WatcherKeepsLock ==
  /\ watcher = "calling" /\ ctl = "idle"
  /\ watcher' = "done"
  /\ UNCHANGED <<engine, runner, signalled, asked, inTime, holder, published,
                 code, written>>

\* requestAbort() returns, and the watcher's loop with it.
WatcherReturns ==
  /\ watcher = "calling" /\ ctl = "idle"
  /\ holder' = "free" /\ watcher' = "done"
  /\ UNCHANGED <<engine, runner, signalled, asked, inTime, published, code,
                 written>>

WatcherStops ==
  /\ watcher = "polling" /\ runner = "stopping"
  /\ watcher' = "done"
  /\ UNCHANGED <<engine, runner, signalled, asked, inTime, holder, published,
                 code, written>>

-----------------------------------------------------------------------------
Run ==
  \/ \E ok \in BOOLEAN :
       \/ BuildConfiguration(ok) \/ ConnectInstrument(ok) \/ CheckRange(ok)
       \/ GiveConfiguration(ok) \/ WriteOutputs(ok) \/ Conclude(ok)
  \/ GiveDriver \/ PublishEngine \/ CheckAbort \/ EnterEngine \/ EngineStep
  \/ EngineReturns \/ WithdrawEngine \/ Exit

Watch ==
  \/ WatcherNotices \/ WatcherCalls \/ WatcherGoesOn \/ WatcherReturns
  \/ WatcherStops

\* The process is gone.
Ended == runner = "exited" /\ UNCHANGED jobVars

JobNext == Run \/ Watch \/ Signal \/ Ended

\* Both threads run; nobody has to send a signal.
JobSpec == JobInit /\ [][JobNext]_jobVars /\ WF_jobVars(Run) /\ WF_jobVars(Watch)

-----------------------------------------------------------------------------
(* Properties.                                                             *)

\* HeadlessRunner.cpp:514: a job that was cancelled before its exit code was
\* decided never exits claiming that the equipment was measured, not even when
\* the engine had finished, or wiped the abort out, before it landed.
CancelledNeverPasses == inTime => code \notin Verdicts

\* The watcher is never inside an engine the run has already withdrawn: the
\* engine lives on the main thread's stack.
EngineOutlivesCall == ctl # "idle" => published

\* An exit code that carries a verdict stands for a finished run, all passes of
\* it, of which every output was written.
VerdictIsEarned ==
  code \in Verdicts => phase = "Finished" /\ traces = Passes /\ written

\* The job ends, cancelled or not: the two threads never wait on each other.
JobEnds == <>(runner = "exited")
=============================================================================

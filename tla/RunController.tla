---------------------------- MODULE RunController ----------------------------
(***************************************************************************)
(* The hand-over between the GUI thread and the acquisition thread         *)
(* (src/ui/models/RunController.cpp, with the guards MainWindow puts on    *)
(* its calls).  Connecting, disconnecting, configuring and starting a run  *)
(* are events queued on the worker; the worker's signals travel the other  *)
(* way, also queued and delivered in order.  The one thing both threads    *)
(* touch directly is m_transport, which the command sender reads on the    *)
(* worker while a run's commands go out.                                   *)
(*                                                                         *)
(* Each call of connectInstrument() makes a new driver and a new transport,*)
(* here one connection number, 0 standing for none.  A configuration is    *)
(* its limit lines (a run without one flags no peak) and its resolution    *)
(* bandwidth, 0 standing for the band default.                             *)
(* A run is its start command, its passes and its stop command; a measured *)
(* point is a level, the higher the worse, 0 standing for no point.  Pause *)
(* and abort go straight to the engine and are modelled in                 *)
(* MeasurementEngine.                                                      *)
(***************************************************************************)
EXTENDS Integers, Sequences, FiniteSets

CONSTANTS
  Limits,         \* limit lines
  Rbws,           \* resolution bandwidths an instrument may offer
  Freqs,          \* frequencies at which peaks may be flagged
  MaxLevel,       \* bound: levels a point may be measured at
  MaxPasses,      \* bound: passes of all runs
  MaxConnections, \* bound: calls of connectInstrument()
  MaxStarts       \* bound: calls of start()

ASSUME BoundsAssumption ==
  {MaxLevel, MaxPasses, MaxConnections, MaxStarts} \subseteq Nat

VARIABLES
  \* The GUI thread.
  current,        \* m_driver and m_transport, which are set and reset together
  made, started, \* calls made so far
  shown,          \* MainWindow::m_connected
  busy,           \* MainWindow::m_phase is a phase of a run
  quitting,       \* ~RunController() waits for the thread
  \* Between the threads.
  queue,          \* events for the worker
  inbox,          \* signals for the GUI
  \* The worker.
  worker,         \* where it stands
  driver,         \* MeasurementEngine::m_driver
  opened,         \* connections whose driver or transport is open
  config,         \* MeasurementEngine::m_config
  pass,           \* passes so far
  kept,           \* MeasurementEngine::m_session.results, the worst level at each frequency
  \* Observers of the current run.
  asked,          \* the configuration start() was called for
  touched,        \* connections a command was written to
  owed            \* connections a start command was written to and no stop command

gui == <<current, made, started, shown, busy, quitting>>
run == <<config, pass, kept, asked>>
observers == <<touched, owed>>
vars == <<gui, queue, inbox, worker, driver, opened, run, observers>>

Connections == 1..MaxConnections
Configs == [limits : SUBSET Limits, rbw : Rbws \cup {0}]
Fresh == [limits |-> {}, rbw |-> 0]
Levels == [Freqs -> 0..MaxLevel]
Nothing == [f \in Freqs |-> 0]
Worse(p, q) == [f \in Freqs |-> IF q[f] > p[f] THEN q[f] ELSE p[f]]

Open(c) == [kind |-> "open", conn |-> c]
Close(c) == [kind |-> "close", conn |-> c]
Configure(cfg) == [kind |-> "configure", config |-> cfg]
Start(cfg) == [kind |-> "start", config |-> cfg]

Connected(on) == [kind |-> "connected", on |-> on]
Phase(on) == [kind |-> "phase", on |-> on]
Trace == [kind |-> "trace"]
Points(p) == [kind |-> "points", levels |-> p]
Finished(p) == [kind |-> "finished", levels |-> p]

Init ==
  /\ current = 0 /\ made = 0 /\ started = 0
  /\ shown = FALSE /\ busy = FALSE /\ quitting = FALSE
  /\ queue = <<Configure(Fresh)>> /\ inbox = <<>>
  /\ worker = "idle" /\ driver = 0 /\ opened = {}
  /\ config = Fresh /\ pass = 0 /\ kept = Nothing /\ asked = Fresh
  /\ touched = {} /\ owed = {}

-----------------------------------------------------------------------------
(* The GUI thread.                                                         *)

\* What disconnectInstrument() leaves on the queue; without a driver it returns.
Disconnecting == IF current = 0 THEN queue ELSE Append(queue, Close(current))

\* Mutant: the previous connection is left open.
ConnectOver ==
  /\ ~quitting /\ made < MaxConnections
  /\ made' = made + 1 /\ current' = made + 1
  /\ shown' = IF current = 0 THEN shown ELSE FALSE
  /\ queue' = Append(queue, Open(made + 1))
  /\ UNCHANGED <<started, busy, quitting, inbox, worker, driver, opened, run, observers>>

\* Mutant: the driver is opened by the caller instead of by the worker.
ConnectDirectly ==
  /\ ~quitting /\ made < MaxConnections
  /\ made' = made + 1 /\ current' = made + 1
  /\ shown' = IF current = 0 THEN shown ELSE FALSE
  /\ queue' = Disconnecting /\ driver' = made + 1 /\ opened' = opened \cup {made + 1}
  /\ inbox' = Append(inbox, Connected(TRUE))
  /\ UNCHANGED <<started, busy, quitting, worker, run, observers>>

\* The Connect button is enabled while no connection is shown, but a double click
\* in the dock's list connects at any moment, also during a run.
Connect ==
  /\ ~quitting /\ made < MaxConnections
  /\ made' = made + 1 /\ current' = made + 1
  /\ shown' = IF current = 0 THEN shown ELSE FALSE
  /\ queue' = Append(Disconnecting, Open(made + 1))
  /\ UNCHANGED <<started, busy, quitting, inbox, worker, driver, opened, run, observers>>

\* Mutant: a connection nobody was told of is not closed.
DisconnectOpened ==
  /\ ~quitting /\ shown
  /\ queue' = IF current \in opened THEN Disconnecting ELSE queue
  /\ current' = 0 /\ shown' = IF current = 0 THEN shown ELSE FALSE
  /\ UNCHANGED <<made, started, busy, quitting, inbox, worker, driver, opened, run, observers>>

\* The dock's Disconnect button stays enabled during a run.  connectionChanged
\* reaches MainWindow at once: it is emitted on the GUI thread.
Disconnect ==
  /\ ~quitting /\ shown
  /\ queue' = Disconnecting
  /\ current' = 0 /\ shown' = IF current = 0 THEN shown ELSE FALSE
  /\ UNCHANGED <<made, started, busy, quitting, inbox, worker, driver, opened, run, observers>>

\* setConfiguration() and start(), which without a driver only reports an error.
\* Start is disabled once the run's first phase was delivered to MainWindow, which
\* may be any time after the run has begun.
StartRun(cfg) ==
  /\ ~quitting /\ shown /\ ~busy /\ started < MaxStarts
  /\ started' = started + 1
  /\ queue' = IF current = 0 THEN Append(queue, Configure(cfg))
              ELSE queue \o <<Configure(cfg), Start(cfg)>>
  /\ UNCHANGED <<current, made, shown, busy, quitting, inbox, worker, driver, opened, run, observers>>

SetConfiguration(cfg) ==
  /\ ~quitting
  /\ queue' = Append(queue, Configure(cfg))
  /\ UNCHANGED <<gui, inbox, worker, driver, opened, run, observers>>

\* The window is closed: ~RunController() aborts, disconnects, and waits.
Quit ==
  /\ ~quitting
  /\ quitting' = TRUE /\ current' = 0 /\ queue' = Disconnecting
  /\ UNCHANGED <<made, started, shown, busy, inbox, worker, driver, opened, run, observers>>

\* The signals, in the order they were emitted.
Arrives(signal) ==
  /\ ~quitting /\ inbox # <<>> /\ Head(inbox) = signal
  /\ inbox' = Tail(inbox)
  /\ UNCHANGED <<current, made, started, quitting, queue, worker, driver, opened, run, observers>>

ConnectionChanged(on) ==
  Arrives(Connected(on)) /\ shown' = on /\ UNCHANGED busy

PhaseChanged(on) ==
  Arrives(Phase(on)) /\ busy' = on /\ UNCHANGED shown

ResultArrives ==
  /\ \/ Arrives(Trace)
     \/ \E p \in Levels : Arrives(Points(p)) \/ Arrives(Finished(p))
  /\ UNCHANGED <<shown, busy>>

-----------------------------------------------------------------------------
(* The worker's events.                                                    *)

\* isRunning() of the engine.
Running == worker \in {"startCheck", "startWrite", "sweeping", "stopCheck", "stopWrite"}

Deliver(event) ==
  /\ worker = "idle" /\ queue # <<>> /\ Head(queue) = event
  /\ queue' = Tail(queue)

\* A driver that does not open may leave its transport open.
OpenFails(c) ==
  /\ Deliver(Open(c))
  /\ opened' \in {opened, opened \cup {c}}
  /\ inbox' = Append(inbox, Connected(FALSE))
  /\ UNCHANGED <<gui, worker, driver, run, observers>>

OpenSucceeds(c) ==
  /\ Deliver(Open(c))
  /\ opened' = opened \cup {c} /\ driver' = c
  /\ inbox' = Append(inbox, Connected(TRUE))
  /\ UNCHANGED <<gui, worker, run, observers>>

\* Mutant: the engine keeps the closed driver.
CloseKeepsDriver(c) ==
  /\ Deliver(Close(c))
  /\ opened' = opened \ {c}
  /\ UNCHANGED <<gui, inbox, worker, driver, run, observers>>

CloseDriver(c) ==
  /\ Deliver(Close(c))
  /\ opened' = opened \ {c} /\ driver' = 0
  /\ UNCHANGED <<gui, inbox, worker, run, observers>>

ConfigureEngine(cfg) ==
  /\ Deliver(Configure(cfg))
  /\ config' = cfg
  /\ UNCHANGED <<gui, inbox, worker, driver, opened, pass, kept, asked, observers>>

\* Without a driver the run fails before it sends anything.
BeginRun(cfg) ==
  /\ Deliver(Start(cfg))
  /\ touched' = {} /\ owed' = {}
  /\ IF driver = 0
     THEN inbox' = Append(inbox, Phase(FALSE)) /\ UNCHANGED <<worker, asked>>
     ELSE worker' = "startCheck" /\ asked' = cfg /\ UNCHANGED inbox
  /\ UNCHANGED <<gui, driver, opened, config, pass, kept>>

\* Mutant: the run ends without finish(), and no phase is reported.
EndWithoutPhase ==
  /\ worker' = "idle" /\ inbox' = Append(inbox, Finished(kept))
  /\ kept' = Nothing /\ asked' = Fresh /\ UNCHANGED <<config, pass>>

\* After the stop commands runFinished is emitted, then the phase changes.
EndRun ==
  /\ worker' = "idle" /\ inbox' = inbox \o <<Finished(kept), Phase(FALSE)>>
  /\ kept' = Nothing /\ asked' = Fresh /\ UNCHANGED <<config, pass>>

\* The command sender: m_transport is tested, ...
SenderChecks ==
  /\ worker \in {"startCheck", "stopCheck"}
  /\ IF current = 0 /\ worker = "stopCheck" THEN EndRun
     ELSE /\ worker' = IF current = 0 THEN "stopCheck"
                       ELSE IF worker = "startCheck" THEN "startWrite" ELSE "stopWrite"
          /\ UNCHANGED <<inbox, run>>
  /\ UNCHANGED <<gui, queue, driver, opened, observers>>

\* ... and read again to be written to.  Between the two the GUI thread may have
\* reset it (the process dies) or have put a transport there that is not open.
StartWrites(ok) ==
  /\ worker = "startWrite" /\ current # 0
  /\ IF ok /\ current \in opened
     THEN /\ touched' = touched \cup {current} /\ owed' = {current}
          /\ worker' = "sweeping" /\ inbox' = Append(inbox, Phase(TRUE))
     ELSE worker' = "stopCheck" /\ UNCHANGED <<observers, inbox>>
  /\ UNCHANGED <<gui, queue, driver, opened, run>>

\* One pass: its trace is reported, then each point it verified, at the level of
\* this pass.  What the run keeps is the worst level of all its passes.
MeasurePass(p) ==
  /\ worker = "sweeping" /\ pass < MaxPasses
  /\ config.limits = {} => p = Nothing
  /\ pass' = pass + 1 /\ kept' = Worse(kept, p)
  /\ inbox' = inbox \o IF p = Nothing THEN <<Trace>> ELSE <<Trace, Points(p)>>
  /\ UNCHANGED <<gui, queue, worker, driver, opened, config, asked, observers>>

\* The sweeps are over: finished, failed or aborted.
SweepsEnd ==
  /\ worker = "sweeping"
  /\ worker' = "stopCheck"
  /\ UNCHANGED <<gui, queue, inbox, driver, opened, run, observers>>

StopWrites(ok) ==
  /\ worker = "stopWrite" /\ current # 0
  /\ owed' = owed \ {current}
  /\ touched' = IF ok /\ current \in opened THEN touched \cup {current} ELSE touched
  /\ EndRun
  /\ UNCHANGED <<gui, queue, driver, opened>>

SenderCrashes ==
  /\ worker \in {"startWrite", "stopWrite"} /\ current = 0
  /\ worker' = "crashed"
  /\ UNCHANGED <<gui, queue, inbox, driver, opened, run, observers>>

\* QThread::quit() is obeyed between two events; what is still queued is dropped
\* and the sockets are closed by their destructors.
ThreadEnds ==
  /\ quitting /\ worker = "idle"
  /\ worker' = "gone" /\ queue' = <<>> /\ opened' = {}
  /\ UNCHANGED <<gui, inbox, driver, run, observers>>

-----------------------------------------------------------------------------
Work ==
  \/ \E c \in Connections : OpenFails(c) \/ OpenSucceeds(c) \/ CloseDriver(c)
  \/ \E cfg \in Configs : ConfigureEngine(cfg) \/ BeginRun(cfg)
  \/ SenderChecks \/ SenderCrashes \/ SweepsEnd \/ ThreadEnds
  \/ \E p \in Levels : MeasurePass(p)
  \/ \E ok \in BOOLEAN : StartWrites(ok) \/ StopWrites(ok)

Arrival ==
  \/ \E on \in BOOLEAN : ConnectionChanged(on) \/ PhaseChanged(on)
  \/ ResultArrives

Operate ==
  \/ Connect \/ Disconnect \/ Quit
  \/ \E cfg \in Configs : StartRun(cfg)

Ended == worker \in {"crashed", "gone"} /\ UNCHANGED vars

Next == Work \/ Operate \/ Arrival \/ Ended

\* The worker and the GUI's event loop go on; the operator need not.
Fairness == WF_vars(Work) /\ WF_vars(Arrival)

Spec == Init /\ [][Next]_vars /\ Fairness

-----------------------------------------------------------------------------
(* Properties.                                                             *)

\* Once the worker has caught up, the engine measures with the connection the
\* operator made last, or with none if it did not open or was given up.
EngineFollowsController ==
  worker = "idle" /\ queue = <<>> => driver \in {0, current}

\* One connection is open at a time, so that two drivers never talk to the same
\* instrument; and a run's driver is never closed beneath it.
OneConnection ==
  /\ Cardinality(opened) <= 1
  /\ Running => driver \in opened

\* A run's commands go to the instrument it measures with, whatever the operator
\* connects meanwhile.
CommandsStayOnBus == Running => touched \subseteq {driver}

\* A connection that was given up is closed, also one that never opened fully.
GivenUpIsClosed ==
  \A c \in Connections :
    (c \in opened /\ current # c) ~> (c \notin opened \/ worker = "crashed")

\* FR-RUN-9: when a run is over, the stop commands were sent to the equipment
\* its start commands had switched.
StopCommandsSent == worker \in {"idle", "gone"} => owed = {}

=============================================================================

----------------------------- MODULE MainWindow -----------------------------
(***************************************************************************)
(* The main window (src/ui/windows/MainWindow.cpp) with its configuration  *)
(* and results docks, composed with the RunController it drives.           *)
(*                                                                         *)
(* The window holds one session, a table of the points that arrived, the   *)
(* widgets a configuration is edited in, and the file the session was last *)
(* stored in.  A run reports to it by queued signals; the operator may     *)
(* meanwhile edit, save, export, open another session or start again.      *)
(*                                                                         *)
(* A session is its configuration, the number of its traces and its        *)
(* results, a level per frequency.  Of the metadata only is modelled that  *)
(* editing it makes the session unsaved.  Every operator's action is one   *)
(* step, taken when its last dialog is closed.                             *)
(***************************************************************************)
EXTENDS RunController

CONSTANTS
  Files,    \* paths a session is stored under
  None,     \* no path, no file
  MaxEdits, \* bound: changes of the configuration
  MaxCalls  \* bound: connections, starts and changes together

Sessions == [config : Configs, traces : Nat, results : Levels]

ASSUME FilesAssumption ==
  None \notin Files \cup Sessions /\ MaxEdits \in Nat /\ MaxCalls \in Nat

VARIABLES
  session,  \* m_session
  table,    \* the points of the results dock
  dock,     \* what the configuration dock shows
  offers,   \* the bandwidths its list offers besides the band default
  path,     \* m_sessionPath
  dirty,    \* m_dirty
  disk,     \* the stored sessions
  edits     \* changes so far

document == <<session, table, path, dirty, disk>>
widgets == <<dock, offers, edits>>
window == <<document, widgets>>
all == <<vars, window>>

WindowInit ==
  /\ Init
  /\ session = [config |-> Fresh, traces |-> 0, results |-> Nothing]
  /\ table = Nothing /\ dock = Fresh /\ offers = {}
  /\ path = None /\ dirty = FALSE /\ disk = [f \in Files |-> None]
  /\ edits = 0

CallsLeft == made + started + edits < MaxCalls

-----------------------------------------------------------------------------
(* Signals of the controller.                                              *)

\* applyCapabilities() of whatever instrument the controller has by now, and of
\* none if it was given up.  A bandwidth that is not offered becomes the default.
OnConnectionChanged(on) ==
  /\ ConnectionChanged(on)
  /\ IF on
     THEN /\ offers' = IF current = 0 THEN {} ELSE Rbws
          /\ dock' = [dock EXCEPT !.rbw = IF @ \in offers' THEN @ ELSE 0]
     ELSE UNCHANGED <<dock, offers>>
  /\ UNCHANGED <<document, edits>>

OnPhaseChanged(on) == PhaseChanged(on) /\ UNCHANGED window

OnTraceAcquired ==
  /\ Arrives(Trace)
  /\ session' = [session EXCEPT !.traces = @ + 1] /\ dirty' = TRUE
  /\ UNCHANGED <<shown, busy, table, path, disk, widgets>>

\* A point replaces the one the table has at its frequency.
AppendPoints(p) == [f \in Freqs |-> IF p[f] = 0 THEN table[f] ELSE p[f]]

OnPointMeasured(p) ==
  /\ Arrives(Points(p))
  /\ table' = AppendPoints(p) /\ dirty' = TRUE
  /\ UNCHANGED <<shown, busy, session, path, disk, widgets>>

\* Mutant: the table keeps the points of the last pass.
OnRunFinishedQuiet(p) ==
  /\ Arrives(Finished(p))
  /\ session' = [session EXCEPT !.results = p] /\ dirty' = TRUE
  /\ UNCHANGED <<shown, busy, table, path, disk, widgets>>

OnRunFinished(p) ==
  /\ Arrives(Finished(p))
  /\ session' = [session EXCEPT !.results = p] /\ table' = p /\ dirty' = TRUE
  /\ UNCHANGED <<shown, busy, path, disk, widgets>>

-----------------------------------------------------------------------------
(* Runs.                                                                   *)

\* Connecting leaves the document alone.
UseInstrument ==
  /\ ~quitting
  /\ (Connect /\ CallsLeft) \/ Disconnect
  /\ UNCHANGED window

\* Mutant: the engine is started with the configuration it has.
StartAsConfigured ==
  /\ ~quitting /\ shown /\ ~busy /\ started < MaxStarts /\ CallsLeft
  /\ started' = started + 1
  /\ queue' = IF current = 0 THEN queue ELSE Append(queue, Start(dock))
  /\ session' = [session EXCEPT !.config = dock, !.results = Nothing]
  /\ table' = Nothing
  /\ UNCHANGED <<current, made, shown, busy, quitting, inbox, worker, driver, opened,
                 run, observers, path, dirty, disk, widgets>>

\* What the docks show is what is measured; the traces of earlier runs stay.
PressStart ==
  /\ CallsLeft
  /\ StartRun(dock)
  /\ session' = [session EXCEPT !.config = dock, !.results = Nothing]
  /\ table' = Nothing
  /\ UNCHANGED <<path, dirty, disk, widgets>>

\* The operator does not want to measure without a limit line.
DeclineStart ==
  /\ ~quitting /\ shown /\ ~busy /\ dock.limits = {}
  /\ session' = [session EXCEPT !.config = dock]
  /\ UNCHANGED <<vars, table, path, dirty, disk, widgets>>

-----------------------------------------------------------------------------
(* The configuration dock, which is disabled while the window shows a run. *)

\* configurationChanged(): the session and the engine take what the dock shows.
Edited(cfg) ==
  /\ ~quitting /\ ~busy /\ edits < MaxEdits /\ CallsLeft /\ cfg # dock
  /\ dock' = cfg /\ edits' = edits + 1
  /\ SetConfiguration(cfg)
  /\ session' = [session EXCEPT !.config = cfg] /\ dirty' = TRUE
  /\ UNCHANGED <<table, path, disk, offers>>

\* A limit line is checked or unchecked, or imported, which checks it.
EditLimits == \E limits \in SUBSET Limits : Edited([dock EXCEPT !.limits = limits])

EditBandwidth == \E rbw \in offers \cup {0} : Edited([dock EXCEPT !.rbw = rbw])

\* setConfiguration(), whose signals are blocked: the engine is not told.  Limit
\* lines are only ever checked; a bandwidth that is not offered is the default.
Shown(cfg) == [limits |-> dock.limits \cup cfg.limits,
               rbw |-> IF cfg.rbw \in offers THEN cfg.rbw ELSE 0]

-----------------------------------------------------------------------------
(* The document.  An unsaved one is only given up after a question that can *)
(* be answered with saving it, which is a step of its own here.             *)

NewSession ==
  /\ ~quitting
  /\ session' = [config |-> dock, traces |-> 0, results |-> Nothing]
  /\ table' = Nothing /\ path' = None /\ dirty' = FALSE
  /\ UNCHANGED <<vars, disk, widgets>>

OpenSessionFile(f) ==
  /\ ~quitting /\ disk[f] # None
  /\ session' = disk[f] /\ table' = disk[f].results
  /\ path' = f /\ dirty' = FALSE
  /\ dock' = Shown(disk[f].config)
  /\ UNCHANGED <<vars, disk, offers, edits>>

\* Mutant: the session counts as saved also when writing failed.
StoreRegardless(f, ok) ==
  /\ path' = f /\ dirty' = FALSE
  /\ disk' = IF ok THEN [disk EXCEPT ![f] = session] ELSE disk

\* Saving replaces the file or leaves it as it was.
Store(f, ok) ==
  /\ path' = f /\ dirty' = IF ok THEN FALSE ELSE dirty
  /\ disk' = IF ok THEN [disk EXCEPT ![f] = session] ELSE disk

SaveSession(ok) ==
  /\ ~quitting /\ path # None
  /\ Store(path, ok)
  /\ UNCHANGED <<vars, session, table, widgets>>

SaveSessionAs(f, ok) ==
  /\ ~quitting
  /\ Store(f, ok)
  /\ UNCHANGED <<vars, session, table, widgets>>

EditSessionMetadata == ~quitting /\ dirty' = TRUE /\ UNCHANGED <<vars, session, table, path, disk, widgets>>

\* An export writes what the table shows, and the session takes it over.
TakeTable ==
  /\ session' = [session EXCEPT !.results = table]
  /\ UNCHANGED <<vars, table, path, dirty, disk, widgets>>

ExportResults == ~quitting /\ session.results # Nothing /\ TakeTable

ExportPdfReport == ~quitting /\ (session.results # Nothing \/ session.traces > 0) /\ TakeTable

\* closeEvent(): the run is aborted and the question answered.
CloseWindow == ~quitting /\ Quit /\ UNCHANGED window

-----------------------------------------------------------------------------
Signals ==
  \/ \E on \in BOOLEAN : OnConnectionChanged(on) \/ OnPhaseChanged(on)
  \/ OnTraceAcquired
  \/ \E p \in Levels : OnPointMeasured(p) \/ OnRunFinished(p)

Operator ==
  \/ UseInstrument \/ PressStart \/ DeclineStart \/ CloseWindow
  \/ EditLimits \/ EditBandwidth
  \/ NewSession
  \/ \E f \in Files : OpenSessionFile(f) \/ \E ok \in BOOLEAN : SaveSessionAs(f, ok)
  \/ \E ok \in BOOLEAN : SaveSession(ok)
  \/ EditSessionMetadata \/ ExportResults \/ ExportPdfReport

Working == Work /\ UNCHANGED window

WindowNext == Working \/ Operator \/ Signals \/ (Ended /\ UNCHANGED window)

WindowSpec ==
  WindowInit /\ [][WindowNext]_all /\ WF_all(Working) /\ WF_all(Signals)

-----------------------------------------------------------------------------
(* Properties.                                                             *)

\* Nothing is under way and every signal has been handled.
AtRest == worker = "idle" /\ queue = <<>> /\ inbox = <<>> /\ ~quitting

\* pointMeasured carries the level of its pass, runFinished the worst of all
\* passes: once a run has been reported the table shows what the session has.
SettledTableIsSession == AtRest => table = session.results

\* A session that is not marked as changed can be left without a question: its
\* measurements are then in a file.
CleanLosesNothing ==
  AtRest /\ ~dirty =>
    \/ session.results = Nothing /\ session.traces = 0
    \/ \E f \in Files :
         /\ disk[f] # None
         /\ session.results \in {Nothing, disk[f].results}
         /\ session.traces <= disk[f].traces

\* A run measures with the configuration the docks showed when Start was pressed,
\* whatever was opened or edited before it or is edited before it begins.
RunMeasuresWhatDockShows == Running => config = asked

\* A run the window shows is over for the window some time, so that the docks can
\* be edited and the next run started.
EditingReturns == busy ~> (~busy \/ quitting \/ worker = "crashed")
=============================================================================

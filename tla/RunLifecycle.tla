---------------------------- MODULE RunLifecycle ----------------------------
(***************************************************************************)
(* What a measurement run promises to whoever owns the engine: the phases  *)
(* it reports, in which order, and that equipment switched by the start    *)
(* commands is released before the run reports how it ended.               *)
(*                                                                         *)
(* This is the state machine of MeasurementEngine::start() with everything *)
(* hidden that only the engine's worker thread can see: retries, segments, *)
(* the flags other threads set and the waiting on them.  MeasurementEngine *)
(* implements it; RunController and HeadlessRunner rely on it.             *)
(***************************************************************************)

VARIABLES
  phase,    \* MeasurementEngine::m_phase
  running,  \* MeasurementEngine::m_running
  debt,     \* what the run owes the equipment: "clear" until a start command
            \* may have gone out, then "owed", "paid" once the stop commands
            \* were sent, "closed" once the run has reported how it ended
  left      \* the phase a paused run left and will return to

vars == <<phase, running, debt, left>>

EndPhases == {"Finished", "Failed", "Aborted"}
MeasuringPhases == {"Phase1Sweep", "PeakAnalysis", "Phase2Dwell"}
Phases == {"Idle", "Configured", "Paused"} \cup MeasuringPhases \cup EndPhases

TypeOK ==
  /\ phase \in Phases
  /\ running \in BOOLEAN
  /\ debt \in {"clear", "owed", "paid", "closed"}
  /\ left \in Phases

Init ==
  /\ phase = "Idle"
  /\ running = FALSE
  /\ debt = "closed"
  /\ left = "Idle"

-----------------------------------------------------------------------------

\* A new configuration; the owner only sends one while no run is under way.
Configure ==
  /\ ~running
  /\ phase' = "Configured"
  /\ UNCHANGED <<running, debt, left>>

Begin ==
  /\ ~running
  /\ running' = TRUE
  /\ debt' = "clear"
  /\ UNCHANGED <<phase, left>>

\* From here on equipment may be switched.
Switch ==
  /\ running /\ debt = "clear"
  /\ phase \notin MeasuringPhases \cup {"Paused"}
  /\ debt' = "owed"
  /\ UNCHANGED <<phase, running, left>>

\* The next pass: from the start commands or from the previous pass.
Sweep ==
  /\ running /\ debt = "owed"
  /\ phase \notin {"Phase1Sweep", "Paused"}
  /\ phase' = "Phase1Sweep"
  /\ UNCHANGED <<running, debt, left>>

Analyse ==
  /\ running /\ debt = "owed"
  /\ phase = "Phase1Sweep"
  /\ phase' = "PeakAnalysis"
  /\ UNCHANGED <<running, debt, left>>

Dwell ==
  /\ running /\ debt = "owed"
  /\ phase = "PeakAnalysis"
  /\ phase' = "Phase2Dwell"
  /\ UNCHANGED <<running, debt, left>>

Pause ==
  /\ running /\ debt = "owed"
  /\ phase \in {"Phase1Sweep", "Phase2Dwell"}
  /\ phase' = "Paused"
  /\ left' = phase
  /\ UNCHANGED <<running, debt>>

\* A resumed run is back in the phase it was paused in.
Resume ==
  /\ running /\ debt = "owed"
  /\ phase = "Paused"
  /\ phase' = left
  /\ UNCHANGED <<running, debt, left>>

Release ==
  /\ running /\ debt = "owed"
  /\ debt' = "paid"
  /\ UNCHANGED <<phase, running, left>>

\* A run that never switched anything can only have failed.
End(outcome) ==
  /\ running
  /\ \/ debt = "paid"
     \/ debt = "clear" /\ outcome = "Failed"
  /\ outcome = "Finished" => phase \in {"PeakAnalysis", "Phase2Dwell"}
  /\ outcome = "Aborted" => phase \in {"Phase1Sweep", "Phase2Dwell", "Paused"}
  /\ phase' = outcome
  /\ debt' = "closed"
  /\ UNCHANGED <<running, left>>

Leave ==
  /\ running /\ debt = "closed"
  /\ phase \in EndPhases
  /\ running' = FALSE
  /\ UNCHANGED <<phase, debt, left>>

Next ==
  \/ Configure \/ Begin \/ Switch
  \/ Sweep \/ Analyse \/ Dwell
  \/ Pause \/ Resume
  \/ Release
  \/ \E outcome \in EndPhases : End(outcome)
  \/ Leave

Spec == Init /\ [][Next]_vars

=============================================================================

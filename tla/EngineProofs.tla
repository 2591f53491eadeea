---------------------------- MODULE EngineProofs ----------------------------
(***************************************************************************)
(* Theorems about MeasurementEngine, and about HeadlessRunner, which runs  *)
(* the engine inside a job, for every value of their constants.            *)
(***************************************************************************)
EXTENDS HeadlessRunner, TLAPS
-----------------------------------------------------------------------------
(* The engine on its own.                                                  *)


\* Merging keeps a sequence of points a sequence of points.
LEMMA MergeType ==
  ASSUME NEW rs \in Seq(Point), NEW p \in Point
  PROVE  Merge(rs, p) \in Seq(Point)
<1>1. CASE \E i \in 1..Len(rs) : rs[i].freq = p.freq
  <2>1. Len(rs) \in Nat
    OBVIOUS
  <2>2. \A i \in 1..Len(rs) : rs[i] \in Point
    OBVIOUS
  <2>3. Merge(rs, p) \in [1..Len(rs) -> Point]
    BY <1>1, <2>2 DEF Merge
  <2>4. QED
    BY <2>1, <2>3
<1>2. CASE ~ \E i \in 1..Len(rs) : rs[i].freq = p.freq
  BY <1>2 DEF Merge
<1>3. QED
  BY <1>1, <1>2

\* The constructor leaves every member with a value of its type.
LEMMA TypeInit == Init => TypeOK
<1> SUFFICES ASSUME Init PROVE TypeOK
  OBVIOUS
<1> USE ConfigAssumption DEF ConfigAssumption, Init
<1>1. Lifecycle!TypeOK
  BY DEF Lifecycle!TypeOK, Lifecycle!Phases
<1>2. FlagTypes
  BY DEF FlagTypes
<1>3. LoopTypes
  BY DEF LoopTypes, Lifecycle!EndPhases
<1>4. SessionTypes
  BY DEF SessionTypes
<1>5. QED
  BY <1>1, <1>2, <1>3, <1>4 DEF TypeOK

\* No step of either thread takes a variable out of its type or a loop counter
\* out of its range.
LEMMA TypeNext == TypeOK /\ CounterBounds /\ [Next]_vars => TypeOK' /\ CounterBounds'
<1> SUFFICES ASSUME TypeOK, CounterBounds, [Next]_vars PROVE TypeOK' /\ CounterBounds'
  OBVIOUS
<1> USE ConfigAssumption DEF ConfigAssumption, TypeOK, Lifecycle!TypeOK, Lifecycle!Phases,
        Lifecycle!MeasuringPhases, Lifecycle!EndPhases,
        FlagTypes, LoopTypes, SessionTypes, CounterBounds,
        Waiting, Acquiring, Entering, Ending, InPass,
        flags, shared, place, position, loop, setup, session, storage, history, quiet, worker
<1>1. ASSUME NEW valid \in BOOLEAN, SetConfiguration(valid)
      PROVE  TypeOK' /\ CounterBounds'
  BY <1>1 DEF SetConfiguration
<1>2. ASSUME NEW present \in BOOLEAN, SetDriver(present)
      PROVE  TypeOK' /\ CounterBounds'
  <2>1. FlagTypes'
    BY <1>2, Zenon DEF SetDriver
  <2>2. Lifecycle!TypeOK' /\ LoopTypes' /\ SessionTypes' /\ CounterBounds'
    BY <1>2 DEF SetDriver
  <2>3. QED
    BY <2>1, <2>2
<1>3. CASE Start
  BY <1>3 DEF Start
<1>4. CASE ClearAbort
  <2>1. FlagTypes'
    BY <1>4, Zenon DEF ClearAbort
  <2>2. Lifecycle!TypeOK' /\ LoopTypes' /\ SessionTypes' /\ CounterBounds'
    BY <1>4 DEF ClearAbort
  <2>3. QED
    BY <2>1, <2>2
<1>5. CASE ClearPause
  <2>1. FlagTypes'
    BY <1>5, Zenon DEF ClearPause
  <2>2. Lifecycle!TypeOK' /\ LoopTypes' /\ SessionTypes' /\ CounterBounds'
    BY <1>5 DEF ClearPause
  <2>3. QED
    BY <2>1, <2>2
<1>6. CASE ResetCancel
  <2>1. FlagTypes'
    BY <1>6, Zenon DEF ResetCancel
  <2>2. Lifecycle!TypeOK' /\ LoopTypes' /\ SessionTypes' /\ CounterBounds'
    BY <1>6 DEF ResetCancel
  <2>3. QED
    BY <2>1, <2>2
<1>7. CASE RefuseRun
  BY <1>7 DEF RefuseRun
<1>8. CASE AdmitRun
  BY <1>8 DEF AdmitRun
<1>9. ASSUME NEW ok \in BOOLEAN, SendStartCommand(ok)
      PROVE  TypeOK' /\ CounterBounds'
  BY <1>9 DEF SendStartCommand
<1>10. ASSUME NEW ok \in BOOLEAN, SendStopCommand(ok)
      PROVE  TypeOK' /\ CounterBounds'
  BY <1>10 DEF SendStopCommand
<1>11. CASE StopCommandsDone
  BY <1>11 DEF StopCommandsDone
<1>12. CASE ReportEnd
  BY <1>12 DEF ReportEnd
<1>13. CASE Leave
  <2>1. running' \in BOOLEAN
    BY <1>13, Zenon DEF Leave
  <2>2. phase' \in Lifecycle!Phases /\ debt' \in {"clear", "owed", "paid", "closed"} /\ resumePhase' \in Lifecycle!Phases
    BY <1>13 DEF Leave
  <2>3. FlagTypes' /\ LoopTypes' /\ SessionTypes' /\ CounterBounds'
    BY <1>13 DEF Leave
  <2>4. QED
    BY <2>1, <2>2, <2>3
<1>14. CASE BeginPass
  BY <1>14 DEF BeginPass
<1>15. CASE AllPassesDone
  BY <1>15 DEF AllPassesDone
<1>16. CASE GateStops
  BY <1>16 DEF GateStops, EndRun
<1>17. CASE GatePasses
  BY <1>17 DEF GatePasses
<1>18. CASE GatePauses
  BY <1>18 DEF GatePauses
<1>19. CASE LockForWait
  BY <1>19 DEF LockForWait
<1>20. CASE WaitReturns
  BY <1>20 DEF WaitReturns, MayGoOn
<1>21. CASE WaitBlocks
  BY <1>21 DEF WaitBlocks, MayGoOn
<1>22. CASE Sleep
  BY <1>22 DEF Sleep
<1>23. CASE WakeSpuriously
  BY <1>23 DEF WakeSpuriously
<1>24. CASE ResumePhase
  BY <1>24 DEF ResumePhase
<1>25. ASSUME NEW ok \in BOOLEAN, Prepare(ok)
      PROVE  TypeOK' /\ CounterBounds'
  BY <1>25 DEF Prepare, EndRun
<1>26. CASE AttemptStops
  BY <1>26 DEF AttemptStops, AttemptsLeft, EndRun
<1>27. CASE AttemptBegins
  BY <1>27 DEF AttemptBegins, AttemptsLeft
<1>28. ASSUME NEW ok \in BOOLEAN, ConfigureSweep(ok)
      PROVE  TypeOK' /\ CounterBounds'
  BY <1>28 DEF ConfigureSweep, Retry
<1>29. CASE Arm
  <2>1. FlagTypes'
    BY <1>29, Zenon DEF Arm
  <2>2. Lifecycle!TypeOK' /\ LoopTypes' /\ SessionTypes' /\ CounterBounds'
    BY <1>29 DEF Arm
  <2>3. QED
    BY <2>1, <2>2
<1>30. CASE CallFails
  BY <1>30 DEF CallFails, Retry
<1>31. CASE CallCancelled
  BY <1>31 DEF CallCancelled, EndRun
<1>32. CASE SweepCompletes
  BY <1>32 DEF SweepCompletes
<1>33. CASE SegmentFetched
  BY <1>33 DEF SegmentFetched
<1>34. ASSUME NEW peaks \in SUBSET Freqs, AnalysePeaks(peaks)
      PROVE  TypeOK' /\ CounterBounds'
  BY <1>34 DEF AnalysePeaks
<1>35. CASE BeginDwell
  BY <1>35 DEF BeginDwell
<1>36. ASSUME NEW f \in Freqs, NEW level \in Levels, PointVerified(f, level)
      PROVE  TypeOK' /\ CounterBounds'
  <2> DEFINE point == [freq |-> f, level |-> level, pass |-> pass]
  <2>1. point \in Point
    BY <1>36 DEF PointVerified, Point
  <2>2. results' \in Seq(Point) /\ measured' \subseteq Point
    BY <1>36, <2>1, MergeType DEF PointVerified
  <2>3. QED
    BY <1>36, <2>2 DEF PointVerified
<1>37. ASSUME NEW ok \in BOOLEAN, Checkpoint(ok)
      PROVE  TypeOK' /\ CounterBounds'
  BY <1>37 DEF Checkpoint, Autosave
<1>38. ASSUME NEW ok \in BOOLEAN, SaveBeforeEnd(ok)
      PROVE  TypeOK' /\ CounterBounds'
  BY <1>38 DEF SaveBeforeEnd, Autosave
<1>39. CASE RequestPause
  BY <1>39 DEF RequestPause
<1>40. CASE StorePause
  BY <1>40 DEF StorePause
<1>41. CASE RequestResume
  <2>1. FlagTypes'
    BY <1>41, Zenon DEF RequestResume, Unpause
  <2>2. Lifecycle!TypeOK' /\ LoopTypes' /\ SessionTypes' /\ CounterBounds'
    BY <1>41 DEF RequestResume, Unpause
  <2>3. QED
    BY <2>1, <2>2
<1>42. CASE RequestAbort
  BY <1>42 DEF RequestAbort
<1>43. CASE AbortCancelsToken
  BY <1>43 DEF AbortCancelsToken
<1>44. CASE AbortReachesDriver
  BY <1>44 DEF AbortReachesDriver
<1>45. CASE AbortUnpauses
  <2>1. FlagTypes'
    BY <1>45, Zenon DEF AbortUnpauses, Unpause
  <2>2. Lifecycle!TypeOK' /\ LoopTypes' /\ SessionTypes' /\ CounterBounds'
    BY <1>45 DEF AbortUnpauses, Unpause
  <2>3. QED
    BY <2>1, <2>2
<1>46. CASE Notify
  BY <1>46 DEF Notify
<1>47. CASE AbortDriverOnly
  BY <1>47 DEF AbortDriverOnly
<1>48. CASE UNCHANGED vars
  BY <1>48 DEF vars
<1>49. QED
  BY <1>1, <1>2, <1>3, <1>4, <1>5, <1>6, <1>7, <1>8, <1>9, <1>10, <1>11, <1>12,
     <1>13, <1>14, <1>15, <1>16, <1>17, <1>18, <1>19, <1>20, <1>21, <1>22, <1>23,
     <1>24, <1>25, <1>26, <1>27, <1>28, <1>29, <1>30, <1>31, <1>32, <1>33, <1>34,
     <1>35, <1>36, <1>37, <1>38, <1>39, <1>40, <1>41, <1>42, <1>43, <1>44, <1>45,
     <1>46, <1>47, <1>48
  DEF Next, Step, Control, FinishCall, Queue

\* A new engine is idle, with the flags and the phase of an idle engine.
LEMMA WorkerInit == Init => WorkerInv
BY DEF Init, WorkerInv, CounterBounds, PhaseIsTruthful, DebtFollowsWorker,
   PhaseFollowsWorker,
   Waiting, Acquiring, Entering, Ending, InPass, Lifecycle!MeasuringPhases, Lifecycle!EndPhases

\* Every step leaves running, phase and debt as the worker's new place has them.
LEMMA WorkerNext == TypeOK /\ WorkerInv /\ [Next]_vars => WorkerInv'
<1> SUFFICES ASSUME TypeOK, WorkerInv, [Next]_vars PROVE WorkerInv'
  OBVIOUS
<1> USE ConfigAssumption DEF ConfigAssumption, TypeOK, LoopTypes, Lifecycle!TypeOK, Lifecycle!Phases,
        Lifecycle!MeasuringPhases, Lifecycle!EndPhases,
        WorkerInv, CounterBounds, PhaseIsTruthful, DebtFollowsWorker, PhaseFollowsWorker, Work,
        Waiting, Acquiring, Entering, Ending, InPass,
        flags, shared, place, position, loop, setup, session, storage, history, quiet, worker
<1>1. ASSUME NEW valid \in BOOLEAN, SetConfiguration(valid)
      PROVE  WorkerInv'
  BY <1>1 DEF SetConfiguration
<1>2. ASSUME NEW present \in BOOLEAN, SetDriver(present)
      PROVE  WorkerInv'
  BY <1>2 DEF SetDriver
<1>3. CASE Start
  BY <1>3 DEF Start
<1>4. CASE ClearAbort
  BY <1>4 DEF ClearAbort
<1>5. CASE ClearPause
  BY <1>5 DEF ClearPause
<1>6. CASE ResetCancel
  BY <1>6 DEF ResetCancel
<1>7. CASE RefuseRun
  BY <1>7 DEF RefuseRun
<1>8. CASE AdmitRun
  BY <1>8 DEF AdmitRun
<1>9. ASSUME NEW ok \in BOOLEAN, SendStartCommand(ok)
      PROVE  WorkerInv'
  BY <1>9 DEF SendStartCommand
<1>10. ASSUME NEW ok \in BOOLEAN, SendStopCommand(ok)
      PROVE  WorkerInv'
  BY <1>10 DEF SendStopCommand
<1>11. CASE StopCommandsDone
  BY <1>11 DEF StopCommandsDone
<1>12. CASE ReportEnd
  BY <1>12 DEF ReportEnd
<1>13. CASE Leave
  BY <1>13 DEF Leave
<1>14. CASE BeginPass
  BY <1>14 DEF BeginPass
<1>15. CASE AllPassesDone
  BY <1>15 DEF AllPassesDone
<1>16. CASE GateStops
  BY <1>16 DEF GateStops, EndRun
<1>17. CASE GatePasses
  BY <1>17 DEF GatePasses
<1>18. CASE GatePauses
  BY <1>18 DEF GatePauses
<1>19. CASE LockForWait
  BY <1>19 DEF LockForWait
<1>20. CASE WaitReturns
  BY <1>20 DEF WaitReturns, MayGoOn
<1>21. CASE WaitBlocks
  BY <1>21 DEF WaitBlocks, MayGoOn
<1>22. CASE Sleep
  BY <1>22 DEF Sleep
<1>23. CASE WakeSpuriously
  BY <1>23 DEF WakeSpuriously
<1>24. CASE ResumePhase
  BY <1>24 DEF ResumePhase
<1>25. ASSUME NEW ok \in BOOLEAN, Prepare(ok)
      PROVE  WorkerInv'
  BY <1>25 DEF Prepare, EndRun
<1>26. CASE AttemptStops
  BY <1>26 DEF AttemptStops, AttemptsLeft, EndRun
<1>27. CASE AttemptBegins
  BY <1>27 DEF AttemptBegins, AttemptsLeft
<1>28. ASSUME NEW ok \in BOOLEAN, ConfigureSweep(ok)
      PROVE  WorkerInv'
  BY <1>28 DEF ConfigureSweep, Retry
<1>29. CASE Arm
  BY <1>29 DEF Arm
<1>30. CASE CallFails
  BY <1>30 DEF CallFails, Retry
<1>31. CASE CallCancelled
  BY <1>31 DEF CallCancelled, EndRun
<1>32. CASE SweepCompletes
  BY <1>32 DEF SweepCompletes
<1>33. CASE SegmentFetched
  BY <1>33 DEF SegmentFetched
<1>34. ASSUME NEW peaks \in SUBSET Freqs, AnalysePeaks(peaks)
      PROVE  WorkerInv'
  BY <1>34 DEF AnalysePeaks
<1>35. CASE BeginDwell
  BY <1>35 DEF BeginDwell
<1>36. ASSUME NEW f \in Freqs, NEW level \in Levels, PointVerified(f, level)
      PROVE  WorkerInv'
  BY <1>36 DEF PointVerified
<1>37. ASSUME NEW ok \in BOOLEAN, Checkpoint(ok)
      PROVE  WorkerInv'
  BY <1>37 DEF Checkpoint, Autosave
<1>38. ASSUME NEW ok \in BOOLEAN, SaveBeforeEnd(ok)
      PROVE  WorkerInv'
  BY <1>38 DEF SaveBeforeEnd, Autosave
<1>39. CASE RequestPause
  BY <1>39 DEF RequestPause
<1>40. CASE StorePause
  BY <1>40 DEF StorePause
<1>41. CASE RequestResume
  BY <1>41 DEF RequestResume, Unpause
<1>42. CASE RequestAbort
  BY <1>42 DEF RequestAbort
<1>43. CASE AbortCancelsToken
  BY <1>43 DEF AbortCancelsToken
<1>44. CASE AbortReachesDriver
  BY <1>44 DEF AbortReachesDriver
<1>45. CASE AbortUnpauses
  BY <1>45 DEF AbortUnpauses, Unpause
<1>46. CASE Notify
  BY <1>46 DEF Notify
<1>47. CASE AbortDriverOnly
  BY <1>47 DEF AbortDriverOnly
<1>48. CASE UNCHANGED vars
  BY <1>48 DEF vars
<1>49. QED
  BY <1>1, <1>2, <1>3, <1>4, <1>5, <1>6, <1>7, <1>8, <1>9, <1>10, <1>11, <1>12,
     <1>13, <1>14, <1>15, <1>16, <1>17, <1>18, <1>19, <1>20, <1>21, <1>22, <1>23,
     <1>24, <1>25, <1>26, <1>27, <1>28, <1>29, <1>30, <1>31, <1>32, <1>33, <1>34,
     <1>35, <1>36, <1>37, <1>38, <1>39, <1>40, <1>41, <1>42, <1>43, <1>44, <1>45,
     <1>46, <1>47, <1>48
  DEF Next, Step, Control, FinishCall, Queue

\* A new engine is a new lifecycle.
LEMMA LifecycleInit == Init => Lifecycle!Init
BY DEF Init, Lifecycle!Init

\* Every step of the engine is a step of the lifecycle, or one it does not see.
LEMMA LifecycleNext == TypeOK /\ WorkerInv /\ [Next]_vars => [Lifecycle!Next]_Lifecycle!vars
<1> SUFFICES ASSUME TypeOK, WorkerInv, [Next]_vars PROVE [Lifecycle!Next]_Lifecycle!vars
  OBVIOUS
<1> USE DEF TypeOK, LoopTypes, Lifecycle!TypeOK, Lifecycle!Phases,
        Lifecycle!MeasuringPhases, Lifecycle!EndPhases,
        WorkerInv, CounterBounds, PhaseIsTruthful, DebtFollowsWorker, PhaseFollowsWorker, Work,
        Waiting, Acquiring, Entering, Ending, InPass,
        flags, shared, place, position, loop, history, quiet, worker, Lifecycle!vars, Lifecycle!Next
<1>1. ASSUME NEW valid \in BOOLEAN, SetConfiguration(valid)
      PROVE  Lifecycle!Configure
  BY <1>1 DEF SetConfiguration, Lifecycle!Configure
<1>2. ASSUME NEW present \in BOOLEAN, SetDriver(present)
      PROVE  UNCHANGED Lifecycle!vars
  BY <1>2 DEF SetDriver
<1>3. ASSUME Start
      PROVE  Lifecycle!Begin
  BY <1>3 DEF Start, Lifecycle!Begin
<1>4. ASSUME ClearAbort
      PROVE  UNCHANGED Lifecycle!vars
  BY <1>4 DEF ClearAbort
<1>5. ASSUME ClearPause
      PROVE  UNCHANGED Lifecycle!vars
  BY <1>5 DEF ClearPause
<1>6. ASSUME ResetCancel
      PROVE  UNCHANGED Lifecycle!vars
  BY <1>6 DEF ResetCancel
<1>7. ASSUME RefuseRun
      PROVE  Lifecycle!End("Failed")
  BY <1>7 DEF RefuseRun, Lifecycle!End
<1>8. ASSUME AdmitRun
      PROVE  Lifecycle!Switch
  BY <1>8 DEF AdmitRun, Lifecycle!Switch
<1>9. ASSUME NEW ok \in BOOLEAN, SendStartCommand(ok)
      PROVE  UNCHANGED Lifecycle!vars
  BY <1>9 DEF SendStartCommand
<1>10. ASSUME NEW ok \in BOOLEAN, SendStopCommand(ok)
      PROVE  UNCHANGED Lifecycle!vars
  BY <1>10 DEF SendStopCommand
<1>11. ASSUME StopCommandsDone
      PROVE  Lifecycle!Release
  BY <1>11 DEF StopCommandsDone, Lifecycle!Release
<1>12. ASSUME ReportEnd
      PROVE  Lifecycle!End(outcome)
  BY <1>12 DEF ReportEnd, Lifecycle!End
<1>13. ASSUME Leave
      PROVE  Lifecycle!Leave
  BY <1>13 DEF Leave, Lifecycle!Leave
<1>14. ASSUME BeginPass
      PROVE  Lifecycle!Sweep
  BY <1>14 DEF BeginPass, Lifecycle!Sweep
<1>15. ASSUME AllPassesDone
      PROVE  UNCHANGED Lifecycle!vars
  BY <1>15 DEF AllPassesDone
<1>16. ASSUME GateStops
      PROVE  UNCHANGED Lifecycle!vars
  BY <1>16 DEF GateStops
<1>17. ASSUME GatePasses
      PROVE  UNCHANGED Lifecycle!vars
  BY <1>17 DEF GatePasses
<1>18. ASSUME GatePauses
      PROVE  Lifecycle!Pause
  BY <1>18 DEF GatePauses, Lifecycle!Pause
<1>19. ASSUME LockForWait
      PROVE  UNCHANGED Lifecycle!vars
  BY <1>19 DEF LockForWait
<1>20. ASSUME WaitReturns
      PROVE  UNCHANGED Lifecycle!vars
  BY <1>20 DEF WaitReturns, MayGoOn
<1>21. ASSUME WaitBlocks
      PROVE  UNCHANGED Lifecycle!vars
  BY <1>21 DEF WaitBlocks, MayGoOn
<1>22. ASSUME Sleep
      PROVE  UNCHANGED Lifecycle!vars
  BY <1>22 DEF Sleep
<1>23. ASSUME WakeSpuriously
      PROVE  UNCHANGED Lifecycle!vars
  BY <1>23 DEF WakeSpuriously
<1>24. ASSUME ResumePhase
      PROVE  Lifecycle!Resume
  BY <1>24 DEF ResumePhase, Lifecycle!Resume
<1>25. ASSUME NEW ok \in BOOLEAN, Prepare(ok)
      PROVE  UNCHANGED Lifecycle!vars
  BY <1>25 DEF Prepare
<1>26. ASSUME AttemptStops
      PROVE  UNCHANGED Lifecycle!vars
  BY <1>26 DEF AttemptStops, AttemptsLeft
<1>27. ASSUME AttemptBegins
      PROVE  UNCHANGED Lifecycle!vars
  BY <1>27 DEF AttemptBegins, AttemptsLeft
<1>28. ASSUME NEW ok \in BOOLEAN, ConfigureSweep(ok)
      PROVE  UNCHANGED Lifecycle!vars
  BY <1>28 DEF ConfigureSweep
<1>29. ASSUME Arm
      PROVE  UNCHANGED Lifecycle!vars
  BY <1>29 DEF Arm
<1>30. ASSUME CallFails
      PROVE  UNCHANGED Lifecycle!vars
  BY <1>30 DEF CallFails
<1>31. ASSUME CallCancelled
      PROVE  UNCHANGED Lifecycle!vars
  BY <1>31 DEF CallCancelled
<1>32. ASSUME SweepCompletes
      PROVE  UNCHANGED Lifecycle!vars
  BY <1>32 DEF SweepCompletes
<1>33. ASSUME SegmentFetched
      PROVE  UNCHANGED Lifecycle!vars
  BY <1>33 DEF SegmentFetched
<1>34. ASSUME NEW peaks \in SUBSET Freqs, AnalysePeaks(peaks)
      PROVE  Lifecycle!Analyse
  BY <1>34 DEF AnalysePeaks, Lifecycle!Analyse
<1>35. ASSUME BeginDwell
      PROVE  Lifecycle!Dwell
  BY <1>35 DEF BeginDwell, Lifecycle!Dwell
<1>36. ASSUME NEW f \in Freqs, NEW level \in Levels, PointVerified(f, level)
      PROVE  UNCHANGED Lifecycle!vars
  BY <1>36 DEF PointVerified
<1>37. ASSUME NEW ok \in BOOLEAN, Checkpoint(ok)
      PROVE  UNCHANGED Lifecycle!vars
  BY <1>37 DEF Checkpoint
<1>38. ASSUME NEW ok \in BOOLEAN, SaveBeforeEnd(ok)
      PROVE  UNCHANGED Lifecycle!vars
  BY <1>38 DEF SaveBeforeEnd
<1>39. ASSUME RequestPause
      PROVE  UNCHANGED Lifecycle!vars
  BY <1>39 DEF RequestPause
<1>40. ASSUME StorePause
      PROVE  UNCHANGED Lifecycle!vars
  BY <1>40 DEF StorePause
<1>41. ASSUME RequestResume
      PROVE  UNCHANGED Lifecycle!vars
  BY <1>41 DEF RequestResume, Unpause
<1>42. ASSUME RequestAbort
      PROVE  UNCHANGED Lifecycle!vars
  BY <1>42 DEF RequestAbort
<1>43. ASSUME AbortCancelsToken
      PROVE  UNCHANGED Lifecycle!vars
  BY <1>43 DEF AbortCancelsToken
<1>44. ASSUME AbortReachesDriver
      PROVE  UNCHANGED Lifecycle!vars
  BY <1>44 DEF AbortReachesDriver
<1>45. ASSUME AbortUnpauses
      PROVE  UNCHANGED Lifecycle!vars
  BY <1>45 DEF AbortUnpauses, Unpause
<1>46. ASSUME Notify
      PROVE  UNCHANGED Lifecycle!vars
  BY <1>46 DEF Notify
<1>47. ASSUME AbortDriverOnly
      PROVE  UNCHANGED Lifecycle!vars
  BY <1>47 DEF AbortDriverOnly
<1>48. CASE UNCHANGED vars
  BY <1>48 DEF vars
<1>49. QED
  BY <1>1, <1>2, <1>3, <1>4, <1>5, <1>6, <1>7, <1>8, <1>9, <1>10, <1>11, <1>12,
     <1>13, <1>14, <1>15, <1>16, <1>17, <1>18, <1>19, <1>20, <1>21, <1>22, <1>23,
     <1>24, <1>25, <1>26, <1>27, <1>28, <1>29, <1>30, <1>31, <1>32, <1>33, <1>34,
     <1>35, <1>36, <1>37, <1>38, <1>39, <1>40, <1>41, <1>42, <1>43, <1>44, <1>45,
     <1>46, <1>47, <1>48
  DEF Next, Step, Control, FinishCall, Queue

-----------------------------------------------------------------------------
(* The theorems on types, the worker's position and the abstract lifecycle. *)

\* Every variable keeps the type its C++ counterpart gives it, and no loop
\* counter of start() or acquireSegment() leaves its range.
THEOREM TypeCorrect == Spec => []TypeOK
<1>1. Init => CounterBounds
  BY DEF Init, CounterBounds, InPass, Waiting, Acquiring
<1>2. QED
  BY <1>1, TypeInit, TypeNext, PTL DEF Spec

\* The flag isRunning() answers from, the phase the user interface shows and
\* the loop counters are the ones that belong to where start() stands.
THEOREM WorkerInvariant == Spec => []WorkerInv
BY TypeCorrect, WorkerInit, WorkerNext, PTL DEF Spec

\* The engine implements the lifecycle: phases in order, a paused run back in
\* the phase it left, and the stop commands before any end is announced that
\* follows start commands (FR-RUN-9).
THEOREM EngineImplementsLifecycle == Spec => ImplementsLifecycle
BY TypeCorrect, WorkerInvariant, LifecycleInit, LifecycleNext, PTL
   DEF Spec, ImplementsLifecycle, Lifecycle!Spec

-----------------------------------------------------------------------------
(* The session: what is measured, merged and saved.                        *)

\* The steps that touch the session or the autosave file are few.
LEMMA SessionSteps ==
  ASSUME [Next]_vars
  PROVE  \/ /\ UNCHANGED <<results, measured, disk, saved, runs>>
            /\ pc = "checkpoint" => pc' = "checkpoint"
         \/ AdmitRun
         \/ \E f \in Freqs, level \in Levels : PointVerified(f, level)
         \/ \E ok \in BOOLEAN : Checkpoint(ok) \/ SaveBeforeEnd(ok)
<1> USE DEF flags, shared, setup, session, storage, place, position, loop,
            history, quiet, worker
<1>1. ASSUME Queue
      PROVE  UNCHANGED <<results, measured, disk, saved, runs>> /\ pc # "checkpoint"
  BY <1>1 DEF Queue, SetConfiguration, SetDriver, Start
<1>2. ASSUME Control \/ WakeSpuriously
      PROVE  /\ UNCHANGED <<results, measured, disk, saved, runs>>
             /\ pc = "checkpoint" => pc' = "checkpoint"
  BY <1>2 DEF Control, FinishCall, WakeSpuriously, RequestPause, StorePause,
     RequestAbort, AbortCancelsToken, AbortReachesDriver, Unpause,
     RequestResume, AbortUnpauses, Notify, AbortDriverOnly
<1>3. ASSUME Step
      PROVE  \/ UNCHANGED <<results, measured, disk, saved, runs>> /\ pc # "checkpoint"
             \/ AdmitRun
             \/ \E f \in Freqs, level \in Levels : PointVerified(f, level)
             \/ \E ok \in BOOLEAN : Checkpoint(ok) \/ SaveBeforeEnd(ok)
  BY <1>3 DEF Step, ClearAbort, ClearPause, ResetCancel, RefuseRun,
     SendStartCommand, SendStopCommand, StopCommandsDone, ReportEnd, Leave,
     BeginPass, AllPassesDone, GateStops, GatePasses, GatePauses, LockForWait,
     WaitReturns, WaitBlocks, Sleep, ResumePhase, Prepare, ConfigureSweep,
     AttemptStops, AttemptBegins, Arm, CallFails, CallCancelled,
     SweepCompletes, SegmentFetched, BeginDwell, AnalysePeaks
<1>4. QED
  BY <1>1, <1>2, <1>3 DEF Next, vars

\* The amplitudes of points can be compared.
LEMMA LevelIsInt == \A p \in Point : p.level \in Int
BY LevelsAssumption DEF LevelsAssumption, Point

\* Merging a point into a session that keeps the worst case of S makes it keep
\* the worst case of S and the point.
LEMMA MergeKeepsWorst ==
  ASSUME NEW S \in SUBSET Point, NEW rs \in Seq(Point), NEW p \in Point,
         KeepsWorst(rs, S)
  PROVE  KeepsWorst(Merge(rs, p), S \cup {p})
<1> USE DEF KeepsWorst
<1> DEFINE new == Merge(rs, p)
<1>0. /\ Len(rs) \in Nat /\ \A i \in 1..Len(rs) : rs[i] \in Point
      /\ \A q \in Point : q.level \in Int
  <2>1. Len(rs) \in Nat /\ \A i \in 1..Len(rs) : rs[i] \in Point
    OBVIOUS
  <2>2. QED
    BY <2>1, LevelIsInt
<1>1. CASE \E i \in 1..Len(rs) : rs[i].freq = p.freq
  <2>1. /\ Len(new) = Len(rs)
        /\ \A i \in 1..Len(rs) :
             new[i] = IF rs[i].freq = p.freq /\ p.level > rs[i].level THEN p ELSE rs[i]
    BY <1>0, <1>1 DEF Merge
  <2>2. \A i \in 1..Len(rs) :
          /\ new[i].freq = rs[i].freq
          /\ new[i].level >= rs[i].level
          /\ rs[i].freq = p.freq => new[i].level >= p.level
          /\ new[i] \in S \cup {p}
    BY <1>0, <2>1
  <2>3. ASSUME NEW q \in S \cup {p}
        PROVE  \E i \in 1..Len(new) : new[i].freq = q.freq /\ new[i].level >= q.level
    <3>1. CASE q = p
      BY <1>1, <2>1, <2>2, <3>1
    <3>2. CASE q \in S
      <4>1. PICK i \in 1..Len(rs) : rs[i].freq = q.freq /\ rs[i].level >= q.level
        BY <3>2
      <4>2. new[i].level \in Int /\ rs[i].level \in Int /\ q.level \in Int
        BY <1>0, <2>2, <3>2, <4>1
      <4>3. QED
        BY <2>1, <2>2, <4>1, <4>2
    <3>3. QED
      BY <3>1, <3>2
  <2>4. \A i, j \in 1..Len(new) : new[i].freq = new[j].freq => i = j
    BY <2>1, <2>2
  <2>5. QED
    BY <2>1, <2>2, <2>3, <2>4
<1>2. CASE ~ \E i \in 1..Len(rs) : rs[i].freq = p.freq
  <2>1. /\ Len(new) = Len(rs) + 1
        /\ new[Len(rs) + 1] = p
        /\ \A i \in 1..Len(rs) : new[i] = rs[i]
    BY <1>2 DEF Merge
  <2>2. \A i \in 1..Len(new) : new[i] \in S \cup {p}
    BY <1>0, <2>1
  <2>3. \A i, j \in 1..Len(new) : new[i].freq = new[j].freq => i = j
    BY <1>0, <1>2, <2>1
  <2>4. \A q \in S \cup {p} :
          \E i \in 1..Len(new) : new[i].freq = q.freq /\ new[i].level >= q.level
    BY <1>0, <2>1
  <2>5. QED
    BY <2>2, <2>3, <2>4
<1>3. QED
  BY <1>1, <1>2

\* Only a verified point or a new run changes what the session holds, and both
\* leave it the worst case of what was measured.
LEMMA WorstCaseNext ==
  TypeOK /\ CounterBounds /\ WorstCaseKept /\ [Next]_vars => WorstCaseKept'
<1> SUFFICES ASSUME TypeOK, CounterBounds, WorstCaseKept, [Next]_vars
             PROVE  WorstCaseKept'
  OBVIOUS
<1>1. CASE UNCHANGED <<results, measured, disk, saved, runs>>
  BY <1>1 DEF WorstCaseKept
<1>2. CASE AdmitRun
  BY <1>2 DEF AdmitRun, WorstCaseKept, KeepsWorst
<1>3. ASSUME NEW f \in Freqs, NEW level \in Levels, PointVerified(f, level)
      PROVE  WorstCaseKept'
  <2> DEFINE p == [freq |-> f, level |-> level, pass |-> pass]
  <2>1. p \in Point /\ results \in Seq(Point) /\ measured \in SUBSET Point
    <3>1. pass \in 1..Passes
      BY <1>3, ConfigAssumption DEF PointVerified, TypeOK, LoopTypes,
         CounterBounds, InPass, Acquiring, ConfigAssumption
    <3>2. QED
      BY <3>1 DEF Point, TypeOK, SessionTypes
  <2>2. results' = Merge(results, p) /\ measured' = measured \cup {p}
    BY <1>3 DEF PointVerified
  <2>3. QED
    BY <2>1, <2>2, MergeKeepsWorst DEF WorstCaseKept
<1>4. ASSUME NEW ok \in BOOLEAN, Checkpoint(ok) \/ SaveBeforeEnd(ok)
      PROVE  WorstCaseKept'
  BY <1>4 DEF Checkpoint, SaveBeforeEnd, session, WorstCaseKept
<1>5. QED
  BY <1>1, <1>2, <1>3, <1>4, SessionSteps

\* FR-RUN-8: whatever the passes measured, and however the run was paused,
\* retried or stopped, the session holds the worst point of each frequency.
THEOREM SessionKeepsWorstCase == Spec => []WorstCaseKept
<1>1. Init => WorstCaseKept
  BY DEF Init, WorstCaseKept, KeepsWorst
<1>2. WorkerInv => CounterBounds
  BY DEF WorkerInv
<1>3. QED
  BY <1>1, <1>2, WorstCaseNext, TypeCorrect, WorkerInvariant, PTL DEF Spec

\* The saved run is never one that has not started.
SavedRunStarted == disk.run <= runs

CrashInv == CrashSafe /\ SavedRunStarted

\* A save makes the file the session's copy; a verified point puts it one behind.
LEMMA CrashInvNext ==
  TypeOK /\ TypeOK' /\ WorstCaseKept /\ CrashInv /\ [Next]_vars => CrashInv'
<1> SUFFICES ASSUME TypeOK, TypeOK', WorstCaseKept, CrashInv, [Next]_vars
             PROVE  CrashInv'
  OBVIOUS
<1> USE DEF CrashInv, CrashSafe, SavedRunStarted, SavedOfThisRun
<1>1. CASE /\ UNCHANGED <<results, measured, disk, saved, runs>>
           /\ pc = "checkpoint" => pc' = "checkpoint"
  BY <1>1
<1>2. CASE AdmitRun
  <2>1. runs' = runs + 1 /\ disk' = disk /\ measured' = {} /\ disk.run \in Nat /\ runs \in Nat
    BY <1>2 DEF AdmitRun, TypeOK, SessionTypes
  <2>2. SavedOfThisRun' = <<>> /\ SavedRunStarted'
    BY <2>1
  <2>3. KeepsWorst(<<>>, {})
    BY DEF KeepsWorst
  <2>4. QED
    BY <2>1, <2>2, <2>3
<1>3. ASSUME NEW f \in Freqs, NEW level \in Levels, PointVerified(f, level)
      PROVE  CrashInv'
  <2> DEFINE p == [freq |-> f, level |-> level, pass |-> pass]
  <2>1. /\ pc = "fetch" /\ pc' = "checkpoint"
        /\ measured' = measured \cup {p}
        /\ UNCHANGED <<disk, saved, runs>>
    BY <1>3 DEF PointVerified, storage, history
  <2>2. SavedOfThisRun' = SavedOfThisRun /\ SavedRunStarted'
    BY <2>1
  <2>3. ASSUME saved, p \in measured
        PROVE  KeepsWorst(SavedOfThisRun', measured')
    <3>1. measured' = measured
      BY <2>1, <2>3
    <3>2. QED
      BY <2>1, <2>2, <2>3, <3>1
  <2>4. ASSUME saved, p \notin measured
        PROVE  \E q \in measured' : KeepsWorst(SavedOfThisRun', measured' \ {q})
    <3>1. p \in measured' /\ measured' \ {p} = measured
      BY <2>1, <2>4
    <3>2. KeepsWorst(SavedOfThisRun', measured' \ {p})
      BY <2>1, <2>2, <2>4, <3>1
    <3>3. QED
      BY <3>1, <3>2
  <2>5. QED
    BY <2>1, <2>2, <2>3, <2>4
<1>4. ASSUME NEW ok \in BOOLEAN, Checkpoint(ok) \/ SaveBeforeEnd(ok)
      PROVE  CrashInv'
  <2>1. Autosave(ok) /\ UNCHANGED <<runs, measured, results>>
    BY <1>4 DEF Checkpoint, SaveBeforeEnd, session, history
  <2>2. CASE ok
    <3>1. disk' = [run |-> runs, results |-> results, traces |-> traces]
      BY <2>1, <2>2 DEF Autosave
    <3>2. SavedOfThisRun' = results /\ SavedRunStarted'
      BY <2>1, <3>1 DEF TypeOK, SessionTypes
    <3>3. KeepsWorst(SavedOfThisRun', measured')
      BY <2>1, <3>2 DEF WorstCaseKept
    <3>4. QED
      BY <3>2, <3>3
  <2>3. CASE ~ok
    <3>1. disk' = disk /\ ~saved'
      BY <2>1, <2>3 DEF Autosave
    <3>2. QED
      BY <2>1, <3>1
  <2>4. QED
    BY <2>2, <2>3
<1>5. QED
  BY <1>1, <1>2, <1>3, <1>4, SessionSteps

\* FR-APP-4: a crash at any moment costs at most the point just measured.
THEOREM AutosaveIsCrashSafe == Spec => []CrashSafe
<1>1. Init => CrashInv
  BY DEF Init, CrashInv, CrashSafe, SavedOfThisRun, SavedRunStarted, KeepsWorst
<1>2. CrashInv => CrashSafe
  BY DEF CrashInv
<1>3. QED
  BY <1>1, <1>2, CrashInvNext, TypeCorrect, SessionKeepsWorstCase, PTL DEF Spec

\* What is on disk of this run never exceeds what the session holds.
SessionCoversDisk ==
  disk.run = runs =>
    \A i \in DOMAIN disk.results : \E j \in DOMAIN results :
      /\ results[j].freq = disk.results[i].freq
      /\ results[j].level >= disk.results[i].level

\* A merge takes no point back.
LEMMA MergeCovers ==
  ASSUME NEW rs \in Seq(Point), NEW p \in Point, NEW i \in DOMAIN rs
  PROVE  /\ i \in DOMAIN Merge(rs, p)
         /\ Merge(rs, p)[i].freq = rs[i].freq
         /\ Merge(rs, p)[i].level >= rs[i].level
<1>1. Len(rs) \in Nat /\ i \in 1..Len(rs) /\ rs[i].level \in Int /\ p.level \in Int
  <2>1. Len(rs) \in Nat /\ i \in 1..Len(rs) /\ rs[i] \in Point
    OBVIOUS
  <2>2. QED
    BY <2>1, LevelIsInt
<1>2. CASE \E k \in 1..Len(rs) : rs[k].freq = p.freq
  BY <1>1, <1>2 DEF Merge
<1>3. CASE ~ \E k \in 1..Len(rs) : rs[k].freq = p.freq
  BY <1>1, <1>3 DEF Merge
<1>4. QED
  BY <1>2, <1>3

\* The session stays at least as bad as the file, point for point.
LEMMA CoverNext ==
  TypeOK /\ CounterBounds /\ SessionCoversDisk /\ SavedRunStarted /\ [Next]_vars
  => SessionCoversDisk'
<1> SUFFICES ASSUME TypeOK, CounterBounds, SessionCoversDisk, SavedRunStarted, [Next]_vars
             PROVE  SessionCoversDisk'
  OBVIOUS
<1>0. results \in Seq(Point) /\ disk.results \in Seq(Point)
  BY DEF TypeOK, SessionTypes
<1>1. CASE UNCHANGED <<results, measured, disk, saved, runs>>
  BY <1>1 DEF SessionCoversDisk
<1>2. CASE AdmitRun
  BY <1>2 DEF AdmitRun, SavedRunStarted, SessionCoversDisk, TypeOK, SessionTypes
<1>3. ASSUME NEW f \in Freqs, NEW level \in Levels, PointVerified(f, level)
      PROVE  SessionCoversDisk'
  <2> DEFINE p == [freq |-> f, level |-> level, pass |-> pass]
  <2>1. /\ results' = Merge(results, p)
        /\ UNCHANGED <<disk, runs>>
    BY <1>3 DEF PointVerified, storage, history
  <2>2. p \in Point
    <3>1. pass \in 1..Passes
      BY <1>3, ConfigAssumption DEF PointVerified, TypeOK, LoopTypes,
         CounterBounds, InPass, Acquiring, ConfigAssumption
    <3>2. QED
      BY <3>1 DEF Point
  <2>3. ASSUME disk.run = runs, NEW i \in DOMAIN disk.results
        PROVE  \E j \in DOMAIN results' :
                 /\ results'[j].freq = disk.results[i].freq
                 /\ results'[j].level >= disk.results[i].level
    <3>1. PICK j \in DOMAIN results :
                 /\ results[j].freq = disk.results[i].freq
                 /\ results[j].level >= disk.results[i].level
      BY <2>3 DEF SessionCoversDisk
    <3>2. /\ j \in DOMAIN results' /\ results'[j].freq = results[j].freq
          /\ results'[j].level >= results[j].level
      BY <1>0, <2>1, <2>2, <3>1, MergeCovers
    <3>3. results' \in Seq(Point)
      BY <1>0, <2>1, <2>2, MergeType
    <3>4. /\ results[j] \in Point /\ results'[j] \in Point
          /\ disk.results[i] \in Point
      BY <1>0, <2>3, <3>1, <3>2, <3>3
    <3>5. QED
      BY <3>1, <3>2, <3>4, LevelIsInt
  <2>4. QED
    BY <2>1, <2>3 DEF SessionCoversDisk
<1>4. ASSUME NEW ok \in BOOLEAN, Checkpoint(ok) \/ SaveBeforeEnd(ok)
      PROVE  SessionCoversDisk'
  <2>1. Autosave(ok) /\ UNCHANGED <<runs, measured, results>>
    BY <1>4 DEF Checkpoint, SaveBeforeEnd, session, history
  <2>2. CASE ok
    <3>1. disk' = [run |-> runs, results |-> results, traces |-> traces]
      BY <2>1, <2>2 DEF Autosave
    <3>2. \A i \in DOMAIN results : results[i] \in Point
      BY <1>0
    <3>3. \A i \in DOMAIN results : results[i].level >= results[i].level
      BY <3>2, LevelIsInt
    <3>4. QED
      BY <2>1, <3>1, <3>3 DEF SessionCoversDisk
  <2>3. CASE ~ok
    BY <2>1, <2>3 DEF Autosave, SessionCoversDisk
  <2>4. QED
    BY <2>2, <2>3
<1>5. QED
  BY <1>1, <1>2, <1>3, <1>4, SessionSteps

\* While a run lasts, what a save has put on disk stays there or gets worse.
THEOREM SavesOnlyAdd == Spec => SavedPointsStay
<1> DEFINE Stays ==
      disk'.run = disk.run =>
        \A i \in DOMAIN disk.results : \E j \in DOMAIN disk'.results :
          /\ disk'.results[j].freq = disk.results[i].freq
          /\ disk'.results[j].level >= disk.results[i].level
<1>1. ASSUME TypeOK, SessionCoversDisk, SavedRunStarted, [Next]_vars
      PROVE  [Stays]_disk
  <2>1. CASE UNCHANGED disk
    BY <2>1
  <2>2. ASSUME NEW ok \in BOOLEAN, Checkpoint(ok) \/ SaveBeforeEnd(ok)
        PROVE  [Stays]_disk
    <3>1. Autosave(ok)
      BY <2>2 DEF Checkpoint, SaveBeforeEnd
    <3>2. QED
      BY <1>1, <3>1 DEF Autosave, SessionCoversDisk
  <2>3. AdmitRun => UNCHANGED disk
    BY DEF AdmitRun
  <2>4. \A f \in Freqs, level \in Levels : PointVerified(f, level) => UNCHANGED disk
    BY DEF PointVerified, storage
  <2>5. QED
    BY <1>1, <2>1, <2>2, <2>3, <2>4, SessionSteps
<1>2. Init => SessionCoversDisk /\ SavedRunStarted
  BY DEF Init, SessionCoversDisk, SavedRunStarted
<1>3. CrashInv => SavedRunStarted
  BY DEF CrashInv
<1>4. Init => CrashInv
  BY DEF Init, CrashInv, CrashSafe, SavedOfThisRun, SavedRunStarted, KeepsWorst
<1>5. WorkerInv => CounterBounds
  BY DEF WorkerInv
<1>6. QED
  BY <1>1, <1>2, <1>3, <1>4, <1>5, CoverNext, CrashInvNext, TypeCorrect,
     WorkerInvariant, SessionKeepsWorstCase, PTL DEF Spec, SavedPointsStay

-----------------------------------------------------------------------------
(* A finished run is complete.                                             *)

\* The peaks verified so far, pass by pass.
Verified == {<<p.pass, p.freq>> : p \in measured}

\* What a scan has still to add to the session.
Scanning == stage = "scan" /\ pc \in Waiting \cup Acquiring \cup {"gate", "analyse"}

\* Nothing of an earlier run is left when a run begins.
FreshStart ==
  pc \in {"idle", "startCommands"} \cup Entering =>
    /\ pass = 0 /\ pending = {} /\ stage = "scan" /\ outcome = "Failed"
    /\ pc = "startCommands" => traces = 0 /\ measured = {} /\ flagged = {}

\* One trace per scanned pass; a flagged peak is verified or pending.
NothingSkipped ==
  pc \in InPass =>
    /\ traces = IF Scanning THEN pass - 1 ELSE pass
    /\ flagged = Verified \cup {<<pass, f>> : f \in pending}
    /\ (stage = "scan" /\ pc # "dwell") \/ pc = "nextPass" => pending = {}
    /\ pc = "dwell" => stage = "scan"

NothingMissing ==
  outcome = "Finished" =>
    /\ pc \in Ending \cup {"leave"} => traces = Passes /\ flagged = Verified
    /\ pc \in {"stopCommands", "report", "leave"} /\ saved =>
         disk = [run |-> runs, results |-> results, traces |-> traces]

CompleteInv == FreshStart /\ NothingSkipped /\ NothingMissing

\* No step loses a flagged peak, a scanned pass, or the last save.
LEMMA CompleteNext ==
  TypeOK /\ WorkerInv /\ CompleteInv /\ [Next]_vars => CompleteInv'
<1> SUFFICES ASSUME TypeOK, WorkerInv, CompleteInv, [Next]_vars PROVE CompleteInv'
  OBVIOUS
<1> USE ConfigAssumption DEF ConfigAssumption, CompleteInv, FreshStart,
        NothingSkipped, NothingMissing, Scanning, Verified,
        Waiting, Acquiring, Entering, Ending, InPass,
        flags, shared, setup, session, storage, place, position, loop,
        history, quiet, worker
<1>1. CASE Queue
  BY <1>1 DEF Queue, SetConfiguration, SetDriver, Start
<1>2. CASE Control \/ WakeSpuriously
  BY <1>2 DEF Control, FinishCall, WakeSpuriously, RequestPause, StorePause,
     RequestAbort, AbortCancelsToken, AbortReachesDriver, Unpause,
     RequestResume, AbortUnpauses, Notify, AbortDriverOnly
<1>3. CASE ClearAbort \/ ClearPause \/ ResetCancel \/ RefuseRun \/ AdmitRun
  BY <1>3 DEF ClearAbort, ClearPause, ResetCancel, RefuseRun, AdmitRun
<1>4. ASSUME NEW ok \in BOOLEAN, SendStartCommand(ok) \/ SendStopCommand(ok)
      PROVE  CompleteInv'
  BY <1>4 DEF SendStartCommand, SendStopCommand
<1>5. CASE StopCommandsDone \/ ReportEnd \/ Leave
  BY <1>5 DEF StopCommandsDone, ReportEnd, Leave
<1>6. CASE BeginPass
  BY <1>6 DEF BeginPass, TypeOK, LoopTypes
<1>7. CASE AllPassesDone
  BY <1>7 DEF AllPassesDone
<1>8. CASE GateStops \/ AttemptStops \/ CallCancelled
  BY <1>8 DEF GateStops, AttemptStops, CallCancelled, EndRun
<1>9. CASE GatePasses \/ GatePauses \/ LockForWait \/ WaitReturns \/ WaitBlocks \/ Sleep \/ ResumePhase
  BY <1>9 DEF GatePasses, GatePauses, LockForWait, WaitReturns, WaitBlocks, Sleep,
     ResumePhase
<1>10. ASSUME NEW ok \in BOOLEAN, Prepare(ok) \/ ConfigureSweep(ok)
      PROVE  CompleteInv'
  BY <1>10 DEF Prepare, ConfigureSweep, EndRun, Retry
<1>11. CASE AttemptBegins \/ Arm \/ CallFails \/ SweepCompletes
  BY <1>11 DEF AttemptBegins, Arm, CallFails, SweepCompletes, Retry
<1>12. CASE SegmentFetched \/ BeginDwell
  BY <1>12 DEF SegmentFetched, BeginDwell
<1>13. ASSUME NEW peaks \in SUBSET Freqs, AnalysePeaks(peaks)
      PROVE  CompleteInv'
  <2>1. /\ pc = "analyse" /\ pc' \in {"nextPass", "dwell"} /\ stage = "scan"
        /\ pc' = "nextPass" => peaks = {}
        /\ traces' = traces + 1 /\ pending' = peaks
        /\ flagged' = flagged \cup {<<pass, f>> : f \in peaks}
        /\ UNCHANGED <<pass, stage, outcome, measured>>
    BY <1>13 DEF AnalysePeaks, WorkerInv, PhaseFollowsWorker
  <2>2. traces = pass - 1 /\ flagged = Verified
    BY <2>1
  <2>3. traces' = pass'
    BY <2>1, <2>2 DEF TypeOK, LoopTypes
  <2>4. flagged' = Verified' \cup {<<pass', f>> : f \in pending'}
    BY <2>1, <2>2
  <2>5. FreshStart' /\ NothingMissing'
    BY <2>1
  <2>6. QED
    BY <2>1, <2>3, <2>4, <2>5
<1>14. ASSUME NEW f \in Freqs, NEW level \in Levels, PointVerified(f, level)
      PROVE  CompleteInv'
  <2> DEFINE p == [freq |-> f, level |-> level, pass |-> pass]
  <2>1. /\ pc = "fetch" /\ pc' = "checkpoint" /\ stage = "dwell" /\ f \in pending
        /\ measured' = measured \cup {p} /\ pending' = pending \ {f}
        /\ UNCHANGED <<pass, stage, outcome, traces, flagged>>
    BY <1>14 DEF PointVerified
  <2>2. Verified' = Verified \cup {<<pass, f>>}
    <3>1. p.pass = pass /\ p.freq = f
      OBVIOUS
    <3> HIDE DEF p
    <3>2. {<<q.pass, q.freq>> : q \in measured'} = {<<q.pass, q.freq>> : q \in measured} \cup {<<p.pass, p.freq>>}
      BY <2>1
    <3>3. QED
      BY <3>1, <3>2
  <2>3. {<<pass, g>> : g \in pending} = {<<pass, f>>} \cup {<<pass, g>> : g \in pending'}
    BY <2>1
  <2>4. flagged = Verified \cup {<<pass, g>> : g \in pending}
    BY <2>1
  <2>5. flagged' = Verified' \cup {<<pass', g>> : g \in pending'}
    <3> HIDE DEF Verified
    <3>1. flagged' = flagged /\ pass' = pass
      BY <2>1
    <3>2. QED
      BY <2>2, <2>3, <2>4, <3>1
  <2>6. FreshStart' /\ NothingMissing'
    BY <2>1
  <2>7. QED
    BY <2>1, <2>5, <2>6
<1>15. ASSUME NEW ok \in BOOLEAN, Checkpoint(ok) \/ SaveBeforeEnd(ok)
      PROVE  CompleteInv'
  BY <1>15 DEF Checkpoint, SaveBeforeEnd, Autosave, WorkerInv, PhaseFollowsWorker
<1>16. CASE UNCHANGED vars
  BY <1>16 DEF vars
<1>17. QED
  BY <1>1, <1>2, <1>3, <1>4, <1>5, <1>6, <1>7, <1>8, <1>9, <1>10, <1>11,
     <1>12, <1>13, <1>14, <1>15, <1>16 DEF Next, Step

\* A run that ends as Finished scanned every pass, verified every peak any scan
\* flagged, and has all of it on disk unless the last save was refused.
THEOREM FinishedRunIsComplete == Spec => []FinishedIsComplete
<1>1. Init => CompleteInv
  BY DEF Init, CompleteInv, FreshStart, NothingSkipped, NothingMissing,
     Waiting, Acquiring, Entering, Ending, InPass
<1>2. CompleteInv => FinishedIsComplete
  BY DEF CompleteInv, NothingMissing, Verified, FinishedIsComplete, Ending
<1>3. QED
  BY <1>1, <1>2, CompleteNext, TypeCorrect, WorkerInvariant, PTL DEF Spec

-----------------------------------------------------------------------------
(* Aborting.                                                               *)

\* An attempt that goes out after the abort is the last one of its run.
AbortInv == late \in {0, 1} /\ (late = 1 => abortRequested /\ pc # "configure")

\* No step lets a second attempt out after an abort.
LEMMA AbortNext == TypeOK /\ AbortInv /\ [Next]_vars => AbortInv'
<1> SUFFICES ASSUME TypeOK, AbortInv, [Next]_vars PROVE AbortInv'
  OBVIOUS
<1> USE DEF AbortInv, flags, shared, setup, session, storage, place, position,
            loop, history, quiet, worker
<1>1. CASE Queue
  BY <1>1 DEF Queue, SetConfiguration, SetDriver, Start
<1>2. CASE Control \/ WakeSpuriously
  BY <1>2 DEF Control, FinishCall, WakeSpuriously, RequestPause, StorePause,
     RequestAbort, AbortCancelsToken, AbortReachesDriver, Unpause,
     RequestResume, AbortUnpauses, Notify, AbortDriverOnly
<1>3. CASE ClearAbort
  BY <1>3 DEF ClearAbort
<1>4. ASSUME NEW ok \in BOOLEAN, ConfigureSweep(ok)
      PROVE  AbortInv'
  BY <1>4 DEF ConfigureSweep, Retry
<1>5. CASE AttemptBegins
  BY <1>5 DEF AttemptBegins
<1>6. ASSUME Step, ~ClearAbort, ~AttemptBegins, ~ \E ok \in BOOLEAN : ConfigureSweep(ok)
      PROVE  UNCHANGED <<late, abortRequested>> /\ pc' # "configure"
  BY <1>6 DEF Step, ClearPause, ResetCancel, RefuseRun, AdmitRun,
     SendStartCommand, SendStopCommand, StopCommandsDone, ReportEnd, Leave,
     BeginPass, AllPassesDone, GateStops, GatePasses, GatePauses, LockForWait,
     WaitReturns, WaitBlocks, Sleep, ResumePhase, Prepare, AttemptStops, Arm,
     CallFails, CallCancelled, SweepCompletes, SegmentFetched, BeginDwell,
     AnalysePeaks, PointVerified, Checkpoint, SaveBeforeEnd, EndRun, Retry
<1>7. CASE UNCHANGED vars
  BY <1>7 DEF vars
<1>8. QED
  BY <1>1, <1>2, <1>3, <1>4, <1>5, <1>6, <1>7 DEF Next

\* FR-RUN-5: an abort costs at most the one sweep attempt already begun.
THEOREM AbortsArePrompt == Spec => []AbortIsPrompt
<1>1. Init => AbortInv
  BY DEF Init, AbortInv
<1>2. AbortInv => AbortIsPrompt
  BY DEF AbortInv, AbortIsPrompt
<1>3. QED
  BY <1>1, <1>2, AbortNext, TypeCorrect, PTL DEF Spec

-----------------------------------------------------------------------------
(* The job that runs it.                                                   *)

\* Whatever the job does, the engine makes one of its own steps or none.
LEMMA JobStepsEngine == [JobNext]_jobVars => [Next]_vars
<1> SUFFICES ASSUME [JobNext]_jobVars PROVE [Next]_vars
  OBVIOUS
<1> USE DEF engine
<1>1. ASSUME NEW ok \in BOOLEAN,
             \/ BuildConfiguration(ok) \/ ConnectInstrument(ok) \/ CheckRange(ok)
             \/ WriteOutputs(ok) \/ Conclude(ok)
      PROVE  UNCHANGED vars
  BY <1>1 DEF BuildConfiguration, ConnectInstrument, CheckRange, Check,
     WriteOutputs, Conclude
<1>2. ASSUME NEW ok \in BOOLEAN, GiveConfiguration(ok) PROVE Next
  BY <1>2 DEF GiveConfiguration, Next, Queue
<1>3. CASE GiveDriver \/ EnterEngine
  BY <1>3 DEF GiveDriver, EnterEngine, Next, Queue
<1>4. CASE PublishEngine \/ CheckAbort \/ EngineReturns \/ WithdrawEngine \/ Exit
  BY <1>4 DEF PublishEngine, CheckAbort, EngineReturns, WithdrawEngine, Exit
<1>5. CASE EngineStep
  BY <1>5 DEF EngineStep, Next
<1>6. CASE WatcherNotices \/ WatcherReturns \/ WatcherStops \/ Signal \/ Ended
  BY <1>6 DEF WatcherNotices, WatcherReturns, WatcherStops, Signal, Ended, jobVars
<1>7. CASE WatcherCalls \/ WatcherGoesOn
  BY <1>7 DEF WatcherCalls, WatcherGoesOn, Next, Control
<1>8. CASE UNCHANGED jobVars
  BY <1>8 DEF jobVars
<1>9. QED
  BY <1>1, <1>2, <1>3, <1>4, <1>5, <1>6, <1>7, <1>8 DEF JobNext, Run, Watch

\* So what the engine keeps true on its own it keeps true inside a job.
LEMMA EngineInJob == JobSpec => [](TypeOK /\ WorkerInv /\ CompleteInv)
<1>1. JobInit => TypeOK /\ WorkerInv /\ CompleteInv
  <2>1. Init => CompleteInv
    BY DEF Init, CompleteInv, FreshStart, NothingSkipped, NothingMissing,
       Waiting, Acquiring, Entering, Ending, InPass
  <2>2. QED
    BY <2>1, TypeInit, WorkerInit DEF JobInit
<1>2. TypeOK /\ WorkerInv /\ CompleteInv /\ [Next]_vars
      => TypeOK' /\ WorkerInv' /\ CompleteInv'
  BY TypeNext, WorkerNext, CompleteNext DEF WorkerInv
<1>3. QED
  BY <1>1, <1>2, JobStepsEngine, PTL DEF JobSpec

-----------------------------------------------------------------------------
(* The watcher and the engine's lifetime.                                  *)

\* The watcher holds the lock exactly while it is inside the engine, and the
\* engine is only withdrawn while nobody holds it.
LockInv ==
  /\ holder = "watcher" <=> watcher = "calling"
  /\ ctl # "idle" => watcher = "calling"
  /\ watcher = "calling" => published

\* Only a call of the watcher moves the controlling thread's position.
LEMMA EngineLeavesCaller ==
  \/ Step \/ Start
  \/ \E present \in BOOLEAN : SetDriver(present)
  \/ \E valid \in BOOLEAN : SetConfiguration(valid)
  => UNCHANGED ctl
BY DEF Step, ClearAbort, ClearPause, ResetCancel, RefuseRun, AdmitRun,
   SendStartCommand, SendStopCommand, StopCommandsDone, ReportEnd, Leave,
   BeginPass, AllPassesDone, GateStops, GatePasses, GatePauses, LockForWait,
   WaitReturns, WaitBlocks, Sleep, ResumePhase, Prepare, ConfigureSweep,
   AttemptStops, AttemptBegins, Arm, CallFails, CallCancelled, SweepCompletes,
   SegmentFetched, BeginDwell, AnalysePeaks, PointVerified, Checkpoint,
   SaveBeforeEnd, Start, SetDriver, SetConfiguration, quiet

\* No step of either thread breaks the agreement about the lock.
LEMMA LockNext == LockInv /\ [JobNext]_jobVars => LockInv'
<1> SUFFICES ASSUME LockInv, [JobNext]_jobVars PROVE LockInv'
  OBVIOUS
<1> USE DEF LockInv, cancelling
<1>1. CASE UNCHANGED <<ctl, watcher, holder, published>>
  BY <1>1
<1>2. CASE PublishEngine \/ WithdrawEngine
  BY <1>2 DEF PublishEngine, WithdrawEngine, engine, vars
<1>3. CASE WatcherNotices \/ WatcherReturns \/ WatcherStops
  BY <1>3 DEF WatcherNotices, WatcherReturns, WatcherStops, engine, vars
<1>4. CASE WatcherCalls \/ WatcherGoesOn
  BY <1>4 DEF WatcherCalls, WatcherGoesOn, engine, vars
<1>5. ASSUME Run, ~PublishEngine, ~WithdrawEngine
      PROVE  UNCHANGED <<ctl, watcher, holder, published>>
  <2>1. GiveDriver \/ EnterEngine \/ EngineStep
        \/ (\E ok \in BOOLEAN : GiveConfiguration(ok))
        => UNCHANGED <<ctl, watcher, holder, published>>
    BY EngineLeavesCaller DEF GiveDriver, EnterEngine, EngineStep, GiveConfiguration
  <2>2. QED
    BY <1>5, <2>1 DEF Run, BuildConfiguration, ConnectInstrument, CheckRange,
       Check, WriteOutputs, Conclude, CheckAbort, EngineReturns, Exit, engine, vars
<1>6. Signal \/ Ended => UNCHANGED <<ctl, watcher, holder, published>>
  BY DEF Signal, Ended, engine, vars, jobVars
<1>7. QED
  BY <1>1, <1>2, <1>3, <1>4, <1>5, <1>6 DEF JobNext, Watch, jobVars, engine, vars

\* The watcher never calls into an engine that the run has withdrawn, which is
\* what m_engineMutex is for.
THEOREM EngineLivesLongEnough == JobSpec => []EngineOutlivesCall
<1>1. JobInit => LockInv
  BY DEF JobInit, Init, LockInv
<1>2. LockInv => EngineOutlivesCall
  BY DEF LockInv, EngineOutlivesCall
<1>3. QED
  BY <1>1, <1>2, LockNext, PTL DEF JobSpec

-----------------------------------------------------------------------------
(* The exit code.                                                          *)

\* The job has no verdict before the engine has returned for good, and what it
\* is given stands for the phase the engine was left in.
CodeInv ==
  /\ inTime \in BOOLEAN /\ asked \in BOOLEAN /\ written \in BOOLEAN
  /\ inTime => asked
  /\ code \in Verdicts => runner \in {"stopping", "exited"}
  /\ runner = "verdict" => written
  /\ runner # "running" => pc = "idle"
  /\ CancelledNeverPasses /\ VerdictIsEarned

\* The phase a run ended in outlives it together with its traces.
FinishedPhase == pc \in {"leave", "idle"} /\ phase = "Finished" => traces = Passes

\* Only the end of a run brings the engine back with the phase Finished.
LEMMA FinishedPhaseNext ==
  TypeOK /\ WorkerInv /\ CompleteInv /\ FinishedPhase /\ [Next]_vars => FinishedPhase'
<1> SUFFICES ASSUME TypeOK, WorkerInv, CompleteInv, FinishedPhase, [Next]_vars
             PROVE  FinishedPhase'
  OBVIOUS
<1> USE DEF FinishedPhase, shared, quiet, worker, session, storage, setup, loop, history
<1>1. CASE ReportEnd \/ Leave \/ RefuseRun
  BY <1>1 DEF ReportEnd, Leave, RefuseRun, CompleteInv, NothingMissing, Ending
<1>2. CASE Queue
  BY <1>2 DEF Queue, SetConfiguration, SetDriver, Start
<1>3. CASE Control \/ WakeSpuriously
  BY <1>3 DEF Control, FinishCall, WakeSpuriously, RequestPause, StorePause,
     RequestAbort, AbortCancelsToken, AbortReachesDriver, Unpause,
     RequestResume, AbortUnpauses, Notify, AbortDriverOnly
<1>4. ASSUME Step, ~ReportEnd, ~Leave, ~RefuseRun
      PROVE  pc' \notin {"leave", "idle"}
  BY <1>4 DEF Step, ClearAbort, ClearPause, ResetCancel, AdmitRun,
     SendStartCommand, SendStopCommand, StopCommandsDone,
     BeginPass, AllPassesDone, GateStops, GatePasses, GatePauses, LockForWait,
     WaitReturns, WaitBlocks, Sleep, ResumePhase, Prepare, ConfigureSweep,
     AttemptStops, AttemptBegins, Arm, CallFails, CallCancelled, SweepCompletes,
     SegmentFetched, BeginDwell, AnalysePeaks, PointVerified, Checkpoint,
     SaveBeforeEnd, EndRun, Retry
<1>5. CASE UNCHANGED vars
  BY <1>5 DEF vars
<1>6. QED
  BY <1>1, <1>2, <1>3, <1>4, <1>5 DEF Next

\* What the engine keeps true, a job included: see above.
LEMMA FinishedPhaseInJob == JobSpec => []FinishedPhase
<1>1. JobInit => FinishedPhase
  BY DEF JobInit, Init, FinishedPhase
<1>2. QED
  BY <1>1, FinishedPhaseNext, EngineInJob, JobStepsEngine, PTL DEF JobSpec

\* The way from the early checks to the exit code is the only one, and the
\* engine is not touched once its run is over.
LEMMA CodeNext == FinishedPhase /\ CodeInv /\ [JobNext]_jobVars => CodeInv'
<1> SUFFICES ASSUME FinishedPhase, CodeInv, [JobNext]_jobVars PROVE CodeInv'
  OBVIOUS
<1> USE DEF CodeInv, CancelledNeverPasses, VerdictIsEarned, Verdicts, cancelling
<1>1. ASSUME NEW ok \in BOOLEAN,
             BuildConfiguration(ok) \/ ConnectInstrument(ok) \/ CheckRange(ok)
      PROVE  CodeInv'
  BY <1>1 DEF BuildConfiguration, ConnectInstrument, CheckRange, Check, engine,
     vars, worker, session
<1>2. ASSUME NEW ok \in BOOLEAN, GiveConfiguration(ok) \/ GiveDriver \/ EnterEngine
      PROVE  CodeInv'
  <2>1. /\ UNCHANGED <<asked, inTime, written, code>>
        /\ runner \in {"configure", "setDriver", "start"}
        /\ runner' # "verdict"
        /\ runner' # "running" => pc' = pc
    BY <1>2 DEF GiveConfiguration, GiveDriver, EnterEngine, SetConfiguration,
       SetDriver
  <2>2. QED
    BY <2>1
<1>3. CASE PublishEngine \/ CheckAbort \/ EngineReturns \/ WithdrawEngine \/ Exit
  BY <1>3 DEF PublishEngine, CheckAbort, EngineReturns, WithdrawEngine, Exit,
     engine, vars, worker, session
<1>4. CASE EngineStep
  BY <1>4 DEF EngineStep
<1>5. ASSUME NEW ok \in BOOLEAN, WriteOutputs(ok)
      PROVE  CodeInv'
  BY <1>5 DEF WriteOutputs, engine, vars, worker, session
<1>6. ASSUME NEW exceeds \in BOOLEAN, Conclude(exceeds)
      PROVE  CodeInv'
  BY <1>6 DEF Conclude, ExitCodeFor, FinishedPhase, engine, vars, worker, session
<1>7. CASE WatcherNotices
  <2>1. /\ UNCHANGED <<runner, code, written, pc, phase, traces>> /\ asked' = TRUE
        /\ inTime' <=> runner \notin {"stopping", "exited"}
    BY <1>7 DEF WatcherNotices, engine, vars, worker, session
  <2>2. inTime' \in BOOLEAN
    BY <1>7, Zenon DEF WatcherNotices
  <2>3. QED
    BY <2>1, <2>2
<1>8. CASE WatcherReturns \/ WatcherStops \/ Signal \/ Ended
  BY <1>8 DEF WatcherReturns, WatcherStops, Signal, Ended, jobVars, engine, vars,
     worker, session
<1>9. ASSUME WatcherCalls \/ WatcherGoesOn
      PROVE  /\ UNCHANGED <<runner, signalled, asked, inTime, code, written, phase, traces>>
             /\ runner # "running" => pc' = "idle"
  BY <1>9 DEF WatcherCalls, WatcherGoesOn, RequestAbort, FinishCall, StorePause,
     AbortCancelsToken, AbortReachesDriver, AbortUnpauses, Unpause, Notify,
     engine, vars, worker, session
<1>10. CASE UNCHANGED jobVars
  BY <1>10 DEF jobVars, engine, vars, worker, session
<1>11. QED
  BY <1>1, <1>2, <1>3, <1>4, <1>5, <1>6, <1>7, <1>8, <1>9, <1>10 DEF JobNext, Run,
     Watch

\* The two promises of the exit code, in one inductive invariant.
LEMMA CodeInvariant == JobSpec => []CodeInv
<1>1. JobInit => CodeInv
  BY DEF JobInit, Init, CodeInv, CancelledNeverPasses, VerdictIsEarned, Verdicts
<1>2. QED
  BY <1>1, CodeNext, FinishedPhaseInJob, PTL DEF JobSpec

\* A job cancelled before its exit code was decided does not exit claiming that
\* the equipment passed or failed its limits.
THEOREM CancelledJobHasNoVerdict == JobSpec => []CancelledNeverPasses
<1>1. CodeInv => CancelledNeverPasses
  BY DEF CodeInv
<1>2. QED
  BY <1>1, CodeInvariant, PTL

\* A verdict stands for a finished run of all its passes, written out in full.
THEOREM VerdictsAreEarned == JobSpec => []VerdictIsEarned
<1>1. CodeInv => VerdictIsEarned
  BY DEF CodeInv
<1>2. QED
  BY <1>1, CodeInvariant, PTL

=============================================================================

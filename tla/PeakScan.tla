------------------------------- MODULE PeakScan -------------------------------
(***************************************************************************)
(* One pass of a run as a measurement: the plan, the sweeps of its         *)
(* segments, their stitching, the peaks found, and the dwell on each       *)
(* (core/engine/MeasurementEngine.cpp, whose control flow is the subject   *)
(* of the module of that name; nothing is retried, paused or aborted here).*)
(*                                                                         *)
(* The instrument is an ideal one in front of narrowband emitters: a       *)
(* sample shows the strongest emission within half a resolution bandwidth  *)
(* of its frequency.  This is what the comment in planSegments() assumes,  *)
(* that between samples further apart "narrowband emissions fall".         *)
(***************************************************************************)
EXTENDS LimitsAndPeaks

CONSTANTS
  Configurations,  \* what setConfiguration() may be given
  Instruments,     \* what capabilities() may return
  EmissionLevels,  \* how strong an emission is at the instrument's input
  Noise            \* what a sample without an emission reads

\* The points of a limit line or a correction table.
Breakpoints == Seq([freq : Int, level : Int, kind : {"log", "linear", "step"}])

ASSUME ConfigurationsAssumption ==
  \A c \in Configurations :
    /\ {c.span.start, c.span.stop, c.points, c.rbw, c.dwellSpan, c.dwellPoints,
        c.dwellRbw, c.spacing, c.maxCount, c.prominence, c.floor, c.threshold,
        c.marginal} \subseteq Int
    /\ c.threshold < Infinite
    /\ c.limits \in Seq(Breakpoints)
    /\ c.corrections \in Seq([enabled : BOOLEAN, sign : {-1, 1}, points : Breakpoints])

\* Frequencies have a logarithm wherever a limit or a correction is interpolated.
ASSUME LogAssumption ==
  \A c \in Configurations :
    \A points \in {c.limits[i] : i \in 1..Len(c.limits)}
                   \cup {c.corrections[i].points : i \in 1..Len(c.corrections)} :
      \A i, j \in 1..Len(points) :
        \A f \in points[i].freq..points[j].freq : Log[f] \in Int

ASSUME InstrumentsAssumption ==
  \A r \in Instruments :
    /\ {r.range.start, r.range.stop, r.minPoints, r.maxPoints} \subseteq Int
    /\ r.rbws \subseteq Nat \ {0} /\ IsFiniteSet(r.rbws)

ASSUME LevelsAssumption ==
  EmissionLevels \subseteq Int /\ Noise \in Int /\ Infinite \in Nat

VARIABLES
  config, instrument, emissions,   \* chosen once
  pc,          \* "idle", "scan", "dwell", "finished" or "failed"
  segments,    \* what planSegments() returned
  acquired,    \* the sweeps of this pass, with the parameters they ran at
  scan,        \* the stitched trace, not corrected
  candidates,  \* the peaks still to be verified
  results      \* the verified points

given == <<config, instrument, emissions>>
vars == <<given, pc, segments, acquired, scan, candidates, results>>

Reading(f, rbw) ==
  Max({Noise} \cup
          {e.level : e \in {d \in emissions : 2 * Distance(d.freq, f) <= rbw}})

\* A sweep at these parameters, as the trace fetchTrace() returns.
Acquire(params) ==
  [params |-> params,
   samples |-> [i \in 1..params.points |->
      LET f == FrequencyAt(params.span, params.points, i)
      IN  [freq |-> f, level |-> Reading(f, params.rbw)]]]

\* One trace from many.  Of samples in a row at one frequency, which is how two
\* segments share their edge, one is kept, with the highest of their readings.
HighestShared(samples, k) ==
  Max({samples[m].level :
             m \in {n \in k..Len(samples) :
                      \A j \in k..n : samples[j].freq = samples[k].freq}})

Stitch(sweeps) ==
  LET samples == FlattenSeq([k \in 1..Len(sweeps) |-> sweeps[k].samples])
      kept == Ascending({k \in 1..Len(samples) :
                           k = 1 \/ samples[k - 1].freq # samples[k].freq})
  IN  [i \in 1..Len(kept) |-> [freq |-> samples[kept[i]].freq,
                               level |-> HighestShared(samples, kept[i])]]

Corrected(trace) ==
  [i \in 1..Len(trace) |->
     [trace[i] EXCEPT !.level = @ + TotalCorrection(config.corrections,
                                                    trace[i].freq)]]

Point(f, raw) ==
  LET level == raw + TotalCorrection(config.corrections, f)
      margin == Margin(config.limits, f, level)
  IN  [freq |-> f, raw |-> raw, level |-> level,
       margin |-> margin, verdict |-> Classify(margin, config.marginal)]

MaximumAmplitude(sweep) ==
  Max({sweep.samples[i].level : i \in 1..Len(sweep.samples)})

\* RunConfiguration::validate(), as far as it concerns spans, points and limits; what it
\* asks of passes and retries is ConfigAssumption of the module MeasurementEngine.
ConfigurationValid ==
  /\ IsValid(config.span) /\ config.points >= 2 /\ config.maxCount > 0
  /\ \A i \in 1..Len(config.limits) : LineValid(config.limits[i])

-----------------------------------------------------------------------------
Emission == [freq : config.span.start..config.span.stop, level : EmissionLevels]

Init ==
  /\ config \in Configurations /\ instrument \in Instruments
  /\ emissions \in {{}} \cup {{d, e} : d, e \in Emission}
  /\ pc = "idle" /\ segments = <<>> /\ acquired = <<>> /\ scan = <<>>
  /\ candidates = <<>> /\ results = <<>>

RefuseRun ==
  /\ pc = "idle" /\ ~ConfigurationValid
  /\ pc' = "failed"
  /\ UNCHANGED <<given, segments, acquired, scan, candidates, results>>

PlanScan ==
  /\ pc = "idle" /\ ConfigurationValid
  /\ segments' = PlanSegments(config) /\ pc' = "scan"
  /\ UNCHANGED <<given, acquired, scan, candidates, results>>

NextSweep == Coerce(instrument, Phase1Params(config, segments[Len(acquired) + 1]))

SweepSegment ==
  /\ pc = "scan" /\ Len(acquired) < Len(segments)
  /\ Accepts(instrument, NextSweep)
  /\ acquired' = Append(acquired, Acquire(NextSweep))
  /\ UNCHANGED <<given, pc, segments, scan, candidates, results>>

SweepRefused ==
  /\ pc = "scan" /\ Len(acquired) < Len(segments)
  /\ ~Accepts(instrument, NextSweep)
  /\ pc' = "failed"
  /\ UNCHANGED <<given, segments, acquired, scan, candidates, results>>

Analyse ==
  /\ pc = "scan" /\ Len(acquired) = Len(segments)
  /\ LET stitched == Stitch(acquired)
         corrected == Corrected(stitched)
     IN  /\ scan' = stitched
         /\ candidates' = DetectPeaks(corrected, config)
  /\ pc' = IF candidates' = <<>> THEN "finished" ELSE "dwell"
  /\ UNCHANGED <<given, segments, acquired, results>>

NextDwell == Coerce(instrument, Phase2Params(config, Head(candidates).freq))

VerifyPeak ==
  /\ pc = "dwell" /\ Accepts(instrument, NextDwell)
  /\ results' = Append(results, Point(Head(candidates).freq,
                                      MaximumAmplitude(Acquire(NextDwell))))
  /\ candidates' = Tail(candidates)
  /\ pc' = IF candidates' = <<>> THEN "finished" ELSE "dwell"
  /\ UNCHANGED <<given, segments, acquired, scan>>

VerifyRefused ==
  /\ pc = "dwell" /\ ~Accepts(instrument, NextDwell)
  /\ pc' = "failed"
  /\ UNCHANGED <<given, segments, acquired, scan, candidates, results>>

Next == \/ RefuseRun \/ PlanScan \/ SweepSegment \/ SweepRefused \/ Analyse
        \/ VerifyPeak \/ VerifyRefused

Spec == Init /\ [][Next]_vars

-----------------------------------------------------------------------------
(* Properties.                                                             *)

Planned == pc \in {"scan", "dwell", "finished"}

\* The sweeps of a scan cover its span once: nothing between two segments is
\* left out, and the last one ends where the scan does (planSegments()).
SegmentsTile == Planned => Tiles(segments, config.span)

\* A segment exceeds the widest span the bin budget allows by less than one
\* hertz per segment: the remainder of the division (RunConfiguration.cpp:64-67).
SegmentsNarrow ==
  Planned => \A i \in 1..Len(segments) :
               Width(segments[i]) < MaximumWidth(config) + Len(segments)

AllResolve == \A k \in 1..Len(acquired) : Resolves(acquired[k].params)
WidestRbw == Max({acquired[k].params.rbw : k \in 1..Len(acquired)})

\* What a scan covers when its span leaves the instrument's range.
Reach == Coerce(instrument, Phase1Params(config, config.span)).span

\* Where every sweep steps no further than its bandwidth, no emission within
\* reach is missed: some sample of the stitched trace reads at least its level,
\* within half a bandwidth of its frequency.
EmissionsSeen ==
  pc \in {"dwell", "finished"} /\ AllResolve =>
    \A e \in {d \in emissions : d.freq \in Reach.start..Reach.stop} : \E i \in 1..Len(scan) :
      scan[i].level >= e.level /\ 2 * Distance(scan[i].freq, e.freq) <= WidestRbw

\* The stitched trace is one axis, strictly increasing, with a sample for every
\* sample of a segment, and the highest of those at one frequency (stitch()).
ScanKeepsWorst ==
  pc \in {"dwell", "finished"} =>
    LET taken == UNION {{acquired[k].samples[i] : i \in 1..acquired[k].params.points} :
                          k \in 1..Len(acquired)}
    IN  /\ \A i \in 2..Len(scan) : scan[i - 1].freq < scan[i].freq
        /\ \A i \in 1..Len(scan) : scan[i] \in taken
        /\ \A s \in taken : \E i \in 1..Len(scan) :
             scan[i].freq = s.freq /\ scan[i].level >= s.level

\* Sample i rises by the configured prominence out of a hollow on each side, or none is
\* asked for, and it is the first of its hill to be as high.
StandsOut(trace, i) ==
  LET Rises(a) == /\ trace[a].level <= trace[i].level - config.prominence
                  /\ \A m \in Smaller(a, i)..Larger(a, i) :
                       trace[m].level <= trace[i].level
  IN  /\ \E a \in 1..i : Rises(a)
      /\ \E b \in i..Len(trace) : Rises(b)
      /\ i > 1 => trace[i - 1].level < trace[i].level
      /\ i < Len(trace) => trace[i + 1].level <= trace[i].level

\* The peaks that get a dwell are those that stand out and come near a limit,
\* in the order of their margins and no two of them too close; whichever one is
\* left out gives way to a more critical peak beside it, or to the cap filled by
\* peaks at least as critical (FR-RUN-1, FR-RUN-2; detectPeaks()).
CriticalPeaksFlagged ==
  pc \in {"dwell", "finished"} =>
    LET trace == Corrected(scan)
        At(f) == CHOOSE i \in 1..Len(trace) : trace[i].freq = f
        Room(i) == Margin(config.limits, trace[i].freq, trace[i].level)
        critical == {i \in 1..Len(trace) :
                       /\ Len(trace) > 2 /\ StandsOut(trace, i)
                       /\ trace[i].level >= config.floor
                       /\ \/ Room(i) <= config.threshold
                          \/ Room(i) = Infinite /\ ~config.requireLimit}
        kept == [k \in 1..Len(results) |-> At(results[k].freq)]
                  \o [k \in 1..Len(candidates) |-> At(candidates[k].freq)]
        Apart(i, j) == Distance(trace[i].freq, trace[j].freq) >= config.spacing
    IN  /\ ConfigurationValid => Len(kept) <= config.maxCount
        /\ \A k \in 1..Len(kept) : kept[k] \in critical
        /\ \A k, l \in 1..Len(kept) :
             k < l => Room(kept[k]) <= Room(kept[l]) /\ Apart(kept[k], kept[l])
        /\ \A i \in critical :
             LET better == {k \in 1..Len(kept) : Room(kept[k]) <= Room(i)}
             IN  \/ \E k \in better : kept[k] = i \/ ~Apart(kept[k], i)
                 \/ Cardinality(better) = config.maxCount

\* From the emissions to the peaks: the scan reads every emission, stitching
\* loses none of the readings, and those that matter are flagged.
CriticalEmissionsFlagged == EmissionsSeen /\ ScanKeepsWorst /\ CriticalPeaksFlagged

\* The dwell at f resolves what it sweeps, and reads as far from f as the scan
\* did, past the end of the instrument's range by its bandwidth.
DwellReaches(f) ==
  LET params == Coerce(instrument, Phase2Params(config, f))
      range == instrument.range.start..instrument.range.stop
  IN  /\ Resolves(params)
      /\ WidestRbw <= 2 * (config.dwellSpan \div 2) + params.rbw
      /\ \/ WidestRbw <= params.rbw
         \/ \A e \in emissions : 2 * Distance(e.freq, f) <= WidestRbw => e.freq \in range

\* A dwell measures at least what the scan had read at the peak, also where its
\* span is cut at the end of the instrument's range (verifyPeak(), coerce()).
DwellSeesPeak ==
  \A k \in 1..Len(results) : DwellReaches(results[k].freq) =>
    \E i \in 1..Len(scan) :
      scan[i].freq = results[k].freq /\ scan[i].level <= results[k].raw

\* At f, this level is above one of the limits that apply (FR-LIM-5: a point
\* passes only when it passes every applicable limit).
Exceeds(f, level) ==
  \E i \in 1..Len(config.limits) :
    /\ Covers(config.limits[i], f)
    /\ LimitAt(config.limits[i], f) < level + TotalCorrection(config.corrections, f)

\* The emission stands out of the noise beside it, as corrected, by the prominence
\* asked for, and is above the floor.
Emerges(e) ==
  LET Corr(i) == TotalCorrection(config.corrections, scan[i].freq)
      Within(i, reach) == 2 * Distance(scan[i].freq, e.freq) <= reach
  IN  \A i, j \in 1..Len(scan) : Within(i, WidestRbw) /\ Within(j, 3 * WidestRbw) =>
        /\ e.level + Corr(i) >= config.floor
        /\ Noise + Corr(j) < e.level + Corr(i)
        /\ Noise + Corr(j) <= e.level + Corr(i) - config.prominence

\* The promise of the two phases together: where sweeps and dwells resolve what
\* they sweep, an emission above a limit that emerges, clear of the scan's ends and
\* of other emissions, makes the finished run fail.
ExceedanceFails ==
  /\ pc = "finished" /\ AllResolve /\ config.threshold >= 0
  /\ \A k \in 1..Len(results) : DwellReaches(results[k].freq)
  => \A e \in emissions :
       /\ Emerges(e)
       /\ 2 * (e.freq - Reach.start) > WidestRbw
       /\ 2 * (Reach.stop - e.freq) > WidestRbw
       /\ \A d \in emissions \ {e} : Distance(d.freq, e.freq) > 2 * WidestRbw
       /\ \A i \in 1..Len(scan) : 2 * Distance(scan[i].freq, e.freq) <= WidestRbw
                                    => Exceeds(scan[i].freq, e.level)
       => \E k \in 1..Len(results) : results[k].verdict = "Fail"

\* From the peaks to the verdict: a dwell loses no level, and what is above a
\* limit fails.
ExceedanceMeasured == DwellSeesPeak /\ ExceedanceFails
=============================================================================

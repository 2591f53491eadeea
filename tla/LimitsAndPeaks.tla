---------------------------- MODULE LimitsAndPeaks ----------------------------
(***************************************************************************)
(* What a run makes of a scan: the limit at a frequency                    *)
(* (core/limits/LimitLine.cpp), the margin and the verdict                 *)
(* (core/limits/LimitEvaluator.cpp), the correction of a reading           *)
(* (core/corrections/CorrectionTable.cpp) and the peaks worth a dwell      *)
(* (core/engine/PeakDetector.cpp).                                         *)
(*                                                                         *)
(* Levels are integers, of whatever fraction of a decibel; interpolation   *)
(* rounds down to one.  The logarithm is a table, because only its order   *)
(* and proportions matter.  An absent limit is a margin of Infinite.       *)
(***************************************************************************)
EXTENDS RunPlanning, Ordering, SequencesExt

CONSTANTS
  Log,        \* scaled logarithm of the frequencies
  Infinite    \* a margin larger than any two levels can differ

Distance(f, g) == Larger(f - g, g - f)

-----------------------------------------------------------------------------
(* Limit lines and correction tables: sequences of breakpoints, each of    *)
(* which says how to get to the next one.                                  *)

Interpolate(lower, upper, f) ==
  LET at(x) == IF lower.kind = "log" THEN Log[x] ELSE x
      span == at(upper.freq) - at(lower.freq)
  IN  IF lower.kind = "step" \/ span <= 0 THEN lower.level
      ELSE lower.level
             + ((at(f) - at(lower.freq)) * (upper.level - lower.level)) \div span

Covers(line, f) == line # <<>> /\ line[1].freq <= f /\ f <= line[Len(line)].freq

\* The last breakpoint at or below f; of two at one frequency, the later one.
LowerPoint(line, f) ==
  CHOOSE i \in 1..Len(line) :
    /\ line[i].freq <= f
    /\ \A j \in 1..Len(line) : line[j].freq <= f => j <= i

LimitAt(line, f) ==
  LET i == LowerPoint(line, f)
  IN  IF i = Len(line) THEN line[i].level ELSE Interpolate(line[i], line[i + 1], f)

LineValid(line) ==
  /\ Len(line) >= 2
  /\ \A i \in 1..Len(line) : line[i].freq > 0
  /\ \A i \in 2..Len(line) : line[i].freq >= line[i - 1].freq

CorrectionAt(table, f) ==
  LET points == table.points
      upper == CHOOSE i \in 1..Len(points) :
                 /\ points[i].freq >= f
                 /\ \A j \in 1..(i - 1) : points[j].freq < f
  IN  IF ~table.enabled \/ points = <<>> THEN 0
      ELSE table.sign * (IF f <= points[1].freq THEN points[1].level
                         ELSE IF f >= points[Len(points)].freq
                              THEN points[Len(points)].level
                         ELSE Interpolate(points[upper - 1], points[upper], f))

TotalCorrection(tables, f) ==
  FoldLeft(LAMBDA sum, table : sum + CorrectionAt(table, f), 0, tables)

-----------------------------------------------------------------------------
(* Margins: the smallest over the lines that cover the frequency.          *)

\* Mutant: the first line that covers the frequency decides.
FirstMargin(lines, f, level) ==
  LET covering == {i \in 1..Len(lines) : Covers(lines[i], f)}
  IN  IF covering = {} THEN Infinite
      ELSE LimitAt(lines[CHOOSE i \in covering : \A j \in covering : i <= j], f)
             - level

Margin(lines, f, level) ==
  LET margins == {LimitAt(lines[i], f) - level :
                    i \in {j \in 1..Len(lines) : Covers(lines[j], f)}}
  IN  IF margins = {} THEN Infinite ELSE Min(margins)

Classify(margin, marginal) ==
  IF margin = Infinite THEN "Unknown"
  ELSE IF margin < 0 THEN "Fail"
  ELSE IF margin < marginal THEN "Marginal" ELSE "Pass"

-----------------------------------------------------------------------------
(* Peaks of a corrected trace, a sequence of [freq, level].                *)

\* The height of sample i above the higher of the lowest points that can be
\* reached from it, on either side, without passing a higher sample.
Prominence(trace, i) ==
  LET height == trace[i].level
      Valley(side) == Min({trace[k].level : k \in side})
      Below(k) == \A m \in Smaller(i, k)..Larger(i, k) : trace[m].level <= height
  IN  height - Larger(Valley({k \in 1..i : Below(k)}),
                      Valley({k \in i..Len(trace) : Below(k)}))

\* On a plateau only the first sample counts.
IsLocalMaximum(trace, i) ==
  /\ i > 1 => trace[i - 1].level < trace[i].level
  /\ i < Len(trace) => trace[i + 1].level <= trace[i].level

Candidate(trace, lines, i) ==
  [index |-> i, freq |-> trace[i].freq, level |-> trace[i].level,
   margin |-> Margin(lines, trace[i].freq, trace[i].level)]

\* Ranked by criticality: smallest margin, then strongest, then first.
MoreCritical(a, b) ==
  \/ a.margin < b.margin
  \/ a.margin = b.margin /\ a.level > b.level
  \/ a.margin = b.margin /\ a.level = b.level /\ a.index < b.index

Flagged(trace, config, i) ==
  LET margin == Candidate(trace, config.limits, i).margin
  IN  /\ trace[i].level >= config.floor
      /\ IsLocalMaximum(trace, i)
      /\ Prominence(trace, i) >= config.prominence
      /\ IF margin = Infinite THEN ~config.requireLimit
         ELSE margin <= config.threshold

\* Keep a candidate unless a more critical one is too close or the cap is met.
Keep(config, kept, c) ==
  IF \/ Len(kept) = config.maxCount
     \/ \E i \in 1..Len(kept) : Distance(kept[i].freq, c.freq) < config.spacing
  THEN kept ELSE Append(kept, c)

\* The peaks that pass every filter.
FlaggedPeaks(trace, config) ==
  {Candidate(trace, config.limits, i) :
     i \in {j \in 1..Len(trace) : Flagged(trace, config, j)}}

\* Mutant: the ranking is lost, peaks are kept from the left.
DetectUnranked(trace, config) ==
  LET flagged == FlaggedPeaks(trace, config)
      listed == Ranked(flagged, {p \in flagged \X flagged : p[1].index < p[2].index})
  IN  FoldLeft(LAMBDA kept, c : Keep(config, kept, c), <<>>, listed)

DetectPeaks(trace, config) ==
  LET flagged == FlaggedPeaks(trace, config)
      ranked == Ranked(flagged, {p \in flagged \X flagged : MoreCritical(p[1], p[2])})
  IN  IF Len(trace) < 3 THEN <<>>
      ELSE FoldLeft(LAMBDA kept, c : Keep(config, kept, c), <<>>, ranked)
=============================================================================

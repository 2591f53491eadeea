----------------------------- MODULE MCPeakScan -----------------------------
(***************************************************************************)
(* Small instances of PeakScan for TLC: two bands, a scan of some twenty   *)
(* frequencies, an instrument whose range ends close to it.                *)
(***************************************************************************)
EXTENDS PeakScan

MCBands == <<[stop |-> 16, rbw |-> 2], [stop |-> 200, rbw |-> 4]>>
MCLog == [f \in 1..60 |-> CHOOSE n \in 0..60 : n * n <= 60 * f /\ (n + 1) * (n + 1) > 60 * f]

P(f, level, kind) == [freq |-> f, level |-> level, kind |-> kind]
Flat == <<P(1, 64, "log"), P(60, 64, "log")>>
Stepped == <<P(1, 68, "step"), P(12, 72, "step"), P(24, 62, "linear"),
             P(24, 58, "linear"), P(50, 70, "linear")>>
Sloped == <<P(8, 72, "log"), P(40, 60, "log")>>

Antenna == [enabled |-> TRUE, sign |-> 1,
            points |-> <<P(6, 2, "log"), P(30, 8, "log")>>]
Amplifier == [enabled |-> TRUE, sign |-> -1, points |-> <<P(10, 3, "log")>>]
Unused == [enabled |-> FALSE, sign |-> 1, points |-> <<P(10, 40, "log")>>]

Base == [span |-> [start |-> 20, stop |-> 44], points |-> 4, rbw |-> 0,
         dwellSpan |-> 8, dwellPoints |-> 5, dwellRbw |-> 0,
         limits |-> <<Flat, Stepped>>, corrections |-> <<>>, spacing |-> 5,
         maxCount |-> 2, requireLimit |-> TRUE, threshold |-> 6, prominence |-> 3,
         floor |-> -100, marginal |-> 6]

\* A scan in two segments; one at the foot of the instrument's range, in four
\* segments that do not divide evenly; a dwell in a zero span; limits that
\* overlap, step and leave frequencies uncovered; corrections either way; a scan
\* whose last segment leaves the instrument's range, in part and altogether; a
\* scan across two bands; no prominence asked for, with a dwell narrower than the
\* scan and with sweeps of two points; a prominence only the stronger emissions
\* reach; a span that is empty.
ScanConfigurations == {
  Base,
  [Base EXCEPT !.span = [start |-> 4, stop |-> 30], !.rbw = 2, !.points = 5,
               !.limits = <<Sloped, Stepped>>, !.corrections = <<Antenna>>,
               !.maxCount = 1],
  [Base EXCEPT !.rbw = 3, !.dwellSpan = 0, !.requireLimit = FALSE,
               !.limits = <<Sloped>>, !.spacing = 10,
               !.corrections = <<Unused, Amplifier>>],
  [Base EXCEPT !.span = [start |-> 35, stop |-> 51], !.points = 9, !.rbw = 1,
               !.dwellRbw = 1],
  [Base EXCEPT !.span = [start |-> 4, stop |-> 28], !.points = 5],
  [Base EXCEPT !.span = [start |-> 31, stop |-> 60], !.points = 6, !.rbw = 2],
  [Base EXCEPT !.span = [start |-> 30, stop |-> 51], !.rbw = 4, !.dwellRbw = 1,
               !.dwellPoints = 9, !.prominence = 0],
  [Base EXCEPT !.span = [start |-> 20, stop |-> 32], !.points = 2, !.rbw = 12,
               !.prominence = 0],
  [Base EXCEPT !.span = [start |-> 20, stop |-> 32], !.prominence = 65],
  [Base EXCEPT !.span.stop = 20] }

Wide == [range |-> [start |-> 4, stop |-> 46], minPoints |-> 3, maxPoints |-> 25,
         rbws |-> {1, 2, 4, 8}, zeroSpan |-> TRUE]
ScanInstruments == {Wide, [Wide EXCEPT !.rbws = {}, !.zeroSpan = FALSE, !.minPoints = 2]}
=============================================================================

----------------------------- MODULE RunPlanning -----------------------------
(***************************************************************************)
(* What a run is going to sweep: the bandwidths CISPR 16 mandates          *)
(* (core/limits/CisprBands.cpp), the segments a scan is split into and the *)
(* parameters of every sweep (core/engine/RunConfiguration.cpp), what an   *)
(* instrument can do of it (core/domain/Capabilities.cpp), and where the   *)
(* samples of a trace lie (core/domain/Trace.cpp).                         *)
(*                                                                         *)
(* All of it is integer arithmetic on frequencies, at full width: a span   *)
(* of 18 GHz is far from 2^53, so the code's doubles are exact but for the *)
(* rounding of ties in FrequencyAt.  Detector, video bandwidth, levels and *)
(* attenuation are clamped the same way as the three parameters kept here, *)
(* which are the ones that decide what a sweep can see.                    *)
(***************************************************************************)
EXTENDS Integers, Sequences

CONSTANT Bands   \* cisprBands(): the stop frequency and bandwidth of each band

ASSUME BandsAssumption ==
  /\ Bands \in Seq([stop : Nat, rbw : Nat \ {0}])
  /\ Len(Bands) > 0

Larger(a, b) == IF a > b THEN a ELSE b
Smaller(a, b) == IF a < b THEN a ELSE b
Clamp(x, low, high) == Smaller(Larger(x, low), high)

Width(span) == span.stop - span.start
Centre(span) == span.start + Width(span) \div 2
IsValid(span) == span.start >= 0 /\ span.stop > span.start

-----------------------------------------------------------------------------
(* The bandwidth the standard mandates: that of the first band that ends   *)
(* above the frequency, of the last one beyond them all.                   *)

MandatedRbw(f) ==
  LET above == {b \in 1..Len(Bands) : f < Bands[b].stop}
  IN  Bands[IF above = {} THEN Len(Bands)
            ELSE CHOOSE b \in above : \A c \in above : b <= c].rbw

-----------------------------------------------------------------------------
(* The plan: the span as it is when one sweep can resolve it, or equal     *)
(* parts of it, the last of which takes the remainder of the division.     *)

Rbw(chosen, f) == IF chosen > 0 THEN chosen ELSE MandatedRbw(f)

MaximumWidth(config) ==
  (Larger(config.points, 2) - 1) * Rbw(config.rbw, Centre(config.span))

SegmentCount(config) ==
  (Width(config.span) + MaximumWidth(config) - 1) \div MaximumWidth(config)

\* Mutant: the remainder of the division is not given to the last segment.
EqualParts(span, count) ==
  LET step == Width(span) \div count
  IN  [i \in 1..count |-> [start |-> span.start + (i - 1) * step,
                           stop |-> span.start + i * step]]

Parts(span, count) ==
  LET step == Width(span) \div count
  IN  [i \in 1..count |->
        [start |-> span.start + (i - 1) * step,
         stop |-> IF i = count THEN span.stop ELSE span.start + i * step]]

PlanSegments(config) ==
  IF ~IsValid(config.span) THEN <<>>
  ELSE IF Width(config.span) <= MaximumWidth(config) THEN <<config.span>>
  ELSE Parts(config.span, SegmentCount(config))

Phase1Params(config, segment) ==
  [span |-> segment, points |-> config.points,
   rbw |-> Rbw(config.rbw, Centre(segment))]

Phase2Params(config, f) ==
  LET half == config.dwellSpan \div 2
  IN  [span |-> [start |-> f - half, stop |-> f + half],
       points |-> config.dwellPoints, rbw |-> Rbw(config.dwellRbw, f)]

-----------------------------------------------------------------------------
(* What the instrument makes of a request.                                 *)

NearestAtOrAbove(available, wanted) ==
  LET above == {r \in available : r >= wanted}
  IN  IF available = {} THEN wanted
      ELSE IF above # {} THEN CHOOSE r \in above : \A q \in above : r <= q
      ELSE CHOOSE r \in available : \A q \in available : r >= q

Coerce(instrument, params) ==
  [span |-> [start |-> Larger(params.span.start, instrument.range.start),
             stop |-> Smaller(params.span.stop, instrument.range.stop)],
   points |-> Clamp(params.points, instrument.minPoints, instrument.maxPoints),
   rbw |-> IF params.rbw > 0 THEN NearestAtOrAbove(instrument.rbws, params.rbw)
           ELSE params.rbw]

\* Capabilities::validate(): the requests an instrument takes.
Accepts(instrument, params) ==
  /\ IF Width(params.span) = 0 THEN instrument.zeroSpan ELSE IsValid(params.span)
  /\ params.span.start >= instrument.range.start
  /\ params.span.stop <= instrument.range.stop
  /\ params.points \in instrument.minPoints..instrument.maxPoints
  /\ params.rbw > 0 /\ instrument.rbws # {} => params.rbw \in instrument.rbws

-----------------------------------------------------------------------------
(* Sample i of a trace with that many points, counted from 1: the span is  *)
(* divided evenly and rounded to the nearest hertz.                        *)

FrequencyAt(span, points, i) ==
  IF points <= 1 THEN span.start
  ELSE span.start + (2 * (i - 1) * Width(span) + points - 1)
                      \div (2 * (points - 1))

\* A sweep steps no further than its resolution bandwidth between two samples.
Resolves(params) == Width(params.span) <= (params.points - 1) * params.rbw

\* The segments follow each other without gap or overlap, none of them empty,
\* from one end of the span to the other.
Tiles(segments, span) ==
  /\ Len(segments) > 0
  /\ segments[1].start = span.start /\ segments[Len(segments)].stop = span.stop
  /\ \A i \in 1..Len(segments) : IsValid(segments[i])
  /\ \A i \in 1..(Len(segments) - 1) : segments[i].stop = segments[i + 1].start
=============================================================================

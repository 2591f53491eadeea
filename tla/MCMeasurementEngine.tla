------------------------- MODULE MCMeasurementEngine -------------------------
(***************************************************************************)
(* Small instances of MeasurementEngine for TLC.                           *)
(***************************************************************************)
EXTENDS MeasurementEngine, TLC

Symmetry == Permutations(Freqs)
=============================================================================

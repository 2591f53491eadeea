------------------------ MODULE MCUnitrendFscanDriver ------------------------
(* UnitrendFscanDriver with interchangeable ranges and points.             *)
EXTENDS UnitrendFscanDriver, TLC

Symmetry == Permutations(Ranges) \cup Permutations(Points)

=============================================================================

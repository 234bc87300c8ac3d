---------------------- MODULE MCPropertyDeltaManifest ----------------------
(* Small instances of PropertyDeltaManifest for TLC.                       *)
EXTENDS PropertyDeltaManifest, TLC

\* File names are only compared with each other.
FileSymmetry == Permutations(Files)
=============================================================================

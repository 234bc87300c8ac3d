------------------------ MODULE MCPropertyDeltaStore ------------------------
(* PropertyDeltaStore for TLC: the constants are given in the .cfg files.  *)
EXTENDS PropertyDeltaStore
=============================================================================

--------------------------- MODULE MCRuntimeManager ---------------------------
(***************************************************************************)
(* RuntimeManager for TLC.  No symmetry: the run checks liveness.          *)
(***************************************************************************)
EXTENDS RuntimeManager
=============================================================================

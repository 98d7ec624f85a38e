--------------------------- MODULE MCRunEventLog ---------------------------
(* Instance of RunEventLog for TLC.  Threads are interchangeable, but the  *)
(* run checks liveness, so no symmetry is declared.                        *)
EXTENDS RunEventLog
=============================================================================

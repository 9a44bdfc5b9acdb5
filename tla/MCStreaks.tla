------------------------------ MODULE MCStreaks ------------------------------
(***************************************************************************)
(* Small instances of Streaks for TLC.                                     *)
(***************************************************************************)
EXTENDS MCMonitoring, Streaks
=============================================================================

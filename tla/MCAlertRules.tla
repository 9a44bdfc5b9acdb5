---------------------------- MODULE MCAlertRules ----------------------------
(* Small instances of AlertRules for TLC.                                  *)
EXTENDS AlertRules, TLC
CONSTANT k1
Single == (k1 :> "service_down_consecutive_failures")
Interchangeable == Permutations(Evaluations) \cup Permutations(Channels)
=============================================================================

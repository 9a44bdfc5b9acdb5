---------------------------- MODULE MCMonitoring ----------------------------
(***************************************************************************)
(* Small instances of Monitoring for TLC.                                  *)
(***************************************************************************)
EXTENDS Monitoring, TLC

(* Resolve and reopen only.                                                *)
LifeUpdates == {[NoChange EXCEPT !.status = st] : st \in {"resolved", "open"}}

ResolveUpdates == {[NoChange EXCEPT !.status = "resolved"]}

(* These, edits of the severity, alone and with a reopening, and of other  *)
(* fields.                                                                 *)
AllUpdates ==
    {[NoChange EXCEPT !.status = "resolved"],
     [NoChange EXCEPT !.status = "open", !.severity = "low"],
     [NoChange EXCEPT !.severity = "low"],
     [NoChange EXCEPT !.other = TRUE]}

Interchangeable == Permutations(Jobs) \cup Permutations(Incidents) \cup Permutations(Requests)
=============================================================================

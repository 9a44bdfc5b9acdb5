---------------------------- MODULE MCStatusMails ----------------------------
(* Small instances of StatusMails for TLC.                                 *)
EXTENDS StatusMails, TLC
CONSTANTS a1, r1, r2, u1, alert
OneAddress == [r \in Requests |-> a1]
AllMessages == Mails \cup Alerts
Lengths == [m \in Messages |-> IF m \in Alerts THEN 2 ELSE 1]

(* No definition tells one request from another.                           *)
Interchangeable == Permutations(Requests)
=============================================================================

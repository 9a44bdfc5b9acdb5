---------------------------- MODULE MCIssueIngest ----------------------------
(***************************************************************************)
(* Small instances of IssueIngest for TLC: events that race for one issue. *)
(***************************************************************************)
EXTENDS IssueIngest, TLC

CONSTANTS e1, e2, k1, u1, u2

OneIssue == [e \in Events |-> k1]

OneAnonymous == (e1 :> u1) @@ (e2 :> NoUser)
=============================================================================

----------------------------- MODULE MCLiveViews -----------------------------
(* Small instances of LiveViews for TLC.                                   *)
EXTENDS LiveViews, TLC
CONSTANTS v1, w1, w2, w3
Two == {"services", "incidents"}
OneOfEach == (w1 :> "incident") @@ (w2 :> "resolve") @@ (w3 :> "edit")
ByAuthor == (w1 :> Nobody) @@ (w2 :> v1) @@ (w3 :> v1)
Page == [k \in Keys |-> IF k = "page" THEN Two ELSE {"incidents"}]

(* Neither kind of viewer meets the other.                                 *)
AllVisitors == [v \in Viewers |-> "visitor"]
AllOperators == [v \in Viewers |-> "operator"]
OneKind == {AllVisitors, AllOperators}
=============================================================================

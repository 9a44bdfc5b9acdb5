-------------------------- MODULE MCServiceSchedule --------------------------
EXTENDS ServiceSchedule, TLC

(* Requests differ in nothing but their names.                             *)
Symmetry == Permutations(Requests)

(* Bound on the calls at a time: three, but two after a failure and beside *)
(* demo data.                                                              *)
FewInFlight ==
    Cardinality({c \in Callers : InFlight(c)}) <= (IF faults = 0 /\ demo = {} THEN 3 ELSE 2)
=============================================================================

------------------------------- MODULE Streaks -------------------------------
(***************************************************************************)
(* Monitoring with a history variable for one promise of the worker: an    *)
(* incident is opened only after IncidentThreshold consecutive failed      *)
(* checks of its service (healthCheck.processor.js counts from the row it  *)
(* read before the probe, and incident.repository.js writes the count).    *)
(*                                                                         *)
(* "unsteady" holds the services whose count may be ahead of the failures  *)
(* logged since the last success.  What makes a service unsteady is only   *)
(* what befalls a check that passed: another execution carries the count   *)
(* it read while the success is logged and not yet committed, or the check *)
(* ends without setting the count to 0.                                    *)
(***************************************************************************)
EXTENDS Monitoring

VARIABLE unsteady

(* j has read the row of s and not yet written it.                         *)
Carries(j, s) == job[j].svc = s /\ job[j].pc \notin {"idle", "fetch", "announce"}

(* j has logged that s answers and not yet set the count to 0.             *)
Passed(j, s) ==
    /\ job[j].svc = s /\ job[j].outcome = "up"
    /\ job[j].pc \in {"window", "mark", "recoverFind", "recoverLock", "recoverCommit"}

Crossed(s) == \E j, k \in Jobs : j # k /\ Passed(j, s) /\ Carries(k, s)

(* The execution throws or dies, or it finds the service in maintenance.   *)
Dropped(s) == \E j \in Jobs : Passed(j, s) /\ job'[j].pc \in {"idle", "fetch"}

(* Nothing is counted and nothing is carried: the service is steady again. *)
Rests(s) == service[s].failures = 0 /\ \A j \in Jobs : ~Carries(j, s)

StreakInit == Init /\ unsteady = {}

StreakNext ==
    /\ Next
    /\ unsteady' = {s \in Services : /\ s \in unsteady \/ Dropped(s) \/ Crossed(s)'
                                     /\ ~Rests(s)'}

StreakSpec == StreakInit /\ [][StreakNext]_<<vars, unsteady>>

-----------------------------------------------------------------------------
(* However executions overlap, fail and are run again, and whatever        *)
(* clients, windows and ticker runs do: an incident is opened only when as *)
(* many consecutive failed checks of its service are logged as the policy  *)
(* asks, unless, since the count was last 0 with no check under way, a     *)
(* check that passed overlapped another one or ended without setting the   *)
(* count to 0.                                                             *)
IncidentNeedsStreak ==
    [][\A i \in Incidents :
            incident[i].status = "none" /\ incident'[i].status # "none"
                => \/ checks[incident'[i].svc].failed >= IncidentThreshold
                   \/ incident'[i].svc \in unsteady]_incident
=============================================================================

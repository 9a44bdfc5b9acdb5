-------------------------- MODULE IncidentLifecycle --------------------------
(***************************************************************************)
(* What the incident subsystem promises of its rows, whatever the number   *)
(* of workers and requests: an incident is opened for a service only while *)
(* the service has no incident that is still in its first, unresolved      *)
(* life; afterwards it is escalated, edited, resolved and reopened, but    *)
(* never reverts to an unused row, changes service, or forgets that it was *)
(* resolved once; and each of those changes moves the version clients      *)
(* compare.                                                                *)
(***************************************************************************)
EXTENDS Naturals

CONSTANTS Services, Incidents, Nobody, Statuses, Severities

VARIABLE incident

Row == [svc: Services, status: Statuses, severity: Severities, resolvedAt: BOOLEAN,
        version: Nat]

Absent == [svc |-> Nobody, status |-> "none", severity |-> "none",
           resolvedAt |-> FALSE, version |-> 0]

(* Unresolved and never resolved before.                                   *)
FreshOf(s) == {i \in Incidents : /\ incident[i].svc = s
                                 /\ incident[i].status \notin {"none", "resolved"}
                                 /\ ~incident[i].resolvedAt}

Init == incident = [i \in Incidents |-> Absent]

Open(i, s) ==
    /\ incident[i] = Absent
    /\ FreshOf(s) = {}
    /\ \E severity \in {"high", "critical"} :
          incident' = [incident EXCEPT ![i] =
              [svc |-> s, status |-> "open", severity |-> severity,
               resolvedAt |-> FALSE, version |-> 1]]

Escalated(row) == [row EXCEPT !.severity = "critical", !.version = @ + 1]

Resolved(row, severity) ==
    [row EXCEPT !.status = "resolved", !.resolvedAt = TRUE,
                !.severity = severity, !.version = @ + 1]

Edited(row, status, severity) ==
    [row EXCEPT !.status = status, !.severity = severity, !.version = @ + 1]

(* Severity becomes critical and nothing else changes.                     *)
Escalate(i) ==
    /\ incident[i] # Absent
    /\ incident' = [incident EXCEPT ![i] = Escalated(@)]

(* Resolution records resolvedAt; it may overwrite a concurrent one.       *)
Resolve(i) ==
    /\ incident[i] # Absent
    /\ \E severity \in Severities :
          incident' = [incident EXCEPT ![i] = Resolved(@, severity)]

(* Any other edit keeps resolvedAt, even if it reopens the incident.       *)
Edit(i) ==
    /\ incident[i] # Absent
    /\ \E status \in Statuses, severity \in Severities :
          /\ status = "resolved" => incident[i].status = "resolved"
          /\ incident' = [incident EXCEPT ![i] = Edited(@, status, severity)]

Next == \E i \in Incidents : \/ \E s \in Services : Open(i, s)
                             \/ Escalate(i) \/ Resolve(i) \/ Edit(i)

Spec == Init /\ [][Next]_incident
=============================================================================

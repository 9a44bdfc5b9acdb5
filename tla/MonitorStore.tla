---------------------------- MODULE MonitorStore ----------------------------
(***************************************************************************)
(* The PostgreSQL rows that the health-check worker, the maintenance       *)
(* ticker and the incident API share, and the row locks their transactions *)
(* hold (backend/src/models/schema.prisma).                                *)
(*                                                                         *)
(* Transactions run at READ COMMITTED.  A transaction's writes become      *)
(* visible at its commit, so here they are made in its last step; the row  *)
(* lock its UPDATE takes is recorded when it is taken, because another     *)
(* UPDATE of that row waits for it while a plain SELECT does not.          *)
(***************************************************************************)
EXTENDS Naturals, FiniteSets

CONSTANTS
    Services,           \* monitored services
    Incidents,          \* identities of incident rows
    Windows,            \* identities of maintenance windows
    Jobs,               \* health-check executions that may be in flight at once
    Requests,           \* incident API requests
    Nobody,             \* NULL: no owner of a lock, no row
    WarningThreshold, IncidentThreshold, CriticalThreshold,
    MaxFailures,        \* bound: counts of failures saturate here
    MaxFaults           \* bound: injected errors and crashes

(* escalationService.upsert refuses any other order of the thresholds.     *)
ASSUME ThresholdAssumption ==
    /\ WarningThreshold \in Nat \ {0}
    /\ IncidentThreshold \in Nat
    /\ CriticalThreshold \in Nat
    /\ MaxFailures \in Nat
    /\ WarningThreshold < IncidentThreshold
    /\ IncidentThreshold < CriticalThreshold
    /\ CriticalThreshold <= MaxFailures

ASSUME OwnerAssumption ==
    /\ Nobody \notin Services \cup Incidents \cup Windows \cup Jobs \cup Requests
    /\ Jobs \cap Requests = {}

ASSUME FaultAssumption == MaxFaults \in Nat

VARIABLES
    service,            \* service[s]: the columns the worker reads and writes
    checks,             \* checks[s]: the health_checks rows of s
    incident,           \* incident[i]: a row of incidents, "none" while unused
    window,             \* window[w]: a row of maintenance_windows and its time
    serviceLock,        \* owner of the row lock on service[s]
    incidentLock,       \* owner of the row lock on incident[i]
    faults              \* errors and crashes injected so far

rowVars == <<service, checks, incident, window>>
lockVars == <<serviceLock, incidentLock>>
storeVars == <<service, checks, incident, window, serviceLock, incidentLock, faults>>

Owners == Jobs \cup Requests

ServiceStatus == {"unknown", "up", "degraded", "down", "maintenance"}
IncidentStatus == {"open", "investigating", "identified", "monitoring", "resolved"}
IncidentSeverity == {"low", "medium", "high", "critical"}

ServiceRow == [status: ServiceStatus, failures: 0..MaxFailures, active: BOOLEAN]

(* Of the logged checks only the newest outcome and the number of failed   *)
(* checks since the last successful one are read by anything below.        *)
CheckLog == [newest: {"none", "up", "down"}, failed: 0..MaxFailures]

(* resolvedAt says whether the column is set; version stands for updatedAt.*)
IncidentRow == [svc: Services \cup {Nobody},
                status: IncidentStatus \cup {"none"},
                severity: IncidentSeverity \cup {"none"},
                resolvedAt: BOOLEAN,
                version: Nat]

(* now places the present time: before startTime, between startTime and    *)
(* endTime, or after endTime.  svc is Nobody for an organization-wide      *)
(* window (serviceId NULL); "none" is a row not created yet.               *)
WindowRow == [svc: Services \cup {Nobody},
              status: {"none", "scheduled", "in_progress", "completed", "deleted"},
              now: {"before", "inside", "after"}]

NoIncident == [svc |-> Nobody, status |-> "none", severity |-> "none",
               resolvedAt |-> FALSE, version |-> 0]

NoWindow == [svc |-> Nobody, status |-> "none", now |-> "before"]

StoreTypeOK ==
    /\ service \in [Services -> ServiceRow]
    /\ checks \in [Services -> CheckLog]
    /\ incident \in [Incidents -> IncidentRow]
    /\ window \in [Windows -> WindowRow]
    /\ serviceLock \in [Services -> Owners \cup {Nobody}]
    /\ incidentLock \in [Incidents -> Owners \cup {Nobody}]
    /\ faults \in 0..MaxFaults

(* A new service: schema.prisma's column defaults.                         *)
StoreInit ==
    /\ service = [s \in Services |-> [status |-> "unknown", failures |-> 0, active |-> TRUE]]
    /\ checks = [s \in Services |-> [newest |-> "none", failed |-> 0]]
    /\ incident = [i \in Incidents |-> NoIncident]
    /\ window = [w \in Windows |-> NoWindow]
    /\ serviceLock = [s \in Services |-> Nobody]
    /\ incidentLock = [i \in Incidents |-> Nobody]
    /\ faults = 0

-----------------------------------------------------------------------------

Bump(n) == IF n < MaxFailures THEN n + 1 ELSE n

(* where: { serviceId, status: { not: 'resolved' } }                       *)
Unresolved(s) == {i \in Incidents : /\ incident[i].svc = s
                                    /\ incident[i].status \notin {"none", "resolved"}}

Unused == {i \in Incidents : incident[i].status = "none"}

(* findActiveWindowForService: status and time must both say "active".     *)
ActiveWindows(s) == {w \in Windows : /\ window[w].svc = s
                                     /\ window[w].status = "in_progress"
                                     /\ window[w].now = "inside"}

(* Commit or rollback: every row lock of o is given up.                    *)
Release(o) ==
    /\ serviceLock' = [s \in Services |-> IF serviceLock[s] = o THEN Nobody ELSE serviceLock[s]]
    /\ incidentLock' = [i \in Incidents |-> IF incidentLock[i] = o THEN Nobody ELSE incidentLock[i]]

Fault ==
    /\ faults < MaxFaults
    /\ faults' = faults + 1
=============================================================================

----------------------------- MODULE Monitoring -----------------------------
(***************************************************************************)
(* The health-check worker, the incident API and the maintenance ticker    *)
(* over the rows they share, with the deadlocks PostgreSQL breaks.         *)
(***************************************************************************)
EXTENDS HealthCheckJob, IncidentApi, MaintenanceTicker

vars == <<storeVars, jobVars, request, tickVars>>

TypeOK ==
    /\ StoreTypeOK
    /\ JobTypeOK
    /\ RequestTypeOK
    /\ TickTypeOK

Init ==
    /\ StoreInit
    /\ JobInit
    /\ RequestInit
    /\ TickInit

-----------------------------------------------------------------------------
(* A failure transaction holds the service row and wants the incident row; *)
(* a recovery or a manual resolution holds the incident row and wants the  *)
(* service row.  PostgreSQL aborts one of the two.                         *)
Deadlocked(j, o) ==
    \E s \in Services, i \in Incidents :
        /\ serviceLock[s] = j /\ AwaitsIncident(j, i)
        /\ incidentLock[i] = o
        /\ \/ o \in Jobs /\ AwaitsService(o, s)
           \/ o \in Requests /\ RequestAwaitsService(o, s)

AbortDeadlockedJob(j) ==
    /\ \E o \in Owners : Deadlocked(j, o) \/ (o \in Jobs /\ Deadlocked(o, j))
    /\ Abort(j)
    /\ UNCHANGED <<rowVars, faults, target>>

AbortDeadlockedRequest(r) ==
    /\ \E j \in Jobs : Deadlocked(j, r)
    /\ Rollback(r)
    /\ UNCHANGED <<rowVars, faults>>

BreakDeadlock ==
    \/ \E j \in Jobs : AbortDeadlockedJob(j) /\ UNCHANGED <<request, tickVars>>
    \/ \E r \in Requests : AbortDeadlockedRequest(r) /\ UNCHANGED <<jobVars, tickVars>>

(* The worker process runs the jobs and the ticker, and they die together. *)
Crash ==
    /\ WorkerCrash
    /\ tick' = [t \in Tickers |-> IdleTick]
    /\ UNCHANGED <<request, edit>>

Next ==
    \/ HealthCheckNext /\ UNCHANGED <<request, tickVars>>
    \/ IncidentApiNext /\ UNCHANGED <<jobVars, tickVars>>
    \/ MaintenanceNext /\ UNCHANGED <<jobVars, request>>
    \/ BreakDeadlock
    \/ Crash

Spec == Init /\ [][Next]_vars

(* The schedule keeps producing checks and the worker keeps running them;  *)
(* a row lock is granted to its waiters in the order they came, so no      *)
(* waiter is passed over for ever, and a deadlock is detected.  Nothing    *)
(* obliges a client to send a request, a target to change or a fault to    *)
(* happen.                                                                 *)
Fairness ==
    /\ \A j \in Jobs :
          /\ \A s \in Services : WF_vars(Enqueue(j, s) /\ UNCHANGED <<request, tickVars>>)
          /\ SF_vars(JobStep(j) /\ UNCHANGED <<request, tickVars>>)
    /\ \A r \in Requests : SF_vars(RequestStep(r) /\ UNCHANGED <<jobVars, tickVars>>)
    /\ \A t \in Tickers : SF_vars(TickStep(t) /\ UNCHANGED <<jobVars, request>>)
    /\ WF_vars(BreakDeadlock)

FairSpec == Spec /\ Fairness

-----------------------------------------------------------------------------
(* Safety.                                                                 *)

(* The failure transaction updates the service row before it looks for an  *)
(* open incident, so two failing checks of one service never open two      *)
(* incidents for one outage: at most one unresolved incident of a service  *)
(* has never been resolved (incident.repository.js, processWorkerFailure). *)
OneFreshIncident ==
    \A s \in Services : \A i, k \in Unresolved(s) :
        ~incident[i].resolvedAt /\ ~incident[k].resolvedAt => i = k

(* A service whose failure count has reached the incident threshold has an *)
(* incident that is not resolved: no interleaving of checks, recoveries,   *)
(* manual resolutions, maintenance, errors and crashes leaves an outage    *)
(* that is counted but that nobody is told about.                          *)
OutageHasIncident ==
    \A s \in Services : service[s].failures >= IncidentThreshold => Unresolved(s) # {}

(* Unless a client edits severities, a service at the critical threshold   *)
(* has a critical incident, although the job that found the incident read  *)
(* its severity earlier than it wrote it.                                  *)
CriticalOutageIsCritical ==
    (\A body \in Updates : body.severity = "keep") =>
        \A s \in Services : service[s].failures >= CriticalThreshold =>
            \E i \in Unresolved(s) : incident[i].severity = "critical"

(* Why the three hold, as an inductive invariant.  A failure transaction   *)
(* owns its service row from its first statement to its commit, and every  *)
(* statement that resolves an incident also updates that row: what the     *)
(* transaction found, or did not find, stays true until it commits.        *)
Used(i) == incident[i].status # "none"

FreshOf(s) == {i \in Unresolved(s) : ~incident[i].resolvedAt}

RowConsistent(i) ==
    /\ ~Used(i) => incident[i] = NoIncident
    /\ Used(i) => incident[i].svc \in Services /\ incident[i].severity # "none"
    /\ incident[i].status = "resolved" => incident[i].resolvedAt

HoldsService(j) == job[j].pc \in {"failFind", "failCreate", "failEscalate", "failCommit"}

JobConsistent(j) ==
    LET s == job[j].svc
        found == job[j].found IN
    /\ ~At(j, "idle") => s \in Services
    /\ HoldsService(j) => serviceLock[s] = j
    /\ job[j].pc \in {"recoverLock", "failEscalate"} => found # Nobody
    /\ found # Nobody => Used(found) /\ incident[found].svc = s
    /\ At(j, "failCreate") => FreshOf(s) = {}
    /\ job[j].pc \in {"failEscalate", "failCommit"} /\ NewFailures(j) >= IncidentThreshold
          => found \in Unresolved(s)

RequestConsistent(r) ==
    ~Serving(r, "new") /\ ~Answered(r) =>
        request[r].target \in Incidents /\ Used(request[r].target)

RowsConsistent == \A i \in Incidents : RowConsistent(i)
JobsConsistent == \A j \in Jobs : JobConsistent(j)
RequestsConsistent == \A r \in Requests : RequestConsistent(r)

Consistent == RowsConsistent /\ JobsConsistent /\ RequestsConsistent

(* The incident rows evolve only as IncidentLifecycle allows.              *)
Lifecycle == INSTANCE IncidentLifecycle
    WITH Statuses <- IncidentStatus, Severities <- IncidentSeverity

LifecycleSpec == Lifecycle!Spec

-----------------------------------------------------------------------------
(* Liveness.                                                               *)

(* Once a target answers for good, is monitored and is out of maintenance, *)
(* its incidents, however many are open, all end up resolved and the       *)
(* service is shown as up.                                                 *)
Healthy(s) == target[s] = "up" /\ service[s].active /\ ActiveWindows(s) = {}

RecoversEventually ==
    \A s \in Services :
        <>[]Healthy(s) => <>[](Unresolved(s) = {} /\ service[s].status = "up")

(* Every execution ends: row locks taken in opposite orders by failures,   *)
(* recoveries and manual resolutions never leave one waiting for ever.     *)
ExecutionsEnd == \A j \in Jobs : ~At(j, "idle") ~> At(j, "idle")

-----------------------------------------------------------------------------
(* Maintenance windows.                                                    *)

(* A completed window never becomes scheduled or in progress again.        *)
CompletedIsFinal ==
    [][\A w \in Windows : window[w].status = "completed"
            => window'[w].status \in {"completed", "deleted"}]_window

-----------------------------------------------------------------------------
(* What the documents claim and overlapping requests break.                *)

(* A request that carries a version token changes the incident only if     *)
(* nobody changed it since the client loaded it.                           *)
TokenGuardsWrite ==
    [][\A r \in Requests :
            (~Serving(r, "saved") /\ request'[r].pc = "saved" /\ request[r].token # 0)
                => incident[request[r].target].version = request[r].token]_request
=============================================================================

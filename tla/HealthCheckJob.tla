--------------------------- MODULE HealthCheckJob ---------------------------
(***************************************************************************)
(* The health-check queue's processor                                      *)
(* (backend/worker/processors/healthCheck.processor.js) with the two       *)
(* transactions it runs (backend/src/repositories/incident.repository.js). *)
(* Every await of the processor ends a step: up to ten executions overlap, *)
(* several of them possibly for one service (schedule, check-now,          *)
(* heartbeat ping, retry), and each works on the row it read first.        *)
(***************************************************************************)
EXTENDS MonitorStore

VARIABLES
    job,                \* job[j]: an execution and what it has read
    target              \* target[s]: whether s would pass a probe now

jobVars == <<job, target>>

MaxAttempts == 2        \* defaultJobOptions.attempts of the queue

JobPc == {
    "idle",             \* next: Enqueue
    "fetch",            \* next: FetchService
    "probe",            \* next: Probe
    "log",              \* next: LogCheck
    "window",           \* next: FindWindow
    "mark",             \* next: MarkMaintenance
    "recoverFind",      \* next: RecoverFind       (processWorkerRecovery)
    "recoverLock",      \* next: RecoverLock
    "recoverCommit",    \* next: RecoverCommit
    "failUpdate",       \* next: FailUpdate        (processWorkerFailure)
    "failFind",         \* next: FailFind
    "failCreate",       \* next: FailCreate
    "failEscalate",     \* next: FailEscalate
    "failCommit",       \* next: FailCommit
    "announce"}         \* next: Announce

(* status and failures are the snapshot of the service row.                *)
JobRow == [pc: JobPc, svc: Services \cup {Nobody},
           status: ServiceStatus, failures: 0..MaxFailures,
           outcome: {"none", "up", "down"},
           found: Incidents \cup {Nobody}, attempt: 1..MaxAttempts]

IdleJob == [pc |-> "idle", svc |-> Nobody, status |-> "unknown", failures |-> 0,
            outcome |-> "none", found |-> Nobody, attempt |-> 1]

QueuedJob(s, n) == [IdleJob EXCEPT !.pc = "fetch", !.svc = s, !.attempt = n]

JobTypeOK ==
    /\ job \in [Jobs -> JobRow]
    /\ target \in [Services -> {"up", "down"}]

JobInit ==
    /\ job = [j \in Jobs |-> IdleJob]
    /\ target = [s \in Services |-> "up"]

At(j, label) == job[j].pc = label
Goto(j, label) == job' = [job EXCEPT ![j].pc = label]
Finish(j) == job' = [job EXCEPT ![j] = IdleJob]

-----------------------------------------------------------------------------
(* Fetch, probe and log.                                                   *)

InFlight == {j \in Jobs : ~At(j, "idle")}

(* Bound: a target fails only while an unused incident id is left for      *)
(* every execution in flight and the next one; each fault may run all of   *)
(* them once more.                                                         *)
HasRoom ==
    LET overlapping == IF InFlight = Jobs THEN Jobs ELSE InFlight \cup {Nobody} IN
    Cardinality(overlapping) * (1 + MaxFaults - faults) <= Cardinality(Unused)

(* The repeating job comes due, or check-now or a heartbeat ping adds one. *)
Enqueue(j, s) ==
    /\ At(j, "idle")
    /\ target[s] = "up" \/ HasRoom
    /\ job' = [job EXCEPT ![j] = QueuedJob(s, 1)]
    /\ UNCHANGED <<storeVars, target>>

(* The worker takes the service row once; nothing later re-reads it.       *)
FetchService(j) ==
    LET s == job[j].svc IN
    /\ At(j, "fetch")
    /\ IF service[s].active
       THEN job' = [job EXCEPT ![j].pc = "probe",
                               ![j].status = service[s].status,
                               ![j].failures = service[s].failures]
       ELSE Finish(j)
    /\ UNCHANGED <<storeVars, target>>

(* HTTP request or heartbeat age; a timeout counts as a failure.           *)
Probe(j) ==
    /\ At(j, "probe")
    /\ job' = [job EXCEPT ![j].pc = "log", ![j].outcome = target[job[j].svc]]
    /\ UNCHANGED <<storeVars, target>>

LogCheck(j) ==
    LET s == job[j].svc IN
    /\ At(j, "log")
    /\ checks' = [checks EXCEPT ![s] =
            [newest |-> job[j].outcome,
             failed |-> IF job[j].outcome = "up" THEN 0 ELSE Bump(@.failed)]]
    /\ Goto(j, "window")
    /\ UNCHANGED <<service, incident, window, lockVars, faults, target>>

-----------------------------------------------------------------------------
(* Maintenance override.                                                   *)

FindWindow(j) ==
    /\ At(j, "window")
    /\ IF ActiveWindows(job[j].svc) = {}
       THEN Goto(j, IF job[j].outcome = "up" THEN "recoverFind" ELSE "failUpdate")
       ELSE IF job[j].status = "maintenance" THEN Finish(j) ELSE Goto(j, "mark")
    /\ UNCHANGED <<storeVars, target>>

MarkMaintenance(j) ==
    LET s == job[j].svc IN
    /\ At(j, "mark")
    /\ serviceLock[s] = Nobody
    /\ service' = [service EXCEPT ![s].status = "maintenance", ![s].failures = 0]
    /\ Finish(j)
    /\ UNCHANGED <<checks, incident, window, lockVars, faults, target>>

-----------------------------------------------------------------------------
(* processWorkerRecovery: SELECT an open incident, UPDATE it, UPDATE the   *)
(* service.                                                                *)

(* Mutant of RecoverFind: a service that is up already is left alone.      *)
RecoverFindUnlessUp(j) ==
    LET open == Unresolved(job[j].svc) IN
    /\ At(j, "recoverFind")
    /\ IF open = {} \/ job[j].status = "up"
       THEN Goto(j, "recoverCommit")
       ELSE \E i \in open :
                job' = [job EXCEPT ![j].pc = "recoverLock", ![j].found = i]
    /\ UNCHANGED <<storeVars, target>>

(* findFirst has no orderBy: any unresolved incident may be returned.      *)
RecoverFind(j) ==
    LET open == Unresolved(job[j].svc) IN
    /\ At(j, "recoverFind")
    /\ IF open = {}
       THEN Goto(j, "recoverCommit")
       ELSE \E i \in open :
                job' = [job EXCEPT ![j].pc = "recoverLock", ![j].found = i]
    /\ UNCHANGED <<storeVars, target>>

(* UPDATE ... WHERE id: the status is not looked at again.                 *)
RecoverLock(j) ==
    /\ At(j, "recoverLock")
    /\ incidentLock[job[j].found] = Nobody
    /\ incidentLock' = [incidentLock EXCEPT ![job[j].found] = j]
    /\ Goto(j, "recoverCommit")
    /\ UNCHANGED <<rowVars, serviceLock, faults, target>>

(* Mutants of RecoverCommit: the failure count is not reset; the incident  *)
(* stays unresolved; a service in maintenance keeps its status.            *)
RecoverCommitKeepingCount(j) ==
    LET i == job[j].found IN
    /\ At(j, "recoverCommit")
    /\ serviceLock[job[j].svc] = Nobody
    /\ service' = [service EXCEPT ![job[j].svc].status = "up"]
    /\ incident' = IF i = Nobody THEN incident
                   ELSE [incident EXCEPT ![i].status = "resolved",
                                         ![i].resolvedAt = TRUE,
                                         ![i].version = @ + 1]
    /\ Release(j)
    /\ Goto(j, "announce")
    /\ UNCHANGED <<checks, window, faults, target>>

RecoverCommitLeavingIncident(j) ==
    /\ At(j, "recoverCommit")
    /\ serviceLock[job[j].svc] = Nobody
    /\ service' = [service EXCEPT ![job[j].svc].status = "up", ![job[j].svc].failures = 0]
    /\ Release(j)
    /\ Goto(j, "announce")
    /\ UNCHANGED <<checks, incident, window, faults, target>>

RecoverCommitUnlessMaintenance(j) ==
    LET s == job[j].svc
        i == job[j].found IN
    /\ At(j, "recoverCommit")
    /\ serviceLock[s] = Nobody
    /\ service' = [service EXCEPT ![s].status = IF @ = "maintenance" THEN @ ELSE "up",
                                  ![s].failures = 0]
    /\ incident' = IF i = Nobody THEN incident
                   ELSE [incident EXCEPT ![i].status = "resolved",
                                         ![i].resolvedAt = TRUE,
                                         ![i].version = @ + 1]
    /\ Release(j)
    /\ Goto(j, "announce")
    /\ UNCHANGED <<checks, window, faults, target>>

RecoverCommit(j) ==
    LET s == job[j].svc
        i == job[j].found IN
    /\ At(j, "recoverCommit")
    /\ serviceLock[s] = Nobody
    /\ service' = [service EXCEPT ![s].status = "up", ![s].failures = 0]
    /\ incident' = IF i = Nobody THEN incident
                   ELSE [incident EXCEPT ![i].status = "resolved",
                                         ![i].resolvedAt = TRUE,
                                         ![i].version = @ + 1]
    /\ Release(j)
    /\ Goto(j, "announce")
    /\ UNCHANGED <<checks, window, faults, target>>

-----------------------------------------------------------------------------
(* processWorkerFailure: UPDATE the service first, which serialises the    *)
(* failure transactions of a service; then SELECT an open incident; then   *)
(* create one or escalate it.                                              *)

NewFailures(j) == Bump(job[j].failures)

NewServiceStatus(j) ==
    IF NewFailures(j) >= IncidentThreshold THEN "down"
    ELSE IF NewFailures(j) >= WarningThreshold THEN "degraded"
    ELSE job[j].status

(* Mutant of FailUpdate: the service is updated after the incident, so the *)
(* transaction does not start by taking the service row.                   *)
FailUpdateLate(j) ==
    /\ At(j, "failUpdate")
    /\ Goto(j, "failFind")
    /\ UNCHANGED <<rowVars, lockVars, faults, target>>

FailUpdate(j) ==
    LET s == job[j].svc IN
    /\ At(j, "failUpdate")
    /\ serviceLock[s] = Nobody
    /\ serviceLock' = [serviceLock EXCEPT ![s] = j]
    /\ Goto(j, "failFind")
    /\ UNCHANGED <<rowVars, incidentLock, faults, target>>

(* Mutant of FailFind: an incident that is already open is left alone.     *)
FailFindNeverEscalating(j) ==
    LET open == Unresolved(job[j].svc) IN
    /\ At(j, "failFind")
    /\ IF NewFailures(j) >= IncidentThreshold /\ open = {}
       THEN Goto(j, "failCreate")
       ELSE \E i \in open \cup {Nobody} :
                job' = [job EXCEPT ![j].found = i, ![j].pc = "failCommit"]
    /\ UNCHANGED <<storeVars, target>>

FailFind(j) ==
    LET open == Unresolved(job[j].svc) IN
    /\ At(j, "failFind")
    /\ \/ /\ NewFailures(j) < IncidentThreshold
          /\ Goto(j, "failCommit")
       \/ /\ NewFailures(j) >= IncidentThreshold
          /\ open = {}
          /\ Goto(j, "failCreate")
       \/ /\ NewFailures(j) >= IncidentThreshold
          /\ \E i \in open :
                job' = [job EXCEPT ![j].found = i,
                                   ![j].pc = IF /\ NewFailures(j) >= CriticalThreshold
                                                /\ incident[i].severity # "critical"
                                             THEN "failEscalate" ELSE "failCommit"]
    /\ UNCHANGED <<storeVars, target>>

CommitFailures(j) ==
    /\ service' = [service EXCEPT ![job[j].svc].status = NewServiceStatus(j),
                                  ![job[j].svc].failures = NewFailures(j)]
    /\ Release(j)
    /\ Goto(j, "announce")

FailCreate(j) ==
    /\ At(j, "failCreate")
    /\ \E i \in Unused :
          incident' = [incident EXCEPT ![i] =
              [svc |-> job[j].svc, status |-> "open",
               severity |-> IF NewFailures(j) >= CriticalThreshold THEN "critical" ELSE "high",
               resolvedAt |-> FALSE, version |-> 1]]
    /\ CommitFailures(j)
    /\ UNCHANGED <<checks, window, faults, target>>

FailEscalate(j) ==
    /\ At(j, "failEscalate")
    /\ incidentLock[job[j].found] = Nobody
    /\ incident' = [incident EXCEPT ![job[j].found].severity = "critical",
                                    ![job[j].found].version = @ + 1]
    /\ CommitFailures(j)
    /\ UNCHANGED <<checks, window, faults, target>>

FailCommit(j) ==
    /\ At(j, "failCommit")
    /\ CommitFailures(j)
    /\ UNCHANGED <<checks, incident, window, faults, target>>

(* Alerts, live events and subscriber mail; an error here fails the job    *)
(* although its transaction is already committed.                          *)
Announce(j) ==
    /\ At(j, "announce")
    /\ Finish(j)
    /\ UNCHANGED <<storeVars, target>>

-----------------------------------------------------------------------------
(* Failure of an execution.                                                *)

(* Mutants of Abort: the queue retries without limit; the transaction is   *)
(* left open when the job throws.                                          *)
AbortWithoutLimit(j) ==
    /\ Release(j)
    /\ job' = [job EXCEPT ![j] = QueuedJob(job[j].svc, job[j].attempt + 1)]

AbortKeepingLocks(j) ==
    /\ UNCHANGED lockVars
    /\ IF job[j].attempt < MaxAttempts
       THEN job' = [job EXCEPT ![j] = QueuedJob(job[j].svc, job[j].attempt + 1)]
       ELSE Finish(j)

(* A throw rolls the open transaction back and the queue runs the job      *)
(* again from its first line, up to MaxAttempts times.                     *)
Abort(j) ==
    /\ Release(j)
    /\ IF job[j].attempt < MaxAttempts
       THEN job' = [job EXCEPT ![j] = QueuedJob(job[j].svc, job[j].attempt + 1)]
       ELSE Finish(j)

JobError(j) ==
    /\ ~At(j, "idle")
    /\ Fault
    /\ Abort(j)
    /\ UNCHANGED <<rowVars, target>>

(* The worker process dies: every transaction is rolled back; a stalled    *)
(* job is handed out again from its first line, or given up.               *)
WorkerCrash ==
    /\ Fault
    /\ \E again \in SUBSET InFlight :
          job' = [j \in Jobs |-> IF j \in again THEN QueuedJob(job[j].svc, job[j].attempt)
                                 ELSE IdleJob]
    /\ serviceLock' = [s \in Services |-> IF serviceLock[s] \in Jobs THEN Nobody
                                          ELSE serviceLock[s]]
    /\ incidentLock' = [i \in Incidents |-> IF incidentLock[i] \in Jobs THEN Nobody
                                            ELSE incidentLock[i]]
    /\ UNCHANGED <<rowVars, target>>

(* The monitored endpoint breaks or recovers.                              *)
TargetFlips(s) ==
    /\ target[s] = "down" \/ HasRoom
    /\ target' = [target EXCEPT ![s] = IF @ = "up" THEN "down" ELSE "up"]
    /\ UNCHANGED <<storeVars, job>>

(* pauseService and resumeService, or an edit of isActive.                 *)
SetActive(s) ==
    /\ serviceLock[s] = Nobody
    /\ service' = [service EXCEPT ![s].active = ~@]
    /\ UNCHANGED <<checks, incident, window, lockVars, faults, jobVars>>

(* A recovery or a failure that waits for a row lock somebody else holds.  *)
AwaitsService(j, s) == At(j, "recoverCommit") /\ job[j].svc = s
AwaitsIncident(j, i) == At(j, "failEscalate") /\ job[j].found = i

JobStep(j) ==
    \/ FetchService(j) \/ Probe(j) \/ LogCheck(j)
    \/ FindWindow(j) \/ MarkMaintenance(j)
    \/ RecoverFind(j) \/ RecoverLock(j) \/ RecoverCommit(j)
    \/ FailUpdate(j) \/ FailFind(j) \/ FailCreate(j) \/ FailEscalate(j) \/ FailCommit(j)
    \/ Announce(j)

HealthCheckNext ==
    \/ \E j \in Jobs : \/ \E s \in Services : Enqueue(j, s)
                       \/ JobStep(j)
                       \/ JobError(j)
    \/ \E s \in Services : TargetFlips(s) \/ SetActive(s)
=============================================================================

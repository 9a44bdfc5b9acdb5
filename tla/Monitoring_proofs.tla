-------------------------- MODULE Monitoring_proofs --------------------------
(***************************************************************************)
(* Proofs about Monitoring for any number of services, incidents, jobs,    *)
(* requests, windows and ticker runs, and any thresholds the API accepts.  *)
(* First the types and the inductive invariant; then what follows from it  *)
(* about incidents and their lifecycle; then, each with what it adds to    *)
(* the invariant, critical outages, maintenance windows and streaks.       *)
(***************************************************************************)
EXTENDS Streaks, TLAPS

-----------------------------------------------------------------------------
(* Types.                                                                  *)

LEMMA BumpType ==
    ASSUME NEW n \in 0..MaxFailures
    PROVE  Bump(n) \in 0..MaxFailures
BY ThresholdAssumption DEF Bump

LEMMA ReleaseType ==
    ASSUME NEW o, Release(o), StoreTypeOK
    PROVE  /\ serviceLock' \in [Services -> Owners \cup {Nobody}]
           /\ incidentLock' \in [Incidents -> Owners \cup {Nobody}]
BY DEF Release, StoreTypeOK

LEMMA TypeInit == Init => TypeOK
<1> SUFFICES ASSUME Init PROVE TypeOK
    OBVIOUS
<1>1. StoreTypeOK
    BY ThresholdAssumption, FaultAssumption
    DEF Init, StoreInit, StoreTypeOK, ServiceRow, ServiceStatus, CheckLog, IncidentRow,
        IncidentStatus, IncidentSeverity, WindowRow, NoIncident, NoWindow
<1>2. JobTypeOK
    BY ThresholdAssumption
    DEF Init, JobInit, JobTypeOK, IdleJob, JobRow, JobPc, ServiceStatus, MaxAttempts
<1>3. RequestTypeOK
    BY DEF Init, RequestInit, RequestTypeOK, RequestRow, RequestPc, NewRequest, NoChange,
           UpdateBody, IncidentStatus, IncidentSeverity
<1>4. TickTypeOK
    BY DEF Init, TickInit, TickTypeOK, IdleTick, TickRow
<1> QED
    BY <1>1, <1>2, <1>3, <1>4 DEF TypeOK

LEMMA Bounds ==
    /\ 0 \in 0..MaxFailures
    /\ 1 \in 1..MaxAttempts
BY ThresholdAssumption DEF MaxAttempts

LEMMA JobRowType ==
    /\ IdleJob \in JobRow
    /\ \A s \in Services, n \in 1..MaxAttempts : QueuedJob(s, n) \in JobRow
<1>1. IdleJob \in JobRow
    BY Bounds DEF IdleJob, JobRow, JobPc, ServiceStatus
<1>2. ASSUME NEW s \in Services, NEW n \in 1..MaxAttempts
      PROVE  QueuedJob(s, n) \in JobRow
    BY <1>1, <1>2 DEF QueuedJob, JobRow, JobPc
<1> QED
    BY <1>1, <1>2

(* The steps of an execution that change nothing but its own record.       *)
LEMMA JobReadsType ==
    ASSUME NEW j \in Jobs, StoreTypeOK, JobTypeOK, JobsConsistent,
           \/ FetchService(j) \/ Probe(j) \/ FindWindow(j) \/ RecoverFind(j) \/ FailFind(j)
           \/ Announce(j)
    PROVE  StoreTypeOK' /\ JobTypeOK'
<1>0. StoreTypeOK'
    BY DEF FetchService, Probe, FindWindow, RecoverFind, FailFind, Announce, storeVars,
           StoreTypeOK
<1>s. ~At(j, "idle") => job[j].svc \in Services
    BY DEF JobsConsistent, JobConsistent
<1>1. CASE FetchService(j)
    <2>1. service[job[j].svc] \in ServiceRow
        BY <1>1, <1>s DEF FetchService, At, StoreTypeOK
    <2>2. CASE service[job[j].svc].active
        BY <1>0, <1>1, <2>1, <2>2 DEF FetchService, JobTypeOK, ServiceRow, JobRow, JobPc
    <2>3. CASE ~service[job[j].svc].active
        BY <1>0, <1>1, <2>3, JobRowType DEF FetchService, Finish, JobTypeOK
    <2> QED
        BY <2>2, <2>3
<1>2. CASE Probe(j)
    <2>1. target[job[j].svc] \in {"up", "down"}
        BY <1>2, <1>s DEF Probe, At, JobTypeOK
    <2>2. [job[j] EXCEPT !.pc = "log", !.outcome = target[job[j].svc]] \in JobRow
        BY <2>1 DEF JobTypeOK, JobRow, JobPc
    <2> QED
        BY <1>0, <1>2, <2>2 DEF Probe, JobTypeOK
<1>3. CASE FindWindow(j)
    BY <1>0, <1>3, JobRowType DEF FindWindow, Finish, Goto, JobTypeOK, JobRow, JobPc
<1>4. CASE RecoverFind(j)
    BY <1>0, <1>4 DEF RecoverFind, Unresolved, Goto, JobTypeOK, JobRow, JobPc
<1>5. CASE FailFind(j)
    <2>1. \/ Goto(j, "failCommit")
          \/ Goto(j, "failCreate")
          \/ \E i \in Incidents, label \in {"failEscalate", "failCommit"} :
                job' = [job EXCEPT ![j].found = i, ![j].pc = label]
        BY <1>5 DEF FailFind, Unresolved
    <2>2. \A label \in {"failEscalate", "failCommit", "failCreate"} :
            /\ [job[j] EXCEPT !.pc = label] \in JobRow
            /\ \A i \in Incidents : [job[j] EXCEPT !.found = i, !.pc = label] \in JobRow
        BY DEF JobTypeOK, JobRow, JobPc
    <2>3. \E row \in JobRow : job' = [job EXCEPT ![j] = row]
        <3>1. CASE Goto(j, "failCommit") \/ Goto(j, "failCreate")
            BY <2>2, <3>1 DEF Goto
        <3>2. ASSUME NEW i \in Incidents, NEW label \in {"failEscalate", "failCommit"},
                     job' = [job EXCEPT ![j].found = i, ![j].pc = label]
              PROVE  \E row \in JobRow : job' = [job EXCEPT ![j] = row]
            <4>1. job' = [job EXCEPT ![j] = [job[j] EXCEPT !.found = i, !.pc = label]]
                BY <3>2
            <4> QED
                BY <2>2, <4>1
        <3> QED
            BY <2>1, <3>1, <3>2
    <2> QED
        BY <1>0, <1>5, <2>3 DEF FailFind, JobTypeOK
<1>6. CASE Announce(j)
    BY <1>0, <1>6, JobRowType DEF Announce, Finish, JobTypeOK
<1> QED
    BY <1>1, <1>2, <1>3, <1>4, <1>5, <1>6

(* The steps that write rows or take locks.                                *)
LEMMA NewFailuresType ==
    ASSUME NEW j \in Jobs, JobTypeOK
    PROVE  NewFailures(j) \in 0..MaxFailures /\ NewServiceStatus(j) \in ServiceStatus
<1>1. job[j].failures \in 0..MaxFailures /\ job[j].status \in ServiceStatus
    BY DEF JobTypeOK, JobRow
<1>2. NewFailures(j) \in 0..MaxFailures
    BY <1>1, BumpType DEF NewFailures
<1> QED
    BY <1>1, <1>2 DEF NewServiceStatus, ServiceStatus

LEMMA CommitType ==
    ASSUME NEW j \in Jobs, StoreTypeOK, JobTypeOK, CommitFailures(j)
    PROVE  /\ service' \in [Services -> ServiceRow]
           /\ serviceLock' \in [Services -> Owners \cup {Nobody}]
           /\ incidentLock' \in [Incidents -> Owners \cup {Nobody}]
           /\ job' \in [Jobs -> JobRow]
<1>1. service' \in [Services -> ServiceRow]
    BY NewFailuresType DEF CommitFailures, StoreTypeOK, ServiceRow
<1>2. job' \in [Jobs -> JobRow]
    BY DEF CommitFailures, Goto, JobTypeOK, JobRow, JobPc
<1> QED
    BY <1>1, <1>2, ReleaseType DEF CommitFailures

LEMMA JobWritesType ==
    ASSUME NEW j \in Jobs, StoreTypeOK, JobTypeOK, JobsConsistent,
           \/ LogCheck(j) \/ MarkMaintenance(j) \/ RecoverLock(j) \/ RecoverCommit(j)
           \/ FailUpdate(j)
    PROVE  StoreTypeOK' /\ JobTypeOK'
<1>1. CASE LogCheck(j)
    <2>1. \A n \in 0..MaxFailures : Bump(n) \in 0..MaxFailures
        BY BumpType
    <2>2. job[j].outcome \in {"none", "up", "down"}
        BY DEF JobTypeOK, JobRow
    <2>3. checks' \in [Services -> CheckLog]
        BY <1>1, <2>1, <2>2, Bounds DEF LogCheck, StoreTypeOK, CheckLog
    <2>4. job' \in [Jobs -> JobRow]
        BY <1>1 DEF LogCheck, Goto, JobTypeOK, JobRow, JobPc
    <2> QED
        BY <1>1, <2>3, <2>4 DEF LogCheck, StoreTypeOK, JobTypeOK, lockVars
<1>2. CASE MarkMaintenance(j)
    <2>1. service' \in [Services -> ServiceRow]
        BY <1>2, Bounds DEF MarkMaintenance, StoreTypeOK, ServiceRow, ServiceStatus
    <2> QED
        BY <1>2, <2>1, JobRowType DEF MarkMaintenance, Finish, StoreTypeOK, JobTypeOK, lockVars
<1>3. CASE RecoverLock(j)
    <2>1. incidentLock' \in [Incidents -> Owners \cup {Nobody}]
        BY <1>3 DEF RecoverLock, StoreTypeOK, Owners
    <2>2. job' \in [Jobs -> JobRow]
        BY <1>3 DEF RecoverLock, Goto, JobTypeOK, JobRow, JobPc
    <2> QED
        BY <1>3, <2>1, <2>2 DEF RecoverLock, StoreTypeOK, JobTypeOK, rowVars
<1>4. CASE RecoverCommit(j)
    <2>1. service' \in [Services -> ServiceRow]
        BY <1>4, Bounds DEF RecoverCommit, StoreTypeOK, ServiceRow, ServiceStatus
    <2>2. incident' \in [Incidents -> IncidentRow]
        <3> DEFINE resolved(row) == [row EXCEPT !.status = "resolved", !.resolvedAt = TRUE,
                                                !.version = @ + 1]
        <3>1. ASSUME NEW row \in IncidentRow PROVE resolved(row) \in IncidentRow
            <4>1. row.version + 1 \in Nat
                BY DEF IncidentRow
            <4> QED
                BY <4>1 DEF IncidentRow, IncidentStatus
        <3>2. \/ incident' = incident
              \/ incident' = [incident EXCEPT ![job[j].found] = resolved(@)]
            BY <1>4 DEF RecoverCommit
        <3> HIDE DEF resolved
        <3> QED
            BY <3>1, <3>2 DEF StoreTypeOK
    <2>3. job' \in [Jobs -> JobRow]
        BY <1>4 DEF RecoverCommit, Goto, JobTypeOK, JobRow, JobPc
    <2> QED
        BY <1>4, <2>1, <2>2, <2>3, ReleaseType DEF RecoverCommit, StoreTypeOK, JobTypeOK
<1>5. CASE FailUpdate(j)
    <2>1. serviceLock' \in [Services -> Owners \cup {Nobody}]
        BY <1>5 DEF FailUpdate, StoreTypeOK, Owners
    <2>2. job' \in [Jobs -> JobRow]
        BY <1>5 DEF FailUpdate, Goto, JobTypeOK, JobRow, JobPc
    <2> QED
        BY <1>5, <2>1, <2>2 DEF FailUpdate, StoreTypeOK, JobTypeOK, rowVars
<1> QED
    BY <1>1, <1>2, <1>3, <1>4, <1>5

LEMMA FailCommitsType ==
    ASSUME NEW j \in Jobs, StoreTypeOK, JobTypeOK, JobsConsistent,
           FailCreate(j) \/ FailEscalate(j) \/ FailCommit(j)
    PROVE  StoreTypeOK' /\ JobTypeOK'
<1>1. CommitFailures(j) /\ UNCHANGED <<checks, window, faults, target>>
    BY DEF FailCreate, FailEscalate, FailCommit
<1>2. incident' \in [Incidents -> IncidentRow]
    <2>1. CASE FailCreate(j)
        <3>1. job[j].svc \in Services
            BY <2>1 DEF FailCreate, At, JobsConsistent, JobConsistent
        <3>2. \A severity \in {"critical", "high"} :
                [svc |-> job[j].svc, status |-> "open", severity |-> severity,
                 resolvedAt |-> FALSE, version |-> 1] \in IncidentRow
            BY <3>1 DEF IncidentRow, IncidentStatus, IncidentSeverity
        <3> QED
            BY <2>1, <3>2 DEF FailCreate, StoreTypeOK
    <2>2. CASE FailEscalate(j)
        <3> DEFINE escalated(row) == [row EXCEPT !.severity = "critical", !.version = @ + 1]
        <3>1. ASSUME NEW row \in IncidentRow PROVE escalated(row) \in IncidentRow
            <4>1. row.version + 1 \in Nat
                BY DEF IncidentRow
            <4> QED
                BY <4>1 DEF IncidentRow, IncidentSeverity
        <3>2. incident' = [incident EXCEPT ![job[j].found] = escalated(@)]
            BY <2>2 DEF FailEscalate
        <3> HIDE DEF escalated
        <3> QED
            BY <3>1, <3>2 DEF StoreTypeOK
    <2>3. CASE FailCommit(j)
        BY <2>3 DEF FailCommit, StoreTypeOK
    <2> QED
        BY <2>1, <2>2, <2>3
<1> QED
    BY <1>1, <1>2, CommitType DEF StoreTypeOK, JobTypeOK

(* The schedule, the environment and the failures of executions.           *)
LEMMA AbortType ==
    ASSUME NEW j \in Jobs, StoreTypeOK, JobTypeOK, JobsConsistent, Abort(j), ~At(j, "idle")
    PROVE  /\ serviceLock' \in [Services -> Owners \cup {Nobody}]
           /\ incidentLock' \in [Incidents -> Owners \cup {Nobody}]
           /\ job' \in [Jobs -> JobRow]
<1>1. job[j].svc \in Services
    BY DEF JobsConsistent, JobConsistent
<1>2. job[j].attempt < MaxAttempts => job[j].attempt + 1 \in 1..MaxAttempts
    BY DEF JobTypeOK, JobRow, MaxAttempts
<1>3. \E row \in JobRow : job' = [job EXCEPT ![j] = row]
    BY <1>1, <1>2, JobRowType DEF Abort, Finish
<1> QED
    BY <1>3, ReleaseType DEF Abort, JobTypeOK

LEMMA FaultType ==
    ASSUME Fault, StoreTypeOK
    PROVE  faults' \in 0..MaxFaults
BY FaultAssumption DEF Fault, StoreTypeOK

LEMMA JobEnvironmentType ==
    ASSUME StoreTypeOK, JobTypeOK, JobsConsistent,
           \/ \E j \in Jobs, s \in Services : Enqueue(j, s)
           \/ \E j \in Jobs : JobError(j)
           \/ \E s \in Services : TargetFlips(s) \/ SetActive(s)
           \/ WorkerCrash
    PROVE  StoreTypeOK' /\ JobTypeOK'
<1>1. ASSUME NEW j \in Jobs, NEW s \in Services, Enqueue(j, s)
      PROVE  StoreTypeOK' /\ JobTypeOK'
    BY <1>1, JobRowType, Bounds DEF Enqueue, StoreTypeOK, JobTypeOK, storeVars
<1>2. ASSUME NEW j \in Jobs, JobError(j)
      PROVE  StoreTypeOK' /\ JobTypeOK'
    BY <1>2, AbortType, FaultType DEF JobError, StoreTypeOK, JobTypeOK, rowVars
<1>3. ASSUME NEW s \in Services, TargetFlips(s)
      PROVE  StoreTypeOK' /\ JobTypeOK'
    BY <1>3 DEF TargetFlips, StoreTypeOK, JobTypeOK, storeVars
<1>4. ASSUME NEW s \in Services, SetActive(s)
      PROVE  StoreTypeOK' /\ JobTypeOK'
    <2>1. service' \in [Services -> ServiceRow]
        BY <1>4 DEF SetActive, StoreTypeOK, ServiceRow
    <2> QED
        BY <1>4, <2>1 DEF SetActive, StoreTypeOK, JobTypeOK, lockVars, jobVars
<1>5. ASSUME WorkerCrash
      PROVE  StoreTypeOK' /\ JobTypeOK'
    <2>1. job' \in [Jobs -> JobRow]
        <3>1. \A j \in InFlight : job[j].svc \in Services /\ job[j].attempt \in 1..MaxAttempts
            BY DEF InFlight, JobsConsistent, JobConsistent, JobTypeOK, JobRow
        <3> QED
            BY <1>5, <3>1, JobRowType DEF WorkerCrash
    <2>2. /\ serviceLock' \in [Services -> Owners \cup {Nobody}]
          /\ incidentLock' \in [Incidents -> Owners \cup {Nobody}]
        BY <1>5 DEF WorkerCrash, StoreTypeOK
    <2> QED
        BY <1>5, <2>1, <2>2, FaultType DEF WorkerCrash, StoreTypeOK, JobTypeOK, rowVars
<1> QED
    BY <1>1, <1>2, <1>3, <1>4, <1>5

LEMMA HealthCheckType ==
    ASSUME StoreTypeOK, JobTypeOK, JobsConsistent, HealthCheckNext \/ WorkerCrash
    PROVE  StoreTypeOK' /\ JobTypeOK'
BY JobEnvironmentType, JobReadsType, JobWritesType, FailCommitsType
DEF HealthCheckNext, JobStep

(* The incident API.                                                       *)
LEMMA ChangedType ==
    ASSUME NEW body \in UpdateBody, NEW row \in IncidentRow
    PROVE  Changed(body, row) \in UpdateBody
BY DEF Changed, UpdateBody

LEMMA MergedType ==
    ASSUME NEW row \in IncidentRow, NEW change \in UpdateBody
    PROVE  Merged(row, change) \in IncidentRow
<1>1. row.version + 1 \in Nat
    BY DEF IncidentRow
<1> QED
    BY <1>1 DEF Merged, IncidentRow, UpdateBody

LEMMA AnswerType ==
    \A answer \in {"closed", "saved"} : [NewRequest EXCEPT !.pc = answer] \in RequestRow
BY DEF NewRequest, NoChange, RequestRow, RequestPc, UpdateBody

LEMMA IncidentApiType ==
    ASSUME StoreTypeOK, RequestTypeOK, RowsConsistent, RequestsConsistent, IncidentApiNext
    PROVE  StoreTypeOK' /\ RequestTypeOK'
<1> PICK r \in Requests : Submit(r) \/ RequestStep(r) \/ RequestError(r)
    BY DEF IncidentApiNext
<1>0. /\ request[r] \in RequestRow
      /\ request[r].change \in UpdateBody
    BY DEF RequestTypeOK, RequestRow
<1>s. ~Serving(r, "new") /\ ~Answered(r) =>
        /\ request[r].target \in Incidents
        /\ incident[request[r].target] \in IncidentRow
        /\ incident[request[r].target].svc \in Services
    BY DEF RequestsConsistent, RequestConsistent, RowsConsistent, RowConsistent, StoreTypeOK
<1>1. CASE Submit(r)
    <2>1. \A i \in Incidents : incident[i].version \in Nat
        BY DEF StoreTypeOK, IncidentRow
    <2>2. PICK i \in Incidents, body \in Updates, token \in Nat :
            request' = [request EXCEPT ![r] =
                [NewRequest EXCEPT !.pc = "read", !.target = i, !.change = body,
                                   !.token = token]]
        BY <1>1, <2>1 DEF Submit
    <2>3. body \in UpdateBody
        BY UpdateAssumption
    <2>4. [NewRequest EXCEPT !.pc = "read", !.target = i, !.change = body, !.token = token]
            \in RequestRow
        BY <2>3 DEF NewRequest, RequestRow, RequestPc
    <2> QED
        BY <1>1, <2>2, <2>4 DEF Submit, storeVars, StoreTypeOK, RequestTypeOK
<1>2. CASE ReadExisting(r)
    <2>1. ~Serving(r, "new") /\ ~Answered(r)
        BY <1>2 DEF ReadExisting, Serving, Answered
    <2>2. Changed(request[r].change, incident[request[r].target]) \in UpdateBody
        BY <1>0, <1>s, <2>1, ChangedType
    <2>3. \E row \in RequestRow : request' = [request EXCEPT ![r] = row]
        <3>1. \A c \in UpdateBody : [request[r] EXCEPT !.change = c, !.pc = "check"] \in RequestRow
            BY <1>0 DEF RequestRow, RequestPc
        <3>2. PICK c \in UpdateBody : c = Changed(request[r].change, incident[request[r].target])
            BY <2>2
        <3>3. CASE c = NoChange
            <4>1. Reply(r, "closed")
                BY <1>2, <3>2, <3>3 DEF ReadExisting
            <4> QED
                BY <4>1, AnswerType DEF Reply
        <3>4. CASE c # NoChange
            <4>1. request' = [request EXCEPT ![r].change = c, ![r].pc = "check"]
                BY <1>2, <3>2, <3>4 DEF ReadExisting
            <4>2. PICK row \in RequestRow : row = [request[r] EXCEPT !.change = c, !.pc = "check"]
                BY <3>1
            <4>3. request' = [request EXCEPT ![r] = row]
                BY <4>1, <4>2 DEF RequestTypeOK
            <4> QED
                BY <4>3
        <3> QED
            BY <3>3, <3>4
    <2> QED
        BY <1>2, <2>3 DEF ReadExisting, storeVars, StoreTypeOK, RequestTypeOK
<1>3. CASE CheckToken(r)
    <2>1. \E row \in RequestRow : request' = [request EXCEPT ![r] = row]
        <3>1. [request[r] EXCEPT !.pc = "write"] \in RequestRow
            BY <1>0 DEF RequestRow, RequestPc
        <3> QED
            BY <1>3, <3>1, AnswerType DEF CheckToken, Reply, Proceed
    <2> QED
        BY <1>3, <2>1 DEF CheckToken, storeVars, StoreTypeOK, RequestTypeOK
<1>4. CASE WriteFields(r)
    <2>1. incident[request[r].target] \in IncidentRow
        BY <1>4, <1>s DEF WriteFields, Serving, Answered
    <2>2. Merged(incident[request[r].target], request[r].change) \in IncidentRow
        BY <1>0, <2>1, MergedType
    <2>3. incident' \in [Incidents -> IncidentRow]
        BY <1>4, <2>2 DEF WriteFields, StoreTypeOK
    <2>4. request' \in [Requests -> RequestRow]
        BY <1>4, AnswerType DEF WriteFields, Reply, RequestTypeOK
    <2> QED
        BY <1>4, <2>3, <2>4 DEF WriteFields, lockVars, StoreTypeOK, RequestTypeOK
<1>5. CASE LockForResolve(r)
    <2>1. incidentLock' \in [Incidents -> Owners \cup {Nobody}]
        BY <1>5 DEF LockForResolve, StoreTypeOK, Owners
    <2>2. request' \in [Requests -> RequestRow]
        BY <1>5 DEF LockForResolve, Proceed, RequestTypeOK, RequestRow, RequestPc
    <2> QED
        BY <1>5, <2>1, <2>2 DEF LockForResolve, rowVars, StoreTypeOK, RequestTypeOK
<1>6. CASE ReadNewestCheck(r)
    <2>1. incident[request[r].target].svc \in Services
        BY <1>6, <1>s DEF ReadNewestCheck, Serving, Answered
    <2>2. checks[incident[request[r].target].svc].newest \in {"none", "up", "down"}
        BY <2>1 DEF StoreTypeOK, CheckLog
    <2>3. \E row \in RequestRow : request' = [request EXCEPT ![r] = row]
        <3>1. \A n \in {"none", "up", "down"} :
                [request[r] EXCEPT !.pc = "reset", !.newest = n] \in RequestRow
            BY <1>0 DEF RequestRow, RequestPc
        <3> QED
            BY <1>6, <2>2, <3>1 DEF ReadNewestCheck
    <2> QED
        BY <1>6, <2>3 DEF ReadNewestCheck, storeVars, StoreTypeOK, RequestTypeOK
<1>7. CASE ResolveCommit(r)
    <2>1. incident[request[r].target] \in IncidentRow
        BY <1>7, <1>s DEF ResolveCommit, Serving, Answered
    <2>2. Merged(incident[request[r].target], request[r].change) \in IncidentRow
        BY <1>0, <2>1, MergedType
    <2>3. incident' \in [Incidents -> IncidentRow]
        BY <1>7, <2>2 DEF ResolveCommit, StoreTypeOK
    <2>4. request' \in [Requests -> RequestRow]
        BY <1>7, AnswerType DEF ResolveCommit, Reply, RequestTypeOK
    <2>5. service' \in [Services -> ServiceRow]
        <3>1. \A status \in {"up", "unknown"}, row \in ServiceRow :
                [row EXCEPT !.status = status, !.failures = 0] \in ServiceRow
            BY Bounds DEF ServiceRow, ServiceStatus
        <3>2. PICK status \in {"up", "unknown"} :
                service' = [service EXCEPT ![incident[request[r].target].svc].status = status,
                                           ![incident[request[r].target].svc].failures = 0]
            BY <1>7 DEF ResolveCommit
        <3>3. \E row \in ServiceRow :
                service' = [service EXCEPT ![incident[request[r].target].svc] = row]
            <4> DEFINE s == incident[request[r].target].svc
            <4>1. s \in Services
                BY <1>7, <1>s DEF ResolveCommit, Serving, Answered
            <4>2. service[s] \in ServiceRow
                BY <4>1 DEF StoreTypeOK
            <4>3. service' = [service EXCEPT ![s] =
                    [service[s] EXCEPT !.status = status, !.failures = 0]]
                BY <3>2, <4>1 DEF StoreTypeOK
            <4> QED
                BY <3>1, <4>2, <4>3
        <3> QED
            BY <3>1, <3>3 DEF StoreTypeOK
    <2> QED
        BY <1>7, <2>3, <2>4, <2>5, ReleaseType DEF ResolveCommit, StoreTypeOK, RequestTypeOK
<1>8. CASE RequestError(r)
    BY <1>8, AnswerType, ReleaseType, FaultType
    DEF RequestError, Rollback, Reply, rowVars, StoreTypeOK, RequestTypeOK
<1> QED
    BY <1>1, <1>2, <1>3, <1>4, <1>5, <1>6, <1>7, <1>8 DEF RequestStep

(* Maintenance windows.                                                    *)
LEMMA MaintenanceType ==
    ASSUME StoreTypeOK, TickTypeOK, MaintenanceNext
    PROVE  StoreTypeOK' /\ TickTypeOK'
<1>i. IdleTick \in TickRow
    BY DEF IdleTick, TickRow
<1>1. ASSUME NEW t \in Tickers, FindToStart(t)
      PROVE  StoreTypeOK' /\ TickTypeOK'
    <2>1. \A ws \in SUBSET Windows :
            [tick[t] EXCEPT !.pc = "complete", !.toStart = ws] \in TickRow
        BY DEF TickTypeOK, TickRow
    <2>2. \E ws \in SUBSET Windows :
            tick' = [tick EXCEPT ![t] = [tick[t] EXCEPT !.pc = "complete", !.toStart = ws]]
        BY <1>1 DEF FindToStart
    <2> QED
        BY <1>1, <2>1, <2>2 DEF FindToStart, storeVars, StoreTypeOK, TickTypeOK
<1>2. ASSUME NEW t \in Tickers, FindToComplete(t)
      PROVE  StoreTypeOK' /\ TickTypeOK'
    <2>1. \A ws \in SUBSET Windows :
            [tick[t] EXCEPT !.pc = "windows", !.toComplete = ws] \in TickRow
        BY DEF TickTypeOK, TickRow
    <2>2. \E ws \in SUBSET Windows :
            tick' = [tick EXCEPT ![t] = [tick[t] EXCEPT !.pc = "windows", !.toComplete = ws]]
        BY <1>2 DEF FindToComplete
    <2> QED
        BY <1>2, <2>1, <2>2 DEF FindToComplete, storeVars, StoreTypeOK, TickTypeOK
<1>3. ASSUME NEW t \in Tickers, NEW w \in Windows, Transition(t, w)
      PROVE  StoreTypeOK' /\ TickTypeOK'
    <2>1. window' \in [Windows -> WindowRow]
        BY <1>3 DEF Transition, StoreTypeOK, WindowRow
    <2>2. \E row \in TickRow : tick' = [tick EXCEPT ![t] = row]
        <3>1. tick[t] \in TickRow
            BY DEF TickTypeOK
        <3>2. \A a, b \in SUBSET Windows, label \in {"windows", "service"},
                 c \in Windows \cup {Nobody}, st \in {"maintenance", "unknown"} :
                [tick[t] EXCEPT !.toStart = a, !.toComplete = b, !.pc = label, !.cur = c,
                                !.status = st] \in TickRow
            BY <3>1 DEF TickRow
        <3>3. CASE window[w].status = "deleted"
            BY <1>3, <1>i, <3>3 DEF Transition
        <3>4. CASE window[w].status # "deleted"
            <4> DEFINE starting == w \in tick[t].toStart
                       global == window[w].svc = Nobody
                       a == tick[t].toStart \ {w}
                       b == IF starting THEN tick[t].toComplete ELSE tick[t].toComplete \ {w}
                       label == IF global THEN "windows" ELSE "service"
                       c == IF global THEN Nobody ELSE w
                       st == IF starting THEN "maintenance" ELSE "unknown"
            <4>1. tick' = [tick EXCEPT ![t] =
                    [tick[t] EXCEPT !.toStart = a, !.toComplete = b, !.pc = label,
                                    !.cur = c, !.status = st]]
                BY <1>3, <3>4 DEF Transition
            <4>2. /\ a \in SUBSET Windows /\ b \in SUBSET Windows
                  /\ label \in {"windows", "service"}
                  /\ c \in Windows \cup {Nobody}
                  /\ st \in {"maintenance", "unknown"}
                BY <3>1 DEF TickRow
            <4> HIDE DEF a, b, label, c, st
            <4> QED
                BY <3>2, <4>1, <4>2
        <3> QED
            BY <3>3, <3>4
    <2> QED
        BY <1>3, <2>1, <2>2 DEF Transition, lockVars, StoreTypeOK, TickTypeOK
<1>4. ASSUME NEW t \in Tickers, TransitionService(t)
      PROVE  StoreTypeOK' /\ TickTypeOK'
    <2>1. tick[t].status \in ServiceStatus
        BY DEF TickTypeOK, TickRow, ServiceStatus
    <2>2. service' \in [Services -> ServiceRow]
        BY <1>4, <2>1 DEF TransitionService, StoreTypeOK, ServiceRow
    <2>3. tick' \in [Tickers -> TickRow]
        <3>1. [tick[t] EXCEPT !.pc = "windows", !.cur = Nobody, !.status = "unknown"]
                \in TickRow
            BY DEF TickTypeOK, TickRow
        <3> QED
            BY <1>4, <3>1 DEF TransitionService, TickTypeOK
    <2> QED
        BY <1>4, <2>2, <2>3 DEF TransitionService, lockVars, StoreTypeOK, TickTypeOK
<1>5. ASSUME NEW t \in Tickers, EndTick(t)
      PROVE  StoreTypeOK' /\ TickTypeOK'
    BY <1>5, <1>i DEF EndTick, storeVars, StoreTypeOK, TickTypeOK
<1>6. ASSUME NEW t \in Tickers, TickError(t)
      PROVE  StoreTypeOK' /\ TickTypeOK'
    BY <1>6, <1>i, FaultType DEF TickError, rowVars, lockVars, StoreTypeOK, TickTypeOK
<1>7. ASSUME WindowApiNext
      PROVE  StoreTypeOK' /\ TickTypeOK'
    <2>1. window' \in [Windows -> WindowRow] /\ edit' \in [Editors -> Windows \cup {Nobody}]
        <3>1. ASSUME NEW w \in Windows, NEW s \in Services \cup {Nobody},
                     NEW now \in {"before", "inside", "after"}, CreateWindow(w, s, now)
              PROVE  window' \in [Windows -> WindowRow] /\ edit' = edit
            <4>1. window'[w] \in WindowRow
                BY <3>1 DEF CreateWindow, StoreTypeOK, WindowRow
            <4> QED
                BY <3>1, <4>1 DEF CreateWindow, StoreTypeOK, tickVars
        <3>2. ASSUME NEW w \in Windows, RemoveWindow(w) \/ ClockPasses(w)
              PROVE  window' \in [Windows -> WindowRow] /\ edit' = edit
            BY <3>2 DEF RemoveWindow, ClockPasses, StoreTypeOK, WindowRow, tickVars
        <3>3. ASSUME NEW e \in Editors, NEW w \in Windows, ReadWindow(e, w)
              PROVE  window' = window /\ edit' \in [Editors -> Windows \cup {Nobody}]
            BY <3>3 DEF ReadWindow, TickTypeOK, storeVars
        <3>4. ASSUME NEW e \in Editors, NEW now \in {"before", "inside", "after"},
                     WriteWindow(e, now)
              PROVE  /\ window' \in [Windows -> WindowRow]
                     /\ edit' \in [Editors -> Windows \cup {Nobody}]
            BY <3>4 DEF WriteWindow, StoreTypeOK, WindowRow, TickTypeOK
        <3> QED
            BY <1>7, <3>1, <3>2, <3>3, <3>4 DEF WindowApiNext, StoreTypeOK, TickTypeOK
    <2>2. UNCHANGED <<service, checks, incident, lockVars, faults, tick>>
        BY <1>7
        DEF WindowApiNext, CreateWindow, RemoveWindow, ClockPasses, ReadWindow, WriteWindow,
            storeVars, tickVars, lockVars
    <2> QED
        BY <2>1, <2>2 DEF lockVars, StoreTypeOK, TickTypeOK
<1> QED
    BY <1>1, <1>2, <1>3, <1>4, <1>5, <1>6, <1>7 DEF MaintenanceNext, TickStep

(* A row lock that both sides want is given up by an abort.                *)
LEMMA BreakDeadlockType ==
    ASSUME StoreTypeOK, JobTypeOK, RequestTypeOK, TickTypeOK, JobsConsistent, BreakDeadlock
    PROVE  StoreTypeOK' /\ JobTypeOK' /\ RequestTypeOK' /\ TickTypeOK'
<1>1. ASSUME NEW j \in Jobs, AbortDeadlockedJob(j), UNCHANGED <<request, tickVars>>
      PROVE  StoreTypeOK' /\ JobTypeOK' /\ RequestTypeOK' /\ TickTypeOK'
    <2>1. ~At(j, "idle")
        BY <1>1, OwnerAssumption
        DEF AbortDeadlockedJob, Deadlocked, AwaitsIncident, AwaitsService, At
    <2> QED
        BY <1>1, <2>1, AbortType
        DEF AbortDeadlockedJob, rowVars, tickVars, StoreTypeOK, JobTypeOK, RequestTypeOK,
            TickTypeOK
<1>2. ASSUME NEW r \in Requests, AbortDeadlockedRequest(r), UNCHANGED <<jobVars, tickVars>>
      PROVE  StoreTypeOK' /\ JobTypeOK' /\ RequestTypeOK' /\ TickTypeOK'
    BY <1>2, ReleaseType, AnswerType
    DEF AbortDeadlockedRequest, Rollback, Reply, rowVars, jobVars, tickVars, StoreTypeOK,
        JobTypeOK, RequestTypeOK, TickTypeOK
<1> QED
    BY <1>1, <1>2 DEF BreakDeadlock

LEMMA TypeStep ==
    ASSUME TypeOK, Consistent, [Next]_vars
    PROVE  TypeOK'
<1> USE DEF TypeOK, Consistent
<1>1. CASE HealthCheckNext /\ UNCHANGED <<request, tickVars>>
    BY <1>1, HealthCheckType DEF tickVars, RequestTypeOK, TickTypeOK
<1>2. CASE IncidentApiNext /\ UNCHANGED <<jobVars, tickVars>>
    BY <1>2, IncidentApiType DEF jobVars, tickVars, JobTypeOK, TickTypeOK
<1>3. CASE MaintenanceNext /\ UNCHANGED <<jobVars, request>>
    BY <1>3, MaintenanceType DEF jobVars, JobTypeOK, RequestTypeOK
<1>4. CASE BreakDeadlock
    BY <1>4, BreakDeadlockType
<1>5. CASE Crash
    <2>1. StoreTypeOK' /\ JobTypeOK'
        BY <1>5, HealthCheckType DEF Crash
    <2>2. RequestTypeOK' /\ TickTypeOK'
        BY <1>5 DEF Crash, IdleTick, TickRow, RequestTypeOK, TickTypeOK
    <2> QED
        BY <2>1, <2>2
<1>6. CASE UNCHANGED vars
    BY <1>6
    DEF vars, storeVars, jobVars, tickVars, StoreTypeOK, JobTypeOK, RequestTypeOK, TickTypeOK
<1> QED
    BY <1>1, <1>2, <1>3, <1>4, <1>5, <1>6 DEF Next

-----------------------------------------------------------------------------
(* The inductive invariant.                                                *)

(* What every step of o (Nobody: the environment) leaves to the failure    *)
(* transactions of other jobs: their lock on the service row, and, while   *)
(* they hold it, what they found or did not find.                          *)
Harmless(o) ==
    /\ \A i \in Incidents : Used(i) => Used(i)' /\ incident'[i].svc = incident[i].svc
    /\ \A s \in Services : serviceLock[s] \in Jobs \ {o} =>
            /\ serviceLock'[s] = serviceLock[s]
            /\ Unresolved(s) \subseteq Unresolved(s)'
            /\ FreshOf(s)' \subseteq FreshOf(s)

LEMMA UnchangedIsHarmless ==
    ASSUME NEW o, UNCHANGED incident,
           \A s \in Services : serviceLock[s] \in Jobs \ {o} => serviceLock'[s] = serviceLock[s]
    PROVE  Harmless(o)
BY DEF Harmless, Used, Unresolved, FreshOf

LEMMA OthersStayConsistent ==
    ASSUME NEW o, NEW k \in Jobs \ {o}, JobTypeOK, JobConsistent(k), Harmless(o),
           job'[k] = job[k]
    PROVE  JobConsistent(k)'
<1> PICK s : s = job[k].svc
    OBVIOUS
<1> PICK found : found = job[k].found
    OBVIOUS
<1>1. /\ At(k, "idle")' = At(k, "idle") /\ HoldsService(k)' = HoldsService(k)
      /\ At(k, "failCreate")' = At(k, "failCreate") /\ NewFailures(k)' = NewFailures(k)
      /\ job'[k].svc = s /\ job'[k].found = found /\ job'[k].pc = job[k].pc
    BY DEF At, HoldsService, NewFailures, Bump
<1>2. ~At(k, "idle") => s \in Services
    BY DEF JobConsistent
<1>3. HoldsService(k) => /\ serviceLock'[s] = k
                         /\ Unresolved(s) \subseteq Unresolved(s)'
                         /\ FreshOf(s)' \subseteq FreshOf(s)
    BY <1>2 DEF JobConsistent, HoldsService, At, Harmless
<1>4. found # Nobody => found \in Incidents /\ Used(found)' /\ incident'[found].svc = s
    BY DEF JobConsistent, Harmless, JobTypeOK, JobRow
<1>5. At(k, "failCreate") => FreshOf(s)' = {}
    BY <1>3 DEF JobConsistent, HoldsService, At
<1>6. job[k].pc \in {"failEscalate", "failCommit"} /\ NewFailures(k) >= IncidentThreshold
        => found \in Unresolved(s)'
    BY <1>3 DEF JobConsistent, HoldsService
<1>7. job[k].pc \in {"recoverLock", "failEscalate"} => found # Nobody
    BY DEF JobConsistent
<1>8. HoldsService(k) => serviceLock'[s] = k
    BY <1>3
<1> QED
    BY <1>1, <1>2, <1>4, <1>5, <1>6, <1>7, <1>8 DEF JobConsistent, Used

LEMMA FreeIsConsistent ==
    ASSUME NEW j \in Jobs, JobTypeOK, JobConsistent(j), ~At(j, "idle"), Harmless(j),
           job'[j].svc = job[j].svc, job'[j].found = job[j].found,
           job'[j].pc \notin {"recoverLock", "failFind", "failCreate", "failEscalate", "failCommit"}
    PROVE  JobConsistent(j)'
<1> PICK s : s = job[j].svc
    OBVIOUS
<1> PICK found : found = job[j].found
    OBVIOUS
<1>1. s \in Services
    BY DEF JobConsistent
<1>2. found # Nobody => found \in Incidents /\ Used(found)' /\ incident'[found].svc = s
    BY DEF JobConsistent, Harmless, JobTypeOK, JobRow
<1>3. job'[j].svc = s /\ job'[j].found = found
    OBVIOUS
<1> QED
    BY <1>1, <1>2, <1>3 DEF JobConsistent, HoldsService, At, Used

LEMMA RestartIsConsistent ==
    ASSUME NEW j \in Jobs,
           \/ job'[j] = IdleJob
           \/ \E s \in Services, n \in Nat : job'[j] = QueuedJob(s, n)
    PROVE  JobConsistent(j)'
<1>1. CASE job'[j] = IdleJob
    <2>1. job'[j].pc = "idle" /\ job'[j].found = Nobody
        BY <1>1 DEF IdleJob
    <2> QED
        BY <2>1 DEF JobConsistent, HoldsService, At
<1>2. ASSUME NEW s \in Services, NEW n \in Nat, job'[j] = QueuedJob(s, n)
      PROVE  JobConsistent(j)'
    <2>1. job'[j].pc = "fetch" /\ job'[j].svc = s /\ job'[j].found = Nobody
        BY <1>2 DEF QueuedJob, IdleJob
    <2> QED
        BY <2>1 DEF JobConsistent, HoldsService, At
<1> QED
    BY <1>1, <1>2

LEMMA ReleaseIsFair ==
    ASSUME NEW o, Release(o)
    PROVE  \A s \in Services : serviceLock[s] \in Jobs \ {o} => serviceLock'[s] = serviceLock[s]
BY DEF Release

(* Reads, and writes of rows no invariant of the incidents mentions.       *)
LEMMA JobReadsConsistent ==
    ASSUME NEW j \in Jobs, StoreTypeOK, JobTypeOK, RowsConsistent, JobsConsistent,
           \/ FetchService(j) \/ Probe(j) \/ LogCheck(j) \/ FindWindow(j) \/ MarkMaintenance(j)
           \/ RecoverFind(j) \/ FailFind(j) \/ Announce(j)
    PROVE  Harmless(j) /\ RowsConsistent' /\ JobConsistent(j)'
<1>1. UNCHANGED <<incident, serviceLock>>
    BY DEF FetchService, Probe, LogCheck, FindWindow, MarkMaintenance, RecoverFind, FailFind,
           Announce, storeVars, lockVars
<1>2. Harmless(j)
    BY <1>1, UnchangedIsHarmless
<1>3. RowsConsistent'
    BY <1>1 DEF RowsConsistent, RowConsistent, Used
<1>4. JobConsistent(j) /\ ~At(j, "idle") /\ job[j].svc \in Services /\ job[j] \in JobRow
    BY DEF JobsConsistent, JobConsistent, JobTypeOK, FetchService, Probe, LogCheck, FindWindow,
           MarkMaintenance, RecoverFind, FailFind, Announce, At
<1> SUFFICES JobConsistent(j)'
    BY <1>2, <1>3
<1>5. CASE \/ FetchService(j) \/ Probe(j) \/ LogCheck(j) \/ FindWindow(j) \/ MarkMaintenance(j)
           \/ Announce(j)
    <2>1. \/ job'[j] = IdleJob
          \/ /\ job'[j].svc = job[j].svc /\ job'[j].found = job[j].found
             /\ job'[j].pc \in {"probe", "log", "window", "mark", "recoverFind", "failUpdate"}
        BY <1>4, <1>5
        DEF FetchService, Probe, LogCheck, FindWindow, MarkMaintenance, Announce, Goto, Finish,
            JobTypeOK, JobRow
    <2>2. CASE job'[j] = IdleJob
        BY <2>2, RestartIsConsistent
    <2>3. CASE job'[j] # IdleJob
        BY <1>2, <1>4, <2>1, <2>3, FreeIsConsistent
    <2> QED
        BY <2>2, <2>3
<1>6. CASE RecoverFind(j)
    <2>1. CASE Goto(j, "recoverCommit")
        <3>1. /\ job'[j].svc = job[j].svc /\ job'[j].found = job[j].found
              /\ job'[j].pc = "recoverCommit"
            BY <2>1 DEF Goto, JobTypeOK, JobRow
        <3> QED
            BY <1>2, <1>4, <3>1, FreeIsConsistent
    <2>2. ASSUME NEW i \in Unresolved(job[j].svc),
                 job' = [job EXCEPT ![j].pc = "recoverLock", ![j].found = i]
          PROVE  JobConsistent(j)'
        <3>1. job'[j].pc = "recoverLock" /\ job'[j].found = i /\ job'[j].svc = job[j].svc
            BY <2>2 DEF JobTypeOK, JobRow
        <3>2. i \in Incidents /\ Used(i)' /\ incident'[i].svc = job[j].svc /\ i # Nobody
            BY <1>1, OwnerAssumption DEF Unresolved, Used
        <3> QED
            BY <1>4, <3>1, <3>2 DEF JobConsistent, HoldsService, At, Used
    <2> QED
        BY <1>6, <2>1, <2>2 DEF RecoverFind
<1>7. CASE FailFind(j)
    <2>1. serviceLock'[job[j].svc] = j
        BY <1>1, <1>4, <1>7 DEF JobConsistent, HoldsService, FailFind, At
    <2>2. PICK s \in Services : s = job[j].svc
        BY <1>4
    <2>f. PICK found : found = job[j].found
        OBVIOUS
    <2>g. found # Nobody => Used(found)' /\ incident'[found].svc = s
        BY <1>1, <1>4, <2>2, <2>f DEF JobConsistent, Used
    <2>3. Unresolved(s)' = Unresolved(s) /\ FreshOf(s)' = FreshOf(s)
        BY <1>1 DEF Unresolved, FreshOf
    <2>4. CASE NewFailures(j) < IncidentThreshold /\ Goto(j, "failCommit")
        <3>1. /\ job'[j].svc = s /\ job'[j].found = found /\ job'[j].pc = "failCommit"
              /\ job'[j].failures = job[j].failures
            BY <2>2, <2>4, <2>f DEF Goto, JobTypeOK, JobRow
        <3>2. NewFailures(j)' = NewFailures(j)
            BY <3>1 DEF NewFailures, Bump
        <3>3. ~(NewFailures(j)' >= IncidentThreshold)
            BY <2>4, <3>2, NewFailuresType, ThresholdAssumption
        <3> QED
            BY <2>1, <2>2, <2>g, <3>1, <3>3 DEF JobConsistent, HoldsService, At, Used
    <2>5. CASE Unresolved(s) = {} /\ Goto(j, "failCreate")
        <3>1. job'[j].svc = s /\ job'[j].found = found /\ job'[j].pc = "failCreate"
            BY <2>2, <2>5, <2>f DEF Goto, JobTypeOK, JobRow
        <3>2. FreshOf(s)' = {}
            BY <2>3, <2>5 DEF FreshOf
        <3> QED
            BY <2>1, <2>2, <2>g, <3>1, <3>2 DEF JobConsistent, HoldsService, At, Used
    <2>6. ASSUME NEW i \in Unresolved(s), NEW label \in {"failEscalate", "failCommit"},
                 job' = [job EXCEPT ![j].found = i, ![j].pc = label]
          PROVE  JobConsistent(j)'
        <3>1. job'[j].svc = s /\ job'[j].found = i /\ job'[j].pc = label
            BY <2>2, <2>6 DEF JobTypeOK, JobRow
        <3>2. Used(i)' /\ incident'[i].svc = s /\ i # Nobody /\ i \in Unresolved(s)'
            BY <1>1, <2>3, OwnerAssumption DEF Unresolved, Used
        <3> QED
            BY <2>1, <2>2, <3>1, <3>2 DEF JobConsistent, HoldsService, At, Used
    <2> QED
        BY <1>7, <2>2, <2>4, <2>5, <2>6 DEF FailFind
<1> QED
    BY <1>5, <1>6, <1>7

(* A step that changes incidents of one service only, whose row no other   *)
(* job has locked.                                                         *)
LEMMA LocalIsHarmless ==
    ASSUME NEW o, NEW s, serviceLock[s] \notin Jobs \ {o},
           \A i \in Incidents :
                \/ incident'[i] = incident[i]
                \/ /\ incident'[i].svc = s /\ incident'[i].status # "none"
                   /\ Used(i) => incident[i].svc = s,
           \A s0 \in Services : serviceLock[s0] \in Jobs \ {o} => serviceLock'[s0] = serviceLock[s0]
    PROVE  Harmless(o)
<1>1. \A i \in Incidents : Used(i) => Used(i)' /\ incident'[i].svc = incident[i].svc
    BY DEF Used
<1>2. ASSUME NEW s0 \in Services, s0 # s
      PROVE  Unresolved(s0)' = Unresolved(s0) /\ FreshOf(s0)' = FreshOf(s0)
    BY <1>2 DEF Unresolved, FreshOf, Used
<1> QED
    BY <1>1, <1>2 DEF Harmless

LEMMA JobLocksConsistent ==
    ASSUME NEW j \in Jobs, StoreTypeOK, JobTypeOK, RowsConsistent, JobsConsistent,
           RecoverLock(j) \/ FailUpdate(j)
    PROVE  Harmless(j) /\ RowsConsistent' /\ JobConsistent(j)'
<1>1. UNCHANGED incident
    BY DEF RecoverLock, FailUpdate, rowVars
<1>2. \A s \in Services : serviceLock[s] \in Jobs => serviceLock'[s] = serviceLock[s]
    BY OwnerAssumption DEF RecoverLock, FailUpdate, StoreTypeOK
<1>3. Harmless(j)
    BY <1>1, <1>2, UnchangedIsHarmless
<1>4. RowsConsistent'
    BY <1>1 DEF RowsConsistent, RowConsistent, Used
<1>5. JobConsistent(j) /\ ~At(j, "idle") /\ job[j].svc \in Services
    BY DEF JobsConsistent, JobConsistent, RecoverLock, FailUpdate, At
<1>6. CASE RecoverLock(j)
    <2>1. /\ job'[j].svc = job[j].svc /\ job'[j].found = job[j].found
          /\ job'[j].pc = "recoverCommit"
        BY <1>6 DEF RecoverLock, Goto, JobTypeOK, JobRow
    <2> QED
        BY <1>3, <1>4, <1>5, <2>1, FreeIsConsistent
<1>7. CASE FailUpdate(j)
    <2> PICK s \in Services : s = job[j].svc
        BY <1>5
    <2> PICK found : found = job[j].found
        OBVIOUS
    <2>1. job'[j].svc = s /\ job'[j].found = found /\ job'[j].pc = "failFind"
        BY <1>7 DEF FailUpdate, Goto, JobTypeOK, JobRow
    <2>2. serviceLock'[s] = j
        BY <1>7 DEF FailUpdate, StoreTypeOK
    <2>3. found # Nobody => Used(found)' /\ incident'[found].svc = s
        BY <1>1, <1>5 DEF JobConsistent, Used
    <2>4. JobConsistent(j)'
        BY <2>1, <2>2, <2>3 DEF JobConsistent, HoldsService, At, Used
    <2> QED
        BY <1>3, <1>4, <2>4
<1> QED
    BY <1>6, <1>7

LEMMA JobCommitsConsistent ==
    ASSUME NEW j \in Jobs, StoreTypeOK, JobTypeOK, RowsConsistent, JobsConsistent,
           RecoverCommit(j) \/ FailCreate(j) \/ FailEscalate(j) \/ FailCommit(j)
    PROVE  Harmless(j) /\ RowsConsistent' /\ JobConsistent(j)'
<1>1. Release(j) /\ Goto(j, "announce")
    BY DEF RecoverCommit, FailCreate, FailEscalate, FailCommit, CommitFailures
<1>2. \A s \in Services : serviceLock[s] \in Jobs \ {j} => serviceLock'[s] = serviceLock[s]
    BY <1>1, ReleaseIsFair
<1>3. JobConsistent(j) /\ ~At(j, "idle")
    BY DEF JobsConsistent, RecoverCommit, FailCreate, FailEscalate, FailCommit, At
<1> PICK s \in Services : s = job[j].svc
    BY <1>3 DEF JobConsistent
<1> PICK found \in Incidents \cup {Nobody} : found = job[j].found
    BY DEF JobTypeOK, JobRow
<1>4. found # Nobody => Used(found) /\ incident[found].svc = s
    BY <1>3 DEF JobConsistent
<1>5. serviceLock[s] \notin Jobs \ {j}
    BY <1>3, OwnerAssumption
    DEF RecoverCommit, FailCreate, FailEscalate, FailCommit, JobConsistent, HoldsService, At
<1>6. Harmless(j) => JobConsistent(j)'
    <2>1. /\ job'[j].svc = job[j].svc /\ job'[j].found = job[j].found
          /\ job'[j].pc = "announce"
        BY <1>1 DEF Goto, JobTypeOK, JobRow
    <2> QED
        BY <1>3, <2>1, FreeIsConsistent
<1> SUFFICES Harmless(j) /\ RowsConsistent'
    BY <1>6
<1>7. CASE UNCHANGED incident
    BY <1>2, <1>7, UnchangedIsHarmless DEF RowsConsistent, RowConsistent, Used
<1>8. ASSUME NEW i \in Incidents, NEW row,
             incident' = [incident EXCEPT ![i] = row],
             row.svc = s, row.status # "none", row.severity # "none",
             row.status = "resolved" => row.resolvedAt,
             Used(i) => incident[i].svc = s
      PROVE  Harmless(j) /\ RowsConsistent'
    <2>1. incident'[i] = row /\ \A k \in Incidents \ {i} : incident'[k] = incident[k]
        BY <1>8 DEF StoreTypeOK
    <2>2. Harmless(j)
        BY <1>2, <1>5, <1>8, <2>1, LocalIsHarmless
    <2>3. RowConsistent(i)'
        BY <1>8, <2>1 DEF RowConsistent, Used
    <2>4. ASSUME NEW k \in Incidents \ {i}
          PROVE  RowConsistent(k)'
        BY <2>1, <2>4 DEF RowsConsistent, RowConsistent, Used
    <2> QED
        BY <2>2, <2>3, <2>4 DEF RowsConsistent
<1>9. CASE RecoverCommit(j) /\ found # Nobody
    <2> DEFINE row == [incident[found] EXCEPT !.status = "resolved", !.resolvedAt = TRUE,
                                              !.version = @ + 1]
    <2>1. incident' = [incident EXCEPT ![found] = row]
        BY <1>9 DEF RecoverCommit
    <2>2. /\ row.svc = s /\ row.status = "resolved" /\ row.resolvedAt
          /\ row.severity = incident[found].severity
        BY <1>4, <1>9 DEF StoreTypeOK, IncidentRow
    <2>3. row.severity # "none"
        BY <1>4, <1>9, <2>2 DEF RowsConsistent, RowConsistent
    <2> HIDE DEF row
    <2> QED
        BY <1>4, <1>8, <1>9, <2>1, <2>2, <2>3
<1>10. CASE FailCreate(j)
    <2>1. PICK i \in Unused : incident' = [incident EXCEPT ![i] =
              [svc |-> job[j].svc, status |-> "open",
               severity |-> IF NewFailures(j) >= CriticalThreshold THEN "critical" ELSE "high",
               resolvedAt |-> FALSE, version |-> 1]]
        BY <1>10 DEF FailCreate
    <2> DEFINE row == [svc |-> job[j].svc, status |-> "open",
               severity |-> IF NewFailures(j) >= CriticalThreshold THEN "critical" ELSE "high",
               resolvedAt |-> FALSE, version |-> 1]
    <2>2. row.svc = s /\ row.status = "open" /\ row.severity # "none"
        OBVIOUS
    <2>3. i \in Incidents /\ ~Used(i)
        BY DEF Unused, Used
    <2>4. incident' = [incident EXCEPT ![i] = row]
        BY <2>1
    <2> HIDE DEF row
    <2> QED
        BY <1>8, <2>2, <2>3, <2>4
<1>11. CASE FailEscalate(j)
    <2> DEFINE row == [incident[found] EXCEPT !.severity = "critical", !.version = @ + 1]
    <2>1. incident' = [incident EXCEPT ![found] = row]
        BY <1>11 DEF FailEscalate
    <2>2. found # Nobody
        BY <1>3, <1>11 DEF FailEscalate, JobConsistent, At
    <2>3. /\ row.svc = s /\ row.status = incident[found].status /\ row.severity = "critical"
          /\ row.resolvedAt = incident[found].resolvedAt
        BY <1>4, <2>2 DEF StoreTypeOK, IncidentRow
    <2>4. row.status # "none" /\ (row.status = "resolved" => row.resolvedAt)
        BY <1>4, <2>2, <2>3 DEF RowsConsistent, RowConsistent, Used
    <2> HIDE DEF row
    <2> QED
        BY <1>4, <1>8, <2>1, <2>2, <2>3, <2>4
<1> QED
    BY <1>7, <1>9, <1>10, <1>11 DEF RecoverCommit, FailCommit

LEMMA RequestsStayConsistent ==
    ASSUME NEW o, Harmless(o), RequestTypeOK, RequestsConsistent, UNCHANGED request
    PROVE  RequestsConsistent'
BY DEF Harmless, RequestsConsistent, RequestConsistent, Serving, Answered, Used

LEMMA AbortConsistent ==
    ASSUME NEW j \in Jobs, StoreTypeOK, JobTypeOK, RowsConsistent, JobsConsistent,
           Abort(j), ~At(j, "idle"), UNCHANGED incident
    PROVE  Harmless(j) /\ RowsConsistent' /\ JobsConsistent'
<1>1. Harmless(j)
    BY ReleaseIsFair, UnchangedIsHarmless DEF Abort
<1>2. RowsConsistent'
    BY DEF RowsConsistent, RowConsistent, Used
<1>3. job[j].svc \in Services /\ job[j].attempt + 1 \in Nat
    BY DEF JobsConsistent, JobConsistent, JobTypeOK, JobRow, MaxAttempts
<1>4. job'[j] = IdleJob \/ job'[j] = QueuedJob(job[j].svc, job[j].attempt + 1)
    BY DEF Abort, Finish, JobTypeOK
<1>5. JobConsistent(j)'
    BY <1>3, <1>4, RestartIsConsistent
<1>6. ASSUME NEW k \in Jobs \ {j}
      PROVE  JobConsistent(k)'
    <2>1. job'[k] = job[k]
        BY DEF Abort, Finish, JobTypeOK
    <2> QED
        BY <1>1, <2>1, OthersStayConsistent DEF JobsConsistent
<1> QED
    BY <1>1, <1>2, <1>5, <1>6 DEF JobsConsistent

LEMMA HealthCheckConsistent ==
    ASSUME StoreTypeOK, JobTypeOK, RequestTypeOK, Consistent, HealthCheckNext \/ WorkerCrash,
           UNCHANGED request
    PROVE  Consistent'
<1> USE DEF Consistent
<1>1. ASSUME NEW j \in Jobs, JobStep(j)
      PROVE  Consistent'
    <2>1. Harmless(j) /\ RowsConsistent' /\ JobConsistent(j)'
        BY <1>1, JobReadsConsistent, JobLocksConsistent, JobCommitsConsistent DEF JobStep
    <2>2. ASSUME NEW k \in Jobs \ {j}
          PROVE  JobConsistent(k)'
        <3>1. job'[k] = job[k]
            BY <1>1
            DEF JobStep, FetchService, Probe, LogCheck, FindWindow, MarkMaintenance, RecoverFind,
                RecoverLock, RecoverCommit, FailUpdate, FailFind, FailCreate, FailEscalate,
                FailCommit, CommitFailures, Announce, Goto, Finish, JobTypeOK
        <3> QED
            BY <2>1, <3>1, OthersStayConsistent DEF JobsConsistent
    <2> QED
        BY <2>1, <2>2, RequestsStayConsistent DEF JobsConsistent
<1>2. ASSUME NEW j \in Jobs, NEW s \in Services, Enqueue(j, s)
      PROVE  Consistent'
    <2>1. UNCHANGED <<incident, serviceLock>>
        BY <1>2 DEF Enqueue, storeVars
    <2>2. Harmless(j) /\ RowsConsistent'
        BY <2>1, UnchangedIsHarmless DEF RowsConsistent, RowConsistent, Used
    <2>3. job'[j] = QueuedJob(s, 1)
        BY <1>2 DEF Enqueue, JobTypeOK
    <2>4. JobConsistent(j)'
        BY <2>3, RestartIsConsistent
    <2>5. ASSUME NEW k \in Jobs \ {j}
          PROVE  JobConsistent(k)'
        <3>1. job'[k] = job[k]
            BY <1>2 DEF Enqueue, JobTypeOK
        <3> QED
            BY <2>2, <3>1, OthersStayConsistent DEF JobsConsistent
    <2> QED
        BY <2>2, <2>4, <2>5, RequestsStayConsistent DEF JobsConsistent
<1>3. ASSUME NEW j \in Jobs, JobError(j)
      PROVE  Consistent'
    <2>1. Harmless(j) /\ RowsConsistent' /\ JobsConsistent'
        BY <1>3, AbortConsistent DEF JobError, rowVars
    <2> QED
        BY <2>1, RequestsStayConsistent
<1>4. ASSUME NEW s \in Services, TargetFlips(s) \/ SetActive(s)
      PROVE  Consistent'
    <2>1. UNCHANGED <<incident, serviceLock, job>>
        BY <1>4 DEF TargetFlips, SetActive, storeVars, lockVars, jobVars
    <2>2. Harmless(Nobody) /\ RowsConsistent'
        BY <2>1, UnchangedIsHarmless DEF RowsConsistent, RowConsistent, Used
    <2>3. JobsConsistent'
        BY <2>1, <2>2, OwnerAssumption, OthersStayConsistent DEF JobsConsistent
    <2> QED
        BY <2>2, <2>3, RequestsStayConsistent
<1>5. ASSUME WorkerCrash
      PROVE  Consistent'
    <2>1. UNCHANGED incident
        BY <1>5 DEF WorkerCrash, rowVars
    <2>2. RowsConsistent'
        BY <2>1 DEF RowsConsistent, RowConsistent, Used
    <2>3. RequestsConsistent'
        BY <2>1 DEF RequestsConsistent, RequestConsistent, Serving, Answered, Used
    <2>4. ASSUME NEW j \in Jobs
          PROVE  JobConsistent(j)'
        <3>1. \/ job'[j] = IdleJob
              \/ job'[j] = QueuedJob(job[j].svc, job[j].attempt) /\ ~At(j, "idle")
            BY <1>5 DEF WorkerCrash, InFlight
        <3>2. ~At(j, "idle") => job[j].svc \in Services /\ job[j].attempt \in Nat
            BY DEF JobsConsistent, JobConsistent, JobTypeOK, JobRow, MaxAttempts
        <3> QED
            BY <3>1, <3>2, RestartIsConsistent
    <2> QED
        BY <2>2, <2>3, <2>4 DEF JobsConsistent
<1> QED
    BY <1>1, <1>2, <1>3, <1>4, <1>5 DEF HealthCheckNext

(* A request writes incidents; it resolves one only while no job holds the *)
(* service row, and a reopened one is not fresh.                           *)
LEMMA MergedRow ==
    ASSUME NEW row \in IncidentRow, NEW change \in UpdateBody
    PROVE  /\ Merged(row, change).svc = row.svc
           /\ Merged(row, change).status = IF change.status = "keep" THEN row.status ELSE change.status
           /\ Merged(row, change).severity =
                    IF change.severity = "keep" THEN row.severity ELSE change.severity
           /\ Merged(row, change).resolvedAt = (row.resolvedAt \/ change.status = "resolved")
           /\ Merged(row, change).version = row.version + 1
BY DEF Merged, IncidentRow

LEMMA WriteConsistent ==
    ASSUME NEW r \in Requests, StoreTypeOK, RequestTypeOK, RowsConsistent, RequestsConsistent,
           WriteFields(r) \/ ResolveCommit(r)
    PROVE  Harmless(r) /\ RowsConsistent'
<1> PICK i \in Incidents : i = request[r].target /\ Used(i)
    BY DEF RequestsConsistent, RequestConsistent, WriteFields, ResolveCommit, Serving, Answered
<1> PICK change \in UpdateBody : change = request[r].change
    BY DEF RequestTypeOK, RequestRow
<1> PICK row : row = Merged(incident[i], change)
    OBVIOUS
<1>1. incident' = [incident EXCEPT ![i] = row]
    BY DEF WriteFields, ResolveCommit
<1>2. incident'[i] = row /\ \A k \in Incidents \ {i} : incident'[k] = incident[k]
    BY <1>1 DEF StoreTypeOK
<1>3. /\ row.svc = incident[i].svc
      /\ row.status = IF change.status = "keep" THEN incident[i].status ELSE change.status
      /\ row.severity = IF change.severity = "keep" THEN incident[i].severity ELSE change.severity
      /\ row.resolvedAt = (incident[i].resolvedAt \/ change.status = "resolved")
    BY MergedRow DEF StoreTypeOK
<1>4. /\ incident[i].svc \in Services /\ incident[i].severity # "none"
      /\ incident[i].status # "none"
      /\ incident[i].status = "resolved" => incident[i].resolvedAt
    BY DEF RowsConsistent, RowConsistent, Used
<1>5. change.status \in IncidentStatus \cup {"keep"} /\ change.severity # "none"
    BY DEF UpdateBody, IncidentSeverity
<1>6. row.status # "none" /\ row.severity # "none" /\ (row.status = "resolved" => row.resolvedAt)
    BY <1>3, <1>4, <1>5 DEF IncidentStatus
<1>7. RowsConsistent'
    <2>1. RowConsistent(i)'
        BY <1>2, <1>3, <1>4, <1>6 DEF RowConsistent, Used
    <2>2. ASSUME NEW k \in Incidents \ {i}
          PROVE  RowConsistent(k)'
        BY <1>2, <2>2 DEF RowsConsistent, RowConsistent, Used
    <2> QED
        BY <2>1, <2>2 DEF RowsConsistent
<1>8. CASE WriteFields(r)
    <2>1. change.status # "resolved"
        BY <1>8 DEF WriteFields
    <2>2. \A k \in Incidents : Used(k) => Used(k)' /\ incident'[k].svc = incident[k].svc
        BY <1>2, <1>3, <1>6 DEF Used
    <2>3. ASSUME NEW s \in Services
          PROVE  Unresolved(s) \subseteq Unresolved(s)' /\ FreshOf(s)' \subseteq FreshOf(s)
        <3>1. i \in Unresolved(s) => row.status # "resolved" /\ row.svc = s
            BY <1>3, <2>1 DEF Unresolved
        <3>2. Unresolved(s) \subseteq Unresolved(s)'
            BY <1>2, <1>6, <3>1 DEF Unresolved
        <3>3. row.svc = s /\ ~row.resolvedAt => i \in FreshOf(s)
            BY <1>3, <1>4 DEF FreshOf, Unresolved
        <3>4. FreshOf(s)' \subseteq FreshOf(s)
            BY <1>2, <3>3 DEF FreshOf, Unresolved
        <3> QED
            BY <3>2, <3>4
    <2>4. UNCHANGED serviceLock
        BY <1>8 DEF WriteFields, lockVars
    <2> QED
        BY <1>7, <2>2, <2>3, <2>4 DEF Harmless
<1>9. CASE ResolveCommit(r)
    <2>1. serviceLock[row.svc] = Nobody /\ Release(r)
        BY <1>3, <1>9 DEF ResolveCommit
    <2>2. \A s \in Services : serviceLock[s] \in Jobs \ {r} => serviceLock'[s] = serviceLock[s]
        BY <2>1, ReleaseIsFair
    <2>3. serviceLock[row.svc] \notin Jobs \ {r}
        BY <2>1, OwnerAssumption
    <2>4. \A k \in Incidents :
            \/ incident'[k] = incident[k]
            \/ /\ incident'[k].svc = row.svc /\ incident'[k].status # "none"
               /\ Used(k) => incident[k].svc = row.svc
        BY <1>2, <1>3, <1>6
    <2>5. Harmless(r)
        BY <2>2, <2>3, <2>4, LocalIsHarmless
    <2> QED
        BY <1>7, <2>5
<1> QED
    BY <1>8, <1>9

LEMMA OtherJobsUnmoved ==
    ASSUME NEW o, o \notin Jobs, JobTypeOK, JobsConsistent, Harmless(o), UNCHANGED job
    PROVE  JobsConsistent'
BY OthersStayConsistent DEF JobsConsistent

LEMMA IncidentApiConsistent ==
    ASSUME StoreTypeOK, JobTypeOK, RequestTypeOK, Consistent, IncidentApiNext, UNCHANGED jobVars
    PROVE  Consistent'
<1> USE DEF Consistent
<1> PICK r \in Requests : Submit(r) \/ RequestStep(r) \/ RequestError(r)
    BY DEF IncidentApiNext
<1>1. Harmless(r) /\ RowsConsistent'
    <2>1. CASE WriteFields(r) \/ ResolveCommit(r)
        BY <2>1, WriteConsistent
    <2>2. CASE \/ Submit(r) \/ ReadExisting(r) \/ CheckToken(r) \/ LockForResolve(r)
               \/ ReadNewestCheck(r) \/ RequestError(r)
        <3>1. UNCHANGED incident
            BY <2>2 DEF Submit, ReadExisting, CheckToken, LockForResolve, ReadNewestCheck,
                        RequestError, storeVars, rowVars
        <3>2. \A s \in Services :
                serviceLock[s] \in Jobs \ {r} => serviceLock'[s] = serviceLock[s]
            BY <2>2, ReleaseIsFair
            DEF Submit, ReadExisting, CheckToken, LockForResolve, ReadNewestCheck, RequestError,
                Rollback, storeVars
        <3> QED
            BY <3>1, <3>2, UnchangedIsHarmless DEF RowsConsistent, RowConsistent, Used
    <2> QED
        BY <2>1, <2>2 DEF RequestStep
<1>2. JobsConsistent'
    <2>1. r \notin Jobs
        BY OwnerAssumption
    <2> QED
        BY <1>1, <2>1, OtherJobsUnmoved DEF jobVars
<1>3. ASSUME NEW k \in Requests \ {r}
      PROVE  RequestConsistent(k)'
    <2>1. request'[k] = request[k]
        BY DEF Submit, RequestStep, ReadExisting, CheckToken, WriteFields, LockForResolve,
               ReadNewestCheck, ResolveCommit, RequestError, Rollback, Reply, Proceed, RequestTypeOK
    <2> QED
        BY <1>1, <2>1
        DEF Harmless, RequestsConsistent, RequestConsistent, Serving, Answered, Used
<1>4. RequestConsistent(r)'
    <2>1. ASSUME NEW i \in Incidents, Used(i), request'[r].target = i
          PROVE  RequestConsistent(r)'
        BY <1>1, <2>1 DEF Harmless, RequestConsistent, Used
    <2>2. ASSUME request'[r].pc = "closed" \/ request'[r].pc = "saved"
          PROVE  RequestConsistent(r)'
        BY <2>2 DEF RequestConsistent, Serving, Answered
    <2>3. \A answer \in {"closed", "saved"} : [NewRequest EXCEPT !.pc = answer].pc = answer
        BY DEF NewRequest
    <2>4. CASE Submit(r)
        <3>1. PICK i \in Incidents \ Unused, body \in Updates, withToken \in BOOLEAN :
                request' = [request EXCEPT ![r] =
                  [NewRequest EXCEPT !.pc = "read", !.target = i, !.change = body,
                                     !.token = IF withToken THEN incident[i].version ELSE 0]]
            BY <2>4 DEF Submit
        <3>2. request'[r].target = i
            BY <3>1 DEF NewRequest, RequestTypeOK
        <3> QED
            BY <2>1, <3>2 DEF Unused, Used
    <2>5. CASE ~Submit(r)
        <3>1. ~Serving(r, "new") /\ ~Answered(r)
            BY <2>5 DEF RequestStep, ReadExisting, CheckToken, WriteFields, LockForResolve,
                        ReadNewestCheck, ResolveCommit, RequestError, Serving, Answered
        <3>2. request[r].target \in Incidents /\ Used(request[r].target)
            BY <3>1 DEF RequestsConsistent, RequestConsistent
        <3>3. \/ request'[r].target = request[r].target
              \/ request'[r].pc = "closed" \/ request'[r].pc = "saved"
            BY <2>3, <2>5
            DEF RequestStep, ReadExisting, CheckToken, WriteFields, LockForResolve,
                ReadNewestCheck, ResolveCommit, RequestError, Rollback, Reply, Proceed,
                RequestTypeOK, RequestRow
        <3> QED
            BY <2>1, <2>2, <3>2, <3>3
    <2> QED
        BY <2>4, <2>5
<1> QED
    BY <1>1, <1>2, <1>3, <1>4 DEF RequestsConsistent

LEMMA MaintenanceConsistent ==
    ASSUME StoreTypeOK, JobTypeOK, RequestTypeOK, Consistent, MaintenanceNext,
           UNCHANGED <<jobVars, request>>
    PROVE  Consistent'
<1>1. UNCHANGED <<incident, serviceLock>>
    <2>1. ASSUME NEW t \in Tickers, TickStep(t) \/ TickError(t)
          PROVE  UNCHANGED <<incident, serviceLock>>
        <3>1. CASE FindToStart(t) \/ FindToComplete(t) \/ EndTick(t)
            BY <3>1 DEF FindToStart, FindToComplete, EndTick, storeVars
        <3>2. CASE (\E w \in Windows : Transition(t, w)) \/ TransitionService(t) \/ TickError(t)
            BY <3>2 DEF Transition, TransitionService, TickError, rowVars, lockVars
        <3> QED
            BY <2>1, <3>1, <3>2 DEF TickStep
    <2>2. ASSUME WindowApiNext
          PROVE  UNCHANGED <<incident, serviceLock>>
        BY <2>2 DEF WindowApiNext, CreateWindow, ReadWindow, WriteWindow, RemoveWindow,
                    ClockPasses, storeVars, lockVars
    <2> QED
        BY <2>1, <2>2 DEF MaintenanceNext
<1>2. Harmless(Nobody) /\ Nobody \notin Jobs
    BY <1>1, UnchangedIsHarmless, OwnerAssumption
<1> QED
    BY <1>1, <1>2, OtherJobsUnmoved, RequestsStayConsistent
    DEF Consistent, RowsConsistent, RowConsistent, Used, jobVars

LEMMA BreakDeadlockConsistent ==
    ASSUME StoreTypeOK, JobTypeOK, RequestTypeOK, Consistent, BreakDeadlock
    PROVE  Consistent'
<1> USE DEF Consistent
<1>1. ASSUME NEW j \in Jobs, AbortDeadlockedJob(j), UNCHANGED request
      PROVE  Consistent'
    <2>1. ~At(j, "idle")
        BY <1>1, OwnerAssumption
        DEF AbortDeadlockedJob, Deadlocked, AwaitsIncident, AwaitsService, At
    <2>2. Harmless(j) /\ RowsConsistent' /\ JobsConsistent'
        BY <1>1, <2>1, AbortConsistent DEF AbortDeadlockedJob, rowVars
    <2> QED
        BY <1>1, <2>2, RequestsStayConsistent
<1>2. ASSUME NEW r \in Requests, AbortDeadlockedRequest(r), UNCHANGED jobVars
      PROVE  Consistent'
    <2>1. UNCHANGED incident /\ Release(r) /\ Reply(r, "closed")
        BY <1>2 DEF AbortDeadlockedRequest, Rollback, rowVars
    <2>2. Harmless(r) /\ RowsConsistent'
        BY <2>1, ReleaseIsFair, UnchangedIsHarmless DEF RowsConsistent, RowConsistent, Used
    <2>3. JobsConsistent'
        BY <1>2, <2>2, OwnerAssumption, OtherJobsUnmoved DEF jobVars
    <2>4. ASSUME NEW k \in Requests
          PROVE  RequestConsistent(k)'
        <3>1. CASE k = r
            <4>1. request'[r].pc = "closed"
                BY <2>1 DEF Reply, NewRequest, RequestTypeOK
            <4> QED
                BY <3>1, <4>1 DEF RequestConsistent, Serving, Answered
        <3>2. CASE k # r
            <4>1. request'[k] = request[k]
                BY <2>1, <3>2 DEF Reply, RequestTypeOK
            <4> QED
                BY <2>2, <4>1
                DEF Harmless, RequestsConsistent, RequestConsistent, Serving, Answered, Used
        <3> QED
            BY <3>1, <3>2
    <2> QED
        BY <2>2, <2>3, <2>4 DEF RequestsConsistent
<1> QED
    BY <1>1, <1>2 DEF BreakDeadlock

LEMMA ConsistentInit == Init => Consistent
BY DEF Init, StoreInit, JobInit, RequestInit, IdleJob, NewRequest, NoIncident, Consistent,
       RowsConsistent, RowConsistent, JobsConsistent, JobConsistent, RequestsConsistent,
       RequestConsistent, HoldsService, At, Serving, Answered, Used

LEMMA ConsistentStep ==
    ASSUME TypeOK, Consistent, [Next]_vars
    PROVE  Consistent'
<1> USE DEF TypeOK
<1>1. CASE HealthCheckNext /\ UNCHANGED <<request, tickVars>>
    BY <1>1, HealthCheckConsistent
<1>2. CASE IncidentApiNext /\ UNCHANGED <<jobVars, tickVars>>
    BY <1>2, IncidentApiConsistent
<1>3. CASE MaintenanceNext /\ UNCHANGED <<jobVars, request>>
    BY <1>3, MaintenanceConsistent
<1>4. CASE BreakDeadlock
    BY <1>4, BreakDeadlockConsistent
<1>5. CASE Crash
    BY <1>5, HealthCheckConsistent DEF Crash
<1>6. CASE UNCHANGED vars
    <2>1. UNCHANGED <<incident, serviceLock, job, request>>
        BY <1>6 DEF vars, storeVars, jobVars
    <2>2. Harmless(Nobody) /\ Nobody \notin Jobs
        BY <2>1, UnchangedIsHarmless, OwnerAssumption
    <2> QED
        BY <2>1, <2>2, OtherJobsUnmoved, RequestsStayConsistent
        DEF Consistent, RowsConsistent, RowConsistent, Used
<1> QED
    BY <1>1, <1>2, <1>3, <1>4, <1>5, <1>6 DEF Next

(* The worker, the API and the ticker keep every row, lock and in-flight   *)
(* record well formed, and an execution that has started its failure       *)
(* transaction can rely on what it read until it commits.                  *)
THEOREM Invariance == Spec => [](TypeOK /\ Consistent)
<1>1. Init => TypeOK /\ Consistent
    BY TypeInit, ConsistentInit
<1>2. TypeOK /\ Consistent /\ [Next]_vars => TypeOK' /\ Consistent'
    BY TypeStep, ConsistentStep
<1> QED
    BY <1>1, <1>2, PTL DEF Spec


-----------------------------------------------------------------------------
(***************************************************************************)
(* Safety of Monitoring from its inductive invariant: every step is a step *)
(* of the abstract incident lifecycle, a service never has two fresh       *)
(* incidents, and a counted outage always has an incident.                 *)
(***************************************************************************)

-----------------------------------------------------------------------------
(* What a request writes.                                                  *)

LEMMA SameRow ==
    ASSUME NEW a \in IncidentRow, NEW b \in IncidentRow,
           a.svc = b.svc, a.status = b.status, a.severity = b.severity,
           a.resolvedAt = b.resolvedAt, a.version = b.version
    PROVE  a = b
BY DEF IncidentRow

LEMMA MergedIsResolve ==
    ASSUME NEW row \in IncidentRow, NEW change \in UpdateBody, change.status = "resolved"
    PROVE  Merged(row, change) = Lifecycle!Resolved(row, Merged(row, change).severity)
<1> DEFINE merged == Merged(row, change)
           resolved == Lifecycle!Resolved(row, merged.severity)
<1>1. merged \in IncidentRow
    BY MergedType
<1>2. merged.severity \in IncidentSeverity \cup {"none"}
    BY <1>1 DEF IncidentRow
<1>3. /\ merged.svc = row.svc
      /\ merged.status = "resolved"
      /\ merged.resolvedAt = TRUE
      /\ merged.version = row.version + 1
    BY MergedRow
<1> HIDE DEF merged
<1>4. resolved \in IncidentRow
    <2>1. row.version + 1 \in Nat
        BY DEF IncidentRow
    <2> QED
        BY <1>2, <2>1 DEF IncidentRow, IncidentStatus, Lifecycle!Resolved
<1>5. /\ resolved.svc = row.svc
      /\ resolved.status = "resolved"
      /\ resolved.severity = merged.severity
      /\ resolved.resolvedAt = TRUE
      /\ resolved.version = row.version + 1
    BY <1>2 DEF IncidentRow, Lifecycle!Resolved
<1> HIDE DEF resolved
<1>6. merged = resolved
    BY <1>1, <1>3, <1>4, <1>5, SameRow
<1> QED
    BY <1>6 DEF merged, resolved

LEMMA MergedIsEdit ==
    ASSUME NEW row \in IncidentRow, NEW change \in UpdateBody, change.status # "resolved"
    PROVE  Merged(row, change) = Lifecycle!Edited(row, Merged(row, change).status,
                                                  Merged(row, change).severity)
<1> DEFINE merged == Merged(row, change)
           edited == Lifecycle!Edited(row, merged.status, merged.severity)
<1>1. merged \in IncidentRow
    BY MergedType
<1>2. /\ merged.severity \in IncidentSeverity \cup {"none"}
      /\ merged.status \in IncidentStatus \cup {"none"}
    BY <1>1 DEF IncidentRow
<1>3. /\ merged.svc = row.svc
      /\ merged.resolvedAt = row.resolvedAt
      /\ merged.version = row.version + 1
    <2>1. merged.resolvedAt = (row.resolvedAt \/ FALSE)
        BY MergedRow
    <2>2. row.resolvedAt \in BOOLEAN
        BY DEF IncidentRow
    <2> QED
        BY <2>1, <2>2, MergedRow
<1> HIDE DEF merged
<1>4. edited \in IncidentRow
    <2>1. row.version + 1 \in Nat
        BY DEF IncidentRow
    <2> QED
        BY <1>2, <2>1 DEF IncidentRow, Lifecycle!Edited
<1>5. /\ edited.svc = row.svc
      /\ edited.status = merged.status
      /\ edited.severity = merged.severity
      /\ edited.resolvedAt = row.resolvedAt
      /\ edited.version = row.version + 1
    BY <1>2 DEF IncidentRow, Lifecycle!Edited
<1> HIDE DEF edited
<1>6. merged = edited
    BY <1>1, <1>3, <1>4, <1>5, SameRow
<1> QED
    BY <1>6 DEF merged, edited

-----------------------------------------------------------------------------
(* Every step maps to a step of the lifecycle or leaves the incidents.     *)

LEMMA LifecycleNames ==
    /\ Lifecycle!Absent = NoIncident
    /\ \A s \in Services : Lifecycle!FreshOf(s) = FreshOf(s)
BY DEF Lifecycle!Absent, NoIncident, Lifecycle!FreshOf, FreshOf, Unresolved

LEMMA RowChanges ==
    ASSUME NEW row \in IncidentRow, NEW status \in IncidentStatus,
           NEW severity \in IncidentSeverity
    PROVE  /\ Lifecycle!Escalated(row).svc = row.svc
           /\ Lifecycle!Escalated(row).status = row.status
           /\ Lifecycle!Escalated(row).resolvedAt = row.resolvedAt
           /\ Lifecycle!Resolved(row, severity).svc = row.svc
           /\ Lifecycle!Resolved(row, severity).status = "resolved"
           /\ Lifecycle!Edited(row, status, severity).svc = row.svc
           /\ Lifecycle!Edited(row, status, severity).status = status
           /\ Lifecycle!Edited(row, status, severity).resolvedAt = row.resolvedAt
BY DEF IncidentRow, Lifecycle!Escalated, Lifecycle!Resolved, Lifecycle!Edited

LEMMA UsedRow ==
    ASSUME TypeOK, Consistent, NEW i \in Incidents, Used(i)
    PROVE  /\ incident[i] # Lifecycle!Absent
           /\ incident[i] \in IncidentRow
           /\ incident[i].status \in IncidentStatus
           /\ incident[i].severity \in IncidentSeverity
BY LifecycleNames
DEF TypeOK, StoreTypeOK, IncidentRow, Consistent, RowsConsistent, RowConsistent, Used, NoIncident

LEMMA OpenStep ==
    ASSUME TypeOK, Consistent, NEW j \in Jobs, FailCreate(j)
    PROVE  \E i \in Incidents, s \in Services : Lifecycle!Open(i, s)
<1>1. job[j].svc \in Services /\ FreshOf(job[j].svc) = {}
    BY DEF FailCreate, Consistent, JobsConsistent, JobConsistent, At
<1>2. \A i \in Unused : i \in Incidents /\ incident[i] = NoIncident
    BY DEF Unused, Consistent, RowsConsistent, RowConsistent, Used
<1> QED
    BY <1>1, <1>2, LifecycleNames DEF FailCreate, Lifecycle!Open

LEMMA EscalateStep ==
    ASSUME TypeOK, Consistent, NEW j \in Jobs, FailEscalate(j)
    PROVE  \E i \in Incidents : Lifecycle!Escalate(i)
<1> PICK i \in Incidents : i = job[j].found /\ Used(i)
    BY DEF TypeOK, FailEscalate, At, Consistent, JobsConsistent, JobConsistent, JobTypeOK, JobRow
<1> PICK row : row = [incident[i] EXCEPT !.severity = "critical", !.version = @ + 1]
    OBVIOUS
<1>1. incident' = [incident EXCEPT ![i] = row]
    BY DEF FailEscalate
<1>2. row = Lifecycle!Escalated(incident[i])
    BY DEF Lifecycle!Escalated
<1> QED
    BY <1>1, <1>2, UsedRow DEF Lifecycle!Escalate

LEMMA RecoverStep ==
    ASSUME TypeOK, Consistent, NEW j \in Jobs, RecoverCommit(j)
    PROVE  UNCHANGED incident \/ \E i \in Incidents : Lifecycle!Resolve(i)
<1> PICK i \in Incidents \cup {Nobody} : i = job[j].found
    BY DEF TypeOK, JobTypeOK, JobRow
<1>1. CASE i = Nobody
    BY <1>1 DEF RecoverCommit
<1>2. CASE i # Nobody
    <2>1. i \in Incidents /\ Used(i)
        BY <1>2 DEF Consistent, JobsConsistent, JobConsistent
    <2> PICK severity \in IncidentSeverity : severity = incident[i].severity
        BY <2>1, UsedRow
    <2> PICK row : row = [incident[i] EXCEPT !.status = "resolved", !.resolvedAt = TRUE,
                                             !.version = @ + 1]
        OBVIOUS
    <2>2. incident' = [incident EXCEPT ![i] = row]
        BY <1>2 DEF RecoverCommit
    <2>3. row = Lifecycle!Resolved(incident[i], severity)
        BY <2>1, UsedRow DEF IncidentRow, Lifecycle!Resolved
    <2> QED
        BY <2>1, <2>2, <2>3, UsedRow DEF Lifecycle!Resolve
<1> QED
    BY <1>1, <1>2

LEMMA WriteStep ==
    ASSUME TypeOK, Consistent, NEW r \in Requests, WriteFields(r) \/ ResolveCommit(r)
    PROVE  \E i \in Incidents : Lifecycle!Resolve(i) \/ Lifecycle!Edit(i)
<1> PICK i \in Incidents : i = request[r].target /\ Used(i)
    BY DEF Consistent, RequestsConsistent, RequestConsistent, WriteFields, ResolveCommit,
           Serving, Answered
<1> PICK change \in UpdateBody : change = request[r].change
    BY DEF TypeOK, RequestTypeOK, RequestRow
<1> PICK row : row = Merged(incident[i], change)
    OBVIOUS
<1>1. incident' = [incident EXCEPT ![i] = row]
    BY DEF WriteFields, ResolveCommit
<1>2. incident[i] # Lifecycle!Absent /\ incident[i] \in IncidentRow
    BY UsedRow
<1>3. /\ row.status = IF change.status = "keep" THEN incident[i].status ELSE change.status
      /\ row.status \in IncidentStatus
      /\ row.severity \in IncidentSeverity
    BY UsedRow, MergedRow DEF UpdateBody
<1>4. CASE change.status = "resolved"
    <2>1. row = Lifecycle!Resolved(incident[i], row.severity)
        BY <1>2, <1>4, MergedIsResolve
    <2> QED
        BY <1>1, <1>2, <1>3, <2>1 DEF Lifecycle!Resolve
<1>5. CASE change.status # "resolved"
    <2>1. row = Lifecycle!Edited(incident[i], row.status, row.severity)
        BY <1>2, <1>5, MergedIsEdit
    <2>2. row.status = "resolved" => incident[i].status = "resolved"
        BY <1>3, <1>5
    <2> QED
        BY <1>1, <1>2, <1>3, <2>1, <2>2 DEF Lifecycle!Edit
<1> QED
    BY <1>4, <1>5

(* Who writes incident rows.                                               *)
LEMMA IncidentWriters ==
    ASSUME [Next]_vars
    PROVE  \/ UNCHANGED incident
           \/ \E j \in Jobs : RecoverCommit(j) \/ FailCreate(j) \/ FailEscalate(j)
           \/ \E r \in Requests : WriteFields(r) \/ ResolveCommit(r)
<1>1. ASSUME NEW j \in Jobs, JobStep(j), ~RecoverCommit(j), ~FailCreate(j), ~FailEscalate(j)
      PROVE  UNCHANGED incident
    BY <1>1
    DEF JobStep, FetchService, Probe, LogCheck, FindWindow, MarkMaintenance, RecoverFind,
        RecoverLock, FailUpdate, FailFind, FailCommit, Announce, storeVars, rowVars
<1>2. CASE HealthCheckNext
    BY <1>1, <1>2 DEF HealthCheckNext, Enqueue, JobError, TargetFlips, SetActive, storeVars, rowVars
<1>3. CASE IncidentApiNext
    BY <1>3
    DEF IncidentApiNext, RequestStep, Submit, ReadExisting, CheckToken, LockForResolve,
        ReadNewestCheck, RequestError, storeVars, rowVars
<1>4. MaintenanceNext => UNCHANGED incident
    <2>1. ASSUME NEW t \in Tickers, TickStep(t) \/ TickError(t)
          PROVE  UNCHANGED incident
        <3>1. CASE FindToStart(t) \/ FindToComplete(t) \/ EndTick(t)
            BY <3>1 DEF FindToStart, FindToComplete, EndTick, storeVars
        <3>2. CASE (\E w \in Windows : Transition(t, w)) \/ TransitionService(t) \/ TickError(t)
            BY <3>2 DEF Transition, TransitionService, TickError, rowVars, lockVars
        <3> QED
            BY <2>1, <3>1, <3>2 DEF TickStep
    <2>2. WindowApiNext => UNCHANGED incident
        BY DEF WindowApiNext, CreateWindow, ReadWindow, WriteWindow, RemoveWindow,
               ClockPasses, storeVars, lockVars
    <2> QED
        BY <2>1, <2>2 DEF MaintenanceNext
<1>5. BreakDeadlock \/ Crash => UNCHANGED incident
    BY DEF BreakDeadlock, AbortDeadlockedJob, AbortDeadlockedRequest, Crash, WorkerCrash, rowVars
<1> QED
    BY <1>2, <1>3, <1>4, <1>5 DEF Next, vars, storeVars

LEMMA LifecycleStep ==
    ASSUME TypeOK, Consistent, [Next]_vars
    PROVE  [Lifecycle!Next]_incident
BY IncidentWriters, OpenStep, EscalateStep, RecoverStep, WriteStep DEF Lifecycle!Next

(* Whatever the number of services, incidents, overlapping executions,     *)
(* requests and faults, the incident rows behave as IncidentLifecycle says.*)
THEOREM ImplementsLifecycle == Spec => LifecycleSpec
<1>1. Init => Lifecycle!Init
    BY LifecycleNames DEF Init, StoreInit, Lifecycle!Init
<1>2. TypeOK /\ Consistent /\ [Next]_vars => [Lifecycle!Next]_incident
    BY LifecycleStep
<1> QED
    BY <1>1, <1>2, Invariance, PTL DEF Spec, LifecycleSpec, Lifecycle!Spec

-----------------------------------------------------------------------------
(* Incidents.                                                              *)

(* The rows and records of the worker, the API and the ticker keep their   *)
(* types, counts saturate at their bound, and every lock has an owner that *)
(* exists.                                                                 *)
THEOREM TypeCorrect == Spec => []TypeOK
BY Invariance, PTL

(* No interleaving of failing checks, recoveries, requests, retries and    *)
(* crashes opens a second incident for one outage.                         *)
THEOREM AtMostOneFreshIncident == Spec => []OneFreshIncident
<1>1. Init => OneFreshIncident
    BY DEF Init, StoreInit, NoIncident, OneFreshIncident, Unresolved
<1>2. ASSUME TypeOK, Consistent, OneFreshIncident, [Next]_vars
      PROVE  OneFreshIncident'
    <2>1. CASE UNCHANGED incident
        BY <1>2, <2>1 DEF OneFreshIncident, Unresolved
    <2>2. ASSUME NEW i \in Incidents, NEW s \in Services, Lifecycle!Open(i, s)
          PROVE  OneFreshIncident'
        BY <1>2, <2>2, LifecycleNames
        DEF Lifecycle!Open, OneFreshIncident, FreshOf, Unresolved, TypeOK, StoreTypeOK
    <2>3. ASSUME NEW i \in Incidents,
                 Lifecycle!Escalate(i) \/ Lifecycle!Resolve(i) \/ Lifecycle!Edit(i)
          PROVE  OneFreshIncident'
        <3>1. PICK row : /\ incident' = [incident EXCEPT ![i] = row]
                         /\ row.svc = incident[i].svc
                         /\ ~row.resolvedAt /\ row.status \notin {"none", "resolved"}
                              => i \in Unresolved(row.svc) /\ ~incident[i].resolvedAt
            <4>0. /\ incident[i] \in IncidentRow
                  /\ incident[i] # Lifecycle!Absent => Used(i)
                  /\ incident[i].status = "resolved" => incident[i].resolvedAt
                BY <1>2, LifecycleNames
                DEF TypeOK, StoreTypeOK, Consistent, RowsConsistent, RowConsistent
            <4>1. CASE Lifecycle!Escalate(i)
                <5> PICK row : row = Lifecycle!Escalated(incident[i])
                    OBVIOUS
                <5>1. /\ row.svc = incident[i].svc
                      /\ row.status = incident[i].status
                      /\ row.resolvedAt = incident[i].resolvedAt
                    BY <4>0, RowChanges DEF IncidentStatus, IncidentSeverity
                <5>2. incident' = [incident EXCEPT ![i] = row]
                    BY <4>1 DEF Lifecycle!Escalate
                <5> QED
                    BY <5>1, <5>2 DEF Unresolved
            <4>2. CASE Lifecycle!Resolve(i)
                <5> PICK severity \in IncidentSeverity :
                        incident' = [incident EXCEPT ![i] =
                                        Lifecycle!Resolved(incident[i], severity)]
                    BY <4>2 DEF Lifecycle!Resolve
                <5> PICK row : row = Lifecycle!Resolved(incident[i], severity)
                    OBVIOUS
                <5>1. row.svc = incident[i].svc /\ row.status = "resolved"
                    BY <4>0, RowChanges DEF IncidentStatus
                <5> QED
                    BY <5>1
            <4>3. CASE Lifecycle!Edit(i)
                <5> PICK status \in IncidentStatus, severity \in IncidentSeverity :
                        /\ status = "resolved" => incident[i].status = "resolved"
                        /\ incident' = [incident EXCEPT ![i] =
                                           Lifecycle!Edited(incident[i], status, severity)]
                    BY <4>3 DEF Lifecycle!Edit
                <5> PICK row : row = Lifecycle!Edited(incident[i], status, severity)
                    OBVIOUS
                <5>1. /\ row.svc = incident[i].svc
                      /\ row.resolvedAt = incident[i].resolvedAt
                    BY <4>0, RowChanges
                <5>2. Used(i)
                    BY <4>0, <4>3 DEF Lifecycle!Edit
                <5>3. ~incident[i].resolvedAt => i \in Unresolved(incident[i].svc)
                    BY <4>0, <5>2 DEF Unresolved, Used
                <5> QED
                    BY <5>1, <5>3
            <4> QED
                BY <2>3, <4>1, <4>2, <4>3
        <3> QED
            BY <1>2, <2>3, <3>1 DEF OneFreshIncident, Unresolved, TypeOK, StoreTypeOK
    <2> QED
        BY <1>2, <2>1, <2>2, <2>3, LifecycleStep DEF Lifecycle!Next
<1> QED
    BY <1>1, <1>2, Invariance, PTL DEF Spec

-----------------------------------------------------------------------------
(* Outages.  A step keeps a service's count and its unresolved incidents,  *)
(* or brings the count below the threshold, or commits a failure of the    *)
(* service and leaves an incident open.                                    *)

Kept(s) ==
    /\ service'[s].failures = service[s].failures
    /\ Unresolved(s) \subseteq Unresolved(s)'

Fails(j) == FailCreate(j) \/ FailEscalate(j) \/ FailCommit(j)

Guarded(s) ==
    \/ Kept(s)
    \/ service'[s].failures < IncidentThreshold
    \/ /\ Unresolved(s)' # {}
       /\ \E j \in Jobs : Fails(j) /\ job[j].svc = s

LEMMA ZeroIsBelow == 0 < IncidentThreshold /\ IncidentThreshold \in Nat
BY ThresholdAssumption

LEMMA UntouchedIsGuarded ==
    ASSUME NEW s \in Services, UNCHANGED <<service, incident>>
    PROVE  Guarded(s)
BY DEF Guarded, Kept, Unresolved

(* MarkMaintenance clears the count; SetActive and the ticker leave it.    *)
LEMMA StatusIsGuarded ==
    ASSUME TypeOK, Consistent, NEW s \in Services, UNCHANGED incident,
           \/ \E j \in Jobs : MarkMaintenance(j)
           \/ \E p \in Services : SetActive(p)
           \/ \E t \in Tickers : TransitionService(t)
    PROVE  Guarded(s)
<1>1. Unresolved(s) \subseteq Unresolved(s)'
    BY DEF Unresolved
<1>2. service'[s].failures = service[s].failures \/ service'[s].failures = 0
    <2>1. ASSUME NEW j \in Jobs, MarkMaintenance(j)
          PROVE  service'[s].failures = service[s].failures \/ service'[s].failures = 0
        <3> PICK p \in Services : p = job[j].svc
            BY <2>1 DEF MarkMaintenance, At, Consistent, JobsConsistent, JobConsistent
        <3> PICK row : row = [service[p] EXCEPT !.status = "maintenance", !.failures = 0]
            OBVIOUS
        <3>1. row.failures = 0
            BY DEF TypeOK, StoreTypeOK, ServiceRow
        <3>2. service' = [service EXCEPT ![p] = row]
            BY <2>1 DEF MarkMaintenance
        <3> QED
            BY <3>1, <3>2 DEF TypeOK, StoreTypeOK
    <2>2. ASSUME NEW p \in Services, SetActive(p)
          PROVE  service'[s].failures = service[s].failures
        BY <2>2 DEF SetActive, TypeOK, StoreTypeOK, ServiceRow
    <2>3. ASSUME NEW t \in Tickers, TransitionService(t)
          PROVE  service'[s].failures = service[s].failures
        <3> PICK p : p = window[tick[t].cur].svc
            OBVIOUS
        <3> PICK status : status = tick[t].status
            OBVIOUS
        <3>1. service' = [service EXCEPT ![p] = [service[p] EXCEPT !.status = status]]
            BY <2>3 DEF TransitionService
        <3>2. s = p => [service[p] EXCEPT !.status = status].failures = service[s].failures
            BY DEF TypeOK, StoreTypeOK, ServiceRow
        <3> QED
            BY <3>1, <3>2 DEF TypeOK, StoreTypeOK
    <2> QED
        BY <2>1, <2>2, <2>3
<1> QED
    BY <1>1, <1>2, ZeroIsBelow DEF Guarded, Kept

LEMMA FailureIsGuarded ==
    ASSUME TypeOK, Consistent, NEW s \in Services, NEW j \in Jobs,
           FailCreate(j) \/ FailEscalate(j) \/ FailCommit(j)
    PROVE  Guarded(s)
<1> PICK p \in Services : p = job[j].svc
    BY DEF FailCreate, FailEscalate, FailCommit, At, Consistent, JobsConsistent, JobConsistent
<1> PICK n \in 0..MaxFailures : n = NewFailures(j)
    BY NewFailuresType DEF TypeOK
<1>1. service' = [service EXCEPT ![p].status = NewServiceStatus(j), ![p].failures = n]
    BY DEF FailCreate, FailEscalate, FailCommit, CommitFailures
<1>2. service'[p].failures = n /\ (s # p => service'[s] = service[s])
    BY <1>1 DEF TypeOK, StoreTypeOK, ServiceRow
<1>3. Unresolved(s) \subseteq Unresolved(s)'
    <2>1. CASE FailCreate(j)
        BY <2>1 DEF FailCreate, Unused, Unresolved, TypeOK, StoreTypeOK
    <2>2. CASE FailEscalate(j)
        BY <2>2 DEF FailEscalate, Unresolved, TypeOK, StoreTypeOK, IncidentRow
    <2>3. CASE FailCommit(j)
        BY <2>3 DEF FailCommit, Unresolved
    <2> QED
        BY <2>1, <2>2, <2>3
<1>4. n >= IncidentThreshold => Unresolved(p)' # {}
    <2>1. CASE FailCreate(j)
        BY <2>1 DEF FailCreate, Unused, Unresolved, TypeOK, StoreTypeOK
    <2>2. ASSUME FailEscalate(j) \/ FailCommit(j), n >= IncidentThreshold
          PROVE  Unresolved(p)' # {}
        <3>1. job[j].found \in Unresolved(p)
            BY <2>2 DEF FailEscalate, FailCommit, At, Consistent, JobsConsistent, JobConsistent
        <3>2. Unresolved(p) \subseteq Unresolved(p)'
            <4>1. CASE FailEscalate(j)
                BY <4>1 DEF FailEscalate, Unresolved, TypeOK, StoreTypeOK, IncidentRow
            <4>2. CASE FailCommit(j)
                BY <4>2 DEF FailCommit, Unresolved
            <4> QED
                BY <2>2, <4>1, <4>2
        <3> QED
            BY <3>1, <3>2
    <2> QED
        BY <2>1, <2>2
<1>5. CASE s = p
    BY <1>2, <1>4, <1>5, ZeroIsBelow DEF Guarded, Fails
<1>6. CASE s # p
    BY <1>2, <1>3, <1>6 DEF Guarded, Kept
<1> QED
    BY <1>5, <1>6

(* Resolving an incident resets the count of the incident's service.       *)
LEMMA RecoveryIsGuarded ==
    ASSUME TypeOK, Consistent, NEW s \in Services, NEW j \in Jobs, RecoverCommit(j)
    PROVE  Guarded(s)
<1> PICK p \in Services : p = job[j].svc
    BY DEF RecoverCommit, At, Consistent, JobsConsistent, JobConsistent
<1> PICK i \in Incidents \cup {Nobody} : i = job[j].found
    BY DEF TypeOK, JobTypeOK, JobRow
<1>1. service'[p].failures = 0 /\ (s # p => service'[s] = service[s])
    BY DEF RecoverCommit, TypeOK, StoreTypeOK, ServiceRow
<1>2. i # Nobody => i \in Incidents /\ incident[i].svc = p
    BY DEF Consistent, JobsConsistent, JobConsistent
<1>3. \A k \in Incidents : k # i => incident'[k] = incident[k]
    BY DEF RecoverCommit, TypeOK, StoreTypeOK
<1>4. CASE s = p
    BY <1>1, <1>4, ZeroIsBelow DEF Guarded
<1>5. CASE s # p
    <2>1. Unresolved(s) \subseteq Unresolved(s)'
        BY <1>2, <1>3, <1>5, OwnerAssumption DEF Unresolved
    <2> QED
        BY <1>1, <1>5, <2>1 DEF Guarded, Kept
<1> QED
    BY <1>4, <1>5

LEMMA RequestIsGuarded ==
    ASSUME TypeOK, Consistent, NEW s \in Services, NEW r \in Requests,
           WriteFields(r) \/ ResolveCommit(r)
    PROVE  Guarded(s)
<1> PICK i \in Incidents : i = request[r].target /\ Used(i)
    BY DEF Consistent, RequestsConsistent, RequestConsistent, WriteFields, ResolveCommit,
           Serving, Answered
<1> PICK change \in UpdateBody : change = request[r].change
    BY DEF TypeOK, RequestTypeOK, RequestRow
<1> PICK row : row = Merged(incident[i], change)
    OBVIOUS
<1> PICK p \in Services : p = incident[i].svc
    BY DEF Consistent, RowsConsistent, RowConsistent
<1>1. incident' = [incident EXCEPT ![i] = row]
    BY DEF WriteFields, ResolveCommit
<1>2. /\ incident'[i] = row
      /\ \A k \in Incidents : k # i => incident'[k] = incident[k]
    BY <1>1 DEF TypeOK, StoreTypeOK
<1>3. /\ row.svc = p
      /\ row.status = IF change.status = "keep" THEN incident[i].status ELSE change.status
    BY MergedRow DEF TypeOK, StoreTypeOK
<1>4. CASE WriteFields(r)
    <2>1. change.status # "resolved" /\ change.status # "none" /\ UNCHANGED service
        BY <1>4 DEF WriteFields, UpdateBody, IncidentStatus
    <2>2. Unresolved(s) \subseteq Unresolved(s)'
        BY <1>2, <1>3, <2>1 DEF Unresolved
    <2> QED
        BY <2>1, <2>2 DEF Guarded, Kept
<1>5. CASE ResolveCommit(r)
    <2>1. service'[p].failures = 0 /\ (s # p => service'[s] = service[s])
        <3> PICK status : status = IF request[r].newest = "up" THEN "up" ELSE "unknown"
            OBVIOUS
        <3> PICK after : after = [service[p] EXCEPT !.status = status, !.failures = 0]
            OBVIOUS
        <3>1. after.failures = 0
            BY DEF TypeOK, StoreTypeOK, ServiceRow
        <3>2. service' = [service EXCEPT ![p] = after]
            BY <1>5 DEF ResolveCommit
        <3> QED
            BY <3>1, <3>2 DEF TypeOK, StoreTypeOK
    <2>2. CASE s = p
        BY <2>1, <2>2, ZeroIsBelow DEF Guarded
    <2>3. CASE s # p
        <3>1. Unresolved(s) \subseteq Unresolved(s)'
            BY <1>2, <1>3, <2>3 DEF Unresolved
        <3> QED
            BY <2>1, <2>3, <3>1 DEF Guarded, Kept
    <2> QED
        BY <2>2, <2>3
<1> QED
    BY <1>4, <1>5

LEMMA StepIsGuarded ==
    ASSUME TypeOK, Consistent, [Next]_vars, NEW s \in Services
    PROVE  Guarded(s)
<1>1. ASSUME NEW j \in Jobs, JobStep(j)
      PROVE  Guarded(s)
    <2>1. CASE \/ FetchService(j) \/ Probe(j) \/ LogCheck(j) \/ FindWindow(j)
              \/ RecoverFind(j) \/ RecoverLock(j) \/ FailUpdate(j) \/ FailFind(j) \/ Announce(j)
        BY <2>1, UntouchedIsGuarded
        DEF FetchService, Probe, LogCheck, FindWindow, RecoverFind, RecoverLock, FailUpdate,
            FailFind, Announce, storeVars, rowVars
    <2>2. CASE MarkMaintenance(j)
        BY <2>2, StatusIsGuarded DEF MarkMaintenance
    <2> QED
        BY <1>1, <2>1, <2>2, RecoveryIsGuarded, FailureIsGuarded DEF JobStep
<1>2. CASE HealthCheckNext
    <2>1. CASE \E p \in Services : SetActive(p)
        BY <2>1, StatusIsGuarded DEF SetActive
    <2> QED
        BY <1>1, <1>2, <2>1, UntouchedIsGuarded
        DEF HealthCheckNext, Enqueue, JobError, TargetFlips, storeVars, rowVars
<1>3. CASE IncidentApiNext
    BY <1>3, RequestIsGuarded, UntouchedIsGuarded
    DEF IncidentApiNext, RequestStep, Submit, ReadExisting, CheckToken, LockForResolve,
        ReadNewestCheck, RequestError, storeVars, rowVars
<1>4. CASE MaintenanceNext
    <2>1. ASSUME NEW t \in Tickers, TickStep(t) \/ TickError(t)
          PROVE  Guarded(s)
        <3>1. CASE FindToStart(t) \/ FindToComplete(t) \/ EndTick(t)
            BY <3>1, UntouchedIsGuarded DEF FindToStart, FindToComplete, EndTick, storeVars
        <3>2. CASE (\E w \in Windows : Transition(t, w)) \/ TickError(t)
            BY <3>2, UntouchedIsGuarded DEF Transition, TickError, rowVars
        <3>3. CASE TransitionService(t)
            BY <3>3, StatusIsGuarded DEF TransitionService
        <3> QED
            BY <2>1, <3>1, <3>2, <3>3 DEF TickStep
    <2>2. CASE WindowApiNext
        BY <2>2, UntouchedIsGuarded
        DEF WindowApiNext, CreateWindow, ReadWindow, WriteWindow, RemoveWindow, ClockPasses,
            storeVars
    <2> QED
        BY <1>4, <2>1, <2>2 DEF MaintenanceNext
<1>5. CASE BreakDeadlock \/ Crash \/ UNCHANGED vars
    BY <1>5, UntouchedIsGuarded
    DEF BreakDeadlock, AbortDeadlockedJob, AbortDeadlockedRequest, Crash, WorkerCrash, rowVars,
        vars, storeVars
<1> QED
    BY <1>2, <1>3, <1>4, <1>5 DEF Next

(* An outage that has been counted up to the incident threshold always has *)
(* an unresolved incident.                                                 *)
THEOREM CountedOutageHasIncident == Spec => []OutageHasIncident
<1>1. Init => OutageHasIncident
    BY ZeroIsBelow DEF Init, StoreInit, OutageHasIncident
<1>2. TypeOK /\ Consistent /\ OutageHasIncident /\ [Next]_vars => OutageHasIncident'
    <2> SUFFICES ASSUME TypeOK, Consistent, OutageHasIncident, [Next]_vars,
                        NEW s \in Services, service'[s].failures >= IncidentThreshold
                 PROVE  Unresolved(s)' # {}
        BY DEF OutageHasIncident
    <2>1. service'[s].failures \in Nat /\ IncidentThreshold \in Nat
        BY TypeStep, ThresholdAssumption DEF TypeOK, StoreTypeOK, ServiceRow
    <2> QED
        BY <2>1, StepIsGuarded DEF Guarded, Kept, OutageHasIncident
<1> QED
    BY <1>1, <1>2, Invariance, PTL DEF Spec

-----------------------------------------------------------------------------
(***************************************************************************)
(* Critical outages.  While no client edits a severity, a critical         *)
(* incident stays critical, and a failure transaction that is about to     *)
(* commit without escalating has found one.                                *)
(***************************************************************************)
NoSeverityEdits == \A body \in Updates : body.severity = "keep"

SeverityKept == \A r \in Requests : request[r].change.severity = "keep"

FoundCritical ==
    \A j \in Jobs :
        At(j, "failCommit") /\ NewFailures(j) >= CriticalThreshold
            => incident[job[j].found].severity = "critical"

Critical(s) == {i \in Unresolved(s) : incident[i].severity = "critical"}

CriticalOutages ==
    \A s \in Services : service[s].failures >= CriticalThreshold => Critical(s) # {}

CriticalInv == SeverityKept /\ FoundCritical /\ CriticalOutages

LEMMA SeverityKeptStep ==
    ASSUME NoSeverityEdits, TypeOK, SeverityKept, [Next]_vars
    PROVE  SeverityKept'
<1> SUFFICES ASSUME NEW r \in Requests PROVE request'[r].change.severity = "keep"
    BY DEF SeverityKept
<1>0. request[r].change.severity = "keep" /\ request[r] \in RequestRow
      /\ request[r].change \in UpdateBody
    BY DEF SeverityKept, TypeOK, RequestTypeOK, RequestRow
<1>r. ASSUME NEW q \in Requests, NEW answer \in {"closed", "saved"}, Reply(q, answer)
      PROVE  request'[r].change.severity = "keep"
    <2>1. [NewRequest EXCEPT !.pc = answer].change.severity = "keep"
        BY DEF NewRequest, NoChange
    <2> QED
        BY <1>0, <1>r, <2>1 DEF Reply, TypeOK, RequestTypeOK
<1>1. ASSUME NEW q \in Requests, Submit(q)
      PROVE  request'[r].change.severity = "keep"
    <2> PICK i \in Incidents \ Unused, body \in Updates, withToken \in BOOLEAN :
            request' = [request EXCEPT ![q] =
              [NewRequest EXCEPT !.pc = "read", !.target = i, !.change = body,
                                 !.token = IF withToken THEN incident[i].version ELSE 0]]
        BY <1>1 DEF Submit
    <2> PICK token : token = IF withToken THEN incident[i].version ELSE 0
        OBVIOUS
    <2> PICK row : row = [NewRequest EXCEPT !.pc = "read", !.target = i, !.change = body,
                                            !.token = token]
        OBVIOUS
    <2>1. row.change = body /\ body.severity = "keep"
        BY DEF NewRequest, NoSeverityEdits
    <2>2. request' = [request EXCEPT ![q] = row]
        OBVIOUS
    <2> QED
        BY <1>0, <2>1, <2>2 DEF TypeOK, RequestTypeOK
<1>2. ASSUME NEW q \in Requests, ReadExisting(q)
      PROVE  request'[r].change.severity = "keep"
    <2> PICK change : change = Changed(request[q].change, incident[request[q].target])
        OBVIOUS
    <2>1. change.severity = "keep"
        BY DEF Changed, SeverityKept, TypeOK, RequestTypeOK, RequestRow, UpdateBody
    <2>2. CASE Reply(q, "closed")
        BY <1>r, <2>2
    <2>3. CASE request' = [request EXCEPT ![q].change = change, ![q].pc = "check"]
        BY <1>0, <2>1, <2>3 DEF TypeOK, RequestTypeOK, RequestRow
    <2> QED
        BY <1>2, <2>2, <2>3 DEF ReadExisting
<1>3. ASSUME NEW q \in Requests, CheckToken(q) \/ LockForResolve(q) \/ ReadNewestCheck(q)
      PROVE  request'[r].change.severity = "keep"
    BY <1>0, <1>3, <1>r DEF CheckToken, LockForResolve, ReadNewestCheck, Proceed, TypeOK,
       RequestTypeOK, RequestRow
<1>4. ASSUME NEW q \in Requests,
             WriteFields(q) \/ ResolveCommit(q) \/ RequestError(q) \/ AbortDeadlockedRequest(q)
      PROVE  request'[r].change.severity = "keep"
    BY <1>4, <1>r DEF WriteFields, ResolveCommit, RequestError, AbortDeadlockedRequest, Rollback
<1>5. CASE UNCHANGED request
    BY <1>0, <1>5
<1>6. CASE IncidentApiNext
    BY <1>6, <1>1, <1>2, <1>3, <1>4 DEF IncidentApiNext, RequestStep
<1>7. CASE BreakDeadlock
    BY <1>7, <1>4, <1>5 DEF BreakDeadlock
<1> QED
    BY <1>5, <1>6, <1>7 DEF Next, Crash, vars

LEMMA CriticalStays ==
    ASSUME TypeOK, Consistent, SeverityKept, [Next]_vars, NEW i \in Incidents,
           incident[i].severity = "critical"
    PROVE  incident'[i].severity = "critical"
<1>0. incident[i] \in IncidentRow /\ incident[i] # NoIncident
    BY DEF TypeOK, StoreTypeOK, NoIncident
<1>1. ASSUME NEW j \in Jobs, RecoverCommit(j)
      PROVE  incident'[i].severity = "critical"
    <2> DEFINE resolved(row) == [row EXCEPT !.status = "resolved", !.resolvedAt = TRUE,
                                            !.version = @ + 1]
    <2>1. resolved(incident[i]).severity = "critical"
        BY <1>0 DEF IncidentRow
    <2>2. \/ incident' = incident
          \/ incident' = [incident EXCEPT ![job[j].found] = resolved(@)]
        BY <1>1 DEF RecoverCommit
    <2> HIDE DEF resolved
    <2> QED
        BY <2>1, <2>2 DEF TypeOK, StoreTypeOK
<1>2. ASSUME NEW j \in Jobs, FailCreate(j)
      PROVE  incident'[i].severity = "critical"
    <2>1. i \notin Unused
        BY <1>0 DEF Unused, Consistent, RowsConsistent, RowConsistent, Used
    <2> QED
        BY <1>2, <2>1 DEF FailCreate, Unused, TypeOK, StoreTypeOK
<1>3. ASSUME NEW j \in Jobs, FailEscalate(j)
      PROVE  incident'[i].severity = "critical"
    BY <1>0, <1>3 DEF FailEscalate, TypeOK, StoreTypeOK, IncidentRow
<1>4. ASSUME NEW r \in Requests, WriteFields(r) \/ ResolveCommit(r)
      PROVE  incident'[i].severity = "critical"
    <2> PICK change \in UpdateBody : change = request[r].change
        BY DEF TypeOK, RequestTypeOK, RequestRow
    <2> PICK k : k = request[r].target
        OBVIOUS
    <2> PICK row : row = Merged(incident[k], change)
        OBVIOUS
    <2>1. incident' = [incident EXCEPT ![k] = row]
        BY <1>4 DEF WriteFields, ResolveCommit
    <2>2. k = i => row.severity = "critical"
        BY <1>0, MergedRow DEF SeverityKept
    <2> QED
        BY <2>1, <2>2 DEF TypeOK, StoreTypeOK
<1>5. CASE UNCHANGED incident
    BY <1>5
<1>6. UNCHANGED incident \/ (\E j \in Jobs : RecoverCommit(j) \/ FailCreate(j) \/ FailEscalate(j))
        \/ \E r \in Requests : WriteFields(r) \/ ResolveCommit(r)
    BY IncidentWriters
<1> QED
    BY <1>1, <1>2, <1>3, <1>4, <1>5, <1>6

(* Only FailFind sends an execution to a commit that does not escalate.    *)
LEMMA CommitEntered ==
    ASSUME TypeOK, [Next]_vars, NEW k \in Jobs, At(k, "failCommit")', ~FailFind(k)
    PROVE  job'[k] = job[k]
<1>0. job'[k].pc = "failCommit"
    BY DEF At
<1>i. /\ IdleJob.pc # "failCommit"
      /\ \A s \in Services \cup {Nobody}, n \in Nat : QueuedJob(s, n).pc # "failCommit"
    BY DEF IdleJob, QueuedJob
<1>a. \A j \in Jobs : job[j].svc \in Services \cup {Nobody} /\ job[j].attempt + 1 \in Nat
        /\ job[j].attempt \in Nat
    BY DEF TypeOK, JobTypeOK, JobRow, MaxAttempts
<1>r. ASSUME NEW j \in Jobs, Abort(j)
      PROVE  job'[k] = job[k]
    <2>1. \E row \in {IdleJob, QueuedJob(job[j].svc, job[j].attempt + 1)} :
            job' = [job EXCEPT ![j] = row]
        BY <1>r DEF Abort, Finish
    <2> QED
        BY <1>0, <1>i, <1>a, <2>1 DEF TypeOK, JobTypeOK
<1>1. ASSUME NEW j \in Jobs, JobStep(j)
      PROVE  job'[k] = job[k]
    <2>1. j # k => job'[k] = job[k]
        BY <1>1
        DEF JobStep, FetchService, Probe, LogCheck, FindWindow, MarkMaintenance, RecoverFind,
            RecoverLock, RecoverCommit, FailUpdate, FailFind, FailCreate, FailEscalate,
            FailCommit, CommitFailures, Announce, Goto, Finish, TypeOK, JobTypeOK
    <2>2. ASSUME j = k
          PROVE  FALSE
        <3>1. job'[k] = IdleJob \/ job'[k].pc \in {"probe", "log", "window", "recoverFind",
                  "failUpdate", "mark", "recoverCommit", "recoverLock", "failFind", "announce"}
            BY <1>1, <2>2
            DEF JobStep, FetchService, Probe, LogCheck, FindWindow, MarkMaintenance, RecoverFind,
                RecoverLock, RecoverCommit, FailUpdate, FailCreate, FailEscalate,
                FailCommit, CommitFailures, Announce, Goto, Finish, TypeOK, JobTypeOK, JobRow
        <3> QED
            BY <1>0, <1>i, <3>1
    <2> QED
        BY <2>1, <2>2
<1>2. ASSUME NEW j \in Jobs, NEW s \in Services, Enqueue(j, s)
      PROVE  job'[k] = job[k]
    BY <1>0, <1>2, <1>i DEF Enqueue, TypeOK, JobTypeOK
<1>3. WorkerCrash => job'[k] = job[k]
    BY <1>0, <1>i, <1>a DEF WorkerCrash
<1>4. CASE UNCHANGED job
    BY <1>4
<1>5. CASE HealthCheckNext
    BY <1>5, <1>r, <1>1, <1>2, <1>4 DEF HealthCheckNext, JobError, TargetFlips, SetActive, jobVars
<1>6. CASE BreakDeadlock
    BY <1>6, <1>r, <1>4 DEF BreakDeadlock, AbortDeadlockedJob, jobVars
<1> QED
    BY <1>3, <1>4, <1>5, <1>6 DEF Next, Crash, vars, jobVars

LEMMA FoundCriticalStep ==
    ASSUME TypeOK, Consistent, SeverityKept, FoundCritical, [Next]_vars
    PROVE  FoundCritical'
<1> SUFFICES ASSUME NEW k \in Jobs, At(k, "failCommit")', NewFailures(k)' >= CriticalThreshold
             PROVE  incident'[job'[k].found].severity = "critical"
    BY DEF FoundCritical
<1>t. CriticalThreshold \in Nat /\ IncidentThreshold \in Nat
        /\ IncidentThreshold < CriticalThreshold
    BY ThresholdAssumption
<1>1. CASE job'[k] = job[k]
    <2> PICK i : i = job[k].found
        OBVIOUS
    <2>1. At(k, "failCommit") /\ NewFailures(k) >= CriticalThreshold
        BY <1>1 DEF At, NewFailures
    <2>2. NewFailures(k) \in Nat
        BY NewFailuresType DEF TypeOK
    <2>3. i \in Unresolved(job[k].svc)
        BY <1>t, <2>1, <2>2 DEF At, Consistent, JobsConsistent, JobConsistent
    <2>4. i \in Incidents /\ incident[i].severity = "critical"
        BY <2>1, <2>3 DEF FoundCritical, Unresolved
    <2>5. incident'[i].severity = "critical"
        BY <2>4, CriticalStays
    <2> QED
        BY <1>1, <2>5
<1>2. CASE FailFind(k)
    <2>1. job'[k].failures = job[k].failures /\ UNCHANGED incident /\ job'[k].pc = "failCommit"
        BY <1>2 DEF FailFind, Goto, At, storeVars, TypeOK, JobTypeOK, JobRow
    <2>2. NewFailures(k)' = NewFailures(k)
        BY <2>1 DEF NewFailures, Bump
    <2>3. NewFailures(k) >= CriticalThreshold /\ NewFailures(k) \in Nat
        BY <2>2, NewFailuresType DEF TypeOK
    <2>4. PICK i \in Incidents :
            job' = [job EXCEPT ![k].found = i,
                               ![k].pc = IF /\ NewFailures(k) >= CriticalThreshold
                                            /\ incident[i].severity # "critical"
                                         THEN "failEscalate" ELSE "failCommit"]
        <3>1. ~Goto(k, "failCreate")
            BY <2>1 DEF Goto, TypeOK, JobTypeOK, JobRow
        <3>2. ~(NewFailures(k) < IncidentThreshold)
            BY <1>t, <2>3
        <3>3. Unresolved(job[k].svc) \subseteq Incidents
            BY DEF Unresolved
        <3> QED
            BY <1>2, <3>1, <3>2, <3>3 DEF FailFind
    <2>5. job'[k].found = i /\ (job'[k].pc = "failCommit" => incident[i].severity = "critical")
        BY <2>3, <2>4 DEF TypeOK, JobTypeOK, JobRow
    <2> QED
        BY <2>1, <2>5
<1> QED
    BY <1>1, <1>2, CommitEntered

(* A failure that is counted up to the critical threshold leaves the       *)
(* incident it found, escalated or opened critical.                        *)
LEMMA FailureIsCritical ==
    ASSUME TypeOK, Consistent, SeverityKept, FoundCritical, [Next]_vars, NEW j \in Jobs,
           Fails(j), NEW p \in Services, p = job[j].svc,
           service'[p].failures >= CriticalThreshold
    PROVE  Critical(p)' # {}
<1> PICK n \in Nat : n = NewFailures(j)
    BY NewFailuresType DEF TypeOK
<1>1. service' = [service EXCEPT ![p].status = NewServiceStatus(j), ![p].failures = n]
    BY DEF Fails, FailCreate, FailEscalate, FailCommit, CommitFailures
<1>2. n >= CriticalThreshold
    BY <1>1 DEF TypeOK, StoreTypeOK, ServiceRow
<1>3. n >= IncidentThreshold
    BY <1>2, ThresholdAssumption
<1>4. CASE FailCreate(j)
    BY <1>2, <1>4 DEF FailCreate, Unused, Unresolved, Critical, TypeOK, StoreTypeOK
<1>5. CASE FailEscalate(j)
    <2> PICK i : i = job[j].found
        OBVIOUS
    <2>1. i \in Unresolved(p)
        BY <1>3, <1>5 DEF FailEscalate, At, Consistent, JobsConsistent, JobConsistent
    <2>2. incident'[i].svc = p /\ incident'[i].status = incident[i].status
          /\ incident'[i].severity = "critical"
        BY <1>5, <2>1 DEF FailEscalate, Unresolved, TypeOK, StoreTypeOK, IncidentRow
    <2> QED
        BY <2>1, <2>2 DEF Critical, Unresolved
<1>6. CASE FailCommit(j)
    <2> PICK i : i = job[j].found
        OBVIOUS
    <2>1. i \in Unresolved(p) /\ incident[i].severity = "critical"
        BY <1>2, <1>3, <1>6
        DEF FailCommit, At, Consistent, JobsConsistent, JobConsistent, FoundCritical
    <2>2. UNCHANGED incident
        BY <1>6 DEF FailCommit
    <2> QED
        BY <2>1, <2>2 DEF Critical, Unresolved
<1> QED
    BY <1>4, <1>5, <1>6 DEF Fails

LEMMA CriticalOutagesStep ==
    ASSUME TypeOK, Consistent, SeverityKept, FoundCritical, CriticalOutages, [Next]_vars
    PROVE  CriticalOutages'
<1> SUFFICES ASSUME NEW s \in Services, service'[s].failures >= CriticalThreshold
             PROVE  Critical(s)' # {}
    BY DEF CriticalOutages
<1>1. /\ service'[s].failures \in Nat
      /\ IncidentThreshold \in Nat /\ CriticalThreshold \in Nat
      /\ IncidentThreshold < CriticalThreshold
    BY TypeStep, ThresholdAssumption DEF TypeOK, StoreTypeOK, ServiceRow
<1>2. CASE Kept(s)
    <2>1. PICK i \in Unresolved(s) : incident[i].severity = "critical"
        BY <1>2 DEF Kept, CriticalOutages, Critical
    <2>2. i \in Unresolved(s)'
        BY <1>2 DEF Kept
    <2>3. incident'[i].severity = "critical"
        BY <2>1, CriticalStays DEF Unresolved
    <2> QED
        BY <2>2, <2>3 DEF Critical
<1>3. CASE service'[s].failures < IncidentThreshold
    BY <1>1, <1>3
<1>4. CASE \E j \in Jobs : Fails(j) /\ job[j].svc = s
    BY <1>4, FailureIsCritical
<1> QED
    BY <1>2, <1>3, <1>4, StepIsGuarded DEF Guarded

(* A service at the critical threshold has a critical incident, unless     *)
(* clients edit severities.                                                *)
THEOREM CountedOutageIsCritical == Spec => []CriticalOutageIsCritical
<1>1. CASE NoSeverityEdits
    <2>1. Init => CriticalInv
        BY ThresholdAssumption
        DEF Init, StoreInit, JobInit, RequestInit, IdleJob, NewRequest, NoChange, CriticalInv,
            SeverityKept, FoundCritical, CriticalOutages, At
    <2>2. TypeOK /\ Consistent /\ CriticalInv /\ [Next]_vars => CriticalInv'
        BY <1>1, SeverityKeptStep, FoundCriticalStep, CriticalOutagesStep DEF CriticalInv
    <2>3. CriticalInv => CriticalOutageIsCritical
        BY DEF CriticalInv, CriticalOutages, CriticalOutageIsCritical, Critical
    <2> QED
        BY <2>1, <2>2, <2>3, Invariance, PTL DEF Spec
<1>2. CASE ~NoSeverityEdits
    <2>1. CriticalOutageIsCritical
        BY <1>2 DEF NoSeverityEdits, CriticalOutageIsCritical
    <2> QED
        BY <2>1, PTL
<1> QED
    BY <1>1, <1>2

-----------------------------------------------------------------------------
(***************************************************************************)
(* Maintenance windows.  What a ticker run has listed stays as it read it, *)
(* or is deleted, until the run itself moves it: nobody but the ticker     *)
(* writes a window's status, so this needs that runs do not overlap.       *)
(***************************************************************************)
OneTicker == \A t, u \in Tickers : t = u

ListsCurrent ==
    \A t \in Tickers :
        /\ \A w \in tick[t].toStart : window[w].status \in {"scheduled", "deleted"}
        /\ \A w \in tick[t].toComplete : window[w].status \in {"in_progress", "deleted"}

(* A step of anybody else leaves a listed window's status, or deletes it.  *)
Deletes(w) == window'[w].status \in {window[w].status, "deleted"}

LEMMA ListsKept ==
    ASSUME ListsCurrent, TypeOK, \A t \in Tickers : tick'[t] \in {tick[t], IdleTick},
           \A w \in Windows : window[w].status = "none" \/ Deletes(w)
    PROVE  ListsCurrent'
<1> SUFFICES ASSUME NEW t \in Tickers
             PROVE  /\ \A w \in tick'[t].toStart : window'[w].status \in {"scheduled", "deleted"}
                    /\ \A w \in tick'[t].toComplete :
                            window'[w].status \in {"in_progress", "deleted"}
    BY DEF ListsCurrent
<1>1. tick[t].toStart \subseteq Windows /\ tick[t].toComplete \subseteq Windows
    BY DEF TypeOK, TickTypeOK, TickRow
<1>2. CASE tick'[t] = IdleTick
    BY <1>2 DEF IdleTick
<1>3. CASE tick'[t] = tick[t]
    BY <1>1, <1>3 DEF ListsCurrent, Deletes
<1> QED
    BY <1>2, <1>3

LEMMA WindowApiLists ==
    ASSUME TypeOK, ListsCurrent, WindowApiNext
    PROVE  /\ ListsCurrent'
           /\ \A w \in Windows : window[w].status = "none" \/ Deletes(w)
<1>1. UNCHANGED tick
    BY DEF WindowApiNext, CreateWindow, ReadWindow, WriteWindow, RemoveWindow, ClockPasses,
           tickVars
<1>2. \A w \in Windows : window[w].status = "none" \/ Deletes(w)
    <2>1. ASSUME NEW w \in Windows, NEW s \in Services \cup {Nobody},
                 NEW now \in {"before", "inside", "after"}, CreateWindow(w, s, now)
          PROVE  \A v \in Windows : window[v].status = "none" \/ Deletes(v)
        BY <2>1 DEF CreateWindow, NoWindow, Deletes, TypeOK, StoreTypeOK
    <2>2. ASSUME NEW w \in Windows, RemoveWindow(w) \/ ClockPasses(w)
          PROVE  \A v \in Windows : Deletes(v)
        BY <2>2 DEF RemoveWindow, ClockPasses, Deletes, TypeOK, StoreTypeOK, WindowRow
    <2>3. ASSUME NEW e \in Editors, NEW now \in {"before", "inside", "after"},
                 WriteWindow(e, now)
          PROVE  \A v \in Windows : Deletes(v)
        BY <2>3 DEF WriteWindow, Deletes, TypeOK, StoreTypeOK, WindowRow
    <2>4. ASSUME UNCHANGED window
          PROVE  \A v \in Windows : Deletes(v)
        BY <2>4 DEF Deletes
    <2> QED
        BY <2>1, <2>2, <2>3, <2>4 DEF WindowApiNext, ReadWindow, storeVars
<1> QED
    BY <1>1, <1>2, ListsKept

(* A run moves a scheduled window to in_progress or one in progress to     *)
(* completed, and drops it from its list.                                  *)
LEMMA TransitionLists ==
    ASSUME OneTicker, TypeOK, ListsCurrent, NEW t \in Tickers, NEW w \in Windows,
           Transition(t, w)
    PROVE  /\ ListsCurrent'
           /\ window[w].status # "completed"
           /\ \A v \in Windows \ {w} : window'[v] = window[v]
<1> PICK a : a = tick[t].toStart
    OBVIOUS
<1> PICK b : b = tick[t].toComplete
    OBVIOUS
<1>0. a \subseteq Windows /\ b \subseteq Windows
    BY DEF TypeOK, TickTypeOK, TickRow
<1>1. /\ w \in a \/ (a = {} /\ w \in b)
      /\ \A v \in a : window[v].status \in {"scheduled", "deleted"}
      /\ \A v \in b : window[v].status \in {"in_progress", "deleted"}
    BY DEF Transition, ListsCurrent
<1>2. CASE window[w].status = "deleted"
    <2>1. UNCHANGED window /\ tick'[t] = IdleTick
        BY <1>2 DEF Transition, TypeOK, TickTypeOK
    <2>2. \A u \in Tickers : tick'[u] \in {tick[u], IdleTick}
        BY <2>1 DEF OneTicker
    <2> QED
        BY <1>2, <2>1, <2>2, ListsKept DEF Deletes
<1>3. CASE window[w].status # "deleted"
    <2>1. \A v \in Windows \ {w} : window'[v] = window[v]
        BY <1>3 DEF Transition, TypeOK, StoreTypeOK
    <2>2. window'[w].status = IF w \in a THEN "in_progress" ELSE "completed"
        BY <1>3 DEF Transition, TypeOK, StoreTypeOK, WindowRow
    <2>3. /\ tick'[t].toStart = a \ {w}
          /\ tick'[t].toComplete = IF w \in a THEN b ELSE b \ {w}
        BY <1>3 DEF Transition, TypeOK, TickTypeOK, TickRow
    <2>4. w \in a => w \notin b
        BY <1>1, <1>3
    <2>5. /\ \A v \in tick'[t].toStart : window'[v].status \in {"scheduled", "deleted"}
          /\ \A v \in tick'[t].toComplete : window'[v].status \in {"in_progress", "deleted"}
        BY <1>0, <1>1, <2>1, <2>3, <2>4
    <2>6. \A u \in Tickers : u = t
        BY DEF OneTicker
    <2>7. ListsCurrent'
        BY <2>5, <2>6 DEF ListsCurrent
    <2> QED
        BY <1>1, <1>3, <2>1, <2>7
<1> QED
    BY <1>2, <1>3

(* Every step keeps the lists and what is completed.                       *)
Stays(w) == window[w].status = "completed" => window'[w].status \in {"completed", "deleted"}

LEMMA StepKeepsLists ==
    ASSUME OneTicker, TypeOK, ListsCurrent, [Next]_vars
    PROVE  ListsCurrent' /\ \A w \in Windows : Stays(w)
<1>1. ASSUME UNCHANGED window, \A t \in Tickers : tick'[t] \in {tick[t], IdleTick}
      PROVE  ListsCurrent' /\ \A w \in Windows : Stays(w)
    BY <1>1, ListsKept DEF Deletes, Stays
<1>2. CASE HealthCheckNext /\ UNCHANGED <<request, tickVars>>
    <2>1. UNCHANGED window
        BY <1>2 DEF HealthCheckNext, Enqueue, JobStep, FetchService, Probe, LogCheck, FindWindow,
           MarkMaintenance, RecoverFind, RecoverLock, RecoverCommit, FailUpdate, FailFind,
           FailCreate, FailEscalate, FailCommit, Announce, JobError, TargetFlips, SetActive,
           storeVars, rowVars
    <2> QED
        BY <1>1, <1>2, <2>1 DEF tickVars
<1>3. CASE IncidentApiNext /\ UNCHANGED <<jobVars, tickVars>>
    <2>1. UNCHANGED window
        BY <1>3 DEF IncidentApiNext, RequestStep, Submit, ReadExisting, CheckToken, WriteFields,
           LockForResolve, ReadNewestCheck, ResolveCommit, RequestError, storeVars, rowVars
    <2> QED
        BY <1>1, <1>3, <2>1 DEF tickVars
<1>4. CASE BreakDeadlock \/ Crash \/ UNCHANGED vars
    <2>1. UNCHANGED window
        BY <1>4 DEF BreakDeadlock, AbortDeadlockedJob, AbortDeadlockedRequest, Crash,
           WorkerCrash, rowVars, vars, storeVars
    <2>2. \A t \in Tickers : tick'[t] \in {tick[t], IdleTick}
        BY <1>4 DEF BreakDeadlock, Crash, vars, tickVars
    <2> QED
        BY <1>1, <2>1, <2>2
<1>5. CASE WindowApiNext
    BY <1>5, WindowApiLists DEF Deletes, Stays
<1>6. ASSUME NEW t \in Tickers, TickStep(t) \/ TickError(t)
      PROVE  ListsCurrent' /\ \A w \in Windows : Stays(w)
    <2>t. \A u \in Tickers : u = t
        BY DEF OneTicker
    <2>1. CASE FindToStart(t)
        <3>1. /\ tick'[t].toStart = {w \in Windows : /\ window[w].status = "scheduled"
                                                     /\ window[w].now # "before"}
              /\ tick'[t].toComplete = tick[t].toComplete
            BY <2>1 DEF FindToStart, TypeOK, TickTypeOK, TickRow
        <3>2. UNCHANGED window
            BY <2>1 DEF FindToStart, storeVars
        <3>3. ListsCurrent'
            BY <2>t, <3>1, <3>2 DEF ListsCurrent
        <3> QED
            BY <3>2, <3>3 DEF Stays
    <2>2. CASE FindToComplete(t)
        <3>1. /\ tick'[t].toComplete = {w \in Windows : /\ window[w].status = "in_progress"
                                                        /\ window[w].now = "after"}
              /\ tick'[t].toStart = tick[t].toStart
            BY <2>2 DEF FindToComplete, TypeOK, TickTypeOK, TickRow
        <3>2. UNCHANGED window
            BY <2>2 DEF FindToComplete, storeVars
        <3>3. ListsCurrent'
            BY <2>t, <3>1, <3>2 DEF ListsCurrent
        <3> QED
            BY <3>2, <3>3 DEF Stays
    <2>3. ASSUME NEW w \in Windows, Transition(t, w)
          PROVE  ListsCurrent' /\ \A v \in Windows : Stays(v)
        BY <2>3, TransitionLists DEF Stays
    <2>4. CASE TransitionService(t)
        <3>1. /\ tick'[t].toStart = tick[t].toStart
              /\ tick'[t].toComplete = tick[t].toComplete
              /\ UNCHANGED window
            BY <2>4 DEF TransitionService, TypeOK, TickTypeOK, TickRow
        <3>2. ListsCurrent'
            BY <2>t, <3>1 DEF ListsCurrent
        <3> QED
            BY <3>1, <3>2 DEF Stays
    <2>5. CASE EndTick(t) \/ TickError(t)
        BY <1>1, <2>5, <2>t DEF EndTick, TickError, storeVars, rowVars, TypeOK, TickTypeOK
    <2> QED
        BY <1>6, <2>1, <2>2, <2>3, <2>4, <2>5 DEF TickStep
<1> QED
    BY <1>2, <1>3, <1>4, <1>5, <1>6 DEF Next, MaintenanceNext

(* While ticker runs do not overlap, no edit, deletion, clock step, error  *)
(* or crash takes a completed window back: the status that a run read when *)
(* it made its lists is still the row's when it writes by id.              *)
THEOREM CompletedStays == OneTicker /\ Spec => CompletedIsFinal
<1>1. Init => ListsCurrent
    BY DEF Init, TickInit, IdleTick, ListsCurrent
<1>2. OneTicker /\ TypeOK /\ ListsCurrent /\ [Next]_vars
        => ListsCurrent' /\ \A w \in Windows : Stays(w)
    BY StepKeepsLists
<1>3. ASSUME OneTicker
      PROVE  Spec => CompletedIsFinal
    <2>1. TypeOK /\ ListsCurrent /\ [Next]_vars
            => ListsCurrent' /\ [\A w \in Windows : window[w].status = "completed"
                                    => window'[w].status \in {"completed", "deleted"}]_window
        BY <1>2, <1>3 DEF Stays
    <2> QED
        BY <1>1, <2>1, Invariance, PTL DEF Spec, CompletedIsFinal
<1> QED
    BY <1>3

-----------------------------------------------------------------------------
(***************************************************************************)
(* Streaks.  While a service is steady, what is stored and what executions *)
(* carry never exceeds the failed checks logged since the last success,    *)
(* unless a check that passed is about to set the count to 0.  "steady" is *)
(* a matter of one service, so the steps are looked at for one.            *)
(***************************************************************************)

Counting(j) ==
    \/ job[j].pc \in {"failUpdate", "failFind", "failCreate", "failEscalate", "failCommit"}
    \/ At(j, "window") /\ job[j].outcome # "up"

CarriedBy(j, s) ==
    job[j].svc = s =>
        /\ job[j].pc \in {"probe", "log"} => job[j].failures <= checks[s].failed
        /\ Counting(j) => NewFailures(j) <= checks[s].failed
        /\ At(j, "failCreate") => NewFailures(j) >= IncidentThreshold

Stored(s) == service[s].failures <= checks[s].failed \/ \E j \in Jobs : Passed(j, s)

Streak(s) == Stored(s) /\ (\A j \in Jobs : CarriedBy(j, s)) /\ ~Crossed(s)

StreakInv == \A s \in Services \ unsteady : Streak(s)

LEMMA CountsAreNat ==
    ASSUME TypeOK
    PROVE  /\ \A s \in Services : service[s].failures \in Nat /\ checks[s].failed \in Nat
           /\ \A j \in Jobs : job[j].failures \in Nat /\ NewFailures(j) \in Nat
           /\ MaxFailures \in Nat /\ IncidentThreshold \in Nat
BY ThresholdAssumption, NewFailuresType
DEF TypeOK, StoreTypeOK, ServiceRow, CheckLog, JobTypeOK, JobRow

LEMMA StoppedPc == IdleJob.pc = "idle" /\ \A p, n : QueuedJob(p, n).pc = "fetch"
<1>1. IdleJob.pc = "idle"
    BY DEF IdleJob
<1>2. ASSUME NEW p, NEW n
      PROVE  QueuedJob(p, n).pc = "fetch"
    BY DEF QueuedJob, IdleJob
<1> QED
    BY <1>1, <1>2

(* Checks that passed go on, and what the others carry is kept.            *)
LEMMA GoingOn ==
    ASSUME TypeOK, NEW s \in Services, Streak(s), checks'[s] = checks[s],
           service'[s].failures \in {service[s].failures, 0},
           \A j \in Jobs : Passed(j, s) => Passed(j, s)',
           \A j \in Jobs : CarriedBy(j, s)'
    PROVE  Stored(s)' /\ \A j \in Jobs : CarriedBy(j, s)'
BY CountsAreNat DEF Streak, Stored

(* A step of the API, the ticker or the clock.                             *)
LEMMA OthersKeepStreak ==
    ASSUME TypeOK, NEW s \in Services, Streak(s), UNCHANGED <<job, checks>>,
           service'[s].failures \in {service[s].failures, 0}
    PROVE  Stored(s)' /\ \A j \in Jobs : CarriedBy(j, s)'
<1>1. ASSUME NEW j \in Jobs
      PROVE  (Passed(j, s) => Passed(j, s)') /\ CarriedBy(j, s)'
    BY DEF Streak, Passed, CarriedBy, Counting, NewFailures, Bump, At
<1> QED
    BY <1>1, GoingOn

(* Executions that stop; a check that passed would be dropped.             *)
LEMMA StoppingStreak ==
    ASSUME TypeOK, NEW s \in Services, Streak(s), ~Dropped(s), UNCHANGED <<service, checks>>,
           \A j \in Jobs : job'[j] = job[j] \/ job'[j].pc \in {"idle", "fetch"}
    PROVE  Stored(s)' /\ \A j \in Jobs : CarriedBy(j, s)'
<1>1. ASSUME NEW j \in Jobs
      PROVE  (Passed(j, s) => Passed(j, s)') /\ CarriedBy(j, s)'
    <2>1. CASE job'[j] = job[j]
        BY <2>1 DEF Streak, Passed, CarriedBy, Counting, NewFailures, Bump, At
    <2>2. CASE job'[j].pc \in {"idle", "fetch"}
        BY <2>2 DEF Dropped, CarriedBy, Counting, At
    <2> QED
        BY <2>1, <2>2
<1> QED
    BY <1>1, GoingOn

(* One execution goes on, and the count stays.                             *)
LEMMA OneGoesOn ==
    ASSUME TypeOK, NEW s \in Services, Streak(s), NEW j \in Jobs,
           checks'[s] = checks[s], service'[s].failures \in {service[s].failures, 0},
           \A k \in Jobs : k # j => job'[k] = job[k],
           Passed(j, s) => Passed(j, s)', CarriedBy(j, s)'
    PROVE  Stored(s)' /\ \A k \in Jobs : CarriedBy(k, s)'
<1>1. ASSUME NEW k \in Jobs, k # j
      PROVE  (Passed(k, s) => Passed(k, s)') /\ CarriedBy(k, s)'
    BY <1>1 DEF Streak, Passed, CarriedBy, Counting, NewFailures, Bump, At
<1> QED
    BY <1>1, GoingOn

(* Of another service.                                                     *)
LEMMA ElsewhereStreak ==
    ASSUME TypeOK, NEW s \in Services, Streak(s), NEW j \in Jobs,
           checks'[s] = checks[s], service'[s] = service[s],
           \A k \in Jobs : k # j => job'[k] = job[k],
           job[j].svc # s, job'[j].svc = job[j].svc \/ job'[j].pc \in {"idle", "fetch"}
    PROVE  Stored(s)' /\ \A k \in Jobs : CarriedBy(k, s)'
BY OneGoesOn DEF Passed, CarriedBy, Counting, At

LEMMA ReadsStreak ==
    ASSUME TypeOK, Consistent, NEW s \in Services, Streak(s), ~Crossed(s)', NEW j \in Jobs,
           \/ FetchService(j) \/ Probe(j) \/ Announce(j)
           \/ \E p \in Services : Enqueue(j, p)
    PROVE  Stored(s)' /\ \A k \in Jobs : CarriedBy(k, s)'
<1>1. UNCHANGED <<service, checks>> /\ \A k \in Jobs : k # j => job'[k] = job[k]
    BY DEF FetchService, Probe, Announce, Enqueue, storeVars, Finish, TypeOK, JobTypeOK
<1>2. ~Passed(j, s)
    BY DEF FetchService, Probe, Announce, Enqueue, Passed, At
<1>3. CarriedBy(j, s)'
    <2>1. CASE FetchService(j) /\ job[j].svc = s
        <3>1. \/ job'[j] = IdleJob
              \/ /\ job'[j].pc = "probe" /\ job'[j].svc = s
                 /\ job'[j].failures = service[s].failures
            BY <2>1 DEF FetchService, Finish, TypeOK, JobTypeOK, JobRow
        <3>2. CASE job'[j] = IdleJob
            BY <3>2 DEF CarriedBy, Counting, At, IdleJob
        <3>3. CASE /\ job'[j].pc = "probe" /\ job'[j].svc = s
                   /\ job'[j].failures = service[s].failures
            <4>1. ASSUME NEW k \in Jobs, Passed(k, s)
                  PROVE  FALSE
                <5>1. k # j /\ job'[k] = job[k]
                    BY <1>1, <1>2, <4>1
                <5> QED
                    BY <3>3, <4>1, <5>1 DEF Crossed, Passed, Carries
            <4>2. service[s].failures <= checks[s].failed
                BY <4>1 DEF Streak, Stored
            <4> QED
                BY <1>1, <3>3, <4>2 DEF CarriedBy, Counting, At
        <3> QED
            BY <3>1, <3>2, <3>3
    <2>2. CASE FetchService(j) /\ job[j].svc # s
        <3>1. job'[j] = IdleJob \/ job'[j].svc = job[j].svc
            BY <2>2 DEF FetchService, Finish, TypeOK, JobTypeOK, JobRow
        <3> QED
            BY <2>2, <3>1 DEF CarriedBy, Counting, At, IdleJob
    <2>3. CASE Probe(j)
        <3>1. /\ job'[j].pc = "log" /\ job'[j].svc = job[j].svc
              /\ job'[j].failures = job[j].failures /\ job[j].pc = "probe"
            BY <2>3 DEF Probe, At, TypeOK, JobTypeOK, JobRow
        <3> QED
            BY <1>1, <3>1 DEF Streak, CarriedBy, Counting, At
    <2>4. CASE Announce(j) \/ \E p \in Services : Enqueue(j, p)
        <3>1. job'[j] = IdleJob \/ \E p \in Services : job'[j] = QueuedJob(p, 1)
            BY <2>4 DEF Announce, Finish, Enqueue, TypeOK, JobTypeOK
        <3>2. job'[j].pc \in {"idle", "fetch"}
            BY <3>1, StoppedPc
        <3> QED
            BY <3>2 DEF CarriedBy, Counting, At
    <2> QED
        BY <2>1, <2>2, <2>3, <2>4
<1> QED
    BY <1>1, <1>2, <1>3, OneGoesOn

(* The check is logged.  A success leaves nothing carried but what crosses *)
(* it; a failure lengthens the streak by one, as it does the count.        *)
LEMMA LogStreak ==
    ASSUME TypeOK, Consistent, NEW s \in Services, Streak(s), ~Crossed(s)', NEW j \in Jobs,
           LogCheck(j)
    PROVE  Stored(s)' /\ \A k \in Jobs : CarriedBy(k, s)'
<1> PICK p \in Services : p = job[j].svc
    BY DEF LogCheck, At, Consistent, JobsConsistent, JobConsistent
<1> PICK outcome : outcome = job[j].outcome
    OBVIOUS
<1>1. /\ job'[j].pc = "window" /\ job'[j].svc = p /\ job'[j].failures = job[j].failures
      /\ job'[j].outcome = outcome /\ job[j].pc = "log"
      /\ \A k \in Jobs : k # j => job'[k] = job[k]
    BY DEF LogCheck, At, Goto, TypeOK, JobTypeOK, JobRow
<1>2. /\ checks'[p].failed = IF outcome = "up" THEN 0 ELSE Bump(checks[p].failed)
      /\ p # s => checks'[s] = checks[s]
      /\ UNCHANGED service
    BY DEF LogCheck, TypeOK, StoreTypeOK
<1>3. CASE p # s
    BY <1>1, <1>2, <1>3, ElsewhereStreak
<1>4. CASE p = s /\ outcome = "up"
    <2>1. Passed(j, s)'
        BY <1>1, <1>4 DEF Passed
    <2>2. ASSUME NEW k \in Jobs
          PROVE  CarriedBy(k, s)'
        <3>1. k # j => ~Carries(k, s)'
            BY <2>1 DEF Crossed
        <3> QED
            BY <1>1, <1>4, <3>1 DEF Carries, CarriedBy, Counting, At
    <2> QED
        BY <2>1, <2>2 DEF Stored
<1>5. CASE p = s /\ outcome # "up"
    <2>1. /\ checks'[s].failed = Bump(checks[s].failed)
          /\ checks[s].failed \in 0..MaxFailures /\ MaxFailures \in Nat
          /\ job[j].failures \in 0..MaxFailures
          /\ \A k \in Jobs : job[k].failures \in Nat /\ NewFailures(k) \in Nat
          /\ service[s].failures \in Nat
        BY <1>2, <1>5, CountsAreNat DEF TypeOK, StoreTypeOK, CheckLog, JobTypeOK, JobRow
    <2>2. checks[s].failed <= checks'[s].failed /\ checks'[s].failed \in Nat
        BY <2>1 DEF Bump
    <2>3. CarriedBy(j, s)'
        <3>1. job[j].failures <= checks[s].failed
            BY <1>1, <1>5 DEF Streak, CarriedBy
        <3>2. Bump(job[j].failures) <= Bump(checks[s].failed)
            BY <2>1, <3>1 DEF Bump
        <3>3. NewFailures(j)' = Bump(job[j].failures)
            BY <1>1 DEF NewFailures
        <3> QED
            BY <1>1, <2>1, <3>2, <3>3 DEF CarriedBy, At
    <2>4. ASSUME NEW k \in Jobs, k # j
          PROVE  CarriedBy(k, s)'
        <3>1. job'[k] = job[k] /\ NewFailures(k)' = NewFailures(k)
            BY <1>1, <2>4 DEF NewFailures, Bump
        <3>2. CarriedBy(k, s)
            BY DEF Streak
        <3> QED
            BY <2>1, <2>2, <3>1, <3>2 DEF CarriedBy, Counting, At
    <2>5. Stored(s)'
        <3>1. ~Passed(j, s)
            BY <1>1 DEF Passed
        <3>2. ASSUME NEW k \in Jobs, Passed(k, s)
              PROVE  Passed(k, s)'
            BY <1>1, <3>1, <3>2 DEF Passed
        <3>3. CASE service[s].failures <= checks[s].failed
            BY <1>2, <2>1, <2>2, <3>3 DEF Stored
        <3> QED
            BY <3>2, <3>3 DEF Streak, Stored
    <2> QED
        BY <2>3, <2>4, <2>5
<1> QED
    BY <1>3, <1>4, <1>5

(* The window is looked up; a success that finds one is dropped or marks.  *)
LEMMA FindWindowStreak ==
    ASSUME TypeOK, NEW s \in Services, Streak(s), ~Dropped(s), NEW j \in Jobs, FindWindow(j)
    PROVE  Stored(s)' /\ \A k \in Jobs : CarriedBy(k, s)'
<1>1. /\ UNCHANGED <<service, checks>> /\ job[j].pc = "window"
      /\ \A k \in Jobs : k # j => job'[k] = job[k]
    BY DEF FindWindow, storeVars, At, Goto, Finish, TypeOK, JobTypeOK
<1>2. \/ job'[j] = IdleJob
      \/ /\ job'[j].svc = job[j].svc /\ job'[j].failures = job[j].failures
         /\ job'[j].outcome = job[j].outcome
         /\ \/ job'[j].pc = "mark"
            \/ job'[j].pc = "recoverFind"
            \/ job'[j].pc = "failUpdate" /\ job[j].outcome # "up"
    BY DEF FindWindow, Goto, Finish, TypeOK, JobTypeOK, JobRow
<1>3. CASE job'[j] = IdleJob
    <2>1. job'[j].pc = "idle"
        BY <1>3 DEF IdleJob
    <2> QED
        BY <1>1, <2>1, StoppingStreak
<1>4. CASE job'[j] # IdleJob
    <2>1. Passed(j, s) => Passed(j, s)'
        BY <1>2, <1>4 DEF Passed
    <2>2. NewFailures(j)' = NewFailures(j)
        BY <1>2, <1>4 DEF NewFailures, Bump
    <2>3. CarriedBy(j, s)'
        BY <1>1, <1>2, <1>4, <2>2 DEF Streak, CarriedBy, Counting, At
    <2> QED
        BY <1>1, <2>1, <2>3, OneGoesOn
<1> QED
    BY <1>3, <1>4

(* The count is set to 0.                                                  *)
LEMMA ResetStreak ==
    ASSUME TypeOK, Consistent, NEW s \in Services, Streak(s), NEW j \in Jobs,
           MarkMaintenance(j) \/ RecoverCommit(j)
    PROVE  Stored(s)' /\ \A k \in Jobs : CarriedBy(k, s)'
<1> PICK p \in Services : p = job[j].svc
    BY DEF MarkMaintenance, RecoverCommit, At, Consistent, JobsConsistent, JobConsistent
<1>1. /\ UNCHANGED checks /\ service'[p].failures = 0
      /\ p # s => service'[s] = service[s]
    BY DEF MarkMaintenance, RecoverCommit, TypeOK, StoreTypeOK, ServiceRow
<1>2. /\ job'[j].pc = "idle" \/ (job'[j].pc = "announce" /\ job'[j].svc = p)
      /\ \A k \in Jobs : k # j => job'[k] = job[k]
    BY DEF MarkMaintenance, RecoverCommit, Goto, Finish, IdleJob, TypeOK, JobTypeOK, JobRow
<1>3. CASE p # s
    BY <1>1, <1>2, <1>3, ElsewhereStreak
<1>4. CASE p = s
    <2>1. Stored(s)'
        BY <1>1, <1>4, CountsAreNat DEF Stored
    <2>2. ASSUME NEW k \in Jobs
          PROVE  CarriedBy(k, s)'
        BY <1>1, <1>2 DEF Streak, CarriedBy, Counting, NewFailures, Bump, At
    <2> QED
        BY <2>1, <2>2
<1> QED
    BY <1>3, <1>4

LEMMA RecoveryStreak ==
    ASSUME TypeOK, NEW s \in Services, Streak(s), NEW j \in Jobs,
           RecoverFind(j) \/ RecoverLock(j)
    PROVE  Stored(s)' /\ \A k \in Jobs : CarriedBy(k, s)'
<1>1. UNCHANGED <<service, checks>> /\ \A k \in Jobs : k # j => job'[k] = job[k]
    BY DEF RecoverFind, RecoverLock, storeVars, rowVars, Goto, TypeOK, JobTypeOK
<1>2. /\ job'[j].pc \in {"recoverLock", "recoverCommit"} /\ job'[j].svc = job[j].svc
      /\ job'[j].outcome = job[j].outcome
    BY DEF RecoverFind, RecoverLock, Goto, TypeOK, JobTypeOK, JobRow
<1>3. (Passed(j, s) => Passed(j, s)') /\ CarriedBy(j, s)'
    BY <1>2 DEF Passed, CarriedBy, Counting, At
<1> QED
    BY <1>1, <1>3, OneGoesOn

LEMMA FailureReadsStreak ==
    ASSUME TypeOK, NEW s \in Services, Streak(s), NEW j \in Jobs,
           FailUpdate(j) \/ FailFind(j)
    PROVE  Stored(s)' /\ \A k \in Jobs : CarriedBy(k, s)'
<1>1. /\ UNCHANGED <<service, checks>> /\ Counting(j) /\ ~Passed(j, s)
      /\ \A k \in Jobs : k # j => job'[k] = job[k]
    BY DEF FailUpdate, FailFind, storeVars, rowVars, Counting, Passed, At, Goto, TypeOK, JobTypeOK
<1>2. /\ job'[j].pc \in {"failFind", "failCreate", "failEscalate", "failCommit"}
      /\ job'[j].svc = job[j].svc /\ job'[j].failures = job[j].failures
      /\ job'[j].pc = "failCreate" => NewFailures(j) >= IncidentThreshold
    <2>1. CASE FailUpdate(j)
        BY <2>1 DEF FailUpdate, Goto, TypeOK, JobTypeOK, JobRow
    <2>2. CASE FailFind(j)
        <3>1. CASE \/ Goto(j, "failCommit")
                   \/ Goto(j, "failCreate") /\ NewFailures(j) >= IncidentThreshold
            BY <3>1 DEF Goto, TypeOK, JobTypeOK, JobRow
        <3>2. ASSUME NEW i \in Incidents, NEW label \in {"failEscalate", "failCommit"},
                     job' = [job EXCEPT ![j].found = i, ![j].pc = label]
              PROVE  /\ job'[j].pc = label
                     /\ job'[j].svc = job[j].svc /\ job'[j].failures = job[j].failures
            BY <3>2 DEF TypeOK, JobTypeOK, JobRow
        <3>3. \/ Goto(j, "failCommit")
              \/ Goto(j, "failCreate") /\ NewFailures(j) >= IncidentThreshold
              \/ \E i \in Incidents, label \in {"failEscalate", "failCommit"} :
                    job' = [job EXCEPT ![j].found = i, ![j].pc = label]
            BY <2>2 DEF FailFind, Unresolved
        <3> QED
            BY <3>1, <3>2, <3>3
    <2> QED
        BY <2>1, <2>2
<1>3. NewFailures(j)' = NewFailures(j)
    BY <1>2 DEF NewFailures, Bump
<1>4. CarriedBy(j, s)'
    BY <1>1, <1>2, <1>3 DEF Streak, CarriedBy, Counting, At
<1> QED
    BY <1>1, <1>4, OneGoesOn

(* What was carried is stored.                                             *)
LEMMA FailureStreak ==
    ASSUME TypeOK, Consistent, NEW s \in Services, Streak(s), NEW j \in Jobs, Fails(j)
    PROVE  Stored(s)' /\ \A k \in Jobs : CarriedBy(k, s)'
<1> PICK p \in Services : p = job[j].svc
    BY DEF Fails, FailCreate, FailEscalate, FailCommit, At, Consistent, JobsConsistent,
           JobConsistent
<1> PICK n : n = NewFailures(j)
    OBVIOUS
<1>1. service' = [service EXCEPT ![p].status = NewServiceStatus(j), ![p].failures = n]
    BY DEF Fails, FailCreate, FailEscalate, FailCommit, CommitFailures
<1>2. /\ UNCHANGED checks /\ service'[p].failures = n
      /\ p # s => service'[s] = service[s]
    BY <1>1 DEF Fails, FailCreate, FailEscalate, FailCommit, TypeOK, StoreTypeOK, ServiceRow
<1>3. /\ job'[j].pc = "announce" /\ job'[j].svc = p
      /\ \A k \in Jobs : k # j => job'[k] = job[k]
    BY DEF Fails, FailCreate, FailEscalate, FailCommit, CommitFailures, Goto, TypeOK, JobTypeOK,
           JobRow
<1>4. CASE p # s
    BY <1>2, <1>3, <1>4, ElsewhereStreak
<1>5. CASE p = s
    <2>1. Counting(j)
        BY DEF Fails, FailCreate, FailEscalate, FailCommit, Counting, At
    <2>2. Stored(s)'
        BY <1>2, <1>5, <2>1 DEF Streak, CarriedBy, Stored
    <2>3. ASSUME NEW k \in Jobs
          PROVE  CarriedBy(k, s)'
        BY <1>2, <1>3 DEF Streak, CarriedBy, Counting, NewFailures, Bump, At
    <2> QED
        BY <2>2, <2>3
<1> QED
    BY <1>4, <1>5

(* An execution that throws or is aborted, and all of them when the worker *)
(* dies.                                                                   *)
LEMMA EndsStreak ==
    ASSUME TypeOK, NEW s \in Services, Streak(s), ~Dropped(s),
           \/ \E j \in Jobs : JobError(j) \/ AbortDeadlockedJob(j)
           \/ WorkerCrash
    PROVE  Stored(s)' /\ \A k \in Jobs : CarriedBy(k, s)'
<1>1. UNCHANGED <<service, checks>>
    BY DEF JobError, AbortDeadlockedJob, WorkerCrash, rowVars
<1>4. ASSUME NEW j \in Jobs, Abort(j), NEW k \in Jobs
      PROVE  job'[k] = job[k] \/ job'[k].pc \in {"idle", "fetch"}
    <2>1. job'[k] \in {job[k], IdleJob, QueuedJob(job[j].svc, job[j].attempt + 1)}
        BY <1>4 DEF Abort, Finish, TypeOK, JobTypeOK
    <2> QED
        BY <2>1, StoppedPc
<1>5. ASSUME WorkerCrash, NEW k \in Jobs
      PROVE  job'[k].pc \in {"idle", "fetch"}
    <2>1. job'[k] \in {IdleJob, QueuedJob(job[k].svc, job[k].attempt)}
        BY <1>5 DEF WorkerCrash
    <2> QED
        BY <2>1, StoppedPc
<1>6. \A k \in Jobs : job'[k] = job[k] \/ job'[k].pc \in {"idle", "fetch"}
    BY <1>4, <1>5 DEF JobError, AbortDeadlockedJob
<1> QED
    BY <1>1, <1>6, StoppingStreak

(* Statuses and flags of the service row are not counts.                   *)
LEMMA CountsElsewhere ==
    ASSUME TypeOK, Consistent, NEW s \in Services,
           \/ \E p \in Services : SetActive(p)
           \/ \E t \in Tickers : TransitionService(t)
           \/ \E r \in Requests : ResolveCommit(r)
    PROVE  service'[s].failures \in {service[s].failures, 0}
<1>1. ASSUME NEW p \in Services, SetActive(p)
      PROVE  service'[s].failures = service[s].failures
    BY <1>1 DEF SetActive, TypeOK, StoreTypeOK, ServiceRow
<1>2. ASSUME NEW t \in Tickers, TransitionService(t)
      PROVE  service'[s].failures = service[s].failures
    <2> PICK p : p = window[tick[t].cur].svc
        OBVIOUS
    <2> PICK status : status = tick[t].status
        OBVIOUS
    <2>1. service' = [service EXCEPT ![p] = [service[p] EXCEPT !.status = status]]
        BY <1>2 DEF TransitionService
    <2>2. s = p => [service[p] EXCEPT !.status = status].failures = service[s].failures
        BY DEF TypeOK, StoreTypeOK, ServiceRow
    <2> QED
        BY <2>1, <2>2 DEF TypeOK, StoreTypeOK
<1>3. ASSUME NEW r \in Requests, ResolveCommit(r)
      PROVE  service'[s].failures \in {service[s].failures, 0}
    <2> PICK p : p = incident[request[r].target].svc
        OBVIOUS
    <2> PICK status : status = IF request[r].newest = "up" THEN "up" ELSE "unknown"
        OBVIOUS
    <2> PICK after : after = [service[p] EXCEPT !.status = status, !.failures = 0]
        OBVIOUS
    <2>1. s = p => after.failures = 0
        BY DEF TypeOK, StoreTypeOK, ServiceRow
    <2>2. service' = [service EXCEPT ![p] = after]
        BY <1>3 DEF ResolveCommit
    <2> QED
        BY <2>1, <2>2 DEF TypeOK, StoreTypeOK
<1> QED
    BY <1>1, <1>2, <1>3

LEMMA JobStreakStep ==
    ASSUME TypeOK, Consistent, NEW s \in Services, Streak(s), ~Crossed(s)', ~Dropped(s),
           NEW j \in Jobs, JobStep(j)
    PROVE  Stored(s)' /\ \A k \in Jobs : CarriedBy(k, s)'
BY ReadsStreak, LogStreak, FindWindowStreak, ResetStreak, RecoveryStreak, FailureReadsStreak,
   FailureStreak DEF JobStep, Fails

LEMMA SteadyStep ==
    ASSUME TypeOK, Consistent, NEW s \in Services, Streak(s), ~Crossed(s)', ~Dropped(s),
           [Next]_vars
    PROVE  Streak(s)'
<1> DEFINE Goal == Stored(s)' /\ \A k \in Jobs : CarriedBy(k, s)'
<1> SUFFICES Goal
    BY DEF Streak
<1>0. UNCHANGED <<job, checks, service>> => Goal
    BY OthersKeepStreak
<1>1. CASE HealthCheckNext
    <2>1. ASSUME NEW p \in Services, SetActive(p)
          PROVE  Goal
        <3>1. UNCHANGED <<job, checks>>
            BY <2>1 DEF SetActive, jobVars
        <3> QED
            BY <2>1, <3>1, CountsElsewhere, OthersKeepStreak
    <2>2. ASSUME NEW p \in Services, TargetFlips(p)
          PROVE  Goal
        BY <1>0, <2>2 DEF TargetFlips, storeVars
    <2> QED
        BY <1>1, <2>1, <2>2, JobStreakStep, ReadsStreak, EndsStreak DEF HealthCheckNext
<1>2. CASE IncidentApiNext /\ UNCHANGED <<jobVars, tickVars>>
    <2>1. UNCHANGED <<job, checks>>
        BY <1>2 DEF IncidentApiNext, RequestStep, Submit, ReadExisting, CheckToken, WriteFields,
           LockForResolve, ReadNewestCheck, ResolveCommit, RequestError, jobVars, storeVars, rowVars
    <2>2. UNCHANGED service \/ \E r \in Requests : ResolveCommit(r)
        BY <1>2 DEF IncidentApiNext, RequestStep, Submit, ReadExisting, CheckToken, WriteFields,
           LockForResolve, ReadNewestCheck, RequestError, storeVars, rowVars
    <2> QED
        BY <1>0, <2>1, <2>2, CountsElsewhere, OthersKeepStreak
<1>3. CASE MaintenanceNext /\ UNCHANGED <<jobVars, request>>
    <2>1. UNCHANGED checks /\ (UNCHANGED service \/ \E t \in Tickers : TransitionService(t))
        <3>1. ASSUME NEW t \in Tickers, TickStep(t) \/ TickError(t)
              PROVE  UNCHANGED checks /\ (UNCHANGED service \/ TransitionService(t))
            <4>1. CASE FindToStart(t) \/ FindToComplete(t) \/ EndTick(t) \/ TickError(t)
                BY <4>1 DEF FindToStart, FindToComplete, EndTick, TickError, storeVars, rowVars
            <4>2. CASE \E w \in Windows : Transition(t, w)
                BY <4>2 DEF Transition
            <4>3. CASE TransitionService(t)
                BY <4>3 DEF TransitionService
            <4> QED
                BY <3>1, <4>1, <4>2, <4>3 DEF TickStep
        <3>2. WindowApiNext => UNCHANGED <<checks, service>>
            BY DEF WindowApiNext, CreateWindow, ReadWindow, WriteWindow, RemoveWindow,
                   ClockPasses, storeVars
        <3> QED
            BY <1>3, <3>1, <3>2 DEF MaintenanceNext
    <2>2. UNCHANGED job
        BY <1>3 DEF jobVars
    <2> QED
        BY <1>0, <2>1, <2>2, CountsElsewhere, OthersKeepStreak
<1>4. CASE BreakDeadlock
    <2>1. ASSUME NEW r \in Requests, AbortDeadlockedRequest(r), UNCHANGED <<jobVars, tickVars>>
          PROVE  Goal
        BY <1>0, <2>1 DEF AbortDeadlockedRequest, rowVars, jobVars
    <2> QED
        BY <1>4, <2>1, EndsStreak DEF BreakDeadlock
<1>5. CASE Crash
    BY <1>5, EndsStreak DEF Crash
<1>6. CASE UNCHANGED vars
    BY <1>0, <1>6 DEF vars, storeVars, jobVars
<1> QED
    BY <1>1, <1>2, <1>3, <1>4, <1>5, <1>6 DEF Next

(* A service at rest is steady, whatever it was before.                    *)
LEMMA StreakStep ==
    ASSUME TypeOK, Consistent, TypeOK', StreakInv, [StreakNext]_<<vars, unsteady>>
    PROVE  StreakInv'
<1>1. CASE StreakNext
    <2> SUFFICES ASSUME NEW s \in Services, s \notin unsteady'
                 PROVE  Streak(s)'
        BY DEF StreakInv
    <2>1. Rests(s)' \/ (s \notin unsteady /\ ~Dropped(s) /\ ~Crossed(s)')
        BY <1>1 DEF StreakNext
    <2>2. CASE Rests(s)'
        <3>1. service'[s].failures = 0 /\ checks'[s].failed \in Nat
            BY <2>2 DEF Rests, TypeOK, StoreTypeOK, CheckLog
        <3>2. \A j \in Jobs : ~Carries(j, s)'
            BY <2>2 DEF Rests
        <3> QED
            BY <3>1, <3>2 DEF Streak, Stored, CarriedBy, Counting, Crossed, Carries, At
    <2>3. CASE s \notin unsteady /\ ~Dropped(s) /\ ~Crossed(s)'
        BY <1>1, <2>3, SteadyStep DEF StreakInv, StreakNext
    <2> QED
        BY <2>1, <2>2, <2>3
<1>2. CASE UNCHANGED <<vars, unsteady>>
    <2> SUFFICES ASSUME NEW s \in Services, s \notin unsteady
                 PROVE  Streak(s)'
        BY <1>2 DEF StreakInv
    <2>1. Streak(s) /\ ~Crossed(s) /\ UNCHANGED job
        BY <1>2 DEF StreakInv, Streak, vars, jobVars
    <2>2. ~Crossed(s)' /\ ~Dropped(s)
        BY <2>1 DEF Crossed, Dropped, Passed, Carries
    <2> QED
        BY <1>2, <2>1, <2>2, SteadyStep
<1> QED
    BY <1>1, <1>2

(* Only a failure transaction opens an incident, for its own service.      *)
LEMMA OpenedByFailure ==
    ASSUME TypeOK, Consistent, [Next]_vars, NEW i \in Incidents,
           incident[i].status = "none", incident'[i].status # "none"
    PROVE  \E j \in Jobs : FailCreate(j) /\ incident'[i].svc = job[j].svc
<1>0. ~Used(i)
    BY DEF Used
<1>1. ASSUME NEW j \in Jobs, RecoverCommit(j) \/ FailEscalate(j)
      PROVE  FALSE
    <2> PICK k : k = job[j].found
        OBVIOUS
    <2>1. k # i
        BY <1>0, <1>1, OwnerAssumption DEF RecoverCommit, FailEscalate, At, Consistent,
           JobsConsistent, JobConsistent
    <2>2. incident'[i] = incident[i]
        BY <1>1, <2>1 DEF RecoverCommit, FailEscalate, TypeOK, StoreTypeOK
    <2> QED
        BY <2>2
<1>2. ASSUME NEW r \in Requests, WriteFields(r) \/ ResolveCommit(r)
      PROVE  FALSE
    <2> PICK k : k = request[r].target
        OBVIOUS
    <2>1. k # i
        BY <1>0, <1>2 DEF WriteFields, ResolveCommit, Serving, Answered, Consistent,
           RequestsConsistent, RequestConsistent
    <2>2. incident'[i] = incident[i]
        BY <1>2, <2>1 DEF WriteFields, ResolveCommit, TypeOK, StoreTypeOK
    <2> QED
        BY <2>2
<1>3. ASSUME NEW j \in Jobs, FailCreate(j)
      PROVE  incident'[i].svc = job[j].svc
    <2>1. PICK k \in Unused, severity \in {"critical", "high"} :
            incident' = [incident EXCEPT ![k] =
              [svc |-> job[j].svc, status |-> "open", severity |-> severity,
               resolvedAt |-> FALSE, version |-> 1]]
        BY <1>3 DEF FailCreate
    <2> QED
        BY <2>1 DEF TypeOK, StoreTypeOK
<1> QED
    BY <1>1, <1>2, <1>3, IncidentWriters

(* An incident opens only after the configured number of consecutive       *)
(* failed checks, unless a check that passed overlapped another one or     *)
(* ended without setting the count to 0: however executions of one service *)
(* overlap and fail, and whatever clients, windows and ticker runs do.     *)
THEOREM StreakBeforeIncident == StreakSpec => IncidentNeedsStreak
<1>1. StreakInit => Init /\ StreakInv
    BY DEF StreakInit, StreakInv, Init, StoreInit, JobInit, IdleJob, Streak, Stored, CarriedBy,
        Counting, Crossed, Passed, At
<1>2. [StreakNext]_<<vars, unsteady>> => [Next]_vars
    BY DEF StreakNext
<1>3. TypeOK /\ Consistent /\ TypeOK' /\ StreakInv /\ [StreakNext]_<<vars, unsteady>> => StreakInv'
    BY StreakStep
<1>4. ASSUME TypeOK, Consistent, StreakInv, [Next]_vars
      PROVE  [\A i \in Incidents :
                incident[i].status = "none" /\ incident'[i].status # "none"
                    => \/ checks[incident'[i].svc].failed >= IncidentThreshold
                       \/ incident'[i].svc \in unsteady]_incident
    <2> SUFFICES ASSUME NEW i \in Incidents, incident[i].status = "none",
                        incident'[i].status # "none", incident'[i].svc \notin unsteady
                 PROVE  checks[incident'[i].svc].failed >= IncidentThreshold
        OBVIOUS
    <2>1. PICK j \in Jobs : FailCreate(j) /\ incident'[i].svc = job[j].svc
        BY <1>4, OpenedByFailure
    <2>2. job[j].svc \in Services
        BY <1>4, <2>1 DEF FailCreate, At, Consistent, JobsConsistent, JobConsistent
    <2>3. /\ NewFailures(j) >= IncidentThreshold
          /\ NewFailures(j) <= checks[job[j].svc].failed
        BY <1>4, <2>1, <2>2 DEF FailCreate, At, StreakInv, Streak, CarriedBy, Counting
    <2> QED
        BY <1>4, <2>1, <2>2, <2>3, CountsAreNat
<1>5. StreakSpec => Spec
    BY <1>1, <1>2, PTL DEF StreakSpec, Spec
<1> QED
    BY <1>1, <1>2, <1>3, <1>4, <1>5, Invariance, PTL DEF StreakSpec, IncidentNeedsStreak
=============================================================================

----------------------------- MODULE IncidentApi -----------------------------
(***************************************************************************)
(* PATCH /incidents/:id and POST /incidents/:id/acknowledge:               *)
(* IncidentService.updateIncident and acknowledgeIncident over             *)
(* IncidentRepository.updateWithTimelineAndService.  A request reads the   *)
(* incident, decides what to change, and then runs a transaction that      *)
(* checks the client's version token, updates the incident row and, when   *)
(* it resolves the incident, resets the service.                           *)
(*                                                                         *)
(* A comment (addComment) only appends to the timeline, which is not       *)
(* modelled.  Storing an AI summary (aiSummaryService) updates the row as  *)
(* a request without a token that changes no field read here.              *)
(***************************************************************************)
EXTENDS MonitorStore

CONSTANT Updates        \* the request bodies clients may send

(* "keep" is an absent field.  other stands for the fields no other part   *)
(* reads: assignee, title, notes, and the acknowledgement columns.         *)
UpdateBody == [status: IncidentStatus \cup {"keep"},
               severity: IncidentSeverity \cup {"keep"},
               other: BOOLEAN]

ASSUME UpdateAssumption == Updates \subseteq UpdateBody

VARIABLE request        \* request[r]: a request and what it has read

RequestPc == {
    "new",              \* next: Submit
    "read",             \* next: ReadExisting
    "check",            \* next: CheckToken
    "write",            \* next: WriteFields, LockForResolve
    "newest",           \* next: ReadNewestCheck
    "reset",            \* next: ResolveCommit
    "saved",            \* answered: the change is committed
    "closed"}           \* answered: nothing to change, a conflict, or an error

(* change is updateData; newest is the outcome of the last health check.   *)
RequestRow == [pc: RequestPc, target: Incidents \cup {Nobody},
               change: UpdateBody, token: Nat,
               newest: {"none", "up", "down"}]

NoChange == [status |-> "keep", severity |-> "keep", other |-> FALSE]

NewRequest == [pc |-> "new", target |-> Nobody, change |-> NoChange, token |-> 0,
               newest |-> "none"]

RequestTypeOK == request \in [Requests -> RequestRow]

RequestInit == request = [r \in Requests |-> NewRequest]

Serving(r, label) == request[r].pc = label
Proceed(r, label) == request' = [request EXCEPT ![r].pc = label]
Reply(r, answer) == request' = [request EXCEPT ![r] = [NewRequest EXCEPT !.pc = answer]]

(* A client that has the incident on its screen sends a body, with the     *)
(* updatedAt it has seen as the token, or with none (0).                   *)
Submit(r) ==
    /\ Serving(r, "new")
    /\ \E i \in Incidents \ Unused, body \in Updates, withToken \in BOOLEAN :
          request' = [request EXCEPT ![r] =
              [NewRequest EXCEPT !.pc = "read", !.target = i, !.change = body,
                                 !.token = IF withToken THEN incident[i].version ELSE 0]]
    /\ UNCHANGED storeVars

(* A field enters updateData only where it differs from the row just read; *)
(* the transaction will not compare it again.                              *)
Changed(body, row) ==
    [body EXCEPT !.status = IF @ = row.status THEN "keep" ELSE @,
                 !.severity = IF @ = row.severity THEN "keep" ELSE @]

ReadExisting(r) ==
    LET change == Changed(request[r].change, incident[request[r].target]) IN
    /\ Serving(r, "read")
    /\ IF change = NoChange
       THEN Reply(r, "closed")
       ELSE request' = [request EXCEPT ![r].change = change, ![r].pc = "check"]
    /\ UNCHANGED storeVars

(* SELECT updatedAt, compared in the process: no row lock is taken.        *)
CheckToken(r) ==
    /\ Serving(r, "check")
    /\ IF request[r].token \in {0, incident[request[r].target].version}
       THEN Proceed(r, "write")
       ELSE Reply(r, "closed")
    /\ UNCHANGED storeVars

(* Mutant of Merged: reopening an incident clears resolvedAt.              *)
MergedForgetting(row, change) ==
    [row EXCEPT !.status = IF change.status = "keep" THEN @ ELSE change.status,
                !.severity = IF change.severity = "keep" THEN @ ELSE change.severity,
                !.resolvedAt = (@ /\ change.status = "keep") \/ change.status = "resolved",
                !.version = @ + 1]

Merged(row, change) ==
    [row EXCEPT !.status = IF change.status = "keep" THEN @ ELSE change.status,
                !.severity = IF change.severity = "keep" THEN @ ELSE change.severity,
                !.resolvedAt = @ \/ change.status = "resolved",
                !.version = @ + 1]

(* UPDATE ... WHERE id, organizationId: no condition on updatedAt.  An     *)
(* update that does not resolve commits at once.                           *)
WriteFields(r) ==
    LET i == request[r].target IN
    /\ Serving(r, "write")
    /\ request[r].change.status # "resolved"
    /\ incidentLock[i] = Nobody
    /\ incident' = [incident EXCEPT ![i] = Merged(@, request[r].change)]
    /\ Reply(r, "saved")
    /\ UNCHANGED <<service, checks, window, lockVars, faults>>

LockForResolve(r) ==
    LET i == request[r].target IN
    /\ Serving(r, "write")
    /\ request[r].change.status = "resolved"
    /\ incidentLock[i] = Nobody
    /\ incidentLock' = [incidentLock EXCEPT ![i] = r]
    /\ Proceed(r, "newest")
    /\ UNCHANGED <<rowVars, serviceLock, faults>>

ReadNewestCheck(r) ==
    /\ Serving(r, "newest")
    /\ request' = [request EXCEPT ![r].pc = "reset",
                        ![r].newest = checks[incident[request[r].target].svc].newest]
    /\ UNCHANGED storeVars

(* Mutant of ResolveCommit: the service is not reset.                      *)
ResolveCommitIncidentOnly(r) ==
    /\ Serving(r, "reset")
    /\ incident' = [incident EXCEPT ![request[r].target] = Merged(@, request[r].change)]
    /\ Release(r)
    /\ Reply(r, "saved")
    /\ UNCHANGED <<service, checks, window, faults>>

ResolveCommit(r) ==
    LET i == request[r].target
        s == incident[i].svc IN
    /\ Serving(r, "reset")
    /\ serviceLock[s] = Nobody
    /\ incident' = [incident EXCEPT ![i] = Merged(@, request[r].change)]
    /\ service' = [service EXCEPT
            ![s].status = IF request[r].newest = "up" THEN "up" ELSE "unknown",
            ![s].failures = 0]
    /\ Release(r)
    /\ Reply(r, "saved")
    /\ UNCHANGED <<checks, window, faults>>

(* Mutant of Rollback: the failed transaction is left open.                *)
RollbackKeepingLocks(r) ==
    /\ UNCHANGED lockVars
    /\ Reply(r, "closed")

(* The transaction is rolled back and the client gets an error.            *)
Rollback(r) ==
    /\ Release(r)
    /\ Reply(r, "closed")

Answered(r) == request[r].pc \in {"saved", "closed"}

RequestError(r) ==
    /\ ~Serving(r, "new") /\ ~Answered(r)
    /\ Fault
    /\ Rollback(r)
    /\ UNCHANGED rowVars

RequestAwaitsService(r, s) == Serving(r, "reset") /\ incident[request[r].target].svc = s

RequestStep(r) ==
    \/ ReadExisting(r) \/ CheckToken(r) \/ WriteFields(r)
    \/ LockForResolve(r) \/ ReadNewestCheck(r) \/ ResolveCommit(r)

IncidentApiNext == \E r \in Requests : Submit(r) \/ RequestStep(r) \/ RequestError(r)
=============================================================================

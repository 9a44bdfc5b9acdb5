----------------------------- MODULE IssueIngest -----------------------------
(***************************************************************************)
(* The ingest queue's processor (backend/worker/processors/                *)
(* ingest.processor.js): an accepted error event is counted on the issue   *)
(* of its fingerprint, stored, and announced.  The three are separate      *)
(* transactions, ten executions overlap, an error runs an event again from *)
(* the first one, and users resolve or ignore issues meanwhile.            *)
(*                                                                         *)
(* Every statement that writes an issue is the last of its transaction and *)
(* so commits with it.  Nothing in the code sets resolvedInRelease, so an  *)
(* event regresses an issue exactly when it finds it resolved.  Alert      *)
(* rules are evaluated in the step "alerts", whose errors are swallowed.   *)
(***************************************************************************)
EXTENDS Naturals, FiniteSets

CONSTANTS
    Events,             \* events the ingest endpoint accepts
    Issues,             \* fingerprints (with project and environment)
    Users,
    NoUser,             \* the user of an event without user context
    IssueOf,            \* IssueOf[e]: the fingerprint of e
    UserOf,             \* UserOf[e]: the user of e
    Edits,              \* PATCH /issues/:id requests
    MaxFaults           \* bound: injected errors and crashes

ASSUME EventAssumption ==
    /\ IssueOf \in [Events -> Issues]
    /\ UserOf \in [Events -> Users \cup {NoUser}]
    /\ NoUser \notin Users
    /\ IsFiniteSet(Events)
    /\ MaxFaults \in Nat

VARIABLES
    issue,              \* issue[k]: the row of k, "none" until it is created
    stored,             \* the error_events rows
    ingest,             \* ingest[e]: the job of e and what it has read
    broadcasts,         \* broadcasts[e]: events published by the job of e
    edit,               \* edit[r]: a request and what it is about to write
    faults

vars == <<issue, stored, ingest, broadcasts, edit, faults>>

TwoAttempts == 2        \* mutant of MaxAttempts

MaxAttempts == 3        \* defaultJobOptions.attempts of the queue

IssueStatus == {"unresolved", "resolved", "ignored"}

IssueRow == [status: IssueStatus \cup {"none"}, eventCount: Nat, userCount: Nat]

NoIssue == [status |-> "none", eventCount |-> 0, userCount |-> 0]

JobPc == {
    "absent",           \* next: Accept
    "find",             \* next: FindIssue
    "create",           \* next: CreateIssue
    "update",           \* next: UpdateIssue
    "store",            \* next: StoreEvent
    "count",            \* next: CountUsers
    "users",            \* next: WriteUserCount
    "broadcast",        \* next: Broadcast
    "alerts",           \* next: Finish
    "done",
    "failed"}

(* verdict is what upsertFromEvent returned; seen the status it read.      *)
JobRow == [pc: JobPc, attempt: 1..MaxAttempts, stalled: BOOLEAN,
           seen: IssueStatus \cup {"none"},
           verdict: {"none", "new", "regression", "ignored", "known"},
           users: Nat]

Run(label, attempt, stalled) ==
    [pc |-> label, attempt |-> attempt, stalled |-> stalled,
     seen |-> "none", verdict |-> "none", users |-> 0]

Idle(label) == Run(label, 1, FALSE)

EditRow == [pc: {"new", "write", "closed"}, target: Issues, status: IssueStatus]
           \cup {[pc |-> "new"]}

TypeOK ==
    /\ issue \in [Issues -> IssueRow]
    /\ stored \subseteq Events
    /\ ingest \in [Events -> JobRow]
    /\ broadcasts \in [Events -> [created: Nat, regression: Nat]]
    /\ edit \in [Edits -> EditRow]
    /\ faults \in 0..MaxFaults

Init ==
    /\ issue = [k \in Issues |-> NoIssue]
    /\ stored = {}
    /\ ingest = [e \in Events |-> Idle("absent")]
    /\ broadcasts = [e \in Events |-> [created |-> 0, regression |-> 0]]
    /\ edit = [r \in Edits |-> [pc |-> "new"]]
    /\ faults = 0

At(e, label) == ingest[e].pc = label
Goto(e, label) == ingest' = [ingest EXCEPT ![e].pc = label]
Running(e) == ingest[e].pc \notin {"absent", "done", "failed"}

-----------------------------------------------------------------------------
(* Failure of an execution.                                                *)

(* Every run starts at the first line: nothing that was read is kept.      *)
(* Mutant of Throw: one run too many.                                      *)
ThrowOnceMore(e) ==
    ingest' = [ingest EXCEPT ![e] =
        IF @.attempt <= MaxAttempts THEN Run("find", @.attempt + 1, @.stalled)
        ELSE Idle("failed")]

(* A throw: the queue runs the job again, up to MaxAttempts times.         *)
Throw(e) ==
    ingest' = [ingest EXCEPT ![e] =
        IF @.attempt < MaxAttempts THEN Run("find", @.attempt + 1, @.stalled)
        ELSE Idle("failed")]

-----------------------------------------------------------------------------
(* The processor.                                                          *)

Accept(e) ==
    /\ At(e, "absent")
    /\ Goto(e, "find")
    /\ UNCHANGED <<issue, stored, broadcasts, edit, faults>>

(* upsertFromEvent: SELECT by the unique key, without a lock.              *)
FindIssue(e) ==
    LET status == issue[IssueOf[e]].status IN
    /\ At(e, "find")
    /\ ingest' = [ingest EXCEPT
            ![e].seen = status,
            ![e].pc = IF status = "none" THEN "create" ELSE "update"]
    /\ UNCHANGED <<issue, stored, broadcasts, edit, faults>>

(* Mutants of CreateIssue: a lost race is taken as success; the INSERT is  *)
(* tried again until it succeeds.                                          *)
CreateIssueUnlessPresent(e) ==
    LET k == IssueOf[e] IN
    /\ At(e, "create")
    /\ issue' = IF issue[k].status # "none" THEN issue
                ELSE [issue EXCEPT ![k] =
                    [status |-> "unresolved", eventCount |-> 1,
                     userCount |-> IF UserOf[e] = NoUser THEN 0 ELSE 1]]
    /\ ingest' = [ingest EXCEPT ![e].verdict = "new", ![e].pc = "store"]
    /\ UNCHANGED <<stored, broadcasts, edit, faults>>

CreateIssueUntilDone(e) ==
    LET k == IssueOf[e] IN
    /\ At(e, "create")
    /\ IF issue[k].status = "none"
       THEN /\ issue' = [issue EXCEPT ![k] =
                    [status |-> "unresolved", eventCount |-> 1,
                     userCount |-> IF UserOf[e] = NoUser THEN 0 ELSE 1]]
            /\ ingest' = [ingest EXCEPT ![e].verdict = "new", ![e].pc = "store"]
       ELSE UNCHANGED <<issue, ingest>>
    /\ UNCHANGED <<stored, broadcasts, edit, faults>>

(* INSERT: the unique key turns a lost race into an error.                 *)
CreateIssue(e) ==
    LET k == IssueOf[e] IN
    /\ At(e, "create")
    /\ IF issue[k].status = "none"
       THEN /\ issue' = [issue EXCEPT ![k] =
                    [status |-> "unresolved", eventCount |-> 1,
                     userCount |-> IF UserOf[e] = NoUser THEN 0 ELSE 1]]
            /\ ingest' = [ingest EXCEPT ![e].verdict = "new", ![e].pc = "store"]
       ELSE /\ Throw(e)
            /\ UNCHANGED issue
    /\ UNCHANGED <<stored, broadcasts, edit, faults>>

Verdict(status) ==
    CASE status = "resolved" -> "regression"
      [] status = "ignored" -> "ignored"
      [] OTHER -> "known"

(* UPDATE with an atomic increment; the status written is decided by the   *)
(* one that was read.                                                      *)
UpdateIssue(e) ==
    LET verdict == Verdict(ingest[e].seen) IN
    /\ At(e, "update")
    /\ issue' = [issue EXCEPT
            ![IssueOf[e]].eventCount = @ + 1,
            ![IssueOf[e]].status = IF verdict = "regression" THEN "unresolved" ELSE @]
    /\ ingest' = [ingest EXCEPT ![e].verdict = verdict, ![e].pc = "store"]
    /\ UNCHANGED <<stored, broadcasts, edit, faults>>

(* Mutant of StoreEvent: an event that is stored already is passed over.   *)
StoreEventUnlessPresent(e) ==
    /\ At(e, "store")
    /\ Goto(e, IF UserOf[e] = NoUser THEN "broadcast" ELSE "count")
    /\ stored' = stored \cup {e}
    /\ UNCHANGED <<issue, broadcasts, edit, faults>>

(* The event's own id is the row's key: storing it twice is an error.      *)
StoreEvent(e) ==
    /\ At(e, "store")
    /\ IF e \in stored
       THEN Throw(e)
       ELSE Goto(e, IF UserOf[e] = NoUser THEN "broadcast" ELSE "count")
    /\ stored' = stored \cup {e}
    /\ UNCHANGED <<issue, broadcasts, edit, faults>>

UsersOf(k) == {UserOf[e] : e \in {f \in stored : IssueOf[f] = k}} \ {NoUser}

CountUsers(e) ==
    /\ At(e, "count")
    /\ ingest' = [ingest EXCEPT ![e].users = Cardinality(UsersOf(IssueOf[e])),
                                ![e].pc = "users"]
    /\ UNCHANGED <<issue, stored, broadcasts, edit, faults>>

WriteUserCount(e) ==
    /\ At(e, "users")
    /\ issue' = [issue EXCEPT ![IssueOf[e]].userCount = ingest[e].users]
    /\ Goto(e, "broadcast")
    /\ UNCHANGED <<stored, broadcasts, edit, faults>>

Broadcast(e) ==
    /\ At(e, "broadcast")
    /\ broadcasts' = [broadcasts EXCEPT
            ![e].created = IF ingest[e].verdict = "new" THEN @ + 1 ELSE @,
            ![e].regression = IF ingest[e].verdict = "regression" THEN @ + 1 ELSE @]
    /\ Goto(e, "alerts")
    /\ UNCHANGED <<issue, stored, edit, faults>>

Finish(e) ==
    /\ At(e, "alerts")
    /\ ingest' = [ingest EXCEPT ![e] = Idle("done")]
    /\ UNCHANGED <<issue, stored, broadcasts, edit, faults>>

Fault ==
    /\ faults < MaxFaults
    /\ faults' = faults + 1

(* A statement fails.  Publishing is not awaited, and an error of the      *)
(* alert rules is only logged.                                             *)
JobError(e) ==
    /\ Running(e) /\ ingest[e].pc \notin {"broadcast", "alerts"}
    /\ Fault
    /\ Throw(e)
    /\ UNCHANGED <<issue, stored, broadcasts, edit>>

(* The worker dies.  The queue hands a stalled job out once more, without  *)
(* counting an attempt, and fails it when it stalls again.                 *)
WorkerCrash ==
    /\ Fault
    /\ ingest' = [e \in Events |->
            IF ~Running(e) THEN ingest[e]
            ELSE IF ingest[e].stalled THEN Idle("failed")
            ELSE Run("find", ingest[e].attempt, TRUE)]
    /\ UNCHANGED <<issue, stored, broadcasts, edit>>

-----------------------------------------------------------------------------
(* IssueService.updateIssue.                                               *)

(* The row is read, the client's token compared, and a body that asks for  *)
(* the status already there is answered at once.  A stale token is refused *)
(* here, which leaves the row as a request never sent.                     *)
ReadIssue(r) ==
    /\ edit[r].pc = "new"
    /\ \E k \in Issues, status \in IssueStatus :
          /\ issue[k].status \notin {"none", status}
          /\ edit' = [edit EXCEPT ![r] = [pc |-> "write", target |-> k, status |-> status]]
    /\ UNCHANGED <<issue, stored, ingest, broadcasts, faults>>

(* The UPDATE names neither the status nor the token that were read.       *)
WriteIssue(r) ==
    /\ edit[r].pc = "write"
    /\ issue' = [issue EXCEPT ![edit[r].target].status = edit[r].status]
    /\ edit' = [edit EXCEPT ![r].pc = "closed"]
    /\ UNCHANGED <<stored, ingest, broadcasts, faults>>

-----------------------------------------------------------------------------
IngestStep(e) ==
    \/ FindIssue(e) \/ CreateIssue(e) \/ UpdateIssue(e) \/ StoreEvent(e)
    \/ CountUsers(e) \/ WriteUserCount(e) \/ Broadcast(e) \/ Finish(e)

Next ==
    \/ \E e \in Events : Accept(e) \/ IngestStep(e) \/ JobError(e)
    \/ \E r \in Edits : ReadIssue(r) \/ WriteIssue(r)
    \/ WorkerCrash

Spec == Init /\ [][Next]_vars

(* The worker keeps running the jobs it holds.                             *)
FairSpec == Spec /\ \A e \in Events : WF_vars(IngestStep(e))

-----------------------------------------------------------------------------
EventsOf(k) == {e \in Events : IssueOf[e] = k}

(* Counted by this execution, not stored by it yet.                        *)
Pending == {e \in Events : At(e, "store")}

(* An issue's count never misses an event that was stored or is about to   *)
(* be; and until something fails it is exact, although executions that     *)
(* lose the race to create the issue run twice (issue.repository.js,       *)
(* upsertFromEvent).                                                       *)
CountCovers ==
    \A k \in Issues :
        LET counted == Cardinality(EventsOf(k) \cap (stored \cup Pending)) IN
        /\ issue[k].eventCount >= counted
        /\ faults = 0 => issue[k].eventCount = counted

(* Three attempts are enough for the race and one fault together: with at  *)
(* most one error or crash, every accepted event ends up stored.           *)
SurvivesOneFault ==
    faults <= 1 => \A e \in Events : ingest[e].pc \in {"done", "failed"} => e \in stored

(* However often it is run, an event announces at most one thing, and at   *)
(* most one event announces the creation of an issue: the stored event's   *)
(* key stops a second run before it publishes (ingest.processor.js).       *)
AnnouncedOnce ==
    /\ \A e \in Events : broadcasts[e].created + broadcasts[e].regression <= 1
    /\ \A e, f \in Events :
          /\ IssueOf[e] = IssueOf[f]
          /\ broadcasts[e].created > 0 /\ broadcasts[f].created > 0
          => e = f

(* Every accepted event is done or failed in the end: no duplicate key     *)
(* makes the queue retry for ever.                                         *)
EventsSettle == \A e \in Events : Running(e) ~> ingest[e].pc \in {"done", "failed"}
=============================================================================

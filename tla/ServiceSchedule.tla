--------------------------- MODULE ServiceSchedule ---------------------------
(***************************************************************************)
(* Services and the repeating jobs that check them.  A request on services *)
(* (backend/src/services/monitoringService.js) writes the rows in          *)
(* PostgreSQL and registers or removes their jobs in Redis                 *)
(* (backend/src/config/queue.js) in separate steps, in an order that       *)
(* depends on the operation, and swallows every error of the second.  The  *)
(* worker registers all active services when it starts                     *)
(* (backend/worker/worker.js).  The demo data                              *)
(* (backend/src/services/demoService.js) are services whose rows are       *)
(* written and removed with no regard for jobs.                            *)
(*                                                                         *)
(* Left out: the fields that do not decide what is scheduled, tags, groups *)
(* and the secrets' masking.  A request that works on one service is the   *)
(* bulk request on a singleton wherever the code does the same.            *)
(***************************************************************************)
EXTENDS Integers, FiniteSets, Sequences

CONSTANTS
    Services,           \* identities of services; one is never used twice
    Requests,           \* API requests that may be in flight at once
    Boot,               \* the worker's start
    Intervals,          \* values of checkIntervalSeconds
    DefaultInterval,    \* what the schema gives a row that names none (60)
    MonitorQuota,       \* services an organization may have (20)
    MaxFaults,          \* failed Redis commands and aborted requests
    Nobody

Callers == Requests \cup {Boot}

ASSUME ScheduleAssumption ==
    /\ Boot \notin Requests
    /\ Nobody \notin Services
    /\ DefaultInterval \in Intervals
    /\ MonitorQuota \in Nat /\ MaxFaults \in Nat

VARIABLES
    row,                \* row[s]: does the service exist, is it active, its interval
    repeat,             \* the repeatable jobs in Redis: <<service, interval>>
    demo,               \* the services of the demo data, isDemo
    call,               \* call[c]: where a request is and what it has read
    faults,             \* faults so far
    disturbed,          \* services on which calls have overlapped or failed
    blurred             \* services on which an update has overlapped another
                        \* call, or a call has failed, or that the demo data
                        \* brought or took, since the last call that had them
                        \* for itself
vars == <<row, repeat, demo, call, faults, disturbed, blurred>>

UnscheduleFirst == {"pause", "delete"}
WriteFirst == {"create", "resume", "interval", "update", "seed"}
Operations == UnscheduleFirst \cup WriteFirst \cup {"boot"}
Phases == {"unschedule", "register"}

Row == [state: {"none", "active", "paused", "gone"}, every: Intervals]

(* scope: the services the call works on; left: those its loop has not     *)
(* come to; jobs: what it does with the job of each; cur and plan: the one *)
(* it is at and what remains to do with it; found: the key it is about to  *)
(* remove; was: isActive as it was read first; every: the intervals it has *)
(* read for the registrations; set: what it writes.                        *)
Plan == {<<>>, <<"unschedule">>, <<"register">>, <<"unschedule", "register">>}
Call == [op: Operations, pc: {"idle", "write", "reread", "loop", "find", "drop", "add", "final"},
         scope: SUBSET Services, left: SUBSET Services, cur: Services \cup {Nobody},
         jobs: Plan, plan: Plan, found: Intervals \cup {Nobody}, was: BOOLEAN,
         every: [Services -> Intervals], set: Row, lone: BOOLEAN]

NoRow == [state |-> "none", every |-> DefaultInterval]
Idle == [op |-> "boot", pc |-> "idle", scope |-> {}, left |-> {}, cur |-> Nobody,
         jobs |-> <<>>, plan |-> <<>>, found |-> Nobody, was |-> FALSE,
         every |-> [s \in Services |-> DefaultInterval], set |-> NoRow, lone |-> TRUE]

TypeOK ==
    /\ row \in [Services -> Row]
    /\ repeat \subseteq (Services \X Intervals)
    /\ demo \subseteq Services
    /\ call \in [Callers -> Call]
    /\ faults \in 0..MaxFaults
    /\ disturbed \subseteq Services /\ blurred \subseteq Services

Init ==
    /\ row = [s \in Services |-> NoRow]
    /\ repeat = {} /\ demo = {}
    /\ call = [c \in Callers |-> Idle]
    /\ faults = 0
    /\ disturbed = {} /\ blurred = {}

Exists(s) == row[s].state \in {"active", "paused"}
Active(s) == row[s].state = "active"
Keys(s) == {i \in Intervals : <<s, i>> \in repeat}
InFlight(c) == call[c].pc # "idle"
On(s) == {c \in Callers : InFlight(c) /\ s \in call[c].scope}

(* The intervals of the services in S, from the given rows.                *)
Read(rows, S) == [s \in Services |-> IF s \in S THEN rows[s].every ELSE DefaultInterval]

(* Mutant of JobPlan: an active service whose interval changed keeps its job. *)
JobPlanKeepingJob(was, now) ==
    CASE ~was /\ now -> <<"register">>
      [] was /\ ~now -> <<"unschedule">>
      [] OTHER -> <<>>

(* Mutant of JobPlan: the job is removed and not registered again.         *)
JobPlanNotRegistering(was, now) ==
    CASE ~was /\ now -> <<"register">>
      [] was -> <<"unschedule">>
      [] OTHER -> <<>>

(* What updateService does with the job: isActive as it was read first     *)
(* against isActive as the transaction returned it.                        *)
JobPlan(was, now) ==
    CASE ~was /\ now -> <<"register">>
      [] was /\ ~now -> <<"unschedule">>
      [] was /\ now -> <<"unschedule", "register">>
      [] OTHER -> <<>>

(* What the other operations do.                                           *)
JobsOf(op) == CASE op \in UnscheduleFirst -> <<"unschedule">>
                [] op = "interval" -> <<"unschedule", "register">>
                [] op = "seed" -> <<>>
                [] OTHER -> <<"register">>

-----------------------------------------------------------------------------
(* Beginning and end of a call.  A call is lone while no other call has    *)
(* worked on its services and none of its own steps has failed.            *)

Begin(c, op, S, pc, set) ==
    LET others == UNION {On(s) : s \in S}
        mixed(s) == \E d \in On(s) : "update" \in {op, call[d].op} IN
    /\ ~InFlight(c)
    /\ call' = [d \in Callers |->
           IF d = c THEN [Idle EXCEPT !.op = op, !.pc = pc, !.scope = S, !.left = S,
                              !.jobs = JobsOf(op), !.set = set, !.lone = (others = {}),
                              !.was = op = "update" /\ \E s \in S : Active(s)]
           ELSE [call[d] EXCEPT !.lone = @ /\ d \notin others]]
    /\ disturbed' = disturbed \cup {s \in S : On(s) # {}}
    /\ blurred' = blurred \cup {s \in S : mixed(s)}
    /\ UNCHANGED <<row, repeat, demo, faults>>

End(c) ==
    /\ call' = [call EXCEPT ![c] = Idle]
    /\ blurred' = IF call[c].lone THEN blurred \ call[c].scope ELSE blurred

(* The call fails and is not continued: an error of the database, or the   *)
(* end of the process.                                                     *)
Abort(c) ==
    /\ InFlight(c)
    /\ faults < MaxFaults /\ faults' = faults + 1
    /\ call' = [call EXCEPT ![c] = Idle]
    /\ disturbed' = disturbed \cup call[c].scope
    /\ blurred' = blurred \cup call[c].scope
    /\ UNCHANGED <<row, repeat, demo>>

-----------------------------------------------------------------------------
(* The first read of each request.                                         *)

(* createService counts the organization's services before it inserts.     *)
CreateService(c, set) ==
    /\ Cardinality({s \in Services : Exists(s)}) < MonitorQuota
    /\ Begin(c, "create", {}, "write", set)

UpdateService(c, s, set) == Exists(s) /\ Begin(c, "update", {s}, "write", set)

DeleteService(c, s) == Exists(s) /\ Begin(c, "delete", {s}, "loop", NoRow)
PauseService(c, s) == Exists(s) /\ Begin(c, "pause", {s}, "loop", NoRow)
ResumeService(c, s) == Exists(s) /\ Begin(c, "resume", {s}, "write", NoRow)

BulkDelete(c, S) == (\A s \in S : Exists(s)) /\ Begin(c, "delete", S, "loop", NoRow)
BulkPause(c, S) == (\A s \in S : Exists(s)) /\ Begin(c, "pause", S, "loop", NoRow)
BulkResume(c, S) == (\A s \in S : Exists(s)) /\ Begin(c, "resume", S, "write", NoRow)
BulkChangeInterval(c, S, i) ==
    /\ \A s \in S : Exists(s)
    /\ Begin(c, "interval", S, "write", [NoRow EXCEPT !.every = i])

(* syncActiveServiceJobs.                                                  *)
WorkerStarts ==
    LET S == {s \in Services : Active(s)}
        others == UNION {On(s) : s \in S} IN
    /\ ~InFlight(Boot) /\ S # {}
    /\ call' = [d \in Callers |->
           IF d = Boot THEN [Idle EXCEPT !.pc = "loop", !.scope = S, !.left = S,
                                 !.jobs = JobsOf("boot"), !.every = Read(row, S), !.lone = (others = {})]
           ELSE [call[d] EXCEPT !.lone = @ /\ d \notin others]]
    /\ disturbed' = disturbed \cup {s \in S : On(s) # {}}
    /\ blurred' = blurred \cup {s \in S : \E d \in On(s) : call[d].op = "update"}
    /\ UNCHANGED <<row, repeat, demo, faults>>

-----------------------------------------------------------------------------
(* The write to the rows.                                                  *)

InsertService(c, s) ==
    /\ call[c].pc = "write" /\ call[c].op = "create"
    /\ row[s].state = "none"
    /\ row' = [row EXCEPT ![s] = call[c].set]
    /\ LET S == IF call[c].set.state = "active" THEN {s} ELSE {} IN
       call' = [call EXCEPT ![c].pc = "loop", ![c].scope = {s}, ![c].left = S,
                            ![c].every = Read(row', S), ![c].set = NoRow]
    /\ UNCHANGED <<repeat, demo, faults, disturbed, blurred>>

(* ServiceRepository.update: a stale version token refuses the write.  The *)
(* worker moves updatedAt with every check, so any token may be stale.     *)
RefuseUpdate(c) ==
    /\ call[c].pc = "write" /\ call[c].op = "update"
    /\ call' = [call EXCEPT ![c] = Idle]
    /\ UNCHANGED <<row, repeat, demo, faults, disturbed, blurred>>

(* A body without isActive leaves it as it is by now.  If the row has been *)
(* deleted, the request fails on the missing result.                       *)
WriteUpdate(c) ==
    LET s == CHOOSE t \in Services : t \in call[c].scope IN
    /\ call[c].pc = "write" /\ call[c].op = "update"
    /\ IF Exists(s)
       THEN LET state == IF call[c].set.state = "none" THEN row[s].state ELSE call[c].set.state
                now == state = "active"
                jobs == JobPlan(call[c].was, now) IN
            /\ row' = [row EXCEPT ![s] = [call[c].set EXCEPT !.state = state]]
            /\ call' = [call EXCEPT ![c].pc = "loop", ![c].jobs = jobs,
                   ![c].left = IF jobs = <<>> THEN {} ELSE {s},
                   ![c].every = Read(row', IF now THEN {s} ELSE {}),
                   ![c].set = NoRow, ![c].was = FALSE]
            /\ UNCHANGED blurred
       ELSE End(c) /\ UNCHANGED row
    /\ UNCHANGED <<repeat, demo, faults, disturbed>>

(* resumeService, bulkResume and bulkChangeInterval write first; updateMany *)
(* changes the rows that still exist.                                      *)
WriteRows(c) ==
    LET change(s) == CASE call[c].op = "resume" -> [row[s] EXCEPT !.state = "active"]
                       [] call[c].op = "interval" -> [row[s] EXCEPT !.every = call[c].set.every] IN
    /\ call[c].pc = "write" /\ call[c].op \in {"resume", "interval"}
    /\ row' = [s \in Services |-> IF s \in call[c].scope /\ Exists(s) THEN change(s) ELSE row[s]]
    /\ call' = [call EXCEPT ![c].pc = "reread", ![c].set = NoRow]
    /\ UNCHANGED <<repeat, demo, faults, disturbed, blurred>>

(* The rows are read again for the registration: all that still exist      *)
(* after a resume, paused or not, the active ones after a new interval.    *)
RereadRows(c) ==
    /\ call[c].pc = "reread"
    /\ LET S == {s \in call[c].scope : IF call[c].op = "resume" THEN Exists(s) ELSE Active(s)} IN
       call' = [call EXCEPT ![c].pc = "loop", ![c].left = S, ![c].every = Read(row, S)]
    /\ UNCHANGED <<row, repeat, demo, faults, disturbed, blurred>>

(* pauseService, deleteService and their bulk forms write last.            *)
FinalWrite(c) ==
    LET to == IF call[c].op = "pause" THEN "paused" ELSE "gone" IN
    /\ call[c].pc = "final"
    /\ row' = [s \in Services |-> IF s \in call[c].scope /\ Exists(s)
                                  THEN [row[s] EXCEPT !.state = to] ELSE row[s]]
    /\ End(c)
    /\ UNCHANGED <<repeat, demo, faults, disturbed>>

-----------------------------------------------------------------------------
(* The demo data.                                                          *)

(* seedDemoData looks for demo services before it inserts its own; a demo  *)
(* project or incident that is left would refuse it too.                   *)
SeedDemo(c) ==
    /\ \A s \in demo : ~Exists(s)
    /\ Begin(c, "seed", {}, "write", NoRow)

(* One insert after another, active by the schema's default: no quota is   *)
(* looked at and no job registered.                                        *)
InsertDemo(c, s) ==
    /\ call[c].pc = "write" /\ call[c].op = "seed"
    /\ row[s].state = "none"
    /\ row' = [row EXCEPT ![s] = [state |-> "active", every |-> DefaultInterval]]
    /\ demo' = demo \cup {s} /\ blurred' = blurred \cup {s}
    /\ UNCHANGED <<repeat, call, faults, disturbed>>

SeedEnds(c) ==
    /\ call[c].pc = "write" /\ call[c].op = "seed"
    /\ call' = [call EXCEPT ![c] = Idle]
    /\ UNCHANGED <<row, repeat, demo, faults, disturbed, blurred>>

(* removeDemoData deletes the rows, whoever works on them; jobs stay.      *)
RemoveDemo ==
    LET S == {s \in demo : Exists(s)} IN
    /\ S # {}
    /\ row' = [s \in Services |-> IF s \in S THEN [row[s] EXCEPT !.state = "gone"] ELSE row[s]]
    /\ call' = [c \in Callers |-> [call[c] EXCEPT !.lone = @ /\ call[c].scope \cap S = {}]]
    /\ disturbed' = disturbed \cup {s \in S : On(s) # {}}
    /\ blurred' = blurred \cup S
    /\ UNCHANGED <<repeat, demo, faults>>

-----------------------------------------------------------------------------
(* The loop over the services, and the two functions of queue.js.          *)

NextService(c, s) ==
    /\ call[c].pc = "loop" /\ s \in call[c].left
    /\ call' = [call EXCEPT ![c].pc = "find", ![c].left = @ \ {s}, ![c].cur = s,
                            ![c].plan = call[c].jobs]
    /\ UNCHANGED <<row, repeat, demo, faults, disturbed, blurred>>

LoopEnds(c) ==
    /\ call[c].pc = "loop" /\ call[c].left = {}
    /\ IF call[c].op \in UnscheduleFirst
       THEN call' = [call EXCEPT ![c].pc = "final"] /\ UNCHANGED blurred
       ELSE End(c)
    /\ UNCHANGED <<row, repeat, demo, faults, disturbed>>

(* The call as it is once the phase it is in has ended.                    *)
PhaseDone(r) ==
    IF Len(r.plan) > 1 THEN [r EXCEPT !.pc = "find", !.plan = Tail(r.plan), !.found = Nobody]
    ELSE [r EXCEPT !.pc = "loop", !.plan = <<>>, !.cur = Nobody, !.found = Nobody,
                   !.every[r.cur] = DefaultInterval]

(* getRepeatableJobs, and find() the first that carries the service's id;  *)
(* which one is first depends on when they run next.                       *)
FindJob(c) ==
    LET r == call[c] IN
    /\ r.pc = "find"
    /\ \/ \E i \in Keys(r.cur) : call' = [call EXCEPT ![c].pc = "drop", ![c].found = i]
       \/ /\ Keys(r.cur) = {}
          /\ call' = [call EXCEPT ![c] =
                 IF Head(r.plan) = "register" THEN [r EXCEPT !.pc = "add"] ELSE PhaseDone(r)]
    /\ UNCHANGED <<row, repeat, demo, faults, disturbed, blurred>>

(* removeRepeatableByKey.                                                  *)
DropJob(c) ==
    LET r == call[c] IN
    /\ r.pc = "drop"
    /\ repeat' = repeat \ {<<r.cur, r.found>>}
    /\ call' = [call EXCEPT ![c] =
           IF Head(r.plan) = "register" THEN [r EXCEPT !.pc = "add", !.found = Nobody]
           ELSE PhaseDone(r)]
    /\ UNCHANGED <<row, demo, faults, disturbed, blurred>>

(* Queue.add with repeat.every: the same key twice is one job.             *)
AddJob(c) ==
    LET r == call[c] IN
    /\ r.pc = "add"
    /\ repeat' = repeat \cup {<<r.cur, r.every[r.cur]>>}
    /\ call' = [call EXCEPT ![c] = PhaseDone(r)]
    /\ UNCHANGED <<row, demo, faults, disturbed, blurred>>

(* A Redis command fails: the caller swallows the error and goes on with   *)
(* its next phase, but the worker's start gives up the services left.      *)
RedisFails(c) ==
    LET r == call[c] IN
    /\ r.pc \in {"find", "drop", "add"}
    /\ faults < MaxFaults /\ faults' = faults + 1
    /\ call' = [call EXCEPT ![c] = IF c = Boot THEN Idle
                                   ELSE [PhaseDone(r) EXCEPT !.lone = FALSE]]
    /\ disturbed' = disturbed \cup r.scope
    /\ blurred' = blurred \cup r.scope
    /\ UNCHANGED <<row, repeat, demo>>

-----------------------------------------------------------------------------
(* Request bodies; "none" is a body without isActive.                      *)
Bodies == {b \in Row : b.state \in {"active", "paused"}}
Patches == {b \in Row : b.state \in {"none", "active", "paused"}}

Steps(c) ==
    \/ \E s \in Services : InsertService(c, s) \/ InsertDemo(c, s) \/ NextService(c, s)
    \/ RefuseUpdate(c) \/ WriteUpdate(c) \/ WriteRows(c) \/ RereadRows(c) \/ FinalWrite(c)
    \/ SeedEnds(c) \/ LoopEnds(c) \/ FindJob(c) \/ DropJob(c) \/ AddJob(c)

Start(c) ==
    \/ SeedDemo(c) \/ \E b \in Bodies : CreateService(c, b)
    \/ \E s \in Services, b \in Patches : UpdateService(c, s, b)
    \/ \E s \in Services : DeleteService(c, s) \/ PauseService(c, s) \/ ResumeService(c, s)
    \/ \E S \in SUBSET Services \ {{}} :
           \/ BulkDelete(c, S) \/ BulkPause(c, S) \/ BulkResume(c, S)
           \/ \E i \in Intervals : BulkChangeInterval(c, S, i)

Next ==
    \/ \E c \in Requests : Start(c)
    \/ WorkerStarts \/ RemoveDemo
    \/ \E c \in Callers : Steps(c) \/ RedisFails(c) \/ Abort(c)

Spec == Init /\ [][Next]_vars

-----------------------------------------------------------------------------
(* Properties.                                                             *)

(* What the demo data leave behind: an active service without a job, until *)
(* a call has that service for itself, or the job of a service that is gone. *)
Stranded(s) ==
    /\ s \in demo \cap blurred
    /\ \/ Active(s) /\ Keys(s) = {}
       \/ row[s].state = "gone" /\ Keys(s) = {row[s].every}

(* As long as calls on a service do not overlap and none fails, whenever   *)
(* none is in flight the service is active exactly if it has a job, it has *)
(* one job only, and the job has the interval of the row: what the orders  *)
(* of writing and scheduling in monitoringService.js are for.  Of the demo *)
(* services it holds from the first call on them to their removal.         *)
ScheduleMatches ==
    \A s \in Services \ disturbed : On(s) = {} =>
        Keys(s) = (IF Active(s) THEN {row[s].every} ELSE {}) \/ Stranded(s)

(* However creations, pauses, resumes, deletions, changes of interval,     *)
(* removals of the demo data and starts of the worker overlap, they never  *)
(* leave an active service without any job; the demo data are created      *)
(* without one.  After that, or a failure, or an update that overlapped,   *)
(* the next call that has the service for itself, and is not refused,      *)
(* restores the job.  It depends on pause and delete removing the job      *)
(* before they write, and on resume writing before it registers.           *)
NoBlindSpot ==
    \A s \in Services \ blurred : On(s) = {} /\ Active(s) => Keys(s) # {}
=============================================================================

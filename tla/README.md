# SentraOps in TLA+

TLA+ models of the parts of SentraOps where several actors work on shared rows,
queues or caches: health checks, incidents and maintenance windows; the scheduling
of checks; alert rules; queued notifications and status-page subscriptions; the
cached status page and the live dashboard; accounts, sessions and invites; error
ingest and issues; the Node SDK's delivery of events. TLC checks them on small
instances, and TLAPS proves their safety properties for every value of the
constants. `PROJECT.json` maps every definition to the lines it models and lists
runs, mutants, findings, hazards and theorems.

## 1. The system

SentraOps is an uptime monitor and error tracker. An Express API and a worker
process share PostgreSQL (through Prisma, READ COMMITTED) and BullMQ queues in
Redis; a React frontend and a Node SDK are its clients.

| Part | State | Operations | Interacts with | Correct when |
|---|---|---|---|---|
| Health-check worker (`healthCheck.processor.js`, `incident.repository.js`) | status and failure count of each service, health_checks, incidents | up to ten executions: read the service once, probe, log, look for a maintenance window, recover or fail in a transaction, announce | incident API and ticker through rows and row locks; queue retries it | one incident per outage; a counted outage has one; incidents of a healthy target end resolved; no execution hangs |
| Incident API (`incidentService.js`) | incidents, timeline | PATCH, acknowledge, comment | resolving resets the service | version tokens are respected; a resolve and its reset are one step |
| Maintenance windows (`maintenance.processor.js`, `maintenanceService.js`) | maintenance_windows | create, edit, delete; a ticker every 30 s starts and ends them | overwrites the service's status | completed is final; the service comes back |
| Error ingest and issues (`ingest.processor.js`, `issue.repository.js`, `issueService.js`) | issues, error_events | accept, upsert the issue, store the event, count users, broadcast; users resolve or ignore | queue retries; users' edits | no accepted event is lost or announced twice; counts cover what is stored |
| Node SDK (`packages/sdk-node/src/index.ts`) | a queue in memory, a flag, timers | capture, POST, enqueue on failure, flush | the ingest endpoint | one flush; bounded queue; bounded resends; nothing stranded |
| Services: CRUD and scheduling (`monitoringService.js`, `queue.js`, `worker.js`) | services, repeating jobs in Redis | create, update, pause, resume, delete, bulk forms, the worker's start | enqueues executions | every active service has a job, with its interval |
| Escalation policies (`escalationService.js`) | thresholds | upsert | read by every failing check | warning < incident < critical |
| Alert rules (`alertRuleService.js`) | rules, channels, fires, snooze | evaluate, fire, snooze, edit | called by health checks and ingest; fills the notifications queue | one alert per cooldown and execution; a recorded fire is told |
| Notifications (`notification.processor.js`) | a log row per delivery | enqueue, dispatch, retry | mail, Slack, webhooks | a completed job was delivered; the log is truthful |
| Status subscribers (`statusSubscriberService.js`) | status_subscribers | subscribe, confirm, unsubscribe, tell | notifications queue | only confirmed addresses get mail, and its link ends it |
| Status page (`statusPageService.js`) | a cache in Redis | read through, invalidate | incidents and services | stale only by overlap, and not beyond its TTL |
| Realtime events and dashboard (`index.js`, `socket.js`, `SocketProvider.tsx`, `socketEvents.ts`, the query hooks) | rooms, a query cache in each browser | publish, relay, invalidate, refetch | worker, API, browsers | who is told of a change sees it |
| Auth, organizations, projects (`authService.js`, `organizationService.js`, `projectService.js`) | users, refresh tokens, invites, reset tokens, projects | login, refresh, logout, reset, invite, accept, roles, removal, quota | guard every request | tokens are used once; a reset ends sessions; an organization keeps its owner; quotas hold |
| Demo data (`demoService.js`) | rows marked isDemo | insert three active services, a project, issues and incidents; delete them | bypasses quotas and the scheduler | seeded once; what it brings is monitored; removal leaves nothing behind |
| Releases, audit, analytics, AI summary, cleanup, CLI, demo shop | single rows or nothing | CRUD, reporting | | |

**Hard behaviours.** Executions of one service overlap (schedule, check-now,
heartbeat, retry) and each works on the service row it read before the probe.
Failure transactions lock service then incident, recoveries and manual resolves
incident then service. A throw or a dead worker runs a job again from its first
line, whatever it had committed. The ticker writes statuses by id. Ingest counts
an event in one transaction, stores it in a second and writes user counts in a
third. In the SDK, callbacks change the queue while a flush awaits its POST.
Hardly a request on services, alerts, subscribers or accounts is one transaction: each reads
first and writes later, with other requests between, and the rows in PostgreSQL and
the jobs, messages and cache entries in Redis are written one after the other.
`hazards` in PROJECT.json gives each of these at its line.

## 2. Modules

```
MonitorStore        rows and row locks
  HealthCheckJob      one execution of the processor per Jobs element
  IncidentApi         one PATCH or acknowledge per Requests element
  MaintenanceTicker   ticker runs, window API, the clock
    Monitoring          the composition, deadlocks, worker death, properties
      MCMonitoring        request bodies and symmetry for TLC
      Streaks             a history of checks that passed, for IncidentNeedsStreak;  MCStreaks
      Monitoring_proofs   the inductive invariant, the safety theorems, the refinement
IncidentLifecycle   what the incident rows promise (abstract)
IssueIngest         ingest and issue edits;  MCIssueIngest;  IssueIngest_proofs
SdkRetryQueue       SDK delivery;  SdkRetryQueue_proofs
ServiceSchedule     services against repeating jobs;  MCServiceSchedule;  ServiceSchedule_proofs
AlertRules          evaluations, rules, channels;  MCAlertRules;  AlertRules_proofs
NotificationQueue   delivery of queued messages
  StatusMails         subscriptions, and alerts, over it;  MCStatusMails;  StatusMails_proofs
LiveViews           status page and dashboard;  MCLiveViews;  LiveViews_proofs
Accounts            one organization;  MCAccounts;  Accounts_proofs
```

**MonitorStore** holds the columns that decide something: of a service its
status, failure count and isActive; of its health checks the newest outcome and
the number of failures since the last success; of an incident its service,
status, severity, whether resolvedAt is set and a version for updatedAt; of a
window its service, status and where the present lies relative to its times.
Transactions run at READ COMMITTED: writes are made in the transaction's last
step, the row lock of an UPDATE is taken where the code executes it, and plain
SELECTs see committed rows and wait for nobody.

**HealthCheckJob**: every await of `processHealthCheckJob` and of
`processWorkerRecovery` / `processWorkerFailure` ends an action. `job[j]` keeps
the snapshot (status, failures), the outcome, the incident found and the attempt.
`findFirst` without an order returns any match. `Announce` stands for alerts,
broadcasts and mail after the commit. `JobError` is a throw at any await;
`WorkerCrash` ends all executions, some of which the queue hands out again.

**IncidentApi**: read, decide what differs, compare the token, update, and for a
resolve read the newest check and reset the service, one action each. Requests are
one-shot. Timeline rows are left out.

**MaintenanceTicker**: the two queries of a run, each window's update and its
service's, edits split between read and write, deletion, and time passing.

**Monitoring** composes the three and adds what PostgreSQL does with a deadlock
(abort one side) and the death of the worker, which takes jobs and ticker along.
**Streaks** adds to it a history variable: the services on which a check that passed was
overlapped by another, or ended without setting the count to 0.

**IncidentLifecycle** is the abstract specification: open (only while the service
has no incident in its first unresolved life), escalate, resolve, edit. The
refinement mapping is the identity on `incident`; everything else is hidden.

**IssueIngest**: SELECT, INSERT or UPDATE of the issue, INSERT of the event, the
count of users, its write and the broadcast are separate actions of `ingest[e]`;
the unique keys of issues and events turn races and repetitions into errors; the
queue runs an event three times, and a job that stalls once more. The fingerprint
and the user are constant functions of the event. Nothing in the repository
writes `resolvedInRelease` (`DocsPage.tsx:145` describes it), so an event regresses
an issue exactly when it reads it as resolved.

**SdkRetryQueue**: one JavaScript callback per action. A POST ends in an answer
below 500 or in a failure, the abort timer being the four-second limit.

**ServiceSchedule**: `row` is the services table, `repeat` the repeatable jobs in
Redis. `call[c]` is a request or the worker's start: it reads, writes its rows
before or after its loop over the services, as the code does for each operation, and
in the loop finds, removes and adds jobs with one Redis command per action. Single
and bulk requests share the steps where their code is the same. A Redis error is
swallowed, and the call goes on. The demo data insert active rows and delete them with no
regard for jobs (`InsertDemo`, `RemoveDemo`). `disturbed` and `blurred` are history
variables: the services on which calls have overlapped or failed, or that the demo data
brought or took.

**AlertRules**: one evaluation counts the rules, reads the matching ones with their
channels and latest fires, judges each on what it read and on the time it is now,
records a fire, and queues one message per channel. Users edit rules and channels
between any two steps. Time is that cooldowns and snoozes may end.

**NotificationQueue** is the processor: log row, provider, log row again, for each
recipient in turn; BullMQ's retries and stalled jobs are external. `attemptsMade`
does not count the attempt under way, so the branch that would go on to the next
recipient after a last failure is never taken (`GoesOn`). **StatusMails** adds
subscribe, confirm, unsubscribe and `notifySubscribers`, each split between reading
and writing its row. Tokens are named after the request that drew them.

**LiveViews**: a write commits, is published, relayed and invalidates the page's
cache, or is made by a handler that clears the cache itself, or by one that tells
nobody. The value of what is shown is the set of writes it includes. A visitor reads
through the cache part by part; an operator's browser mounts queries, is told, and
refetches as TanStack Query does. Redis, Socket.IO and TanStack Query are external.

**Accounts**: every handler of sessions, password reset, invites, members and projects
is a series of commands of `request[r]`. Access tokens keep the role they were signed
with until they expire. Refresh tokens of one user signed in the same second are the
same string, since nothing else is signed, so `Same` relates their rows. `overlap` is
a history variable: which requests ran at the same time. The demo data make one project
without counting; its name, and so the project, is unique.

## 3. Runs

| Run | Instance | Question |
|---|---|---|
| `incidents` | 2 executions, 1 request (resolve, reopen), 2 incident ids, 1 fault | two incidents for an outage? an incident before its streak of failures? a counted outage with none, a critical one with none critical? is the proofs' invariant true? |
| `liveness_jobs` | 2 executions, 2 ids | are all incidents of a target that stays up resolved? does any execution wait for ever? |
| `liveness_api` | 1 execution, 1 request of any kind, 2 ids | do executions end with the API in the deadlock? do the rows refine IncidentLifecycle? are two unresolved incidents, one of them reopened, both resolved in the end? |
| `maintenance` | 1 execution, 1 window, 1 ticker run, 1 edit, 1 fault | does the service come back from a window that ended, moved or was deleted? is completed final? |
| `sdk_queue` | 4 events, limit 2, 3 attempts | single flush, overshoot, counted sends, no copy, no early loss, no stranding |
| `ingest` | 2 events of one issue, 1 edit, 2 faults | counts, survival of one fault, single announcements, termination |
| `schedule` | 1 service, created or of the demo data, 2 requests, the worker's start, 2 intervals, 1 fault | do row and job agree after calls that do not overlap? do overlapping ones leave an active service unchecked? |
| `alerts` | 2 evaluations, 1 rule, 2 channels, 2 fires, 1 edit, 1 fault | who may fire within a cooldown? which fires are never told? |
| `mails` | 1 address, 2 subscribe requests, 1 update, 1 alert of 2 recipients, 2 tries, 1 stall, 1 fault | was a completed job delivered? is the log truthful? do links end what they are of? |
| `views` | 2 parts, 3 writes, 1 viewer of either kind, TTL 2, 2 faults | what is stale, by which overlap? does the page catch up? |
| `accounts` | owner and one address, 3 requests of any kind, quota 1, the demo project, 2 seconds, 1 restart | which guarantees survive although nothing is in a transaction? |
| `v_version_token` | 2 requests | violates `TokenGuardsWrite` (incidentService.js:42 "with OCC") |

**What the violation says.** Two requests that loaded the same version both pass the
comparison, and the second overwrites the first; the finding quotes the lines.

**Exceptions the properties name.** Where the code guarantees less than one would wish,
the property says exactly how much less, and each exception is reachable:

- `IncidentNeedsStreak`: a check that passes while another execution carries the count it
  read before, or that throws, dies or meets a maintenance window before it sets the count
  to 0, leaves a count that includes failures from before the success. The exception
  ends when the count is 0 and no check is under way.
- `CooldownHolds`: evaluations in flight together each fire once in one cooldown.
- `NoBlindSpot`, `ScheduleMatches`: an update that overlaps another call, or a failed
  Redis command, may leave an active service without a job until the next call. The
  services of the demo data are active without a job until a call, or the worker's start,
  has them for itself, and a job they have got stays when they are removed (`Stranded`).
- `CompletedIsDelivered`: a recipient that keeps failing withholds the message from
  those after it, and those before it get a copy for every attempt.
- `LinksWork`: a request that read the row as pending before a confirmation replaces the
  tokens of a confirmed subscription.
- `StaleOnlyByOverlap`: a reader that overlaps an invalidation stores an old page for a
  whole TTL. `ToldSees`: a reconnected socket refetches nothing, an event during a
  query's first load is not acted on, and the mutation that resolves an incident does
  not refetch the service it resets.
- `ResetEndsSessions`, `ExchangedOnce`, `InviteSupersedes`, `JoinedOnce`,
  `QuotaHoldsAlone`: requests that overlap; for `ExchangedOnce` also tokens signed in one
  second; for `JoinedOnce` also a process that ends after it has made the member and before
  it has marked the invite, which leaves the invite open; and for `QuotaHoldsAlone` the one
  project of the demo data, which is made without counting. A session opened while a reset runs can be exchanged for others long after it,
  so `ResetEndsSessions` speaks of the session that a working one rests on; asking that
  the working session itself was opened during the reset is false with four requests,
  which the proof showed and the three requests of the run do not.

Disagreements met while modelling that no run states: a maintenance window keeps the
failure count it found (README.md:46 "consecutive check failures"), a recovery that
looked for an incident too early sets the service up under an open one
(docs/demo-script.md:45), and `userCount` may be written from an older read
(issue.repository.js:95). The models contain all three behaviours. One more needs no model:
issueService.js:120 calls `IncidentRepository.create` with one object where it takes the
organization first, and the test mocks it.

**Bounds.** One service: no code path touches two. Thresholds 1, 2, 3 with counts
saturating at 3 (`MaxFailures`): every comparison of a count with a threshold
takes both values. `MaxFaults` counts throws and deaths together. `HasRoom` lets a
target fail only while an unused incident id remains for every execution that
could need one, so no behaviour is cut short inside a transaction. Requests and
events are one-shot; `version` is a counter bounded by the writers. Two executions
and two incidents are where stale snapshots, the lock inversion and a reopened
incident beside a fresh one appear. A third SDK event already fills a queue of two
during a resend; the fourth evicts. Two events are enough for every race on one
issue, since executions of different issues share nothing but the worker's death.
ServiceSchedule needs one service, since calls share nothing but rows and keys of one
service, and two intervals to tell a stale registration from a right one; `FewInFlight`
explores three calls at a time, but only two after a failure and beside demo data, and the
proofs hold for any number. Two
evaluations make the cooldown race; two channels and two recipients make what fails
between them visible. Retries beyond the second and faults beyond the first repeat
what the first showed; MaxTries is 2 instead of 3 and the proofs hold for any. Two
parts let a page mix an old and a new read, and three writes are one of each source of
invalidation. Three account requests are what it takes to accept an invite twice with
a removal between. Symmetry is used only with safety properties. Deadlock is checked
in all runs of Monitoring and in `alerts`; the other instances stop when their
requests, events or writes are spent.

**Fairness.** `WF` on `Enqueue`: the schedule keeps producing checks. `SF` on each
execution's, request's and ticker's step: they wait only for row locks, which
PostgreSQL grants in order of arrival, so a waiter is not passed over for ever
though the lock is repeatedly taken. `WF` on `BreakDeadlock`: the detector runs
after a timeout. In the SDK, timers fire and each POST ends by its abort timer; in
ingest the worker runs the jobs it holds. In LiveViews, `WF` on `Tick` is Redis
expiring keys, and `WF` on a visit's serving is a handler that finishes or fails;
nothing is assumed of messages, sockets or invalidations, so `PageCatchesUp` rests on
the expiry alone. ServiceSchedule, AlertRules, StatusMails and Accounts state safety
only: their liveness would be BullMQ's and the clients'. No client, target or fault is obliged to
act, and `RecoversEventually` supposes a target that stays up.

## 4. Proofs

All theorems hold for any sets of services, incidents, executions, requests, rules,
messages and so on, any number of faults, and any limits and thresholds in the order
that `escalationService.upsert` enforces. Every safety property of a passing run is
stated by a theorem. Where a property is not inductive, the text says what is added.

**`Monitoring_proofs`**

- `Invariance`, `TypeCorrect`: `Spec => [](TypeOK /\ Consistent)`. `OneFreshIncident`
  alone is not inductive: an execution about to create has looked before. `Consistent`
  adds that a failure transaction holds its service row from its first statement to
  its commit, that while it is about to create no fresh incident exists, and that the
  incident it found or will escalate stays unresolved; the last two hold because
  whoever resolves an incident needs that service row.
- `AtMostOneFreshIncident`, `CountedOutageHasIncident`: the count reaches the threshold
  only in a commit whose transaction created or found an incident, and every resolve
  clears it.
- `CountedOutageIsCritical` adds `CriticalInv`: no request carries a severity, an
  execution about to commit a critical count without escalating has found a critical
  incident, and the rows agree. The hypothesis that clients edit no severities is part
  of the property.
- `CompletedStays`: `OneTicker /\ Spec => CompletedIsFinal`, from `ListsCurrent`: what a
  run has put on its lists has the status it read, or is deleted. With two ticker runs
  that overlap it is false, and the property with it (a hazard of PROJECT.json).
- `StreakBeforeIncident`: `StreakSpec => IncidentNeedsStreak`, for executions that overlap,
  fail and are run again, windows, ticker runs and requests. From `StreakInv`: of a steady
  service, the stored count, and the count an execution carries from its read to its
  commit, never exceed the failures logged since the last success, but while the check
  that logged the success is on its way to set the count to 0; and then no other
  execution carries one. What ends the steadiness is named by the history alone, so the
  theorem says which events can open an incident early.
- `ImplementsLifecycle`: each step is a step of IncidentLifecycle or leaves the incident
  rows alone.

**`SdkRetryQueue_proofs`**: `SingleFlush` and `QueueStaysBounded`; the bound needs the
single flush, for the entry pushed back without a look at the length is the one a flush
took out. `CountedSends`, `OnePlaceEach` and `NothingDroppedEarly` rest on `PlaceInv`: an
event is with its first POST, once in the queue, or with the flush, and its entry counts
its POSTs.

**`IssueIngest_proofs`**: `TypeCorrect`, `EventsAnnouncedOnce` (an execution past
`StoreEvent` is the one that stored its event, and a creator's row is never removed),
`CountsCover` (until something fails no execution finds its event stored already) and
`OneFaultSurvived`. The last counts attempts against what used them up (`AttemptInv`): the
lost race to create the row, once because the row then stays, and the fault; so three
attempts are enough, however many events race.

**`ServiceSchedule_proofs`**: `TypeCorrect`, `JobsMatchRows`, `ActiveServicesAreChecked`.
`ScheduleInv` follows the calls that have a service in hand: alone on an undisturbed
service, a call knows from its own progress which job exists (`Matched`); and while an
active service has no job, some call is under way that will register one or write that
it is not active (`Mended`). A demo service between calls is `Settled`: it matches, or is
as its insertion or removal left it.

**`AlertRules_proofs`**: `CooldownKept` (between reading a rule's fires and recording its
own, an execution records no other, and it goes on only if the cooldown of the fire it
read is over) and `EachLossHasItsFault`: what is on the list of an execution that sends is
queued or still to do, and the fires that lose it otherwise are counted by the faults.

**`StatusMails_proofs`**: `CompletedJobsDelivered` (an attempt keeps the recipients it has
reached one copy ahead of those after them, and since `made` stays below MaxTries a
failure always ends the attempt), `LinksAlwaysWork` (`LinkInv`: every token on the list
of an update or in a queued mail works, and a request that read a pending row which has
been confirmed since is in `late`), and `LogIsTruthful` (`LogInv`: a step opens or closes
at most one row and makes at most one copy, and each way to lose one takes a fault).

**`LiveViews_proofs`**: `TypeCorrect`, `CacheStaleOnlyByOverlap` (what an open visit has
read lacks a cleared write only if the visit has it in `over`) and `ToldOperatorsSee`
(`DashInv`: once a viewer is informed of a write, a fetch that has been answered, and
what is shown when none is under way, include it).

**`Accounts_proofs`**: `TypeCorrect`, and `OwnerStays`: nobody but the owner gets the
owner's role, by his row, a stale access token, what a request carries, or an invite, so
the one caller who may remove members is the one `MayRemove` keeps from removing himself.
`QuotaHolds`, `InvitesSuperseded`, `InviteJoinsOnce`, `TokenExchangedOnce` and `ResetEnds`
share `OverlapInv`. Its core is that two requests under way have overlapped
(`Together`), so that a handler alone between its read and its write finds what it read;
each property adds what its handlers carry from the one to the other: `QuotaInv` the
counted projects a creation does not overlap, `AcceptInv` that an invite whose accept made
a member is marked, about to be marked by a request under way, or was left by one that the
end of the process stopped (`unmarked`). For `ResetEnds`:
a request that may still open a session on the old password overlapped the reset, or
holds a session that did.

**Assumptions** are the ASSUMEs of the modules, which the runs evaluate: ordered
thresholds, disjoint identities (`MailAssumption`: an alert is not one of the mails of a
subscription, or the links of the second would be the first's), a positive queue limit,
finitely many events, positive numbers of tries and ticks.

**Model-checked only**: the liveness properties `RecoversEventually`, `ExecutionsEnd`,
`EventsSettle`, `EverySendEnds` and `PageCatchesUp`, since fairness and ENABLED are out of
the prover's reach, and `TokenGuardsWrite`, which is false. Numbers that a property adds
up are sizes of sets rather than folds, so that a step's effect on them is a lemma
about one element and no induction over data is needed.

## 5. Not modelled

- Analytics, audit log, AI summaries, releases and the retention cleanup
  read, append or delete single rows far from any race.
- Of the demo data: the sample health checks, issues, events and incidents, which no
  running check or ingest produces. Monitoring's services are those of createService: a
  demo service starts with an unresolved incident that nobody counted, and removing the
  demo data deletes that incident a few statements before its service, so that for a
  moment `OutageHasIncident` can fail for it. `src/seed/seed.js` (`npm run seed`), a
  developer's script, replaces the organization acme-corp by rows of its own; its services,
  too, have no job until the worker starts again.
- Of accounts: registration (it is Init), the lockout after failed logins, expiry of
  refresh, invite and reset tokens, several organizations; API keys are single rows.
- Of services: tags, groups, assertions and masking of secrets; assertions decide the
  outcome of a probe, which is a free choice in HealthCheckJob. Deletion of a service
  cascades to rows the other modules keep, and is modelled in ServiceSchedule only.
- Of the status page: its settings and the 90-day uptime, which have keys of their own.
- Of the dashboard's queries: a refetch that fails. The query then keeps its data and is
  marked in error, which the page shows, so `ToldSees` speaks of fetches that are answered.
- Of the frontend: pages and forms, which hold most of its lines and no state shared
  with anyone; the refresh of the access token in `api/client.ts`.
- The HTTP layer, the CLI, the demo shop, time zones and texts.

The map covers about a ninth of the repository's lines for this reason: nearly half
of them are components of the frontend that lay out what the hooks return.

## 6. Plan

Done: everything in section 2. What remains, in order of use:

1. `EventPipeline`: SdkRetryQueue and IssueIngest with a network between them; what a
   resend after a lost answer counts (each resend has a fresh event id).
2. Proofs: `CompletedIsFinal` as an exact statement of what overlapping runs can break, in
   place of the hypothesis that excludes them; the pairs of requests that reach each exception of section 3, as theorems of their own.
3. Escalation policies that change while a check is between its read and its
   transaction.
4. The access token's refresh in the web client: one refresh for all requests that
   were answered 401 at once.

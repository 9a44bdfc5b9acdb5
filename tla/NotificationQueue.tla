-------------------------- MODULE NotificationQueue --------------------------
(***************************************************************************)
(* Delivery of queued notifications                                        *)
(* (backend/worker/processors/notification.processor.js and the queue of   *)
(* backend/src/config/queue.js).  A job holds a message for a list of      *)
(* recipients.  An attempt goes through the list from the start: a row in  *)
(* the notification log, the provider, the row's status.  A recipient that *)
(* fails ends the attempt, and BullMQ begins another from the start.       *)
(*                                                                         *)
(* The queue is external: a job is tried MaxTries times; one whose worker  *)
(* disappeared is run again without counting, MaxStalls times.             *)
(***************************************************************************)
EXTENDS Integers, FiniteSets

CONSTANTS
    Messages,           \* what may be queued, each once
    Length,             \* Length[m]: the number of recipients of m
    Concurrency,        \* jobs a worker has at a time (5)
    MaxTries,           \* attempts of the notifications queue (3)
    MaxStalls,          \* maxStalledCount (1)
    MaxFaults           \* bound on failed writes and ends of the process

ASSUME QueueAssumption ==
    /\ Length \in [Messages -> Nat]
    /\ Concurrency \in Nat \ {0} /\ MaxTries \in Nat \ {0} /\ MaxStalls \in Nat /\ MaxFaults \in Nat

VARIABLES
    job,                \* job[m]: the job, and how far its attempt is
    got,                \* got[m][i]: copies the provider took for recipient i
    log,                \* rows of the notification log that are pending and sent
    faults
queueVars == <<job, got, log, faults>>

Job == [state: {"none", "waiting", "active", "completed", "failed"},
        pc: {"row", "send", "sent", "refused"},
        at: Nat \ {0}, made: 0..(MaxTries - 1), stalls: 0..MaxStalls]
Fresh == [state |-> "none", pc |-> "row", at |-> 1, made |-> 0, stalls |-> 0]

QueueTypeOK ==
    /\ job \in [Messages -> Job]
    /\ \A m \in Messages : job[m].at <= Length[m] + 1
    /\ \A m \in Messages : got[m] \in [1..Length[m] -> Nat]
    /\ log \in [pending: Nat, sent: Nat]
    /\ faults \in 0..MaxFaults

QueueInit ==
    /\ job = [m \in Messages |-> Fresh]
    /\ got = [m \in Messages |-> [i \in 1..Length[m] |-> 0]]
    /\ log = [pending |-> 0, sent |-> 0]
    /\ faults = 0

(* enqueueNotification, for every message of M.                            *)
Enqueued(M) == [m \in Messages |-> IF m \in M /\ job[m].state = "none"
                                   THEN [Fresh EXCEPT !.state = "waiting"] ELSE job[m]]

Active(m, pc) == job[m].state = "active" /\ job[m].pc = pc

StartAttempt(m) ==
    /\ job[m].state = "waiting"
    /\ Cardinality({n \in Messages : job[n].state = "active"}) < Concurrency
    /\ job' = [job EXCEPT ![m].state = "active", ![m].pc = "row", ![m].at = 1]
    /\ UNCHANGED <<got, log, faults>>

Ended(state) == [Fresh EXCEPT !.state = state]

(* The processor has thrown; attemptsMade is counted now.                  *)
Thrown(j) == IF j.made + 1 < MaxTries
             THEN [j EXCEPT !.state = "waiting", !.pc = "row", !.at = 1, !.made = @ + 1]
             ELSE Ended("failed")

(* NotificationRepository.create is outside the try block.                 *)
CreateRow(m) ==
    /\ Active(m, "row") /\ job[m].at <= Length[m]
    /\ log' = [log EXCEPT !.pending = @ + 1]
    /\ job' = [job EXCEPT ![m].pc = "send"]
    /\ UNCHANGED <<got, faults>>

RowNotCreated(m) ==
    /\ Active(m, "row") /\ job[m].at <= Length[m]
    /\ faults < MaxFaults /\ faults' = faults + 1
    /\ job' = [job EXCEPT ![m] = Thrown(@)]
    /\ UNCHANGED <<got, log>>

(* NotificationService.dispatch: the provider takes the message or not.    *)
Dispatch(m) ==
    /\ Active(m, "send")
    /\ \/ /\ got' = [got EXCEPT ![m][job[m].at] = @ + 1]
          /\ job' = [job EXCEPT ![m].pc = "sent"]
       \/ job' = [job EXCEPT ![m].pc = "refused"] /\ UNCHANGED got
    /\ UNCHANGED <<log, faults>>

MarkSent(m) ==
    /\ Active(m, "sent")
    /\ log' = [log EXCEPT !.pending = @ - 1, !.sent = @ + 1]
    /\ job' = [job EXCEPT ![m].pc = "row", ![m].at = @ + 1]
    /\ UNCHANGED <<got, faults>>

(* The error of this write is caught like one of the provider.             *)
SentNotWritten(m) ==
    /\ Active(m, "sent")
    /\ faults < MaxFaults /\ faults' = faults + 1
    /\ job' = [job EXCEPT ![m].pc = "refused"]
    /\ UNCHANGED <<got, log>>

(* Mutant of GoesOn: the attempts are counted from one.                    *)
GoesOnAtLast(j) == j.made + 1 >= MaxTries

(* job.attemptsMade, without the current attempt, against the attempts:    *)
(* it is always less, so the loop never goes on after a failure.           *)
GoesOn(j) == j.made >= MaxTries

(* Mutant of MarkFailed: the row is left pending.                          *)
MarkFailedNowhere(m) ==
    /\ Active(m, "refused")
    /\ job' = [job EXCEPT ![m] = IF GoesOn(@) THEN [@ EXCEPT !.pc = "row", !.at = @ + 1]
                                 ELSE Thrown(@)]
    /\ UNCHANGED <<got, log, faults>>

MarkFailed(m) ==
    /\ Active(m, "refused")
    /\ log' = [log EXCEPT !.pending = @ - 1]
    /\ job' = [job EXCEPT ![m] = IF GoesOn(@) THEN [@ EXCEPT !.pc = "row", !.at = @ + 1]
                                 ELSE Thrown(@)]
    /\ UNCHANGED <<got, faults>>

FailedNotWritten(m) ==
    /\ Active(m, "refused")
    /\ faults < MaxFaults /\ faults' = faults + 1
    /\ job' = [job EXCEPT ![m] = Thrown(@)]
    /\ UNCHANGED <<got, log>>

AttemptEnds(m) ==
    /\ Active(m, "row") /\ job[m].at > Length[m]
    /\ job' = [job EXCEPT ![m] = Ended("completed")]
    /\ UNCHANGED <<got, log, faults>>

(* The worker disappears in the middle of an attempt.                      *)
Stalled(j) == IF j.stalls < MaxStalls
              THEN [j EXCEPT !.state = "waiting", !.pc = "row", !.at = 1, !.stalls = @ + 1]
              ELSE Ended("failed")

WorkerLost(m) ==
    /\ job[m].state = "active"
    /\ faults < MaxFaults /\ faults' = faults + 1
    /\ job' = [job EXCEPT ![m] = Stalled(@)]
    /\ UNCHANGED <<got, log>>

Work(m) ==
    \/ StartAttempt(m) \/ CreateRow(m) \/ Dispatch(m) \/ MarkSent(m) \/ MarkFailed(m)
    \/ AttemptEnds(m)
QueueFault(m) == RowNotCreated(m) \/ SentNotWritten(m) \/ FailedNotWritten(m) \/ WorkerLost(m)

-----------------------------------------------------------------------------
(* Properties.                                                             *)

(* A job that is reported completed has reached every recipient: the last  *)
(* attempt does not swallow a failure.  The price is that a recipient that *)
(* keeps failing withholds the message from all that come after it, and    *)
(* those before it get a copy for every attempt.                           *)
CompletedIsDelivered ==
    \A m \in Messages :
        /\ job[m].state = "completed" => \A i \in 1..Length[m] : got[m][i] > 0
        /\ \A i, k \in 1..Length[m] : i < k => got[m][k] <= got[m][i]

(* Jobs between the provider's yes and its row, rows that are worked on,   *)
(* and the copies that recipients have.                                    *)
Unmarked == {m \in Messages : Active(m, "sent")}
Open == {m \in Messages : \E pc \in {"send", "sent", "refused"} : Active(m, pc)}
CopiesOf(m) == UNION {{<<m, i, k>> : k \in 1..got[m][i]} : i \in 1..Length[m]}
Copies == Cardinality(UNION {CopiesOf(m) : m \in Messages})

(* The log does not claim a delivery that was not made; it lacks one that  *)
(* was made, or keeps a row pending that is not worked on, only for a      *)
(* write or a worker that was lost, one of each for one fault.             *)
LogTellsTruth ==
    /\ Copies - log.sent - Cardinality(Unmarked) \in 0..faults
    /\ log.pending - Cardinality(Open) \in 0..faults
=============================================================================

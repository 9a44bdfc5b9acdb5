---------------------------- MODULE SdkRetryQueue ----------------------------
(***************************************************************************)
(* Delivery of captured events by the Node SDK                             *)
(* (packages/sdk-node/src/index.ts): a first POST that nobody waits for,   *)
(* and for an event whose POST failed a bounded queue in memory that a     *)
(* flush empties every five seconds.  JavaScript runs one callback at a    *)
(* time, so a step here is one callback, from an await or a timer to the   *)
(* next await; captures and first POSTs interleave with a flush.           *)
(***************************************************************************)
EXTENDS Naturals, Sequences, FiniteSets

CONSTANTS
    Events,             \* the events the application captures, each once
    Flushes,            \* identities of pending or running flush callbacks
    NoItem,
    MaxQueue,           \* MAX_QUEUE_SIZE
    MaxAttempts         \* resends of a queued event

ASSUME QueueAssumption == MaxQueue \in Nat \ {0}

ASSUME AttemptsAssumption == MaxAttempts \in Nat \ {0}

VARIABLES
    direct,             \* events whose first POST is in flight
    queue,              \* retryQueue
    flush,              \* flush[f]: no callback, its timer, or the POST it awaits
    processing,         \* isProcessingQueue
    sends,              \* sends[e]: POSTs made for e so far
    answered            \* events a POST of which got a status below 500

vars == <<direct, queue, flush, processing, sends, answered>>

Item == [event : Events, attempts : 1..MaxAttempts]

NoFlush == [pc |-> "none", item |-> NoItem]
Timer == [pc |-> "timer", item |-> NoItem]
Sending(item) == [pc |-> "sending", item |-> item]

TypeOK ==
    /\ direct \subseteq Events
    /\ queue \in Seq(Item)
    /\ flush \in [Flushes -> {NoFlush, Timer} \cup {Sending(item) : item \in Item}]
    /\ processing \in BOOLEAN
    /\ sends \in [Events -> Nat]
    /\ answered \subseteq Events

Init ==
    /\ direct = {}
    /\ queue = <<>>
    /\ flush = [f \in Flushes |-> NoFlush]
    /\ processing = FALSE
    /\ sends = [e \in Events |-> 0]
    /\ answered = {}

-----------------------------------------------------------------------------

(* captureException and captureMessage: fire and forget.                   *)
Capture(e) ==
    /\ sends[e] = 0
    /\ sends' = [sends EXCEPT ![e] = 1]
    /\ direct' = direct \cup {e}
    /\ UNCHANGED <<queue, flush, processing, answered>>

(* Any status below 500 ends the matter, a refusal (413, 429) included.    *)
DirectAnswered(e) ==
    /\ e \in direct
    /\ direct' = direct \ {e}
    /\ answered' = answered \cup {e}
    /\ UNCHANGED <<queue, flush, processing, sends>>

(* Mutant: a flush is scheduled whether or not one is under way.           *)
ScheduleAnotherFlush ==
    /\ processing' = TRUE
    /\ \E f \in Flushes : flush[f] = NoFlush /\ flush' = [flush EXCEPT ![f] = Timer]

ScheduleQueueFlush ==
    IF processing
    THEN UNCHANGED <<processing, flush>>
    ELSE /\ processing' = TRUE
         /\ \E f \in Flushes : flush[f] = NoFlush /\ flush' = [flush EXCEPT ![f] = Timer]

(* Mutant: room is made only once the queue is over its limit.             *)
EnqueueRetryOffByOne(e) ==
    /\ queue' = Append(IF Len(queue) > MaxQueue THEN Tail(queue) ELSE queue,
                       [event |-> e, attempts |-> 1])
    /\ ScheduleQueueFlush

(* The oldest entry makes room when the queue is full.                     *)
EnqueueRetry(e) ==
    /\ queue' = Append(IF Len(queue) >= MaxQueue THEN Tail(queue) ELSE queue,
                       [event |-> e, attempts |-> 1])
    /\ ScheduleQueueFlush

(* A status of 500 or more, a network error, or four seconds of silence.   *)
DirectFails(e) ==
    /\ e \in direct
    /\ direct' = direct \ {e}
    /\ EnqueueRetry(e)
    /\ UNCHANGED <<sends, answered>>

-----------------------------------------------------------------------------
(* The flush callback.                                                     *)

(* Mutant: the entry is left in the queue while it is sent.                *)
SendHeadInPlace(f) ==
    IF queue # <<>>
    THEN /\ flush' = [flush EXCEPT ![f] = Sending(Head(queue))]
         /\ sends' = [sends EXCEPT ![Head(queue).event] = @ + 1]
         /\ UNCHANGED <<queue, processing>>
    ELSE /\ flush' = [flush EXCEPT ![f] = NoFlush]
         /\ processing' = FALSE
         /\ UNCHANGED <<queue, sends>>

(* The while loop: take the oldest entry and POST it, or be done.          *)
SendHead(f) ==
    IF queue # <<>>
    THEN /\ flush' = [flush EXCEPT ![f] = Sending(Head(queue))]
         /\ queue' = Tail(queue)
         /\ sends' = [sends EXCEPT ![Head(queue).event] = @ + 1]
         /\ UNCHANGED processing
    ELSE /\ flush' = [flush EXCEPT ![f] = NoFlush]
         /\ processing' = FALSE
         /\ UNCHANGED <<queue, sends>>

TimerFires(f) ==
    /\ flush[f] = Timer
    /\ SendHead(f)
    /\ UNCHANGED <<direct, answered>>

ResendAnswered(f) ==
    /\ flush[f].pc = "sending"
    /\ answered' = answered \cup {flush[f].item.event}
    /\ SendHead(f)
    /\ UNCHANGED direct

(* Mutants of Requeued: one resend too many; one too few.                  *)
RequeuedOnceMore(item) ==
    IF item.attempts <= MaxAttempts
    THEN Append(queue, [item EXCEPT !.attempts = @ + 1]) ELSE queue

RequeuedOnceLess(item) ==
    IF item.attempts + 1 < MaxAttempts
    THEN Append(queue, [item EXCEPT !.attempts = @ + 1]) ELSE queue

(* The entry goes to the back, whatever the length of the queue.           *)
Requeued(item) ==
    IF item.attempts < MaxAttempts
    THEN Append(queue, [item EXCEPT !.attempts = @ + 1]) ELSE queue

(* Mutant of ResendFails: the finally block only clears the flag.          *)
ResendFailsUnscheduled(f) ==
    /\ flush[f].pc = "sending"
    /\ queue' = Requeued(flush[f].item)
    /\ flush' = [flush EXCEPT ![f] = NoFlush]
    /\ processing' = FALSE
    /\ UNCHANGED <<direct, sends, answered>>

(* One failure ends this flush; the finally block schedules the next one   *)
(* when entries are left.                                                  *)
ResendFails(f) ==
    /\ flush[f].pc = "sending"
    /\ queue' = Requeued(flush[f].item)
    /\ flush' = [flush EXCEPT ![f] = IF queue' # <<>> THEN Timer ELSE NoFlush]
    /\ processing' = (queue' # <<>>)
    /\ UNCHANGED <<direct, sends, answered>>

Next ==
    \/ \E e \in Events : Capture(e) \/ DirectAnswered(e) \/ DirectFails(e)
    \/ \E f \in Flushes : TimerFires(f) \/ ResendAnswered(f) \/ ResendFails(f)

Spec == Init /\ [][Next]_vars

(* The abort timer ends every POST after four seconds, and timers fire.    *)
Fairness ==
    /\ \A e \in Events : WF_vars(DirectAnswered(e) \/ DirectFails(e))
    /\ \A f \in Flushes : WF_vars(TimerFires(f) \/ ResendAnswered(f) \/ ResendFails(f))

FairSpec == Spec /\ Fairness

-----------------------------------------------------------------------------
Busy == {f \in Flushes : flush[f] # NoFlush}

(* One flush at a time, and one whenever an event waits: the flag that a   *)
(* failed flush clears and sets again, and that captures test in between,  *)
(* never lets a second timer in and never strands the queue.               *)
OneFlush ==
    /\ \A f, g \in Busy : f = g
    /\ processing <=> Busy # {}
    /\ queue # <<>> => processing

(* A failed resend is pushed back without looking at the length, so the    *)
(* queue can exceed its limit, but never by more than that one entry.      *)
QueueBound ==
    Len(queue) <= IF \E f \in Flushes : flush[f].pc = "sending" THEN MaxQueue ELSE MaxQueue + 1

(* An event is sent once directly and at most MaxAttempts times more, the  *)
(* count its queue entry carries being the number of POSTs made.           *)
SendsCounted ==
    /\ \A n \in 1..Len(queue) : sends[queue[n].event] = queue[n].attempts
    /\ \A f \in Flushes : flush[f].pc = "sending" =>
          sends[flush[f].item.event] = flush[f].item.attempts + 1
    /\ \A e \in Events : sends[e] <= MaxAttempts + 1

Queued(e) == \E n \in 1..Len(queue) : queue[n].event = e
Resending(e) == \E f \in Flushes : flush[f].pc = "sending" /\ flush[f].item.event = e
Held(e) == e \in direct \/ Queued(e) \/ Resending(e)

(* An event is in one place at a time, so no two POSTs of it are in flight *)
(* together, and one the server has answered is never sent again.          *)
OneCopy ==
    /\ \A m, n \in 1..Len(queue) : queue[m].event = queue[n].event => m = n
    /\ \A e \in Events :
          /\ ~(e \in direct /\ Queued(e))
          /\ ~(e \in direct /\ Resending(e))
          /\ ~(Queued(e) /\ Resending(e))
          /\ Held(e) => e \notin answered /\ sends[e] > 0

(* An unanswered event is given up only after all its resends, or when a   *)
(* full queue needs room for a newer one.                                  *)
GivenUpOnlyLate ==
    [][\A e \in Events : Held(e) /\ ~Held(e)' =>
          \/ e \in answered'
          \/ sends[e] = MaxAttempts + 1
          \/ Len(queue) >= MaxQueue /\ Queued(e)]_vars

(* No event is held for ever, whatever fails.                              *)
EverySendEnds == \A e \in Events : Held(e) ~> ~Held(e)
=============================================================================

------------------------ MODULE SdkRetryQueue_proofs ------------------------
(***************************************************************************)
(* For every queue limit, number of attempts and set of events: a single   *)
(* flush exists exactly while the flag says so, an event waiting in the    *)
(* queue always has one, and the queue exceeds its limit by at most one    *)
(* entry.  The overshoot bound rests on the single flush: the entry that   *)
(* is pushed back without a look at the length is the one that a flush     *)
(* took out before, and no other flush can have taken another.  Every      *)
(* event is in one place, its POSTs are counted by the entry that stands   *)
(* for it, and it is let go only answered, used up or pushed out.          *)
(***************************************************************************)
EXTENDS SdkRetryQueue, SequenceTheorems, TLAPS

FlushRow == {NoFlush, Timer} \cup {Sending(item) : item \in Item}

SomeSending == \E f \in Flushes : flush[f].pc = "sending"

(* The inductive invariant.                                                *)
IInv == TypeOK /\ OneFlush /\ QueueBound

(* The three shapes of a flush are told apart by their pc, and only one    *)
(* that sends carries an entry.                                            *)
LEMMA FlushShapes ==
    /\ NoFlush # Timer
    /\ NoFlush.pc = "none" /\ Timer.pc = "timer"
    /\ \A row \in FlushRow :
          /\ row.pc = "sending" => row.item \in Item /\ row # NoFlush
          /\ row.pc # "sending" => row \in {NoFlush, Timer}
    /\ \A item \in Item : /\ Sending(item) \in FlushRow
                          /\ Sending(item) # NoFlush
                          /\ Sending(item).pc = "sending"
<1>1. NoFlush # Timer /\ NoFlush.pc = "none" /\ Timer.pc = "timer"
    BY DEF NoFlush, Timer
<1>2. ASSUME NEW item \in Item
      PROVE  /\ Sending(item) \in FlushRow
             /\ Sending(item).pc = "sending"
             /\ Sending(item).item = item
    BY DEF Sending, FlushRow
<1>3. \A row \in FlushRow : row \in {NoFlush, Timer} \/ \E item \in Item : row = Sending(item)
    BY DEF FlushRow
<1> QED BY <1>1, <1>2, <1>3

(* What Tail and Append do to a queue of items.                            *)
LEMMA QueueOps ==
    ASSUME NEW q \in Seq(Item)
    PROVE  /\ Len(q) \in Nat
           /\ \A item \in Item : /\ Append(q, item) \in Seq(Item)
                                 /\ Len(Append(q, item)) = Len(q) + 1
                                 /\ Append(q, item) # <<>>
           /\ q # <<>> => /\ Len(q) > 0
                          /\ Head(q) \in Item
                          /\ Tail(q) \in Seq(Item)
                          /\ Len(Tail(q)) = Len(q) - 1
<1>1. Len(q) \in Nat /\ (q # <<>> => Len(q) > 0)
    BY EmptySeq, LenProperties
<1> QED BY <1>1, AppendProperties, HeadTailProperties

LEMMA InitIInv == Init => IInv
<1> SUFFICES ASSUME Init PROVE IInv
    OBVIOUS
<1>1. TypeOK
  <2>1. <<>> \in Seq(Item)
      OBVIOUS
  <2>2. flush \in [Flushes -> {NoFlush, Timer} \cup {Sending(item) : item \in Item}]
      BY DEF Init
  <2> QED BY <2>1, <2>2 DEF Init, TypeOK
<1>2. Busy = {}
    BY DEF Init, Busy
<1>3. OneFlush
    BY <1>2 DEF Init, OneFlush
<1>4. QueueBound
    BY QueueAssumption DEF Init, QueueBound
<1> QED BY <1>1, <1>3, <1>4 DEF IInv

(* The flush f takes the next entry or ends: it is the only flush before   *)
(* and, if it goes on, after.                                              *)
LEMMA SendHeadStep ==
    ASSUME IInv, NEW f \in Flushes, flush[f] # NoFlush, SendHead(f)
    PROVE  /\ queue' \in Seq(Item)
           /\ flush' \in [Flushes -> FlushRow]
           /\ processing' \in BOOLEAN
           /\ sends' \in [Events -> Nat]
           /\ OneFlush'
           /\ QueueBound'
<1> USE DEF IInv
<1>1. \A g \in Flushes : g # f => flush[g] = NoFlush
    BY DEF OneFlush, Busy
<1>2. processing
    BY DEF OneFlush, Busy
<1>3. flush \in [Flushes -> FlushRow]
    BY DEF TypeOK, FlushRow
<1>4. CASE queue # <<>>
  <2>1. PICK item \in Item : item = Head(queue)
      BY <1>4, QueueOps DEF TypeOK
  <2>2. /\ flush' = [flush EXCEPT ![f] = Sending(item)]
        /\ queue' = Tail(queue)
        /\ sends' = [sends EXCEPT ![item.event] = @ + 1]
        /\ processing' = processing
      BY <1>4, <2>1 DEF SendHead
  <2>3. queue' \in Seq(Item) /\ Len(queue') = Len(queue) - 1
      BY <1>4, <2>2, QueueOps DEF TypeOK
  <2>4. flush' \in [Flushes -> FlushRow]
      BY <1>3, <2>2, FlushShapes
  <2>5. sends' \in [Events -> Nat]
      BY <2>2 DEF TypeOK, Item
  <2>6. flush'[f].pc = "sending" /\ flush'[f] # NoFlush
      BY <1>3, <2>2, FlushShapes
  <2>7. \A g \in Flushes : g # f => flush'[g] = NoFlush
      BY <1>1, <1>3, <2>2
  <2>8. OneFlush'
      BY <1>2, <2>2, <2>6, <2>7 DEF OneFlush, Busy
  <2>9. Len(queue) <= MaxQueue + 1
      BY QueueOps, QueueAssumption DEF QueueBound, TypeOK
  <2>10. QueueBound'
    <3>1. Len(queue') <= MaxQueue
        BY <2>3, <2>9, QueueOps, QueueAssumption DEF TypeOK
    <3> QED BY <2>6, <3>1 DEF QueueBound
  <2> QED BY <1>2, <2>2, <2>3, <2>4, <2>5, <2>8, <2>10
<1>5. CASE queue = <<>>
  <2>1. /\ flush' = [flush EXCEPT ![f] = NoFlush]
        /\ processing' = FALSE
        /\ queue' = queue /\ sends' = sends
      BY <1>5 DEF SendHead
  <2>2. flush' \in [Flushes -> FlushRow]
      BY <1>3, <2>1 DEF FlushRow
  <2>3. \A g \in Flushes : flush'[g] = NoFlush
      BY <1>1, <1>3, <2>1
  <2>4. OneFlush'
      BY <1>5, <2>1, <2>3 DEF OneFlush, Busy
  <2>5. QueueBound'
    <3>1. Len(queue') = 0
        BY <1>5, <2>1
    <3> QED BY <3>1, QueueAssumption DEF QueueBound
  <2> QED BY <2>1, <2>2, <2>4, <2>5 DEF TypeOK
<1> QED BY <1>4, <1>5

(* A direct POST fails: the entry it leaves keeps the bound, and a flush   *)
(* is scheduled unless one is under way.                                   *)
LEMMA EnqueueRetryStep ==
    ASSUME IInv, NEW e \in Events, EnqueueRetry(e)
    PROVE  /\ queue' \in Seq(Item)
           /\ flush' \in [Flushes -> FlushRow]
           /\ processing' \in BOOLEAN
           /\ OneFlush'
           /\ QueueBound'
<1> USE DEF IInv
<1>1. PICK item \in Item : item = [event |-> e, attempts |-> 1]
  <2>1. 1 \in 1..MaxAttempts
      BY AttemptsAssumption
  <2> QED BY <2>1 DEF Item
<1>2. PICK kept \in Seq(Item) :
          /\ kept = IF Len(queue) >= MaxQueue THEN Tail(queue) ELSE queue
          /\ \/ Len(queue) >= MaxQueue /\ Len(kept) = Len(queue) - 1
             \/ Len(queue) < MaxQueue /\ kept = queue
  <2>1. CASE Len(queue) >= MaxQueue
    <3>1. queue # <<>>
        BY <2>1, QueueAssumption
    <3> QED BY <2>1, <3>1, QueueOps DEF TypeOK
  <2>2. CASE ~(Len(queue) >= MaxQueue)
      BY <2>2, QueueOps, QueueAssumption DEF TypeOK
  <2> QED BY <2>1, <2>2
<1>3. queue' = Append(kept, item)
    BY <1>1, <1>2 DEF EnqueueRetry
<1>4. queue' \in Seq(Item) /\ queue' # <<>> /\ Len(queue') = Len(kept) + 1
    BY <1>3, QueueOps
<1>5. Len(queue') <= Len(queue) \/ Len(queue') <= MaxQueue
    BY <1>2, <1>4, QueueOps, QueueAssumption DEF TypeOK
<1>6. flush \in [Flushes -> FlushRow]
    BY DEF TypeOK, FlushRow
<1>7. CASE processing
  <2>1. processing' = processing /\ flush' = flush
      BY <1>7 DEF EnqueueRetry, ScheduleQueueFlush
  <2>2. OneFlush'
      BY <1>7, <2>1 DEF OneFlush, Busy
  <2>3. QueueBound'
      BY <1>4, <1>5, <2>1, QueueOps, QueueAssumption DEF QueueBound, TypeOK
  <2> QED BY <1>4, <1>6, <1>7, <2>1, <2>2, <2>3
<1>8. CASE ~processing
  <2>1. PICK f \in Flushes : /\ processing' = TRUE
                             /\ flush' = [flush EXCEPT ![f] = Timer]
      BY <1>8 DEF EnqueueRetry, ScheduleQueueFlush
  <2>2. \A g \in Flushes : flush[g] = NoFlush
      BY <1>8 DEF OneFlush, Busy
  <2>3. flush' \in [Flushes -> FlushRow]
      BY <1>6, <2>1 DEF FlushRow
  <2>4. /\ flush'[f] = Timer
        /\ \A g \in Flushes : g # f => flush'[g] = NoFlush
      BY <1>6, <2>1, <2>2
  <2>5. OneFlush'
      BY <2>1, <2>4, FlushShapes DEF OneFlush, Busy
  <2>6. ~SomeSending /\ ~SomeSending'
      BY <2>2, <2>4, FlushShapes DEF SomeSending
  <2>7. QueueBound'
      BY <1>4, <1>5, <2>6, QueueOps, QueueAssumption DEF QueueBound, SomeSending, TypeOK
  <2> QED BY <1>4, <2>1, <2>3, <2>5, <2>7
<1> QED BY <1>7, <1>8

(* A resend fails: only the flush that sent it goes on, as a timer, and    *)
(* the entry it pushes back is the only one above the limit.               *)
LEMMA ResendFailsStep ==
    ASSUME IInv, NEW f \in Flushes, ResendFails(f)
    PROVE  /\ queue' \in Seq(Item)
           /\ flush' \in [Flushes -> FlushRow]
           /\ processing' \in BOOLEAN
           /\ OneFlush'
           /\ QueueBound'
<1> USE DEF IInv
<1>1. flush \in [Flushes -> FlushRow]
    BY DEF TypeOK, FlushRow
<1>2. PICK item \in Item : item = flush[f].item
    BY <1>1, FlushShapes DEF ResendFails
<1>3. flush[f].pc = "sending" /\ flush[f] # NoFlush
    BY <1>1, FlushShapes DEF ResendFails
<1>4. \A g \in Flushes : g # f => flush[g] = NoFlush
    BY <1>3 DEF OneFlush, Busy
<1>5. queue' = Requeued(item)
    BY <1>2 DEF ResendFails
<1>6. /\ queue' \in Seq(Item)
      /\ Len(queue') <= Len(queue) + 1
  <2>1. CASE item.attempts < MaxAttempts
    <3>1. PICK again \in Item : again = [item EXCEPT !.attempts = @ + 1]
      <4>1. item.attempts \in 1..MaxAttempts
          BY DEF Item
      <4>2. item.attempts + 1 \in 1..MaxAttempts
          BY <2>1, <4>1, AttemptsAssumption
      <4> QED BY <4>2 DEF Item
    <3>2. queue' = Append(queue, again)
        BY <1>5, <2>1, <3>1 DEF Requeued
    <3> QED BY <3>2, QueueOps DEF TypeOK
  <2>2. CASE ~(item.attempts < MaxAttempts)
      BY <1>5, <2>2, QueueOps DEF Requeued, TypeOK
  <2> QED BY <2>1, <2>2
<1>7. Len(queue) <= MaxQueue
    BY <1>3 DEF QueueBound
<1>8. PICK row \in {NoFlush, Timer} :
          /\ row = (IF queue' # <<>> THEN Timer ELSE NoFlush)
          /\ flush' = [flush EXCEPT ![f] = row]
    BY DEF ResendFails
<1>9. processing' = (queue' # <<>>)
    BY DEF ResendFails
<1>10. flush' \in [Flushes -> FlushRow]
    BY <1>1, <1>8 DEF FlushRow
<1>11. flush'[f] = row /\ \A g \in Flushes : g # f => flush'[g] = NoFlush
    BY <1>1, <1>4, <1>8
<1>12. OneFlush'
  <2>1. \A g, h \in Busy' : g = h
      BY <1>11 DEF Busy
  <2>2. CASE queue' # <<>>
    <3>1. f \in Busy' /\ processing'
        BY <1>8, <1>9, <1>11, <2>2, FlushShapes DEF Busy
    <3> QED BY <2>1, <3>1 DEF OneFlush
  <2>3. CASE queue' = <<>>
    <3>1. Busy' = {} /\ ~processing'
        BY <1>8, <1>9, <1>11, <2>3 DEF Busy
    <3> QED BY <2>1, <2>3, <3>1 DEF OneFlush
  <2> QED BY <2>2, <2>3
<1>13. ~SomeSending'
    BY <1>8, <1>11, FlushShapes DEF SomeSending
<1>14. QueueBound'
    BY <1>6, <1>7, <1>13, QueueOps, QueueAssumption DEF QueueBound, SomeSending, TypeOK
<1> QED BY <1>6, <1>9, <1>10, <1>12, <1>14

(* OneFlush and QueueBound speak only of the queue, the flushes and the    *)
(* flag.                                                                   *)
LEMMA Unmoved ==
    ASSUME IInv, UNCHANGED <<queue, flush, processing>>
    PROVE  OneFlush' /\ QueueBound'
BY DEF IInv, OneFlush, QueueBound, Busy

LEMMA NextIInv == IInv /\ [Next]_vars => IInv'
<1> SUFFICES ASSUME IInv, [Next]_vars PROVE IInv'
    OBVIOUS
<1>1. ASSUME NEW e \in Events, Capture(e) PROVE IInv'
  <2>1. TypeOK'
      BY <1>1 DEF IInv, TypeOK, Capture
  <2> QED BY <1>1, <2>1, Unmoved DEF IInv, Capture
<1>2. ASSUME NEW e \in Events, DirectAnswered(e) PROVE IInv'
  <2>1. TypeOK'
      BY <1>2 DEF IInv, TypeOK, DirectAnswered
  <2> QED BY <1>2, <2>1, Unmoved DEF IInv, DirectAnswered
<1>3. ASSUME NEW e \in Events, DirectFails(e) PROVE IInv'
  <2>1. EnqueueRetry(e) /\ UNCHANGED <<sends, answered>> /\ direct' \subseteq Events
      BY <1>3 DEF IInv, TypeOK, DirectFails
  <2> QED BY <2>1, EnqueueRetryStep DEF IInv, TypeOK, FlushRow
<1>4. ASSUME NEW f \in Flushes, TimerFires(f) PROVE IInv'
  <2>1. flush[f] # NoFlush /\ SendHead(f) /\ UNCHANGED <<direct, answered>>
      BY <1>4, FlushShapes DEF TimerFires
  <2> QED BY <2>1, SendHeadStep DEF IInv, TypeOK, FlushRow
<1>5. ASSUME NEW f \in Flushes, ResendAnswered(f) PROVE IInv'
  <2>1. flush[f] \in FlushRow /\ flush[f].pc = "sending"
      BY <1>5 DEF IInv, TypeOK, FlushRow, ResendAnswered
  <2>2. flush[f] # NoFlush /\ flush[f].item.event \in Events
      BY <2>1, FlushShapes DEF Item
  <2>3. SendHead(f) /\ direct' = direct /\ answered' \subseteq Events
      BY <1>5, <2>2 DEF ResendAnswered, IInv, TypeOK
  <2> QED BY <2>2, <2>3, SendHeadStep DEF IInv, TypeOK, FlushRow
<1>6. ASSUME NEW f \in Flushes, ResendFails(f) PROVE IInv'
  <2>1. UNCHANGED <<direct, sends, answered>>
      BY <1>6 DEF ResendFails
  <2> QED BY <1>6, <2>1, ResendFailsStep DEF IInv, TypeOK, FlushRow
<1>7. CASE UNCHANGED vars
  <2>1. TypeOK'
      BY <1>7 DEF IInv, TypeOK, vars
  <2> QED BY <1>7, <2>1, Unmoved DEF IInv, vars
<1> QED BY <1>1, <1>2, <1>3, <1>4, <1>5, <1>6, <1>7 DEF Next

(* Types, the single flush and the bound hold in every reachable state of  *)
(* the SDK's retry queue (packages/sdk-node/src/index.ts).                 *)
THEOREM QueueInvariance == Spec => [](TypeOK /\ OneFlush /\ QueueBound)
BY InitIInv, NextIInv, PTL DEF Spec, IInv

(* A single flush, present whenever an event waits (scheduleQueueFlush).   *)
THEOREM SingleFlush == Spec => []OneFlush
<1>1. TypeOK /\ OneFlush /\ QueueBound => OneFlush
    OBVIOUS
<1> QED BY <1>1, QueueInvariance, PTL

(* The queue never holds more than one entry above MAX_QUEUE_SIZE.         *)
THEOREM QueueStaysBounded == Spec => []QueueBound
<1>1. TypeOK /\ OneFlush /\ QueueBound => QueueBound
    OBVIOUS
<1> QED BY <1>1, QueueInvariance, PTL

-----------------------------------------------------------------------------
(***************************************************************************)
(* Where an event is, and how often it was sent.  The counts rest on the   *)
(* places: an entry's count stays right because no second copy of the      *)
(* event can be sent meanwhile, and the places rest on the counts, since   *)
(* only an event never sent can be captured.                               *)
(***************************************************************************)

(* The first POST is the only one so far, and an answer needs a POST.      *)
SentInv ==
    /\ \A e \in direct : sends[e] = 1
    /\ \A e \in answered : sends[e] > 0

PlaceInv == SendsCounted /\ OneCopy /\ SentInv

In(q, e) == \E n \in 1..Len(q) : q[n].event = e

(* A queue that holds no event twice, its counts those of s.               *)
Sound(q, s) ==
    /\ \A m, n \in 1..Len(q) : q[m].event = q[n].event => m = n
    /\ \A n \in 1..Len(q) : s[q[n].event] = q[n].attempts

(* Taking the head out takes exactly its event out.                        *)
LEMMA TailSound ==
    ASSUME NEW q \in Seq(Item), q # <<>>,
           NEW s \in [Events -> Nat], NEW t \in [Events -> Nat], Sound(q, s),
           \A e \in Events : e # Head(q).event => t[e] = s[e]
    PROVE  /\ Sound(Tail(q), t)
           /\ s[Head(q).event] = Head(q).attempts
           /\ In(q, Head(q).event)
           /\ \A e \in Events : In(Tail(q), e) <=> In(q, e) /\ e # Head(q).event
<1>1. /\ Len(q) \in Nat /\ Len(q) > 0
      /\ Tail(q) \in Seq(Item) /\ Len(Tail(q)) = Len(q) - 1
    BY QueueOps
<1>2. \A n \in 1..Len(Tail(q)) : Tail(q)[n] = q[n + 1] /\ n + 1 \in 1..Len(q)
    BY <1>1, HeadTailProperties
<1>3. 1 \in 1..Len(q) /\ Head(q) = q[1]
    BY <1>1
<1>4. \A n \in 1..Len(q) : q[n].event \in Events
  <2> TAKE n \in 1..Len(q)
  <2>1. q[n] \in Item
      BY ElementOfSeq
  <2> QED BY <2>1 DEF Item
<1>5. \A n \in 1..Len(Tail(q)) : Tail(q)[n].event # Head(q).event
  <2> TAKE n \in 1..Len(Tail(q))
  <2>1. n + 1 \in 1..Len(q) /\ n + 1 # 1 /\ Tail(q)[n] = q[n + 1]
      BY <1>1, <1>2
  <2> QED BY <1>3, <2>1 DEF Sound
<1>6. Sound(Tail(q), t)
  <2>1. ASSUME NEW m \in 1..Len(Tail(q)), NEW n \in 1..Len(Tail(q)),
               Tail(q)[m].event = Tail(q)[n].event
        PROVE  m = n
    <3>1. m + 1 = n + 1
        BY <1>2, <2>1 DEF Sound
    <3> QED BY <1>1, <3>1
  <2>2. ASSUME NEW n \in 1..Len(Tail(q))
        PROVE  t[Tail(q)[n].event] = Tail(q)[n].attempts
    <3>1. Tail(q)[n].event \in Events /\ Tail(q)[n].event # Head(q).event
        BY <1>2, <1>4, <1>5
    <3>2. s[Tail(q)[n].event] = Tail(q)[n].attempts
        BY <1>2 DEF Sound
    <3> QED BY <3>1, <3>2
  <2> QED BY <2>1, <2>2 DEF Sound
<1>7. ASSUME NEW e \in Events
      PROVE  In(Tail(q), e) <=> In(q, e) /\ e # Head(q).event
  <2>1. In(Tail(q), e) => In(q, e) /\ e # Head(q).event
      BY <1>2, <1>5 DEF In
  <2>2. ASSUME NEW n \in 1..Len(q), q[n].event = e, e # Head(q).event
        PROVE  In(Tail(q), e)
    <3>1. n # 1
        BY <1>3, <2>2
    <3>2. n - 1 \in 1..Len(Tail(q)) /\ (n - 1) + 1 = n
        BY <1>1, <3>1
    <3>3. Tail(q)[n - 1] = q[n]
        BY <1>2, <3>2
    <3> QED BY <2>2, <3>2, <3>3 DEF In
  <2> QED BY <2>1, <2>2 DEF In
<1>8. s[Head(q).event] = Head(q).attempts /\ In(q, Head(q).event)
    BY <1>3 DEF Sound, In
<1> QED BY <1>6, <1>7, <1>8

(* An entry of an event that is not in the queue keeps it sound.           *)
LEMMA AppendSound ==
    ASSUME NEW q \in Seq(Item), NEW item \in Item,
           NEW s \in [Events -> Nat], Sound(q, s),
           ~In(q, item.event), s[item.event] = item.attempts
    PROVE  /\ Sound(Append(q, item), s)
           /\ \A e \in Events : In(Append(q, item), e) <=> In(q, e) \/ e = item.event
<1> DEFINE r == Append(q, item)
<1>1. Len(q) \in Nat /\ Len(r) = Len(q) + 1
    BY QueueOps
<1>2. /\ \A n \in 1..Len(q) : r[n] = q[n]
      /\ r[Len(q) + 1] = item
    BY AppendProperties
<1>3. \A n \in 1..Len(r) : n \in 1..Len(q) \/ n = Len(q) + 1
    BY <1>1
<1>4. /\ \A n \in 1..Len(q) : n \in 1..Len(r)
      /\ Len(q) + 1 \in 1..Len(r)
    BY <1>1
<1> HIDE DEF r
<1>5. Sound(r, s)
  <2>1. ASSUME NEW m \in 1..Len(r), NEW n \in 1..Len(r), r[m].event = r[n].event
        PROVE  m = n
      BY <1>2, <1>3, <2>1 DEF Sound, In
  <2>2. ASSUME NEW n \in 1..Len(r) PROVE s[r[n].event] = r[n].attempts
      BY <1>2, <1>3 DEF Sound
  <2> QED BY <2>1, <2>2 DEF Sound
<1>6. \A e \in Events : In(r, e) <=> In(q, e) \/ e = item.event
    BY <1>2, <1>3, <1>4 DEF In
<1> QED BY <1>5, <1>6 DEF r

(* The invariant in terms of In and Sound.                                 *)
LEMMA PlaceParts ==
    PlaceInv <=>
      /\ Sound(queue, sends)
      /\ \A f \in Flushes : flush[f].pc = "sending" =>
            sends[flush[f].item.event] = flush[f].item.attempts + 1
      /\ \A e \in Events : sends[e] <= MaxAttempts + 1
      /\ \A e \in Events : Queued(e) <=> In(queue, e)
      /\ \A e \in Events :
            /\ ~(e \in direct /\ Queued(e))
            /\ ~(e \in direct /\ Resending(e))
            /\ ~(Queued(e) /\ Resending(e))
            /\ Held(e) => e \notin answered /\ sends[e] > 0
      /\ SentInv
BY DEF PlaceInv, SendsCounted, OneCopy, Sound, Queued, In

(* The same after a step.                                                  *)
LEMMA PlacePartsAfter ==
    ASSUME Sound(queue', sends'),
           \A f \in Flushes : flush'[f].pc = "sending" =>
              sends'[flush'[f].item.event] = flush'[f].item.attempts + 1,
           \A e \in Events : sends'[e] <= MaxAttempts + 1,
           \A e \in Events :
              /\ ~(e \in direct' /\ Queued(e)')
              /\ ~(e \in direct' /\ Resending(e)')
              /\ ~(Queued(e)' /\ Resending(e)')
              /\ Held(e)' => e \notin answered' /\ sends'[e] > 0,
           SentInv'
    PROVE  PlaceInv'
BY DEF PlaceInv, SendsCounted, OneCopy, Sound, Queued, In

(* One flush at most is not at rest, so it alone says what is resent.      *)
LEMMA ResendingAfter ==
    ASSUME flush \in [Flushes -> FlushRow], NEW f \in Flushes, NEW row \in FlushRow,
           \A g \in Flushes : g # f => flush[g] = NoFlush,
           flush' = [flush EXCEPT ![f] = row]
    PROVE  /\ \A g \in Flushes : flush'[g].pc = "sending" => g = f
           /\ flush'[f] = row
           /\ \A e : Resending(e)' <=> row.pc = "sending" /\ row.item.event = e
           /\ \A e : Resending(e) <=> flush[f].pc = "sending" /\ flush[f].item.event = e
<1>1. flush'[f] = row /\ \A g \in Flushes : g # f => flush'[g] = NoFlush
    OBVIOUS
<1>2. NoFlush.pc # "sending"
    BY FlushShapes
<1> QED BY <1>1, <1>2 DEF Resending

(* An event that is let go was answered, has had all its resends, or made  *)
(* room in a full queue.                                                   *)
Late(e) ==
    Held(e) /\ ~Held(e)' =>
        \/ e \in answered'
        \/ sends[e] = MaxAttempts + 1
        \/ Len(queue) >= MaxQueue /\ Queued(e)

(* The flush takes the head: the entry moves from the queue to the POST    *)
(* and its event is sent once more.  What f was sending before, if         *)
(* anything, is answered in the same step.                                 *)
LEMMA SendHeadPlaces ==
    ASSUME IInv, PlaceInv, NEW f \in Flushes, flush[f] # NoFlush, SendHead(f),
           direct' = direct,
           answered' = answered \cup
               (IF flush[f].pc = "sending" THEN {flush[f].item.event} ELSE {})
    PROVE  PlaceInv' /\ \A e \in Events : Late(e)
<1> USE DEF IInv
<1>1. \A g \in Flushes : g # f => flush[g] = NoFlush
    BY DEF OneFlush, Busy
<1>2. flush \in [Flushes -> FlushRow] /\ queue \in Seq(Item) /\ sends \in [Events -> Nat]
    BY DEF TypeOK, FlushRow
<1>3. CASE queue # <<>>
  <2>1. PICK item \in Item : item = Head(queue)
      BY <1>2, <1>3, QueueOps
  <2>2. /\ flush' = [flush EXCEPT ![f] = Sending(item)]
        /\ queue' = Tail(queue)
        /\ sends' = [sends EXCEPT ![item.event] = @ + 1]
      BY <1>3, <2>1 DEF SendHead
  <2>3. /\ item.event \in Events /\ item.attempts \in 1..MaxAttempts
        /\ Sending(item) \in FlushRow
        /\ Sending(item).pc = "sending" /\ Sending(item).item = item
      BY FlushShapes DEF Item, Sending
  <2>4. /\ sends' \in [Events -> Nat]
        /\ sends'[item.event] = sends[item.event] + 1
        /\ \A e \in Events : e # item.event => sends'[e] = sends[e]
      BY <1>2, <2>2, <2>3
  <2>5. Sound(queue, sends)
      BY PlaceParts
  <2>6. /\ Sound(queue', sends')
        /\ sends[item.event] = item.attempts
        /\ In(queue, item.event)
        /\ \A e \in Events : In(queue', e) <=> In(queue, e) /\ e # item.event
    <3>1. \A e \in Events : e # Head(queue).event => sends'[e] = sends[e]
        BY <2>1, <2>4
    <3> QED BY <1>2, <1>3, <2>1, <2>2, <2>4, <2>5, <3>1, TailSound
  <2>7. /\ \A e \in Events : Queued(e) <=> In(queue, e)
        /\ \A e \in Events : Queued(e)' <=> In(queue', e)
      BY DEF Queued, In
  <2>8. /\ \A g \in Flushes : flush'[g].pc = "sending" => g = f
        /\ flush'[f] = Sending(item)
        /\ \A e : Resending(e)' <=> e = item.event
        /\ \A e : Resending(e) <=> flush[f].pc = "sending" /\ flush[f].item.event = e
      BY <1>1, <1>2, <2>2, <2>3, ResendingAfter
  <2>9. /\ \A e \in Events : ~(e \in direct /\ Queued(e))
        /\ \A e \in Events : ~(e \in direct /\ Resending(e))
        /\ \A e \in Events : ~(Queued(e) /\ Resending(e))
        /\ \A e \in Events : Held(e) => e \notin answered /\ sends[e] > 0
        /\ \A e \in Events : sends[e] <= MaxAttempts + 1
        /\ SentInv
      BY PlaceParts
  <2>10. \A e : /\ Held(e) <=> e \in direct \/ Queued(e) \/ Resending(e)
                /\ Held(e)' <=> e \in direct' \/ Queued(e)' \/ Resending(e)'
      BY DEF Held
  <2>11. \A e \in Events : e \in answered' <=> e \in answered \/ Resending(e)
      BY <2>8
  <2>12. Queued(item.event)
      BY <2>3, <2>6, <2>7
  <2>13. \A g \in Flushes : flush'[g].pc = "sending" =>
            sends'[flush'[g].item.event] = flush'[g].item.attempts + 1
      BY <2>3, <2>4, <2>6, <2>8
  <2>14. \A e \in Events : sends'[e] <= MaxAttempts + 1
      BY <2>3, <2>4, <2>6, <2>9, AttemptsAssumption
  <2>15. SentInv'
    <3>1. ASSUME NEW e \in direct' PROVE sends'[e] = 1
      <4>1. e # item.event /\ e \in Events
          BY <2>3, <2>9, <2>12 DEF TypeOK
      <4> QED BY <2>4, <2>9, <4>1 DEF SentInv
    <3>2. ASSUME NEW e \in answered' PROVE sends'[e] > 0
      <4>1. e \in Events /\ (e \in answered \/ Resending(e))
        <5>1. flush[f].pc = "sending" => flush[f].item.event \in Events
            BY <1>2, FlushShapes DEF Item
        <5> QED BY <2>8, <5>1 DEF TypeOK
      <4>2. sends[e] > 0
          BY <2>9, <2>10, <4>1 DEF SentInv
      <4> QED BY <1>2, <2>3, <2>4, <4>1, <4>2
    <3> QED BY <3>1, <3>2 DEF SentInv
  <2>16. ASSUME NEW e \in Events
         PROVE  /\ ~(e \in direct' /\ Queued(e)')
                /\ ~(e \in direct' /\ Resending(e)')
                /\ ~(Queued(e)' /\ Resending(e)')
                /\ Held(e)' => e \notin answered' /\ sends'[e] > 0
                /\ Late(e)
    <3>1. Queued(e)' <=> Queued(e) /\ e # item.event
        BY <2>6, <2>7
    <3>2. /\ ~(e \in direct' /\ Queued(e)')
          /\ ~(e \in direct' /\ Resending(e)')
          /\ ~(Queued(e)' /\ Resending(e)')
        BY <2>8, <2>9, <2>12, <3>1
    <3>3. Held(e)' => Held(e) /\ ~Resending(e)
        BY <2>8, <2>9, <2>10, <2>12, <3>1
    <3>4. Held(e)' => e \notin answered' /\ sends'[e] > 0
      <4>1. sends[e] > 0 => sends'[e] > 0
          BY <1>2, <2>3, <2>4
      <4> QED BY <2>9, <2>11, <3>3, <4>1
    <3>5. Late(e)
        BY <2>8, <2>10, <2>11, <3>1 DEF Late
    <3> QED BY <3>2, <3>4, <3>5
  <2> QED BY <2>6, <2>13, <2>14, <2>15, <2>16, PlacePartsAfter
<1>4. CASE queue = <<>>
  <2>1. /\ flush' = [flush EXCEPT ![f] = NoFlush]
        /\ queue' = queue /\ sends' = sends
      BY <1>4 DEF SendHead
  <2>2. NoFlush \in FlushRow /\ NoFlush.pc # "sending"
      BY FlushShapes DEF FlushRow
  <2>3. /\ \A g \in Flushes : flush'[g].pc # "sending"
        /\ \A e : ~Resending(e)'
        /\ \A e : Resending(e) <=> flush[f].pc = "sending" /\ flush[f].item.event = e
      BY <1>1, <1>2, <2>1, <2>2, ResendingAfter
  <2>4. \A e : /\ Queued(e)' <=> Queued(e)
               /\ Held(e) <=> e \in direct \/ Queued(e) \/ Resending(e)
               /\ Held(e)' <=> e \in direct' \/ Queued(e)' \/ Resending(e)'
      BY <2>1 DEF Held, Queued
  <2>5. \A e \in Events : e \in answered' <=> e \in answered \/ Resending(e)
      BY <2>3
  <2>6. \A e \in answered' : sends'[e] > 0
    <3>1. flush[f].pc = "sending" => flush[f].item.event \in Events
        BY <1>2, FlushShapes DEF Item
    <3> QED BY <2>1, <2>3, <2>4, <3>1, PlaceParts DEF SentInv
  <2>7. \A e \in Events : Late(e)
      BY <2>4, <2>5 DEF Late
  <2>8. SentInv'
      BY <2>1, <2>6, PlaceParts DEF SentInv
  <2>9. /\ Sound(queue', sends')
        /\ \A e \in Events : sends'[e] <= MaxAttempts + 1
      BY <2>1, PlaceParts
  <2>10. ASSUME NEW e \in Events
         PROVE  /\ ~(e \in direct' /\ Queued(e)')
                /\ ~(e \in direct' /\ Resending(e)')
                /\ ~(Queued(e)' /\ Resending(e)')
                /\ Held(e)' => e \notin answered' /\ sends'[e] > 0
      BY <2>1, <2>3, <2>4, <2>5, PlaceParts
  <2> QED BY <2>3, <2>7, <2>8, <2>9, <2>10, PlacePartsAfter
<1> QED BY <1>3, <1>4

(* A direct POST fails: its event moves to the back of the queue, with one *)
(* POST on its count, and only a full queue lets its oldest entry go.      *)
LEMMA EnqueueRetryPlaces ==
    ASSUME IInv, PlaceInv, NEW x \in Events, DirectFails(x)
    PROVE  PlaceInv' /\ \A e \in Events : Late(e)
<1> USE DEF IInv
<1>1. flush \in [Flushes -> FlushRow] /\ queue \in Seq(Item) /\ sends \in [Events -> Nat]
    BY DEF TypeOK, FlushRow
<1>2. /\ x \in direct /\ direct' = direct \ {x}
      /\ sends' = sends /\ answered' = answered
    BY DEF DirectFails
<1>3. PICK item \in Item : item = [event |-> x, attempts |-> 1]
  <2>1. 1 \in 1..MaxAttempts
      BY AttemptsAssumption
  <2> QED BY <2>1 DEF Item
<1>4. item.event = x /\ item.attempts = 1
    BY <1>3
<1>5. /\ Sound(queue, sends)
      /\ \A e \in Events : Queued(e) <=> In(queue, e)
      /\ \A e \in Events : ~(e \in direct /\ Queued(e))
      /\ \A e \in Events : ~(e \in direct /\ Resending(e))
      /\ \A e \in Events : ~(Queued(e) /\ Resending(e))
      /\ \A e \in Events : Held(e) => e \notin answered /\ sends[e] > 0
      /\ \A e \in Events : sends[e] <= MaxAttempts + 1
      /\ SentInv
    BY PlaceParts
<1>6. PICK kept \in Seq(Item) :
          /\ kept = IF Len(queue) >= MaxQueue THEN Tail(queue) ELSE queue
          /\ Sound(kept, sends)
          /\ \A e \in Events : In(kept, e) => In(queue, e)
          /\ Len(queue) >= MaxQueue \/ kept = queue
  <2>1. CASE Len(queue) >= MaxQueue
    <3>1. queue # <<>>
        BY <2>1, QueueAssumption
    <3>2. Tail(queue) \in Seq(Item)
        BY <1>1, <3>1, QueueOps
    <3>3. Sound(Tail(queue), sends) /\ \A e \in Events : In(Tail(queue), e) => In(queue, e)
        BY <1>1, <1>5, <3>1, TailSound
    <3> QED BY <2>1, <3>2, <3>3
  <2>2. CASE ~(Len(queue) >= MaxQueue)
      BY <1>1, <1>5, <2>2
  <2> QED BY <2>1, <2>2
<1>7. queue' = Append(kept, item)
    BY <1>3, <1>6 DEF DirectFails, EnqueueRetry
<1>8. sends[x] = 1 /\ ~In(queue, x)
    BY <1>2, <1>5 DEF SentInv
<1>9. /\ Sound(queue', sends')
      /\ \A e \in Events : In(queue', e) <=> In(kept, e) \/ e = x
    BY <1>1, <1>2, <1>4, <1>6, <1>7, <1>8, AppendSound
<1>10. \A e : Queued(e)' <=> In(queue', e)
    BY DEF Queued, In
<1>11. \A g \in Flushes : flush'[g].pc = "sending" => flush'[g] = flush[g]
  <2>1. flush' = flush \/ \E f \in Flushes : flush' = [flush EXCEPT ![f] = Timer]
      BY DEF DirectFails, EnqueueRetry, ScheduleQueueFlush
  <2> QED BY <1>1, <2>1, FlushShapes
<1>12. \A g \in Flushes : flush[g].pc = "sending" => flush'[g] = flush[g]
  <2>1. \/ flush' = flush
        \/ \E f \in Flushes : flush[f] = NoFlush /\ flush' = [flush EXCEPT ![f] = Timer]
      BY DEF DirectFails, EnqueueRetry, ScheduleQueueFlush
  <2> QED BY <1>1, <2>1, FlushShapes
<1>13. \A e : Resending(e)' <=> Resending(e)
    BY <1>11, <1>12 DEF Resending
<1>14. \A e : /\ Held(e) <=> e \in direct \/ Queued(e) \/ Resending(e)
              /\ Held(e)' <=> e \in direct' \/ Queued(e)' \/ Resending(e)'
    BY DEF Held
<1>15. \A g \in Flushes : flush'[g].pc = "sending" =>
          sends'[flush'[g].item.event] = flush'[g].item.attempts + 1
    BY <1>2, <1>11, PlaceParts
<1>16. SentInv'
    BY <1>2, <1>5 DEF SentInv
<1>17. \A e \in Events : Queued(e)' => Queued(e) \/ e = x
    BY <1>5, <1>6, <1>9, <1>10
<1>18. \A e \in Events : Queued(e) => Queued(e)' \/ Len(queue) >= MaxQueue
    BY <1>5, <1>6, <1>9, <1>10
<1>19. Queued(x)'
    BY <1>9, <1>10
<1>20. ASSUME NEW e \in Events
       PROVE  /\ ~(e \in direct' /\ Queued(e)')
              /\ ~(e \in direct' /\ Resending(e)')
              /\ ~(Queued(e)' /\ Resending(e)')
              /\ Held(e)' => e \notin answered' /\ sends'[e] > 0
              /\ Late(e)
  <2>1. Held(e)' => Held(e)
      BY <1>2, <1>13, <1>14, <1>17
  <2>2. Late(e)
      BY <1>2, <1>13, <1>14, <1>18, <1>19 DEF Late
  <2> QED BY <1>2, <1>5, <1>13, <1>17, <2>1, <2>2
<1> QED BY <1>2, <1>5, <1>9, <1>15, <1>16, <1>20, PlacePartsAfter

(* A resend fails: the entry goes back with the POST just made on its      *)
(* count, or is let go after the last one.                                 *)
LEMMA ResendFailsPlaces ==
    ASSUME IInv, PlaceInv, NEW f \in Flushes, ResendFails(f)
    PROVE  PlaceInv' /\ \A e \in Events : Late(e)
<1> USE DEF IInv
<1>1. flush \in [Flushes -> FlushRow] /\ queue \in Seq(Item) /\ sends \in [Events -> Nat]
    BY DEF TypeOK, FlushRow
<1>2. /\ flush[f].pc = "sending"
      /\ direct' = direct /\ sends' = sends /\ answered' = answered
    BY DEF ResendFails
<1>3. PICK item \in Item : item = flush[f].item
    BY <1>1, <1>2, FlushShapes
<1>4. \A g \in Flushes : g # f => flush[g] = NoFlush
    BY <1>1, <1>2, FlushShapes DEF OneFlush, Busy
<1>5. item.event \in Events /\ item.attempts \in 1..MaxAttempts
    BY DEF Item
<1>6. /\ Sound(queue, sends)
      /\ sends[item.event] = item.attempts + 1
      /\ \A e \in Events : Queued(e) <=> In(queue, e)
      /\ \A e \in Events : ~(e \in direct /\ Queued(e))
      /\ \A e \in Events : ~(e \in direct /\ Resending(e))
      /\ \A e \in Events : ~(Queued(e) /\ Resending(e))
      /\ \A e \in Events : Held(e) => e \notin answered /\ sends[e] > 0
      /\ \A e \in Events : sends[e] <= MaxAttempts + 1
      /\ SentInv
    BY <1>2, <1>3, PlaceParts
<1>7. PICK row \in {NoFlush, Timer} : flush' = [flush EXCEPT ![f] = row]
    BY DEF ResendFails
<1>8. row \in FlushRow /\ row.pc # "sending"
    BY FlushShapes DEF FlushRow
<1>9. /\ \A g \in Flushes : flush'[g].pc # "sending"
      /\ \A e : ~Resending(e)'
      /\ \A e : Resending(e) <=> e = item.event
    BY <1>1, <1>2, <1>3, <1>4, <1>7, <1>8, ResendingAfter
<1>10. \A e : /\ Queued(e)' <=> In(queue', e)
              /\ Held(e) <=> e \in direct \/ Queued(e) \/ Resending(e)
              /\ Held(e)' <=> e \in direct' \/ Queued(e)' \/ Resending(e)'
    BY DEF Held, Queued, In
<1>11. ~In(queue, item.event) /\ item.event \notin direct
    BY <1>5, <1>6, <1>9
<1>12. SentInv'
    BY <1>2, <1>6 DEF SentInv
<1>13. CASE item.attempts < MaxAttempts
  <2>1. PICK again \in Item : again = [item EXCEPT !.attempts = @ + 1]
    <3>1. item.attempts + 1 \in 1..MaxAttempts
        BY <1>5, <1>13, AttemptsAssumption
    <3> QED BY <3>1 DEF Item
  <2>2. again.event = item.event /\ again.attempts = item.attempts + 1
      BY <2>1 DEF Item
  <2>3. queue' = Append(queue, again)
      BY <1>3, <1>13, <2>1 DEF ResendFails, Requeued
  <2>4. /\ Sound(queue', sends')
        /\ \A e \in Events : In(queue', e) <=> In(queue, e) \/ e = item.event
      BY <1>1, <1>2, <1>6, <1>11, <2>2, <2>3, AppendSound
  <2>5. ASSUME NEW e \in Events
        PROVE  /\ ~(e \in direct' /\ Queued(e)')
               /\ ~(e \in direct' /\ Resending(e)')
               /\ ~(Queued(e)' /\ Resending(e)')
               /\ Held(e)' => e \notin answered' /\ sends'[e] > 0
               /\ Late(e)
      BY <1>2, <1>6, <1>9, <1>10, <1>11, <2>4 DEF Late
  <2> QED BY <1>2, <1>6, <1>9, <1>12, <2>4, <2>5, PlacePartsAfter
<1>14. CASE ~(item.attempts < MaxAttempts)
  <2>1. queue' = queue
      BY <1>3, <1>14 DEF ResendFails, Requeued
  <2>2. sends[item.event] = MaxAttempts + 1
      BY <1>5, <1>6, <1>14, AttemptsAssumption
  <2>3. ASSUME NEW e \in Events
        PROVE  /\ ~(e \in direct' /\ Queued(e)')
               /\ ~(e \in direct' /\ Resending(e)')
               /\ ~(Queued(e)' /\ Resending(e)')
               /\ Held(e)' => e \notin answered' /\ sends'[e] > 0
               /\ Late(e)
      BY <1>2, <1>6, <1>9, <1>10, <1>11, <2>1, <2>2 DEF Late
  <2>4. Sound(queue', sends')
      BY <1>2, <1>6, <2>1
  <2> QED BY <1>2, <1>6, <1>9, <1>12, <2>3, <2>4, PlacePartsAfter
<1> QED BY <1>13, <1>14

(* A first POST is made or answered.                                       *)
LEMMA DirectPlaces ==
    ASSUME IInv, PlaceInv, NEW x \in Events, Capture(x) \/ DirectAnswered(x)
    PROVE  PlaceInv' /\ \A e \in Events : Late(e)
<1> USE DEF IInv
<1>1. /\ queue \in Seq(Item) /\ sends \in [Events -> Nat]
      /\ direct \subseteq Events /\ answered \subseteq Events
    BY DEF TypeOK
<1>2. /\ queue' = queue /\ flush' = flush
      /\ \/ /\ sends[x] = 0 /\ sends' = [sends EXCEPT ![x] = 1]
            /\ direct' = direct \cup {x} /\ answered' = answered
         \/ /\ x \in direct /\ sends' = sends
            /\ direct' = direct \ {x} /\ answered' = answered \cup {x}
    BY DEF Capture, DirectAnswered
<1>3. \A e : /\ Queued(e)' <=> Queued(e)
             /\ Resending(e)' <=> Resending(e)
             /\ Held(e) <=> e \in direct \/ Queued(e) \/ Resending(e)
             /\ Held(e)' <=> e \in direct' \/ Queued(e)' \/ Resending(e)'
    BY <1>2 DEF Held, Queued, Resending
<1>4. /\ Sound(queue, sends)
      /\ \A f \in Flushes : flush[f].pc = "sending" =>
            sends[flush[f].item.event] = flush[f].item.attempts + 1
      /\ \A e \in Events : Queued(e) <=> In(queue, e)
      /\ \A e \in Events : ~(e \in direct /\ Queued(e))
      /\ \A e \in Events : ~(e \in direct /\ Resending(e))
      /\ \A e \in Events : ~(Queued(e) /\ Resending(e))
      /\ \A e \in Events : Held(e) => e \notin answered /\ sends[e] > 0
      /\ \A e \in Events : sends[e] <= MaxAttempts + 1
      /\ SentInv
    BY PlaceParts
<1>5. \A e \in Events : e # x \/ Queued(e) \/ Resending(e) => sends'[e] = sends[e]
    BY <1>1, <1>2, <1>3, <1>4
<1>6. Sound(queue', sends')
  <2>1. \A n \in 1..Len(queue) : queue[n].event \in Events /\ Queued(queue[n].event)
    <3> TAKE n \in 1..Len(queue)
    <3>1. queue[n] \in Item
        BY <1>1, ElementOfSeq
    <3> QED BY <3>1 DEF Item, Queued
  <2> QED BY <1>2, <1>4, <1>5, <2>1 DEF Sound
<1>7. \A g \in Flushes : flush'[g].pc = "sending" =>
          sends'[flush'[g].item.event] = flush'[g].item.attempts + 1
  <2>1. ASSUME NEW g \in Flushes, flush[g].pc = "sending"
        PROVE  flush[g].item.event \in Events /\ Resending(flush[g].item.event)
    <3>1. flush[g].item \in Item
        BY <2>1, FlushShapes DEF TypeOK, FlushRow
    <3> QED BY <2>1, <3>1 DEF Item, Resending
  <2> QED BY <1>2, <1>4, <1>5, <2>1
<1>8. \A e \in Events : sends'[e] <= MaxAttempts + 1
    BY <1>1, <1>2, <1>4, AttemptsAssumption
<1>9. SentInv'
    BY <1>1, <1>2, <1>4 DEF SentInv
<1>10. ASSUME NEW e \in Events
       PROVE  /\ ~(e \in direct' /\ Queued(e)')
              /\ ~(e \in direct' /\ Resending(e)')
              /\ ~(Queued(e)' /\ Resending(e)')
              /\ Held(e)' => e \notin answered' /\ sends'[e] > 0
              /\ Late(e)
  <2>1. e = x /\ sends[x] = 0 => ~Held(e) /\ e \notin answered /\ e \notin direct
      BY <1>1, <1>4 DEF SentInv
  <2>2. /\ Queued(e)' <=> Queued(e)
        /\ Resending(e)' <=> Resending(e)
        /\ Held(e) <=> e \in direct \/ Queued(e) \/ Resending(e)
        /\ Held(e)' <=> e \in direct' \/ Queued(e)' \/ Resending(e)'
        /\ ~(e \in direct /\ Queued(e))
        /\ ~(e \in direct /\ Resending(e))
        /\ ~(Queued(e) /\ Resending(e))
        /\ Held(e) => e \notin answered /\ sends[e] > 0
      BY <1>3, <1>4
  <2>3. CASE /\ sends[x] = 0 /\ sends' = [sends EXCEPT ![x] = 1]
             /\ direct' = direct \cup {x} /\ answered' = answered
    <3>1. sends'[e] > 0 <=> sends[e] > 0 \/ e = x
        BY <1>1, <2>3
    <3> QED BY <2>1, <2>2, <2>3, <3>1 DEF Late
  <2>4. CASE /\ x \in direct /\ sends' = sends
             /\ direct' = direct \ {x} /\ answered' = answered \cup {x}
      BY <2>2, <2>4 DEF Late
  <2> QED BY <1>2, <2>3, <2>4
<1> QED BY <1>6, <1>7, <1>8, <1>9, <1>10, PlacePartsAfter

LEMMA InitPlaces == Init => PlaceInv
<1> SUFFICES ASSUME Init PROVE PlaceInv
    OBVIOUS
<1>1. 1..Len(queue) = {}
    BY DEF Init
<1>2. \A f \in Flushes : flush[f].pc # "sending"
    BY FlushShapes DEF Init
<1> QED BY <1>1, <1>2, AttemptsAssumption
        DEF Init, PlaceInv, SendsCounted, OneCopy, SentInv, Queued, Resending, Held

LEMMA NextPlaces ==
    IInv /\ PlaceInv /\ [Next]_vars => PlaceInv' /\ \A e \in Events : Late(e)
<1> SUFFICES ASSUME IInv, PlaceInv, [Next]_vars
             PROVE  PlaceInv' /\ \A e \in Events : Late(e)
    OBVIOUS
<1>1. ASSUME NEW e \in Events, Capture(e) \/ DirectAnswered(e) \/ DirectFails(e)
      PROVE  PlaceInv' /\ \A x \in Events : Late(x)
    BY <1>1, DirectPlaces, EnqueueRetryPlaces
<1>2. ASSUME NEW f \in Flushes, TimerFires(f) PROVE PlaceInv' /\ \A x \in Events : Late(x)
  <2>1. flush[f] # NoFlush /\ flush[f].pc # "sending" /\ SendHead(f)
        /\ direct' = direct /\ answered' = answered
      BY <1>2, FlushShapes DEF TimerFires
  <2> QED BY <2>1, SendHeadPlaces
<1>3. ASSUME NEW f \in Flushes, ResendAnswered(f)
      PROVE  PlaceInv' /\ \A x \in Events : Late(x)
  <2>1. flush[f] \in FlushRow /\ flush[f].pc = "sending"
      BY <1>3 DEF IInv, TypeOK, FlushRow, ResendAnswered
  <2>2. /\ flush[f] # NoFlush /\ SendHead(f) /\ direct' = direct
        /\ answered' = answered \cup {flush[f].item.event}
      BY <1>3, <2>1, FlushShapes DEF ResendAnswered
  <2> QED BY <2>1, <2>2, SendHeadPlaces
<1>4. ASSUME NEW f \in Flushes, ResendFails(f)
      PROVE  PlaceInv' /\ \A x \in Events : Late(x)
    BY <1>4, ResendFailsPlaces
<1>5. CASE UNCHANGED vars
    BY <1>5 DEF vars, PlaceInv, SendsCounted, OneCopy, SentInv, Held, Queued, Resending, Late
<1> QED BY <1>1, <1>2, <1>3, <1>4, <1>5 DEF Next

(* Where every event is and how often it was sent, in every reachable      *)
(* state.                                                                  *)
LEMMA PlacesInvariance == Spec => [](IInv /\ PlaceInv)
BY InitIInv, NextIInv, InitPlaces, NextPlaces, PTL DEF Spec

(* A queue entry counts the POSTs made of its event, and none is made      *)
(* beyond the first and MaxAttempts resends (processRetryQueue).           *)
THEOREM CountedSends == Spec => []SendsCounted
<1>1. IInv /\ PlaceInv => SendsCounted
    BY DEF PlaceInv
<1> QED BY <1>1, PlacesInvariance, PTL

(* An event is with its first POST, in the queue once, or being resent,    *)
(* and an answered one is nowhere: no two POSTs of it are ever in flight   *)
(* together and the server's answer is the last word (processRetryQueue    *)
(* takes the entry out before it awaits the POST).                         *)
THEOREM OnePlaceEach == Spec => []OneCopy
<1>1. IInv /\ PlaceInv => OneCopy
    BY DEF PlaceInv
<1> QED BY <1>1, PlacesInvariance, PTL

(* No step lets an unanswered event go before its last resend, except for  *)
(* room in a full queue.                                                   *)
THEOREM NothingDroppedEarly == Spec => GivenUpOnlyLate
<1>1. IInv /\ PlaceInv /\ [Next]_vars =>
        [\A e \in Events : Held(e) /\ ~Held(e)' =>
            \/ e \in answered'
            \/ sends[e] = MaxAttempts + 1
            \/ Len(queue) >= MaxQueue /\ Queued(e)]_vars
    BY NextPlaces DEF Late
<1> QED BY <1>1, PlacesInvariance, PTL DEF Spec, GivenUpOnlyLate
=============================================================================

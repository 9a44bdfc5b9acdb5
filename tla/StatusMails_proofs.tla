-------------------------- MODULE StatusMails_proofs --------------------------
(***************************************************************************)
(* For any messages, numbers of recipients, tries and stalls, and with any *)
(* number of faults: a completed job has reached every recipient, and no   *)
(* recipient has more copies than one before it in the list.  The reason   *)
(* is that an attempt goes through the list in order and stops at the      *)
(* first failure, since "made" never reaches MaxTries.  The link in a      *)
(* status mail works, in any interleaving of requests, updates and jobs.   *)
(* And the log is off by no more than the faults there were.               *)
(***************************************************************************)
EXTENDS StatusMails, FiniteSetTheorems, TLAPS

(* The recipients the running attempt has reached are 1..Reached(j).       *)
Reached(j) == IF j.pc = "sent" THEN j.at ELSE j.at - 1

Ordered(g, len) == \A i, k \in 1..len : i < k => g[k] <= g[i]

(* Those it has reached have one copy more than those after them.          *)
Ahead(n, g, len) ==
    \A i \in 1..len : i <= n => g[i] > 0 /\ \A k \in 1..len : n < k => g[k] < g[i]

Good(j, g, len) ==
    /\ j \in Job /\ j.at <= len + 1 /\ g \in [1..len -> Nat] /\ Ordered(g, len)
    /\ j.state = "active" => /\ j.pc # "row" => j.at <= len
                             /\ j.pc # "refused" => Ahead(Reached(j), g, len)
    /\ j.state = "completed" => \A i \in 1..len : g[i] > 0

(* The inductive invariant.                                                *)
IInv ==
    /\ job \in [Messages -> Job] /\ got = [m \in Messages |-> got[m]]
    /\ \A m \in Messages : Good(job[m], got[m], Length[m])

LEMMA LengthNat == ASSUME NEW m \in Messages PROVE Length[m] \in Nat
BY QueueAssumption

LEMMA FreshTyped == Fresh \in Job /\ Fresh.state = "none" /\ Fresh.at = 1
BY QueueAssumption DEF Fresh, Job

(* Job with its sets named: what a step rewrites stays in them.            *)
States == {"none", "waiting", "active", "completed", "failed"}
Places == {"row", "send", "sent", "refused"}
Positions == Nat \ {0}
Counts == 0..(MaxTries - 1)
Stalls == 0..MaxStalls

LEMMA JobSets ==
    /\ Job = [state: States, pc: Places, at: Positions, made: Counts, stalls: Stalls]
    /\ "active" \in States /\ "waiting" \in States /\ "row" \in Places /\ 1 \in Positions
BY DEF Job, States, Places, Positions, Counts, Stalls

LEMMA JobFields ==
    ASSUME NEW j \in Job
    PROVE  /\ j.at + 1 \in Positions
           /\ j.made + 1 < MaxTries => j.made + 1 \in Counts
           /\ j.stalls < MaxStalls => j.stalls + 1 \in Stalls
BY QueueAssumption DEF Job, Positions, Counts, Stalls

LEMMA EndedTyped ==
    ASSUME NEW state \in {"none", "waiting", "completed", "failed"}
    PROVE  Ended(state) \in Job /\ Ended(state).state = state /\ Ended(state).at = 1
BY FreshTyped DEF Ended, Job

(* A job that is not worked on says nothing but that it may be complete.   *)
LEMMA RestingIsGood ==
    ASSUME NEW len \in Nat, NEW g \in [1..len -> Nat], Ordered(g, len), NEW j \in Job, j.at = 1,
           j.state # "active", j.state # "completed"
    PROVE  Good(j, g, len)
BY DEF Good

LEMMA InitIInv == Init => IInv
<1> SUFFICES ASSUME Init PROVE IInv
    OBVIOUS
<1>1. job = [m \in Messages |-> Fresh] /\ got = [m \in Messages |-> [i \in 1..Length[m] |-> 0]]
    BY DEF Init, QueueInit
<1>2. ASSUME NEW m \in Messages
      PROVE  Good(job[m], got[m], Length[m])
  <2> DEFINE g == [i \in 1..Length[m] |-> 0]
  <2>1. g \in [1..Length[m] -> Nat] /\ Ordered(g, Length[m])
      BY LengthNat DEF Ordered
  <2> HIDE DEF g
  <2>2. Good(Fresh, g, Length[m])
      BY <2>1, LengthNat, FreshTyped, RestingIsGood
  <2> QED BY <1>1, <2>2 DEF g
<1> QED BY <1>1, <1>2, FreshTyped DEF IInv

-----------------------------------------------------------------------------
(* Steps of the queue: one job changes, and Dispatch adds a copy.          *)

LEMMA OneJob ==
    ASSUME IInv, NEW m \in Messages, NEW y, job' = [job EXCEPT ![m] = y], UNCHANGED got,
           Good(y, got[m], Length[m])
    PROVE  IInv'
BY DEF IInv, Good

LEMMA ThrownIsGood ==
    ASSUME NEW len \in Nat, NEW g, NEW j, Good(j, g, len)
    PROVE  Good(Thrown(j), g, len)
<1>1. g \in [1..len -> Nat] /\ Ordered(g, len) /\ j \in Job
    BY DEF Good
<1>2. CASE j.made + 1 < MaxTries
  <2> DEFINE y == [j EXCEPT !.state = "waiting", !.pc = "row", !.at = 1, !.made = j.made + 1]
  <2>1. y \in Job /\ y.state = "waiting" /\ y.at = 1
      BY <1>1, <1>2, JobFields, JobSets
  <2>2. Thrown(j) = y
      BY <1>2 DEF Thrown
  <2> HIDE DEF y
  <2> QED BY <1>1, <2>1, <2>2, RestingIsGood
<1>3. CASE ~(j.made + 1 < MaxTries)
    BY <1>1, <1>3, EndedTyped, RestingIsGood DEF Thrown
<1> QED BY <1>2, <1>3

LEMMA StalledIsGood ==
    ASSUME NEW len \in Nat, NEW g, NEW j, Good(j, g, len)
    PROVE  Good(Stalled(j), g, len)
<1>1. g \in [1..len -> Nat] /\ Ordered(g, len) /\ j \in Job
    BY DEF Good
<1>2. CASE j.stalls < MaxStalls
  <2> DEFINE y == [j EXCEPT !.state = "waiting", !.pc = "row", !.at = 1, !.stalls = j.stalls + 1]
  <2>1. y \in Job /\ y.state = "waiting" /\ y.at = 1
      BY <1>1, <1>2, JobFields, JobSets
  <2>2. Stalled(j) = y
      BY <1>2 DEF Stalled
  <2> HIDE DEF y
  <2> QED BY <1>1, <2>1, <2>2, RestingIsGood
<1>3. CASE ~(j.stalls < MaxStalls)
    BY <1>1, <1>3, EndedTyped, RestingIsGood DEF Stalled
<1> QED BY <1>2, <1>3

(* attemptsMade, read during an attempt, is less than the tries allowed.   *)
LEMMA NeverGoesOn == ASSUME NEW j \in Job PROVE ~GoesOn(j)
BY QueueAssumption DEF GoesOn, Job

LEMMA DispatchStep == ASSUME IInv, NEW m \in Messages, Dispatch(m) PROVE IInv'
<1> DEFINE j == job[m]
           g == got[m]
           len == Length[m]
           p == j.at
<1>1. Good(j, g, len) /\ len \in Nat /\ j \in Job /\ j.state = "active" /\ j.pc = "send"
    BY LengthNat DEF IInv, Dispatch, Active
<1>2. p \in 1..len /\ g \in [1..len -> Nat] /\ Ahead(p - 1, g, len) /\ Ordered(g, len)
    BY <1>1 DEF Good, Reached, Job
<1>3. CASE job' = [job EXCEPT ![m].pc = "refused"] /\ UNCHANGED got
  <2>1. Good([j EXCEPT !.pc = "refused"], g, len)
      BY <1>1, <1>2 DEF Good, Job
  <2> QED BY <1>3, <2>1, OneJob
<1>4. CASE got' = [got EXCEPT ![m][p] = @ + 1] /\ job' = [job EXCEPT ![m].pc = "sent"]
  <2> DEFINE h == [g EXCEPT ![p] = @ + 1]
             y == [j EXCEPT !.pc = "sent"]
  <2>1. y \in Job /\ y.state = "active" /\ y.pc = "sent" /\ y.at = p
      BY <1>1 DEF Job
  <2> HIDE DEF g, len, p
  <2>2. h \in [1..len -> Nat] /\ \A i \in 1..len : h[i] = IF i = p THEN g[p] + 1 ELSE g[i]
      BY <1>2
  <2>3. job' = [job EXCEPT ![m] = y] /\ got' = [got EXCEPT ![m] = h]
      BY <1>4 DEF g, p
  <2> HIDE DEF h, y, j
  <2>4. \A i \in 1..len : g[i] \in Nat
      BY <1>2
  <2>5. Ordered(h, len)
      BY <1>1, <1>2, <2>2, <2>4 DEF Ordered, Ahead
  <2>6. Ahead(p, h, len)
      BY <1>1, <1>2, <2>2, <2>4 DEF Ordered, Ahead
  <2>7. Good(y, h, len)
      BY <1>1, <1>2, <2>1, <2>2, <2>5, <2>6 DEF Good, Reached
  <2> QED BY <1>1, <2>1, <2>3, <2>7 DEF IInv, len
<1> QED BY <1>3, <1>4 DEF Dispatch

LEMMA QueueStep ==
    ASSUME IInv, NEW m \in Messages, Work(m) \/ QueueFault(m)
    PROVE  IInv'
<1> DEFINE j == job[m]
           g == got[m]
           len == Length[m]
<1>1. Good(j, g, len) /\ len \in Nat /\ j \in Job
    BY LengthNat DEF IInv
<1>2. g \in [1..len -> Nat] /\ Ordered(g, len) /\ j.at \in Nat \ {0}
    BY <1>1 DEF Good, Job
<1>3. CASE StartAttempt(m)
  <2> DEFINE y == [j EXCEPT !.state = "active", !.pc = "row", !.at = 1]
  <2>1. y \in Job /\ y.state = "active" /\ y.pc = "row" /\ y.at = 1
      BY <1>1, JobFields, JobSets
  <2>2. job' = [job EXCEPT ![m] = y] /\ UNCHANGED got
      BY <1>3 DEF StartAttempt
  <2> HIDE DEF y
  <2>3. Good(y, g, len)
      BY <1>1, <1>2, <2>1 DEF Good, Reached, Ahead
  <2> QED BY <2>2, <2>3, OneJob
<1>4. CASE CreateRow(m)
  <2> DEFINE y == [j EXCEPT !.pc = "send"]
  <2>1. y \in Job /\ y.state = "active" /\ y.pc = "send" /\ y.at = j.at
        /\ j.state = "active" /\ j.pc = "row" /\ j.at <= len
      BY <1>1, <1>4 DEF Job, CreateRow, Active
  <2>2. job' = [job EXCEPT ![m] = y] /\ UNCHANGED got
      BY <1>4 DEF CreateRow
  <2> HIDE DEF y
  <2>3. Good(y, g, len)
      BY <1>1, <1>2, <2>1 DEF Good, Reached
  <2> QED BY <2>2, <2>3, OneJob
<1>5. CASE MarkSent(m)
  <2> DEFINE y == [j EXCEPT !.pc = "row", !.at = @ + 1]
  <2>1. y \in Job /\ y.state = j.state /\ y.pc = "row" /\ y.at = j.at + 1
        /\ j.state = "active" /\ j.pc = "sent"
      BY <1>1, <1>5, JobFields, JobSets DEF MarkSent, Active
  <2>2. job' = [job EXCEPT ![m] = y] /\ UNCHANGED got
      BY <1>5 DEF MarkSent
  <2> HIDE DEF y
  <2>3. Good(y, g, len)
      BY <1>1, <1>2, <2>1 DEF Good, Reached
  <2> QED BY <2>2, <2>3, OneJob
<1>6. CASE SentNotWritten(m)
  <2> DEFINE y == [j EXCEPT !.pc = "refused"]
  <2>1. Good(y, g, len)
      BY <1>1, <1>2, <1>6 DEF Good, Job, SentNotWritten, Active
  <2>2. job' = [job EXCEPT ![m] = y] /\ UNCHANGED got
      BY <1>6 DEF SentNotWritten
  <2> QED BY <2>1, <2>2, OneJob
<1>7. CASE MarkFailed(m) \/ RowNotCreated(m) \/ FailedNotWritten(m)
  <2>1. job' = [job EXCEPT ![m] = Thrown(j)] /\ UNCHANGED got
      BY <1>1, <1>7, NeverGoesOn DEF MarkFailed, RowNotCreated, FailedNotWritten
  <2> QED BY <1>1, <2>1, ThrownIsGood, OneJob
<1>8. CASE AttemptEnds(m)
  <2>1. job' = [job EXCEPT ![m] = Ended("completed")] /\ UNCHANGED got
      BY <1>8 DEF AttemptEnds
  <2>2. \A i \in 1..len : g[i] > 0
      BY <1>1, <1>2, <1>8 DEF AttemptEnds, Active, Good, Reached, Ahead
  <2>3. Good(Ended("completed"), g, len)
      BY <1>1, <1>2, <2>2, EndedTyped DEF Good
  <2> QED BY <2>1, <2>3, OneJob
<1>9. CASE WorkerLost(m)
  <2>1. job' = [job EXCEPT ![m] = Stalled(j)] /\ UNCHANGED got
      BY <1>9 DEF WorkerLost
  <2> QED BY <1>1, <2>1, StalledIsGood, OneJob
<1> QED
    BY <1>3, <1>4, <1>5, <1>6, <1>7, <1>8, <1>9, DispatchStep DEF Work, QueueFault

LEMMA EnqueueStep ==
    ASSUME IInv, NEW M, job' = Enqueued(M), UNCHANGED got
    PROVE  IInv'
<1> DEFINE y == [Fresh EXCEPT !.state = "waiting"]
<1>1. y \in Job /\ y.state = "waiting" /\ y.at = 1
    BY FreshTyped DEF Job
<1>2. ASSUME NEW m \in Messages
      PROVE  Good(y, got[m], Length[m])
    BY <1>1, LengthNat, RestingIsGood DEF IInv, Good
<1>3. job' = [m \in Messages |-> IF m \in M /\ job[m].state = "none" THEN y ELSE job[m]]
    BY DEF Enqueued
<1> HIDE DEF y
<1> QED BY <1>1, <1>2, <1>3 DEF IInv

LEMMA NextIInv == IInv /\ [Next]_vars => IInv'
<1> SUFFICES ASSUME IInv, [Next]_vars PROVE IInv'
    OBVIOUS
<1>1. CASE UNCHANGED <<job, got>>
    BY <1>1 DEF IInv
<1>2. CASE UNCHANGED vars
    BY <1>1, <1>2 DEF vars
<1>3. CASE \E r \in Requests : FindSubscriber(r) \/ WriteSubscriber(r)
    BY <1>1, <1>3 DEF FindSubscriber, WriteSubscriber
<1>4. CASE \E a \in Addresses : Clicks(a)
    BY <1>1, <1>4 DEF Clicks, Click, Confirm, Unsubscribe
<1>5. CASE \E u \in Updates : FindConfirmed(u) \/ TellingFails(u)
    BY <1>1, <1>5 DEF FindConfirmed, TellingFails
<1>6. CASE \/ \E r \in Requests : QueueConfirmMail(r)
           \/ \E u \in Updates, a \in Addresses : QueueStatusMail(u, a)
           \/ \E m \in Alerts : QueueAlert(m)
    BY <1>6, EnqueueStep DEF QueueConfirmMail, QueueStatusMail, QueueAlert
<1>7. CASE \E m \in Messages : Work(m) \/ QueueFault(m)
    BY <1>7, QueueStep
<1> QED BY <1>2, <1>3, <1>4, <1>5, <1>6, <1>7 DEF Next

(* processNotificationJob: a job that is reported completed has reached    *)
(* all its recipients, after any failures, retries and lost workers.       *)
THEOREM CompletedJobsDelivered == Spec => []CompletedIsDelivered
<1>1. IInv => CompletedIsDelivered
    BY DEF IInv, Good, Ordered, CompletedIsDelivered
<1> QED BY InitIInv, NextIInv, <1>1, PTL DEF Spec

-----------------------------------------------------------------------------
(***************************************************************************)
(* The links in status mails.  A token is fixed in a mail when the list of *)
(* confirmed subscribers is read, long before the mail is sent, and again  *)
(* compared with the row when it is clicked.  Only a subscribe request     *)
(* replaces a token; it spares confirmed rows, so it can only replace that *)
(* of one whose confirmation it did not see.                               *)
(***************************************************************************)

Row == {NoSub} \cup [state: {"pending", "confirmed"}, id: Requests, token: Requests]

MailTypes ==
    /\ sub \in [Addresses -> Row]
    /\ ask \in [Requests -> [pc: {"new", "read", "queue", "done"}, saw: Row]]
    /\ click \in [Addresses -> [op: {"none", "confirm", "unsubscribe"}, id: Token]]
    /\ \A a \in Addresses : click[a].op # "none" => click[a].id # NoToken
    /\ tell \in [Updates -> [pc: {"new", "told"}, left: [Addresses -> Token]]]
    /\ link \in [Mails -> Token]
    /\ late \subseteq Requests /\ ended \subseteq Requests

(* What LinksWork asks of the token t of a mail to a.                      *)
Works(a, t) ==
    \/ t \in ended
    \/ sub[a].state = "confirmed" /\ t = sub[a].token
    \/ \E r \in late : AddressOf[r] = a

(* A request that read a pending row, confirmed since, is late.            *)
LateInv ==
    \A r \in Requests :
        /\ ask[r].pc = "read" /\ ask[r].saw.state = "pending"
        /\ sub[AddressOf[r]].state = "confirmed"
        /\ sub[AddressOf[r]].id = ask[r].saw.id
        => r \in late

LeftInv ==
    \A u \in Updates, a \in Addresses :
        tell[u].left[a] # NoToken => Works(a, tell[u].left[a])

MailInv ==
    \A u \in Updates, a \in Addresses :
        job[StatusMail(u, a)].state # "none" => Works(a, link[StatusMail(u, a)])

LinkInv == MailTypes /\ LateInv /\ LeftInv /\ MailInv

LEMMA RowParts ==
    /\ NoSub \in Row /\ NoSub.state = "none" /\ NoSub.id = NoToken /\ NoSub.token = NoToken
    /\ \A row \in Row :
          /\ row.state \in {"none", "pending", "confirmed"}
          /\ row.id \in Token /\ row.token \in Token
          /\ row.state = "none" => row = NoSub
          /\ row.state # "none" => row.id \in Requests /\ row.token \in Requests
          /\ row.id = NoToken <=> row.state = "none"
BY MailAssumption DEF Row, NoSub, Token

LEMMA MailsApart ==
    /\ \A u \in Updates, a \in Addresses :
          StatusMail(u, a) \in Mails /\ StatusMail(u, a) \in Messages
    /\ \A r \in Requests : ConfirmMail(r) \in Mails
    /\ \A u \in Updates, a \in Addresses, r \in Requests : StatusMail(u, a) # ConfirmMail(r)
    /\ \A u, v \in Updates, a, b \in Addresses :
          StatusMail(u, a) = StatusMail(v, b) => u = v /\ a = b
<1>1. \A u, a, r : <<"status", u, a>> # <<"confirm", r>>
    OBVIOUS
<1>2. \A u, v, a, b : <<"status", u, a>> = <<"status", v, b>> => u = v /\ a = b
    OBVIOUS
<1>3. Messages = Mails \cup Alerts
    BY MailAssumption
<1> QED BY <1>1, <1>2, <1>3 DEF Mails, StatusMail, ConfirmMail

(* Steps that leave mails and lists alone: what they promise is kept as    *)
(* long as every token goes on working.                                    *)
LEMMA WorksOn ==
    ASSUME LeftInv, MailInv, UNCHANGED <<tell, link>>,
           \A m \in Mails : job'[m].state # "none" => job[m].state # "none",
           \A a \in Addresses : \A t : Works(a, t) => Works(a, t)'
    PROVE  LeftInv' /\ MailInv'
<1>1. LeftInv'
  <2> SUFFICES ASSUME NEW u \in Updates, NEW a \in Addresses, tell'[u].left[a] # NoToken
               PROVE  Works(a, tell[u].left[a])'
      BY DEF LeftInv
  <2>1. PICK t : t = tell[u].left[a] /\ t = tell'[u].left[a]
      OBVIOUS
  <2>2. Works(a, t)
      BY <2>1 DEF LeftInv
  <2> QED BY <2>1, <2>2 DEF Works
<1>2. MailInv'
  <2> SUFFICES ASSUME NEW u \in Updates, NEW a \in Addresses,
                      job'[StatusMail(u, a)].state # "none"
               PROVE  Works(a, link[StatusMail(u, a)])'
      BY DEF MailInv
  <2>1. PICK t : t = link[StatusMail(u, a)] /\ t = link'[StatusMail(u, a)]
      OBVIOUS
  <2>2. Works(a, t)
      BY <2>1, MailsApart DEF MailInv
  <2> QED BY <2>1, <2>2 DEF Works
<1> QED BY <1>1, <1>2

LEMMA InitLinks == Init => LinkInv
<1> SUFFICES ASSUME Init PROVE LinkInv
    OBVIOUS
<1>1. MailTypes
  <2>1. sub \in [Addresses -> Row]
      BY RowParts DEF Init
  <2>2. ask \in [Requests -> [pc: {"new", "read", "queue", "done"}, saw: Row]]
      BY RowParts DEF Init
  <2>3. /\ click \in [Addresses -> [op: {"none", "confirm", "unsubscribe"}, id: Token]]
        /\ \A a \in Addresses : click[a].op = "none"
      BY DEF Init, NoClick, Token
  <2>4. tell \in [Updates -> [pc: {"new", "told"}, left: [Addresses -> Token]]]
      BY DEF Init, NobodyLeft, Token
  <2>5. link \in [Mails -> Token] /\ late \subseteq Requests /\ ended \subseteq Requests
      BY DEF Init, Token
  <2> QED BY <2>1, <2>2, <2>3, <2>4, <2>5 DEF MailTypes
<1>2. LateInv
    BY DEF Init, LateInv
<1>3. LeftInv
    BY DEF Init, NobodyLeft, LeftInv
<1>4. MailInv
    BY MailsApart, FreshTyped DEF Init, QueueInit, MailInv
<1> QED BY <1>1, <1>2, <1>3, <1>4 DEF LinkInv

LEMMA FindSubscriberLinks ==
    ASSUME LinkInv, NEW r \in Requests, FindSubscriber(r)
    PROVE  LinkInv'
<1>1. UNCHANGED <<job, sub, click, tell, link, late, ended>>
    BY DEF FindSubscriber
<1>2. PICK row \in Row : /\ row = sub[AddressOf[r]]
                         /\ ask' = [ask EXCEPT ![r] = [pc |-> "read", saw |-> row]]
    BY MailAssumption DEF FindSubscriber, LinkInv, MailTypes
<1>3. /\ ask' \in [Requests -> [pc: {"new", "read", "queue", "done"}, saw: Row]]
      /\ ask'[r].saw = row
      /\ \A q \in Requests : q # r => ask'[q] = ask[q]
    BY <1>2 DEF LinkInv, MailTypes
<1>4. LateInv'
    BY <1>1, <1>2, <1>3 DEF LinkInv, LateInv
<1>5. LeftInv' /\ MailInv'
    BY <1>1, WorksOn DEF LinkInv, Works
<1> QED BY <1>1, <1>3, <1>4, <1>5 DEF LinkInv, MailTypes

LEMMA WriteSubscriberLinks ==
    ASSUME LinkInv, NEW r \in Requests, WriteSubscriber(r)
    PROVE  LinkInv'
<1> DEFINE a == AddressOf[r]
           saw == ask[r].saw
<1>1. /\ a \in Addresses /\ saw \in Row /\ sub[a] \in Row
      /\ ask[r].pc = "read"
      /\ UNCHANGED <<job, click, tell, link, late, ended>>
    BY MailAssumption DEF LinkInv, MailTypes, WriteSubscriber
<1>2. /\ ask' \in [Requests -> [pc: {"new", "read", "queue", "done"}, saw: Row]]
      /\ ask'[r].pc # "read"
      /\ \A q \in Requests : q # r => ask'[q] = ask[q]
  <2>1. \/ ask' = [ask EXCEPT ![r].pc = "queue"]
        \/ ask' = [ask EXCEPT ![r] = [pc |-> "done", saw |-> NoSub]]
      BY DEF WriteSubscriber, Answered
  <2> QED BY <2>1, RowParts DEF LinkInv, MailTypes
<1>3. CASE sub' = sub
  <2>1. LateInv'
      BY <1>1, <1>2, <1>3 DEF LinkInv, LateInv
  <2>2. LeftInv' /\ MailInv'
      BY <1>1, <1>3, WorksOn DEF LinkInv, Works
  <2> QED BY <1>1, <1>2, <1>3, <2>1, <2>2 DEF LinkInv, MailTypes
<1>4. CASE saw.state # "confirmed" /\ saw.id = sub[a].id /\ sub' # sub
  <2>1. PICK row \in Row :
            /\ sub' = [sub EXCEPT ![a] = row]
            /\ \/ saw.state = "none" /\ row.state = "pending"
               \/ saw.state = "pending" /\ row.state = sub[a].state /\ row.id = sub[a].id
    <3>1. CASE saw.state = "none"
      <4>1. PICK row \in Row : row = [state |-> "pending", id |-> r, token |-> r]
          BY DEF Row
      <4> QED BY <1>4, <3>1, <4>1 DEF WriteSubscriber, Keeps
    <3>2. CASE saw.state = "pending"
      <4>1. sub[a].state # "none"
          BY <1>1, <1>4, <3>2, RowParts
      <4>2. sub[a] \in [state: {"pending", "confirmed"}, id: Requests, token: Requests]
          BY <1>1, <4>1, RowParts DEF Row
      <4>3. PICK row : row = [sub[a] EXCEPT !.token = r]
          OBVIOUS
      <4>4. row \in [state: {"pending", "confirmed"}, id: Requests, token: Requests]
          BY <4>2, <4>3
      <4>5. row.state = sub[a].state /\ row.id = sub[a].id
          BY <4>2, <4>3
      <4>6. sub' = [sub EXCEPT ![a] = row]
          BY <1>4, <3>2, <4>3 DEF WriteSubscriber, Keeps
      <4> QED BY <3>2, <4>4, <4>5, <4>6 DEF Row
    <3> QED BY <1>1, <1>4, <3>1, <3>2, RowParts
  <2>2. /\ sub' \in [Addresses -> Row] /\ sub'[a] = row
        /\ \A b \in Addresses : b # a => sub'[b] = sub[b]
      BY <1>1, <2>1 DEF LinkInv, MailTypes
  <2>3. sub[a].state = "confirmed" => r \in late
    <3>1. sub[a].state = "confirmed" => saw.state = "pending"
        BY <1>1, <1>4, <2>1, RowParts
    <3> QED BY <1>1, <1>4, <3>1 DEF LinkInv, LateInv
  <2>4. LateInv'
    <3>1. ASSUME NEW q \in Requests, q # r, ask[q].pc = "read", ask[q].saw.state = "pending",
                 sub'[AddressOf[q]].state = "confirmed",
                 sub'[AddressOf[q]].id = ask[q].saw.id
          PROVE  q \in late
      <4>1. /\ sub[AddressOf[q]].state = "confirmed"
            /\ sub[AddressOf[q]].id = ask[q].saw.id
          BY <2>1, <2>2, <3>1, MailAssumption
      <4> QED BY <3>1, <4>1 DEF LinkInv, LateInv
    <3> QED BY <1>1, <1>2, <3>1 DEF LateInv
  <2>5. ASSUME NEW b \in Addresses, NEW t, Works(b, t) PROVE Works(b, t)'
      BY <1>1, <2>2, <2>3, <2>5 DEF Works
  <2>6. LeftInv' /\ MailInv'
      BY <1>1, <2>5, WorksOn DEF LinkInv
  <2> QED BY <1>1, <1>2, <2>2, <2>4, <2>6 DEF LinkInv, MailTypes
<1>5. sub' # sub => saw.state # "confirmed" /\ saw.id = sub[a].id
    BY DEF WriteSubscriber, Keeps
<1> QED BY <1>3, <1>4, <1>5

LEMMA QueueConfirmMailLinks ==
    ASSUME LinkInv, NEW r \in Requests, QueueConfirmMail(r)
    PROVE  LinkInv'
<1> DEFINE m == ConfirmMail(r)
           t == IF Keeps(ask[r].saw) THEN ask[r].saw.token ELSE r
<1>1. /\ UNCHANGED <<sub, click, tell, late, ended>>
      /\ job' = Enqueued({m}) /\ link' = [link EXCEPT ![m] = t]
      /\ ask' = [ask EXCEPT ![r] = Answered]
    BY DEF QueueConfirmMail
<1>2. t \in Token
  <2>1. ask[r].saw \in Row
      BY DEF LinkInv, MailTypes
  <2> QED BY <2>1, RowParts DEF Token
<1> HIDE DEF t
<1>3. link' \in [Mails -> Token] /\ \A n \in Mails : n # m => link'[n] = link[n]
    BY <1>1, <1>2, MailsApart DEF LinkInv, MailTypes
<1>4. /\ ask' \in [Requests -> [pc: {"new", "read", "queue", "done"}, saw: Row]]
      /\ ask'[r].pc = "done"
      /\ \A q \in Requests : q # r => ask'[q] = ask[q]
  <2>1. /\ Answered \in [pc: {"new", "read", "queue", "done"}, saw: Row]
        /\ Answered.pc = "done"
      BY RowParts DEF Answered
  <2> QED BY <1>1, <2>1 DEF LinkInv, MailTypes
<1>5. LateInv'
    BY <1>1, <1>4 DEF LinkInv, LateInv
<1>6. LeftInv'
    BY <1>1 DEF LinkInv, LeftInv, Works
<1>7. \A n \in Mails : n # m => job'[n] = job[n]
    BY <1>1, MailAssumption DEF Enqueued
<1>8. \A u \in Updates, a \in Addresses :
          /\ link'[StatusMail(u, a)] = link[StatusMail(u, a)]
          /\ job'[StatusMail(u, a)] = job[StatusMail(u, a)]
  <2> TAKE u \in Updates, a \in Addresses
  <2>1. StatusMail(u, a) # m /\ StatusMail(u, a) \in Mails
      BY MailsApart
  <2> QED BY <1>3, <1>7, <2>1
<1>9. MailInv'
  <2> SUFFICES ASSUME NEW u \in Updates, NEW a \in Addresses,
                      job'[StatusMail(u, a)].state # "none"
               PROVE  Works(a, link[StatusMail(u, a)])'
      BY DEF MailInv
  <2>1. Works(a, link[StatusMail(u, a)])
      BY <1>8 DEF LinkInv, MailInv
  <2> QED BY <1>1, <1>8, <2>1 DEF Works
<1> QED BY <1>1, <1>3, <1>4, <1>5, <1>6, <1>9 DEF LinkInv, MailTypes

LEMMA ClickLinks ==
    ASSUME LinkInv, NEW a \in Addresses, NEW op \in {"confirm", "unsubscribe"}, NEW m,
           Click(a, op, m)
    PROVE  LinkInv'
<1>1. UNCHANGED <<job, sub, ask, tell, link, late, ended>>
    BY DEF Click
<1>2. sub[a] \in Row /\ sub[a].state # "none"
    BY DEF Click, LinkInv, MailTypes
<1>3. PICK id \in Requests : id = sub[a].id
    BY <1>2, RowParts
<1>4. click' = [click EXCEPT ![a] = [op |-> op, id |-> id]]
    BY <1>3 DEF Click
<1>5. /\ click' \in [Addresses -> [op: {"none", "confirm", "unsubscribe"}, id: Token]]
      /\ \A b \in Addresses : click'[b].op # "none" => click'[b].id # NoToken
    BY <1>4, MailAssumption DEF LinkInv, MailTypes, Token
<1>6. LateInv'
    BY <1>1 DEF LinkInv, LateInv
<1>7. LeftInv' /\ MailInv'
    BY <1>1, WorksOn DEF LinkInv, Works
<1> QED BY <1>1, <1>5, <1>6, <1>7 DEF LinkInv, MailTypes

LEMMA ClickClosed ==
    ASSUME LinkInv, NEW a \in Addresses, click' = [click EXCEPT ![a] = NoClick]
    PROVE  /\ click' \in [Addresses -> [op: {"none", "confirm", "unsubscribe"}, id: Token]]
           /\ \A b \in Addresses : click'[b].op # "none" => click'[b].id # NoToken
BY DEF LinkInv, MailTypes, NoClick, Token

LEMMA ConfirmLinks ==
    ASSUME LinkInv, NEW a \in Addresses, Confirm(a)
    PROVE  LinkInv'
<1>1. /\ UNCHANGED <<job, ask, tell, link, ended>>
      /\ click' = [click EXCEPT ![a] = NoClick]
    BY DEF Confirm
<1>2. CASE sub[a].id = click[a].id
  <2>1. sub[a] \in Row /\ sub[a].state # "none"
      BY <1>2, RowParts DEF Confirm, LinkInv, MailTypes
  <2>2. sub[a] \in [state: {"pending", "confirmed"}, id: Requests, token: Requests]
      BY <2>1, RowParts DEF Row
  <2>3. PICK row : row = [sub[a] EXCEPT !.state = "confirmed"]
      OBVIOUS
  <2>4. /\ row \in Row /\ row.state = "confirmed"
        /\ row.id = sub[a].id /\ row.token = sub[a].token
      BY <2>2, <2>3 DEF Row
  <2>5. /\ sub' = [sub EXCEPT ![a] = row]
        /\ late' = late \cup {r \in Requests : /\ AddressOf[r] = a /\ ask[r].pc = "read"
                                               /\ ask[r].saw.state = "pending"}
      BY <1>2, <2>3 DEF Confirm
  <2>6. /\ sub' \in [Addresses -> Row] /\ sub'[a] = row
        /\ \A b \in Addresses : b # a => sub'[b] = sub[b]
        /\ late \subseteq late' /\ late' \subseteq Requests
      BY <2>4, <2>5 DEF LinkInv, MailTypes
  <2>7. LateInv'
    <3>1. ASSUME NEW q \in Requests, ask[q].pc = "read", ask[q].saw.state = "pending",
                 sub'[AddressOf[q]].state = "confirmed",
                 sub'[AddressOf[q]].id = ask[q].saw.id
          PROVE  q \in late'
      <4>1. CASE AddressOf[q] = a
          BY <2>5, <3>1, <4>1
      <4>2. CASE AddressOf[q] # a
          BY <2>6, <3>1, <4>2, MailAssumption DEF LinkInv, LateInv
      <4> QED BY <4>1, <4>2
    <3> QED BY <1>1, <3>1 DEF LateInv
  <2>8. ASSUME NEW b \in Addresses, NEW t, Works(b, t) PROVE Works(b, t)'
      BY <1>1, <2>4, <2>6, <2>8 DEF Works
  <2>9. LeftInv' /\ MailInv'
      BY <1>1, <2>8, WorksOn DEF LinkInv
  <2> QED BY <1>1, <2>6, <2>7, <2>9, ClickClosed DEF LinkInv, MailTypes
<1>3. CASE sub[a].id # click[a].id
  <2>1. UNCHANGED <<sub, late>>
      BY <1>3 DEF Confirm
  <2>2. LateInv'
      BY <1>1, <2>1 DEF LinkInv, LateInv
  <2>3. LeftInv' /\ MailInv'
      BY <1>1, <2>1, WorksOn DEF LinkInv, Works
  <2> QED BY <1>1, <2>1, <2>2, <2>3, ClickClosed DEF LinkInv, MailTypes
<1> QED BY <1>2, <1>3

LEMMA UnsubscribeLinks ==
    ASSUME LinkInv, NEW a \in Addresses, Unsubscribe(a)
    PROVE  LinkInv'
<1>1. /\ UNCHANGED <<job, ask, tell, link, late>>
      /\ click' = [click EXCEPT ![a] = NoClick]
    BY DEF Unsubscribe
<1>2. CASE sub[a].id = click[a].id
  <2>1. /\ sub' = [sub EXCEPT ![a] = NoSub] /\ ended' = ended \cup {sub[a].token}
        /\ sub[a].token \in Requests
      BY <1>2, RowParts DEF Unsubscribe, LinkInv, MailTypes
  <2>2. /\ sub' \in [Addresses -> Row] /\ sub'[a] = NoSub
        /\ \A b \in Addresses : b # a => sub'[b] = sub[b]
        /\ ended \subseteq ended' /\ ended' \subseteq Requests /\ sub[a].token \in ended'
      BY <2>1, RowParts DEF LinkInv, MailTypes
  <2>3. LateInv'
    <3>1. ASSUME NEW q \in Requests, ask[q].pc = "read", ask[q].saw.state = "pending",
                 sub'[AddressOf[q]].state = "confirmed",
                 sub'[AddressOf[q]].id = ask[q].saw.id
          PROVE  q \in late
      <4>1. AddressOf[q] # a
          BY <2>2, <3>1, RowParts
      <4> QED BY <2>2, <3>1, <4>1, MailAssumption DEF LinkInv, LateInv
    <3> QED BY <1>1, <3>1 DEF LateInv
  <2>4. ASSUME NEW b \in Addresses, NEW t, Works(b, t) PROVE Works(b, t)'
      BY <1>1, <2>2, <2>4 DEF Works
  <2>5. LeftInv' /\ MailInv'
      BY <1>1, <2>4, WorksOn DEF LinkInv
  <2> QED BY <1>1, <2>2, <2>3, <2>5, ClickClosed DEF LinkInv, MailTypes
<1>3. CASE sub[a].id # click[a].id
  <2>1. UNCHANGED <<sub, ended>>
      BY <1>3 DEF Unsubscribe
  <2>2. LateInv'
      BY <1>1, <2>1 DEF LinkInv, LateInv
  <2>3. LeftInv' /\ MailInv'
      BY <1>1, <2>1, WorksOn DEF LinkInv, Works
  <2> QED BY <1>1, <2>1, <2>2, <2>3, ClickClosed DEF LinkInv, MailTypes
<1> QED BY <1>2, <1>3

(* The list of an update is made, or given up: only its own row of tell    *)
(* changes, and every token on it works.                                   *)
LEMMA TellLinks ==
    ASSUME LinkInv, NEW u \in Updates, FindConfirmed(u) \/ TellingFails(u)
    PROVE  LinkInv'
<1>1. UNCHANGED <<job, sub, ask, click, link, late, ended>>
    BY DEF FindConfirmed, TellingFails
<1>2. PICK left \in [Addresses -> Token] :
          /\ tell' = [tell EXCEPT ![u] = [pc |-> "told", left |-> left]]
          /\ \A a \in Addresses : left[a] # NoToken =>
                sub[a].state = "confirmed" /\ left[a] = sub[a].token
  <2>1. CASE FindConfirmed(u)
    <3> DEFINE left == [a \in Addresses |->
                   IF sub[a].state = "confirmed" THEN sub[a].token ELSE NoToken]
    <3>1. left \in [Addresses -> Token]
        BY RowParts DEF LinkInv, MailTypes, Token
    <3>2. tell' = [tell EXCEPT ![u] = [pc |-> "told", left |-> left]]
        BY <2>1 DEF FindConfirmed
    <3> QED BY <3>1, <3>2
  <2>2. CASE TellingFails(u)
    <3>1. NobodyLeft \in [Addresses -> Token] /\ \A a \in Addresses : NobodyLeft[a] = NoToken
        BY DEF NobodyLeft, Token
    <3>2. tell' = [tell EXCEPT ![u] = [pc |-> "told", left |-> NobodyLeft]]
        BY <2>2 DEF TellingFails
    <3> QED BY <3>1, <3>2
  <2> QED BY <2>1, <2>2
<1>3. /\ tell' \in [Updates -> [pc: {"new", "told"}, left: [Addresses -> Token]]]
      /\ tell'[u].left = left
      /\ \A v \in Updates : v # u => tell'[v] = tell[v]
    BY <1>2 DEF LinkInv, MailTypes
<1>4. LateInv' /\ MailInv'
    BY <1>1 DEF LinkInv, LateInv, MailInv, Works
<1>5. LeftInv'
  <2> SUFFICES ASSUME NEW v \in Updates, NEW a \in Addresses, tell'[v].left[a] # NoToken
               PROVE  Works(a, tell[v].left[a])'
      BY DEF LeftInv
  <2>1. CASE v = u
      BY <1>1, <1>2, <1>3, <2>1 DEF Works
  <2>2. CASE v # u
    <3>1. Works(a, tell[v].left[a])
        BY <1>3, <2>2 DEF LinkInv, LeftInv
    <3> QED BY <1>1, <1>3, <2>2, <3>1 DEF Works
  <2> QED BY <2>1, <2>2
<1> QED BY <1>1, <1>3, <1>4, <1>5 DEF LinkInv, MailTypes

(* A status mail is queued with the token of the list.                     *)
LEMMA QueueStatusMailLinks ==
    ASSUME LinkInv, NEW u \in Updates, NEW a \in Addresses, QueueStatusMail(u, a)
    PROVE  LinkInv'
<1> DEFINE m == StatusMail(u, a)
<1>1. UNCHANGED <<sub, ask, click, late, ended>>
    BY DEF QueueStatusMail
<1>2. PICK t \in Token : /\ t = tell[u].left[a] /\ t # NoToken
                         /\ job' = Enqueued({m}) /\ link' = [link EXCEPT ![m] = t]
                         /\ tell' = [tell EXCEPT ![u].left[a] = NoToken]
    BY DEF QueueStatusMail, LinkInv, MailTypes
<1>3. Works(a, t)
    BY <1>2 DEF LinkInv, LeftInv
<1>4. /\ link' \in [Mails -> Token] /\ link'[m] = t
      /\ \A n \in Mails : n # m => link'[n] = link[n]
    BY <1>2, MailsApart DEF LinkInv, MailTypes
<1>5. \A n \in Mails : n # m => job'[n] = job[n]
    BY <1>2, MailAssumption DEF Enqueued
<1>6. PICK left \in [Addresses -> Token] : left = [tell[u].left EXCEPT ![a] = NoToken]
    BY DEF LinkInv, MailTypes, Token
<1>7. PICK row \in [pc: {"new", "told"}, left: [Addresses -> Token]] :
          row = [tell[u] EXCEPT !.left = left] /\ row.left = left
  <2>1. tell[u] \in [pc: {"new", "told"}, left: [Addresses -> Token]]
      BY DEF LinkInv, MailTypes
  <2>2. PICK row : row = [tell[u] EXCEPT !.left = left]
      OBVIOUS
  <2>3. row \in [pc: {"new", "told"}, left: [Addresses -> Token]] /\ row.left = left
      BY <1>6, <2>1, <2>2
  <2> QED BY <2>2, <2>3
<1>8. /\ tell' = [tell EXCEPT ![u] = row]
      /\ tell' \in [Updates -> [pc: {"new", "told"}, left: [Addresses -> Token]]]
    BY <1>2, <1>6, <1>7 DEF LinkInv, MailTypes
<1>9. \A v \in Updates, b \in Addresses :
          tell'[v].left[b] # NoToken => tell'[v].left[b] = tell[v].left[b]
    BY <1>6, <1>7, <1>8 DEF LinkInv, MailTypes
<1>10. LateInv'
    BY <1>1 DEF LinkInv, LateInv
<1>11. LeftInv'
  <2> SUFFICES ASSUME NEW v \in Updates, NEW b \in Addresses, tell'[v].left[b] # NoToken
               PROVE  Works(b, tell[v].left[b])'
      BY DEF LeftInv
  <2>1. tell'[v].left[b] = tell[v].left[b] /\ Works(b, tell[v].left[b])
      BY <1>9 DEF LinkInv, LeftInv
  <2> QED BY <1>1, <2>1 DEF Works
<1>12. MailInv'
  <2> SUFFICES ASSUME NEW v \in Updates, NEW b \in Addresses,
                      job'[StatusMail(v, b)].state # "none"
               PROVE  Works(b, link[StatusMail(v, b)])'
      BY DEF MailInv
  <2>1. CASE v = u /\ b = a
      BY <1>1, <1>3, <1>4, <2>1 DEF Works
  <2>2. CASE ~(v = u /\ b = a)
    <3>1. StatusMail(v, b) # m /\ StatusMail(v, b) \in Mails
        BY <2>2, MailsApart
    <3>2. Works(b, link[StatusMail(v, b)])
        BY <1>5, <3>1 DEF LinkInv, MailInv
    <3> QED BY <1>1, <1>4, <3>1, <3>2 DEF Works
  <2> QED BY <2>1, <2>2
<1> QED BY <1>1, <1>4, <1>8, <1>10, <1>11, <1>12 DEF LinkInv, MailTypes

(* The queue runs jobs it has; an alert is not a status mail.              *)
LEMMA QueueLinks ==
    ASSUME IInv, LinkInv,
           \/ \E m \in Alerts : QueueAlert(m)
           \/ \E m \in Messages : (Work(m) \/ QueueFault(m)) /\ UNCHANGED mailVars
    PROVE  LinkInv'
<1>1. UNCHANGED <<sub, ask, click, tell, link, late, ended>>
    BY DEF QueueAlert, mailVars
<1>2. \A n \in Mails : job'[n].state # "none" => job[n].state # "none"
  <2>1. ASSUME NEW m \in Alerts, QueueAlert(m)
        PROVE  \A n \in Mails : job'[n] = job[n]
      BY <2>1, MailAssumption DEF QueueAlert, Enqueued
  <2>2. ASSUME NEW m \in Messages, Work(m) \/ QueueFault(m)
        PROVE  job[m].state # "none" /\ \A n \in Messages : n # m => job'[n] = job[n]
      BY <2>2 DEF IInv, Work, QueueFault, StartAttempt, CreateRow, Dispatch, MarkSent,
                  MarkFailed, AttemptEnds, RowNotCreated, SentNotWritten,
                  FailedNotWritten, WorkerLost, Active
  <2> QED BY <2>1, <2>2, MailAssumption
<1>3. LateInv'
    BY <1>1 DEF LinkInv, LateInv
<1>4. LeftInv' /\ MailInv'
    BY <1>1, <1>2, WorksOn DEF LinkInv, Works
<1> QED BY <1>1, <1>3, <1>4 DEF LinkInv, MailTypes

LEMMA NextLinks == IInv /\ LinkInv /\ [Next]_vars => LinkInv'
<1> SUFFICES ASSUME IInv, LinkInv, [Next]_vars PROVE LinkInv'
    OBVIOUS
<1>1. ASSUME NEW r \in Requests,
             FindSubscriber(r) \/ WriteSubscriber(r) \/ QueueConfirmMail(r)
      PROVE  LinkInv'
    BY <1>1, FindSubscriberLinks, WriteSubscriberLinks, QueueConfirmMailLinks
<1>2. ASSUME NEW a \in Addresses, Clicks(a) PROVE LinkInv'
    BY <1>2, ClickLinks, ConfirmLinks, UnsubscribeLinks DEF Clicks
<1>3. ASSUME NEW u \in Updates,
             \/ FindConfirmed(u) \/ TellingFails(u)
             \/ \E a \in Addresses : QueueStatusMail(u, a)
      PROVE  LinkInv'
    BY <1>3, TellLinks, QueueStatusMailLinks
<1>4. CASE \/ \E m \in Alerts : QueueAlert(m)
           \/ \E m \in Messages : (Work(m) \/ QueueFault(m)) /\ UNCHANGED mailVars
    BY <1>4, QueueLinks
<1>5. CASE UNCHANGED vars
    BY <1>5 DEF vars, LinkInv, MailTypes, LateInv, LeftInv, MailInv, Works
<1> QED BY <1>1, <1>2, <1>3, <1>4, <1>5 DEF Next

(* statusSubscriberService.js: a status mail is only ever queued for an    *)
(* address that has confirmed, and its link ends the subscription it is    *)
(* of, unless a subscribe request overlapped the confirmation.             *)
THEOREM LinksAlwaysWork == Spec => []LinksWork
<1>1. LinkInv => LinksWork
    BY DEF LinkInv, MailInv, Works, LinksWork
<1> QED BY InitIInv, NextIInv, InitLinks, NextLinks, <1>1, PTL DEF Spec

-----------------------------------------------------------------------------
(***************************************************************************)
(* The log against what recipients have.  Every step of a job opens or     *)
(* closes at most one row and makes at most one copy, and each way to lose *)
(* a row or a mark takes a fault; so the two differences never leave       *)
(* 0..faults.  They are sizes of sets, of which a step changes at most one *)
(* element.                                                                *)
(***************************************************************************)

(* A job that waits for another attempt, or failed, works on no row.       *)
LEMMA ThrownRests == ASSUME NEW j \in Job PROVE Thrown(j).state # "active"
BY DEF Thrown, Ended
LEMMA StalledRests == ASSUME NEW j \in Job PROVE Stalled(j).state # "active"
BY DEF Stalled, Ended

(* All copies that recipients have; Copies is its size.                    *)
Taken == UNION {CopiesOf(m) : m \in Messages}

(* The inductive invariant, with IInv.                                     *)
LogInv ==
    /\ log \in [pending: Int, sent: Int] /\ faults \in Nat
    /\ IsFiniteSet(Unmarked) /\ IsFiniteSet(Open) /\ IsFiniteSet(Taken)
    /\ LogTellsTruth

LEMMA InitLog == Init => LogInv
<1> SUFFICES ASSUME Init PROVE LogInv
    OBVIOUS
<1>1. Unmarked = {} /\ Open = {}
    BY DEF Init, QueueInit, Unmarked, Open, Active, Fresh
<1>2. Taken = {}
  <2>1. ASSUME NEW m \in Messages PROVE CopiesOf(m) = {}
      BY LengthNat DEF Init, QueueInit, CopiesOf
  <2> QED BY <2>1 DEF Taken
<1>3. IsFiniteSet({}) /\ Cardinality({}) = 0
    BY FS_EmptySet
<1>4. log \in [pending: Int, sent: Int] /\ log.sent = 0 /\ log.pending = 0 /\ faults = 0
    BY DEF Init, QueueInit
<1>5. Copies = 0
    BY <1>2, <1>3 DEF Copies, Taken
<1> QED BY <1>1, <1>2, <1>3, <1>4, <1>5 DEF LogInv, LogTellsTruth

Indicator(b) == IF b THEN 1 ELSE 0

(* A set that gains or loses at most x.                                    *)
LEMMA SetMoves ==
    ASSUME NEW S, NEW T, NEW x, IsFiniteSet(S),
           \A y : y # x => (y \in T <=> y \in S)
    PROVE  /\ IsFiniteSet(T) /\ Cardinality(S) \in Nat /\ Cardinality(T) \in Nat
           /\ Cardinality(T) = Cardinality(S) + Indicator(x \in T) - Indicator(x \in S)
<1>1. Cardinality(S) \in Nat
    BY FS_CardinalityType
<1>2. CASE x \in S <=> x \in T
  <2>1. S = T
      BY <1>2
  <2> QED BY <1>1, <1>2, <2>1 DEF Indicator
<1>3. CASE x \in T /\ x \notin S
  <2>1. T = S \cup {x}
      BY <1>3
  <2> QED BY <1>1, <1>3, <2>1, FS_AddElement DEF Indicator
<1>4. CASE x \in S /\ x \notin T
  <2>1. T = S \ {x}
      BY <1>4
  <2>2. IsFiniteSet(T) /\ Cardinality(T) = Cardinality(S) - 1
      BY <1>4, <2>1, FS_RemoveElement
  <2>3. Cardinality(T) \in Nat
      BY <2>2, FS_CardinalityType
  <2> QED BY <1>1, <1>4, <2>2, <2>3 DEF Indicator
<1> QED BY <1>2, <1>3, <1>4

(* A step of the queue moves one job, and no copy is made: the numbers of  *)
(* open and unmarked rows change by what that job does.                    *)
LEMMA CountsMove ==
    ASSUME LogInv, NEW m \in Messages,
           \A n \in Messages : n # m => job'[n] = job[n]
    PROVE  /\ IsFiniteSet(Unmarked)' /\ IsFiniteSet(Open)'
           /\ Cardinality(Unmarked) \in Nat /\ Cardinality(Open) \in Nat
           /\ Cardinality(Unmarked)' = Cardinality(Unmarked)
                  + Indicator(Active(m, "sent"))' - Indicator(Active(m, "sent"))
           /\ Cardinality(Open)' = Cardinality(Open)
                  + Indicator(m \in Open)' - Indicator(m \in Open)
<1>1. \A y : y # m => (y \in Unmarked' <=> y \in Unmarked)
    BY DEF Unmarked, Active
<1>2. \A y : y # m => (y \in Open' <=> y \in Open)
    BY DEF Open, Active
<1>3. /\ m \in Unmarked <=> Active(m, "sent")
      /\ m \in Unmarked' <=> Active(m, "sent")'
    BY DEF Unmarked, Active
<1>4. /\ IsFiniteSet(Unmarked') /\ Cardinality(Unmarked) \in Nat
      /\ Cardinality(Unmarked') = Cardinality(Unmarked)
            + Indicator(m \in Unmarked') - Indicator(m \in Unmarked)
    BY <1>1, SetMoves DEF LogInv
<1>5. /\ IsFiniteSet(Open') /\ Cardinality(Open) \in Nat
      /\ Cardinality(Open') = Cardinality(Open)
            + Indicator(m \in Open') - Indicator(m \in Open)
    BY <1>2, SetMoves DEF LogInv
<1> QED BY <1>3, <1>4, <1>5 DEF Indicator

(* A provider that takes a message adds one copy.                          *)
LEMMA CopyAdded ==
    ASSUME IInv, LogInv, NEW m \in Messages, NEW p \in 1..Length[m],
           got' = [got EXCEPT ![m][p] = @ + 1]
    PROVE  IsFiniteSet(Taken)' /\ Copies \in Nat /\ Copies' = Copies + 1
<1> DEFINE g == got[m]
           h == [g EXCEPT ![p] = g[p] + 1]
           c == <<m, p, g[p] + 1>>
<1>1. g \in [1..Length[m] -> Nat] /\ got = [n \in Messages |-> got[n]]
    BY DEF IInv, Good
<1>2. g[p] \in Nat /\ \A i \in 1..Length[m] : i # p => h[i] = g[i]
    BY <1>1
<1>3. h[p] = g[p] + 1
    BY <1>1
<1>4. got' = [got EXCEPT ![m] = h]
    OBVIOUS
<1>5. \A n \in Messages : got'[n] = IF n = m THEN h ELSE got[n]
    BY <1>1, <1>4
<1> HIDE DEF g, h
<1>6. ASSUME NEW n \in Messages, n # m PROVE CopiesOf(n)' = CopiesOf(n)
    BY <1>5, <1>6 DEF CopiesOf
<1>7. CopiesOf(m) = UNION {{<<m, i, k>> : k \in 1..g[i]} : i \in 1..Length[m]}
    BY DEF CopiesOf, g
<1>8. CopiesOf(m)' = UNION {{<<m, i, k>> : k \in 1..h[i]} : i \in 1..Length[m]}
  <2>1. got'[m] = h
      BY <1>5
  <2>2. CopiesOf(m)' = UNION {{<<m, i, k>> : k \in 1..got'[m][i]} : i \in 1..Length[m]}
      BY DEF CopiesOf
  <2> QED BY <2>1, <2>2
<1>9. \A y : y # c => (y \in CopiesOf(m)' <=> y \in CopiesOf(m))
  <2>1. ASSUME NEW i \in 1..Length[m], NEW k \in Int, <<m, i, k>> # c
        PROVE  k \in 1..h[i] <=> k \in 1..g[i]
      BY <1>2, <1>3, <2>1
  <2> QED BY <1>7, <1>8, <2>1
<1>10. c \in CopiesOf(m)' /\ c \notin CopiesOf(m)
  <2>1. c \in CopiesOf(m)'
      BY <1>2, <1>3, <1>8
  <2>2. ASSUME NEW i \in 1..Length[m], NEW k \in 1..g[i] PROVE <<m, i, k>> # c
      BY <1>2
  <2> QED BY <1>7, <2>1, <2>2
<1>11. \A n \in Messages : n # m => c \notin CopiesOf(n)
    BY DEF CopiesOf
<1> HIDE DEF c
<1>12. \A y : y # c => (y \in Taken' <=> y \in Taken)
    BY <1>6, <1>9 DEF Taken
<1>13. c \in Taken' /\ c \notin Taken
    BY <1>10, <1>11 DEF Taken
<1>14. /\ IsFiniteSet(Taken') /\ Cardinality(Taken) \in Nat
       /\ Cardinality(Taken') = Cardinality(Taken) + 1
    BY <1>12, <1>13, SetMoves DEF LogInv, Indicator
<1> QED BY <1>14 DEF Copies, Taken

LEMMA SameCopies ==
    ASSUME LogInv, UNCHANGED got
    PROVE  IsFiniteSet(Taken)' /\ Copies \in Nat /\ Copies' = Copies
<1>1. Taken' = Taken /\ Copies' = Copies
    BY DEF Taken, Copies, CopiesOf
<1> QED BY <1>1, FS_CardinalityType DEF LogInv, Copies, Taken

(* Nothing is queued that was worked on.                                   *)
LEMMA EnqueueLog ==
    ASSUME LogInv, NEW M, job' = Enqueued(M), UNCHANGED <<got, log, faults>>
    PROVE  LogInv'
<1>1. \A m \in Messages : Active(m, "sent")' <=> Active(m, "sent")
    BY DEF Enqueued, Active, Fresh
<1>2. \A m \in Messages, pc \in {"send", "sent", "refused"} : Active(m, pc)' <=> Active(m, pc)
    BY DEF Enqueued, Active, Fresh
<1>3. Unmarked' = Unmarked /\ Open' = Open
    BY <1>1, <1>2 DEF Unmarked, Open
<1> QED BY <1>3, SameCopies DEF LogInv, LogTellsTruth

LEMMA QueueLog ==
    ASSUME IInv, LogInv, NEW m \in Messages, Work(m) \/ QueueFault(m)
    PROVE  LogInv'
<1> DEFINE u == Indicator(Active(m, "sent"))
           v == Indicator(Active(m, "sent"))'
           o == Indicator(m \in Open)
           q == Indicator(m \in Open)'
           U == Cardinality(Unmarked)
           O == Cardinality(Open)
<1>1. /\ job \in [Messages -> Job] /\ job[m] \in Job
      /\ \A n \in Messages : n # m => job'[n] = job[n]
    BY DEF IInv, Work, QueueFault, StartAttempt, CreateRow, Dispatch, MarkSent, MarkFailed,
           AttemptEnds, RowNotCreated, SentNotWritten, FailedNotWritten, WorkerLost
<1>2. /\ IsFiniteSet(Unmarked)' /\ IsFiniteSet(Open)' /\ U \in Nat /\ O \in Nat
      /\ U' = U + v - u /\ O' = O + q - o
    BY <1>1, CountsMove
<1>3. /\ log \in [pending: Int, sent: Int] /\ faults \in Nat
      /\ Copies - log.sent - U \in 0..faults /\ log.pending - O \in 0..faults
    BY DEF LogInv, LogTellsTruth
<1>4. /\ Active(m, "sent") \in BOOLEAN /\ u \in {0, 1} /\ v \in {0, 1} /\ o \in {0, 1} /\ q \in {0, 1}
      /\ u = 1 <=> Active(m, "sent")
      /\ v = 1 <=> Active(m, "sent")'
      /\ o = 1 <=> job[m].state = "active" /\ job[m].pc \in {"send", "sent", "refused"}
      /\ q = 1 <=> job'[m].state = "active" /\ job'[m].pc \in {"send", "sent", "refused"}
    BY DEF Indicator, Active, Open
<1> SUFFICES /\ IsFiniteSet(Taken)'
             /\ log' \in [pending: Int, sent: Int] /\ faults' \in Nat
             /\ Copies' - log'.sent - U' \in 0..faults'
             /\ log'.pending - O' \in 0..faults'
    BY <1>2 DEF LogInv, LogTellsTruth
<1> HIDE DEF u, v, o, q, U, O
(* The job is in no place that counts, before and after.                   *)
<1>5. CASE StartAttempt(m) \/ AttemptEnds(m)
  <2>1. /\ UNCHANGED <<got, log, faults>>
        /\ u = 0 /\ v = 0 /\ o = 0 /\ q = 0
    <3>1. CASE StartAttempt(m)
        BY <1>1, <1>4, <3>1 DEF StartAttempt, Active, Job
    <3>2. CASE AttemptEnds(m)
      <4>1. job' = [job EXCEPT ![m] = Ended("completed")]
            /\ Ended("completed").state # "active"
          BY <3>2, EndedTyped DEF AttemptEnds
      <4> QED BY <1>1, <1>4, <3>2, <4>1 DEF AttemptEnds, Active
    <3> QED BY <1>5, <3>1, <3>2
  <2> QED BY <1>2, <1>3, <2>1, SameCopies
<1>6. CASE CreateRow(m)
  <2>1. /\ UNCHANGED <<got, faults>> /\ u = 0 /\ v = 0 /\ o = 0 /\ q = 1
        /\ log' = [log EXCEPT !.pending = @ + 1]
      BY <1>1, <1>4, <1>6 DEF CreateRow, Active, Job
  <2>2. /\ log' \in [pending: Int, sent: Int]
        /\ log'.sent = log.sent /\ log'.pending = log.pending + 1
      BY <1>3, <2>1
  <2> QED BY <1>2, <1>3, <2>1, <2>2, SameCopies
<1>7. CASE Dispatch(m)
  <2>1. /\ UNCHANGED <<log, faults>> /\ u = 0 /\ o = 1
        /\ job[m].at \in 1..Length[m]
    <3>1. Good(job[m], got[m], Length[m]) /\ Length[m] \in Nat
        BY LengthNat DEF IInv
    <3> QED BY <1>1, <1>4, <1>7, <3>1 DEF Dispatch, Active, Good, Job
  <2>2. CASE got' = [got EXCEPT ![m][job[m].at] = @ + 1] /\ job' = [job EXCEPT ![m].pc = "sent"]
    <3>1. v = 1 /\ q = 1
        BY <1>1, <1>4, <1>7, <2>2 DEF Dispatch, Active, Job
    <3>2. IsFiniteSet(Taken)' /\ Copies \in Nat /\ Copies' = Copies + 1
        BY <2>1, <2>2, CopyAdded
    <3> QED BY <1>2, <1>3, <2>1, <3>1, <3>2
  <2>3. CASE job' = [job EXCEPT ![m].pc = "refused"] /\ UNCHANGED got
    <3>1. v = 0 /\ q = 1
        BY <1>1, <1>4, <1>7, <2>3 DEF Dispatch, Active, Job
    <3> QED BY <1>2, <1>3, <2>1, <2>3, <3>1, SameCopies
  <2> QED BY <1>7, <2>2, <2>3 DEF Dispatch
<1>8. CASE MarkSent(m)
  <2>1. /\ UNCHANGED <<got, faults>> /\ u = 1 /\ v = 0 /\ o = 1 /\ q = 0
        /\ log' = [log EXCEPT !.pending = @ - 1, !.sent = @ + 1]
      BY <1>1, <1>4, <1>8 DEF MarkSent, Active, Job
  <2>2. /\ log' \in [pending: Int, sent: Int]
        /\ log'.sent = log.sent + 1 /\ log'.pending = log.pending - 1
    <3>1. log' = [pending |-> log.pending - 1, sent |-> log.sent + 1]
        BY <1>3, <2>1
    <3> QED BY <1>3, <3>1
  <2> QED BY <1>2, <1>3, <2>1, <2>2, SameCopies
<1>9. CASE MarkFailed(m)
  <2>1. /\ UNCHANGED <<got, faults>> /\ u = 0 /\ v = 0 /\ o = 1 /\ q = 0
        /\ log' = [log EXCEPT !.pending = @ - 1]
    <3>1. job' = [job EXCEPT ![m] = Thrown(job[m])] /\ Thrown(job[m]).state # "active"
        BY <1>1, <1>9, NeverGoesOn, ThrownRests DEF MarkFailed
    <3> QED BY <1>1, <1>4, <1>9, <3>1 DEF MarkFailed, Active
  <2>2. /\ log' \in [pending: Int, sent: Int]
        /\ log'.sent = log.sent /\ log'.pending = log.pending - 1
      BY <1>3, <2>1
  <2> QED BY <1>2, <1>3, <2>1, <2>2, SameCopies
(* A fault pays for a row or a mark that is lost.                          *)
<1>10. CASE QueueFault(m)
  <2>1. UNCHANGED <<got, log>> /\ faults' = faults + 1
      BY <1>10 DEF QueueFault, RowNotCreated, SentNotWritten, FailedNotWritten, WorkerLost
  <2>2. v = 0 /\ q <= o
    <3>1. CASE SentNotWritten(m)
        BY <1>1, <1>4, <3>1 DEF SentNotWritten, Active, Job
    <3>2. CASE RowNotCreated(m) \/ FailedNotWritten(m)
      <4>1. job' = [job EXCEPT ![m] = Thrown(job[m])] /\ Thrown(job[m]).state # "active"
          BY <1>1, <3>2, ThrownRests DEF RowNotCreated, FailedNotWritten
      <4> QED BY <1>1, <1>4, <4>1 DEF Active
    <3>3. CASE WorkerLost(m)
      <4>1. job' = [job EXCEPT ![m] = Stalled(job[m])] /\ Stalled(job[m]).state # "active"
          BY <1>1, <3>3, StalledRests DEF WorkerLost
      <4> QED BY <1>1, <1>4, <4>1 DEF Active
    <3> QED BY <1>10, <3>1, <3>2, <3>3 DEF QueueFault
  <2> QED BY <1>2, <1>3, <1>4, <2>1, <2>2, SameCopies
<1> QED BY <1>5, <1>6, <1>7, <1>8, <1>9, <1>10 DEF Work

LEMMA NextLog == IInv /\ LogInv /\ [Next]_vars => LogInv'
<1> SUFFICES ASSUME IInv, LogInv, [Next]_vars PROVE LogInv'
    OBVIOUS
<1>1. ASSUME UNCHANGED <<job, got, log>>, faults' \in Nat, faults' >= faults PROVE LogInv'
  <2>1. Unmarked' = Unmarked /\ Open' = Open
      BY <1>1 DEF Unmarked, Open, Active
  <2>2. Cardinality(Unmarked) \in Nat /\ Cardinality(Open) \in Nat
      BY FS_CardinalityType DEF LogInv
  <2> QED BY <1>1, <2>1, <2>2, SameCopies DEF LogInv, LogTellsTruth
<1>2. faults \in Nat
    BY DEF LogInv
<1>3. CASE UNCHANGED vars
    BY <1>1, <1>2, <1>3 DEF vars
<1>4. CASE \E r \in Requests : FindSubscriber(r) \/ WriteSubscriber(r)
    BY <1>1, <1>2, <1>4 DEF FindSubscriber, WriteSubscriber
<1>5. CASE \E a \in Addresses : Clicks(a)
    BY <1>1, <1>2, <1>5 DEF Clicks, Click, Confirm, Unsubscribe
<1>6. CASE \E u \in Updates : FindConfirmed(u) \/ TellingFails(u)
    BY <1>1, <1>2, <1>6 DEF FindConfirmed, TellingFails
<1>7. CASE \/ \E r \in Requests : QueueConfirmMail(r)
           \/ \E u \in Updates, a \in Addresses : QueueStatusMail(u, a)
           \/ \E m \in Alerts : QueueAlert(m)
    BY <1>7, EnqueueLog DEF QueueConfirmMail, QueueStatusMail, QueueAlert
<1>8. CASE \E m \in Messages : Work(m) \/ QueueFault(m)
    BY <1>8, QueueLog
<1> QED BY <1>3, <1>4, <1>5, <1>6, <1>7, <1>8 DEF Next

(* notification.processor.js: the log claims no delivery that was not      *)
(* made, and what it lacks, or leaves pending, is one per fault.           *)
THEOREM LogIsTruthful == Spec => []LogTellsTruth
<1>1. LogInv => LogTellsTruth
    BY DEF LogInv
<1> QED BY InitIInv, NextIInv, InitLog, NextLog, <1>1, PTL DEF Spec
=============================================================================

----------------------------- MODULE StatusMails -----------------------------
(***************************************************************************)
(* Subscriptions to a status page (backend/src/services/                   *)
(* statusSubscriberService.js and its repository) over the notification    *)
(* queue.  An address asks for a subscription, confirms it with a link     *)
(* that is mailed to it, gets a mail for each incident and change of an    *)
(* incident's status, and ends the subscription with a link in such a      *)
(* mail.  Each request reads the row and writes it in separate commands.   *)
(*                                                                         *)
(* The two random tokens a request draws are one here, named after the     *)
(* request.  One alert with a list of recipients shares the queue.         *)
(***************************************************************************)
EXTENDS NotificationQueue

CONSTANTS
    Addresses,
    Requests,           \* subscribe requests
    AddressOf,          \* the address each asks for
    Updates,            \* incidents and status changes subscribers are told of
    Alerts,             \* other messages in the queue
    NoToken

ConfirmMail(r) == <<"confirm", r>>
StatusMail(u, a) == <<"status", u, a>>

VARIABLES
    sub,                \* sub[a]: the subscription of a
    ask,                \* ask[r]: where a subscribe request is and what it has read
    click,              \* click[a]: a confirm or unsubscribe request in flight
    tell,               \* tell[u]: the addresses an update has still to queue mails for
    link,               \* link[m]: the token in a queued mail
    late,               \* requests that had seen a pending row before it was confirmed
    ended               \* tokens of subscriptions that have ended
mailVars == <<sub, ask, click, tell, link, late, ended>>
vars == <<job, got, log, faults, sub, ask, click, tell, link, late, ended>>

(* A row is identified by the request that inserted it.                    *)
Token == Requests \cup {NoToken}
Sub == [state: {"none", "pending", "confirmed"}, id: Token, token: Token]
NoSub == [state |-> "none", id |-> NoToken, token |-> NoToken]
Mails == {ConfirmMail(r) : r \in Requests} \cup {StatusMail(u, a) : u \in Updates, a \in Addresses}

ASSUME MailAssumption ==
    /\ NoToken \notin Requests
    /\ Messages = Mails \cup Alerts /\ Alerts \cap Mails = {}
    /\ AddressOf \in [Requests -> Addresses]
    /\ \A m \in Mails : Length[m] = 1

Answered == [pc |-> "done", saw |-> NoSub]
NoClick == [op |-> "none", id |-> NoToken]
TypeOK ==
    /\ QueueTypeOK
    /\ sub \in [Addresses -> Sub]
    /\ ask \in [Requests -> [pc: {"new", "read", "queue", "done"}, saw: Sub]]
    /\ click \in [Addresses -> [op: {"none", "confirm", "unsubscribe"}, id: Token]]
    /\ tell \in [Updates -> [pc: {"new", "told"}, left: [Addresses -> Token]]]
    /\ link \in [Mails -> Token]
    /\ late \subseteq Requests /\ ended \subseteq Requests

NobodyLeft == [a \in Addresses |-> NoToken]
Init ==
    /\ QueueInit
    /\ sub = [a \in Addresses |-> NoSub]
    /\ ask = [r \in Requests |-> [pc |-> "new", saw |-> NoSub]]
    /\ click = [a \in Addresses |-> NoClick]
    /\ tell = [u \in Updates |-> [pc |-> "new", left |-> NobodyLeft]]
    /\ link = [m \in Mails |-> NoToken]
    /\ late = {} /\ ended = {}

Delivered(m) == \E i \in 1..Length[m] : got[m][i] > 0

-----------------------------------------------------------------------------
(* subscribe: find the row, then refresh its tokens, insert it, or leave a *)
(* confirmed one alone; then the mail with the row's token.                *)

FindSubscriber(r) ==
    /\ ask[r].pc = "new"
    /\ ask' = [ask EXCEPT ![r] = [pc |-> "read", saw |-> sub[AddressOf[r]]]]
    /\ UNCHANGED <<job, got, log, faults, sub, click, tell, link, late, ended>>

(* Mutant of Keeps: a confirmed row gets new tokens too.                   *)
KeepsNone(row) == FALSE

Keeps(row) == row.state = "confirmed"

(* The insert fails if the address has a row by now, the update if the row *)
(* it read is gone.                                                        *)
WriteSubscriber(r) ==
    LET a == AddressOf[r] saw == ask[r].saw IN
    /\ ask[r].pc = "read"
    /\ IF Keeps(saw) \/ saw.id = sub[a].id
       THEN ask' = [ask EXCEPT ![r].pc = "queue"]
       ELSE ask' = [ask EXCEPT ![r] = Answered]
    /\ sub' = IF Keeps(saw) \/ saw.id # sub[a].id THEN sub
              ELSE [sub EXCEPT ![a] = IF saw.state = "none"
                                      THEN [state |-> "pending", id |-> r, token |-> r]
                                      ELSE [@ EXCEPT !.token = r]]
    /\ UNCHANGED <<job, got, log, faults, click, tell, link, late, ended>>

QueueConfirmMail(r) ==
    LET m == ConfirmMail(r) IN
    /\ ask[r].pc = "queue"
    /\ job' = Enqueued({m})
    /\ link' = [link EXCEPT ![m] = IF Keeps(ask[r].saw) THEN ask[r].saw.token ELSE r]
    /\ ask' = [ask EXCEPT ![r] = Answered]
    /\ UNCHANGED <<got, log, faults, sub, click, tell, late, ended>>

-----------------------------------------------------------------------------
(* confirm and unsubscribe find the row by the token of a mail that has    *)
(* arrived, and write it by its id, whatever its token is by then.         *)

Click(a, op, m) ==
    /\ click[a].op = "none" /\ Delivered(m)
    /\ sub[a].state # "none" /\ sub[a].token = link[m]
    /\ click' = [click EXCEPT ![a] = [op |-> op, id |-> sub[a].id]]
    /\ UNCHANGED <<job, got, log, faults, sub, ask, tell, link, late, ended>>

Confirm(a) ==
    /\ click[a].op = "confirm"
    /\ IF sub[a].id = click[a].id
       THEN /\ sub' = [sub EXCEPT ![a].state = "confirmed"]
            /\ late' = late \cup {r \in Requests : /\ AddressOf[r] = a /\ ask[r].pc = "read"
                                                   /\ ask[r].saw.state = "pending"}
       ELSE UNCHANGED <<sub, late>>
    /\ click' = [click EXCEPT ![a] = NoClick]
    /\ UNCHANGED <<job, got, log, faults, ask, tell, link, ended>>

Unsubscribe(a) ==
    /\ click[a].op = "unsubscribe"
    /\ IF sub[a].id = click[a].id
       THEN sub' = [sub EXCEPT ![a] = NoSub] /\ ended' = ended \cup {sub[a].token}
       ELSE UNCHANGED <<sub, ended>>
    /\ click' = [click EXCEPT ![a] = NoClick]
    /\ UNCHANGED <<job, got, log, faults, ask, tell, link, late>>

-----------------------------------------------------------------------------
(* notifySubscribers; its callers catch what it throws.                    *)

(* Mutant of FindConfirmed: pending subscribers are told as well.          *)
FindAll(u) ==
    /\ tell[u].pc = "new"
    /\ tell' = [tell EXCEPT ![u] = [pc |-> "told", left |-> [a \in Addresses |-> sub[a].token]]]
    /\ UNCHANGED <<job, got, log, faults, sub, ask, click, link, late, ended>>

FindConfirmed(u) ==
    /\ tell[u].pc = "new"
    /\ tell' = [tell EXCEPT ![u] = [pc |-> "told", left |-> [a \in Addresses |->
                   IF sub[a].state = "confirmed" THEN sub[a].token ELSE NoToken]]]
    /\ UNCHANGED <<job, got, log, faults, sub, ask, click, link, late, ended>>

QueueStatusMail(u, a) ==
    LET m == StatusMail(u, a) IN
    /\ tell[u].left[a] # NoToken
    /\ job' = Enqueued({m})
    /\ link' = [link EXCEPT ![m] = tell[u].left[a]]
    /\ tell' = [tell EXCEPT ![u].left[a] = NoToken]
    /\ UNCHANGED <<got, log, faults, sub, ask, click, late, ended>>

TellingFails(u) ==
    /\ tell[u].left # NobodyLeft
    /\ faults < MaxFaults /\ faults' = faults + 1
    /\ tell' = [tell EXCEPT ![u] = [pc |-> "told", left |-> NobodyLeft]]
    /\ UNCHANGED <<job, got, log, sub, ask, click, link, late, ended>>

(* Another message, from alertRuleService.js or elsewhere.                 *)
QueueAlert(m) ==
    /\ job[m].state = "none"
    /\ job' = Enqueued({m})
    /\ UNCHANGED <<got, log, faults, sub, ask, click, tell, link, late, ended>>

-----------------------------------------------------------------------------
Clicks(a) ==
    \/ \E r \in Requests : Click(a, "confirm", ConfirmMail(r))
    \/ \E u \in Updates : Click(a, "unsubscribe", StatusMail(u, a))
    \/ Confirm(a) \/ Unsubscribe(a)

Next ==
    \/ \E r \in Requests : FindSubscriber(r) \/ WriteSubscriber(r) \/ QueueConfirmMail(r)
    \/ \E a \in Addresses : Clicks(a)
    \/ \E u \in Updates : \/ FindConfirmed(u) \/ TellingFails(u)
                          \/ \E a \in Addresses : QueueStatusMail(u, a)
    \/ \E m \in Alerts : QueueAlert(m)
    \/ \E m \in Messages : (Work(m) \/ QueueFault(m)) /\ UNCHANGED mailVars

Spec == Init /\ [][Next]_vars

-----------------------------------------------------------------------------
(* Properties.                                                             *)

(* Double opt-in with a way out: a status mail is only ever queued for an  *)
(* address that has confirmed, and as long as the subscription it is of    *)
(* has not ended its link ends it.  The one exception is an address whose  *)
(* owner asked again and had not been answered when the first confirmation *)
(* came: that request replaces the tokens of a confirmed subscription.     *)
LinksWork ==
    \A u \in Updates, a \in Addresses :
        LET m == StatusMail(u, a) IN
        job[m].state # "none" =>
            \/ link[m] \in ended
            \/ sub[a].state = "confirmed" /\ link[m] = sub[a].token
            \/ \E r \in late : AddressOf[r] = a
=============================================================================

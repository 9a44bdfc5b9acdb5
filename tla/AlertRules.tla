------------------------------ MODULE AlertRules ------------------------------
(***************************************************************************)
(* Alert rules and their channels (backend/src/services/alertRuleService.js *)
(* and the repositories it calls).  A health check, an ingested event or a *)
(* certificate about to expire is evaluated against the rules of its       *)
(* organization: the rules are read together with their latest fire, and   *)
(* each that is met, neither snoozed nor in its cooldown, records a fire   *)
(* and then queues one notification per channel.  Nothing of this is in a  *)
(* transaction; executions of several workers evaluate the same rules.     *)
(*                                                                         *)
(* Time is what may have passed: a cooldown or a snooze may end between    *)
(* any two steps.  Left out: edits of a rule's condition and cooldown, and *)
(* the texts.                                                              *)
(***************************************************************************)
EXTENDS Naturals, FiniteSets, Sequences

CONSTANTS
    Rules,              \* identities of alert rules; one is never used twice
    Channels,           \* identities of alert channels
    Evaluations,        \* executions that may be evaluating at once
    TriggerOf,          \* the trigger of each rule
    NoRule, Nobody,
    MaxFires,           \* bound on the fires of a rule
    MaxEdits,           \* bound on the changes users make
    MaxFaults           \* bound on failed commands and ends of a process

ASSUME AlertAssumption ==
    /\ NoRule \notin Rules /\ Nobody \notin Evaluations
    /\ MaxFires \in Nat /\ MaxEdits \in Nat /\ MaxFaults \in Nat

VARIABLES
    rule,               \* rule[k]: its row and the channels it is connected to
    channel,            \* channel[c]: its row, and whether it has a recipient or url
    fires,              \* fires[k]: AlertRuleFire rows of k, numbered from 1
    cooled,             \* cooled[k]: the fires up to this one are past their cooldown
    by,                 \* by[k][n]: the execution that recorded fire n
    owed,               \* owed[k][n]: the channels that were to be told of it
    queued,             \* notifications queued: <<rule, fire, channel>>
    incident,           \* the default mail on a new incident
    eval,               \* eval[e]: where an evaluation is and what it has read
    edits, faults
vars == <<rule, channel, fires, cooled, by, owed, queued, incident, eval, edits, faults>>

Triggers == {"service_down_consecutive_failures", "response_time_threshold",
             "new_issue_in_environment", "event_rate_threshold", "ssl_expiration_warning"}

ASSUME TriggerAssumption == TriggerOf \in [Rules -> Triggers]

(* The triggers looked at, in this order: for a failed and a successful    *)
(* check, for an event of a new or regressed issue and any other, for a    *)
(* certificate.                                                            *)
Passes == [down |-> <<"service_down_consecutive_failures", "response_time_threshold">>,
           up |-> <<"response_time_threshold">>,
           announced |-> <<"new_issue_in_environment", "event_rate_threshold">>,
           event |-> <<"event_rate_threshold">>,
           ssl |-> <<"ssl_expiration_warning">>]
Kinds == DOMAIN Passes

Number == 0..MaxFires
Row == {"none", "on", "off", "gone"}
Rule == [state: Row, snoozed: BOOLEAN, channels: SUBSET Channels]
Channel == [state: Row, addressed: BOOLEAN]

(* hits: the rules whose condition the check or event meets; last, snoozed, *)
(* chans: what findMatchingRules returned for the rules still in left; no: *)
(* the fire it has recorded for cur, todo: the channels not yet told.      *)
Eval == [kind: Kinds, pc: {"idle", "count", "mail", "load", "judge", "record", "send"},
         pass: 1..3, hits: SUBSET Rules, incident: BOOLEAN, left: SUBSET Rules,
         last: [Rules -> Number], snoozed: SUBSET Rules, chans: [Rules -> SUBSET Channels],
         cur: Rules \cup {NoRule}, no: Number, todo: SUBSET Channels]

NoneLast == [k \in Rules |-> 0]
NoneChans == [k \in Rules |-> {}]
Idle == [kind |-> "up", pc |-> "idle", pass |-> 1, hits |-> {}, incident |-> FALSE, left |-> {},
         last |-> NoneLast, snoozed |-> {}, chans |-> NoneChans, cur |-> NoRule, no |-> 0, todo |-> {}]

TypeOK ==
    /\ rule \in [Rules -> Rule]
    /\ channel \in [Channels -> Channel]
    /\ fires \in [Rules -> Number]
    /\ cooled \in [Rules -> Number]
    /\ by \in [Rules -> [1..MaxFires -> Evaluations \cup {Nobody}]]
    /\ owed \in [Rules -> [1..MaxFires -> SUBSET Channels]]
    /\ queued \subseteq (Rules \X (1..MaxFires) \X Channels)
    /\ incident \in {"none", "new", "covered", "mailed"}
    /\ eval \in [Evaluations -> Eval]
    /\ edits \in 0..MaxEdits /\ faults \in 0..MaxFaults

(* An organization with no channel and no rule yet, or with all channels   *)
(* and rules that are told to each.                                        *)
NoRow == [state |-> "none", snoozed |-> FALSE, channels |-> {}]
Init ==
    /\ \/ /\ rule = [k \in Rules |-> NoRow]
          /\ channel = [c \in Channels |-> [state |-> "none", addressed |-> FALSE]]
       \/ /\ rule \in [Rules -> {NoRow, [NoRow EXCEPT !.state = "on", !.channels = Channels]}]
          /\ channel = [c \in Channels |-> [state |-> "on", addressed |-> TRUE]]
    /\ fires = [k \in Rules |-> 0] /\ cooled = [k \in Rules |-> 0]
    /\ by = [k \in Rules |-> [n \in 1..MaxFires |-> Nobody]]
    /\ owed = [k \in Rules |-> [n \in 1..MaxFires |-> {}]]
    /\ queued = {}
    /\ incident = "none"
    /\ eval = [e \in Evaluations |-> Idle]
    /\ edits = 0 /\ faults = 0

Exists(x) == x.state \in {"on", "off"}

-----------------------------------------------------------------------------
(* What users do (alertRule.controller.js, alertChannel.controller.js).    *)

Edit == edits < MaxEdits /\ edits' = edits + 1
AboutRules == UNCHANGED <<channel, fires, cooled, by, owed, queued, incident, eval, faults>>
AboutChannels == UNCHANGED <<fires, cooled, by, owed, queued, incident, eval, faults>>

(* A rule has at least one channel when it is created and when they are    *)
(* set; connecting a channel that does not exist fails.                    *)
CreateRule(k, C, state) ==
    /\ Edit
    /\ rule[k].state = "none" /\ C # {} /\ \A c \in C : Exists(channel[c])
    /\ rule' = [rule EXCEPT ![k] = [NoRow EXCEPT !.state = state, !.channels = C]]
    /\ AboutRules

UpdateRule(k, C, state) ==
    /\ Edit
    /\ Exists(rule[k]) /\ C # {} /\ \A c \in C : Exists(channel[c])
    /\ rule' = [rule EXCEPT ![k].state = state, ![k].channels = C]
    /\ AboutRules

DeleteRule(k) ==
    /\ Edit
    /\ Exists(rule[k])
    /\ rule' = [rule EXCEPT ![k] = [NoRow EXCEPT !.state = "gone"]]
    /\ AboutRules

SnoozeRule(k) ==
    /\ Edit
    /\ Exists(rule[k]) /\ rule' = [rule EXCEPT ![k].snoozed = TRUE]
    /\ AboutRules

UnsnoozeRule(k) ==
    /\ Edit
    /\ Exists(rule[k]) /\ rule' = [rule EXCEPT ![k].snoozed = FALSE]
    /\ AboutRules

CreateChannel(c, addressed) ==
    /\ Edit
    /\ channel[c].state = "none"
    /\ channel' = [channel EXCEPT ![c] = [state |-> "on", addressed |-> addressed]]
    /\ UNCHANGED rule /\ AboutChannels

(* A new type or config may leave the channel without a recipient or url.  *)
UpdateChannel(c, state, addressed) ==
    /\ Edit
    /\ Exists(channel[c])
    /\ channel' = [channel EXCEPT ![c] = [state |-> state, addressed |-> addressed]]
    /\ UNCHANGED rule /\ AboutChannels

DeleteChannel(c) ==
    /\ Edit
    /\ Exists(channel[c])
    /\ channel' = [channel EXCEPT ![c] = [state |-> "gone", addressed |-> FALSE]]
    /\ rule' = [k \in Rules |-> [rule[k] EXCEPT !.channels = @ \ {c}]]
    /\ AboutChannels

(* Time passes.                                                            *)
SnoozeEnds(k) ==
    /\ rule[k].snoozed /\ rule' = [rule EXCEPT ![k].snoozed = FALSE]
    /\ UNCHANGED <<edits>> /\ AboutRules

CooldownEnds(k) ==
    /\ cooled[k] < fires[k]
    /\ cooled' = [cooled EXCEPT ![k] = @ + 1]
    /\ UNCHANGED <<rule, channel, fires, by, owed, queued, incident, eval, edits, faults>>

-----------------------------------------------------------------------------
(* An evaluation.                                                          *)

Unread == UNCHANGED <<rule, channel, cooled, edits>>
Only(e, to) == eval' = [eval EXCEPT ![e] = to]

(* A check or an event, and the rules it meets; a check may just have      *)
(* created the incident.  The guard on MaxFires leaves room for the fires  *)
(* of every evaluation in flight.                                          *)
InFlight(k) == {e \in Evaluations : k \in eval[e].hits}
Begin(e, kind, H, new) ==
    /\ eval[e].pc = "idle"
    /\ new => kind = "down" /\ incident = "none"
    /\ \A k \in H : \E i \in DOMAIN Passes[kind] : TriggerOf[k] = Passes[kind][i]
    /\ \A k \in H : fires[k] + Cardinality(InFlight(k)) < MaxFires
    /\ Only(e, [Idle EXCEPT !.kind = kind, !.hits = H, !.incident = new,
                            !.pc = IF kind = "ssl" THEN "load" ELSE "count"])
    /\ incident' = IF new THEN "new" ELSE incident
    /\ Unread /\ UNCHANGED <<fires, by, owed, queued, faults>>

(* countRules counts the rules that are switched off too: the default mail *)
(* is for organizations without any.                                       *)
CountRules(e) ==
    LET x == eval[e]
        some == \E k \in Rules : Exists(rule[k]) IN
    /\ x.pc = "count"
    /\ Only(e, IF some THEN [x EXCEPT !.pc = "load", !.incident = FALSE]
               ELSE IF x.incident THEN [Idle EXCEPT !.pc = "mail", !.kind = "down", !.incident = TRUE]
               ELSE Idle)
    /\ incident' = IF some /\ x.incident THEN "covered" ELSE incident
    /\ Unread /\ UNCHANGED <<fires, by, owed, queued, faults>>

QueueDefaultMail(e) ==
    /\ eval[e].pc = "mail"
    /\ incident' = "mailed"
    /\ Only(e, Idle)
    /\ Unread /\ UNCHANGED <<fires, by, owed, queued, faults>>

(* Mutant of FindMatchingRules: the rules are read without their fires.    *)
FindWithoutFires(e) ==
    LET x == eval[e]
        found == {k \in Rules : rule[k].state = "on" /\ TriggerOf[k] = Passes[x.kind][x.pass]} IN
    /\ x.pc = "load" /\ x.pass <= Len(Passes[x.kind])
    /\ Only(e, [x EXCEPT !.pc = "judge", !.left = found,
                         !.snoozed = {k \in found : rule[k].snoozed},
                         !.chans = [k \in Rules |-> IF k \in found
                                      THEN {c \in rule[k].channels : channel[c].state = "on"
                                                                     /\ channel[c].addressed}
                                      ELSE {}]])
    /\ Unread /\ UNCHANGED <<fires, by, owed, queued, incident, faults>>

(* findMatchingRules: the active rules of the trigger with their active    *)
(* channels and latest fire.  A channel without a recipient is passed over *)
(* later; it is not among the channels to be told.                         *)
FindMatchingRules(e) ==
    LET x == eval[e]
        found == {k \in Rules : rule[k].state = "on" /\ TriggerOf[k] = Passes[x.kind][x.pass]} IN
    /\ x.pc = "load" /\ x.pass <= Len(Passes[x.kind])
    /\ Only(e, [x EXCEPT !.pc = "judge", !.left = found,
                         !.last = [k \in Rules |-> IF k \in found THEN fires[k] ELSE 0],
                         !.snoozed = {k \in found : rule[k].snoozed},
                         !.chans = [k \in Rules |-> IF k \in found
                                      THEN {c \in rule[k].channels : channel[c].state = "on"
                                                                     /\ channel[c].addressed}
                                      ELSE {}]])
    /\ Unread /\ UNCHANGED <<fires, by, owed, queued, incident, faults>>

EvaluationEnds(e) ==
    /\ eval[e].pc = "load" /\ eval[e].pass > Len(Passes[eval[e].kind])
    /\ Only(e, Idle)
    /\ Unread /\ UNCHANGED <<fires, by, owed, queued, incident, faults>>

(* isRuleSuppressed: the snooze and the latest fire as they were read, the *)
(* cooldown as of now.                                                     *)
Suppressed(x, k) == k \in x.snoozed \/ x.last[k] > cooled[k]

JudgeRule(e, k) ==
    LET x == eval[e]
        met == k \in x.hits /\ ~Suppressed(x, k) IN
    /\ x.pc = "judge" /\ k \in x.left
    /\ Only(e, IF met THEN [x EXCEPT !.pc = "record", !.left = @ \ {k}, !.cur = k]
               ELSE [x EXCEPT !.left = @ \ {k}, !.hits = @ \ {k}, !.last[k] = 0, !.chans[k] = {}, !.snoozed = @ \ {k}])
    /\ Unread /\ UNCHANGED <<fires, by, owed, queued, incident, faults>>

PassEnds(e) ==
    /\ eval[e].pc = "judge" /\ eval[e].left = {}
    /\ Only(e, [eval[e] EXCEPT !.pc = "load", !.pass = @ + 1])
    /\ Unread /\ UNCHANGED <<fires, by, owed, queued, incident, faults>>

(* recordFire inserts without a look at other fires; for a rule deleted    *)
(* meanwhile the insert fails, and with it the evaluation.                 *)
RecordFire(e) ==
    LET x == eval[e] k == x.cur n == fires[k] + 1 IN
    /\ x.pc = "record"
    /\ IF Exists(rule[k])
       THEN /\ fires' = [fires EXCEPT ![k] = n]
            /\ by' = [by EXCEPT ![k][n] = e]
            /\ owed' = [owed EXCEPT ![k][n] = x.chans[k]]
            /\ Only(e, [x EXCEPT !.pc = "send", !.no = n, !.todo = x.chans[k],
                                   !.hits = @ \ {k}])
       ELSE Only(e, Idle) /\ UNCHANGED <<fires, by, owed>>
    /\ Unread /\ UNCHANGED <<queued, incident, faults>>

(* dispatchRuleAlert.                                                      *)
QueueAlert(e, c) ==
    LET x == eval[e] IN
    /\ x.pc = "send" /\ c \in x.todo
    /\ queued' = queued \cup {<<x.cur, x.no, c>>}
    /\ Only(e, [x EXCEPT !.todo = @ \ {c}])
    /\ Unread /\ UNCHANGED <<fires, by, owed, incident, faults>>

(* Mutant of AlertQueued: leaves the loop over the channels early.         *)
AlertQueuedEarly(e) ==
    LET x == eval[e] IN
    /\ x.pc = "send"
    /\ Only(e, [x EXCEPT !.pc = "judge", !.last[x.cur] = 0, !.chans[x.cur] = {},
                         !.cur = NoRule, !.no = 0, !.todo = {}])
    /\ Unread /\ UNCHANGED <<fires, by, owed, queued, incident, faults>>

AlertQueued(e) ==
    LET x == eval[e] IN
    /\ x.pc = "send" /\ x.todo = {}
    /\ Only(e, [x EXCEPT !.pc = "judge", !.last[x.cur] = 0, !.chans[x.cur] = {},
                         !.cur = NoRule, !.no = 0])
    /\ Unread /\ UNCHANGED <<fires, by, owed, queued, incident, faults>>

(* An error of PostgreSQL or Redis, or the end of the process.  The        *)
(* callers catch it or fail their job; a job is tried again with another   *)
(* check, which does not create the incident again.                        *)
EvaluationFails(e) ==
    /\ eval[e].pc # "idle"
    /\ faults < MaxFaults /\ faults' = faults + 1
    /\ Only(e, Idle)
    /\ Unread /\ UNCHANGED <<fires, by, owed, queued, incident>>

-----------------------------------------------------------------------------
UserEdits ==
    \/ \E k \in Rules, C \in SUBSET Channels, state \in {"on", "off"} :
           CreateRule(k, C, state) \/ UpdateRule(k, C, state)
    \/ \E k \in Rules : DeleteRule(k) \/ SnoozeRule(k) \/ UnsnoozeRule(k)
    \/ \E c \in Channels, addressed \in BOOLEAN :
           \/ CreateChannel(c, addressed)
           \/ \E state \in {"on", "off"} : UpdateChannel(c, state, addressed)
    \/ \E c \in Channels : DeleteChannel(c)

Continue(e) ==
    \/ CountRules(e) \/ QueueDefaultMail(e) \/ FindMatchingRules(e) \/ EvaluationEnds(e)
    \/ PassEnds(e) \/ RecordFire(e) \/ AlertQueued(e)
    \/ \E k \in Rules : JudgeRule(e, k)
    \/ \E c \in Channels : QueueAlert(e, c)

Next ==
    \/ UserEdits
    \/ \E k \in Rules : SnoozeEnds(k) \/ CooldownEnds(k)
    \/ \E e \in Evaluations :
           \/ \E kind \in Kinds, H \in SUBSET Rules, new \in BOOLEAN : Begin(e, kind, H, new)
           \/ Continue(e) \/ EvaluationFails(e)

Spec == Init /\ [][Next]_vars

-----------------------------------------------------------------------------
(* Properties.                                                             *)

(* A cooldown holds back every further alert of the rule, except from      *)
(* evaluations that were in flight together: fires within one cooldown     *)
(* are all of different executions, so there are never more of them than   *)
(* executions, however reads, writes and the ends of cooldowns interleave, *)
(* and whatever fails between.                                             *)
CooldownHolds ==
    \A k \in Rules : \A m, n \in 1..MaxFires :
        cooled[k] < m /\ m < n /\ n <= fires[k] => by[k][m] # by[k][n]

(* A fire silences the rule for a cooldown, so it must have been told: a   *)
(* recorded fire some channel is never told of, or a new incident of an    *)
(* organization without rules nobody is mailed about, each take a fault of *)
(* their own, after the fire, or the incident, was written.                *)
At(k, n) == \E e \in Evaluations : eval[e].pc = "send" /\ eval[e].cur = k /\ eval[e].no = n
Untold == {f \in Rules \X (1..MaxFires) :
               /\ f[2] <= fires[f[1]] /\ ~At(f[1], f[2])
               /\ \E c \in owed[f[1]][f[2]] : <<f[1], f[2], c>> \notin queued}
Unmailed == incident = "new" /\ ~\E e \in Evaluations : eval[e].incident
LostOnlyByFault == Cardinality(Untold) + (IF Unmailed THEN 1 ELSE 0) <= faults
=============================================================================

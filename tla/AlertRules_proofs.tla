--------------------------- MODULE AlertRules_proofs ---------------------------
(***************************************************************************)
(* For every set of rules, channels and evaluations, and with any number   *)
(* of edits and faults: the fires of a rule within one cooldown are of     *)
(* different executions.  Between reading the fires and recording its own, *)
(* an execution records nothing else for the rule; it goes on only if the  *)
(* cooldown of the fire it read is over; and a cooldown never comes back.  *)
(***************************************************************************)
EXTENDS AlertRules, FiniteSetTheorems, TLAPS

(* The part of the types the argument needs.                               *)
EvalRow == [kind: Kinds, pc: {"idle", "count", "mail", "load", "judge", "record", "send"},
            pass: Nat, hits: SUBSET Rules, incident: BOOLEAN, left: SUBSET Rules,
            last: [Rules -> Nat], snoozed: SUBSET Rules, chans: [Rules -> SUBSET Channels],
            cur: Rules \cup {NoRule}, no: Nat, todo: SUBSET Channels]
Typed ==
    /\ fires \in [Rules -> Nat] /\ cooled \in [Rules -> Nat]
    /\ by \in [Rules -> [1..MaxFires -> Evaluations \cup {Nobody}]]
    /\ eval \in [Evaluations -> EvalRow]
    /\ rule \in [Rules -> [state: Row, snoozed: BOOLEAN, channels: SUBSET Channels]]

(* Execution e has recorded no fire of k since it read them.               *)
Silent(e, k) ==
    \A m \in 1..MaxFires : eval[e].last[k] < m /\ m <= fires[k] => by[k][m] # e

Reads(e) ==
    /\ eval[e].pc \in {"judge", "record", "send"} => \A k \in eval[e].left : Silent(e, k)
    /\ eval[e].pc \in {"record", "send"} => eval[e].cur \in Rules \ eval[e].left
    /\ eval[e].pc = "record" => /\ Silent(e, eval[e].cur)
                                /\ eval[e].last[eval[e].cur] <= cooled[eval[e].cur]

(* The inductive invariant.                                                *)
IInv == Typed /\ (\A e \in Evaluations : Reads(e)) /\ CooldownHolds

LEMMA IdleTyped == Idle \in EvalRow /\ Idle.pc = "idle"
<1>1. "up" \in Kinds
    BY DEF Kinds, Passes
<1>2. NoneLast \in [Rules -> Nat] /\ NoneChans \in [Rules -> SUBSET Channels]
    BY DEF NoneLast, NoneChans
<1> QED BY <1>1, <1>2 DEF Idle, EvalRow

LEMMA InitIInv == Init => IInv
<1> SUFFICES ASSUME Init PROVE IInv
    OBVIOUS
<1>1. Typed
  <2>1. rule \in [Rules -> [state: Row, snoozed: BOOLEAN, channels: SUBSET Channels]]
    <3>1. /\ NoRow \in [state: Row, snoozed: BOOLEAN, channels: SUBSET Channels]
          /\ [NoRow EXCEPT !.state = "on", !.channels = Channels]
                \in [state: Row, snoozed: BOOLEAN, channels: SUBSET Channels]
        BY DEF NoRow, Row
    <3>2. CASE rule = [k \in Rules |-> NoRow]
        BY <3>1, <3>2
    <3>3. CASE rule \in [Rules -> {NoRow, [NoRow EXCEPT !.state = "on", !.channels = Channels]}]
        BY <3>1, <3>3
    <3> QED BY <3>2, <3>3 DEF Init
  <2>2. by \in [Rules -> [1..MaxFires -> Evaluations \cup {Nobody}]]
      BY DEF Init
  <2>3. fires \in [Rules -> Nat] /\ cooled \in [Rules -> Nat] /\ eval \in [Evaluations -> EvalRow]
      BY IdleTyped DEF Init
  <2> QED BY <2>1, <2>2, <2>3 DEF Typed
<1>2. \A e \in Evaluations : Reads(e)
    BY IdleTyped DEF Init, Reads
<1>3. CooldownHolds
    BY DEF Init, CooldownHolds
<1> QED BY <1>1, <1>2, <1>3 DEF IInv

-----------------------------------------------------------------------------
(* Users keep the rows of rules typed and touch nothing else here.         *)
LEMMA EditStep ==
    ASSUME IInv, UserEdits \/ \E k \in Rules : SnoozeEnds(k)
    PROVE  IInv'
<1> USE DEF IInv
<1>1. UNCHANGED <<fires, cooled, by, eval>>
    BY DEF UserEdits, CreateRule, UpdateRule, DeleteRule, SnoozeRule, UnsnoozeRule, CreateChannel,
           UpdateChannel, DeleteChannel, SnoozeEnds, AboutRules, AboutChannels
<1>2. rule' \in [Rules -> [state: Row, snoozed: BOOLEAN, channels: SUBSET Channels]]
  <2> DEFINE R == [state: Row, snoozed: BOOLEAN, channels: SUBSET Channels]
  <2>1. rule \in [Rules -> R]
      BY DEF Typed
  <2>2. ASSUME NEW k \in Rules, NEW C \in SUBSET Channels, NEW state \in {"on", "off"},
               CreateRule(k, C, state) \/ UpdateRule(k, C, state)
        PROVE  rule' \in [Rules -> R]
    <3>1. [NoRow EXCEPT !.state = state, !.channels = C] \in R
        BY DEF NoRow, Row
    <3>2. [rule[k] EXCEPT !.state = state, !.channels = C] \in R
        BY <2>1 DEF Row
    <3>3. CASE CreateRule(k, C, state)
        BY <2>1, <3>1, <3>3 DEF CreateRule
    <3>4. CASE UpdateRule(k, C, state)
        BY <2>1, <3>2, <3>4 DEF UpdateRule
    <3> QED BY <2>2, <3>3, <3>4
  <2>3. ASSUME NEW k \in Rules,
               DeleteRule(k) \/ SnoozeRule(k) \/ UnsnoozeRule(k) \/ SnoozeEnds(k)
        PROVE  rule' \in [Rules -> R]
    <3>1. [NoRow EXCEPT !.state = "gone"] \in R
        BY DEF NoRow, Row
    <3>2. \A b \in BOOLEAN : [rule[k] EXCEPT !.snoozed = b] \in R
        BY <2>1
    <3> QED BY <2>1, <2>3, <3>1, <3>2 DEF DeleteRule, SnoozeRule, UnsnoozeRule, SnoozeEnds
  <2>4. ASSUME NEW c \in Channels, NEW state \in {"on", "off"}, NEW addressed \in BOOLEAN,
               CreateChannel(c, addressed) \/ UpdateChannel(c, state, addressed)
        PROVE  rule' \in [Rules -> R]
      BY <2>1, <2>4 DEF CreateChannel, UpdateChannel
  <2>5. ASSUME NEW c \in Channels, DeleteChannel(c) PROVE rule' \in [Rules -> R]
    <3>1. \A k \in Rules : [rule[k] EXCEPT !.channels = @ \ {c}] \in R
        BY <2>1
    <3> QED BY <2>5, <3>1 DEF DeleteChannel
  <2> QED BY <2>2, <2>3, <2>4, <2>5 DEF UserEdits
<1> QED BY <1>1, <1>2 DEF Typed, Reads, Silent, CooldownHolds

LEMMA CooldownStep ==
    ASSUME IInv, NEW k \in Rules, CooldownEnds(k)
    PROVE  IInv'
<1> USE DEF IInv
<1>1. UNCHANGED <<rule, fires, by, eval>> /\ cooled' = [cooled EXCEPT ![k] = @ + 1]
    BY DEF CooldownEnds
<1>2. Typed' /\ \A j \in Rules : cooled[j] <= cooled'[j]
    BY <1>1 DEF Typed
<1>3. ASSUME NEW e \in Evaluations PROVE Reads(e)'
  <2>1. \A j : Silent(e, j)' <=> Silent(e, j)
      BY <1>1 DEF Silent
  <2>2. eval[e].pc = "record" => eval[e].last[eval[e].cur] <= cooled'[eval[e].cur]
      BY <1>2 DEF Typed, EvalRow, Reads
  <2> QED BY <1>1, <2>1, <2>2 DEF Reads
<1>4. CooldownHolds'
    BY <1>1, <1>2 DEF CooldownHolds, Typed
<1> QED BY <1>2, <1>3, <1>4

-----------------------------------------------------------------------------
(* A step of execution e that changes only what e keeps.                   *)
LEMMA OwnStep ==
    ASSUME IInv, NEW e \in Evaluations, NEW y \in EvalRow, eval' = [eval EXCEPT ![e] = y],
           UNCHANGED <<rule, fires, cooled, by>>, Reads(e)'
    PROVE  IInv'
<1> USE DEF IInv
<1>1. Typed'
    BY DEF Typed
<1>2. ASSUME NEW u \in Evaluations, u # e PROVE Reads(u)'
  <2>1. eval'[u] = eval[u]
      BY <1>2 DEF Typed
  <2> QED BY <2>1 DEF Reads, Silent
<1>3. CooldownHolds'
    BY DEF CooldownHolds
<1> QED BY <1>1, <1>2, <1>3

LEMMA ReadStep ==
    ASSUME IInv, NEW e \in Evaluations, FindMatchingRules(e)
    PROVE  IInv'
<1> USE DEF IInv
<1> DEFINE x == eval[e]
           found == {k \in Rules : rule[k].state = "on" /\ TriggerOf[k] = Passes[x.kind][x.pass]}
           y == [x EXCEPT !.pc = "judge", !.left = found,
                          !.last = [k \in Rules |-> IF k \in found THEN fires[k] ELSE 0],
                          !.snoozed = {k \in found : rule[k].snoozed},
                          !.chans = [k \in Rules |-> IF k \in found
                                      THEN {c \in rule[k].channels : channel[c].state = "on"
                                                                     /\ channel[c].addressed}
                                      ELSE {}]]
<1>1. eval' = [eval EXCEPT ![e] = y] /\ UNCHANGED <<rule, fires, cooled, by>>
    BY DEF FindMatchingRules, Only, Unread
<1>2. x \in EvalRow
    BY DEF Typed
<1>3. y \in EvalRow
  <2>1. [k \in Rules |-> IF k \in found THEN fires[k] ELSE 0] \in [Rules -> Nat]
      BY DEF Typed
  <2>2. [k \in Rules |-> IF k \in found THEN {c \in rule[k].channels : channel[c].state = "on"
                                                                     /\ channel[c].addressed}
                         ELSE {}] \in [Rules -> SUBSET Channels]
      BY DEF Typed
  <2> QED BY <1>2, <2>1, <2>2 DEF EvalRow
<1>4. eval'[e] = y
    BY <1>1 DEF Typed
<1>5. y.pc = "judge" /\ y.left = found /\ \A k \in found : y.last[k] = fires[k]
    BY <1>2 DEF EvalRow
<1>6. \A k \in found : Silent(e, k)'
    BY <1>1, <1>4, <1>5 DEF Silent, Typed
<1>7. Reads(e)'
    BY <1>4, <1>5, <1>6 DEF Reads
<1> HIDE DEF y
<1> QED BY <1>1, <1>3, <1>7, OwnStep

LEMMA JudgeStep ==
    ASSUME IInv, NEW e \in Evaluations, NEW k \in Rules, JudgeRule(e, k)
    PROVE  IInv'
<1> USE DEF IInv
<1> DEFINE x == eval[e]
           met == k \in x.hits /\ ~Suppressed(x, k)
           fired == [x EXCEPT !.pc = "record", !.left = @ \ {k}, !.cur = k]
           passed == [x EXCEPT !.left = @ \ {k}, !.hits = @ \ {k}, !.last[k] = 0, !.chans[k] = {},
                               !.snoozed = @ \ {k}]
<1>1. /\ eval' = [eval EXCEPT ![e] = IF met THEN fired ELSE passed]
      /\ UNCHANGED <<rule, fires, cooled, by>>
      /\ x.pc = "judge" /\ k \in x.left
    BY DEF JudgeRule, Only, Unread
<1>2. x \in EvalRow
    BY DEF Typed
<1>3. \A j \in x.left : Silent(e, j)
    BY <1>1 DEF Reads
<1>4. CASE met
  <2>1. fired \in EvalRow
      BY <1>2 DEF EvalRow
  <2>2. eval' = [eval EXCEPT ![e] = fired] /\ eval'[e] = fired
      BY <1>1, <1>4 DEF Typed
  <2>3. fired.last = x.last /\ fired.left = x.left \ {k} /\ fired.cur = k /\ fired.pc = "record"
      BY <1>2 DEF EvalRow
  <2>4. x.last[k] <= cooled[k]
    <3>1. ~(x.last[k] > cooled[k])
        BY <1>4 DEF Suppressed
    <3>2. x.last[k] \in Nat /\ cooled[k] \in Nat
        BY <1>2 DEF Typed, EvalRow
    <3> QED BY <3>1, <3>2
  <2>5. \A j \in x.left : Silent(e, j)'
    <3>1. UNCHANGED <<fires, by>> /\ eval'[e].last = eval[e].last
        BY <1>1, <2>2, <2>3
    <3> QED BY <1>3, <3>1 DEF Silent
  <2>6. Reads(e)'
      BY <1>1, <2>2, <2>3, <2>4, <2>5 DEF Reads
  <2> QED BY <1>1, <2>1, <2>2, <2>6, OwnStep
<1>5. CASE ~met
  <2>1. passed \in EvalRow
      BY <1>2 DEF EvalRow
  <2>2. eval' = [eval EXCEPT ![e] = passed] /\ eval'[e] = passed
      BY <1>1, <1>5 DEF Typed
  <2>3. /\ passed.left = x.left \ {k} /\ passed.pc = "judge"
        /\ \A j \in Rules \ {k} : passed.last[j] = x.last[j]
      BY <1>1, <1>2 DEF EvalRow
  <2>4. \A j \in x.left \ {k} : j \in Rules /\ Silent(e, j)'
      BY <1>1, <1>2, <1>3, <2>2, <2>3 DEF Silent, EvalRow
  <2>5. Reads(e)'
      BY <2>2, <2>3, <2>4 DEF Reads
  <2> QED BY <1>1, <2>1, <2>2, <2>5, OwnStep
<1> QED BY <1>4, <1>5

LEMMA RecordStep ==
    ASSUME IInv, NEW e \in Evaluations, RecordFire(e)
    PROVE  IInv'
<1> USE DEF IInv
<1> DEFINE x == eval[e]
           k == x.cur
           n == fires[k] + 1
           y == [x EXCEPT !.pc = "send", !.no = n, !.todo = x.chans[k], !.hits = @ \ {k}]
<1>1. x \in EvalRow /\ x.pc = "record" /\ k \in Rules \ x.left
    BY DEF RecordFire, Typed, Reads
<1>2. /\ \A j \in x.left : Silent(e, j)
      /\ Silent(e, k) /\ x.last[k] <= cooled[k]
    BY <1>1 DEF Reads
<1>3. CASE ~Exists(rule[k])
  <2>1. eval' = [eval EXCEPT ![e] = Idle] /\ UNCHANGED <<rule, fires, cooled, by>>
      BY <1>3 DEF RecordFire, Only, Unread
  <2>2. Reads(e)'
      BY <2>1, IdleTyped DEF Reads, Typed
  <2> QED BY <2>1, <2>2, IdleTyped, OwnStep
<1>4. CASE Exists(rule[k])
  <2>1. /\ fires' = [fires EXCEPT ![k] = n]
        /\ by' = [by EXCEPT ![k][n] = e]
        /\ eval' = [eval EXCEPT ![e] = y]
        /\ UNCHANGED <<rule, cooled>>
      BY <1>4 DEF RecordFire, Only, Unread
  <2>2. n \in Nat /\ fires' \in [Rules -> Nat] /\ fires'[k] = n
        /\ \A j \in Rules \ {k} : fires'[j] = fires[j]
      BY <1>1, <2>1 DEF Typed
  <2>3. y \in EvalRow
      BY <1>1, <2>2 DEF EvalRow
  <2>4. by' \in [Rules -> [1..MaxFires -> Evaluations \cup {Nobody}]]
      BY <1>1, <2>1 DEF Typed
  <2>5. /\ \A j \in Rules \ {k} : by'[j] = by[j]
        /\ \A m \in 1..MaxFires : by'[k][m] = IF m = n THEN e ELSE by[k][m]
      BY <1>1, <2>1 DEF Typed
  <2>6. Typed'
      BY <2>1, <2>2, <2>3, <2>4 DEF Typed
  <2>7. /\ eval'[e] = y /\ \A u \in Evaluations \ {e} : eval'[u] = eval[u]
        /\ y.pc = "send" /\ y.left = x.left /\ y.last = x.last /\ y.cur = k
      BY <1>1, <2>1 DEF Typed, EvalRow
  <2>8. Reads(e)'
    <3>1. \A j \in x.left : j \in Rules \ {k}
        BY <1>1 DEF EvalRow
    <3>2. \A j \in x.left : Silent(e, j)'
        BY <1>2, <2>2, <2>5, <2>7, <3>1 DEF Silent
    <3> QED BY <1>1, <2>7, <3>2 DEF Reads
  <2>9. ASSUME NEW u \in Evaluations \ {e} PROVE Reads(u)'
    <3>1. eval[u] \in EvalRow
        BY DEF Typed
    <3>2. ASSUME NEW j \in Rules, Silent(u, j) PROVE Silent(u, j)'
      <4>1. CASE j # k
          BY <2>2, <2>5, <2>7, <3>2, <4>1 DEF Silent
      <4>2. CASE j = k
        <5>1. ASSUME NEW m \in 1..MaxFires, eval[u].last[k] < m, m <= n PROVE by'[k][m] # u
          <6>1. m = n \/ m <= fires[k]
              BY <1>1, <5>1 DEF Typed
          <6> QED BY <2>5, <3>2, <4>2, <5>1, <6>1 DEF Silent
        <5> QED BY <2>2, <2>7, <4>2, <5>1 DEF Silent
      <4> QED BY <4>1, <4>2
    <3>3. Reads(u)
        OBVIOUS
    <3> QED BY <2>1, <2>7, <3>1, <3>2, <3>3 DEF Reads, EvalRow
  <2>10. CooldownHolds'
    <3>1. ASSUME NEW j \in Rules, NEW m \in 1..MaxFires, NEW l \in 1..MaxFires,
                 cooled[j] < m, m < l, l <= fires'[j]
          PROVE  by'[j][m] # by'[j][l]
      <4>1. CASE j # k
          BY <2>2, <2>5, <3>1, <4>1 DEF CooldownHolds
      <4>2. CASE j = k /\ l = n
        <5>1. m # n /\ m <= fires[k] /\ x.last[k] < m
            BY <1>1, <1>2, <3>1, <4>2 DEF Typed, EvalRow
        <5> QED BY <1>2, <2>5, <4>2, <5>1 DEF Silent
      <4>3. CASE j = k /\ l # n
        <5>1. m # n /\ l <= fires[k]
            BY <1>1, <2>2, <3>1, <4>3 DEF Typed
        <5> QED BY <2>5, <3>1, <4>3, <5>1 DEF CooldownHolds
      <4> QED BY <4>1, <4>2, <4>3
    <3> QED BY <2>1, <3>1 DEF CooldownHolds
  <2> QED BY <2>6, <2>8, <2>9, <2>10
<1> QED BY <1>3, <1>4

LEMMA SendStep ==
    ASSUME IInv, NEW e \in Evaluations, AlertQueued(e) \/ \E c \in Channels : QueueAlert(e, c)
    PROVE  IInv'
<1> USE DEF IInv
<1> DEFINE x == eval[e]
<1>1. x \in EvalRow /\ x.pc = "send" /\ x.cur \in Rules \ x.left /\ \A j \in x.left : Silent(e, j)
    BY DEF AlertQueued, QueueAlert, Typed, Reads
<1>2. UNCHANGED <<rule, fires, cooled, by>>
    BY DEF AlertQueued, QueueAlert, Unread
<1>3. ASSUME NEW y \in EvalRow, eval' = [eval EXCEPT ![e] = y], y.pc \in {"judge", "send"},
             y.left = x.left, y.pc = "send" => y.cur = x.cur,
             \A j \in Rules \ {x.cur} : y.last[j] = x.last[j]
      PROVE  IInv'
  <2>1. eval'[e] = y
      BY <1>3 DEF Typed
  <2>2. \A j \in x.left : Silent(e, j)'
      BY <1>1, <1>2, <1>3, <2>1 DEF Silent, EvalRow
  <2>3. Reads(e)'
      BY <1>1, <1>3, <2>1, <2>2 DEF Reads
  <2> QED BY <1>2, <1>3, <2>3, OwnStep
<1>4. CASE AlertQueued(e)
  <2> DEFINE y == [x EXCEPT !.pc = "judge", !.last[x.cur] = 0, !.chans[x.cur] = {},
                            !.cur = NoRule, !.no = 0]
  <2>1. y \in EvalRow /\ y.pc = "judge" /\ y.left = x.left
        /\ \A j \in Rules \ {x.cur} : y.last[j] = x.last[j]
      BY <1>1 DEF EvalRow
  <2>2. eval' = [eval EXCEPT ![e] = y]
      BY <1>4 DEF AlertQueued, Only
  <2> HIDE DEF y
  <2> QED BY <1>3, <2>1, <2>2
<1>5. ASSUME NEW c \in Channels, QueueAlert(e, c) PROVE IInv'
  <2> DEFINE y == [x EXCEPT !.todo = @ \ {c}]
  <2>1. y \in EvalRow /\ y.pc = "send" /\ y.left = x.left /\ y.cur = x.cur /\ y.last = x.last
      BY <1>1 DEF EvalRow
  <2>2. eval' = [eval EXCEPT ![e] = y]
      BY <1>5 DEF QueueAlert, Only
  <2> HIDE DEF y
  <2> QED BY <1>3, <2>1, <2>2
<1> QED BY <1>4, <1>5

(* The steps that begin an evaluation, go on to a pass or end it.          *)
LEMMA OutsideStep ==
    ASSUME IInv, NEW e \in Evaluations,
           \/ \E kind \in Kinds, H \in SUBSET Rules, new \in BOOLEAN : Begin(e, kind, H, new)
           \/ CountRules(e) \/ QueueDefaultMail(e) \/ EvaluationEnds(e) \/ PassEnds(e)
           \/ EvaluationFails(e)
    PROVE  IInv'
<1> USE DEF IInv
<1> DEFINE x == eval[e]
<1>1. x \in EvalRow /\ Idle \in EvalRow /\ Idle.pc = "idle"
    BY IdleTyped DEF Typed
<1>2. UNCHANGED <<rule, fires, cooled, by>>
    BY DEF Begin, CountRules, QueueDefaultMail, EvaluationEnds, PassEnds, EvaluationFails, Unread
<1>3. ASSUME NEW y \in EvalRow, eval' = [eval EXCEPT ![e] = y],
             y.pc \in {"idle", "count", "mail", "load"}
      PROVE  IInv'
  <2>1. Reads(e)'
      BY <1>3 DEF Reads, Typed
  <2> QED BY <1>2, <1>3, <2>1, OwnStep
<1>4. ASSUME NEW kind \in Kinds, NEW H \in SUBSET Rules, NEW new \in BOOLEAN,
             Begin(e, kind, H, new)
      PROVE  IInv'
  <2> DEFINE y == [Idle EXCEPT !.kind = kind, !.hits = H, !.incident = new,
                               !.pc = IF kind = "ssl" THEN "load" ELSE "count"]
  <2>1. y \in EvalRow /\ y.pc \in {"count", "load"}
      BY <1>1 DEF EvalRow
  <2>2. eval' = [eval EXCEPT ![e] = y]
      BY <1>4 DEF Begin, Only
  <2> HIDE DEF y
  <2> QED BY <1>3, <2>1, <2>2
<1>5. CASE CountRules(e)
  <2> DEFINE load == [x EXCEPT !.pc = "load", !.incident = FALSE]
             mail == [Idle EXCEPT !.pc = "mail", !.kind = "down", !.incident = TRUE]
  <2>1. "down" \in Kinds
      BY DEF Kinds, Passes
  <2>2. load \in EvalRow /\ load.pc = "load" /\ mail \in EvalRow /\ mail.pc = "mail"
      BY <1>1, <2>1 DEF EvalRow
  <2>3. \E y \in {load, mail, Idle} : eval' = [eval EXCEPT ![e] = y]
      BY <1>5 DEF CountRules, Only
  <2> HIDE DEF load, mail
  <2> QED BY <1>1, <1>3, <2>2, <2>3
<1>6. CASE QueueDefaultMail(e) \/ EvaluationEnds(e) \/ EvaluationFails(e)
  <2>1. eval' = [eval EXCEPT ![e] = Idle]
      BY <1>6 DEF QueueDefaultMail, EvaluationEnds, EvaluationFails, Only
  <2> QED BY <1>1, <1>3, <2>1
<1>7. CASE PassEnds(e)
  <2> DEFINE y == [x EXCEPT !.pc = "load", !.pass = @ + 1]
  <2>1. y \in EvalRow /\ y.pc = "load"
    <3>1. x.pass + 1 \in Nat
        BY <1>1 DEF EvalRow
    <3> QED BY <1>1, <3>1 DEF EvalRow
  <2>2. eval' = [eval EXCEPT ![e] = y]
      BY <1>7 DEF PassEnds, Only
  <2> HIDE DEF y
  <2> QED BY <1>3, <2>1, <2>2
<1> QED BY <1>4, <1>5, <1>6, <1>7

LEMMA NextIInv == IInv /\ [Next]_vars => IInv'
<1> SUFFICES ASSUME IInv, [Next]_vars PROVE IInv'
    OBVIOUS
<1>1. CASE UNCHANGED vars
    BY <1>1 DEF vars, IInv, Typed, Reads, Silent, CooldownHolds
<1>2. CASE Next
    BY <1>2, EditStep, CooldownStep, ReadStep, JudgeStep, RecordStep, SendStep, OutsideStep
       DEF Next, Continue
<1> QED BY <1>1, <1>2

(* evaluateHealthCheckAlerts and its siblings: however evaluations, ends   *)
(* of cooldowns, edits and faults interleave, a rule fires within one      *)
(* cooldown at most once per execution in flight.                          *)
THEOREM CooldownKept == Spec => []CooldownHolds
<1>1. IInv => CooldownHolds
    BY DEF IInv
<1> QED BY InitIInv, NextIInv, <1>1, PTL DEF Spec

-----------------------------------------------------------------------------
(***************************************************************************)
(* What is lost.  Every recorded fire is told to all its channels, or its  *)
(* execution still has the untold ones on its list, or a fault took that   *)
(* execution away; a new incident is mailed about, covered by rules, or    *)
(* with the execution that brought it, or a fault took that one away.  An  *)
(* execution never has both on its hands, so a fault loses one thing.      *)
(***************************************************************************)
LossTypes ==
    /\ owed \in [Rules -> [1..MaxFires -> SUBSET Channels]]
    /\ faults \in Nat

Told(k, n) == \A c \in owed[k][n] : <<k, n, c>> \in queued

(* What is on the list of an execution that sends.                         *)
Sends(e) ==
    eval[e].pc = "send" =>
        /\ eval[e].cur \in Rules
        /\ eval[e].no <= fires[eval[e].cur]
        /\ eval[e].no \in 1..MaxFires =>
              \A c \in owed[eval[e].cur][eval[e].no] \ eval[e].todo :
                  <<eval[e].cur, eval[e].no, c>> \in queued

Brings(e) == eval[e].incident => eval[e].pc \in {"count", "mail"}

LossInv ==
    /\ LossTypes
    /\ \A e \in Evaluations : Sends(e)
    /\ \A e \in Evaluations : Brings(e)
    /\ IsFiniteSet(Untold)
    /\ LostOnlyByFault

(* The count of what is lost follows the two sets.                         *)
LEMMA NothingLost ==
    ASSUME LossInv, Untold' \subseteq Untold, Unmailed' => Unmailed, faults' = faults
    PROVE  IsFiniteSet(Untold)' /\ LostOnlyByFault'
<1>1. IsFiniteSet(Untold') /\ Cardinality(Untold') <= Cardinality(Untold)
    BY FS_Subset DEF LossInv
<1>2. Cardinality(Untold') \in Nat /\ Cardinality(Untold) \in Nat /\ faults \in Nat
    BY <1>1, FS_CardinalityType DEF LossInv, LossTypes
<1>3. Cardinality(Untold) + (IF Unmailed THEN 1 ELSE 0) <= faults
    BY DEF LossInv, LostOnlyByFault
<1>4. Cardinality(Untold') + (IF Unmailed' THEN 1 ELSE 0) <= faults'
    BY <1>1, <1>2, <1>3
<1> QED
    BY <1>1, <1>4 DEF LostOnlyByFault

LEMMA OneLost ==
    ASSUME LossInv, faults' = faults + 1,
           \/ Untold' \subseteq Untold
           \/ (\E f : Untold' \subseteq Untold \cup {f}) /\ (Unmailed' => Unmailed)
    PROVE  IsFiniteSet(Untold)' /\ LostOnlyByFault'
<1>0. IsFiniteSet(Untold) /\ Cardinality(Untold) \in Nat /\ faults \in Nat
    BY FS_CardinalityType DEF LossInv, LossTypes
<1>1. Cardinality(Untold) + (IF Unmailed THEN 1 ELSE 0) <= faults
    BY DEF LossInv, LostOnlyByFault
<1>2. CASE Untold' \subseteq Untold
    <2>1. IsFiniteSet(Untold') /\ Cardinality(Untold') <= Cardinality(Untold)
        BY <1>0, <1>2, FS_Subset
    <2>2. Cardinality(Untold') \in Nat
        BY <2>1, FS_CardinalityType
    <2>3. Cardinality(Untold') + (IF Unmailed' THEN 1 ELSE 0) <= faults'
        BY <1>0, <1>1, <2>1, <2>2
    <2> QED
        BY <2>1, <2>3 DEF LostOnlyByFault
<1>3. ASSUME NEW f, Untold' \subseteq Untold \cup {f}, Unmailed' => Unmailed
      PROVE  IsFiniteSet(Untold)' /\ LostOnlyByFault'
    <2>1. /\ IsFiniteSet(Untold \cup {f})
          /\ Cardinality(Untold \cup {f}) <= Cardinality(Untold) + 1
        BY <1>0, FS_AddElement
    <2>2. IsFiniteSet(Untold') /\ Cardinality(Untold') <= Cardinality(Untold \cup {f})
        BY <1>3, <2>1, FS_Subset
    <2>3. Cardinality(Untold') \in Nat /\ Cardinality(Untold \cup {f}) \in Nat
        BY <2>1, <2>2, FS_CardinalityType
    <2>4. Cardinality(Untold') + (IF Unmailed' THEN 1 ELSE 0) <= faults'
        BY <1>0, <1>1, <1>3, <2>1, <2>2, <2>3
    <2> QED
        BY <2>2, <2>4 DEF LostOnlyByFault
<1> QED
    BY <1>2, <1>3

(* A fire becomes untold only when an execution stops sending it.          *)
StillSends(u) ==
    eval[u].pc = "send" =>
        eval'[u].pc = "send" /\ eval'[u].cur = eval[u].cur /\ eval'[u].no = eval[u].no

LEMMA UntoldOnlyByStopping ==
    ASSUME UNCHANGED <<fires, owed>>, queued \subseteq queued', NEW f \in Untold', f \notin Untold
    PROVE  \E u \in Evaluations : /\ eval[u].pc = "send"
                                  /\ eval[u].cur = f[1] /\ eval[u].no = f[2]
                                  /\ ~StillSends(u)
                                  /\ ~Told(f[1], f[2])
<1>1. /\ f \in Rules \X (1..MaxFires)
      /\ f[2] <= fires[f[1]]
      /\ \E c \in owed[f[1]][f[2]] : <<f[1], f[2], c>> \notin queued
      /\ ~At(f[1], f[2])'
    BY DEF Untold
<1>2. At(f[1], f[2])
    BY <1>1 DEF Untold
<1> QED
    BY <1>1, <1>2 DEF At, StillSends, Told

-----------------------------------------------------------------------------
(* Steps outside the sending of a fire.                                    *)

LEMMA AsideLoss ==
    ASSUME LossInv, UNCHANGED <<fires, owed, queued, incident, eval, faults>>
    PROVE  LossInv'
<1>1. Untold' = Untold /\ (Unmailed' => Unmailed)
    BY DEF Untold, Unmailed, At
<1>2. IsFiniteSet(Untold)' /\ LostOnlyByFault'
    BY <1>1, NothingLost
<1> QED
    BY <1>2 DEF LossInv, LossTypes, Sends, Brings

LEMMA OutsideLoss ==
    ASSUME Typed, LossInv, NEW e \in Evaluations, NEW y,
           eval' = [eval EXCEPT ![e] = y],
           UNCHANGED <<fires, owed, queued, faults>>,
           eval[e].pc # "send", y.pc # "send", y.incident => y.pc \in {"count", "mail"},
           \/ incident' # "new"
           \/ y.incident
           \/ incident' = incident /\ y.incident = eval[e].incident
    PROVE  LossInv'
<1>1. eval'[e] = y /\ \A u \in Evaluations \ {e} : eval'[u] = eval[u]
    BY DEF Typed
<1>2. \A u \in Evaluations : StillSends(u)
    BY <1>1 DEF StillSends
<1>3. Untold' \subseteq Untold
    BY <1>2, UntoldOnlyByStopping
<1>4. Unmailed' => Unmailed
    BY <1>1 DEF Unmailed
<1>5. IsFiniteSet(Untold)' /\ LostOnlyByFault'
    BY <1>3, <1>4, NothingLost
<1>6. \A u \in Evaluations : Sends(u)' /\ Brings(u)'
    BY <1>1 DEF LossInv, Sends, Brings
<1> QED
    BY <1>5, <1>6 DEF LossInv, LossTypes

LEMMA OpeningLoss ==
    ASSUME IInv, LossInv, NEW e \in Evaluations,
           \/ \E kind \in Kinds, H \in SUBSET Rules, new \in BOOLEAN : Begin(e, kind, H, new)
           \/ CountRules(e) \/ QueueDefaultMail(e)
    PROVE  LossInv'
<1> DEFINE x == eval[e]
<1>1. x \in EvalRow /\ Idle \in EvalRow /\ Idle.pc = "idle" /\ Idle.incident = FALSE
    BY IdleTyped DEF IInv, Typed, Idle
<1>2. UNCHANGED <<fires, owed, queued, faults>>
    BY DEF Begin, CountRules, QueueDefaultMail
<1>3. Typed /\ Brings(e)
    BY DEF IInv, LossInv
<1>4. ASSUME NEW kind \in Kinds, NEW H \in SUBSET Rules, NEW new \in BOOLEAN,
             Begin(e, kind, H, new)
      PROVE  LossInv'
    <2> DEFINE y == [Idle EXCEPT !.kind = kind, !.hits = H, !.incident = new,
                                 !.pc = IF kind = "ssl" THEN "load" ELSE "count"]
    <2>1. y \in EvalRow /\ y.pc = (IF kind = "ssl" THEN "load" ELSE "count") /\ y.incident = new
        BY <1>1 DEF EvalRow
    <2>2. eval' = [eval EXCEPT ![e] = y] /\ x.pc = "idle" /\ (new => kind = "down")
          /\ (~new => incident' = incident)
        BY <1>4 DEF Begin, Only
    <2>3. ~x.incident
        BY <1>3, <2>2 DEF Brings
    <2>4. y.incident => y.pc \in {"count", "mail"}
        BY <2>1, <2>2
    <2>5. y.incident \/ (incident' = incident /\ y.incident = x.incident)
        BY <1>1, <2>1, <2>2, <2>3 DEF EvalRow
    <2>6. y.pc # "send"
        BY <2>1
    <2> HIDE DEF y
    <2> QED
        BY <1>2, <1>3, <2>1, <2>2, <2>4, <2>5, <2>6, OutsideLoss
<1>5. CASE CountRules(e)
    <2> DEFINE load == [x EXCEPT !.pc = "load", !.incident = FALSE]
               mail == [Idle EXCEPT !.pc = "mail", !.kind = "down", !.incident = TRUE]
               some == \E k \in Rules : Exists(rule[k])
    <2>1. "down" \in Kinds
        BY DEF Kinds, Passes
    <2>2. /\ load \in EvalRow /\ load.pc = "load" /\ load.incident = FALSE
          /\ mail \in EvalRow /\ mail.pc = "mail" /\ mail.incident = TRUE
        BY <1>1, <2>1 DEF EvalRow
    <2>3. /\ x.pc = "count"
          /\ eval' = [eval EXCEPT ![e] = IF some THEN load ELSE IF x.incident THEN mail ELSE Idle]
          /\ incident' = IF some /\ x.incident THEN "covered" ELSE incident
        BY <1>5 DEF CountRules, Only
    <2>4. x.incident \in BOOLEAN
        BY <1>1 DEF EvalRow
    <2> HIDE DEF load, mail, some
    <2>5. CASE some
        BY <1>2, <1>3, <2>2, <2>3, <2>4, <2>5, OutsideLoss
    <2>6. CASE ~some /\ x.incident
        BY <1>2, <1>3, <2>2, <2>3, <2>6, OutsideLoss
    <2>7. CASE ~some /\ ~x.incident
        BY <1>1, <1>2, <1>3, <2>3, <2>4, <2>7, OutsideLoss
    <2> QED
        BY <2>5, <2>6, <2>7
<1>6. CASE QueueDefaultMail(e)
    <2>1. eval' = [eval EXCEPT ![e] = Idle] /\ incident' = "mailed" /\ x.pc = "mail"
        BY <1>6 DEF QueueDefaultMail, Only
    <2> QED
        BY <1>1, <1>2, <1>3, <2>1, OutsideLoss
<1> QED
    BY <1>4, <1>5, <1>6

LEMMA PassLoss ==
    ASSUME IInv, LossInv, NEW e \in Evaluations,
           \/ FindMatchingRules(e) \/ EvaluationEnds(e) \/ PassEnds(e)
           \/ \E k \in Rules : JudgeRule(e, k)
           \/ RecordFire(e) /\ ~Exists(rule[eval[e].cur])
    PROVE  LossInv'
<1> DEFINE x == eval[e]
<1>1. x \in EvalRow /\ Idle \in EvalRow /\ Idle.pc = "idle" /\ Idle.incident = FALSE
    BY IdleTyped DEF IInv, Typed, Idle
<1>2. UNCHANGED <<fires, owed, queued, faults, incident>>
    BY DEF FindMatchingRules, EvaluationEnds, PassEnds, JudgeRule, RecordFire
<1>3. x.pc \in {"load", "judge", "record"} /\ x.incident = FALSE
    <2>1. x.pc \in {"load", "judge", "record"}
        BY DEF FindMatchingRules, EvaluationEnds, PassEnds, JudgeRule, RecordFire
    <2>2. ~x.incident
        BY <2>1 DEF LossInv, Brings
    <2> QED
        BY <1>1, <2>1, <2>2 DEF EvalRow
<1>4. PICK y : /\ eval' = [eval EXCEPT ![e] = y]
               /\ y = Idle \/ (y.incident = x.incident /\ y.pc \in {"judge", "record", "load"})
    <2>1. CASE FindMatchingRules(e)
        <3> DEFINE found == {k \in Rules : rule[k].state = "on"
                                            /\ TriggerOf[k] = Passes[x.kind][x.pass]}
                   last == [k \in Rules |-> IF k \in found THEN fires[k] ELSE 0]
                   snoozed == {k \in found : rule[k].snoozed}
                   chans == [k \in Rules |-> IF k \in found
                                      THEN {c \in rule[k].channels : channel[c].state = "on"
                                                                     /\ channel[c].addressed}
                                      ELSE {}]
                   y == [x EXCEPT !.pc = "judge", !.left = found, !.last = last,
                                  !.snoozed = snoozed, !.chans = chans]
        <3>1. eval' = [eval EXCEPT ![e] = y]
            BY <2>1 DEF FindMatchingRules, Only
        <3> HIDE DEF found, last, snoozed, chans
        <3>2. y.incident = x.incident /\ y.pc = "judge"
            BY <1>1 DEF EvalRow
        <3> QED
            BY <3>1, <3>2
    <2>2. CASE EvaluationEnds(e) \/ (RecordFire(e) /\ ~Exists(rule[eval[e].cur]))
        BY <2>2 DEF EvaluationEnds, RecordFire, Only
    <2>3. CASE PassEnds(e)
        <3> PICK pass : pass = x.pass + 1
            OBVIOUS
        <3> DEFINE y == [x EXCEPT !.pc = "load", !.pass = pass]
        <3>1. eval' = [eval EXCEPT ![e] = y]
            BY <2>3 DEF PassEnds, Only
        <3>2. y.incident = x.incident /\ y.pc = "load"
            BY <1>1 DEF EvalRow
        <3> QED
            BY <3>1, <3>2
    <2>4. ASSUME NEW k \in Rules, JudgeRule(e, k)
          PROVE  \E y : /\ eval' = [eval EXCEPT ![e] = y]
                        /\ y = Idle \/ (y.incident = x.incident
                                          /\ y.pc \in {"judge", "record", "load"})
        <3> DEFINE fired == [x EXCEPT !.pc = "record", !.left = @ \ {k}, !.cur = k]
                   passed == [x EXCEPT !.left = @ \ {k}, !.hits = @ \ {k}, !.last[k] = 0,
                                       !.chans[k] = {}, !.snoozed = @ \ {k}]
        <3>1. /\ fired.incident = x.incident /\ fired.pc = "record"
              /\ passed.incident = x.incident /\ passed.pc = x.pc
            BY <1>1 DEF EvalRow
        <3>2. x.pc = "judge" /\ \E y \in {fired, passed} : eval' = [eval EXCEPT ![e] = y]
            BY <2>4 DEF JudgeRule, Only
        <3> HIDE DEF fired, passed
        <3> QED
            BY <3>1, <3>2
    <2> QED
        BY <2>1, <2>2, <2>3, <2>4
<1>5. y.incident = x.incident /\ y.pc # "send"
    BY <1>1, <1>3, <1>4
<1> QED
    BY <1>2, <1>3, <1>4, <1>5, OutsideLoss DEF IInv

-----------------------------------------------------------------------------
(* The sending of a fire.                                                  *)

LEMMA RecordLoss ==
    ASSUME IInv, LossInv, NEW e \in Evaluations, RecordFire(e), Exists(rule[eval[e].cur])
    PROVE  LossInv'
<1> DEFINE x == eval[e]
<1> PICK k \in Rules : k = x.cur
    BY DEF RecordFire, IInv, Reads
<1> PICK n \in Nat : n = fires[k] + 1
    BY DEF IInv, Typed
<1> DEFINE y == [x EXCEPT !.pc = "send", !.no = n, !.todo = x.chans[k], !.hits = @ \ {k}]
<1>1. /\ x \in EvalRow /\ x.pc = "record" /\ x.incident = FALSE
      /\ x.chans[k] \subseteq Channels
    BY DEF RecordFire, IInv, Typed, LossInv, Brings, EvalRow
<1>2. /\ fires' = [fires EXCEPT ![k] = n]
      /\ owed' = [owed EXCEPT ![k][n] = x.chans[k]]
      /\ eval' = [eval EXCEPT ![e] = y]
      /\ UNCHANGED <<queued, incident, faults>>
    BY DEF RecordFire, Only
<1>3. /\ fires'[k] = n /\ \A j \in Rules \ {k} : fires'[j] = fires[j]
      /\ \A j \in Rules : fires[j] <= fires'[j] /\ fires[j] \in Nat
    BY <1>2 DEF IInv, Typed
<1>4. /\ owed' \in [Rules -> [1..MaxFires -> SUBSET Channels]]
      /\ \A j \in Rules, m \in 1..MaxFires :
            owed'[j][m] = IF j = k /\ m = n THEN x.chans[k] ELSE owed[j][m]
    BY <1>1, <1>2 DEF LossInv, LossTypes
<1>5. /\ eval'[e] = y /\ \A u \in Evaluations \ {e} : eval'[u] = eval[u]
      /\ y.pc = "send" /\ y.cur = k /\ y.no = n /\ y.todo = x.chans[k] /\ y.incident = FALSE
    BY <1>1, <1>2 DEF IInv, Typed, EvalRow
<1> HIDE DEF y
<1>6. Untold' \subseteq Untold
    <2> SUFFICES ASSUME NEW f \in Untold' PROVE f \in Untold
        OBVIOUS
    <2>1. /\ f \in Rules \X (1..MaxFires) /\ f[1] \in Rules /\ f[2] \in 1..MaxFires
          /\ f[2] <= fires'[f[1]] /\ ~At(f[1], f[2])'
          /\ \E c \in owed'[f[1]][f[2]] : <<f[1], f[2], c>> \notin queued
        BY <1>2 DEF Untold
    <2>2. ~(f[1] = k /\ f[2] = n)
        BY <1>5, <2>1 DEF At
    <2>3. f[2] <= fires[f[1]]
        BY <1>3, <2>1, <2>2
    <2>4. owed'[f[1]][f[2]] = owed[f[1]][f[2]]
        BY <1>4, <2>1, <2>2
    <2>5. ~At(f[1], f[2])
        BY <1>1, <1>5, <2>1 DEF At
    <2> QED
        BY <2>1, <2>3, <2>4, <2>5 DEF Untold
<1>7. Unmailed' => Unmailed
    BY <1>1, <1>2, <1>5 DEF Unmailed
<1>8. IsFiniteSet(Untold)' /\ LostOnlyByFault'
    BY <1>2, <1>6, <1>7, NothingLost
<1>9. ASSUME NEW u \in Evaluations PROVE Sends(u)' /\ Brings(u)'
    <2>1. CASE u = e
        <3>1. n \in 1..MaxFires => owed'[k][n] = x.chans[k]
            BY <1>4
        <3> QED
            BY <1>3, <1>5, <2>1, <3>1 DEF Sends, Brings
    <2>2. CASE u # e
        <3>1. eval'[u] = eval[u] /\ Sends(u) /\ Brings(u)
            BY <1>5, <2>2 DEF LossInv
        <3>2. ASSUME eval[u].pc = "send" PROVE Sends(u)'
            <4> PICK j \in Rules : j = eval[u].cur
                BY <3>1, <3>2 DEF Sends
            <4> PICK m \in Nat : m = eval[u].no
                BY DEF IInv, Typed, EvalRow
            <4>1. m <= fires[j] /\ fires[j] \in Nat /\ fires'[j] \in Nat /\ m <= fires'[j]
                BY <1>2, <1>3, <3>1, <3>2 DEF Sends, IInv, Typed
            <4>2. ~(j = k /\ m = n)
                BY <4>1
            <4>3. m \in 1..MaxFires => owed'[j][m] = owed[j][m]
                BY <1>4, <4>2
            <4>4. m \in 1..MaxFires =>
                    \A c \in owed'[j][m] \ eval[u].todo : <<j, m, c>> \in queued'
                BY <1>2, <3>1, <3>2, <4>3 DEF Sends
            <4> QED
                BY <3>1, <4>1, <4>4 DEF Sends
        <3> QED
            BY <3>1, <3>2 DEF Sends, Brings
    <2> QED
        BY <2>1, <2>2
<1> QED
    BY <1>2, <1>4, <1>8, <1>9 DEF LossInv, LossTypes

(* The list of an execution shrinks by what it queues.                     *)
LEMMA QueueLoss ==
    ASSUME IInv, LossInv, NEW e \in Evaluations, NEW c \in Channels, QueueAlert(e, c)
    PROVE  LossInv'
<1> DEFINE x == eval[e]
           y == [x EXCEPT !.todo = @ \ {c}]
<1>1. x \in EvalRow /\ x.pc = "send"
    BY DEF QueueAlert, IInv, Typed
<1>2. /\ queued' = queued \cup {<<x.cur, x.no, c>>}
      /\ eval' = [eval EXCEPT ![e] = y]
      /\ UNCHANGED <<fires, owed, incident, faults>>
    BY DEF QueueAlert, Only
<1>3. /\ eval'[e] = y /\ \A u \in Evaluations \ {e} : eval'[u] = eval[u]
      /\ y.pc = x.pc /\ y.cur = x.cur /\ y.no = x.no /\ y.todo = x.todo \ {c}
      /\ y.incident = x.incident
    BY <1>1, <1>2 DEF IInv, Typed, EvalRow
<1> HIDE DEF y
<1>4. Untold' \subseteq Untold
    <2>1. \A u \in Evaluations : StillSends(u)
        BY <1>3 DEF StillSends
    <2> QED
        BY <1>2, <2>1, UntoldOnlyByStopping
<1>5. Unmailed' => Unmailed
    BY <1>2, <1>3 DEF Unmailed
<1>6. IsFiniteSet(Untold)' /\ LostOnlyByFault'
    BY <1>2, <1>4, <1>5, NothingLost
<1>7. ASSUME NEW u \in Evaluations PROVE Sends(u)' /\ Brings(u)'
    <2>1. CASE u = e
        BY <1>2, <1>3, <2>1 DEF LossInv, Sends, Brings
    <2>2. CASE u # e
        BY <1>2, <1>3, <2>2 DEF LossInv, Sends, Brings
    <2> QED
        BY <2>1, <2>2
<1> QED
    BY <1>2, <1>6, <1>7 DEF LossInv, LossTypes

(* An execution is done with a fire when nothing is left on its list.      *)
LEMMA QueuedLoss ==
    ASSUME IInv, LossInv, NEW e \in Evaluations, AlertQueued(e)
    PROVE  LossInv'
<1> DEFINE x == eval[e]
           y == [x EXCEPT !.pc = "judge", !.last[x.cur] = 0, !.chans[x.cur] = {},
                          !.cur = NoRule, !.no = 0]
<1>1. x \in EvalRow /\ x.pc = "send" /\ x.todo = {} /\ x.incident = FALSE
    BY DEF AlertQueued, IInv, Typed, LossInv, Brings, EvalRow
<1>2. /\ eval' = [eval EXCEPT ![e] = y]
      /\ UNCHANGED <<fires, owed, queued, incident, faults>>
    BY DEF AlertQueued, Only
<1>3. /\ eval'[e] = y /\ \A u \in Evaluations \ {e} : eval'[u] = eval[u]
      /\ y.pc = "judge" /\ y.incident = FALSE
    BY <1>1, <1>2 DEF IInv, Typed, EvalRow
<1> HIDE DEF y
<1>4. Untold' \subseteq Untold
    <2> SUFFICES ASSUME NEW f \in Untold', f \notin Untold PROVE FALSE
        OBVIOUS
    <2>1. PICK u \in Evaluations : /\ eval[u].pc = "send"
                                   /\ eval[u].cur = f[1] /\ eval[u].no = f[2]
                                   /\ ~StillSends(u)
                                   /\ ~Told(f[1], f[2])
        BY <1>2, UntoldOnlyByStopping
    <2>2. u = e
        BY <1>3, <2>1 DEF StillSends
    <2>3. f[2] \in 1..MaxFires
        BY DEF Untold
    <2> QED
        BY <1>1, <2>1, <2>2, <2>3 DEF LossInv, Sends, Told
<1>5. Unmailed' => Unmailed
    BY <1>1, <1>2, <1>3 DEF Unmailed
<1>6. IsFiniteSet(Untold)' /\ LostOnlyByFault'
    BY <1>2, <1>4, <1>5, NothingLost
<1>7. ASSUME NEW u \in Evaluations PROVE Sends(u)' /\ Brings(u)'
    BY <1>2, <1>3 DEF LossInv, Sends, Brings
<1> QED
    BY <1>2, <1>6, <1>7 DEF LossInv, LossTypes

(* A fault takes one execution away, with the one thing it had in hand.    *)
LEMMA FaultLoss ==
    ASSUME IInv, LossInv, NEW e \in Evaluations, EvaluationFails(e)
    PROVE  LossInv'
<1> DEFINE x == eval[e]
<1>1. x \in EvalRow /\ Idle.pc = "idle" /\ Idle.incident = FALSE
    BY IdleTyped DEF IInv, Typed, Idle
<1>2. /\ eval' = [eval EXCEPT ![e] = Idle] /\ faults' = faults + 1
      /\ UNCHANGED <<fires, owed, queued, incident>>
    BY DEF EvaluationFails, Only
<1>3. eval'[e] = Idle /\ \A u \in Evaluations \ {e} : eval'[u] = eval[u]
    BY <1>2 DEF IInv, Typed
<1>4. \/ Untold' \subseteq Untold
      \/ (\E f : Untold' \subseteq Untold \cup {f}) /\ (Unmailed' => Unmailed)
    <2>1. CASE x.pc = "send"
        <3> PICK f : f = <<x.cur, x.no>>
            OBVIOUS
        <3>1. Untold' \subseteq Untold \cup {f}
            <4> SUFFICES ASSUME NEW g \in Untold', g \notin Untold PROVE g = f
                OBVIOUS
            <4>1. PICK u \in Evaluations : /\ eval[u].pc = "send"
                                           /\ eval[u].cur = g[1] /\ eval[u].no = g[2]
                                           /\ ~StillSends(u)
                BY <1>2, UntoldOnlyByStopping
            <4>2. u = e
                BY <1>3, <4>1 DEF StillSends
            <4>3. g \in Rules \X (1..MaxFires)
                BY DEF Untold
            <4> QED
                BY <4>1, <4>2, <4>3
        <3>2. ~x.incident
            BY <2>1 DEF LossInv, Brings
        <3>3. Unmailed' => Unmailed
            BY <1>2, <1>3, <3>2 DEF Unmailed
        <3> QED
            BY <3>1, <3>3
    <2>2. CASE x.pc # "send"
        <3>1. \A u \in Evaluations : StillSends(u)
            BY <1>3, <2>2 DEF StillSends
        <3> QED
            BY <1>2, <3>1, UntoldOnlyByStopping
    <2> QED
        BY <2>1, <2>2
<1>5. IsFiniteSet(Untold)' /\ LostOnlyByFault'
    BY <1>2, <1>4, OneLost
<1>6. ASSUME NEW u \in Evaluations PROVE Sends(u)' /\ Brings(u)'
    BY <1>1, <1>2, <1>3 DEF LossInv, Sends, Brings
<1>7. faults' \in Nat
    BY <1>2 DEF LossInv, LossTypes
<1> QED
    BY <1>2, <1>5, <1>6, <1>7 DEF LossInv, LossTypes

LEMMA InitLoss == Init => LossInv
<1> SUFFICES ASSUME Init PROVE LossInv
    OBVIOUS
<1>1. LossTypes
    BY DEF Init, LossTypes
<1>2. \A e \in Evaluations : eval[e].pc = "idle" /\ eval[e].incident = FALSE
    BY DEF Init, Idle
<1>3. Untold = {}
    <2>1. \A f \in Rules \X (1..MaxFires) : f[1] \in Rules /\ f[2] \in Nat /\ f[2] > 0
        OBVIOUS
    <2> QED
        BY <2>1 DEF Untold, Init
<1>4. ~Unmailed
    BY DEF Init, Unmailed
<1>5. IsFiniteSet(Untold) /\ Cardinality(Untold) = 0
    BY <1>3, FS_EmptySet
<1>6. LostOnlyByFault
    BY <1>4, <1>5 DEF LostOnlyByFault, Init
<1> QED
    BY <1>1, <1>2, <1>5, <1>6 DEF LossInv, Sends, Brings

LEMMA LossStep ==
    ASSUME IInv, LossInv, [Next]_vars
    PROVE  LossInv'
<1>1. CASE UNCHANGED vars
    BY <1>1, AsideLoss DEF vars
<1>2. CASE UserEdits \/ \E k \in Rules : SnoozeEnds(k) \/ CooldownEnds(k)
    <2>1. UNCHANGED <<fires, owed, queued, incident, eval, faults>>
        BY <1>2
        DEF UserEdits, CreateRule, UpdateRule, DeleteRule, SnoozeRule, UnsnoozeRule,
            CreateChannel, UpdateChannel, DeleteChannel, SnoozeEnds, CooldownEnds, AboutRules,
            AboutChannels
    <2> QED
        BY <2>1, AsideLoss
<1>3. ASSUME NEW e \in Evaluations, Continue(e)
      PROVE  LossInv'
    BY <1>3, OpeningLoss, PassLoss, RecordLoss, QueueLoss, QueuedLoss DEF Continue
<1> QED
    BY <1>1, <1>2, <1>3, OpeningLoss, FaultLoss DEF Next

(* recordFire and dispatchRuleAlert, evaluateHealthCheckAlerts: however    *)
(* evaluations, edits, cooldowns and failures interleave, the fires some   *)
(* channel is never told of and the new incident nobody is mailed about    *)
(* are together no more than the faults.                                   *)
THEOREM EachLossHasItsFault == Spec => []LostOnlyByFault
<1>1. LossInv => LostOnlyByFault
    BY DEF LossInv
<1> QED
    BY InitIInv, NextIInv, InitLoss, LossStep, <1>1, PTL DEF Spec
=============================================================================

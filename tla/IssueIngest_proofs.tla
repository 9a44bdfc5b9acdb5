-------------------------- MODULE IssueIngest_proofs --------------------------
(***************************************************************************)
(* For every set of events, issues and users and every number of faults:   *)
(* an event announces at most one thing, and one event at most announces   *)
(* that an issue was created.  Two facts carry the proof.  An execution is *)
(* past "store" only if it was the one that stored the event, so it is     *)
(* alone in having anything to announce.  And whoever is about to announce *)
(* a creation, or did, created the row, which nothing ever removes.  An    *)
(* issue's count covers the events stored on it, and three attempts are    *)
(* enough for one fault.                                                   *)
(***************************************************************************)
EXTENDS IssueIngest, FiniteSetTheorems, FunctionTheorems, TLAPS

PastStore(e) == ingest[e].pc \in {"count", "users", "broadcast"}

Announced(e) == broadcasts[e].created > 0 \/ broadcasts[e].regression > 0

(* An execution that has stored its event has announced nothing yet.       *)
StoredFirst ==
    \A e \in Events : /\ PastStore(e) => e \in stored /\ ~Announced(e)
                      /\ Announced(e) => e \in stored

AnnouncedAtMostOne == \A e \in Events : broadcasts[e].created + broadcasts[e].regression <= 1

(* e created the row of its issue, and says so or may still say so.        *)
Creator(e) == ingest[e].verdict = "new" \/ broadcasts[e].created > 0

OneCreator ==
    /\ \A e \in Events : Creator(e) => issue[IssueOf[e]].status # "none"
    /\ \A e, f \in Events : IssueOf[e] = IssueOf[f] /\ Creator(e) /\ Creator(f) => e = f

IInv == TypeOK /\ StoredFirst /\ AnnouncedAtMostOne /\ OneCreator

LEMMA UserCountIsNat ==
    ASSUME NEW k, stored \subseteq Events
    PROVE  Cardinality(UsersOf(k)) \in Nat
<1> DEFINE ofIssue == {f \in stored : IssueOf[f] = k}
           users == {UserOf[e] : e \in ofIssue}
<1>1. IsFiniteSet(ofIssue)
  <2>1. ofIssue \in SUBSET Events
      OBVIOUS
  <2>2. IsFiniteSet(Events)
      BY EventAssumption
  <2> HIDE DEF ofIssue
  <2> QED BY <2>1, <2>2, FS_Subset
<1>2. IsFiniteSet(users)
  <2> DEFINE userOf == [e \in ofIssue |-> UserOf[e]]
  <2>1. userOf \in Surjection(ofIssue, users)
      BY DEF Surjection
  <2>2. ExistsSurjection(ofIssue, users)
      BY <2>1 DEF ExistsSurjection
  <2> HIDE DEF ofIssue, users
  <2>3. PICK n \in Nat : ExistsSurjection(1..n, ofIssue)
      BY <1>1, FS_NatSurjection
  <2>4. ExistsSurjection(1..n, users)
      BY <2>2, <2>3, Fun_ExistsSurjTransitive
  <2> QED BY <2>4, FS_NatSurjection
<1>3. IsFiniteSet(UsersOf(k))
  <2>1. UsersOf(k) \subseteq users
      BY DEF UsersOf
  <2> QED BY <1>2, <2>1, FS_Subset
<1> QED BY <1>3, FS_CardinalityType

LEMMA RunType ==
    ASSUME NEW label \in JobPc, NEW n \in 1..MaxAttempts, NEW stalled \in BOOLEAN
    PROVE  /\ Run(label, n, stalled) \in JobRow
           /\ Run(label, n, stalled).pc = label
           /\ Run(label, n, stalled).verdict = "none"
BY DEF Run, JobRow

LEMMA IdleType ==
    ASSUME NEW label \in JobPc
    PROVE  /\ Idle(label) \in JobRow
           /\ Idle(label).pc = label
           /\ Idle(label).verdict = "none"
<1>1. 1 \in 1..MaxAttempts
    BY DEF MaxAttempts
<1> QED BY <1>1, RunType DEF Idle

(* A throw leaves an execution that has nothing to announce.               *)
LEMMA ThrowStep ==
    ASSUME ingest \in [Events -> JobRow], NEW e \in Events, Throw(e)
    PROVE  /\ ingest' \in [Events -> JobRow]
           /\ ingest'[e].pc \in {"find", "failed"} /\ ingest'[e].verdict = "none"
           /\ \A f \in Events : f # e => ingest'[f] = ingest[f]
<1>1. PICK row \in JobRow :
          /\ row.pc \in {"find", "failed"} /\ row.verdict = "none"
          /\ ingest' = [ingest EXCEPT ![e] = row]
  <2>1. CASE ingest[e].attempt < MaxAttempts
    <3>1. ingest[e].attempt \in 1..MaxAttempts /\ ingest[e].stalled \in BOOLEAN
        BY DEF JobRow
    <3>2. ingest[e].attempt + 1 \in 1..MaxAttempts
        BY <2>1, <3>1 DEF MaxAttempts
    <3>3. PICK row \in JobRow :
              /\ row = Run("find", ingest[e].attempt + 1, ingest[e].stalled)
              /\ row.pc = "find" /\ row.verdict = "none"
        BY <3>1, <3>2, RunType DEF JobPc
    <3> QED BY <2>1, <3>3 DEF Throw
  <2>2. CASE ~(ingest[e].attempt < MaxAttempts)
    <3>1. PICK row \in JobRow :
              /\ row = Idle("failed")
              /\ row.pc = "failed" /\ row.verdict = "none"
        BY IdleType DEF JobPc
    <3> QED BY <2>2, <3>1 DEF Throw
  <2> QED BY <2>1, <2>2
<1> QED BY <1>1

(* An execution moves and publishes nothing: it may claim a creation only  *)
(* if it could before, and pass "store" only with its event stored.        *)
LEMMA MoveStep ==
    ASSUME IInv, NEW e \in Events, NEW row \in JobRow,
           ingest'[e] = row,
           \A f \in Events : f # e => ingest'[f] = ingest[f],
           broadcasts' = broadcasts, stored \subseteq stored',
           \A k \in Issues : issue[k].status # "none" => issue'[k].status # "none",
           row.pc \in {"count", "users", "broadcast"} => e \in stored' /\ ~Announced(e),
           row.verdict = "new" => Creator(e)
    PROVE  StoredFirst' /\ AnnouncedAtMostOne' /\ OneCreator'
<1>1. StoredFirst'
    BY DEF IInv, StoredFirst, PastStore, Announced
<1>2. AnnouncedAtMostOne'
    BY DEF IInv, AnnouncedAtMostOne
<1>3. \A f \in Events : Creator(f)' => Creator(f)
    BY DEF Creator
<1>4. \A f \in Events : IssueOf[f] \in Issues
    BY EventAssumption
<1>5. OneCreator'
    BY <1>3, <1>4 DEF IInv, OneCreator
<1> QED BY <1>1, <1>2, <1>5

(* The same of a throw.                                                    *)
LEMMA ThrowMoves ==
    ASSUME IInv, NEW e \in Events, Throw(e), UNCHANGED <<issue, stored, broadcasts>>
    PROVE  /\ ingest' \in [Events -> JobRow]
           /\ StoredFirst' /\ AnnouncedAtMostOne' /\ OneCreator'
<1>1. ingest \in [Events -> JobRow]
    BY DEF IInv, TypeOK
<1> QED BY <1>1, ThrowStep, MoveStep

LEMMA InitIInv == Init => IInv
<1> SUFFICES ASSUME Init PROVE IInv
    OBVIOUS
<1>1. \A e \in Events : /\ ingest[e] \in JobRow
                         /\ ingest[e].pc = "absent" /\ ingest[e].verdict = "none"
    BY IdleType DEF Init, JobPc
<1>2. NoIssue \in IssueRow
    BY DEF NoIssue, IssueRow
<1>3. TypeOK
  <2>1. ingest \in [Events -> JobRow]
      BY <1>1 DEF Init
  <2>2. issue \in [Issues -> IssueRow]
      BY <1>2 DEF Init
  <2>3. edit \in [Edits -> EditRow]
      BY DEF Init, EditRow
  <2>4. broadcasts \in [Events -> [created: Nat, regression: Nat]]
      BY DEF Init
  <2> QED BY <2>1, <2>2, <2>3, <2>4, EventAssumption DEF Init, TypeOK
<1>4. \A e \in Events : ~Announced(e) /\ ~PastStore(e) /\ ~Creator(e)
    BY <1>1 DEF Init, Announced, PastStore, Creator
<1>5. StoredFirst /\ OneCreator
    BY <1>4 DEF StoredFirst, OneCreator
<1>6. AnnouncedAtMostOne
    BY DEF Init, AnnouncedAtMostOne
<1> QED BY <1>3, <1>5, <1>6 DEF IInv

-----------------------------------------------------------------------------
(* One lemma per action.                                                   *)

LEMMA AcceptStep == ASSUME IInv, NEW e \in Events, Accept(e) PROVE IInv'
<1>1. PICK row \in JobRow : row = [ingest[e] EXCEPT !.pc = "find"]
    BY DEF IInv, TypeOK, JobRow, JobPc
<1>2. row.pc = "find" /\ row.verdict = ingest[e].verdict
    BY <1>1 DEF IInv, TypeOK, JobRow
<1>3. ingest' = [ingest EXCEPT ![e] = row]
    BY <1>1 DEF Accept, Goto
<1>4. /\ ingest' \in [Events -> JobRow] /\ ingest'[e] = row
      /\ \A f \in Events : f # e => ingest'[f] = ingest[f]
    BY <1>3 DEF IInv, TypeOK
<1>5. UNCHANGED <<issue, stored, broadcasts, edit, faults>>
    BY DEF Accept
<1>6. row.verdict = "new" => Creator(e)
    BY <1>2 DEF Creator
<1>7. StoredFirst' /\ AnnouncedAtMostOne' /\ OneCreator'
    BY <1>2, <1>4, <1>5, <1>6, MoveStep
<1> QED BY <1>4, <1>5, <1>7 DEF IInv, TypeOK

LEMMA FindStep == ASSUME IInv, NEW e \in Events, FindIssue(e) PROVE IInv'
<1> DEFINE status == issue[IssueOf[e]].status
           label == IF status = "none" THEN "create" ELSE "update"
<1>1. status \in IssueStatus \cup {"none"} /\ label \in {"create", "update"}
    BY EventAssumption DEF IInv, TypeOK, IssueRow
<1>2. ingest' = [ingest EXCEPT ![e].seen = status, ![e].pc = label]
    BY DEF FindIssue
<1> HIDE DEF status, label
<1>3. PICK row \in JobRow : row = [ingest[e] EXCEPT !.seen = status, !.pc = label]
    BY <1>1 DEF IInv, TypeOK, JobRow, JobPc
<1>4. row.pc = label /\ row.verdict = ingest[e].verdict
    BY <1>3 DEF IInv, TypeOK, JobRow
<1>5. ingest' = [ingest EXCEPT ![e] = row]
    BY <1>2, <1>3 DEF IInv, TypeOK
<1>6. /\ ingest' \in [Events -> JobRow] /\ ingest'[e] = row
      /\ \A f \in Events : f # e => ingest'[f] = ingest[f]
    BY <1>5 DEF IInv, TypeOK
<1>7. UNCHANGED <<issue, stored, broadcasts, edit, faults>>
    BY DEF FindIssue
<1>8. row.verdict = "new" => Creator(e)
    BY <1>4 DEF Creator
<1>9. StoredFirst' /\ AnnouncedAtMostOne' /\ OneCreator'
    BY <1>1, <1>4, <1>6, <1>7, <1>8, MoveStep
<1> QED BY <1>6, <1>7, <1>9 DEF IInv, TypeOK

LEMMA CreateStep == ASSUME IInv, NEW e \in Events, CreateIssue(e) PROVE IInv'
<1> DEFINE k == IssueOf[e]
<1>1. k \in Issues
    BY EventAssumption
<1>2. UNCHANGED <<stored, broadcasts, edit, faults>>
    BY DEF CreateIssue
<1>3. CASE issue[k].status = "none"
  <2>1. PICK new \in IssueRow :
            /\ new = [status |-> "unresolved", eventCount |-> 1,
                      userCount |-> IF UserOf[e] = NoUser THEN 0 ELSE 1]
            /\ new.status = "unresolved"
    <3>1. PICK n \in Nat : n = IF UserOf[e] = NoUser THEN 0 ELSE 1
        OBVIOUS
    <3>2. [status |-> "unresolved", eventCount |-> 1, userCount |-> n] \in IssueRow
        BY DEF IssueRow, IssueStatus
    <3> QED BY <3>1, <3>2
  <2>2. /\ issue' = [issue EXCEPT ![k] = new]
        /\ ingest' = [ingest EXCEPT ![e].verdict = "new", ![e].pc = "store"]
      BY <1>3, <2>1 DEF CreateIssue
  <2>3. PICK row \in JobRow : row = [ingest[e] EXCEPT !.verdict = "new", !.pc = "store"]
      BY DEF IInv, TypeOK, JobRow, JobPc
  <2>4. row.pc = "store" /\ row.verdict = "new"
      BY <2>3 DEF IInv, TypeOK, JobRow
  <2>5. ingest' = [ingest EXCEPT ![e] = row]
      BY <2>2, <2>3 DEF IInv, TypeOK
  <2> HIDE DEF k
  <2>6. /\ ingest' \in [Events -> JobRow] /\ ingest'[e] = row
        /\ \A f \in Events : f # e => ingest'[f] = ingest[f]
      BY <2>5 DEF IInv, TypeOK
  <2>7. /\ issue' \in [Issues -> IssueRow]
        /\ issue'[k].status # "none"
        /\ \A l \in Issues : l # k => issue'[l] = issue[l]
      BY <1>1, <2>1, <2>2 DEF IInv, TypeOK
  <2>8. \A f \in Events : IssueOf[f] = k => ~Creator(f)
      BY <1>3 DEF IInv, OneCreator
  <2>9. \A f \in Events : Creator(f)' => Creator(f) \/ f = e
      BY <1>2, <2>6 DEF Creator
  <2>10. \A f \in Events : IssueOf[f] \in Issues
      BY EventAssumption
  <2>11. OneCreator'
    <3>1. IssueOf[e] = k
        BY DEF k
    <3>2. ASSUME NEW f \in Events, Creator(f)' PROVE issue'[IssueOf[f]].status # "none"
        BY <2>7, <2>9, <2>10, <3>1, <3>2 DEF IInv, OneCreator
    <3>3. ASSUME NEW f \in Events, NEW g \in Events, IssueOf[f] = IssueOf[g],
                 Creator(f)', Creator(g)'
          PROVE  f = g
        BY <2>8, <2>9, <3>1, <3>3 DEF IInv, OneCreator
    <3> QED BY <3>2, <3>3 DEF OneCreator
  <2>12. StoredFirst' /\ AnnouncedAtMostOne'
      BY <1>2, <2>4, <2>6 DEF IInv, StoredFirst, PastStore, Announced, AnnouncedAtMostOne
  <2> QED BY <1>2, <2>6, <2>7, <2>11, <2>12 DEF IInv, TypeOK
<1>4. CASE issue[k].status # "none"
  <2>1. Throw(e) /\ issue' = issue
      BY <1>4 DEF CreateIssue
  <2> QED BY <1>2, <2>1, ThrowMoves DEF IInv, TypeOK
<1> QED BY <1>3, <1>4

LEMMA UpdateStep == ASSUME IInv, NEW e \in Events, UpdateIssue(e) PROVE IInv'
<1> DEFINE k == IssueOf[e]
           verdict == Verdict(ingest[e].seen)
           status == IF verdict = "regression" THEN "unresolved" ELSE issue[k].status
           count == issue[k].eventCount + 1
<1>1. k \in Issues
    BY EventAssumption
<1>2. verdict \in {"regression", "ignored", "known"}
    BY DEF Verdict
<1>3. /\ status \in IssueStatus \cup {"none"} /\ count \in Nat
      /\ issue[k].status # "none" => status # "none"
    BY <1>1 DEF IInv, TypeOK, IssueRow, IssueStatus
<1>4. /\ issue' = [issue EXCEPT ![k].eventCount = count, ![k].status = status]
      /\ ingest' = [ingest EXCEPT ![e].verdict = verdict, ![e].pc = "store"]
      /\ UNCHANGED <<stored, broadcasts, edit, faults>>
    BY DEF UpdateIssue
<1> HIDE DEF k, verdict, status, count
<1>5. PICK row \in JobRow : row = [ingest[e] EXCEPT !.verdict = verdict, !.pc = "store"]
    BY <1>2 DEF IInv, TypeOK, JobRow, JobPc
<1>6. row.pc = "store" /\ row.verdict = verdict
    BY <1>5 DEF IInv, TypeOK, JobRow
<1>7. ingest' = [ingest EXCEPT ![e] = row]
    BY <1>4, <1>5 DEF IInv, TypeOK
<1>8. /\ ingest' \in [Events -> JobRow] /\ ingest'[e] = row
      /\ \A f \in Events : f # e => ingest'[f] = ingest[f]
    BY <1>7 DEF IInv, TypeOK
<1>9. PICK new \in IssueRow : new = [issue[k] EXCEPT !.eventCount = count, !.status = status]
    BY <1>1, <1>3 DEF IInv, TypeOK, IssueRow
<1>10. new.status = status
    BY <1>1, <1>9 DEF IInv, TypeOK, IssueRow
<1>11. issue' = [issue EXCEPT ![k] = new]
    BY <1>1, <1>4, <1>9 DEF IInv, TypeOK
<1>12. /\ issue' \in [Issues -> IssueRow]
       /\ \A l \in Issues : issue[l].status # "none" => issue'[l].status # "none"
    BY <1>1, <1>3, <1>10, <1>11 DEF IInv, TypeOK
<1>13. StoredFirst' /\ AnnouncedAtMostOne' /\ OneCreator'
    BY <1>2, <1>4, <1>6, <1>8, <1>12, MoveStep
<1> QED BY <1>4, <1>8, <1>12, <1>13 DEF IInv, TypeOK

LEMMA StoreStep == ASSUME IInv, NEW e \in Events, StoreEvent(e) PROVE IInv'
<1>1. UNCHANGED <<issue, broadcasts, edit, faults>> /\ stored' = stored \cup {e}
    BY DEF StoreEvent
<1>2. CASE e \in stored
  <2>1. Throw(e) /\ stored' = stored
      BY <1>1, <1>2 DEF StoreEvent
  <2> QED BY <1>1, <2>1, ThrowMoves DEF IInv, TypeOK
<1>3. CASE e \notin stored
  <2> DEFINE label == IF UserOf[e] = NoUser THEN "broadcast" ELSE "count"
  <2>1. label \in {"broadcast", "count"}
      OBVIOUS
  <2>2. ingest' = [ingest EXCEPT ![e].pc = label]
      BY <1>3 DEF StoreEvent, Goto
  <2> HIDE DEF label
  <2>3. PICK row \in JobRow : row = [ingest[e] EXCEPT !.pc = label]
      BY <2>1 DEF IInv, TypeOK, JobRow, JobPc
  <2>4. row.pc = label /\ row.verdict = ingest[e].verdict
      BY <2>3 DEF IInv, TypeOK, JobRow
  <2>5. /\ ingest' \in [Events -> JobRow] /\ ingest'[e] = row
        /\ \A f \in Events : f # e => ingest'[f] = ingest[f]
      BY <2>2, <2>3 DEF IInv, TypeOK
  <2>6. ~Announced(e) /\ e \in stored' /\ stored \subseteq stored'
      BY <1>1, <1>3 DEF IInv, StoredFirst
  <2>7. row.verdict = "new" => Creator(e)
      BY <2>4 DEF Creator
  <2>8. StoredFirst' /\ AnnouncedAtMostOne' /\ OneCreator'
      BY <1>1, <2>5, <2>6, <2>7, MoveStep
  <2> QED BY <1>1, <2>5, <2>8 DEF IInv, TypeOK
<1> QED BY <1>2, <1>3

LEMMA CountStep == ASSUME IInv, NEW e \in Events, CountUsers(e) PROVE IInv'
<1> DEFINE n == Cardinality(UsersOf(IssueOf[e]))
<1>1. n \in Nat
    BY UserCountIsNat DEF IInv, TypeOK
<1>2. /\ ingest' = [ingest EXCEPT ![e].users = n, ![e].pc = "users"]
      /\ UNCHANGED <<issue, stored, broadcasts, edit, faults>>
    BY DEF CountUsers
<1> HIDE DEF n
<1>3. PICK row \in JobRow : row = [ingest[e] EXCEPT !.users = n, !.pc = "users"]
    BY <1>1 DEF IInv, TypeOK, JobRow, JobPc
<1>4. row.pc = "users" /\ row.verdict = ingest[e].verdict
    BY <1>3 DEF IInv, TypeOK, JobRow
<1>5. ingest' = [ingest EXCEPT ![e] = row]
    BY <1>2, <1>3 DEF IInv, TypeOK
<1>6. /\ ingest' \in [Events -> JobRow] /\ ingest'[e] = row
      /\ \A f \in Events : f # e => ingest'[f] = ingest[f]
    BY <1>5 DEF IInv, TypeOK
<1>7. e \in stored /\ ~Announced(e)
    BY DEF IInv, StoredFirst, PastStore, CountUsers, At
<1>8. row.verdict = "new" => Creator(e)
    BY <1>4 DEF Creator
<1>9. StoredFirst' /\ AnnouncedAtMostOne' /\ OneCreator'
    BY <1>2, <1>6, <1>7, <1>8, MoveStep
<1> QED BY <1>2, <1>6, <1>9 DEF IInv, TypeOK

LEMMA WriteCountStep == ASSUME IInv, NEW e \in Events, WriteUserCount(e) PROVE IInv'
<1> DEFINE k == IssueOf[e]
<1>1. k \in Issues
    BY EventAssumption
<1>2. PICK row \in JobRow : row = [ingest[e] EXCEPT !.pc = "broadcast"]
    BY DEF IInv, TypeOK, JobRow, JobPc
<1>3. row.pc = "broadcast" /\ row.verdict = ingest[e].verdict
    BY <1>2 DEF IInv, TypeOK, JobRow
<1>4. /\ ingest' \in [Events -> JobRow] /\ ingest'[e] = row
      /\ \A f \in Events : f # e => ingest'[f] = ingest[f]
    BY <1>2 DEF IInv, TypeOK, WriteUserCount, Goto
<1>5. UNCHANGED <<stored, broadcasts, edit, faults>>
    BY DEF WriteUserCount
<1>6. issue' = [issue EXCEPT ![k].userCount = ingest[e].users]
    BY DEF WriteUserCount
<1>7. /\ issue' \in [Issues -> IssueRow]
      /\ \A l \in Issues : issue'[l].status = issue[l].status
  <2>1. PICK n \in Nat : n = ingest[e].users
      BY DEF IInv, TypeOK, JobRow
  <2>2. PICK new \in IssueRow : new = [issue[k] EXCEPT !.userCount = n]
      BY <1>1 DEF IInv, TypeOK, IssueRow
  <2>3. new.status = issue[k].status
      BY <1>1, <2>2 DEF IInv, TypeOK, IssueRow
  <2>4. issue' = [issue EXCEPT ![k] = new]
      BY <1>6, <2>1, <2>2
  <2> HIDE DEF k
  <2> QED BY <1>1, <2>3, <2>4 DEF IInv, TypeOK
<1>8. e \in stored /\ ~Announced(e)
    BY DEF IInv, StoredFirst, PastStore, WriteUserCount, At
<1>9. row.verdict = "new" => Creator(e)
    BY <1>3 DEF Creator
<1>10. StoredFirst' /\ AnnouncedAtMostOne' /\ OneCreator'
    BY <1>4, <1>5, <1>7, <1>8, <1>9, MoveStep
<1> QED BY <1>4, <1>5, <1>7, <1>10 DEF IInv, TypeOK

LEMMA BroadcastStep == ASSUME IInv, NEW e \in Events, Broadcast(e) PROVE IInv'
<1> DEFINE created == IF ingest[e].verdict = "new" THEN broadcasts[e].created + 1
                      ELSE broadcasts[e].created
           regression == IF ingest[e].verdict = "regression"
                         THEN broadcasts[e].regression + 1 ELSE broadcasts[e].regression
<1>1. e \in stored /\ ~Announced(e)
    BY DEF IInv, StoredFirst, PastStore, Broadcast, At
<1>2. broadcasts[e].created = 0 /\ broadcasts[e].regression = 0
    BY <1>1 DEF IInv, TypeOK, Announced
<1>3. /\ created \in {0, 1} /\ regression \in {0, 1} /\ created + regression <= 1
      /\ created > 0 => ingest[e].verdict = "new"
    BY <1>2
<1>4. broadcasts' = [broadcasts EXCEPT ![e].created = created, ![e].regression = regression]
    BY DEF Broadcast
<1>5. UNCHANGED <<issue, stored, edit, faults>>
    BY DEF Broadcast
<1> HIDE DEF created, regression
<1>6. PICK said \in [created: Nat, regression: Nat] :
          said = [broadcasts[e] EXCEPT !.created = created, !.regression = regression]
  <2>1. broadcasts[e] \in [created: Nat, regression: Nat]
      BY DEF IInv, TypeOK
  <2>2. created \in Nat /\ regression \in Nat
      BY <1>3
  <2> QED BY <2>1, <2>2
<1>7. said.created = created /\ said.regression = regression
    BY <1>6 DEF IInv, TypeOK
<1>8. broadcasts' = [broadcasts EXCEPT ![e] = said]
    BY <1>4, <1>6 DEF IInv, TypeOK
<1>9. /\ broadcasts' \in [Events -> [created: Nat, regression: Nat]]
      /\ broadcasts'[e] = said
      /\ \A f \in Events : f # e => broadcasts'[f] = broadcasts[f]
    BY <1>8 DEF IInv, TypeOK
<1>10. PICK row \in JobRow : row = [ingest[e] EXCEPT !.pc = "alerts"]
    BY DEF IInv, TypeOK, JobRow, JobPc
<1>11. row.pc = "alerts" /\ row.verdict = ingest[e].verdict
    BY <1>10 DEF IInv, TypeOK, JobRow
<1>12. /\ ingest' \in [Events -> JobRow] /\ ingest'[e] = row
       /\ \A f \in Events : f # e => ingest'[f] = ingest[f]
    BY <1>10 DEF IInv, TypeOK, Broadcast, Goto
<1>13. StoredFirst'
    BY <1>1, <1>5, <1>9, <1>11, <1>12 DEF IInv, StoredFirst, PastStore, Announced
<1>14. AnnouncedAtMostOne'
    BY <1>3, <1>7, <1>9 DEF IInv, AnnouncedAtMostOne
<1>15. \A f \in Events : Creator(f)' => Creator(f)
    BY <1>3, <1>7, <1>9, <1>11, <1>12 DEF Creator
<1>16. OneCreator'
    BY <1>5, <1>15 DEF IInv, OneCreator
<1> QED BY <1>5, <1>9, <1>12, <1>13, <1>14, <1>16 DEF IInv, TypeOK

LEMMA FinishStep == ASSUME IInv, NEW e \in Events, Finish(e) PROVE IInv'
<1>1. PICK row \in JobRow : /\ row = Idle("done")
                           /\ row.pc = "done" /\ row.verdict = "none"
    BY IdleType DEF JobPc
<1>2. /\ ingest' \in [Events -> JobRow] /\ ingest'[e] = row
      /\ \A f \in Events : f # e => ingest'[f] = ingest[f]
    BY <1>1 DEF IInv, TypeOK, Finish
<1>3. UNCHANGED <<issue, stored, broadcasts, edit, faults>>
    BY DEF Finish
<1>4. StoredFirst' /\ AnnouncedAtMostOne' /\ OneCreator'
    BY <1>1, <1>2, <1>3, MoveStep
<1> QED BY <1>2, <1>3, <1>4 DEF IInv, TypeOK

LEMMA FaultStep == ASSUME IInv, Fault PROVE faults' \in 0..MaxFaults
BY EventAssumption DEF IInv, TypeOK, Fault

LEMMA ErrorStep == ASSUME IInv, NEW e \in Events, JobError(e) PROVE IInv'
<1>1. Throw(e) /\ Fault /\ UNCHANGED <<issue, stored, broadcasts, edit>>
    BY DEF JobError
<1> QED BY <1>1, FaultStep, ThrowMoves DEF IInv, TypeOK

LEMMA CrashStep == ASSUME IInv, WorkerCrash PROVE IInv'
<1>1. Fault /\ UNCHANGED <<issue, stored, broadcasts, edit>>
    BY DEF WorkerCrash
<1>2. \A e \in Events :
          /\ ingest'[e] \in JobRow
          /\ \/ ingest'[e] = ingest[e] /\ ~Running(e)
             \/ ingest'[e].pc \in {"find", "failed"} /\ ingest'[e].verdict = "none"
  <2> TAKE e \in Events
  <2>1. CASE ~Running(e)
      BY <2>1 DEF WorkerCrash, IInv, TypeOK
  <2>2. CASE Running(e) /\ ingest[e].stalled
    <3>1. ingest'[e] = Idle("failed")
        BY <2>2 DEF WorkerCrash
    <3> QED BY <3>1, IdleType DEF JobPc
  <2>3. CASE Running(e) /\ ~ingest[e].stalled
    <3>1. ingest'[e] = Run("find", ingest[e].attempt, TRUE)
        BY <2>3 DEF WorkerCrash
    <3>2. ingest[e].attempt \in 1..MaxAttempts
        BY DEF IInv, TypeOK, JobRow
    <3>3. "find" \in JobPc /\ TRUE \in BOOLEAN
        BY DEF JobPc
    <3>4. PICK n \in 1..MaxAttempts : n = ingest[e].attempt
        BY <3>2
    <3>5. Run("find", n, TRUE) \in JobRow /\ Run("find", n, TRUE).pc = "find"
          /\ Run("find", n, TRUE).verdict = "none"
        BY <3>3, RunType
    <3> QED BY <3>1, <3>4, <3>5
  <2> QED BY <2>1, <2>2, <2>3
<1>3. ingest' \in [Events -> JobRow]
    BY <1>2 DEF WorkerCrash
<1>4. StoredFirst'
    BY <1>1, <1>2 DEF IInv, StoredFirst, PastStore, Announced, Running
<1>5. AnnouncedAtMostOne'
    BY <1>1 DEF IInv, AnnouncedAtMostOne
<1>6. \A e \in Events : Creator(e)' => Creator(e)
    BY <1>1, <1>2 DEF Creator
<1>7. OneCreator'
    BY <1>1, <1>6 DEF IInv, OneCreator
<1> QED BY <1>1, <1>3, <1>4, <1>5, <1>7, FaultStep DEF IInv, TypeOK

(* A request leaves jobs and broadcasts alone, and a row once created is   *)
(* never taken back.                                                       *)
LEMMA ReadEditStep == ASSUME IInv, NEW r \in Edits, ReadIssue(r) PROVE IInv'
<1>1. UNCHANGED <<issue, stored, ingest, broadcasts, faults>>
    BY DEF ReadIssue
<1>2. PICK k \in Issues, status \in IssueStatus :
          edit' = [edit EXCEPT ![r] = [pc |-> "write", target |-> k, status |-> status]]
    BY DEF ReadIssue
<1>3. PICK row \in EditRow : row = [pc |-> "write", target |-> k, status |-> status]
    BY DEF EditRow
<1>4. edit' \in [Edits -> EditRow]
    BY <1>2, <1>3 DEF IInv, TypeOK
<1> QED BY <1>1, <1>4 DEF IInv, TypeOK, StoredFirst, PastStore, Announced,
                          AnnouncedAtMostOne, OneCreator, Creator

LEMMA WriteEditStep == ASSUME IInv, NEW r \in Edits, WriteIssue(r) PROVE IInv'
<1>1. UNCHANGED <<stored, ingest, broadcasts, faults>>
    BY DEF WriteIssue
<1>2. PICK k \in Issues, status \in IssueStatus :
          /\ edit[r] = [pc |-> "write", target |-> k, status |-> status]
          /\ edit[r].target = k /\ edit[r].status = status
    BY DEF WriteIssue, IInv, TypeOK, EditRow
<1>3. issue' = [issue EXCEPT ![k].status = status]
    BY <1>2 DEF WriteIssue
<1>4. PICK new \in IssueRow : new = [issue[k] EXCEPT !.status = status]
    BY DEF IInv, TypeOK, IssueRow
<1>5. new.status = status /\ status # "none"
    BY <1>4 DEF IInv, TypeOK, IssueRow, IssueStatus
<1>6. issue' = [issue EXCEPT ![k] = new]
    BY <1>3, <1>4
<1>7. /\ issue' \in [Issues -> IssueRow]
      /\ \A l \in Issues : issue[l].status # "none" => issue'[l].status # "none"
    BY <1>5, <1>6 DEF IInv, TypeOK
<1>8. edit' \in [Edits -> EditRow]
  <2>1. PICK row \in EditRow : row = [pc |-> "closed", target |-> k, status |-> status]
      BY DEF EditRow
  <2>2. row = [edit[r] EXCEPT !.pc = "closed"]
      BY <1>2, <2>1
  <2>3. edit' = [edit EXCEPT ![r] = row]
      BY <2>2 DEF WriteIssue
  <2> QED BY <2>3 DEF IInv, TypeOK
<1>9. \A e \in Events : IssueOf[e] \in Issues
    BY EventAssumption
<1>10. StoredFirst' /\ AnnouncedAtMostOne'
    BY <1>1 DEF IInv, StoredFirst, PastStore, Announced, AnnouncedAtMostOne
<1>11. OneCreator'
    BY <1>1, <1>7, <1>9 DEF IInv, OneCreator, Creator
<1> QED BY <1>1, <1>7, <1>8, <1>10, <1>11 DEF IInv, TypeOK

LEMMA NextIInv == IInv /\ [Next]_vars => IInv'
<1> SUFFICES ASSUME IInv, [Next]_vars PROVE IInv'
    OBVIOUS
<1>1. ASSUME NEW e \in Events, Accept(e) \/ IngestStep(e) \/ JobError(e) PROVE IInv'
    BY <1>1, AcceptStep, FindStep, CreateStep, UpdateStep, StoreStep, CountStep,
       WriteCountStep, BroadcastStep, FinishStep, ErrorStep DEF IngestStep
<1>2. ASSUME NEW r \in Edits, ReadIssue(r) \/ WriteIssue(r) PROVE IInv'
    BY <1>2, ReadEditStep, WriteEditStep
<1>3. CASE WorkerCrash
    BY <1>3, CrashStep
<1>4. CASE UNCHANGED vars
    BY <1>4 DEF vars, IInv, TypeOK, StoredFirst, PastStore, Announced,
                AnnouncedAtMostOne, OneCreator, Creator
<1> QED BY <1>1, <1>2, <1>3, <1>4 DEF Next

-----------------------------------------------------------------------------

(* Rows, jobs and requests keep their types (ingest.processor.js).         *)
THEOREM TypeCorrect == Spec => []TypeOK
<1>1. IInv => TypeOK
    BY DEF IInv
<1> QED BY <1>1, InitIInv, NextIInv, PTL DEF Spec

(* However often the queue runs an event, it is announced at most once,    *)
(* and one event at most announces a new issue (ingest.processor.js).      *)
THEOREM EventsAnnouncedOnce == Spec => []AnnouncedOnce
<1>1. IInv => AnnouncedOnce
    BY DEF IInv, AnnouncedAtMostOne, OneCreator, Creator, AnnouncedOnce
<1> QED BY <1>1, InitIInv, NextIInv, PTL DEF Spec

-----------------------------------------------------------------------------
(***************************************************************************)
(* Counting and attempts.  An issue's count is compared with the events    *)
(* that are stored or counted and about to be; what keeps it exact is that *)
(* until something fails no execution finds its event stored already.      *)
(* Attempts are counted against what used them up: the lost race to create *)
(* the row, which happens once because the row then stays, and the faults. *)
(***************************************************************************)

(* The race to create the row can cost e no further attempt.               *)
Raced(e) == issue[IssueOf[e]].status # "none" /\ ingest[e].pc # "create"

AttemptInv ==
    /\ \A e \in Events : ingest[e].stalled => faults > 0
    /\ \A e \in Events : ingest[e].pc \in {"alerts", "done"} => e \in stored
    /\ faults <= 1 => \A e \in Events : e \notin stored =>
          /\ ingest[e].pc # "failed"
          /\ ingest[e].attempt <= 2 + faults
          /\ ~Raced(e) => ingest[e].attempt <= 1 + faults

CountInv ==
    /\ \A k \in Issues : issue[k].status = "none" => issue[k].eventCount = 0
    /\ \A e \in Events : ingest[e].pc = "update" => issue[IssueOf[e]].status # "none"
    /\ faults = 0 => \A e \in stored :
          ingest[e].pc \notin {"absent", "find", "create", "update", "store"}
    /\ CountCovers

(* What a step of the job of e does to its row: it goes from one label to  *)
(* the next and keeps its attempt; it is over; or it is thrown back.       *)
Moves(e, from, to) ==
    /\ ingest[e].pc = from /\ ingest'[e].pc = to
    /\ ingest'[e].attempt = ingest[e].attempt
    /\ ingest'[e].stalled = ingest[e].stalled
    /\ faults' = faults

Thrown(e) ==
    /\ stored' = stored
    /\ \/ /\ ingest[e].attempt < MaxAttempts
          /\ ingest'[e].pc = "find"
          /\ ingest'[e].attempt = ingest[e].attempt + 1
          /\ ingest'[e].stalled = ingest[e].stalled
       \/ /\ ingest[e].attempt = MaxAttempts
          /\ ingest'[e].pc = "failed" /\ ingest'[e].stalled = FALSE

Kept(e) ==
    /\ issue'[IssueOf[e]].status = issue[IssueOf[e]].status
    /\ issue'[IssueOf[e]].eventCount = issue[IssueOf[e]].eventCount

Effect(e) ==
    \/ Moves(e, "absent", "find") /\ Kept(e) /\ stored' = stored
    \/ /\ Moves(e, "find", "create") /\ Kept(e) /\ stored' = stored
       /\ issue[IssueOf[e]].status = "none"
    \/ /\ Moves(e, "find", "update") /\ Kept(e) /\ stored' = stored
       /\ issue[IssueOf[e]].status # "none"
    \/ /\ Moves(e, "create", "store") /\ stored' = stored
       /\ issue[IssueOf[e]].status = "none"
       /\ issue'[IssueOf[e]].status # "none" /\ issue'[IssueOf[e]].eventCount = 1
    \/ /\ Moves(e, "update", "store") /\ stored' = stored
       /\ issue[IssueOf[e]].status # "none" => issue'[IssueOf[e]].status # "none"
       /\ issue'[IssueOf[e]].eventCount = issue[IssueOf[e]].eventCount + 1
    \/ /\ Moves(e, "store", "count") \/ Moves(e, "store", "broadcast")
       /\ Kept(e) /\ e \notin stored /\ stored' = stored \cup {e}
    \/ /\ \/ Moves(e, "count", "users") \/ Moves(e, "users", "broadcast")
          \/ Moves(e, "broadcast", "alerts")
       /\ Kept(e) /\ stored' = stored
    \/ /\ ingest[e].pc = "alerts" /\ ingest'[e].pc = "done"
       /\ ingest'[e].stalled = FALSE
       /\ Kept(e) /\ stored' = stored /\ faults' = faults
    \/ /\ ingest[e].pc = "create" /\ issue[IssueOf[e]].status # "none"
       /\ Thrown(e) /\ Kept(e) /\ faults' = faults
    \/ ingest[e].pc = "store" /\ e \in stored /\ Thrown(e) /\ Kept(e) /\ faults' = faults
    \/ /\ ingest[e].pc \in {"find", "create", "update", "store", "count", "users"}
       /\ Thrown(e) /\ Kept(e) /\ faults' = faults + 1

LEMMA ThrowThrows ==
    ASSUME ingest \in [Events -> JobRow], NEW e \in Events, Throw(e), stored' = stored
    PROVE  Thrown(e)
<1>1. ingest[e].attempt \in 1..3
    BY DEF JobRow, MaxAttempts
<1>2. CASE ingest[e].attempt < MaxAttempts
  <2>1. ingest'[e] = Run("find", ingest[e].attempt + 1, ingest[e].stalled)
      BY <1>2 DEF Throw
  <2> QED BY <1>2, <2>1 DEF Run, Thrown
<1>3. CASE ~(ingest[e].attempt < MaxAttempts)
  <2>1. ingest'[e] = Idle("failed") /\ ingest[e].attempt = MaxAttempts
      BY <1>1, <1>3 DEF Throw, MaxAttempts
  <2> QED BY <2>1 DEF Idle, Run, Thrown
<1> QED BY <1>2, <1>3

LEMMA JobEffect ==
    ASSUME IInv, NEW e \in Events, Accept(e) \/ IngestStep(e) \/ JobError(e)
    PROVE  /\ Effect(e)
           /\ \A f \in Events : f # e => ingest'[f] = ingest[f]
           /\ \A k \in Issues : k # IssueOf[e] => issue'[k] = issue[k]
<1> DEFINE k == IssueOf[e]
<1>1. /\ ingest \in [Events -> JobRow] /\ issue \in [Issues -> IssueRow] /\ k \in Issues
    BY EventAssumption DEF IInv, TypeOK
<1>2. /\ ingest[e].pc \in JobPc /\ ingest[e] \in JobRow /\ issue[k] \in IssueRow
      /\ ingest[e].attempt \in 1..MaxAttempts
    BY <1>1 DEF JobRow
<1>3. CASE Accept(e)
    BY <1>1, <1>3 DEF Accept, At, Goto, JobRow, Effect, Moves, Kept
<1>4. CASE FindIssue(e)
    BY <1>1, <1>4 DEF FindIssue, At, JobRow, Effect, Moves, Kept
<1>5. CASE CreateIssue(e)
  <2>1. CASE issue[k].status = "none"
    <3>1. /\ ingest' = [ingest EXCEPT ![e].verdict = "new", ![e].pc = "store"]
          /\ UNCHANGED <<stored, faults>> /\ ingest[e].pc = "create"
        BY <1>5, <2>1 DEF CreateIssue, At
    <3>2. /\ issue'[k].status = "unresolved" /\ issue'[k].eventCount = 1
          /\ \A l \in Issues : l # k => issue'[l] = issue[l]
        BY <1>1, <1>5, <2>1 DEF CreateIssue
    <3>3. Moves(e, "create", "store")
        BY <1>1, <3>1 DEF Moves, JobRow
    <3>4. \A f \in Events : f # e => ingest'[f] = ingest[f]
        BY <1>1, <3>1
    <3> QED BY <2>1, <3>1, <3>2, <3>3, <3>4 DEF Effect
  <2>2. CASE issue[k].status # "none"
    <3>1. /\ Throw(e) /\ issue' = issue /\ stored' = stored /\ faults' = faults
          /\ ingest[e].pc = "create"
        BY <1>5, <2>2 DEF CreateIssue, At
    <3>2. Thrown(e) /\ \A f \in Events : f # e => ingest'[f] = ingest[f]
        BY <1>1, <3>1, ThrowThrows, ThrowStep
    <3> QED BY <2>2, <3>1, <3>2 DEF Effect, Kept
  <2> QED BY <2>1, <2>2
<1>6. CASE UpdateIssue(e)
  <2> DEFINE verdict == Verdict(ingest[e].seen)
  <2>1. /\ ingest' = [ingest EXCEPT ![e].verdict = verdict, ![e].pc = "store"]
        /\ UNCHANGED <<stored, faults>> /\ ingest[e].pc = "update"
        /\ issue' = [issue EXCEPT ![k].eventCount = @ + 1,
              ![k].status = IF verdict = "regression" THEN "unresolved" ELSE @]
      BY <1>6 DEF UpdateIssue, At
  <2> HIDE DEF verdict
  <2>2. Moves(e, "update", "store") /\ \A f \in Events : f # e => ingest'[f] = ingest[f]
      BY <1>1, <2>1 DEF Moves, JobRow
  <2>3. \A l \in Issues : l # k => issue'[l] = issue[l]
      BY <1>1, <2>1
  <2>4. issue[k].status # "none" => issue'[k].status # "none"
      BY <1>1, <2>1 DEF IssueRow
  <2>5. issue'[k].eventCount = issue[k].eventCount + 1
      BY <1>1, <2>1 DEF IssueRow
  <2> QED BY <2>1, <2>2, <2>3, <2>4, <2>5 DEF Effect
<1>7. CASE StoreEvent(e)
  <2>1. CASE e \in stored
    <3>1. /\ Throw(e) /\ issue' = issue /\ stored' = stored /\ faults' = faults
          /\ ingest[e].pc = "store"
        BY <1>7, <2>1 DEF StoreEvent, At
    <3>2. Thrown(e) /\ \A f \in Events : f # e => ingest'[f] = ingest[f]
        BY <1>1, <3>1, ThrowThrows, ThrowStep
    <3> QED BY <2>1, <3>1, <3>2 DEF Effect, Kept
  <2>2. CASE e \notin stored
      BY <1>1, <1>7, <2>2 DEF StoreEvent, At, Goto, JobRow, Effect, Moves, Kept
  <2> QED BY <2>1, <2>2
<1>8. CASE CountUsers(e)
  <2> DEFINE n == Cardinality(UsersOf(IssueOf[e]))
  <2>1. /\ ingest' = [ingest EXCEPT ![e].users = n, ![e].pc = "users"]
        /\ UNCHANGED <<issue, stored, faults>> /\ ingest[e].pc = "count"
      BY <1>8 DEF CountUsers, At
  <2> HIDE DEF n
  <2>2. Moves(e, "count", "users") /\ \A f \in Events : f # e => ingest'[f] = ingest[f]
      BY <1>1, <2>1 DEF Moves, JobRow
  <2> QED BY <2>1, <2>2 DEF Effect, Kept
<1>9. CASE WriteUserCount(e)
  <2>1. /\ issue' = [issue EXCEPT ![k].userCount = ingest[e].users]
        /\ ingest' = [ingest EXCEPT ![e].pc = "broadcast"]
        /\ UNCHANGED <<stored, faults>> /\ ingest[e].pc = "users"
      BY <1>9 DEF WriteUserCount, At, Goto
  <2>2. Moves(e, "users", "broadcast") /\ \A f \in Events : f # e => ingest'[f] = ingest[f]
      BY <1>1, <2>1 DEF Moves, JobRow
  <2>3. Kept(e) /\ \A l \in Issues : l # k => issue'[l] = issue[l]
      BY <1>1, <2>1 DEF Kept, IssueRow
  <2> QED BY <2>1, <2>2, <2>3 DEF Effect
<1>10. CASE Broadcast(e)
    BY <1>1, <1>10 DEF Broadcast, At, Goto, JobRow, Effect, Moves, Kept
<1>11. CASE Finish(e)
    BY <1>1, <1>11 DEF Finish, At, Effect, Kept, Idle, Run
<1>12. CASE JobError(e)
  <2>1. /\ Throw(e) /\ issue' = issue /\ stored' = stored /\ faults' = faults + 1
        /\ ingest[e].pc \in {"find", "create", "update", "store", "count", "users"}
      BY <1>2, <1>12 DEF JobError, Fault, Running, JobPc
  <2>2. Thrown(e) /\ \A f \in Events : f # e => ingest'[f] = ingest[f]
      BY <1>1, <2>1, ThrowThrows, ThrowStep
  <2> QED BY <2>1, <2>2 DEF Effect, Kept
<1> QED BY <1>3, <1>4, <1>5, <1>6, <1>7, <1>8, <1>9, <1>10, <1>11, <1>12 DEF IngestStep

LEMMA AttemptStep ==
    ASSUME IInv, IInv', AttemptInv, NEW e \in Events, Effect(e),
           \A f \in Events : f # e => ingest'[f] = ingest[f],
           \A k \in Issues : k # IssueOf[e] => issue'[k] = issue[k]
    PROVE  AttemptInv'
<1>1. /\ faults \in Nat /\ faults' \in Nat
      /\ \A f \in Events : /\ ingest[f].attempt \in 1..3 /\ ingest'[f].attempt \in 1..3
                           /\ IssueOf[f] \in Issues
    BY EventAssumption DEF IInv, TypeOK, JobRow, MaxAttempts
<1>2. /\ faults' = faults \/ faults' = faults + 1
      /\ \A f \in stored : f \in stored'
      /\ \A k \in Issues : issue[k].status # "none" => issue'[k].status # "none"
    BY <1>1 DEF Effect, Moves, Thrown, Kept
<1>3. \A f \in Events : ingest'[f].stalled => faults' > 0
    BY <1>1, <1>2 DEF AttemptInv, Effect, Moves, Thrown
<1>4. \A f \in Events : ingest'[f].pc \in {"alerts", "done"} => f \in stored'
  <2>1. ingest'[e].pc \in {"alerts", "done"} => e \in stored'
      BY DEF IInv, StoredFirst, PastStore, AttemptInv, Effect, Moves, Thrown
  <2> QED BY <1>2, <2>1 DEF AttemptInv
<1>5. ASSUME faults' <= 1, NEW f \in Events, f \notin stored'
      PROVE  /\ ingest'[f].pc # "failed"
             /\ ingest'[f].attempt <= 2 + faults'
             /\ ~Raced(f)' => ingest'[f].attempt <= 1 + faults'
  <2>1. /\ faults <= 1 /\ f \notin stored
        /\ ingest[f].pc # "failed"
        /\ ingest[f].attempt <= 2 + faults
        /\ ~Raced(f) => ingest[f].attempt <= 1 + faults
      BY <1>1, <1>2, <1>5 DEF AttemptInv
  <2>2. CASE f # e
    <3>1. Raced(f) => Raced(f)'
        BY <1>1, <1>2, <2>2 DEF Raced
    <3> QED BY <1>1, <1>2, <2>1, <2>2, <3>1
  <2>3. CASE f = e
      BY <1>1, <1>2, <1>5, <2>1, <2>3
         DEF Raced, Effect, Moves, Thrown, Kept, MaxAttempts, AttemptInv, IInv, StoredFirst, PastStore
  <2> QED BY <2>2, <2>3
<1> QED BY <1>3, <1>4, <1>5 DEF AttemptInv

(* The events that the count of k stands for.                              *)
Counted(k) == EventsOf(k) \cap (stored \cup Pending)

LEMMA CountedFinite ==
    ASSUME NEW k \in Issues
    PROVE  IsFiniteSet(Counted(k)) /\ Cardinality(Counted(k)) \in Nat
<1>1. Counted(k) \subseteq Events
    BY DEF Counted, EventsOf
<1>2. IsFiniteSet(Counted(k))
    BY <1>1, EventAssumption, FS_Subset
<1> QED BY <1>2, FS_CardinalityType

LEMMA CountStepped ==
    ASSUME IInv, IInv', CountInv, NEW e \in Events, Effect(e),
           \A f \in Events : f # e => ingest'[f] = ingest[f],
           \A k \in Issues : k # IssueOf[e] => issue'[k] = issue[k]
    PROVE  CountInv'
<1>1. /\ faults \in Nat /\ faults' \in Nat
      /\ \A f \in Events : IssueOf[f] \in Issues
      /\ \A k \in Issues : issue[k].eventCount \in Nat /\ issue'[k].eventCount \in Nat
      /\ stored \subseteq Events /\ stored' \subseteq Events
    BY EventAssumption DEF IInv, TypeOK, IssueRow
<1>2. /\ faults' = faults \/ faults' = faults + 1
      /\ \A k \in Issues : issue[k].status # "none" => issue'[k].status # "none"
    BY <1>1 DEF Effect, Moves, Thrown, Kept
<1>3. \A k \in Issues : issue'[k].status = "none" => issue'[k].eventCount = 0
    BY <1>1, <1>2 DEF CountInv, Effect, Moves, Kept
<1>4. \A f \in Events : ingest'[f].pc = "update" => issue'[IssueOf[f]].status # "none"
    BY <1>1, <1>2 DEF CountInv, Effect, Moves, Thrown, Kept
<1>5. faults' = 0 => \A f \in stored' :
          ingest'[f].pc \notin {"absent", "find", "create", "update", "store"}
    BY <1>1, <1>2 DEF CountInv, Effect, Moves, Thrown
<1>6. ASSUME NEW k \in Issues
      PROVE  /\ issue'[k].eventCount >= Cardinality(Counted(k)')
             /\ faults' = 0 => issue'[k].eventCount = Cardinality(Counted(k)')
  <2>1. /\ IsFiniteSet(Counted(k)) /\ Cardinality(Counted(k)) \in Nat
        /\ issue[k].eventCount >= Cardinality(Counted(k))
        /\ faults = 0 => issue[k].eventCount = Cardinality(Counted(k))
      BY CountedFinite DEF CountInv, CountCovers, Counted
  <2>2. CASE k # IssueOf[e]
    <3>1. Counted(k)' = Counted(k)
        BY <1>1, <2>2 DEF Counted, EventsOf, Pending, At, Effect, Moves, Thrown
    <3> QED BY <1>1, <1>2, <2>1, <2>2, <3>1
  <2>3. CASE k = IssueOf[e] /\ ingest[e].pc \in {"create", "update"} /\ ingest'[e].pc = "store"
    <3>1. Counted(k)' = Counted(k) \cup {e}
        BY <1>1, <2>3 DEF Counted, EventsOf, Pending, At, Effect, Moves, Thrown
    <3>2. \/ /\ issue[k].status = "none" /\ issue'[k].eventCount = 1
          \/ issue'[k].eventCount = issue[k].eventCount + 1
        BY <2>3 DEF Effect, Moves, Thrown
    <3>3. issue[k].status = "none" => issue[k].eventCount = 0
        BY DEF CountInv
    <3>4. issue'[k].eventCount = issue[k].eventCount + 1
        BY <1>1, <3>2, <3>3
    <3>5. faults' = 0 => e \notin Counted(k)
        BY <1>1, <1>2, <2>3 DEF Counted, Pending, At, CountInv
    <3>6. /\ e \in Counted(k) => Cardinality(Counted(k) \cup {e}) = Cardinality(Counted(k))
          /\ e \notin Counted(k) => Cardinality(Counted(k) \cup {e}) = Cardinality(Counted(k)) + 1
        BY <2>1, FS_AddElement
    <3>7. faults' = 0 => faults = 0
        BY <1>1, <1>2
    <3> QED BY <1>1, <2>1, <3>1, <3>4, <3>5, <3>6, <3>7
  <2>4. CASE k = IssueOf[e] /\ ~(ingest[e].pc \in {"create", "update"} /\ ingest'[e].pc = "store")
    <3>1. issue'[k].eventCount = issue[k].eventCount
        BY <2>4 DEF Effect, Moves, Thrown, Kept
    <3>2. Counted(k)' \subseteq Counted(k)
        BY <1>1, <2>4 DEF Counted, EventsOf, Pending, At, Effect, Moves, Thrown
    <3>3. faults' = 0 => Counted(k)' = Counted(k)
        BY <1>1, <1>2, <2>4, <3>2
           DEF Counted, EventsOf, Pending, At, Effect, Moves, Thrown, CountInv
    <3>4. Cardinality(Counted(k)') <= Cardinality(Counted(k)) /\ Cardinality(Counted(k)') \in Nat
        BY <2>1, <3>2, FS_Subset, FS_CardinalityType
    <3> QED BY <1>1, <1>2, <2>1, <3>1, <3>3, <3>4
  <2> QED BY <2>2, <2>3, <2>4
<1>7. CountCovers'
    BY <1>6 DEF CountCovers, Counted
<1> QED BY <1>3, <1>4, <1>5, <1>7 DEF CountInv

(* A crash throws every running job back without counting an attempt, and  *)
(* none it fails was first stalled by the same fault.                      *)
LEMMA CrashCounts ==
    ASSUME IInv, IInv', AttemptInv, CountInv, WorkerCrash
    PROVE  AttemptInv' /\ CountInv'
<1>1. /\ issue' = issue /\ stored' = stored
      /\ faults \in Nat /\ faults' = faults + 1
      /\ \A f \in Events : ingest[f].attempt \in 1..3
    BY DEF WorkerCrash, Fault, IInv, TypeOK, JobRow, MaxAttempts
<1>2. ASSUME NEW f \in Events
      PROVE  \/ ingest'[f] = ingest[f] /\ ~Running(f)
             \/ /\ ingest[f].stalled
                /\ ingest'[f].pc = "failed" /\ ~ingest'[f].stalled
             \/ /\ ~ingest[f].stalled
                /\ ingest'[f].pc = "find" /\ ingest'[f].attempt = ingest[f].attempt
  <2>1. ingest'[f] = IF ~Running(f) THEN ingest[f]
                     ELSE IF ingest[f].stalled THEN Idle("failed")
                     ELSE Run("find", ingest[f].attempt, TRUE)
      BY DEF WorkerCrash
  <2> QED BY <2>1 DEF Idle, Run
<1>3. AttemptInv'
  <2>1. \A f \in Events : ingest'[f].stalled => faults' > 0
      BY <1>1
  <2>2. \A f \in Events : ingest'[f].pc \in {"alerts", "done"} => f \in stored'
      BY <1>1, <1>2 DEF AttemptInv
  <2>3. ASSUME faults' <= 1, NEW f \in Events, f \notin stored'
        PROVE  /\ ingest'[f].pc # "failed"
               /\ ingest'[f].attempt <= 2 + faults'
               /\ ~Raced(f)' => ingest'[f].attempt <= 1 + faults'
    <3>1. /\ faults = 0 /\ f \notin stored /\ ~ingest[f].stalled
          /\ ingest[f].pc # "failed" /\ ingest[f].attempt <= 2
          /\ ~Raced(f) => ingest[f].attempt <= 1
        BY <1>1, <2>3 DEF AttemptInv
    <3> QED BY <1>1, <1>2, <3>1
  <2> QED BY <2>1, <2>2, <2>3 DEF AttemptInv
<1>4. \A f \in Events : ingest'[f].pc \in {"update", "store"} => ingest'[f] = ingest[f]
    BY <1>2
<1>5. ASSUME NEW k \in Issues PROVE issue'[k].eventCount >= Cardinality(Counted(k)')
  <2>1. Counted(k)' \subseteq Counted(k)
      BY <1>1, <1>4 DEF Counted, EventsOf, Pending, At
  <2>2. IsFiniteSet(Counted(k)) /\ Cardinality(Counted(k)) \in Nat
        /\ issue[k].eventCount >= Cardinality(Counted(k))
        /\ issue[k].eventCount \in Nat
      BY CountedFinite DEF CountInv, CountCovers, Counted, IInv, TypeOK, IssueRow
  <2>3. Cardinality(Counted(k)') <= Cardinality(Counted(k)) /\ Cardinality(Counted(k)') \in Nat
      BY <2>1, <2>2, FS_Subset, FS_CardinalityType
  <2> QED BY <1>1, <2>2, <2>3
<1>6. faults' # 0
    BY <1>1
<1>7. CountCovers'
    BY <1>5, <1>6 DEF CountCovers, Counted
<1>8. CountInv'
    BY <1>1, <1>4, <1>6, <1>7 DEF CountInv
<1> QED BY <1>3, <1>8

(* A request changes a status, never a count and never to "none".          *)
LEMMA EditCounts ==
    ASSUME IInv, AttemptInv, CountInv, NEW r \in Edits, ReadIssue(r) \/ WriteIssue(r)
    PROVE  AttemptInv' /\ CountInv'
<1>1. /\ UNCHANGED <<stored, ingest, faults>>
      /\ \A f \in Events : IssueOf[f] \in Issues
    BY EventAssumption DEF ReadIssue, WriteIssue
<1>2. ASSUME NEW k \in Issues
      PROVE  /\ issue[k].status # "none" => issue'[k].status # "none"
             /\ issue'[k].status = "none" => issue[k].status = "none"
             /\ issue'[k].eventCount = issue[k].eventCount
  <2>1. CASE ReadIssue(r)
      BY <2>1 DEF ReadIssue
  <2>2. CASE WriteIssue(r)
    <3>1. PICK l \in Issues, status \in IssueStatus :
              issue' = [issue EXCEPT ![l].status = status]
      <4>1. edit[r] \in EditRow /\ edit[r].pc = "write"
          BY <2>2 DEF WriteIssue, IInv, TypeOK
      <4>2. PICK l \in Issues, status \in IssueStatus :
                edit[r].target = l /\ edit[r].status = status
          BY <4>1 DEF EditRow
      <4> QED BY <2>2, <4>2 DEF WriteIssue
    <3>2. status # "none" /\ issue \in [Issues -> IssueRow]
        BY DEF IssueStatus, IInv, TypeOK
    <3> QED BY <3>1, <3>2 DEF IssueRow
  <2> QED BY <2>1, <2>2
<1>3. AttemptInv'
    BY <1>1, <1>2 DEF AttemptInv, Raced
<1>4. CountCovers'
    BY <1>1, <1>2 DEF CountInv, CountCovers, Pending, At
<1> QED BY <1>1, <1>2, <1>3, <1>4 DEF CountInv

LEMMA InitCounts == Init => AttemptInv /\ CountInv
<1> SUFFICES ASSUME Init PROVE AttemptInv /\ CountInv
    OBVIOUS
<1>1. \A e \in Events : /\ ingest[e].pc = "absent" /\ ingest[e].attempt = 1
                        /\ ~ingest[e].stalled
    BY DEF Init, Idle, Run
<1>2. AttemptInv
    BY <1>1 DEF Init, AttemptInv
<1>3. ASSUME NEW k \in Issues
      PROVE  EventsOf(k) \cap (stored \cup Pending) = {} /\ issue[k].eventCount = 0
    BY <1>1 DEF Init, Pending, At, NoIssue
<1>4. CountCovers
    BY <1>3, FS_EmptySet DEF CountCovers
<1>5. CountInv
    BY <1>1, <1>3, <1>4 DEF Init, CountInv
<1> QED BY <1>2, <1>5

LEMMA NextCounts ==
    IInv /\ AttemptInv /\ CountInv /\ [Next]_vars => AttemptInv' /\ CountInv'
<1> SUFFICES ASSUME IInv, AttemptInv, CountInv, [Next]_vars
             PROVE  AttemptInv' /\ CountInv'
    OBVIOUS
<1>1. IInv'
    BY NextIInv
<1>2. ASSUME NEW e \in Events, Accept(e) \/ IngestStep(e) \/ JobError(e)
      PROVE  AttemptInv' /\ CountInv'
    BY <1>1, <1>2, JobEffect, AttemptStep, CountStepped
<1>3. ASSUME NEW r \in Edits, ReadIssue(r) \/ WriteIssue(r) PROVE AttemptInv' /\ CountInv'
    BY <1>3, EditCounts
<1>4. CASE WorkerCrash
    BY <1>1, <1>4, CrashCounts
<1>5. CASE UNCHANGED vars
    BY <1>5 DEF vars, AttemptInv, Raced, CountInv, CountCovers, Pending, At
<1> QED BY <1>2, <1>3, <1>4, <1>5 DEF Next

LEMMA CountsInvariance == Spec => [](IInv /\ AttemptInv /\ CountInv)
BY InitIInv, NextIInv, InitCounts, NextCounts, PTL DEF Spec

(* An issue's event count covers what is stored or about to be, and is     *)
(* exact until something fails, however executions interleave              *)
(* (issue.repository.js, upsertFromEvent).                                 *)
THEOREM CountsCover == Spec => []CountCovers
<1>1. IInv /\ AttemptInv /\ CountInv => CountCovers
    BY DEF CountInv
<1> QED BY <1>1, CountsInvariance, PTL

(* With one error or crash at most, every accepted event is stored when    *)
(* its job is over: the lost race takes one of the three attempts, the     *)
(* fault another, and the third goes through (ingest.processor.js).        *)
THEOREM OneFaultSurvived == Spec => []SurvivesOneFault
<1>1. IInv /\ AttemptInv /\ CountInv => SurvivesOneFault
    BY DEF AttemptInv, SurvivesOneFault
<1> QED BY <1>1, CountsInvariance, PTL
=============================================================================

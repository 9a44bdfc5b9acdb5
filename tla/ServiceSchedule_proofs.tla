----------------------- MODULE ServiceSchedule_proofs -----------------------
(***************************************************************************)
(* For any number of services, requests, intervals and faults: a service's *)
(* row and its repeating jobs agree between calls that neither overlap nor *)
(* fail, and overlapping requests that are no updates leave no active      *)
(* service without a job; demo data start without one.  No call holds a    *)
(* lock, so the invariant says of each service which calls have it in hand *)
(* and what these have yet to do.                                          *)
(***************************************************************************)
EXTENDS ServiceSchedule, TLAPS

-----------------------------------------------------------------------------
(* The invariant.  A call on services is followed from one service's point *)
(* of view: what the call has still to do with it decides which jobs it    *)
(* may have.                                                               *)

Working == {"find", "drop", "add"}
Registers(p) == p \in {<<"register">>, <<"unschedule", "register">>}

(* A record of a call in flight is one its code can be in.                 *)
Formed(r) ==
    /\ r.left \subseteq r.scope /\ r.cur \notin r.left
    /\ r.pc \in Working =>
           r.cur \in r.scope /\ r.plan # <<>> /\ (Registers(r.plan) <=> Registers(r.jobs))
    /\ r.pc \notin Working => r.cur = Nobody
    /\ r.pc = "drop" => r.found \in Intervals
    /\ r.pc = "add" => r.plan = <<"register">>
    /\ r.pc = "write" => r.op \in WriteFirst
    /\ r.pc = "reread" => r.op \in {"resume", "interval"}
    /\ r.pc = "final" => r.op \in UnscheduleFirst /\ r.left = {}
    /\ r.op = "seed" => r.pc = "write" /\ r.scope = {}
    /\ (r.pc = "write" /\ r.op = "create") => (r.scope = {} /\ r.set.state \in {"active", "paused"})
    /\ (r.pc = "write" /\ r.op = "update") => r.set.state \in {"none", "active", "paused"}
    /\ r.op = "update" => \E s \in Services : r.scope = {s}
    /\ (r.op = "update" /\ r.jobs = <<>>) => r.left = {}
    /\ r.op # "update" => r.jobs = JobsOf(r.op)

FormedInv == \A c \in Callers : InFlight(c) => Formed(call[c])

(* A service that has not been created is in nobody's hands.               *)
Fresh(s) == row[s].state = "none" => On(s) = {} /\ Keys(s) = {}

(* Two calls on one service disturb it and know that they are not alone;   *)
(* if one is an update, the service is blurred.                            *)
Apart(s) ==
    \A c, d \in On(s) :
        c # d => s \in disturbed /\ ~call[c].lone /\ (call[c].op = "update" => s \in blurred)

Todo(r, s) == r.pc # "write" /\ (s \in r.left \/ r.cur = s)
Want(s) == IF Active(s) THEN {row[s].every} ELSE {}
AtMostOneKey(s) == \A i, j \in Keys(s) : i = j

(* What a call finds that has an undisturbed service for itself.           *)
Settled(s) == Keys(s) = Want(s) \/ Stranded(s)

(* What the only call on an undisturbed service has made of its jobs.      *)
Matching(r, s) ==
    /\ Exists(s)
    /\ AtMostOneKey(s)
    /\ r.pc = "write" => Settled(s) /\ (r.op = "update" => r.was = Active(s))
    /\ r.pc = "reread" => (r.op = "resume" => Active(s)) /\ (~Active(s) => Keys(s) = {})
    /\ (r.pc \notin {"write", "reread"} /\ Todo(r, s)) =>
           /\ r.op \notin UnscheduleFirst => (Active(s) <=> Registers(r.jobs))
           /\ Registers(r.jobs) => r.every[s] = row[s].every
           /\ (r.cur = s /\ r.pc = "drop") => r.found \in Keys(s)
           /\ (r.cur = s /\ r.pc = "add") => Keys(s) = {}
    /\ (r.pc \notin {"write", "reread"} /\ ~Todo(r, s)) =>
           Keys(s) = IF r.op \in UnscheduleFirst THEN {} ELSE Want(s)

Matched(s) ==
    s \notin disturbed =>
        /\ On(s) = {} => Settled(s)
        /\ \A c \in On(s) : Matching(call[c], s)

(* A call in flight that has not left the service yet: it will register a  *)
(* job, or write that the service is no longer active.                     *)
Mends(r, s) ==
    \/ r.op \in UnscheduleFirst
    \/ r.op \in {"resume", "interval"} /\ r.pc \in {"write", "reread"}
    \/ Todo(r, s) /\ Registers(r.jobs)

(* The service is not blurred, or the only call on it is about to end that. *)
Covered(s) == s \notin blurred \/ \E c \in On(s) : call[c].lone /\ call[c].pc # "write"

Removes(r) == r.op = "update" /\ r.pc # "write" /\ ~Registers(r.jobs)

Mended(s) ==
    Covered(s) =>
        /\ (Active(s) /\ Keys(s) = {}) => \E c \in On(s) : Mends(call[c], s)
        /\ \A c \in On(s) : Removes(call[c]) => ~Active(s)

ScheduleInv ==
    /\ TypeOK
    /\ FormedInv
    /\ \A s \in Services : Fresh(s)
    /\ \A s \in Services : Apart(s)
    /\ \A s \in Services : Matched(s)
    /\ \A s \in Services : Mended(s)

-----------------------------------------------------------------------------
(* Plans and phases.                                                       *)

LEMMA Plans ==
    /\ <<"unschedule">> # <<>> /\ <<"register">> # <<>> /\ <<"unschedule", "register">> # <<>>
    /\ <<"unschedule">> # <<"register">>
    /\ <<"unschedule">> # <<"unschedule", "register">>
    /\ <<"register">> # <<"unschedule", "register">>
    /\ ~(Len(<<"unschedule">>) > 1) /\ ~(Len(<<"register">>) > 1)
    /\ Len(<<"unschedule", "register">>) > 1
    /\ Tail(<<"unschedule", "register">>) = <<"register">>
    /\ Head(<<"unschedule">>) = "unschedule" /\ Head(<<"register">>) = "register"
    /\ Head(<<"unschedule", "register">>) = "unschedule"
<1>1. /\ Len(<<"unschedule">>) = 1 /\ Len(<<"register">>) = 1
      /\ Len(<<"unschedule", "register">>) = 2 /\ Len(<<>>) = 0
    OBVIOUS
<1>2. /\ <<"unschedule">>[1] = "unschedule" /\ <<"register">>[1] = "register"
      /\ <<"unschedule", "register">>[1] = "unschedule"
    OBVIOUS
<1>3. Tail(<<"unschedule", "register">>) = <<"register">>
    OBVIOUS
<1>4. /\ Head(<<"unschedule">>) = "unschedule" /\ Head(<<"register">>) = "register"
      /\ Head(<<"unschedule", "register">>) = "unschedule"
    OBVIOUS
<1> QED
    BY <1>1, <1>2, <1>3, <1>4

(* What is left of a plan once its first phase is over.                    *)
LEMMA RestOfPlan ==
    ASSUME NEW p \in Plan, p # <<>>
    PROVE  /\ Len(p) > 1 <=> p = <<"unschedule", "register">>
           /\ Len(p) > 1 => Tail(p) = <<"register">>
           /\ Head(p) = "register" <=> p = <<"register">>
           /\ ~Registers(p) <=> p = <<"unschedule">>
           /\ Registers(<<"register">>)
BY Plans DEF Plan, Registers

LEMMA PhaseDoneIs ==
    ASSUME NEW r \in Call, r.plan # <<>>, r.cur \in Services, NEW q, q = PhaseDone(r)
    PROVE  /\ q \in Call
           /\ q.op = r.op /\ q.scope = r.scope /\ q.left = r.left /\ q.jobs = r.jobs
           /\ q.was = r.was /\ q.set = r.set /\ q.lone = r.lone /\ q.found = Nobody
           /\ \A s \in Services : s # r.cur => q.every[s] = r.every[s]
           /\ r.plan = <<"unschedule", "register">> =>
                  /\ q.pc = "find" /\ q.plan = <<"register">> /\ q.cur = r.cur
                  /\ q.every = r.every
           /\ r.plan # <<"unschedule", "register">> =>
                  q.pc = "loop" /\ q.plan = <<>> /\ q.cur = Nobody
<1>1. r.plan \in Plan
    BY DEF Call
<1>2. CASE r.plan = <<"unschedule", "register">>
    <2>1. q = [r EXCEPT !.pc = "find", !.plan = <<"register">>, !.found = Nobody]
        BY <1>1, <1>2, RestOfPlan DEF PhaseDone
    <2>2. <<"register">> \in Plan
        BY DEF Plan
    <2> HIDE DEF Plan
    <2> QED
        BY <1>2, <2>1, <2>2 DEF Call
<1>3. CASE r.plan # <<"unschedule", "register">>
    <2>1. q = [r EXCEPT !.pc = "loop", !.plan = <<>>, !.cur = Nobody, !.found = Nobody,
                        !.every[r.cur] = DefaultInterval]
        BY <1>1, <1>3, RestOfPlan DEF PhaseDone
    <2>2. <<>> \in Plan
        BY DEF Plan
    <2>3. DefaultInterval \in Intervals
        BY ScheduleAssumption
    <2> DEFINE after == [r.every EXCEPT ![r.cur] = DefaultInterval]
    <2>4. /\ after \in [Services -> Intervals]
          /\ \A s \in Services : s # r.cur => after[s] = r.every[s]
        BY <2>3 DEF Call
    <2>5. q = [r EXCEPT !.pc = "loop", !.plan = <<>>, !.cur = Nobody, !.found = Nobody,
                        !.every = after]
        BY <2>1 DEF Call
    <2> HIDE DEF after, Plan
    <2> QED
        BY <1>3, <2>2, <2>4, <2>5 DEF Call
<1> QED
    BY <1>2, <1>3

-----------------------------------------------------------------------------
(***************************************************************************)
(* Steps seen from one service.                                            *)
(***************************************************************************)

(* Two records of a call that agree on all the invariant speaks of; the    *)
(* second may have lost its loneliness.                                    *)
Like(r, q) ==
    /\ q.op = r.op /\ q.pc = r.pc /\ q.scope = r.scope /\ q.left = r.left /\ q.cur = r.cur
    /\ q.jobs = r.jobs /\ q.plan = r.plan /\ q.found = r.found /\ q.was = r.was
    /\ q.every = r.every /\ q.set = r.set
    /\ q.lone => r.lone

(* A step of c changes no other call, except that it may not be alone.     *)
OthersLike(c) ==
    /\ call' \in [Callers -> Call]
    /\ \A d \in Callers : d # c => Like(call[d], call'[d])

Untouched(s) ==
    /\ row'[s] = row[s]
    /\ \A i \in Intervals : <<s, i>> \in repeat' <=> <<s, i>> \in repeat
    /\ s \in disturbed => s \in disturbed'
    /\ s \in blurred => s \in blurred'
    /\ s \in demo => s \in demo'

LEMMA UntouchedViews ==
    ASSUME NEW s \in Services, Untouched(s)
    PROVE  /\ Keys(s)' = Keys(s) /\ Want(s)' = Want(s)
           /\ Active(s)' = Active(s) /\ Exists(s)' = Exists(s)
           /\ AtMostOneKey(s)' = AtMostOneKey(s)
           /\ Settled(s) => Settled(s)'
<1>1. Keys(s)' = Keys(s)
    BY DEF Untouched, Keys
<1>2. /\ Want(s)' = Want(s) /\ Active(s)' = Active(s) /\ Exists(s)' = Exists(s)
      /\ AtMostOneKey(s)' = AtMostOneKey(s)
    BY <1>1 DEF Untouched, Want, Active, Exists, AtMostOneKey
<1>3. Stranded(s) => Stranded(s)'
    BY <1>1, <1>2 DEF Untouched, Stranded
<1> QED
    BY <1>1, <1>2, <1>3 DEF Settled

(* A settled service that exists has no job but the one its row asks for.  *)
LEMMA SettledKeys ==
    ASSUME NEW s \in Services, Exists(s), Settled(s)
    PROVE  AtMostOneKey(s) /\ (~Active(s) => Keys(s) = {})
BY DEF Exists, Settled, Stranded, Want, Active, AtMostOneKey

LEMMA LikeMatching ==
    ASSUME NEW s \in Services, Untouched(s), NEW d \in Callers, Like(call[d], call'[d]),
           Matching(call[d], s)
    PROVE  Matching(call[d], s)'
<1>1. /\ Keys(s)' = Keys(s) /\ Want(s)' = Want(s)
      /\ Active(s)' = Active(s) /\ Exists(s)' = Exists(s)
      /\ AtMostOneKey(s)' = AtMostOneKey(s)
      /\ Settled(s) => Settled(s)'
    BY UntouchedViews
<1> QED
    BY <1>1 DEF Untouched, Matching, Like, Todo

(* What an invariant says of one service.                                  *)
ServiceInv(s) == Fresh(s) /\ Apart(s) /\ Matched(s) /\ Mended(s)

(* A service that a step leaves alone, and whose calls at most lose their  *)
(* loneliness.                                                             *)
LEMMA Bystander ==
    ASSUME ScheduleInv, NEW s \in Services, Untouched(s), On(s)' = On(s),
           \A d \in On(s) : Like(call[d], call'[d])
    PROVE  Fresh(s)' /\ Apart(s)' /\ Matched(s)' /\ Mended(s)'
<1>1. On(s)' = On(s)
    OBVIOUS
<1>2. \A d \in On(s) : d \in Callers /\ Like(call[d], call'[d])
    BY DEF On
<1>3. Fresh(s) /\ Apart(s) /\ Matched(s) /\ Mended(s)
    BY DEF ScheduleInv
<1>4. /\ Keys(s)' = Keys(s) /\ Active(s)' = Active(s) /\ Want(s)' = Want(s)
      /\ Settled(s) => Settled(s)'
    BY UntouchedViews
<1>5. Fresh(s)'
    BY <1>1, <1>3, <1>4 DEF Fresh, Untouched
<1>6. Apart(s)'
    BY <1>1, <1>2, <1>3 DEF Apart, Untouched, Like
<1>7. Matched(s)'
    <2>1. SUFFICES ASSUME (s \notin disturbed)'
                   PROVE  /\ On(s)' = {} => Settled(s)'
                          /\ \A d \in On(s)' : Matching(call[d], s)'
        BY DEF Matched
    <2>2. /\ On(s) = {} => Settled(s)
          /\ \A d \in On(s) : Matching(call[d], s)
        BY <1>3, <2>1 DEF Untouched, Matched
    <2> QED
        BY <1>1, <1>2, <1>4, <2>2, LikeMatching
<1>8. Mended(s)'
    <2>1. \A d \in On(s) : /\ Mends(call[d], s) => Mends(call[d], s)'
                           /\ Removes(call[d])' => Removes(call[d])
        BY <1>2 DEF Like, Mends, Removes, Todo
    <2>2. Covered(s)' => Covered(s)
        BY <1>1, <1>2 DEF Covered, Like, Untouched
    <2> QED
        BY <1>1, <1>3, <1>4, <2>1, <2>2 DEF Mended
<1> QED
    BY <1>5, <1>6, <1>7, <1>8

(* A call that does not work on the service leaves all of that alone.      *)
LEMMA Elsewhere ==
    ASSUME ScheduleInv, NEW c \in Callers, NEW s \in Services, OthersLike(c), Untouched(s),
           c \notin On(s), c \notin On(s)'
    PROVE  Fresh(s)' /\ Apart(s)' /\ Matched(s)' /\ Mended(s)'
<1>1. On(s)' = On(s)
    BY DEF OthersLike, Like, On, InFlight
<1>2. \A d \in On(s) : Like(call[d], call'[d])
    BY DEF OthersLike, On
<1> QED
    BY <1>1, <1>2, Bystander

-----------------------------------------------------------------------------
(* A step of a call on one of its own services.                            *)

(* The step leaves c the call it was, or ends it.                          *)
Stays(c) ==
    call'[c].pc = "idle" \/ /\ call'[c].op = call[c].op /\ call'[c].scope = call[c].scope
                            /\ call'[c].lone => call[c].lone

LEMMA StillOn ==
    ASSUME NEW c \in Callers, NEW s \in Services, OthersLike(c), Stays(c), c \in On(s)
    PROVE  /\ \A d \in On(s)' : d \in On(s)
           /\ \A d \in On(s) : d # c => d \in On(s)' /\ d \in Callers /\ Like(call[d], call'[d])
           /\ c \in On(s)' <=> call'[c].pc # "idle"
BY DEF OthersLike, Stays, Like, On, InFlight

LEMMA HeldKept ==
    ASSUME ScheduleInv, NEW c \in Callers, NEW s \in Services, OthersLike(c), Stays(c),
           c \in On(s), row[s].state # "none" => row'[s].state # "none",
           s \in disturbed => s \in disturbed',
           s \in blurred => \/ s \in blurred'
                            \/ call[c].lone /\ call'[c].pc = "idle"
    PROVE  Fresh(s)' /\ Apart(s)'
<1>1. Fresh(s) /\ Apart(s)
    BY DEF ScheduleInv
<1>2. Fresh(s)'
    BY <1>1 DEF Fresh
<1>3. Apart(s)'
    <2>1. SUFFICES ASSUME NEW a \in On(s)', NEW b \in On(s)', a # b
                   PROVE  (s \in disturbed /\ ~call[a].lone
                              /\ (call[a].op = "update" => s \in blurred))'
        BY DEF Apart
    <2>2. a \in On(s) /\ b \in On(s)
        BY StillOn
    <2>3. s \in disturbed /\ ~call[a].lone /\ ~call[b].lone
              /\ (call[a].op = "update" => s \in blurred)
        BY <1>1, <2>1, <2>2 DEF Apart
    <2>4. ~call'[a].lone /\ call'[a].op = call[a].op
        BY <2>1, <2>2, <2>3, StillOn DEF Stays, Like
    <2>5. ~call[c].lone
        BY <1>1, <2>1, <2>2, <2>3 DEF Apart
    <2> QED
        BY <2>3, <2>4, <2>5
<1> QED
    BY <1>2, <1>3

LEMMA MatchedKept ==
    ASSUME ScheduleInv, NEW c \in Callers, NEW s \in Services, OthersLike(c), Stays(c),
           c \in On(s), s \in disturbed => s \in disturbed',
           s \notin disturbed /\ Matching(call[c], s) =>
               IF call'[c].pc = "idle" THEN Settled(s)' ELSE Matching(call[c], s)'
    PROVE  Matched(s)'
<1>1. Apart(s) /\ Matched(s)
    BY DEF ScheduleInv
<1>2. SUFFICES ASSUME (s \notin disturbed)'
               PROVE  /\ On(s)' = {} => Settled(s)'
                      /\ \A d \in On(s)' : Matching(call[d], s)'
    BY DEF Matched
<1>3. s \notin disturbed
    BY <1>2
<1>4. Matching(call[c], s)
    BY <1>1, <1>3 DEF Matched
<1>5. \A d \in On(s)' : d = c
    BY <1>1, <1>3, StillOn DEF Apart
<1>6. CASE call'[c].pc = "idle"
    <2>1. On(s)' = {}
        BY <1>5, <1>6, StillOn
    <2> QED
        BY <1>3, <1>4, <1>6, <2>1
<1>7. CASE call'[c].pc # "idle"
    <2>1. c \in On(s)'
        BY <1>7, StillOn
    <2> QED
        BY <1>3, <1>4, <1>5, <1>7, <2>1
<1> QED
    BY <1>6, <1>7

LEMMA MendedKept ==
    ASSUME ScheduleInv, NEW c \in Callers, NEW s \in Services, OthersLike(c), Stays(c),
           c \in On(s), call[c].pc # "write",
           s \in blurred => s \in blurred' \/ call[c].lone,
           Active(s)' /\ Keys(s)' = {} =>
               \/ call'[c].pc # "idle" /\ Mends(call[c], s)'
               \/ Active(s) /\ Keys(s) = {} /\ ~Mends(call[c], s)
               \/ Active(s) /\ Removes(call[c]),
           call'[c].pc # "idle" /\ Removes(call[c])' /\ Active(s)' => Active(s) /\ Removes(call[c])
    PROVE  Mended(s)'
<1>1. Apart(s) /\ Mended(s)
    BY DEF ScheduleInv
<1>2. SUFFICES ASSUME Covered(s)'
               PROVE  /\ Active(s)' /\ Keys(s)' = {} => \E d \in On(s)' : Mends(call[d], s)'
                      /\ \A d \in On(s)' : Removes(call[d])' => ~Active(s)'
    BY DEF Mended
<1>3. Covered(s)
    BY <1>2, StillOn DEF Covered, Like, Stays
<1>4. /\ Active(s) /\ Keys(s) = {} => \E d \in On(s) : Mends(call[d], s)
      /\ \A d \in On(s) : Removes(call[d]) => ~Active(s)
    BY <1>1, <1>3 DEF Mended
<1>5. ASSUME Active(s)', Keys(s)' = {}
      PROVE  \E d \in On(s)' : Mends(call[d], s)'
    <2>1. CASE call'[c].pc # "idle" /\ Mends(call[c], s)'
        BY <2>1, StillOn
    <2>2. CASE Active(s) /\ Keys(s) = {} /\ ~Mends(call[c], s)
        <3>1. PICK d \in On(s) : Mends(call[d], s)
            BY <1>4, <2>2
        <3>2. d # c
            BY <2>2, <3>1
        <3>3. d \in On(s)' /\ Like(call[d], call'[d])
            BY <3>2, StillOn
        <3>4. Mends(call[d], s)'
            BY <3>1, <3>3 DEF Like, Mends, Todo
        <3> QED
            BY <3>3, <3>4
    <2> QED
        BY <1>4, <1>5, <2>1, <2>2
<1>6. ASSUME NEW d \in On(s)', Removes(call[d])', Active(s)'
      PROVE  FALSE
    <2>1. CASE d = c
        <3>1. call'[c].pc # "idle"
            BY <1>6, <2>1, StillOn
        <3> QED
            BY <1>4, <1>6, <2>1, <3>1
    <2>2. CASE d # c
        <3>1. d \in On(s) /\ Like(call[d], call'[d])
            BY <1>6, <2>2, StillOn
        <3>2. call[d].op = "update"
            BY <1>6, <3>1 DEF Removes, Like
        <3>3. s \in blurred
            BY <1>1, <2>2, <3>1, <3>2 DEF Apart
        <3>4. PICK e \in On(s) : call[e].lone
            BY <1>3, <3>3 DEF Covered
        <3> QED
            BY <1>1, <2>2, <3>1, <3>4 DEF Apart
    <2> QED
        BY <2>1, <2>2
<1> QED
    BY <1>5, <1>6

-----------------------------------------------------------------------------
(***************************************************************************)
(* The parts of a step.                                                    *)
(***************************************************************************)

LEMMA Typed ==
    ASSUME ScheduleInv, NEW c \in Callers
    PROVE  call[c] \in Call /\ call \in [Callers -> Call]
BY DEF ScheduleInv, TypeOK

LEMMA FormedNow ==
    ASSUME ScheduleInv, NEW c \in Callers, call[c].pc # "idle"
    PROVE  Formed(call[c])
BY DEF ScheduleInv, FormedInv, InFlight

LEMMA LikeItself ==
    ASSUME NEW r, NEW q, r = q
    PROVE  Like(r, q)
BY DEF Like

(* A step that gives one call a new record.                                *)
LEMMA OneMoves ==
    ASSUME ScheduleInv, NEW c \in Callers, NEW q \in Call, call' = [call EXCEPT ![c] = q]
    PROVE  /\ OthersLike(c) /\ call'[c] = q
           /\ call' \in [Callers -> Call]
           /\ \A d \in Callers : d # c => call'[d] = call[d]
<1>1. call \in [Callers -> Call]
    BY Typed
<1>2. /\ call'[c] = q
      /\ call' \in [Callers -> Call]
      /\ \A d \in Callers : d # c => call'[d] = call[d]
    BY <1>1
<1> QED
    BY <1>2, LikeItself DEF OthersLike

LEMMA StepKeeps ==
    ASSUME ScheduleInv, NEW c \in Callers, OthersLike(c), TypeOK',
           call'[c].pc # "idle" => Formed(call[c])',
           \A s \in Services : c \notin On(s) /\ c \notin On(s)' => Untouched(s),
           \A s \in Services : c \in On(s) \/ c \in On(s)' =>
               Fresh(s)' /\ Apart(s)' /\ Matched(s)' /\ Mended(s)'
    PROVE  ScheduleInv'
<1>1. FormedInv'
    <2>1. SUFFICES ASSUME NEW d \in Callers, InFlight(d)'
                   PROVE  Formed(call[d])'
        BY DEF FormedInv
    <2>2. CASE d = c
        BY <2>1, <2>2 DEF InFlight
    <2>3. CASE d # c
        <3>1. Like(call[d], call'[d])
            BY <2>3 DEF OthersLike
        <3>2. Formed(call[d])
            BY <2>1, <3>1, FormedNow DEF InFlight, Like
        <3> QED
            BY <3>1, <3>2 DEF Like, Formed
    <2> QED
        BY <2>2, <2>3
<1>2. \A s \in Services : Fresh(s)' /\ Apart(s)' /\ Matched(s)' /\ Mended(s)'
    BY Elsewhere
<1> QED
    BY <1>1, <1>2 DEF ScheduleInv

LEMMA QuietKeeps ==
    ASSUME ScheduleInv, NEW c \in Callers, NEW q \in Call, call' = [call EXCEPT ![c] = q],
           UNCHANGED <<row, repeat, demo, faults, disturbed, blurred>>,
           q.op = call[c].op, q.scope = call[c].scope, q.lone = call[c].lone,
           call[c].pc \notin {"write", "idle"}, q.pc \notin {"write", "idle"}, Formed(q),
           \A s \in call[c].scope :
               /\ Matching(call[c], s) => Matching(q, s)
               /\ Active(s) /\ Keys(s) = {} /\ Mends(call[c], s) => Mends(q, s)
               /\ Removes(q) /\ Active(s) => Removes(call[c])
    PROVE  ScheduleInv'
<1>1. OthersLike(c) /\ call'[c] = q /\ call' \in [Callers -> Call]
    BY OneMoves
<1>2. TypeOK'
    BY <1>1 DEF ScheduleInv, TypeOK
<1>3. /\ Stays(c)
      /\ \A s \in Services : Untouched(s)
    BY <1>1 DEF Stays, Untouched
<1>4. Formed(call[c])'
    BY <1>1 DEF Formed
<1>5. ASSUME NEW s \in Services, c \in On(s) \/ c \in On(s)'
      PROVE  Fresh(s)' /\ Apart(s)' /\ Matched(s)' /\ Mended(s)'
    <2>1. c \in On(s) /\ s \in call[c].scope
        BY <1>1, <1>5 DEF On, InFlight
    <2>2. /\ Keys(s)' = Keys(s) /\ Want(s)' = Want(s)
          /\ Active(s)' = Active(s) /\ Exists(s)' = Exists(s)
          /\ AtMostOneKey(s)' = AtMostOneKey(s)
        BY <1>3, UntouchedViews
    <2>3. Fresh(s)' /\ Apart(s)'
        BY <1>1, <1>3, <2>1, HeldKept
    <2>4. Matched(s)'
        <3>1. Matching(q, s) => Matching(call[c], s)'
            BY <1>1, <2>2 DEF Matching, Todo
        <3> QED
            BY <1>1, <1>3, <2>1, <3>1, MatchedKept
    <2>5. Mended(s)'
        <3>1. /\ Mends(q, s) => Mends(call[c], s)'
              /\ Removes(call[c])' => Removes(q)
            BY <1>1 DEF Mends, Removes, Todo
        <3> QED
            BY <1>1, <1>3, <2>1, <2>2, <3>1, MendedKept
    <2> QED
        BY <2>3, <2>4, <2>5
<1> QED
    BY <1>1, <1>2, <1>3, <1>4, <1>5, StepKeeps

-----------------------------------------------------------------------------
(* The loop over the services.                                             *)

LEMMA NextServiceKeeps ==
    ASSUME ScheduleInv, NEW c \in Callers, NEW t \in Services, NextService(c, t)
    PROVE  ScheduleInv'
<1> DEFINE r == call[c]
           q == [r EXCEPT !.pc = "find", !.left = @ \ {t}, !.cur = t, !.plan = r.jobs]
<1>1. r \in Call
    BY Typed
<1>2. r.pc = "loop" /\ t \in r.left /\ call' = [call EXCEPT ![c] = q]
    BY <1>1, Typed DEF NextService, Call
<1>3. /\ q \in Call
      /\ q.pc = "find" /\ q.left = r.left \ {t} /\ q.cur = t /\ q.plan = r.jobs
      /\ q.op = r.op /\ q.scope = r.scope /\ q.jobs = r.jobs /\ q.every = r.every
      /\ q.lone = r.lone
    BY <1>1 DEF Call
<1> HIDE DEF q
<1>4. Formed(r)
    BY <1>2, FormedNow
<1>5. Formed(q)
    <2>1. r.op # "update" => r.jobs # <<>>
        BY <1>2, <1>4, Plans DEF Formed, JobsOf
    <2>2. r.jobs # <<>>
        BY <1>2, <1>4, <2>1 DEF Formed
    <2> QED
        BY <1>2, <1>3, <1>4, <2>2 DEF Formed, Working
<1>6. \A s \in Services : Todo(r, s) <=> Todo(q, s)
    BY <1>2, <1>3, <1>4, ScheduleAssumption DEF Todo, Formed, Working
<1>7. ASSUME NEW s \in r.scope
      PROVE  /\ Matching(r, s) => Matching(q, s)
             /\ Mends(r, s) => Mends(q, s)
             /\ Removes(q) => Removes(r)
    <2>1. s \in Services
        BY <1>1 DEF Call
    <2> QED
        BY <1>2, <1>3, <1>6, <2>1 DEF Matching, Mends, Removes
<1>8. UNCHANGED <<row, repeat, demo, faults, disturbed, blurred>>
    BY DEF NextService
<1> QED
    BY <1>2, <1>3, <1>5, <1>7, <1>8, QuietKeeps

LEMMA FindJobKeeps ==
    ASSUME ScheduleInv, NEW c \in Callers, FindJob(c)
    PROVE  ScheduleInv'
<1> DEFINE r == call[c]
<1>1. r \in Call /\ r.pc = "find" /\ Formed(r)
    BY Typed, FormedNow DEF FindJob
<1>2. UNCHANGED <<row, repeat, demo, faults, disturbed, blurred>>
    BY DEF FindJob
<1>3. /\ r.cur \in r.scope /\ r.cur \in Services /\ r.cur \notin r.left
      /\ r.plan \in Plan /\ r.plan # <<>> /\ (Registers(r.plan) <=> Registers(r.jobs))
    BY <1>1 DEF Formed, Working, Call
<1>4. ASSUME NEW i \in Keys(r.cur), call' = [call EXCEPT ![c].pc = "drop", ![c].found = i]
      PROVE  ScheduleInv'
    <2> DEFINE q == [r EXCEPT !.pc = "drop", !.found = i]
    <2>1. call' = [call EXCEPT ![c] = q]
        BY <1>1, <1>4, Typed DEF Call
    <2>2. i \in Intervals /\ q \in Call
        BY <1>1, <1>4 DEF Call, Keys
    <2>3. /\ q.pc = "drop" /\ q.found = i /\ q.left = r.left /\ q.cur = r.cur /\ q.plan = r.plan
          /\ q.op = r.op /\ q.scope = r.scope /\ q.jobs = r.jobs /\ q.every = r.every
          /\ q.lone = r.lone
        BY <1>1 DEF Call
    <2> HIDE DEF q
    <2>4. Formed(q)
        BY <1>1, <2>2, <2>3 DEF Formed, Working
    <2>5. ASSUME NEW s \in r.scope
          PROVE  /\ Matching(r, s) => Matching(q, s)
                 /\ Mends(r, s) => Mends(q, s)
                 /\ Removes(q) => Removes(r)
        BY <1>1, <1>4, <2>3 DEF Matching, Mends, Removes, Todo
    <2> QED
        BY <1>1, <1>2, <2>1, <2>2, <2>3, <2>4, <2>5, QuietKeeps
<1>5. ASSUME Keys(r.cur) = {}, r.plan = <<"register">>,
             call' = [call EXCEPT ![c] = [r EXCEPT !.pc = "add"]]
      PROVE  ScheduleInv'
    <2> DEFINE q == [r EXCEPT !.pc = "add"]
    <2>1. /\ q \in Call
          /\ q.pc = "add" /\ q.left = r.left /\ q.cur = r.cur /\ q.plan = r.plan
          /\ q.op = r.op /\ q.scope = r.scope /\ q.jobs = r.jobs /\ q.every = r.every
          /\ q.lone = r.lone
        BY <1>1 DEF Call
    <2>2. call' = [call EXCEPT ![c] = q]
        BY <1>5
    <2> HIDE DEF q
    <2>3. Formed(q)
        BY <1>1, <1>5, <2>1 DEF Formed, Working
    <2>4. ASSUME NEW s \in r.scope
          PROVE  /\ Matching(r, s) => Matching(q, s)
                 /\ Mends(r, s) => Mends(q, s)
                 /\ Removes(q) => Removes(r)
        BY <1>1, <1>5, <2>1 DEF Matching, Mends, Removes, Todo
    <2> QED
        BY <1>1, <1>2, <2>1, <2>2, <2>3, <2>4, QuietKeeps
<1>6. ASSUME Keys(r.cur) = {}, r.plan # <<"register">>,
             call' = [call EXCEPT ![c] = PhaseDone(r)]
      PROVE  ScheduleInv'
    <2>1. PICK q : q = PhaseDone(r)
        OBVIOUS
    <2>2. /\ q \in Call
          /\ q.op = r.op /\ q.scope = r.scope /\ q.left = r.left /\ q.jobs = r.jobs
          /\ q.lone = r.lone
          /\ \A s \in Services : s # r.cur => q.every[s] = r.every[s]
          /\ r.plan = <<"unschedule", "register">> =>
                  /\ q.pc = "find" /\ q.plan = <<"register">> /\ q.cur = r.cur
                  /\ q.every = r.every
          /\ r.plan # <<"unschedule", "register">> =>
                  q.pc = "loop" /\ q.plan = <<>> /\ q.cur = Nobody
        BY <1>1, <1>3, <2>1, PhaseDoneIs
    <2>3. Registers(r.plan) <=> r.plan = <<"unschedule", "register">>
        BY <1>3, <1>6 DEF Registers
    <2>4. Registers(<<"register">>) /\ <<"register">> # <<>>
        BY Plans DEF Registers
    <2>5. Formed(q)
        <3>1. Nobody \notin r.left
            BY <1>1, ScheduleAssumption DEF Call
        <3> QED
            BY <1>1, <1>3, <2>2, <2>3, <2>4, <3>1 DEF Formed, Working
    <2>6. ASSUME NEW s \in r.scope
          PROVE  /\ Matching(r, s) => Matching(q, s)
                 /\ Mends(r, s) => Mends(q, s)
                 /\ Removes(q) => Removes(r)
        <3>1. s \in Services /\ s # Nobody
            BY <1>1, ScheduleAssumption DEF Call
        <3>2. CASE r.plan = <<"unschedule", "register">>
            BY <1>1, <1>3, <2>2, <3>2 DEF Matching, Mends, Removes, Todo
        <3>3. CASE r.plan # <<"unschedule", "register">> /\ s = r.cur
            BY <1>1, <1>3, <1>6, <2>2, <2>3, <3>1, <3>3 DEF Matching, Mends, Removes, Todo, Want
        <3>4. CASE r.plan # <<"unschedule", "register">> /\ s # r.cur
            BY <1>1, <1>3, <2>2, <2>3, <3>1, <3>4 DEF Matching, Mends, Removes, Todo
        <3> QED
            BY <3>2, <3>3, <3>4
    <2> QED
        BY <1>1, <1>2, <1>6, <2>1, <2>2, <2>5, <2>6, QuietKeeps
<1>7. Head(r.plan) = "register" <=> r.plan = <<"register">>
    BY <1>3, RestOfPlan
<1> QED
    BY <1>4, <1>5, <1>6, <1>7 DEF FindJob

LEMMA RereadRowsKeeps ==
    ASSUME ScheduleInv, NEW c \in Callers, RereadRows(c)
    PROVE  ScheduleInv'
<1> DEFINE r == call[c]
           S == {s \in r.scope : IF r.op = "resume" THEN Exists(s) ELSE Active(s)}
           every == Read(row, S)
           q == [r EXCEPT !.pc = "loop", !.left = S, !.every = every]
<1>1. r \in Call /\ r.pc = "reread" /\ Formed(r) /\ row \in [Services -> Row]
    BY Typed, FormedNow DEF RereadRows, ScheduleInv, TypeOK
<1>2. call' = [call EXCEPT ![c] = q]
    BY <1>1, Typed DEF RereadRows, Call
<1>3. S \subseteq Services /\ S \subseteq r.scope
    BY <1>1 DEF Call
<1>4. /\ every \in [Services -> Intervals]
      /\ \A s \in S : every[s] = row[s].every
    <2>1. DefaultInterval \in Intervals
        BY ScheduleAssumption
    <2> HIDE DEF S
    <2> QED
        BY <1>1, <1>3, <2>1 DEF Read, Row
<1> HIDE DEF every
<1>5. /\ q \in Call
      /\ q.pc = "loop" /\ q.left = S /\ q.every = every /\ q.cur = r.cur /\ q.plan = r.plan
      /\ q.op = r.op /\ q.scope = r.scope /\ q.jobs = r.jobs /\ q.lone = r.lone
    BY <1>1, <1>3, <1>4 DEF Call
<1> HIDE DEF q
<1>6. r.op \in {"resume", "interval"} /\ Registers(r.jobs) /\ r.cur = Nobody
    BY <1>1 DEF Formed, JobsOf, Registers, UnscheduleFirst, Working
<1>7. Formed(q)
    BY <1>1, <1>3, <1>5, <1>6, ScheduleAssumption DEF Formed, Working
<1>8. ASSUME NEW s \in r.scope
      PROVE  /\ Matching(r, s) => Matching(q, s)
             /\ Active(s) => Mends(q, s)
             /\ ~Removes(q)
    <2>1. s # Nobody
        BY <1>1, ScheduleAssumption DEF Call
    <2>2. Todo(q, s) <=> s \in S
        BY <1>5, <1>6, <2>1 DEF Todo
    <2>3. Matching(r, s) => Matching(q, s)
        BY <1>1, <1>4, <1>5, <1>6, <2>2 DEF Matching, Want, UnscheduleFirst
    <2>4. Active(s) => s \in S
        BY <1>6 DEF Active, Exists
    <2> QED
        BY <1>5, <1>6, <2>2, <2>3, <2>4 DEF Mends, Removes
<1>9. UNCHANGED <<row, repeat, demo, faults, disturbed, blurred>>
    BY DEF RereadRows
<1> QED
    BY <1>1, <1>2, <1>5, <1>7, <1>8, <1>9, QuietKeeps

-----------------------------------------------------------------------------
(* The repeating jobs.                                                     *)

(* A call that changes the jobs of the service it is at.                   *)
LEMMA JobStepKeeps ==
    ASSUME ScheduleInv, NEW c \in Callers, NEW q \in Call, NEW t, call' = [call EXCEPT ![c] = q],
           UNCHANGED <<row, demo, faults, disturbed, blurred>>,
           repeat' \subseteq (Services \X Intervals),
           \A s \in Services : s # t => \A i \in Intervals : <<s, i>> \in repeat' <=> <<s, i>> \in repeat,
           q.op = call[c].op, q.scope = call[c].scope, q.lone = call[c].lone,
           call[c].pc \in Working, q.pc \notin {"write", "idle"}, Formed(q), t = call[c].cur,
           \A s \in call[c].scope : s # t =>
               /\ Matching(call[c], s) => Matching(q, s)
               /\ Mends(call[c], s) => Mends(q, s),
           Removes(q) => Removes(call[c]),
           t \notin disturbed /\ Matching(call[c], t) => Matching(call[c], t)',
           (Active(t) /\ Keys(t)' = {}) => (Mends(q, t) \/ Removes(call[c]))
    PROVE  ScheduleInv'
<1>1. OthersLike(c) /\ call'[c] = q /\ call' \in [Callers -> Call]
    BY OneMoves
<1>2. TypeOK'
    BY <1>1 DEF ScheduleInv, TypeOK
<1>3. Formed(call[c])
    BY FormedNow DEF Working
<1>4. /\ Stays(c)
      /\ t \in Services /\ t \in call[c].scope
    BY <1>1, <1>3, Typed DEF Stays, Formed, Call
<1>5. Formed(call[c])'
    BY <1>1 DEF Formed
<1>6. \A s \in Services : s # t => Untouched(s)
    BY DEF Untouched
<1>7. ASSUME NEW s \in Services, c \in On(s) \/ c \in On(s)'
      PROVE  Fresh(s)' /\ Apart(s)' /\ Matched(s)' /\ Mended(s)'
    <2>1. c \in On(s) /\ s \in call[c].scope
        BY <1>1, <1>7 DEF On, InFlight, Working
    <2>2. Fresh(s)' /\ Apart(s)'
        BY <1>1, <1>4, <2>1, HeldKept
    <2>3. Active(s)' = Active(s)
        BY DEF Active
    <2>4. /\ Mends(q, s) => Mends(call[c], s)'
          /\ Removes(call[c])' => Removes(q)
        BY <1>1 DEF Mends, Removes, Todo
    <2>5. CASE s = t
        <3>1. Matched(s)'
            BY <1>1, <1>4, <2>1, <2>5, MatchedKept
        <3>2. (Active(s)' /\ Keys(s)' = {}) =>
                  (Mends(call[c], s)' \/ (Active(s) /\ Removes(call[c])))
            <4>1. Keys(s)' = Keys(t)' /\ Active(s) = Active(t) /\ (Mends(q, t) => Mends(q, s))
                BY <2>5
            <4> QED
                BY <2>3, <2>4, <4>1
        <3>3. Mended(s)'
            BY <1>1, <1>4, <2>1, <2>3, <2>4, <3>2, MendedKept DEF Working
        <3> QED
            BY <2>2, <3>1, <3>3
    <2>6. CASE s # t
        <3>1. /\ Keys(s)' = Keys(s) /\ Want(s)' = Want(s)
              /\ Exists(s)' = Exists(s) /\ AtMostOneKey(s)' = AtMostOneKey(s)
            BY <1>6, <2>6, UntouchedViews
        <3>2. Matching(q, s) => Matching(call[c], s)'
            BY <1>1, <2>3, <3>1 DEF Matching, Todo
        <3>3. Matched(s)'
            BY <1>1, <1>4, <2>1, <2>6, <3>2, MatchedKept
        <3>4. Mended(s)'
            BY <1>1, <1>4, <2>1, <2>3, <2>4, <2>6, <3>1, MendedKept DEF Working
        <3> QED
            BY <2>2, <3>3, <3>4
    <2> QED
        BY <2>5, <2>6
<1>8. \A s \in Services : c \notin On(s) /\ c \notin On(s)' => Untouched(s)
    BY <1>4, <1>6 DEF On, InFlight, Working
<1> QED
    BY <1>1, <1>2, <1>5, <1>7, <1>8, StepKeeps

LEMMA AddJobKeeps ==
    ASSUME ScheduleInv, NEW c \in Callers, AddJob(c)
    PROVE  ScheduleInv'
<1> DEFINE r == call[c]
<1>1. r \in Call /\ r.pc = "add" /\ Formed(r)
    BY Typed, FormedNow DEF AddJob
<1>2. PICK t : t = r.cur
    OBVIOUS
<1>3. /\ t \in r.scope /\ t \in Services /\ t \notin r.left
      /\ r.plan = <<"register">> /\ Registers(r.jobs)
      /\ r.plan # <<"unschedule", "register">> /\ r.plan # <<>>
    BY <1>1, <1>2, Plans DEF Formed, Working, Call, Registers
<1>4. PICK q : q = PhaseDone(r)
    OBVIOUS
<1>5. /\ q \in Call
      /\ q.op = r.op /\ q.scope = r.scope /\ q.left = r.left /\ q.jobs = r.jobs
      /\ q.lone = r.lone
      /\ \A s \in Services : s # t => q.every[s] = r.every[s]
      /\ q.pc = "loop" /\ q.plan = <<>> /\ q.cur = Nobody
    BY <1>1, <1>2, <1>3, <1>4, PhaseDoneIs
<1>6. /\ call' = [call EXCEPT ![c] = q]
      /\ repeat' = repeat \cup {<<t, r.every[t]>>}
      /\ UNCHANGED <<row, demo, faults, disturbed, blurred>>
    BY <1>2, <1>4 DEF AddJob
<1>7. r.every[t] \in Intervals
    BY <1>1, <1>3 DEF Call
<1>8. Formed(q)
    <2>1. Nobody \notin r.left
        BY <1>1, ScheduleAssumption DEF Call
    <2> QED
        BY <1>1, <1>5, <2>1 DEF Formed, Working
<1>9. repeat' \subseteq (Services \X Intervals)
    BY <1>3, <1>6, <1>7 DEF ScheduleInv, TypeOK
<1>10. ASSUME NEW s \in r.scope, s # t
       PROVE  /\ Matching(r, s) => Matching(q, s)
              /\ Mends(r, s) => Mends(q, s)
    <2>1. s \in Services /\ s # Nobody
        BY <1>1, ScheduleAssumption DEF Call
    <2> QED
        BY <1>1, <1>2, <1>5, <1>10, <2>1 DEF Matching, Mends, Todo
<1>11. Removes(q) => Removes(r)
    BY <1>1, <1>5 DEF Removes
<1>12. Keys(t)' = Keys(t) \cup {r.every[t]}
    BY <1>6, <1>7 DEF Keys
<1>13. ASSUME Matching(r, t)
       PROVE  Matching(call[c], t)'
    <2>1. r.op \notin UnscheduleFirst
        BY <1>1, <1>3, Plans DEF Formed, JobsOf, UnscheduleFirst, Registers
    <2>2. Exists(t) /\ Active(t) /\ r.every[t] = row[t].every /\ Keys(t) = {}
        BY <1>1, <1>2, <1>3, <1>13, <2>1 DEF Matching, Todo
    <2>3. Keys(t)' = {row[t].every}
        BY <1>12, <2>2
    <2>4. call'[c] = q
        BY <1>5, <1>6, OneMoves
    <2>5. Exists(t)' /\ Active(t)' /\ Want(t)' = {row[t].every}
        BY <1>6, <2>2 DEF Exists, Active, Want
    <2>6. ~Todo(call[c], t)'
        BY <1>3, <1>5, <2>4, ScheduleAssumption DEF Todo
    <2> QED
        BY <1>5, <2>1, <2>3, <2>4, <2>5, <2>6 DEF Matching, AtMostOneKey
<1> QED
    BY <1>1, <1>2, <1>5, <1>6, <1>8, <1>9, <1>10, <1>11, <1>12, <1>13, JobStepKeeps DEF Working

LEMMA DropJobKeeps ==
    ASSUME ScheduleInv, NEW c \in Callers, DropJob(c)
    PROVE  ScheduleInv'
<1> DEFINE r == call[c]
<1>1. r \in Call /\ r.pc = "drop" /\ Formed(r)
    BY Typed, FormedNow DEF DropJob
<1>2. PICK t : t = r.cur
    OBVIOUS
<1>3. /\ t \in r.scope /\ t \in Services /\ t \notin r.left
      /\ r.plan \in Plan /\ r.plan # <<>> /\ (Registers(r.plan) <=> Registers(r.jobs))
      /\ r.found \in Intervals
    BY <1>1, <1>2 DEF Formed, Working, Call
<1>4. PICK q : q = IF r.plan = <<"register">> THEN [r EXCEPT !.pc = "add", !.found = Nobody]
                   ELSE PhaseDone(r)
    OBVIOUS
<1>5. /\ call' = [call EXCEPT ![c] = q]
      /\ repeat' = repeat \ {<<t, r.found>>}
      /\ UNCHANGED <<row, demo, faults, disturbed, blurred>>
    BY <1>2, <1>3, <1>4, RestOfPlan DEF DropJob
<1>6. /\ q \in Call
      /\ q.op = r.op /\ q.scope = r.scope /\ q.left = r.left /\ q.jobs = r.jobs
      /\ q.lone = r.lone
      /\ \A s \in Services : s # t => q.every[s] = r.every[s]
    <2>1. CASE r.plan = <<"register">>
        BY <1>1, <1>4, <2>1 DEF Call
    <2>2. CASE r.plan # <<"register">>
        BY <1>1, <1>2, <1>3, <1>4, <2>2, PhaseDoneIs
    <2> QED
        BY <2>1, <2>2
<1>7. /\ r.plan = <<"register">> => q.pc = "add" /\ q.cur = t /\ q.every = r.every /\ q.plan = r.plan
      /\ r.plan = <<"unschedule", "register">> =>
             q.pc = "find" /\ q.cur = t /\ q.every = r.every /\ q.plan = <<"register">>
      /\ r.plan = <<"unschedule">> => q.pc = "loop" /\ q.cur = Nobody
      /\ r.plan \in {<<"unschedule">>, <<"register">>, <<"unschedule", "register">>}
    <2>1. r.plan = <<"register">> =>
              q.pc = "add" /\ q.cur = t /\ q.every = r.every /\ q.plan = r.plan
        BY <1>1, <1>2, <1>4 DEF Call
    <2>2. r.plan = <<"unschedule", "register">> =>
             q.pc = "find" /\ q.cur = t /\ q.every = r.every /\ q.plan = <<"register">>
        BY <1>1, <1>2, <1>3, <1>4, PhaseDoneIs, Plans
    <2>3. r.plan = <<"unschedule">> => q.pc = "loop" /\ q.cur = Nobody
        BY <1>1, <1>2, <1>3, <1>4, PhaseDoneIs, Plans
    <2> QED
        BY <1>3, <2>1, <2>2, <2>3 DEF Plan
<1>8. Registers(r.plan) <=> r.plan # <<"unschedule">>
    BY <1>7, Plans DEF Registers
<1>9. Registers(<<"register">>) /\ <<"register">> # <<>>
    BY Plans DEF Registers
<1>10. Formed(q)
    <2>1. Nobody \notin r.left
        BY <1>1, ScheduleAssumption DEF Call
    <2> QED
        BY <1>1, <1>3, <1>6, <1>7, <1>8, <1>9, <2>1 DEF Formed, Working
<1>11. q.pc \in {"add", "find", "loop"}
    BY <1>7
<1>12. repeat' \subseteq (Services \X Intervals)
    BY <1>5 DEF ScheduleInv, TypeOK
<1>13. ASSUME NEW s \in r.scope, s # t
       PROVE  /\ Matching(r, s) => Matching(q, s)
              /\ Mends(r, s) => Mends(q, s)
    <2>1. s \in Services /\ s # Nobody
        BY <1>1, ScheduleAssumption DEF Call
    <2>2. Todo(r, s) <=> Todo(q, s)
        BY <1>1, <1>2, <1>6, <1>7, <1>13, <2>1 DEF Todo
    <2>3. q.every[s] = r.every[s] /\ q.cur # s /\ r.cur # s
        BY <1>2, <1>6, <1>7, <1>13, <2>1
    <2> QED
        BY <1>1, <1>6, <1>11, <2>2, <2>3 DEF Matching, Mends
<1>14. Removes(q) => Removes(r)
    BY <1>1, <1>6 DEF Removes
<1>15. Keys(t)' = Keys(t) \ {r.found}
    BY <1>5 DEF Keys
<1>16. r.plan = <<"unschedule">> => r.op \in UnscheduleFirst \/ r.op = "update"
    BY <1>1, <1>3, <1>8 DEF Formed, JobsOf, UnscheduleFirst, Registers
<1>17. ASSUME Matching(r, t)
       PROVE  Matching(call[c], t)'
    <2>1. r.pc \notin {"write", "reread"} /\ Todo(r, t)
        BY <1>1, <1>2 DEF Todo
    <2>2. /\ Exists(t) /\ AtMostOneKey(t) /\ r.found \in Keys(t)
          /\ r.op \notin UnscheduleFirst => (Active(t) <=> Registers(r.jobs))
          /\ Registers(r.jobs) => r.every[t] = row[t].every
        BY <1>1, <1>2, <1>17, <2>1 DEF Matching
    <2>3. Keys(t)' = {} /\ AtMostOneKey(t)'
        BY <1>15, <2>2 DEF AtMostOneKey
    <2>4. call'[c] = q
        BY <1>5, <1>6, OneMoves
    <2>5. /\ Exists(t)' /\ (Active(t)' <=> Active(t)) /\ row'[t] = row[t]
          /\ ~Active(t) => Want(t)' = {}
        BY <1>5, <2>2 DEF Exists, Active, Want
    <2>6. CASE r.plan = <<"unschedule">>
        <3>1. ~Todo(call[c], t)' /\ q.pc = "loop"
            BY <1>3, <1>6, <1>7, <2>4, <2>6, ScheduleAssumption DEF Todo
        <3>2. r.op \notin UnscheduleFirst => Want(t)' = {}
            BY <1>3, <1>8, <2>2, <2>5, <2>6
        <3> QED
            BY <1>6, <2>3, <2>4, <2>5, <3>1, <3>2 DEF Matching
    <2>7. CASE r.plan # <<"unschedule">>
        <3>1. Todo(call[c], t)' /\ q.pc \in {"find", "add"} /\ q.cur = t /\ q.every = r.every
            BY <1>7, <2>4, <2>7 DEF Todo
        <3> QED
            BY <1>6, <2>2, <2>3, <2>4, <2>5, <3>1 DEF Matching
    <2> QED
        BY <2>6, <2>7
<1>18. Mends(q, t) \/ Removes(r)
    <2>1. CASE r.plan = <<"unschedule">>
        BY <1>1, <1>3, <1>6, <1>8, <1>16, <2>1 DEF Mends, Removes
    <2>2. CASE r.plan # <<"unschedule">>
        BY <1>3, <1>6, <1>7, <1>8, <2>2 DEF Mends, Todo
    <2> QED
        BY <2>1, <2>2
<1> QED
    BY <1>1, <1>2, <1>5, <1>6, <1>10, <1>11, <1>12, <1>13, <1>14, <1>17, <1>18, JobStepKeeps
    DEF Working

-----------------------------------------------------------------------------
(***************************************************************************)
(* Faults and refusals.                                                    *)
(***************************************************************************)

LEMMA IdleType == Idle \in Call /\ NoRow \in Row
<1>1. NoRow \in Row
    BY ScheduleAssumption DEF NoRow, Row
<1>2. [s \in Services |-> DefaultInterval] \in [Services -> Intervals]
    BY ScheduleAssumption
<1>3. <<>> \in Plan
    BY DEF Plan
<1> HIDE DEF Plan, Row
<1> QED
    BY <1>1, <1>2, <1>3 DEF Idle, Call, Operations

LEMMA PhaseDoneFormed ==
    ASSUME NEW r \in Call, r.pc \in Working, Formed(r), NEW q, q = PhaseDone(r)
    PROVE  Formed(q)
<1>1. r.plan \in Plan /\ r.plan # <<>> /\ r.cur \in Services
    BY DEF Formed, Call
<1>2. /\ q.op = r.op /\ q.scope = r.scope /\ q.left = r.left /\ q.jobs = r.jobs
      /\ r.plan = <<"unschedule", "register">> =>
             q.pc = "find" /\ q.plan = <<"register">> /\ q.cur = r.cur
      /\ r.plan # <<"unschedule", "register">> => q.pc = "loop" /\ q.cur = Nobody
    BY <1>1, PhaseDoneIs
<1>3. Nobody \notin r.left
    BY ScheduleAssumption DEF Call
<1>4. Registers(<<"register">>) /\ <<"register">> # <<>>
    BY Plans DEF Registers
<1> QED
    BY <1>1, <1>2, <1>3, <1>4 DEF Formed, Working, Registers

LEMMA FaultKeeps ==
    ASSUME ScheduleInv, NEW c \in Callers, NEW q \in Call, call' = [call EXCEPT ![c] = q],
           call[c].pc # "idle",
           q.pc = "idle" \/ (q.op = call[c].op /\ q.scope = call[c].scope /\ ~q.lone /\ Formed(q)),
           UNCHANGED <<row, repeat, demo>>, faults < MaxFaults, faults' = faults + 1,
           disturbed' = disturbed \cup call[c].scope, blurred' = blurred \cup call[c].scope
    PROVE  ScheduleInv'
<1>1. OthersLike(c) /\ call'[c] = q /\ call' \in [Callers -> Call] /\ call[c] \in Call
    BY OneMoves, Typed
<1>2. call[c].scope \subseteq Services
    BY <1>1 DEF Call
<1>3. TypeOK'
    BY <1>1, <1>2, ScheduleAssumption DEF ScheduleInv, TypeOK
<1>4. Stays(c)
    BY <1>1 DEF Stays
<1>5. call'[c].pc # "idle" => Formed(call[c])'
    BY <1>1 DEF Formed
<1>6. \A s \in Services : Untouched(s)
    BY DEF Untouched
<1>7. ASSUME NEW s \in Services, c \in On(s) \/ c \in On(s)'
      PROVE  Fresh(s)' /\ Apart(s)' /\ Matched(s)' /\ Mended(s)'
    <2>1. c \in On(s) /\ s \in call[c].scope
        BY <1>1, <1>7 DEF On, InFlight
    <2>2. Fresh(s)' /\ Apart(s)'
        BY <1>1, <1>4, <2>1, HeldKept
    <2>3. s \in disturbed' /\ s \in blurred'
        BY <2>1
    <2>4. Matched(s)'
        BY <2>3 DEF Matched
    <2>5. ~Covered(s)'
        <3>1. SUFFICES ASSUME NEW e \in On(s)', call'[e].lone
                       PROVE  FALSE
            BY <2>3 DEF Covered
        <3>2. CASE e = c
            BY <1>1, <3>1, <3>2, StillOn, <1>4, <2>1
        <3>3. CASE e # c
            <4>1. e \in On(s) /\ call[e].lone
                BY <1>1, <1>4, <2>1, <3>1, <3>3, StillOn DEF Like
            <4>2. Apart(s)
                BY DEF ScheduleInv
            <4> QED
                BY <2>1, <3>3, <4>1, <4>2 DEF Apart
        <3> QED
            BY <3>2, <3>3
    <2>6. Mended(s)'
        BY <2>5 DEF Mended
    <2> QED
        BY <2>2, <2>4, <2>6
<1> QED
    BY <1>1, <1>3, <1>5, <1>6, <1>7, StepKeeps

LEMMA AbortKeeps ==
    ASSUME ScheduleInv, NEW c \in Callers, Abort(c)
    PROVE  ScheduleInv'
<1>1. Idle.pc = "idle"
    BY DEF Idle
<1> QED
    BY <1>1, IdleType, FaultKeeps DEF Abort, InFlight

LEMMA RedisFailsKeeps ==
    ASSUME ScheduleInv, NEW c \in Callers, RedisFails(c)
    PROVE  ScheduleInv'
<1> DEFINE r == call[c]
<1>1. r \in Call /\ r.pc \in Working /\ Formed(r)
    BY Typed, FormedNow DEF RedisFails, Working
<1>2. PICK p : p = PhaseDone(r)
    OBVIOUS
<1>3. p \in Call /\ p.op = r.op /\ p.scope = r.scope
    BY <1>1, <1>2, PhaseDoneIs DEF Formed, Call
<1>4. Formed(p)
    BY <1>1, <1>2, PhaseDoneFormed
<1>5. PICK q : q = IF c = Boot THEN Idle ELSE [p EXCEPT !.lone = FALSE]
    OBVIOUS
<1>6. q \in Call /\ (q.pc = "idle" \/ (q.op = r.op /\ q.scope = r.scope /\ ~q.lone /\ Formed(q)))
    <2>1. CASE c = Boot
        BY <1>5, <2>1, IdleType DEF Idle
    <2>2. CASE c # Boot
        <3>1. q = [p EXCEPT !.lone = FALSE]
            BY <1>5, <2>2
        <3>2. q \in Call /\ ~q.lone /\ Like(p, q)
            BY <1>3, <3>1 DEF Call, Like
        <3> QED
            BY <1>3, <1>4, <3>2 DEF Like, Formed
    <2> QED
        BY <2>1, <2>2
<1>7. call' = [call EXCEPT ![c] = q]
    BY <1>2, <1>5 DEF RedisFails
<1> QED
    BY <1>1, <1>6, <1>7, FaultKeeps DEF RedisFails, Working

-----------------------------------------------------------------------------
(* The end of a call.                                                      *)

(* A call that ends with nothing left to do leaves its services right.     *)
LEMMA LoopEndsKeeps ==
    ASSUME ScheduleInv, NEW c \in Callers, LoopEnds(c)
    PROVE  ScheduleInv'
<1> DEFINE r == call[c]
<1>1. r \in Call /\ r.pc = "loop" /\ Formed(r) /\ r.left = {} /\ r.cur = Nobody
    <2>1. r.pc = "loop" /\ r.left = {}
        BY DEF LoopEnds
    <2> QED
        BY <2>1, Typed, FormedNow DEF Formed, Working
<1>2. UNCHANGED <<row, repeat, demo, faults, disturbed>>
    BY DEF LoopEnds
<1>3. \A s \in r.scope : ~Todo(r, s)
    BY <1>1, ScheduleAssumption DEF Todo, Call
<1>4. CASE r.op \in UnscheduleFirst
    <2> DEFINE q == [r EXCEPT !.pc = "final"]
    <2>1. call' = [call EXCEPT ![c] = q] /\ blurred' = blurred
        BY <1>1, <1>4, Typed DEF LoopEnds, Call
    <2>2. /\ q \in Call
          /\ q.pc = "final" /\ q.left = r.left /\ q.cur = r.cur /\ q.plan = r.plan
          /\ q.op = r.op /\ q.scope = r.scope /\ q.jobs = r.jobs /\ q.every = r.every
          /\ q.lone = r.lone
        BY <1>1 DEF Call
    <2> HIDE DEF q
    <2>3. Formed(q)
        BY <1>1, <1>4, <2>2 DEF Formed, Working
    <2>4. ASSUME NEW s \in r.scope
          PROVE  /\ Matching(r, s) => Matching(q, s)
                 /\ Mends(r, s) => Mends(q, s)
                 /\ Removes(q) => Removes(r)
        BY <1>1, <1>4, <2>2 DEF Matching, Mends, Removes, Todo
    <2> QED
        BY <1>1, <1>2, <2>1, <2>2, <2>3, <2>4, QuietKeeps
<1>5. CASE r.op \notin UnscheduleFirst
    <2>1. /\ call' = [call EXCEPT ![c] = Idle]
          /\ blurred' = IF r.lone THEN blurred \ r.scope ELSE blurred
        BY <1>5 DEF LoopEnds, End
    <2>2. OthersLike(c) /\ call'[c] = Idle /\ call' \in [Callers -> Call]
        BY <2>1, IdleType, OneMoves
    <2>3. call'[c].pc = "idle" /\ Stays(c)
        BY <2>2 DEF Idle, Stays
    <2>4. TypeOK'
        BY <1>2, <2>1, <2>2 DEF ScheduleInv, TypeOK
    <2>5. ASSUME NEW s \in Services, c \in On(s) \/ c \in On(s)'
          PROVE  Fresh(s)' /\ Apart(s)' /\ Matched(s)' /\ Mended(s)'
        <3>1. c \in On(s) /\ s \in r.scope
            BY <2>2, <2>3, <2>5 DEF On, InFlight
        <3>2. Fresh(s)' /\ Apart(s)'
            BY <1>2, <2>1, <2>2, <2>3, <3>1, HeldKept
        <3>3. Keys(s)' = Keys(s) /\ Want(s)' = Want(s) /\ Active(s)' = Active(s)
            BY <1>2 DEF Keys, Want, Active
        <3>4. Matching(r, s) => Settled(s)'
            BY <1>1, <1>3, <1>5, <3>1, <3>3 DEF Matching, Settled
        <3>5. Matched(s)'
            BY <1>2, <2>2, <2>3, <3>1, <3>4, MatchedKept
        <3>6. ~Mends(r, s)
            BY <1>1, <1>3, <1>5, <3>1 DEF Mends
        <3>7. Mended(s)'
            BY <1>1, <2>1, <2>2, <2>3, <3>1, <3>3, <3>6, MendedKept
        <3> QED
            BY <3>2, <3>5, <3>7
    <2>6. \A s \in Services : c \notin On(s) /\ c \notin On(s)' => Untouched(s)
        BY <1>1, <1>2, <2>1 DEF On, InFlight, Untouched
    <2> QED
        BY <2>2, <2>3, <2>4, <2>5, <2>6, StepKeeps
<1> QED
    BY <1>4, <1>5

-----------------------------------------------------------------------------
(***************************************************************************)
(* A call that ends after a write, or because it is refused.               *)
(***************************************************************************)

LEMMA EndKeeps ==
    ASSUME ScheduleInv, NEW c \in Callers, call[c].pc # "idle",
           call' = [call EXCEPT ![c] = Idle],
           blurred' = blurred \/ (call[c].lone /\ blurred' = blurred \ call[c].scope),
           UNCHANGED <<repeat, demo, faults, disturbed>>, row' \in [Services -> Row],
           \A s \in Services \ call[c].scope : row'[s] = row[s],
           \A s \in call[c].scope :
               /\ row[s].state # "none" => row'[s].state # "none"
               /\ s \notin disturbed /\ Matching(call[c], s) => Settled(s)'
               /\ Mended(s)'
    PROVE  ScheduleInv'
<1>1. OthersLike(c) /\ call'[c] = Idle /\ call' \in [Callers -> Call]
    BY IdleType, OneMoves
<1>2. call'[c].pc = "idle" /\ Stays(c)
    BY <1>1 DEF Idle, Stays
<1>3. TypeOK'
    BY <1>1 DEF ScheduleInv, TypeOK
<1>4. ASSUME NEW s \in Services, c \in On(s) \/ c \in On(s)'
      PROVE  Fresh(s)' /\ Apart(s)' /\ Matched(s)' /\ Mended(s)'
    <2>1. c \in On(s) /\ s \in call[c].scope
        BY <1>1, <1>2, <1>4 DEF On, InFlight
    <2>2. Fresh(s)' /\ Apart(s)'
        BY <1>1, <1>2, <2>1, HeldKept
    <2>3. Matched(s)'
        BY <1>1, <1>2, <2>1, MatchedKept
    <2> QED
        BY <2>1, <2>2, <2>3
<1>5. \A s \in Services : c \notin On(s) /\ c \notin On(s)' => Untouched(s)
    BY DEF On, InFlight, Untouched
<1> QED
    BY <1>1, <1>2, <1>3, <1>4, <1>5, StepKeeps

LEMMA FinalWriteKeeps ==
    ASSUME ScheduleInv, NEW c \in Callers, FinalWrite(c)
    PROVE  ScheduleInv'
<1> DEFINE r == call[c]
<1>1. PICK to \in {"paused", "gone"} : to = IF r.op = "pause" THEN "paused" ELSE "gone"
    OBVIOUS
<1>2. /\ r.pc = "final"
      /\ row' = [s \in Services |-> IF s \in r.scope /\ Exists(s)
                                    THEN [row[s] EXCEPT !.state = to] ELSE row[s]]
      /\ call' = [call EXCEPT ![c] = Idle]
      /\ blurred' = IF r.lone THEN blurred \ r.scope ELSE blurred
      /\ UNCHANGED <<repeat, demo, faults, disturbed>>
    BY <1>1 DEF FinalWrite, End
<1>3. r \in Call /\ Formed(r) /\ r.op \in UnscheduleFirst /\ r.left = {} /\ r.cur = Nobody
    BY <1>2, Typed, FormedNow DEF Formed, Working
<1>4. row \in [Services -> Row]
    BY DEF ScheduleInv, TypeOK
<1>5. row' \in [Services -> Row]
    BY <1>1, <1>2, <1>4 DEF Row
<1>6. ASSUME NEW s \in r.scope
      PROVE  /\ row[s].state # "none" => row'[s].state # "none"
             /\ s \notin disturbed /\ Matching(r, s) => Settled(s)'
             /\ Mended(s)'
    <2>1. s \in Services /\ s # Nobody
        BY <1>3, ScheduleAssumption DEF Call
    <2>2. row[s] \in Row
        BY <1>4, <2>1
    <2>3. ~Active(s)' /\ (row[s].state # "none" => row'[s].state # "none")
        BY <1>1, <1>2, <2>1, <2>2 DEF Active, Exists, Row
    <2>4. Matching(r, s) => Keys(s)' = {}
        BY <1>2, <1>3, <2>1 DEF Matching, Todo, Keys
    <2> QED
        BY <2>3, <2>4 DEF Want, Settled, Mended
<1>7. \A s \in Services \ r.scope : row'[s] = row[s]
    BY <1>2
<1> QED
    BY <1>2, <1>5, <1>6, <1>7, EndKeeps

LEMMA RefuseUpdateKeeps ==
    ASSUME ScheduleInv, NEW c \in Callers, RefuseUpdate(c)
    PROVE  ScheduleInv'
<1> DEFINE r == call[c]
<1>1. /\ r.pc = "write" /\ r.op = "update"
      /\ call' = [call EXCEPT ![c] = Idle]
      /\ UNCHANGED <<row, repeat, demo, faults, disturbed, blurred>>
    BY DEF RefuseUpdate
<1>2. /\ OthersLike(c) /\ call'[c] = Idle
      /\ Idle.pc = "idle" /\ Stays(c)
    BY <1>1, IdleType, OneMoves DEF Idle, Stays
<1>3. ASSUME NEW s \in r.scope
      PROVE  /\ Matching(r, s) => Settled(s)'
             /\ Mended(s)'
    <2>1. s \in Services /\ c \in On(s)
        BY <1>1, Typed DEF Call, On, InFlight
    <2>2. Keys(s)' = Keys(s) /\ Want(s)' = Want(s) /\ Active(s)' = Active(s)
        BY <1>1 DEF Keys, Want, Active
    <2>3. Apart(s) /\ Mended(s)
        BY <2>1 DEF ScheduleInv
    <2>4. ASSUME Covered(s)'
          PROVE  On(s)' = {} /\ s \notin blurred
        <3>1. \A e \in On(s)' : e # c /\ e \in On(s) /\ Like(call[e], call'[e])
            BY <1>2, <2>1, StillOn
        <3>2. \A e \in On(s)' : ~call'[e].lone /\ s \in blurred
            BY <1>1, <2>1, <2>3, <3>1 DEF Apart, Like
        <3> QED
            BY <1>1, <2>4, <3>2 DEF Covered
    <2>5. ASSUME Covered(s)'
          PROVE  ~(Active(s) /\ Keys(s) = {})
        <3>1. \A d \in On(s) : d = c
            BY <1>1, <2>1, <2>3, <2>4, <2>5 DEF Apart
        <3>2. ~Mends(r, s)
            BY <1>1 DEF Mends, UnscheduleFirst, Todo
        <3> QED
            BY <2>3, <2>4, <2>5, <3>1, <3>2 DEF Mended, Covered
    <2>6. Mended(s)'
        BY <2>2, <2>4, <2>5 DEF Mended
    <2>7. Matching(r, s) => Settled(s)
        BY <1>1 DEF Matching
    <2>8. Settled(s) => Settled(s)'
        BY <1>1, <2>1, UntouchedViews DEF Untouched
    <2> QED
        BY <2>6, <2>7, <2>8
<1>4. row' \in [Services -> Row]
    BY <1>1 DEF ScheduleInv, TypeOK
<1> QED
    BY <1>1, <1>3, <1>4, EndKeeps

-----------------------------------------------------------------------------
(* The writes that come before the registration.                           *)

(* Where two calls meet on a service, no update keeps it covered.          *)
LEMMA UpdateIsAlone ==
    ASSUME NEW s \in Services, Apart(s)', Covered(s)', NEW c \in On(s)', NEW d \in On(s)',
           c # d
    PROVE  call'[d].op # "update"
<1>1. SUFFICES ASSUME call'[d].op = "update" PROVE FALSE
    OBVIOUS
<1>2. s \in blurred'
    BY <1>1 DEF Apart
<1>3. PICK e \in On(s)' : call'[e].lone
    BY <1>2 DEF Covered
<1> QED
    BY <1>3 DEF Apart

LEMMA WriteKeeps ==
    ASSUME ScheduleInv, NEW c \in Callers, NEW q \in Call, call' = [call EXCEPT ![c] = q],
           call[c].pc = "write", q.pc \notin {"write", "idle"},
           q.op = call[c].op, q.scope = call[c].scope, q.lone = call[c].lone, Formed(q),
           UNCHANGED <<repeat, demo, faults, disturbed, blurred>>, row' \in [Services -> Row],
           \A s \in Services \ call[c].scope : row'[s] = row[s],
           \A s \in call[c].scope :
               /\ row[s].state # "none" => row'[s].state # "none"
               /\ s \notin disturbed /\ Matching(call[c], s) => Matching(call[c], s)'
               /\ Active(s)' => Mends(q, s) /\ ~Removes(q)
    PROVE  ScheduleInv'
<1>1. OthersLike(c) /\ call'[c] = q /\ call' \in [Callers -> Call]
    BY OneMoves
<1>2. Stays(c) /\ Formed(call[c])'
    BY <1>1 DEF Stays, Formed
<1>3. TypeOK'
    BY <1>1 DEF ScheduleInv, TypeOK
<1>4. ASSUME NEW s \in Services, c \in On(s) \/ c \in On(s)'
      PROVE  Fresh(s)' /\ Apart(s)' /\ Matched(s)' /\ Mended(s)'
    <2>1. c \in On(s) /\ s \in call[c].scope /\ c \in On(s)'
        BY <1>1, <1>4 DEF On, InFlight
    <2>2. Fresh(s)' /\ Apart(s)'
        BY <1>1, <1>2, <2>1, HeldKept
    <2>3. Matched(s)'
        BY <1>1, <1>2, <2>1, MatchedKept
    <2>4. /\ Mends(q, s) => Mends(call[c], s)'
          /\ Removes(call[c])' => Removes(q)
        BY <1>1 DEF Mends, Removes, Todo
    <2>5. ASSUME Covered(s)', NEW d \in On(s)', Removes(call[d])', Active(s)'
          PROVE  FALSE
        <3>1. d # c
            BY <2>1, <2>4, <2>5
        <3>2. call'[d].op # "update"
            BY <2>1, <2>2, <2>5, <3>1, UpdateIsAlone
        <3> QED
            BY <2>5, <3>2 DEF Removes
    <2>6. Mended(s)'
        BY <2>1, <2>4, <2>5 DEF Mended
    <2> QED
        BY <2>2, <2>3, <2>6
<1>5. \A s \in Services : c \notin On(s) /\ c \notin On(s)' => Untouched(s)
    BY DEF On, InFlight, Untouched
<1> QED
    BY <1>1, <1>2, <1>3, <1>4, <1>5, StepKeeps

LEMMA WriteRowsKeeps ==
    ASSUME ScheduleInv, NEW c \in Callers, WriteRows(c)
    PROVE  ScheduleInv'
<1> DEFINE r == call[c]
           q == [r EXCEPT !.pc = "reread", !.set = NoRow]
<1>1. /\ r.pc = "write" /\ r.op \in {"resume", "interval"}
      /\ UNCHANGED <<repeat, demo, faults, disturbed, blurred>>
    BY DEF WriteRows
<1>2. r \in Call /\ Formed(r) /\ row \in [Services -> Row]
    BY <1>1, Typed, FormedNow DEF ScheduleInv, TypeOK
<1>3. call' = [call EXCEPT ![c] = q]
    BY <1>2, Typed DEF WriteRows, Call
<1>4. /\ q \in Call
      /\ q.pc = "reread" /\ q.left = r.left /\ q.cur = r.cur /\ q.plan = r.plan
      /\ q.op = r.op /\ q.scope = r.scope /\ q.jobs = r.jobs /\ q.lone = r.lone
    BY <1>2, IdleType DEF Call
<1> HIDE DEF q
<1>5. Formed(q)
    BY <1>1, <1>2, <1>4 DEF Formed, Working
<1>6. \A s \in Services :
          \/ row'[s] = row[s] /\ (s \notin r.scope \/ ~Exists(s))
          \/ r.op = "resume" /\ row'[s] = [row[s] EXCEPT !.state = "active"] /\ Exists(s)
          \/ r.op = "interval" /\ row'[s] = [row[s] EXCEPT !.every = r.set.every] /\ Exists(s)
    BY <1>1, <1>2 DEF WriteRows
<1>7. row' \in [Services -> Row]
    <2>1. DOMAIN row' = Services /\ row' = [s \in Services |-> row'[s]]
        BY <1>1, <1>2 DEF WriteRows
    <2>2. r.set \in Row
        BY <1>2 DEF Call
    <2>3. \A s \in Services : row[s] \in Row
        BY <1>2
    <2>4. \A s \in Services : row'[s] \in Row
        BY <1>6, <2>2, <2>3 DEF Row
    <2> QED
        BY <2>1, <2>4
<1>8. ASSUME NEW s \in r.scope
      PROVE  /\ row[s].state # "none" => row'[s].state # "none"
             /\ Matching(r, s) => Matching(call[c], s)'
             /\ Mends(q, s) /\ ~Removes(q)
    <2>1. s \in Services /\ row[s] \in Row
        BY <1>2 DEF Call
    <2>2. row[s].state # "none" => row'[s].state # "none"
        BY <1>6, <2>1 DEF Row, Exists
    <2>3. Mends(q, s) /\ ~Removes(q)
        BY <1>1, <1>4 DEF Mends, Removes
    <2>4. ASSUME Matching(r, s)
          PROVE  Matching(call[c], s)'
        <3>1. Exists(s) /\ AtMostOneKey(s) /\ (~Active(s) => Keys(s) = {})
            BY <1>1, <2>1, <2>4, SettledKeys DEF Matching
        <3>2. Keys(s)' = Keys(s) /\ AtMostOneKey(s)'
            BY <1>1, <3>1 DEF Keys, AtMostOneKey
        <3>3. /\ Exists(s)' /\ (r.op = "resume" => Active(s)')
              /\ r.op = "interval" => (Active(s)' <=> Active(s))
            BY <1>6, <2>1, <3>1 DEF Exists, Active, Row
        <3>4. ~Active(s)' => Keys(s)' = {}
            BY <1>1, <3>1, <3>2, <3>3
        <3>5. call'[c] = q
            BY <1>3, <1>4, OneMoves
        <3> QED
            BY <1>4, <3>2, <3>3, <3>4, <3>5 DEF Matching
    <2> QED
        BY <2>2, <2>3, <2>4
<1>9. \A s \in Services \ r.scope : row'[s] = row[s]
    BY <1>1, <1>2 DEF WriteRows
<1> QED
    BY <1>1, <1>3, <1>4, <1>5, <1>7, <1>8, <1>9, WriteKeeps

-----------------------------------------------------------------------------
(***************************************************************************)
(* Updates and creations.                                                  *)
(***************************************************************************)

LEMMA JobPlanIs ==
    ASSUME NEW was \in BOOLEAN, NEW now \in BOOLEAN
    PROVE  /\ JobPlan(was, now) \in Plan
           /\ Registers(JobPlan(was, now)) <=> now
           /\ JobPlan(was, now) = <<>> <=> ~was /\ ~now
BY Plans DEF JobPlan, Plan, Registers

LEMMA ReadType ==
    ASSUME NEW rows \in [Services -> Row], NEW S \in SUBSET Services
    PROVE  /\ Read(rows, S) \in [Services -> Intervals]
           /\ \A s \in S : Read(rows, S)[s] = rows[s].every
BY ScheduleAssumption DEF Read, Row

LEMMA WriteUpdateKeeps ==
    ASSUME ScheduleInv, NEW c \in Callers, WriteUpdate(c)
    PROVE  ScheduleInv'
<1> DEFINE r == call[c]
<1>1. /\ r.pc = "write" /\ r.op = "update"
      /\ UNCHANGED <<repeat, demo, faults, disturbed>>
    BY DEF WriteUpdate
<1>2. /\ r \in Call /\ Formed(r) /\ row \in [Services -> Row]
      /\ call \in [Callers -> Call]
    BY <1>1, Typed, FormedNow DEF ScheduleInv, TypeOK
<1>3. PICK s \in Services : r.scope = {s}
    BY <1>1, <1>2 DEF Formed
<1>4. s = CHOOSE t \in Services : t \in r.scope
    BY <1>3
<1>5. r.set \in Row /\ row[s] \in Row
    BY <1>2 DEF Call
<1>6. CASE ~Exists(s)
    <2>1. /\ call' = [call EXCEPT ![c] = Idle]
          /\ blurred' = IF r.lone THEN blurred \ r.scope ELSE blurred
          /\ row' = row
        BY <1>4, <1>6 DEF WriteUpdate, End
    <2>2. ~Active(s)'
        BY <1>6, <2>1 DEF Active, Exists
    <2>3. ~Matching(r, s)
        BY <1>6 DEF Matching
    <2>4. Mended(s)'
        BY <2>2 DEF Mended
    <2> QED
        BY <1>1, <1>2, <1>3, <2>1, <2>2, <2>3, <2>4, EndKeeps
<1>7. CASE Exists(s)
    <2> DEFINE state == IF r.set.state = "none" THEN row[s].state ELSE r.set.state
               now == state = "active"
               jobs == JobPlan(r.was, now)
               every == Read(row', IF now THEN {s} ELSE {})
               left == IF jobs = <<>> THEN {} ELSE {s}
               q == [r EXCEPT !.pc = "loop", !.jobs = jobs, !.left = left, !.every = every,
                              !.set = NoRow, !.was = FALSE]
    <2>1. /\ row' = [row EXCEPT ![s] = [r.set EXCEPT !.state = state]]
          /\ blurred' = blurred
        BY <1>4, <1>7 DEF WriteUpdate
    <2>2. call' = [call EXCEPT ![c] = q]
        <3>1. call' = [call EXCEPT ![c].pc = "loop", ![c].jobs = jobs, ![c].left = left,
                   ![c].every = every, ![c].set = NoRow, ![c].was = FALSE]
            BY <1>4, <1>7 DEF WriteUpdate
        <3> HIDE DEF jobs, left, every
        <3> QED
            BY <1>2, <3>1 DEF Call
    <2>3. state \in {"active", "paused"}
        BY <1>1, <1>2, <1>7 DEF Formed, Exists
    <2>4. row'[s] \in Row /\ row'[s].state = state /\ row' \in [Services -> Row]
        BY <1>2, <1>5, <2>1, <2>3 DEF Row
    <2>5. \A t \in Services : t # s => row'[t] = row[t]
        BY <1>2, <2>1
    <2>6. every \in [Services -> Intervals] /\ (now => every[s] = row'[s].every)
        BY <2>4, ReadType
    <2>7. /\ jobs \in Plan
          /\ Registers(jobs) <=> now
          /\ jobs = <<>> <=> ~r.was /\ ~now
        BY <1>2, JobPlanIs DEF Call
    <2>8. left \subseteq Services
        OBVIOUS
    <2> HIDE DEF jobs, every
    <2>9. /\ q \in Call
          /\ q.pc = "loop" /\ q.jobs = jobs /\ q.left = left /\ q.every = every
          /\ q.cur = r.cur /\ q.plan = r.plan
          /\ q.op = r.op /\ q.scope = r.scope /\ q.lone = r.lone
        <3> HIDE DEF left, now, Row, Plan
        <3> QED
            BY <1>2, <2>6, <2>7, <2>8, IdleType DEF Call
    <2> HIDE DEF q
    <2>10. r.cur = Nobody /\ s # Nobody
        BY <1>1, <1>2, ScheduleAssumption DEF Formed, Working
    <2>11. Formed(q)
        BY <1>1, <1>2, <1>3, <2>9, <2>10 DEF Formed, Working, UnscheduleFirst
    <2>12. call'[c] = q
        BY <2>2, <2>9, OneMoves
    <2>13. Keys(s)' = Keys(s) /\ (AtMostOneKey(s)' <=> AtMostOneKey(s))
        BY <1>1 DEF Keys, AtMostOneKey
    <2>14. Active(s)' = now /\ Exists(s)'
        BY <2>3, <2>4 DEF Active, Exists
    <2>15. Todo(q, s) <=> jobs # <<>>
        BY <2>9, <2>10 DEF Todo
    <2>16. Active(s)' => Mends(q, s) /\ ~Removes(q)
        BY <2>7, <2>9, <2>14, <2>15 DEF Mends, Removes
    <2>17. ASSUME Matching(r, s)
           PROVE  Matching(call[c], s)'
        <3>1. AtMostOneKey(s) /\ (~Active(s) => Keys(s) = {}) /\ r.was = Active(s)
            BY <1>1, <2>17, SettledKeys DEF Matching
        <3>2. Todo(call[c], s)' <=> jobs # <<>>
            BY <2>12, <2>15 DEF Todo
        <3>3. CASE jobs = <<>>
            <4>1. Keys(s)' = {} /\ Want(s)' = {}
                BY <2>7, <2>13, <2>14, <3>1, <3>3 DEF Want
            <4> QED
                BY <1>1, <2>9, <2>12, <2>13, <2>14, <3>1, <3>2, <3>3, <4>1
                DEF Matching, UnscheduleFirst
        <3>4. CASE jobs # <<>>
            BY <1>1, <2>6, <2>7, <2>9, <2>10, <2>12, <2>13, <2>14, <3>1, <3>2, <3>4
            DEF Matching, UnscheduleFirst
        <3> QED
            BY <3>3, <3>4
    <2>18. row'[s].state # "none"
        BY <2>3, <2>4
    <2>19. ASSUME NEW t \in r.scope
           PROVE  /\ row[t].state # "none" => row'[t].state # "none"
                  /\ t \notin disturbed /\ Matching(r, t) => Matching(call[c], t)'
                  /\ Active(t)' => Mends(q, t) /\ ~Removes(q)
        <3>1. t = s
            BY <1>3
        <3> QED
            BY <2>16, <2>17, <2>18, <3>1
    <2> QED
        BY <1>1, <1>3, <2>1, <2>2, <2>4, <2>5, <2>9, <2>11, <2>19, WriteKeeps
<1> QED
    BY <1>6, <1>7

LEMMA InsertServiceKeeps ==
    ASSUME ScheduleInv, NEW c \in Callers, NEW t \in Services, InsertService(c, t)
    PROVE  ScheduleInv'
<1> DEFINE r == call[c]
           S == IF r.set.state = "active" THEN {t} ELSE {}
           every == Read(row', S)
           q == [r EXCEPT !.pc = "loop", !.scope = {t}, !.left = S, !.every = every,
                          !.set = NoRow]
<1>1. /\ r.pc = "write" /\ r.op = "create" /\ row[t].state = "none"
      /\ row' = [row EXCEPT ![t] = r.set]
      /\ UNCHANGED <<repeat, demo, faults, disturbed, blurred>>
    BY DEF InsertService
<1>2. /\ r \in Call /\ Formed(r) /\ row \in [Services -> Row]
      /\ call \in [Callers -> Call]
    BY <1>1, Typed, FormedNow DEF ScheduleInv, TypeOK
<1>3. r.scope = {} /\ r.set.state \in {"active", "paused"} /\ r.jobs = <<"register">>
    BY <1>1, <1>2 DEF Formed, JobsOf, UnscheduleFirst
<1>4. r.cur = Nobody /\ t # Nobody /\ Registers(r.jobs)
    BY <1>1, <1>2, <1>3, ScheduleAssumption DEF Formed, Working, Registers
<1>5. call' = [call EXCEPT ![c] = q]
    <2>1. call' = [call EXCEPT ![c].pc = "loop", ![c].scope = {t}, ![c].left = S,
                               ![c].every = every, ![c].set = NoRow]
        BY DEF InsertService
    <2> HIDE DEF S, every
    <2> QED
        BY <1>2, <2>1 DEF Call
<1>6. row' \in [Services -> Row] /\ row'[t] = r.set
    BY <1>1, <1>2 DEF Call
<1>7. S \subseteq Services /\ S \subseteq {t}
    OBVIOUS
<1>8. every \in [Services -> Intervals] /\ (S = {t} => every[t] = r.set.every)
    BY <1>6, <1>7, ReadType
<1> HIDE DEF every
<1>9. /\ q \in Call
      /\ q.pc = "loop" /\ q.scope = {t} /\ q.left = S /\ q.every = every /\ q.jobs = r.jobs
      /\ q.cur = r.cur /\ q.plan = r.plan /\ q.op = r.op /\ q.lone = r.lone
    <2> HIDE DEF S, Row, Plan
    <2> QED
        BY <1>2, <1>7, <1>8, IdleType DEF Call
<1> HIDE DEF q
<1>10. OthersLike(c) /\ call'[c] = q /\ call' \in [Callers -> Call]
    BY <1>5, <1>9, OneMoves
<1>11. TypeOK'
    BY <1>1, <1>6, <1>10 DEF ScheduleInv, TypeOK
<1>12. Formed(call[c])'
    BY <1>1, <1>2, <1>3, <1>4, <1>7, <1>9, <1>10, ScheduleAssumption DEF Formed, Working
<1>13. Fresh(t)
    BY DEF ScheduleInv
<1>14. On(t)' = {c} /\ Keys(t)' = {} /\ c \notin On(t)
    <2>1. On(t) = {} /\ Keys(t) = {}
        BY <1>1, <1>13 DEF Fresh
    <2>2. \A d \in Callers : d \in On(t)' <=> d = c
        BY <1>9, <1>10, <2>1 DEF OthersLike, Like, On, InFlight
    <2>3. On(t)' \subseteq Callers
        BY DEF On
    <2> QED
        BY <1>1, <2>1, <2>2, <2>3 DEF Keys
<1>15. Active(t)' = (S = {t}) /\ Exists(t)' /\ AtMostOneKey(t)'
    BY <1>3, <1>6, <1>14 DEF Active, Exists, AtMostOneKey
<1>16. Todo(call[c], t)' <=> S = {t}
    BY <1>4, <1>9, <1>10 DEF Todo
<1>17. Fresh(t)' /\ Apart(t)'
    BY <1>3, <1>6, <1>14 DEF Fresh, Apart
<1>18. Matched(t)'
    <2>1. Matching(call[c], t)'
        BY <1>1, <1>4, <1>6, <1>8, <1>9, <1>10, <1>14, <1>15, <1>16
        DEF Matching, UnscheduleFirst, Want
    <2> QED
        BY <1>14, <2>1 DEF Matched
<1>19. Mended(t)'
    BY <1>4, <1>9, <1>10, <1>14, <1>15, <1>16 DEF Mended, Mends, Removes
<1>20. ASSUME NEW s \in Services, c \in On(s) \/ c \in On(s)'
       PROVE  s = t
    BY <1>3, <1>9, <1>10, <1>20 DEF On
<1>21. ASSUME NEW s \in Services, c \notin On(s), c \notin On(s)'
       PROVE  Untouched(s)
    <2>1. s # t
        BY <1>14, <1>21
    <2> QED
        BY <1>1, <1>2, <2>1 DEF Untouched
<1> QED
    BY <1>10, <1>11, <1>12, <1>17, <1>18, <1>19, <1>20, <1>21, StepKeeps

-----------------------------------------------------------------------------
(***************************************************************************)
(* The beginning of a call.                                                *)
(***************************************************************************)

(* The call c begins with the record q.                                    *)
Begins(c, q) ==
    /\ call' \in [Callers -> Call] /\ call'[c] = q
    /\ call[c].pc = "idle" /\ q.pc # "idle"
    /\ \A d \in Callers : d # c =>
           /\ Like(call[d], call'[d])
           /\ \A s \in q.scope : d \in On(s) => ~call'[d].lone
    /\ q.lone => \A s \in q.scope : On(s) = {}
    /\ UNCHANGED <<row, repeat, demo, faults>>
    /\ disturbed' \subseteq Services /\ blurred' \subseteq Services
    /\ \A s \in Services :
           /\ s \in disturbed' <=> s \in disturbed \/ (s \in q.scope /\ On(s) # {})
           /\ s \in blurred' <=>
                  \/ s \in blurred
                  \/ s \in q.scope /\ \E d \in On(s) : "update" \in {q.op, call[d].op}

(* It is fit to take over its services from nobody.                        *)
Fit(q) ==
    \A s \in q.scope :
        /\ row[s].state # "none"
        /\ Settled(s) => Matching(q, s)
        /\ Mends(q, s) \/ q.pc = "write"
        /\ ~Removes(q)

LEMMA BeginKeeps ==
    ASSUME ScheduleInv, NEW c \in Callers, NEW q \in Call, Begins(c, q), Formed(q), Fit(q)
    PROVE  ScheduleInv'
<1> USE DEF Begins, Fit
<1> DEFINE S == q.scope
<1>1. OthersLike(c)
    BY DEF OthersLike
<1>2. TypeOK'
    BY DEF ScheduleInv, TypeOK
<1>3. Formed(call[c])'
    BY DEF Formed
<1>4. \A s \in Services : Untouched(s)
    BY DEF Untouched
<1>5. ASSUME NEW s \in Services, c \in On(s) \/ c \in On(s)'
      PROVE  Fresh(s)' /\ Apart(s)' /\ Matched(s)' /\ Mended(s)'
    <2>1. c \notin On(s) /\ s \in S
        BY <1>5 DEF On, InFlight
    <2>2. /\ c \in On(s)'
          /\ \A d \in Callers : d # c => (d \in On(s)' <=> d \in On(s)) /\ Like(call[d], call'[d])
          /\ \A d \in On(s)' : d \in Callers
          /\ \A d \in On(s) : d \in Callers /\ d # c
        BY <2>1 DEF On, InFlight, Like
    <2>3. /\ Keys(s)' = Keys(s) /\ Want(s)' = Want(s)
          /\ Active(s)' = Active(s) /\ Exists(s)' = Exists(s)
          /\ AtMostOneKey(s)' = AtMostOneKey(s)
          /\ Settled(s) => Settled(s)'
        BY <1>4, UntouchedViews
    <2>4. Apart(s) /\ Matched(s) /\ Mended(s)
        BY DEF ScheduleInv
    <2>5. Fresh(s)'
        BY <2>1 DEF Fresh
    <2>6. Apart(s)'
        <3>1. SUFFICES ASSUME NEW a \in On(s)', NEW b \in On(s)', a # b
                       PROVE  (s \in disturbed /\ ~call[a].lone
                                  /\ (call[a].op = "update" => s \in blurred))'
            BY DEF Apart
        <3>2. CASE a # c /\ b # c
            BY <2>2, <2>4, <3>1, <3>2 DEF Apart, Like
        <3>3. CASE a = c
            <4>1. b \in On(s)
                BY <2>2, <3>1, <3>3
            <4>2. s \in disturbed' /\ ~q.lone
                BY <2>1, <4>1
            <4>3. q.op = "update" => s \in blurred'
                BY <2>1, <4>1
            <4> QED
                BY <3>3, <4>2, <4>3
        <3>4. CASE b = c /\ a # c
            <4>1. a \in On(s) /\ a \in Callers
                BY <2>2, <3>1, <3>4
            <4>2. s \in disturbed' /\ ~call'[a].lone
                BY <2>1, <3>4, <4>1
            <4>3. call[a].op = "update" => s \in blurred'
                BY <2>1, <4>1
            <4>4. call'[a].op = call[a].op
                BY <2>2, <3>4, <4>1 DEF Like
            <4> QED
                BY <4>2, <4>3, <4>4
        <3> QED
            BY <3>2, <3>3, <3>4
    <2>7. Matched(s)'
        <3>1. SUFFICES ASSUME s \notin disturbed'
                       PROVE  Matching(call[c], s)' /\ On(s)' = {c}
            BY DEF Matched
        <3>2. On(s) = {} /\ s \notin disturbed
            BY <2>1, <3>1
        <3>3. On(s)' = {c}
            BY <2>2, <3>2
        <3>4. Settled(s)
            BY <2>4, <3>2 DEF Matched
        <3>5. Matching(q, s)
            BY <2>1, <3>4
        <3>6. Matching(call[c], s)'
            BY <2>3, <3>5 DEF Matching, Todo
        <3> QED
            BY <3>3, <3>6
    <2>8. /\ Mends(q, s) => Mends(call[c], s)'
          /\ Removes(call[c])' => Removes(q)
        BY DEF Mends, Removes, Todo
    <2>9. ASSUME Covered(s)', Active(s)', Keys(s)' = {}
          PROVE  \E d \in On(s)' : Mends(call[d], s)'
        <3>1. CASE Mends(q, s)
            BY <2>2, <2>8, <3>1
        <3>2. CASE q.pc = "write"
            <4>1. s \notin blurred'
                BY <2>1, <2>2, <2>9, <3>2 DEF Covered
            <4>2. Covered(s)
                BY <4>1 DEF Covered
            <4>3. PICK d \in On(s) : Mends(call[d], s)
                BY <2>3, <2>4, <2>9, <4>2 DEF Mended
            <4>4. d \in On(s)' /\ Like(call[d], call'[d])
                BY <2>2, <4>3
            <4>5. Mends(call[d], s)'
                BY <4>3, <4>4 DEF Like, Mends, Todo
            <4> QED
                BY <4>4, <4>5
        <3> QED
            BY <2>1, <3>1, <3>2
    <2>10. ASSUME Covered(s)', NEW d \in On(s)', Removes(call[d])'
           PROVE  FALSE
        <3>1. d # c
            BY <2>1, <2>8, <2>10
        <3>2. call'[d].op # "update"
            BY <2>2, <2>6, <2>10, <3>1, UpdateIsAlone
        <3> QED
            BY <2>10, <3>2 DEF Removes
    <2>11. Mended(s)'
        BY <2>9, <2>10 DEF Mended
    <2> QED
        BY <2>5, <2>6, <2>7, <2>11
<1> QED
    BY <1>1, <1>2, <1>3, <1>4, <1>5, StepKeeps

-----------------------------------------------------------------------------
(***************************************************************************)
(* Requests and the worker's start.                                        *)
(***************************************************************************)

LEMMA RequestKeeps ==
    ASSUME ScheduleInv, NEW c \in Callers, NEW S \in SUBSET Services, NEW set \in Row,
           NEW op, NEW pc, \A s \in S : Exists(s), Begin(c, op, S, pc, set),
           \/ op = "create" /\ pc = "write" /\ S = {} /\ set.state \in {"active", "paused"}
           \/ op = "seed" /\ pc = "write" /\ S = {}
           \/ /\ op = "update" /\ pc = "write" /\ set.state \in {"none", "active", "paused"}
              /\ \E s \in Services : S = {s}
           \/ op \in UnscheduleFirst /\ pc = "loop"
           \/ op \in {"resume", "interval"} /\ pc = "write"
    PROVE  ScheduleInv'
<1> DEFINE others == UNION {On(s) : s \in S}
           was == op = "update" /\ \E s \in S : Active(s)
           lone == others = {}
           q == [Idle EXCEPT !.op = op, !.pc = pc, !.scope = S, !.left = S, !.jobs = JobsOf(op),
                             !.set = set, !.lone = lone, !.was = was]
<1>1. /\ call[c].pc = "idle"
      /\ call' = [d \in Callers |-> IF d = c THEN q
                                    ELSE [call[d] EXCEPT !.lone = @ /\ d \notin others]]
      /\ disturbed' = disturbed \cup {s \in S : On(s) # {}}
      /\ blurred' = blurred \cup {s \in S : \E d \in On(s) : "update" \in {op, call[d].op}}
      /\ UNCHANGED <<row, repeat, demo, faults>>
    BY DEF Begin, InFlight
<1>2. call \in [Callers -> Call] /\ row \in [Services -> Row]
    BY DEF ScheduleInv, TypeOK
<1>3. /\ op \in Operations /\ pc \in {"write", "loop"}
      /\ pc = "write" => op \in WriteFirst
      /\ pc = "loop" => op \in UnscheduleFirst
      /\ JobsOf(op) \in Plan
    BY DEF Operations, UnscheduleFirst, WriteFirst, JobsOf, Plan
<1> HIDE DEF others
<1>4. was \in BOOLEAN /\ lone \in BOOLEAN
    OBVIOUS
<1> HIDE DEF was, lone
<1>5. /\ q \in Call
      /\ q.op = op /\ q.pc = pc /\ q.scope = S /\ q.left = S /\ q.jobs = JobsOf(op)
      /\ q.set = set /\ q.lone = lone /\ q.was = was /\ q.cur = Nobody
    <2>1. Idle.cur = Nobody
        BY DEF Idle
    <2> HIDE DEF Row, Plan, Operations
    <2> QED
        BY <1>3, <1>4, <2>1, IdleType DEF Call
<1> HIDE DEF q
<1>6. /\ call' \in [Callers -> Call] /\ call'[c] = q
      /\ \A d \in Callers : d # c =>
             Like(call[d], call'[d]) /\ (call'[d].lone => d \notin others)
    <2>1. ASSUME NEW d \in Callers
          PROVE  LET p == [call[d] EXCEPT !.lone = @ /\ d \notin others]
                 IN  p \in Call /\ Like(call[d], p) /\ (p.lone => d \notin others)
        <3>1. call[d] \in Call
            BY <1>2
        <3> HIDE DEF Row, Plan, Operations
        <3> QED
            BY <3>1 DEF Call, Like
    <2> QED
        BY <1>1, <1>5, <2>1
<1>7. /\ \A s \in S : \A d \in On(s) : d \in others
      /\ lone => \A s \in S : On(s) = {}
    BY DEF others, lone
<1>8. Formed(q)
    <2>1. Nobody \notin S
        BY ScheduleAssumption
    <2>2. op = "update" => q.jobs # <<>>
        BY <1>5, Plans DEF JobsOf, UnscheduleFirst
    <2> QED
        BY <1>3, <1>5, <2>1, <2>2 DEF Formed, Working, UnscheduleFirst
<1>9. ASSUME NEW s \in S
      PROVE  /\ row[s].state # "none"
             /\ Settled(s) => Matching(q, s)
             /\ Mends(q, s) \/ q.pc = "write"
             /\ ~Removes(q)
    <2>1. Exists(s) /\ s # Nobody
        BY ScheduleAssumption
    <2>2. row[s].state # "none"
        BY <2>1 DEF Exists
    <2>3. Mends(q, s) \/ q.pc = "write"
        BY <1>3, <1>5 DEF Mends
    <2>4. ~Removes(q)
        BY <1>3, <1>5 DEF Removes, UnscheduleFirst
    <2>5. ASSUME Settled(s)
          PROVE  Matching(q, s)
        <3>1. AtMostOneKey(s)
            BY <2>1, <2>5, SettledKeys
        <3>2. CASE pc = "write"
            <4>1. op = "update" => was = Active(s)
                BY <1>3, <1>9 DEF was, UnscheduleFirst, Active
            <4> QED
                BY <1>5, <2>1, <2>5, <3>1, <3>2, <4>1 DEF Matching
        <3>3. CASE pc = "loop"
            <4>1. ~Registers(JobsOf(op)) /\ op \in UnscheduleFirst
                BY <1>3, <3>3, Plans DEF JobsOf, Registers, UnscheduleFirst
            <4> QED
                BY <1>5, <2>1, <3>1, <3>3, <4>1 DEF Matching, Todo
        <3> QED
            BY <1>3, <3>2, <3>3
    <2> QED
        BY <2>2, <2>3, <2>4, <2>5
<1>10. \A d \in Callers : d # c =>
           /\ Like(call[d], call'[d])
           /\ \A s \in q.scope : d \in On(s) => ~call'[d].lone
    BY <1>5, <1>6, <1>7
<1>11. (q.lone => \A s \in q.scope : On(s) = {}) /\ q.pc # "idle"
    BY <1>3, <1>5, <1>7
<1>12. /\ disturbed' \subseteq Services /\ blurred' \subseteq Services
       /\ \A s \in Services :
             /\ s \in disturbed' <=> s \in disturbed \/ (s \in q.scope /\ On(s) # {})
             /\ s \in blurred' <=>
                    \/ s \in blurred
                    \/ s \in q.scope /\ \E d \in On(s) : "update" \in {q.op, call[d].op}
    BY <1>1, <1>5 DEF ScheduleInv, TypeOK
<1>13. call[c].pc = "idle" /\ UNCHANGED <<row, repeat, demo, faults>>
    BY <1>1
<1>14. q \in Call /\ q.scope = S /\ call' \in [Callers -> Call] /\ call'[c] = q
    BY <1>5, <1>6
<1>15. Fit(q)
    BY <1>5, <1>9 DEF Fit
<1>16. Begins(c, q)
    BY <1>10, <1>11, <1>12, <1>13, <1>14 DEF Begins
<1> QED
    BY <1>8, <1>14, <1>15, <1>16, BeginKeeps

LEMMA WorkerStartsKeeps ==
    ASSUME ScheduleInv, WorkerStarts
    PROVE  ScheduleInv'
<1> DEFINE S == {s \in Services : Active(s)}
           others == UNION {On(s) : s \in S}
           lone == others = {}
           every == Read(row, S)
           q == [Idle EXCEPT !.pc = "loop", !.scope = S, !.left = S, !.jobs = JobsOf("boot"),
                             !.every = every, !.lone = lone]
<1>1. /\ call[Boot].pc = "idle"
      /\ call' = [d \in Callers |-> IF d = Boot THEN q
                                    ELSE [call[d] EXCEPT !.lone = @ /\ d \notin others]]
      /\ disturbed' = disturbed \cup {s \in S : On(s) # {}}
      /\ blurred' = blurred \cup {s \in S : \E d \in On(s) : call[d].op = "update"}
      /\ UNCHANGED <<row, repeat, demo, faults>>
    BY DEF WorkerStarts, InFlight
<1>2. call \in [Callers -> Call] /\ row \in [Services -> Row] /\ Boot \in Callers
    BY DEF ScheduleInv, TypeOK, Callers
<1>3. S \subseteq Services
    OBVIOUS
<1>4. JobsOf("boot") = <<"register">> /\ JobsOf("boot") \in Plan /\ Registers(JobsOf("boot"))
    BY DEF JobsOf, UnscheduleFirst, Plan, Registers
<1>5. every \in [Services -> Intervals] /\ \A s \in S : every[s] = row[s].every
    BY <1>2, <1>3, ReadType
<1>6. \A s \in S : Active(s)
    OBVIOUS
<1> HIDE DEF S, others, every
<1>7. lone \in BOOLEAN
    OBVIOUS
<1> HIDE DEF lone
<1>8. /\ q \in Call
      /\ q.op = "boot" /\ q.pc = "loop" /\ q.scope = S /\ q.left = S /\ q.jobs = JobsOf("boot")
      /\ q.every = every /\ q.lone = lone /\ q.cur = Nobody
    <2>1. Idle.cur = Nobody /\ Idle.op = "boot"
        BY DEF Idle
    <2> HIDE DEF Row, Plan, Operations
    <2> QED
        BY <1>3, <1>4, <1>5, <1>7, <2>1, IdleType DEF Call
<1> HIDE DEF q
<1>9. /\ call' \in [Callers -> Call] /\ call'[Boot] = q
      /\ \A d \in Callers : d # Boot =>
             Like(call[d], call'[d]) /\ (call'[d].lone => d \notin others)
    <2>1. ASSUME NEW d \in Callers
          PROVE  LET p == [call[d] EXCEPT !.lone = @ /\ d \notin others]
                 IN  p \in Call /\ Like(call[d], p) /\ (p.lone => d \notin others)
        <3>1. call[d] \in Call
            BY <1>2
        <3> HIDE DEF Row, Plan, Operations
        <3> QED
            BY <3>1 DEF Call, Like
    <2> QED
        BY <1>1, <1>2, <1>8, <2>1
<1>10. /\ \A s \in S : \A d \in On(s) : d \in others
       /\ lone => \A s \in S : On(s) = {}
    BY DEF others, lone
<1>11. Formed(q)
    <2>1. Nobody \notin S
        BY <1>3, ScheduleAssumption
    <2> QED
        BY <1>4, <1>8, <2>1 DEF Formed, Working, UnscheduleFirst
<1>12. ASSUME NEW s \in S
       PROVE  /\ row[s].state # "none"
              /\ Settled(s) => Matching(q, s)
              /\ Mends(q, s)
              /\ ~Removes(q)
    <2>1. Active(s) /\ Exists(s) /\ s # Nobody
        BY <1>3, <1>6, ScheduleAssumption DEF Active, Exists
    <2>2. Todo(q, s)
        BY <1>8 DEF Todo
    <2>3. Mends(q, s) /\ ~Removes(q)
        BY <1>4, <1>8, <2>2 DEF Mends, Removes
    <2>4. Settled(s) => Matching(q, s)
        BY <1>3, <1>4, <1>5, <1>8, <2>1, <2>2, SettledKeys DEF Matching
    <2> QED
        BY <2>1, <2>3, <2>4 DEF Exists
<1>13. /\ disturbed' \subseteq Services /\ blurred' \subseteq Services
       /\ \A s \in Services :
             /\ s \in disturbed' <=> s \in disturbed \/ (s \in q.scope /\ On(s) # {})
             /\ s \in blurred' <=>
                    \/ s \in blurred
                    \/ s \in q.scope /\ \E d \in On(s) : "update" \in {q.op, call[d].op}
    BY <1>1, <1>3, <1>8 DEF ScheduleInv, TypeOK
<1>14. \A d \in Callers : d # Boot =>
           /\ Like(call[d], call'[d])
           /\ \A s \in q.scope : d \in On(s) => ~call'[d].lone
    BY <1>8, <1>9, <1>10
<1>15. (q.lone => \A s \in q.scope : On(s) = {}) /\ q.pc # "idle"
    BY <1>8, <1>10
<1>16. call[Boot].pc = "idle" /\ UNCHANGED <<row, repeat, demo, faults>>
    BY <1>1
<1>17. q \in Call /\ q.scope = S /\ call' \in [Callers -> Call] /\ call'[Boot] = q
    BY <1>8, <1>9
<1>18. Fit(q)
    BY <1>8, <1>12 DEF Fit
<1>19. Boot \in Callers /\ S \in SUBSET Services
    BY <1>2, <1>3
<1>20. Begins(Boot, q)
    BY <1>13, <1>14, <1>15, <1>16, <1>17 DEF Begins
<1> QED
    BY <1>11, <1>17, <1>18, <1>19, <1>20, BeginKeeps

-----------------------------------------------------------------------------
(* The demo data.                                                          *)

LEMMA InsertDemoKeeps ==
    ASSUME ScheduleInv, NEW c \in Callers, NEW t \in Services, InsertDemo(c, t)
    PROVE  ScheduleInv'
<1> DEFINE new == [state |-> "active", every |-> DefaultInterval]
<1>1. /\ call[c].pc = "write" /\ call[c].op = "seed" /\ row[t].state = "none"
      /\ row' = [row EXCEPT ![t] = new]
      /\ demo' = demo \cup {t} /\ blurred' = blurred \cup {t}
      /\ UNCHANGED <<repeat, call, faults, disturbed>>
    BY DEF InsertDemo
<1>2. new \in Row /\ row \in [Services -> Row]
    BY ScheduleAssumption DEF Row, ScheduleInv, TypeOK
<1>3. TypeOK'
    BY <1>1, <1>2 DEF ScheduleInv, TypeOK
<1>4. FormedInv'
    BY <1>1 DEF ScheduleInv, FormedInv, Formed, InFlight
<1>5. \A s \in Services : On(s)' = On(s)
    BY <1>1 DEF On, InFlight
<1>6. \A d \in Callers : Like(call[d], call'[d])
    BY <1>1, LikeItself
<1>7. ASSUME NEW s \in Services
      PROVE  Fresh(s)' /\ Apart(s)' /\ Matched(s)' /\ Mended(s)'
    <2>1. CASE s # t
        <3>1. Untouched(s)
            BY <1>1, <1>2, <2>1 DEF Untouched
        <3>2. \A d \in On(s) : Like(call[d], call'[d])
            BY <1>6 DEF On
        <3> QED
            BY <1>5, <3>1, <3>2, Bystander
    <2>2. CASE s = t
        <3>1. On(s)' = {} /\ Keys(s)' = {}
            BY <1>1, <1>5, <2>2 DEF ScheduleInv, Fresh, Keys
        <3>2. row'[s].state = "active" /\ Active(s)'
            BY <1>1, <1>2, <2>2 DEF Active
        <3>3. (s \in demo \cap blurred)'
            BY <1>1, <2>2
        <3>4. Settled(s)'
            BY <3>1, <3>2, <3>3 DEF Settled, Stranded
        <3>5. ~Covered(s)'
            BY <3>1, <3>3 DEF Covered
        <3> QED
            BY <3>1, <3>2, <3>4, <3>5 DEF Fresh, Apart, Matched, Mended
    <2> QED
        BY <2>1, <2>2
<1> QED
    BY <1>3, <1>4, <1>7 DEF ScheduleInv

LEMMA SeedEndsKeeps ==
    ASSUME ScheduleInv, NEW c \in Callers, SeedEnds(c)
    PROVE  ScheduleInv'
<1>1. /\ call[c].pc = "write" /\ call[c].op = "seed"
      /\ call' = [call EXCEPT ![c] = Idle]
      /\ UNCHANGED <<row, repeat, demo, faults, disturbed, blurred>>
    BY DEF SeedEnds
<1>2. call[c].scope = {}
    BY <1>1, FormedNow DEF Formed
<1>3. row' \in [Services -> Row]
    BY <1>1 DEF ScheduleInv, TypeOK
<1> QED
    BY <1>1, <1>2, <1>3, EndKeeps

LEMMA RemoveDemoKeeps ==
    ASSUME ScheduleInv, RemoveDemo
    PROVE  ScheduleInv'
<1> DEFINE S == {s \in demo : Exists(s)}
<1>1. /\ row' = [s \in Services |-> IF s \in S THEN [row[s] EXCEPT !.state = "gone"] ELSE row[s]]
      /\ call' = [c \in Callers |-> [call[c] EXCEPT !.lone = @ /\ call[c].scope \cap S = {}]]
      /\ disturbed' = disturbed \cup {s \in S : On(s) # {}}
      /\ blurred' = blurred \cup S
      /\ UNCHANGED <<repeat, demo, faults>>
    BY DEF RemoveDemo
<1>2. /\ call \in [Callers -> Call] /\ row \in [Services -> Row] /\ S \subseteq Services
    BY DEF ScheduleInv, TypeOK
<1>3. \A s \in S : s \in demo /\ Exists(s)
    OBVIOUS
<1> HIDE DEF S
<1>4. ASSUME NEW c \in Callers
      PROVE  /\ call'[c] \in Call /\ Like(call[c], call'[c])
             /\ call'[c].lone => call[c].scope \cap S = {}
    <2>1. call[c] \in Call /\ call'[c] = [call[c] EXCEPT !.lone = @ /\ call[c].scope \cap S = {}]
        BY <1>1, <1>2
    <2> HIDE DEF Row, Plan, Operations
    <2> QED
        BY <2>1 DEF Call, Like
<1>5. call' \in [Callers -> Call]
    BY <1>1, <1>4
<1>6. /\ row' \in [Services -> Row]
      /\ \A s \in Services : s \notin S => row'[s] = row[s]
      /\ \A s \in S : row'[s].state = "gone" /\ row'[s].every = row[s].every
    BY <1>1, <1>2 DEF Row
<1>7. TypeOK'
    BY <1>1, <1>2, <1>5, <1>6 DEF ScheduleInv, TypeOK
<1>8. FormedInv'
    <2>1. SUFFICES ASSUME NEW c \in Callers, InFlight(c)'
                   PROVE  Formed(call[c])'
        BY DEF FormedInv
    <2>2. Like(call[c], call'[c])
        BY <1>4
    <2>3. Formed(call[c])
        BY <2>1, <2>2, FormedNow DEF InFlight, Like
    <2> QED
        BY <2>2, <2>3 DEF Like, Formed
<1>9. \A s \in Services : On(s)' = On(s)
    BY <1>4 DEF On, InFlight, Like
<1>10. ASSUME NEW s \in Services
       PROVE  Fresh(s)' /\ Apart(s)' /\ Matched(s)' /\ Mended(s)'
    <2>1. CASE s \notin S
        <3>1. Untouched(s)
            BY <1>1, <1>6, <2>1 DEF Untouched
        <3>2. \A d \in On(s) : Like(call[d], call'[d])
            BY <1>4 DEF On
        <3> QED
            BY <1>9, <3>1, <3>2, Bystander
    <2>2. CASE s \in S
        <3>1. s \in blurred' /\ (s \in demo \cap blurred)' /\ (On(s) # {} => s \in disturbed')
            BY <1>1, <1>3, <2>2
        <3>2. \A d \in On(s)' : ~call'[d].lone
            BY <1>4, <1>9, <2>2 DEF On
        <3>3. row'[s].state = "gone" /\ row'[s].every = row[s].every /\ Keys(s)' = Keys(s)
            BY <1>1, <1>6, <2>2 DEF Keys
        <3>4. Apart(s)'
            BY <1>9, <3>1, <3>2 DEF Apart
        <3>5. Matched(s)'
            <4>1. SUFFICES ASSUME s \notin disturbed'
                           PROVE  On(s)' = {} /\ Settled(s)'
                BY DEF Matched
            <4>2. On(s) = {} /\ s \notin disturbed
                BY <1>1, <3>1, <4>1
            <4>3. Settled(s)
                BY <4>2 DEF ScheduleInv, Matched
            <4>4. Keys(s) = {} \/ Keys(s) = {row[s].every}
                BY <1>3, <2>2, <4>3 DEF Settled, Stranded, Want
            <4>5. Want(s)' = {}
                BY <3>3 DEF Want, Active
            <4> QED
                BY <1>9, <3>1, <3>3, <4>2, <4>4, <4>5 DEF Settled, Stranded
        <3>6. Fresh(s)'
            BY <3>3 DEF Fresh
        <3>7. Mended(s)'
            BY <3>1, <3>2 DEF Mended, Covered
        <3> QED
            BY <3>4, <3>5, <3>6, <3>7
    <2> QED
        BY <2>1, <2>2
<1> QED
    BY <1>7, <1>8, <1>10 DEF ScheduleInv

-----------------------------------------------------------------------------
(* The theorems.                                                           *)

LEMMA ScheduleInvInit == Init => ScheduleInv
<1> SUFFICES ASSUME Init PROVE ScheduleInv
    OBVIOUS
<1>1. Idle \in Call /\ Idle.pc = "idle" /\ NoRow \in Row /\ NoRow.state = "none"
    BY IdleType DEF Idle, NoRow
<1>2. TypeOK
    BY <1>1, ScheduleAssumption DEF Init, TypeOK
<1>3. FormedInv
    BY <1>1 DEF Init, FormedInv, InFlight
<1>4. ASSUME NEW s \in Services
      PROVE  On(s) = {} /\ Keys(s) = {} /\ Want(s) = {} /\ ~Active(s)
    BY <1>1 DEF Init, On, InFlight, Keys, Want, Active
<1> QED
    BY <1>2, <1>3, <1>4 DEF ScheduleInv, Fresh, Apart, Matched, Mended, Settled

LEMMA StartKeeps ==
    ASSUME ScheduleInv, NEW c \in Requests, Start(c)
    PROVE  ScheduleInv'
<1>1. c \in Callers
    BY DEF Callers
<1>2. NoRow \in Row
    BY IdleType
<1>3. ASSUME NEW b \in Bodies, CreateService(c, b)
      PROVE  ScheduleInv'
    <2>1. b \in Row /\ b.state \in {"active", "paused"} /\ Begin(c, "create", {}, "write", b)
        BY <1>3 DEF CreateService, Bodies
    <2> QED
        BY <1>1, <2>1, RequestKeeps
<1>4. ASSUME NEW s \in Services, NEW b \in Patches, UpdateService(c, s, b)
      PROVE  ScheduleInv'
    <2>1. /\ b \in Row /\ b.state \in {"none", "active", "paused"}
          /\ Exists(s) /\ Begin(c, "update", {s}, "write", b)
        BY <1>4 DEF UpdateService, Patches
    <2>2. {s} \in SUBSET Services /\ \A t \in {s} : Exists(t)
        BY <2>1
    <2> QED
        BY <1>1, <2>1, <2>2, RequestKeeps
<1>5. ASSUME NEW S \in SUBSET Services,
             BulkDelete(c, S) \/ BulkPause(c, S) \/ BulkResume(c, S)
      PROVE  ScheduleInv'
    <2>1. CASE BulkDelete(c, S)
        BY <1>1, <1>2, <2>1, RequestKeeps DEF BulkDelete, UnscheduleFirst
    <2>2. CASE BulkPause(c, S)
        BY <1>1, <1>2, <2>2, RequestKeeps DEF BulkPause, UnscheduleFirst
    <2>3. CASE BulkResume(c, S)
        BY <1>1, <1>2, <2>3, RequestKeeps DEF BulkResume
    <2> QED
        BY <1>5, <2>1, <2>2, <2>3
<1>6. ASSUME NEW s \in Services,
             DeleteService(c, s) \/ PauseService(c, s) \/ ResumeService(c, s)
      PROVE  ScheduleInv'
    <2>1. BulkDelete(c, {s}) \/ BulkPause(c, {s}) \/ BulkResume(c, {s})
        BY <1>6 DEF DeleteService, PauseService, ResumeService, BulkDelete, BulkPause, BulkResume
    <2> QED
        BY <1>5, <2>1
<1>7. ASSUME NEW S \in SUBSET Services, NEW i \in Intervals, BulkChangeInterval(c, S, i)
      PROVE  ScheduleInv'
    <2>1. [NoRow EXCEPT !.every = i] \in Row
        BY <1>2 DEF Row
    <2> QED
        BY <1>1, <1>7, <2>1, RequestKeeps DEF BulkChangeInterval
<1>8. CASE SeedDemo(c)
    <2>1. {} \in SUBSET Services /\ Begin(c, "seed", {}, "write", NoRow)
        BY <1>8 DEF SeedDemo
    <2> QED
        BY <1>1, <1>2, <2>1, RequestKeeps
<1> QED
    BY <1>3, <1>4, <1>5, <1>6, <1>7, <1>8 DEF Start

LEMMA ScheduleInvStep == ScheduleInv /\ [Next]_vars => ScheduleInv'
<1> SUFFICES ASSUME ScheduleInv, [Next]_vars PROVE ScheduleInv'
    OBVIOUS
<1>1. ASSUME NEW c \in Callers, Steps(c) PROVE ScheduleInv'
    <2>1. CASE \E s \in Services : InsertService(c, s) \/ InsertDemo(c, s) \/ NextService(c, s)
        BY <2>1, InsertServiceKeeps, InsertDemoKeeps, NextServiceKeeps
    <2>2. CASE RefuseUpdate(c) \/ WriteUpdate(c) \/ WriteRows(c)
        BY <2>2, RefuseUpdateKeeps, WriteUpdateKeeps, WriteRowsKeeps
    <2>3. CASE RereadRows(c) \/ FinalWrite(c) \/ SeedEnds(c) \/ LoopEnds(c)
        BY <2>3, RereadRowsKeeps, FinalWriteKeeps, SeedEndsKeeps, LoopEndsKeeps
    <2>4. CASE FindJob(c) \/ DropJob(c) \/ AddJob(c)
        BY <2>4, FindJobKeeps, DropJobKeeps, AddJobKeeps
    <2> QED
        BY <1>1, <2>1, <2>2, <2>3, <2>4 DEF Steps
<1>2. CASE UNCHANGED vars
    BY <1>2 DEF vars, ScheduleInv, TypeOK, FormedInv, Formed, InFlight, Fresh, Apart, Matched,
        Matching, Mended, Mends, Removes, Covered, Todo, On, Keys, Active, Exists, Want,
        AtMostOneKey, Settled, Stranded
<1> QED
    BY <1>1, <1>2, StartKeeps, WorkerStartsKeeps, RemoveDemoKeeps, RedisFailsKeeps, AbortKeeps
    DEF Next

(* Whatever requests, the worker's start and failures of Redis do to it in  *)
(* any order, each service's row, its jobs and the calls on it stay in     *)
(* step as the invariant says (monitoringService.js, queue.js,             *)
(* demoService.js).                                                        *)
THEOREM Invariance == Spec => []ScheduleInv
<1> QED
    BY ScheduleInvInit, ScheduleInvStep, PTL DEF Spec

(* Every row, job and call in flight stays well formed.                    *)
THEOREM TypeCorrect == Spec => []TypeOK
<1>1. ScheduleInv => TypeOK
    BY DEF ScheduleInv
<1> QED
    BY <1>1, Invariance, PTL

(* As long as calls on a service neither overlap nor fail, between them it *)
(* has the one job its row asks for, or none if it is not active: the      *)
(* order of the write and of the registration in each request, and in the  *)
(* worker's start, sees to that.  The demo data are the exception the      *)
(* property names: no job from their creation to the first call on them,   *)
(* and one that is left over when they are removed.                        *)
THEOREM JobsMatchRows == Spec => []ScheduleMatches
<1>1. ScheduleInv => ScheduleMatches
    BY DEF ScheduleInv, Matched, ScheduleMatches, Settled, Want
<1> QED
    BY <1>1, Invariance, PTL

(* Overlapping requests never leave an active service without a job.  The  *)
(* demo data are created without one; after that, after a failure, or      *)
(* after an update that overlapped, the next call that has the service for *)
(* itself brings it a job.                                                 *)
THEOREM ActiveServicesAreChecked == Spec => []NoBlindSpot
<1>1. ScheduleInv => NoBlindSpot
    BY DEF ScheduleInv, Mended, Covered, NoBlindSpot
<1> QED
    BY <1>1, Invariance, PTL
=============================================================================

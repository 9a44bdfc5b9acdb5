------------------------------- MODULE Accounts -------------------------------
(***************************************************************************)
(* One organization: its members, their sessions, invites and projects     *)
(* (backend/src/services/authService.js, organizationService.js and        *)
(* projectService.js over their repositories; demoService.js where it      *)
(* makes and removes a project).  No handler here uses a                   *)
(* transaction: a request is a series of commands, and other requests run  *)
(* between them.  "overlap" records which pairs of requests did.           *)
(*                                                                         *)
(* A request does one operation.  What it creates, a session, an invite, a *)
(* reset token, a member or a project, is named after it; Seed names what  *)
(* was there before.  Of time only two things are kept: the second a       *)
(* refresh token is signed in, and that an access token expires.           *)
(***************************************************************************)
EXTENDS Naturals, FiniteSets

CONSTANTS
    People,             \* e-mail addresses
    Owner,              \* the one who registered the organization
    Requests, Seed,
    MaxProjects,        \* the quota (5)
    MaxSeconds,         \* bound on the clock
    MaxFaults           \* bound on restarts of the API

ASSUME AccountsAssumption ==
    /\ Owner \in People /\ Seed \notin Requests
    /\ MaxProjects \in Nat /\ MaxSeconds \in Nat /\ MaxFaults \in Nat

Names == Requests \cup {Seed}
Given == {"admin", "viewer"}                    \* roles that can be given
Role == Given \cup {"none", "owner"}

VARIABLES
    user,               \* user[p]: p's row; pw counts the passwords p has had
    session,            \* session[n]: a refresh token's row
    invite, resetToken, \* rows of invite_tokens and password_reset_tokens
    projects,
    access,             \* access[p]: the role in p's access token, while it is valid
    request, overlap,
    second, faults
rowVars == <<user, session, invite, resetToken, projects>>
vars == <<rowVars, access, request, overlap, second, faults>>

User == [role: Role, id: Names, pw: Nat]
NoSession == [state |-> "none", of |-> Owner, at |-> 0, pw |-> 0]
NoToken == [state |-> "none", of |-> Owner, role |-> "none"]
Idle == [op |-> "none", pc |-> "new", who |-> Owner, key |-> Seed,
         saw |-> [role |-> "none", id |-> Seed, pw |-> 0]]

Ops == {"none", "login", "refresh", "logout", "forgot", "reset", "invite", "accept", "role",
        "remove", "project", "unproject", "seed", "unseed"}
Steps == {"new", "find", "revoke", "mint", "delete", "create", "hash", "mark", "check", "done", "failed",
          "unmarked"}            \* an accept whose process ended before it marked the invite

TypeOK ==
    /\ user \in [People -> User]
    /\ session \in [Names -> [state: {"none", "live", "revoked"}, of: People,
                              at: 0..MaxSeconds, pw: Nat]]
    /\ invite \in [Names -> [state: {"none", "pending", "accepted"}, of: People, role: Role]]
    /\ resetToken \in [Names -> [state: {"none", "valid", "used"}, of: People, role: Role]]
    /\ projects \subseteq Names
    /\ access \in [People -> Role]
    /\ request \in [Requests -> [op: Ops, pc: Steps, who: People, key: Names, saw: User]]
    /\ overlap \subseteq SUBSET Requests
    /\ second \in 0..MaxSeconds /\ faults \in 0..MaxFaults

(* The owner has a session; anyone else has an invite or is a member.      *)
Init ==
    \E members \in SUBSET (People \ {Owner}) :
    /\ user = [p \in People |-> [role |-> IF p = Owner THEN "owner"
                                          ELSE IF p \in members THEN "admin" ELSE "none",
                                 id |-> Seed, pw |-> 0]]
    /\ session = [n \in Names |-> IF n = Seed THEN [NoSession EXCEPT !.state = "live"]
                                  ELSE NoSession]
    /\ \E p \in People :
          invite = [n \in Names |-> IF n = Seed /\ p # Owner /\ p \notin members
                                    THEN [state |-> "pending", of |-> p, role |-> "viewer"]
                                    ELSE NoToken]
    /\ resetToken = [n \in Names |-> NoToken]
    /\ projects = {}
    /\ access = [p \in People |-> user[p].role]
    /\ request = [r \in Requests |-> Idle]
    /\ overlap = {} /\ second = 0 /\ faults = 0

Member(p) == user[p].role # "none"
At(r, op, pc) == request[r].op = op /\ request[r].pc = pc
Running(r) == request[r].pc \notin {"new", "done", "failed", "unmarked"}

(* A request arrives; pc is where its first command leaves it.             *)
Begin(r, op, pc, who, key, saw) ==
    /\ request[r].pc = "new"
    /\ request' = [request EXCEPT ![r] = [op |-> op, pc |-> pc, who |-> who, key |-> key, saw |-> saw]]
    /\ overlap' = overlap \cup {{r, q} : q \in {x \in Requests : Running(x)}}
    /\ UNCHANGED <<second, faults>>

Goto(r, pc) ==
    /\ request' = [request EXCEPT ![r].pc = pc]
    /\ UNCHANGED <<overlap, second, faults>>

-----------------------------------------------------------------------------
(* Sessions.  The refresh token signs the user's id and the second, so two *)
(* tokens of one user and one second are the same string.                  *)

Minted(n) == session[n].state # "none"
Same(n) == {k \in Names : /\ Minted(n) /\ Minted(k)
                          /\ session[k].of = session[n].of /\ session[k].at = session[n].at}
Without(ns) == [n \in Names |-> IF n \in ns /\ session[n].state = "live"
                                THEN [session[n] EXCEPT !.state = "revoked"] ELSE session[n]]

Login(r, p) ==
    /\ Member(p)
    /\ Begin(r, "login", "mint", p, Seed, user[p])
    /\ UNCHANGED <<rowVars, access>>

(* The last command of login, refreshTokens and acceptInvite.  The foreign *)
(* key fails if the user's row is gone.                                    *)
Mint(r) ==
    LET p == request[r].who saw == request[r].saw IN
    /\ request[r].pc = "mint"
    /\ IF Member(p) /\ user[p].id = saw.id
       THEN /\ session' = [session EXCEPT ![r] =
                              [state |-> "live", of |-> p, at |-> second, pw |-> saw.pw]]
            /\ access' = [access EXCEPT ![p] = saw.role]
            /\ Goto(r, "done")
       ELSE Goto(r, "failed") /\ UNCHANGED <<session, access>>
    /\ UNCHANGED <<user, invite, resetToken, projects>>

(* Mutant of Refresh: a revoked row is found too.                          *)
RefreshOfAny(r, n) ==
    /\ Minted(n)
    /\ Begin(r, "refresh", "revoke", session[n].of, n,
             [user[session[n].of] EXCEPT !.pw = session[n].pw])
    /\ UNCHANGED <<rowVars, access>>

Refresh(r, n) ==
    /\ \E k \in Same(n) :
          /\ session[k].state = "live"
          /\ Begin(r, "refresh", "revoke", session[n].of, n,
                   [user[session[n].of] EXCEPT !.pw = session[k].pw])
    /\ UNCHANGED <<rowVars, access>>

Rotate(r) ==
    /\ At(r, "refresh", "revoke")
    /\ session' = Without(Same(request[r].key))
    /\ Goto(r, "mint")
    /\ UNCHANGED <<user, invite, resetToken, projects, access>>

Logout(r, n) ==
    /\ Minted(n)
    /\ session' = Without(Same(n))
    /\ Begin(r, "logout", "done", session[n].of, n, user[session[n].of])
    /\ UNCHANGED <<user, invite, resetToken, projects, access>>

-----------------------------------------------------------------------------
(* forgotPassword and resetPassword.                                       *)

ForgotPassword(r, p) ==
    /\ Member(p)
    /\ resetToken' = [n \in Names |-> IF resetToken[n].of = p THEN NoToken ELSE resetToken[n]]
    /\ Begin(r, "forgot", "create", p, Seed, user[p])
    /\ UNCHANGED <<user, session, invite, projects, access>>

CreateResetToken(r) ==
    LET p == request[r].who IN
    /\ At(r, "forgot", "create")
    /\ IF Member(p) /\ user[p].id = request[r].saw.id
       THEN /\ resetToken' = [resetToken EXCEPT ![r] = [state |-> "valid", of |-> p, role |-> "none"]]
            /\ Goto(r, "done")
       ELSE Goto(r, "failed") /\ UNCHANGED resetToken
    /\ UNCHANGED <<user, session, invite, projects, access>>

ResetPassword(r, n) ==
    /\ resetToken[n].state = "valid"
    /\ Begin(r, "reset", "hash", resetToken[n].of, n, user[resetToken[n].of])
    /\ UNCHANGED <<rowVars, access>>

(* updateMany: nothing happens if the user is gone.                        *)
UpdateHash(r) ==
    LET p == request[r].who IN
    /\ At(r, "reset", "hash")
    /\ request' = [request EXCEPT ![r].pc = "mark", ![r].saw.pw = user[p].pw + 1]
    /\ user' = IF Member(p) /\ user[p].id = request[r].saw.id
               THEN [user EXCEPT ![p].pw = @ + 1] ELSE user
    /\ UNCHANGED <<session, invite, resetToken, projects, access, overlap, second, faults>>

(* Mutant of MarkUsed: the handler stops before revokeAllForUser.          *)
MarkUsedAndStop(r) ==
    /\ At(r, "reset", "mark")
    /\ resetToken' = [resetToken EXCEPT ![request[r].key].state = "used"]
    /\ Goto(r, "done")
    /\ UNCHANGED <<user, session, invite, projects, access>>

(* The update fails if another forgotPassword has deleted the token: the   *)
(* password is changed then, and no session is revoked.                    *)
MarkUsed(r) ==
    LET n == request[r].key IN
    /\ At(r, "reset", "mark")
    /\ IF resetToken[n].state = "none"
       THEN Goto(r, "failed") /\ UNCHANGED resetToken
       ELSE resetToken' = [resetToken EXCEPT ![n].state = "used"] /\ Goto(r, "revoke")
    /\ UNCHANGED <<user, session, invite, projects, access>>

RevokeAll(r) ==
    /\ At(r, "reset", "revoke")
    /\ session' = Without({n \in Names : session[n].of = request[r].who})
    /\ Goto(r, "done")
    /\ UNCHANGED <<user, invite, resetToken, projects, access>>

-----------------------------------------------------------------------------
(* Membership.  The caller's role is the one in the access token.          *)

Invite(r, c, p, role) ==
    /\ access[c] \in {"owner", "admin"} /\ ~Member(p)
    /\ Begin(r, "invite", "delete", p, Seed, [role |-> role, id |-> Seed, pw |-> 0])
    /\ UNCHANGED <<rowVars, access>>

(* Mutant of DeletePending: earlier invites stay.                          *)
DeleteNone(r) ==
    /\ At(r, "invite", "delete") /\ Goto(r, "create")
    /\ UNCHANGED <<rowVars, access>>

DeletePending(r) ==
    /\ At(r, "invite", "delete")
    /\ invite' = [n \in Names |-> IF invite[n].of = request[r].who /\ invite[n].state = "pending"
                                  THEN NoToken ELSE invite[n]]
    /\ Goto(r, "create")
    /\ UNCHANGED <<user, session, resetToken, projects, access>>

CreateInvite(r) ==
    /\ At(r, "invite", "create")
    /\ invite' = [invite EXCEPT ![r] =
                     [state |-> "pending", of |-> request[r].who, role |-> request[r].saw.role]]
    /\ Goto(r, "done")
    /\ UNCHANGED <<user, session, resetToken, projects, access>>

AcceptInvite(r, n) ==
    /\ invite[n].state = "pending"
    /\ Begin(r, "accept", "check", invite[n].of, n, [role |-> invite[n].role, id |-> Seed, pw |-> 0])
    /\ UNCHANGED <<rowVars, access>>

NoSuchUser(r) ==
    /\ At(r, "accept", "check")
    /\ Goto(r, IF Member(request[r].who) THEN "failed" ELSE "create")
    /\ UNCHANGED <<rowVars, access>>

(* The e-mail address is unique.                                           *)
CreateMember(r) ==
    LET p == request[r].who
        row == [role |-> request[r].saw.role, id |-> r, pw |-> user[p].pw + 1] IN
    /\ At(r, "accept", "create")
    /\ IF Member(p)
       THEN Goto(r, "failed") /\ UNCHANGED user
       ELSE /\ user' = [user EXCEPT ![p] = row]
            /\ request' = [request EXCEPT ![r].pc = "mark", ![r].saw = row]
            /\ UNCHANGED <<overlap, second, faults>>
    /\ UNCHANGED <<session, invite, resetToken, projects, access>>

(* Mutant of MarkAccepted: the invite stays pending.                       *)
MarkNothing(r) ==
    /\ At(r, "accept", "mark") /\ Goto(r, "mint")
    /\ UNCHANGED <<rowVars, access>>

MarkAccepted(r) ==
    LET n == request[r].key IN
    /\ At(r, "accept", "mark")
    /\ IF invite[n].state = "none"
       THEN Goto(r, "failed") /\ UNCHANGED invite
       ELSE invite' = [invite EXCEPT ![n].state = "accepted"] /\ Goto(r, "mint")
    /\ UNCHANGED <<user, session, resetToken, projects, access>>

UpdateMemberRole(r, c, p, role) ==
    /\ access[c] = "owner" /\ Member(p)
    /\ user' = [user EXCEPT ![p].role = role]
    /\ Begin(r, "role", "done", p, Seed, user[p])
    /\ UNCHANGED <<session, invite, resetToken, projects, access>>

(* Mutant of MayRemove: the owner's own row may go too.                    *)
MayRemoveAnyone(c, p) == access[c] = "owner"

MayRemove(c, p) == access[c] = "owner" /\ p # c

(* Deleting the row deletes its refresh and reset tokens.                  *)
RemoveMember(r, c, p) ==
    /\ MayRemove(c, p) /\ Member(p)
    /\ user' = [user EXCEPT ![p].role = "none"]
    /\ session' = [n \in Names |-> IF session[n].of = p THEN NoSession ELSE session[n]]
    /\ resetToken' = [n \in Names |-> IF resetToken[n].of = p THEN NoToken ELSE resetToken[n]]
    /\ Begin(r, "remove", "done", p, Seed, user[p])
    /\ UNCHANGED <<invite, projects, access>>

-----------------------------------------------------------------------------
(* Projects.                                                               *)

(* Mutant of BelowQuota: one project too many.                             *)
UpToQuota(n) == n <= MaxProjects

BelowQuota(n) == n < MaxProjects

CountProjects(r, c) ==
    /\ access[c] \in {"owner", "admin"}
    /\ BelowQuota(Cardinality(projects))
    /\ Begin(r, "project", "create", c, Seed, user[c])
    /\ UNCHANGED <<rowVars, access>>

CreateProject(r) ==
    /\ At(r, "project", "create")
    /\ projects' = projects \cup {r}
    /\ Goto(r, "done")
    /\ UNCHANGED <<user, session, invite, resetToken, access>>

DeleteProject(r, c, n) ==
    /\ access[c] \in {"owner", "admin"} /\ n \in projects
    /\ projects' = projects \ {n}
    /\ Begin(r, "unproject", "done", c, n, user[c])
    /\ UNCHANGED <<user, session, invite, resetToken, access>>

(* The project of the demo data.  seedDemoData looks for demo data, then   *)
(* inserts without counting; a demo service or incident that is left would *)
(* refuse it too.  Where there is none, removeDemoData changes nothing.    *)

OfDemo(n) == n \in Requests /\ request[n].op = "seed"
DemoProjects == {n \in projects : OfDemo(n)}

SeedDemo(r, c) ==
    /\ access[c] = "owner" /\ DemoProjects = {}
    /\ Begin(r, "seed", "create", c, Seed, user[c])
    /\ UNCHANGED <<rowVars, access>>

CreateDemoProject(r) ==
    /\ At(r, "seed", "create") /\ DemoProjects = {}
    /\ projects' = projects \cup {r}
    /\ Goto(r, "done")
    /\ UNCHANGED <<user, session, invite, resetToken, access>>

(* Another seed has been there: names of projects are unique.              *)
RefuseDemoProject(r) ==
    /\ At(r, "seed", "create") /\ DemoProjects # {}
    /\ Goto(r, "failed")
    /\ UNCHANGED <<rowVars, access>>

RemoveDemo(r, c) ==
    /\ access[c] = "owner" /\ DemoProjects # {}
    /\ projects' = projects \ DemoProjects
    /\ Begin(r, "unseed", "done", c, Seed, user[c])
    /\ UNCHANGED <<user, session, invite, resetToken, access>>

-----------------------------------------------------------------------------
Tick ==
    /\ second < MaxSeconds /\ second' = second + 1
    /\ UNCHANGED <<rowVars, access, request, overlap, faults>>

AccessExpires(p) ==
    /\ access[p] # "none" /\ access' = [access EXCEPT ![p] = "none"]
    /\ UNCHANGED <<rowVars, request, overlap, second, faults>>

(* The API process ends: its requests stop where they are.                 *)
Stopped(r) == IF At(r, "accept", "mark") THEN "unmarked" ELSE "failed"

Restart ==
    /\ \E r \in Requests : Running(r)
    /\ faults < MaxFaults /\ faults' = faults + 1
    /\ request' = [r \in Requests |-> IF Running(r) THEN [request[r] EXCEPT !.pc = Stopped(r)]
                                      ELSE request[r]]
    /\ UNCHANGED <<rowVars, access, overlap, second>>

Sessions(r) ==
    \/ Mint(r) \/ Rotate(r) \/ CreateResetToken(r) \/ UpdateHash(r) \/ MarkUsed(r) \/ RevokeAll(r)
    \/ \E p \in People : Login(r, p) \/ ForgotPassword(r, p)
    \/ \E n \in Names : Refresh(r, n) \/ Logout(r, n) \/ ResetPassword(r, n)

Membership(r) ==
    \/ DeletePending(r) \/ CreateInvite(r) \/ NoSuchUser(r) \/ CreateMember(r) \/ MarkAccepted(r)
    \/ \E n \in Names : AcceptInvite(r, n)
    \/ \E c, p \in People : \/ RemoveMember(r, c, p)
                            \/ \E role \in Given : Invite(r, c, p, role) \/ UpdateMemberRole(r, c, p, role)

Projects(r) ==
    \/ CreateProject(r) \/ CreateDemoProject(r) \/ RefuseDemoProject(r)
    \/ \E c \in People : \/ CountProjects(r, c) \/ SeedDemo(r, c) \/ RemoveDemo(r, c)
                         \/ \E n \in Names : DeleteProject(r, c, n)

Next ==
    \/ \E r \in Requests : Sessions(r) \/ Membership(r) \/ Projects(r)
    \/ Tick \/ Restart
    \/ \E p \in People : AccessExpires(p)

Spec == Init /\ [][Next]_vars

-----------------------------------------------------------------------------
(* Properties: what holds although every handler reads first and writes    *)
(* later.  Requests that overlap are the only exceptions.                  *)

Overlapped(m, n) == {m, n} \in overlap

(* After a password reset has succeeded, every session that still works    *)
(* rests on the new password, or on the one with which a session was being *)
(* opened while the reset ran: revokeAllForUser does not reach a token     *)
(* that is inserted after it, nor those it is later exchanged for.         *)
ResetEndsSessions ==
    \A z \in Requests : At(z, "reset", "done") =>
        \A n \in Names :
            /\ session[n].state = "live" /\ session[n].of = request[z].who
            /\ session[n].pw < request[z].saw.pw
            => \E k \in Names : /\ Minted(k) /\ session[k].of = session[n].of
                                /\ session[k].pw = session[n].pw /\ Overlapped(k, z)

(* A refresh token is exchanged once.  It takes two refreshes at a time to *)
(* exchange it twice, or two tokens that were signed in the same second.   *)
ExchangedOnce ==
    \A a, b \in Requests :
        /\ a # b /\ At(a, "refresh", "done") /\ At(b, "refresh", "done")
        /\ request[b].key \in Same(request[a].key)
        => Overlapped(a, b) \/ Cardinality(Same(request[a].key)) > 1

(* Inviting an address again withdraws the invites it has: two are open    *)
(* only if they were made at the same time.                                *)
InviteSupersedes ==
    \A m, n \in Names :
        /\ m # n /\ invite[m].state = "pending" /\ invite[n].state = "pending"
        /\ invite[m].of = invite[n].of
        => Overlapped(m, n)

(* An invite makes one member: a member who was removed does not come back *)
(* with an invite that was accepted before.  It takes two accepts at a     *)
(* time, or a process that ends after it has made the member and before it *)
(* has marked the invite.                                                  *)
Joined(r) == request[r].op = "accept" /\ request[r].saw.id = r

JoinedOnce ==
    \A a, b \in Requests :
        a # b /\ Joined(a) /\ Joined(b) /\ request[a].key = request[b].key
        => \/ Overlapped(a, b)
           \/ request[a].pc = "unmarked" \/ request[b].pc = "unmarked"

(* Only requests that count at the same time exceed the quota.  The demo   *)
(* project is outside it, although later requests count it, and there is   *)
(* one at most, whatever seeds and removals overlap.                       *)
QuotaHoldsAlone ==
    LET counted == projects \ DemoProjects IN
    /\ Cardinality(counted) > MaxProjects => \E m, n \in counted : m # n /\ Overlapped(m, n)
    /\ Cardinality(DemoProjects) <= 1

(* However members, roles and stale access tokens change, the owner's row  *)
(* is never removed; only the owner can end the ownership, by taking       *)
(* another role.                                                           *)
OwnerNeverRemoved ==
    [][\A p \in People : user[p].role = "owner" => user'[p].role # "none"]_user
=============================================================================

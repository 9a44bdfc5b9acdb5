---------------------------- MODULE Accounts_proofs ----------------------------
(***************************************************************************)
(* For every set of people and requests, and with any number of restarts:  *)
(* nobody but the owner is ever given the role or a token of an owner, so  *)
(* the only caller who may remove members is the one who may not remove    *)
(* himself.  The second half proves what "overlap" is there for: handlers  *)
(* that read first and write later go wrong only together with a request   *)
(* that ran at the same time.                                              *)
(***************************************************************************)
EXTENDS Accounts, TLAPS, FiniteSetTheorems

RequestRow == [op: Ops, pc: Steps, who: People, key: Names, saw: User]
SessionRow == [state: {"none", "live", "revoked"}, of: People, at: 0..MaxSeconds, pw: Nat]
InviteRow == [state: {"none", "pending", "accepted"}, of: People, role: Role]
ResetRow == [state: {"none", "valid", "used"}, of: People, role: Role]

(* The inductive invariant: the types, and that nobody becomes an owner,   *)
(* not by his row, not by an access token that outlives a change of his    *)
(* role, not by what a request still carries, and not by an invite.        *)
Carries(x) == x.saw.role = "owner" => x.who = Owner /\ x.op \notin {"invite", "accept"}

RequestsTyped ==
    /\ request \in [Requests -> RequestRow] /\ overlap \subseteq SUBSET Requests
    /\ second \in 0..MaxSeconds /\ faults \in 0..MaxFaults
    /\ \A r \in Requests : Carries(request[r])

RowsOk ==
    /\ user \in [People -> User] /\ session \in [Names -> SessionRow]
    /\ invite \in [Names -> InviteRow] /\ resetToken \in [Names -> ResetRow]
    /\ projects \subseteq Names /\ access \in [People -> Role]
    /\ \A p \in People : user[p].role = "owner" => p = Owner
    /\ \A p \in People : access[p] = "owner" => p = Owner
    /\ \A n \in Names : invite[n].role # "owner"

IInv == RequestsTyped /\ RowsOk

LEMMA ImpliesTypeOK == IInv => TypeOK
BY DEF IInv, TypeOK, RequestsTyped, RowsOk, SessionRow, InviteRow, ResetRow, RequestRow

LEMMA RowsTyped ==
    /\ NoSession \in SessionRow /\ NoToken \in InviteRow /\ NoToken \in ResetRow
    /\ NoToken.role # "owner" /\ Idle \in RequestRow
BY AccountsAssumption DEF NoSession, NoToken, SessionRow, InviteRow, ResetRow, Idle, RequestRow,
   Ops, Steps, Names, User, Role, Given

LEMMA InitIInv == Init => IInv
<1> SUFFICES ASSUME Init PROVE IInv
    OBVIOUS
<1>1. user \in [People -> User] /\ access \in [People -> Role]
      /\ \A p \in People : user[p].role = "owner" => p = Owner
    BY DEF Init, User, Names, Role, Given
<1>2. session \in [Names -> SessionRow]
    BY RowsTyped, AccountsAssumption DEF Init, NoSession, SessionRow
<1>3. invite \in [Names -> InviteRow] /\ \A n \in Names : invite[n].role # "owner"
    BY RowsTyped DEF Init, InviteRow, Role, Given
<1>4. resetToken \in [Names -> ResetRow]
    BY RowsTyped DEF Init
<1>5. request \in [Requests -> RequestRow] /\ overlap \subseteq SUBSET Requests
      /\ projects \subseteq Names /\ second \in 0..MaxSeconds /\ faults \in 0..MaxFaults
    BY RowsTyped, AccountsAssumption DEF Init
<1>6. /\ \A p \in People : access[p] = "owner" => p = Owner
      /\ \A r \in Requests : Carries(request[r])
    BY <1>1 DEF Init, Idle, Carries
<1> QED
    BY <1>1, <1>2, <1>3, <1>4, <1>5, <1>6 DEF IInv, RequestsTyped, RowsOk

-----------------------------------------------------------------------------
(* What a step does to the requests.                                       *)

LEMMA BeginTyped ==
    ASSUME RequestsTyped, NEW r \in Requests, NEW op \in Ops, NEW pc \in Steps, NEW who \in People,
           NEW key \in Names, NEW saw \in User, saw.role = "owner" => who = Owner /\ op \notin {"invite", "accept"},
           Begin(r, op, pc, who, key, saw)
    PROVE  RequestsTyped'
<1> DEFINE y == [op |-> op, pc |-> pc, who |-> who, key |-> key, saw |-> saw]
<1>1. y \in RequestRow /\ Carries(y)
    BY DEF RequestRow, Carries
<1>2. request' = [request EXCEPT ![r] = y]
    BY DEF Begin
<1> HIDE DEF y
<1>3. overlap' \subseteq SUBSET Requests
    BY DEF Begin, RequestsTyped
<1> QED BY <1>1, <1>2, <1>3 DEF RequestsTyped, Begin

LEMMA GotoTyped ==
    ASSUME RequestsTyped, NEW r \in Requests, NEW pc \in Steps, Goto(r, pc)
    PROVE  RequestsTyped'
<1> DEFINE y == [request[r] EXCEPT !.pc = pc]
<1>1. y \in RequestRow /\ Carries(y)
    BY DEF RequestsTyped, RequestRow, Carries
<1>2. request' = [request EXCEPT ![r] = y]
    BY DEF Goto
<1> HIDE DEF y
<1> QED BY <1>1, <1>2 DEF RequestsTyped, Goto

LEMMA SawPassword ==
    ASSUME NEW x \in User, NEW k \in Nat
    PROVE  [x EXCEPT !.pw = k] \in User /\ [x EXCEPT !.pw = k].role = x.role
BY DEF User

LEMMA RequestFields ==
    ASSUME RequestsTyped, NEW r \in Requests
    PROVE  /\ request[r].who \in People /\ request[r].key \in Names /\ request[r].saw \in User
           /\ request[r].saw.role \in Role /\ request[r].saw.pw \in Nat
           /\ Carries(request[r])
BY DEF RequestsTyped, RequestRow, User

LEMMA RowFields ==
    ASSUME RowsOk
    PROVE  /\ \A p \in People : /\ user[p] \in User /\ user[p].role \in Role /\ user[p].pw \in Nat
                                /\ access[p] \in Role
           /\ \A n \in Names : /\ session[n] \in SessionRow /\ session[n].of \in People
                               /\ session[n].pw \in Nat
                               /\ invite[n] \in InviteRow /\ invite[n].of \in People
                               /\ invite[n].role \in Role
                               /\ resetToken[n] \in ResetRow /\ resetToken[n].of \in People
BY DEF RowsOk, User, SessionRow, InviteRow, ResetRow

LEMMA WithoutTyped == ASSUME RowsOk, NEW ns PROVE Without(ns) \in [Names -> SessionRow]
BY DEF RowsOk, Without, SessionRow

LEMMA NameOfRequest == Requests \subseteq Names /\ Seed \in Names
BY DEF Names

-----------------------------------------------------------------------------
(* One lemma for each group of operations.                                 *)

LEMMA MintStep == ASSUME IInv, NEW r \in Requests, Mint(r) PROVE IInv'
<1> DEFINE p == request[r].who
           row == [state |-> "live", of |-> p, at |-> second, pw |-> request[r].saw.pw]
<1>1. RequestsTyped /\ RowsOk
    BY DEF IInv
<1>2. row \in SessionRow
    BY <1>1, RequestFields DEF SessionRow, RequestsTyped
<1>3. session' = session \/ session' = [session EXCEPT ![r] = row]
    BY DEF Mint
<1>4. access' = access \/ access' = [access EXCEPT ![p] = request[r].saw.role]
    BY DEF Mint
<1>5. Goto(r, "done") \/ Goto(r, "failed")
    BY DEF Mint
<1> HIDE DEF row
<1>6. RequestsTyped'
    BY <1>1, <1>5, GotoTyped DEF Steps
<1>7. session' \in [Names -> SessionRow]
    BY <1>1, <1>2, <1>3 DEF RowsOk
<1>8. access' \in [People -> Role] /\ \A q \in People : access'[q] = "owner" => q = Owner
    BY <1>1, <1>4, RequestFields DEF RowsOk, Carries
<1> QED
    BY <1>1, <1>6, <1>7, <1>8 DEF IInv, RowsOk, Mint

LEMMA SessionStep ==
    ASSUME IInv, NEW r \in Requests, Sessions(r), ~Mint(r)
    PROVE  IInv'
<1>1. RequestsTyped /\ RowsOk
    BY DEF IInv
<1> USE DEF Ops, Steps
<1>2. CASE \E p \in People : Login(r, p) \/ ForgotPassword(r, p)
  <2> PICK p \in People : Login(r, p) \/ ForgotPassword(r, p)
      BY <1>2
  <2>1. user[p] \in User /\ (user[p].role = "owner" => p = Owner)
      BY <1>1, RowFields DEF RowsOk
  <2>2. RequestsTyped'
      BY <1>1, <2>1, NameOfRequest, BeginTyped DEF Login, ForgotPassword
  <2>3. resetToken' \in [Names -> ResetRow]
      BY <1>1, RowsTyped DEF Login, ForgotPassword, rowVars, RowsOk
  <2> QED BY <1>1, <2>2, <2>3 DEF IInv, Login, ForgotPassword, rowVars, RowsOk
<1>3. CASE \E n \in Names : Refresh(r, n)
  <2> PICK n \in Names : Refresh(r, n)
      BY <1>3
  <2> DEFINE u == user[session[n].of]
  <2>1. PICK k \in Names : Begin(r, "refresh", "revoke", session[n].of, n, [u EXCEPT !.pw = session[k].pw])
      BY DEF Refresh, Same
  <2>2. u \in User /\ session[k].pw \in Nat /\ session[n].of \in People
        /\ (u.role = "owner" => session[n].of = Owner)
      BY <1>1, RowFields DEF RowsOk
  <2> HIDE DEF u
  <2>3. RequestsTyped'
      BY <1>1, <2>1, <2>2, SawPassword, BeginTyped
  <2> QED BY <1>1, <2>3 DEF IInv, Refresh, rowVars, RowsOk
<1>4. CASE \E n \in Names : Logout(r, n) \/ ResetPassword(r, n)
  <2> PICK n \in Names : Logout(r, n) \/ ResetPassword(r, n)
      BY <1>4
  <2>1. /\ session[n].of \in People /\ resetToken[n].of \in People
        /\ \A p \in People : user[p] \in User /\ (user[p].role = "owner" => p = Owner)
      BY <1>1, RowFields DEF RowsOk
  <2>2. RequestsTyped'
      BY <1>1, <2>1, BeginTyped DEF Logout, ResetPassword
  <2>3. session' \in [Names -> SessionRow]
      BY <1>1, WithoutTyped DEF Logout, ResetPassword, rowVars, RowsOk
  <2> QED BY <1>1, <2>2, <2>3 DEF IInv, Logout, ResetPassword, rowVars, RowsOk
<1>5. CASE Rotate(r) \/ RevokeAll(r)
  <2>1. RequestsTyped'
      BY <1>1, <1>5, GotoTyped DEF Rotate, RevokeAll
  <2>2. session' \in [Names -> SessionRow]
      BY <1>1, <1>5, WithoutTyped DEF Rotate, RevokeAll
  <2> QED BY <1>1, <1>5, <2>1, <2>2 DEF IInv, Rotate, RevokeAll, RowsOk
<1>6. CASE CreateResetToken(r) \/ MarkUsed(r)
  <2> DEFINE row == [state |-> "valid", of |-> request[r].who, role |-> "none"]
             used == [resetToken[request[r].key] EXCEPT !.state = "used"]
  <2>1. RequestsTyped'
      BY <1>1, <1>6, GotoTyped DEF CreateResetToken, MarkUsed
  <2>2. row \in ResetRow /\ used \in ResetRow
      BY <1>1, RequestFields, RowFields DEF ResetRow, Role
  <2>3. \/ resetToken' = resetToken \/ resetToken' = [resetToken EXCEPT ![r] = row]
        \/ resetToken' = [resetToken EXCEPT ![request[r].key] = used]
      BY <1>6 DEF CreateResetToken, MarkUsed
  <2> HIDE DEF row, used
  <2>4. resetToken' \in [Names -> ResetRow]
      BY <1>1, <2>2, <2>3 DEF RowsOk
  <2> QED BY <1>1, <1>6, <2>1, <2>4 DEF IInv, CreateResetToken, MarkUsed, RowsOk
<1>7. CASE UpdateHash(r)
  <2> DEFINE p == request[r].who
             saw == [request[r].saw EXCEPT !.pw = user[p].pw + 1]
             y == [request[r] EXCEPT !.pc = "mark", !.saw = saw]
             u == [user[p] EXCEPT !.pw = @ + 1]
  <2>1. p \in People /\ user[p] \in User /\ user[p].pw + 1 \in Nat
      BY <1>1, RequestFields, RowFields
  <2>2. saw \in User /\ saw.role = request[r].saw.role
      BY <1>1, <2>1, RequestFields, SawPassword
  <2>3. u \in User /\ u.role = user[p].role
      BY <2>1, SawPassword
  <2>4. request' = [request EXCEPT ![r] = y] /\ (user' = user \/ user' = [user EXCEPT ![p] = u])
      BY <1>7 DEF UpdateHash
  <2> HIDE DEF saw, u
  <2>5. y \in RequestRow /\ Carries(y)
    <3>1. request[r] \in RequestRow /\ Carries(request[r])
        BY <1>1 DEF RequestsTyped
    <3>2. request[r].op = "reset"
        BY <1>7 DEF UpdateHash, At
    <3> QED BY <3>1, <3>2, <2>2 DEF RequestRow, Carries
  <2> HIDE DEF y
  <2>6. RequestsTyped'
      BY <1>1, <1>7, <2>4, <2>5 DEF RequestsTyped, UpdateHash
  <2>7. user' \in [People -> User] /\ \A q \in People : user'[q].role = "owner" => q = Owner
      BY <1>1, <2>1, <2>3, <2>4 DEF RowsOk
  <2> QED BY <1>1, <1>7, <2>6, <2>7 DEF IInv, UpdateHash, RowsOk
<1> QED BY <1>2, <1>3, <1>4, <1>5, <1>6, <1>7 DEF Sessions

LEMMA InviteStep ==
    ASSUME IInv, NEW r \in Requests,
           \/ \E c, p \in People, role \in Given : Invite(r, c, p, role)
           \/ DeletePending(r) \/ CreateInvite(r)
           \/ \E n \in Names : AcceptInvite(r, n)
           \/ NoSuchUser(r) \/ MarkAccepted(r)
    PROVE  IInv'
<1>1. RequestsTyped /\ RowsOk
    BY DEF IInv
<1> USE DEF Ops, Steps
<1>2. CASE \E c, p \in People, role \in Given : Invite(r, c, p, role)
  <2> PICK c \in People, p \in People, role \in Given : Invite(r, c, p, role)
      BY <1>2
  <2>1. [role |-> role, id |-> Seed, pw |-> 0] \in User /\ role # "owner"
      BY NameOfRequest DEF User, Role, Given
  <2>2. RequestsTyped'
      BY <1>1, <2>1, NameOfRequest, BeginTyped DEF Invite
  <2> QED BY <1>1, <2>2 DEF IInv, Invite, rowVars, RowsOk
<1>3. CASE \E n \in Names : AcceptInvite(r, n)
  <2> PICK n \in Names : AcceptInvite(r, n)
      BY <1>3
  <2>1. [role |-> invite[n].role, id |-> Seed, pw |-> 0] \in User /\ invite[n].role # "owner"
        /\ invite[n].of \in People
      BY <1>1, NameOfRequest, RowFields DEF User, RowsOk
  <2>2. RequestsTyped'
      BY <1>1, <2>1, BeginTyped DEF AcceptInvite
  <2> QED BY <1>1, <2>2 DEF IInv, AcceptInvite, rowVars, RowsOk
<1>4. CASE DeletePending(r)
  <2>1. RequestsTyped'
      BY <1>1, <1>4, GotoTyped DEF DeletePending
  <2>2. invite' \in [Names -> InviteRow] /\ \A n \in Names : invite'[n].role # "owner"
      BY <1>1, <1>4, RowsTyped DEF DeletePending, RowsOk
  <2> QED BY <1>1, <1>4, <2>1, <2>2 DEF IInv, DeletePending, RowsOk
<1>5. CASE CreateInvite(r) \/ MarkAccepted(r)
  <2> DEFINE row == [state |-> "pending", of |-> request[r].who, role |-> request[r].saw.role]
             used == [invite[request[r].key] EXCEPT !.state = "accepted"]
  <2>1. RequestsTyped'
      BY <1>1, <1>5, GotoTyped DEF CreateInvite, MarkAccepted
  <2>2. row \in InviteRow /\ used \in InviteRow /\ used.role = invite[request[r].key].role
      BY <1>1, RequestFields, RowFields DEF InviteRow
  <2>3. \/ invite' = invite
        \/ At(r, "invite", "create") /\ invite' = [invite EXCEPT ![r] = row]
        \/ invite' = [invite EXCEPT ![request[r].key] = used]
      BY <1>5 DEF CreateInvite, MarkAccepted
  <2>4. At(r, "invite", "create") => row.role # "owner"
      BY <1>1, RequestFields DEF At, Carries
  <2> HIDE DEF row, used
  <2>5. invite' \in [Names -> InviteRow] /\ \A n \in Names : invite'[n].role # "owner"
      BY <1>1, <2>2, <2>3, <2>4, RequestFields DEF RowsOk
  <2> QED BY <1>1, <1>5, <2>1, <2>5 DEF IInv, CreateInvite, MarkAccepted, RowsOk
<1>6. CASE NoSuchUser(r)
  <2>1. RequestsTyped'
      BY <1>1, <1>6, GotoTyped DEF NoSuchUser
  <2> QED BY <1>1, <1>6, <2>1 DEF IInv, NoSuchUser, rowVars, RowsOk
<1> QED BY <1>2, <1>3, <1>4, <1>5, <1>6

LEMMA MemberStep ==
    ASSUME IInv, NEW r \in Requests,
           \/ CreateMember(r)
           \/ \E c, p \in People : \/ RemoveMember(r, c, p)
                                   \/ \E role \in Given : UpdateMemberRole(r, c, p, role)
    PROVE  IInv'
<1>1. RequestsTyped /\ RowsOk
    BY DEF IInv
<1> USE DEF Ops, Steps
<1>2. CASE CreateMember(r)
  <2> DEFINE p == request[r].who
             row == [role |-> request[r].saw.role, id |-> r, pw |-> user[p].pw + 1]
             y == [request[r] EXCEPT !.pc = "mark", !.saw = row]
  <2>1. row \in User /\ row.role # "owner" /\ request[r].op = "accept"
      BY <1>1, <1>2, RequestFields, RowFields, NameOfRequest DEF CreateMember, At, Carries, User
  <2>2. CASE Goto(r, "failed") /\ UNCHANGED user
    <3>1. RequestsTyped'
        BY <1>1, <2>2, GotoTyped
    <3> QED BY <1>1, <1>2, <2>2, <3>1 DEF IInv, CreateMember, RowsOk
  <2>3. CASE /\ user' = [user EXCEPT ![p] = row]
             /\ request' = [request EXCEPT ![r] = y] /\ UNCHANGED <<overlap, second, faults>>
    <3> HIDE DEF row
    <3>1. y \in RequestRow /\ Carries(y)
      <4>1. request[r] \in RequestRow
          BY <1>1 DEF RequestsTyped
      <4> QED BY <4>1, <2>1 DEF RequestRow, Carries
    <3> HIDE DEF y
    <3>2. RequestsTyped'
        BY <1>1, <2>3, <3>1 DEF RequestsTyped
    <3>3. user' \in [People -> User] /\ \A q \in People : user'[q].role = "owner" => q = Owner
        BY <1>1, <2>1, <2>3 DEF RowsOk
    <3> QED BY <1>1, <1>2, <3>2, <3>3 DEF IInv, CreateMember, RowsOk
  <2> QED BY <1>2, <2>2, <2>3 DEF CreateMember
<1>3. CASE \E c, p \in People : \/ RemoveMember(r, c, p)
                                \/ \E role \in Given : UpdateMemberRole(r, c, p, role)
  <2> PICK c \in People, p \in People :
           RemoveMember(r, c, p) \/ \E role \in Given : UpdateMemberRole(r, c, p, role)
      BY <1>3
  <2>1. user[p] \in User /\ (user[p].role = "owner" => p = Owner)
      BY <1>1, RowFields DEF RowsOk
  <2>2. RequestsTyped'
      BY <1>1, <2>1, NameOfRequest, BeginTyped DEF RemoveMember, UpdateMemberRole
  <2>3. PICK role \in Role : role # "owner" /\ user' = [user EXCEPT ![p].role = role]
      BY DEF RemoveMember, UpdateMemberRole, Role, Given
  <2>4. user' \in [People -> User] /\ \A q \in People : user'[q].role = "owner" => q = Owner
    <3>1. [user[p] EXCEPT !.role = role] \in User /\ [user[p] EXCEPT !.role = role].role = role
        BY <2>1, <2>3 DEF User
    <3> QED BY <1>1, <2>3, <3>1 DEF RowsOk
  <2>5. session' \in [Names -> SessionRow] /\ resetToken' \in [Names -> ResetRow]
      BY <1>1, RowsTyped DEF RemoveMember, UpdateMemberRole, RowsOk
  <2> QED BY <1>1, <2>2, <2>4, <2>5 DEF IInv, RemoveMember, UpdateMemberRole, RowsOk
<1> QED BY <1>2, <1>3

LEMMA ProjectStep == ASSUME IInv, NEW r \in Requests, Projects(r) PROVE IInv'
<1>1. RequestsTyped /\ RowsOk
    BY DEF IInv
<1> USE DEF Ops, Steps
<1>2. CASE CreateProject(r) \/ CreateDemoProject(r) \/ RefuseDemoProject(r)
  <2>1. RequestsTyped'
      BY <1>1, <1>2, GotoTyped DEF CreateProject, CreateDemoProject, RefuseDemoProject
  <2> QED BY <1>1, <1>2, <2>1, NameOfRequest DEF IInv, CreateProject, CreateDemoProject, RefuseDemoProject, rowVars, RowsOk
<1>3. CASE \E c \in People : \/ CountProjects(r, c) \/ SeedDemo(r, c) \/ RemoveDemo(r, c)
                           \/ \E n \in Names : DeleteProject(r, c, n)
  <2> PICK c \in People : \/ CountProjects(r, c) \/ SeedDemo(r, c) \/ RemoveDemo(r, c)
                          \/ \E n \in Names : DeleteProject(r, c, n)
      BY <1>3
  <2>1. user[c] \in User /\ (user[c].role = "owner" => c = Owner)
      BY <1>1, RowFields DEF RowsOk
  <2>2. RequestsTyped'
      BY <1>1, <2>1, NameOfRequest, BeginTyped DEF CountProjects, SeedDemo, RemoveDemo, DeleteProject
  <2> QED BY <1>1, <2>2
          DEF IInv, CountProjects, SeedDemo, RemoveDemo, DeleteProject, rowVars, RowsOk
<1> QED BY <1>2, <1>3 DEF Projects

LEMMA OutsideStep ==
    ASSUME IInv, Tick \/ Restart \/ \E p \in People : AccessExpires(p)
    PROVE  IInv'
<1>1. RequestsTyped /\ RowsOk
    BY DEF IInv
<1>2. CASE Tick
    BY <1>1, <1>2, AccountsAssumption DEF IInv, RequestsTyped, RowsOk, Tick, rowVars
<1>3. CASE Restart
  <2> DEFINE y(r) == IF Running(r) THEN [request[r] EXCEPT !.pc = Stopped(r)] ELSE request[r]
  <2>1. \A r \in Requests : y(r) \in RequestRow /\ Carries(y(r))
      BY <1>1 DEF RequestsTyped, RequestRow, Carries, Steps, Stopped
  <2>2. request' = [r \in Requests |-> y(r)]
      BY <1>3 DEF Restart
  <2> HIDE DEF y
  <2>3. RequestsTyped'
      BY <1>1, <1>3, <2>1, <2>2, AccountsAssumption DEF RequestsTyped, Restart
  <2> QED BY <1>1, <1>3, <2>3 DEF IInv, RowsOk, Restart, rowVars
<1>4. CASE \E p \in People : AccessExpires(p)
    BY <1>1, <1>4 DEF IInv, RequestsTyped, RowsOk, AccessExpires, rowVars, Role
<1> QED BY <1>2, <1>3, <1>4

LEMMA NextIInv == IInv /\ [Next]_vars => IInv'
<1> SUFFICES ASSUME IInv, [Next]_vars PROVE IInv'
    OBVIOUS
<1>1. CASE UNCHANGED vars
    BY <1>1 DEF vars, rowVars, IInv, RequestsTyped, RowsOk
<1>2. ASSUME NEW r \in Requests, Sessions(r) \/ Membership(r) \/ Projects(r)
      PROVE  IInv'
  <2>1. CASE Membership(r)
      BY <2>1, InviteStep, MemberStep DEF Membership
  <2> QED BY <1>2, <2>1, MintStep, SessionStep, ProjectStep
<1> QED BY <1>1, <1>2, OutsideStep DEF Next

-----------------------------------------------------------------------------
(* Rows, tokens and what requests carry keep their types, whatever the     *)
(* order of the handlers' commands.                                        *)
THEOREM TypeCorrect == Spec => []TypeOK
BY InitIInv, NextIInv, ImpliesTypeOK, PTL DEF Spec

LEMMA RowKept ==
    ASSUME RowsOk, NEW p \in People, NEW q \in People, NEW k \in Nat,
           user' = user \/ user' = [user EXCEPT ![q] = [@ EXCEPT !.pw = k]]
    PROVE  user'[p].role = user[p].role
BY RowFields DEF RowsOk, User

LEMMA OwnerStep ==
    ASSUME IInv, Next, NEW p \in People, user[p].role = "owner"
    PROVE  user'[p].role # "none"
<1>1. RequestsTyped /\ RowsOk /\ p = Owner
    BY DEF IInv, RowsOk
<1>2. CASE user' = user
    BY <1>2
<1>3. ASSUME NEW r \in Requests, UpdateHash(r)
      PROVE  user'[p].role # "none"
    BY <1>1, <1>3, RequestFields, RowFields, RowKept DEF UpdateHash
<1>4. ASSUME NEW r \in Requests, CreateMember(r)
      PROVE  user'[p].role # "none"
    BY <1>1, <1>4, RequestFields DEF CreateMember, Member, RowsOk
<1>5. ASSUME NEW r \in Requests, NEW c \in People, NEW q \in People, RemoveMember(r, c, q)
      PROVE  user'[p].role # "none"
    BY <1>1, <1>5 DEF RemoveMember, MayRemove, RowsOk
<1>6. ASSUME NEW r \in Requests, NEW c \in People, NEW q \in People, NEW role \in Given,
             UpdateMemberRole(r, c, q, role)
      PROVE  user'[p].role # "none"
    BY <1>1, <1>6, RowFields DEF UpdateMemberRole, RowsOk, User, Given
<1>7. ASSUME NEW r \in Requests, Sessions(r), ~UpdateHash(r)
      PROVE  user' = user
    BY <1>7 DEF Sessions, Mint, Rotate, CreateResetToken, MarkUsed, RevokeAll, Login,
                ForgotPassword, Refresh, Logout, ResetPassword, rowVars
<1>8. ASSUME NEW r \in Requests, Membership(r)
      PROVE  user'[p].role # "none"
    BY <1>2, <1>4, <1>5, <1>6, <1>8
       DEF Membership, DeletePending, CreateInvite, NoSuchUser, MarkAccepted, AcceptInvite, Invite,
           rowVars
<1>9. ASSUME NEW r \in Requests, Projects(r)
      PROVE  user' = user
    BY <1>9 DEF Projects, CreateProject, CreateDemoProject, RefuseDemoProject, CountProjects, SeedDemo,
                RemoveDemo, DeleteProject, rowVars
<1>10. CASE Tick \/ Restart \/ \E q \in People : AccessExpires(q)
    BY <1>2, <1>10 DEF Tick, Restart, AccessExpires, rowVars
<1> QED BY <1>2, <1>3, <1>7, <1>8, <1>9, <1>10 DEF Next

(* removeMember and updateMemberRole against tokens that outlive a change  *)
(* of role: the owner's row is never removed, by anyone in any order.      *)
THEOREM OwnerStays == Spec => OwnerNeverRemoved
<1>1. IInv /\ [Next]_vars => [\A p \in People : user[p].role = "owner" => user'[p].role # "none"]_user
    BY OwnerStep DEF vars, rowVars
<1> QED BY InitIInv, NextIInv, <1>1, PTL DEF Spec, OwnerNeverRemoved

-----------------------------------------------------------------------------
(* What a step does to the requests: at most one of them moves, or begins; *)
(* one that begins overlaps those that run.                                *)
Moved(r) ==
    /\ overlap \subseteq overlap'
    /\ request[r].pc \notin {"done", "failed", "unmarked"} /\ request'[r].pc # "new"
    /\ \A q \in Requests : q # r => request'[q] = request[q]
    /\ IF request[r].pc = "new" THEN \A q \in Requests : Running(q) => {r, q} \in overlap'
       ELSE /\ request'[r].op = request[r].op
            /\ request'[r].who = request[r].who /\ request'[r].key = request[r].key

LEMMA BeginMoves ==
    ASSUME RequestsTyped, NEW r \in Requests, NEW op, NEW pc, NEW who, NEW key, NEW saw,
           Begin(r, op, pc, who, key, saw), pc # "new"
    PROVE  /\ Moved(r) /\ request[r].pc = "new"
           /\ request'[r].op = op /\ request'[r].pc = pc /\ request'[r].who = who
           /\ request'[r].key = key /\ request'[r].saw = saw
BY DEF RequestsTyped, Begin, Moved

LEMMA GotoMoves ==
    ASSUME RequestsTyped, NEW r \in Requests, NEW pc, Running(r), Goto(r, pc), pc # "new"
    PROVE  /\ Moved(r) /\ request'[r].pc = pc /\ request'[r].saw = request[r].saw
           /\ request'[r].op = request[r].op
           /\ request'[r].who = request[r].who /\ request'[r].key = request[r].key
BY DEF RequestsTyped, RequestRow, Goto, Moved, Running

LEMMA SessionsMoves ==
    ASSUME RequestsTyped, NEW r \in Requests, Sessions(r)
    PROVE  Moved(r)
<1>1. CASE Mint(r) \/ Rotate(r) \/ CreateResetToken(r) \/ MarkUsed(r) \/ RevokeAll(r)
    BY <1>1, GotoMoves DEF Mint, Rotate, CreateResetToken, MarkUsed, RevokeAll, At, Running
<1>2. CASE UpdateHash(r)
    BY <1>2 DEF UpdateHash, At, Running, Moved, RequestsTyped, RequestRow
<1>3. CASE \E p \in People : Login(r, p) \/ ForgotPassword(r, p)
    BY <1>3, BeginMoves DEF Login, ForgotPassword
<1>4. CASE \E n \in Names : Refresh(r, n)
    BY <1>4, BeginMoves DEF Refresh
<1>5. CASE \E n \in Names : Logout(r, n) \/ ResetPassword(r, n)
    BY <1>5, BeginMoves DEF Logout, ResetPassword
<1> QED BY <1>1, <1>2, <1>3, <1>4, <1>5 DEF Sessions

LEMMA MembershipMoves ==
    ASSUME RequestsTyped, NEW r \in Requests, Membership(r)
    PROVE  Moved(r)
<1>1. CASE DeletePending(r) \/ CreateInvite(r) \/ NoSuchUser(r) \/ MarkAccepted(r)
    BY <1>1, GotoMoves DEF DeletePending, CreateInvite, NoSuchUser, MarkAccepted, At, Running
<1>2. CASE CreateMember(r)
    BY <1>2, GotoMoves DEF CreateMember, At, Running, Moved, RequestsTyped, RequestRow
<1>3. CASE \/ \E n \in Names : AcceptInvite(r, n)
           \/ \E c, p \in People : \/ RemoveMember(r, c, p)
                                   \/ \E role \in Given : Invite(r, c, p, role) \/ UpdateMemberRole(r, c, p, role)
    BY <1>3, BeginMoves DEF AcceptInvite, RemoveMember, Invite, UpdateMemberRole
<1> QED BY <1>1, <1>2, <1>3 DEF Membership

LEMMA ProjectsMoves ==
    ASSUME RequestsTyped, NEW r \in Requests, Projects(r)
    PROVE  Moved(r)
<1>1. CASE CreateProject(r) \/ CreateDemoProject(r) \/ RefuseDemoProject(r)
    BY <1>1, GotoMoves DEF CreateProject, CreateDemoProject, RefuseDemoProject, At, Running
<1>2. CASE \E c \in People : \/ CountProjects(r, c) \/ SeedDemo(r, c) \/ RemoveDemo(r, c)
                           \/ \E n \in Names : DeleteProject(r, c, n)
    BY <1>2, BeginMoves DEF CountProjects, SeedDemo, RemoveDemo, DeleteProject
<1> QED BY <1>1, <1>2 DEF Projects
(* Which operations mint, and that a request is of none before it begins.  *)
Phased ==
    \A r \in Requests : /\ request[r].pc = "mint" => request[r].op \in {"login", "refresh", "accept"}
                        /\ request[r].pc = "new" => request[r].op = "none"

Acts(r) == Sessions(r) \/ Membership(r) \/ Projects(r)

(* What the request that moved did, in the terms the invariants need: the  *)
(* action that brings a request to each phase they speak about.            *)
Entered(r) ==
    /\ At(r, "project", "create")' => \E c \in People : CountProjects(r, c)
    /\ At(r, "invite", "create")' => DeletePending(r)
    /\ At(r, "accept", "mint")' => MarkAccepted(r)
    /\ At(r, "accept", "done")' => At(r, "accept", "mint")
    /\ request'[r].op = "accept" /\ request[r].op # "accept" => \E n \in Names : AcceptInvite(r, n)
    /\ request[r].op = "accept" =>
           \/ MarkAccepted(r) \/ request'[r].pc = "mark"
           \/ request'[r].saw = request[r].saw /\ request[r].pc # "mark"
    /\ At(r, "refresh", "mint")' => Rotate(r)
    /\ At(r, "refresh", "done")' => At(r, "refresh", "mint")
    /\ request'[r].op = "refresh" /\ request[r].op # "refresh" => \E n \in Names : Refresh(r, n)
    /\ At(r, "reset", "hash")' => \E n \in Names : ResetPassword(r, n)
    /\ At(r, "reset", "mark")' => UpdateHash(r)
    /\ At(r, "reset", "revoke")' => MarkUsed(r)
    /\ At(r, "reset", "done")' => RevokeAll(r)
    /\ request'[r].op = "reset" /\ request[r].op # "reset" => \E n \in Names : ResetPassword(r, n)
    /\ request'[r].pc = "mint" => \/ request'[r].op \in {"login", "refresh", "accept"}

LEMMA SessionsEnter ==
    ASSUME RequestsTyped, Phased, NEW r \in Requests, Sessions(r)
    PROVE  Entered(r)
<1>1. CASE Mint(r)
  <2>0. request[r].pc = "mint" /\ (Goto(r, "done") \/ Goto(r, "failed"))
      BY <1>1 DEF Mint
  <2>1. /\ request'[r].op = request[r].op /\ request'[r].pc \in {"done", "failed"}
        /\ request[r].pc = "mint" /\ request'[r].saw = request[r].saw
      BY <2>0, GotoMoves DEF Running
  <2>2. request[r].op \in {"login", "refresh", "accept"}
      BY <2>1 DEF Phased
  <2> QED BY <2>1, <2>2 DEF Entered, At
<1>2. CASE Rotate(r) \/ MarkUsed(r) \/ RevokeAll(r)
  <2>1. \/ Rotate(r) /\ request'[r].op = "refresh" /\ request'[r].pc = "mint"
        \/ /\ MarkUsed(r) /\ request'[r].op = "reset" /\ request[r].op = "reset"
           /\ request'[r].pc \in {"failed", "revoke"}
        \/ RevokeAll(r) /\ request'[r].op = "reset" /\ request'[r].pc = "done"
      BY <1>2, GotoMoves DEF Rotate, MarkUsed, RevokeAll, At, Running
  <2>2. request'[r].op = request[r].op
      BY <1>2, GotoMoves DEF Rotate, MarkUsed, RevokeAll, At, Running
  <2>3. request[r].op # "accept"
      BY <1>2 DEF Rotate, MarkUsed, RevokeAll, At
  <2> QED BY <2>1, <2>2, <2>3 DEF Entered, At
<1>3. CASE UpdateHash(r)
  <2>1. request'[r].op = "reset" /\ request[r].op = "reset" /\ request'[r].pc = "mark"
      BY <1>3 DEF UpdateHash, At, RequestsTyped, RequestRow
  <2> QED BY <1>3, <2>1 DEF Entered, At
<1>4. CASE \E p \in People : Login(r, p) \/ ForgotPassword(r, p)
    BY <1>4, BeginMoves DEF Entered, Login, ForgotPassword, At, Phased
<1>5. CASE CreateResetToken(r)
    BY <1>5, GotoMoves DEF Entered, CreateResetToken, At, Running
<1>6. CASE \E n \in Names : Refresh(r, n)
  <2>1. request'[r].op = "refresh" /\ request'[r].pc = "revoke"
      BY <1>6, BeginMoves DEF Refresh
  <2>2. request[r].op = "none"
      BY <1>6 DEF Refresh, Begin, Phased
  <2> QED BY <1>6, <2>1, <2>2 DEF Entered, At
<1>7. CASE \E n \in Names : Logout(r, n)
    BY <1>7, BeginMoves DEF Entered, Logout, At, Phased
<1>8. CASE \E n \in Names : ResetPassword(r, n)
  <2>1. request'[r].op = "reset" /\ request'[r].pc = "hash"
      BY <1>8, BeginMoves DEF ResetPassword
  <2>2. request[r].op = "none"
      BY <1>8 DEF ResetPassword, Begin, Phased
  <2> QED BY <1>8, <2>1, <2>2 DEF Entered, At
<1> QED BY <1>1, <1>2, <1>3, <1>4, <1>5, <1>6, <1>7, <1>8 DEF Sessions

LEMMA MembershipEnters ==
    ASSUME RequestsTyped, Phased, NEW r \in Requests, Membership(r)
    PROVE  Entered(r)
<1>1. CASE DeletePending(r) \/ CreateInvite(r) \/ NoSuchUser(r) \/ MarkAccepted(r)
  <2>1. \/ DeletePending(r) /\ request'[r].op = "invite" /\ request'[r].pc = "create"
        \/ request'[r].op = "invite" /\ request'[r].pc = "done"
        \/ /\ request'[r].op = "accept" /\ request'[r].pc \in {"failed", "create"}
           /\ request'[r].saw = request[r].saw /\ request[r].pc # "mark"
        \/ MarkAccepted(r) /\ request'[r].op = "accept" /\ request'[r].pc \in {"failed", "mint"}
      BY <1>1, GotoMoves DEF DeletePending, CreateInvite, NoSuchUser, MarkAccepted, At, Running
  <2>2. request'[r].op = request[r].op
      BY <1>1, GotoMoves DEF DeletePending, CreateInvite, NoSuchUser, MarkAccepted, At, Running
  <2> QED BY <2>1, <2>2 DEF Entered, At
<1>2. CASE CreateMember(r)
  <2>1. /\ request'[r].op = "accept" /\ request[r].op = "accept"
        /\ \/ request'[r].pc = "mark"
           \/ request'[r].pc = "failed" /\ request'[r].saw = request[r].saw /\ request[r].pc # "mark"
      BY <1>2, GotoMoves DEF CreateMember, At, Running, RequestsTyped, RequestRow
  <2> QED BY <2>1 DEF Entered, At
<1>3. CASE \E n \in Names : AcceptInvite(r, n)
  <2>1. request'[r].op = "accept" /\ request'[r].pc = "check"
      BY <1>3, BeginMoves DEF AcceptInvite
  <2>2. request[r].op = "none"
      BY <1>3 DEF AcceptInvite, Begin, Phased
  <2> QED BY <1>3, <2>1, <2>2 DEF Entered, At
<1>4. CASE \E c, p \in People : \/ RemoveMember(r, c, p)
                                \/ \E role \in Given : Invite(r, c, p, role) \/ UpdateMemberRole(r, c, p, role)
  <2>1. \/ request'[r].op \in {"remove", "role"} /\ request'[r].pc = "done"
        \/ request'[r].op = "invite" /\ request'[r].pc = "delete"
    <3> PICK c \in People, p \in People :
             RemoveMember(r, c, p) \/ \E role \in Given : Invite(r, c, p, role) \/ UpdateMemberRole(r, c, p, role)
        BY <1>4
    <3>1. CASE RemoveMember(r, c, p)
        BY <3>1, BeginMoves DEF RemoveMember
    <3>2. ASSUME NEW role \in Given, Invite(r, c, p, role)
          PROVE  request'[r].op = "invite" /\ request'[r].pc = "delete"
        BY <3>2, BeginMoves DEF Invite
    <3>3. ASSUME NEW role \in Given, UpdateMemberRole(r, c, p, role)
          PROVE  request'[r].op = "role" /\ request'[r].pc = "done"
        BY <3>3, BeginMoves DEF UpdateMemberRole
    <3> QED BY <3>1, <3>2, <3>3
  <2>2. request[r].op = "none"
      BY <1>4 DEF RemoveMember, Invite, UpdateMemberRole, Begin, Phased
  <2> QED BY <2>1, <2>2 DEF Entered, At
<1> QED BY <1>1, <1>2, <1>3, <1>4 DEF Membership

LEMMA ProjectsEnter ==
    ASSUME RequestsTyped, Phased, NEW r \in Requests, Projects(r)
    PROVE  Entered(r)
<1>1. CASE CreateProject(r) \/ CreateDemoProject(r) \/ RefuseDemoProject(r)
    BY <1>1, GotoMoves DEF Entered, CreateProject, CreateDemoProject, RefuseDemoProject, At, Running
<1>2. CASE \E c \in People : CountProjects(r, c)
  <2>1. request'[r].op = "project" /\ request'[r].pc = "create"
      BY <1>2, BeginMoves DEF CountProjects
  <2>2. request[r].op = "none"
      BY <1>2 DEF CountProjects, Begin, Phased
  <2> QED BY <1>2, <2>1, <2>2 DEF Entered, At
<1>3. CASE \E c \in People : SeedDemo(r, c)
  <2>1. request'[r].op = "seed" /\ request'[r].pc = "create"
      BY <1>3, BeginMoves DEF SeedDemo
  <2>2. request[r].op = "none"
      BY <1>3 DEF SeedDemo, Begin, Phased
  <2> QED BY <1>3, <2>1, <2>2 DEF Entered, At
<1>4. CASE \E c \in People : RemoveDemo(r, c) \/ \E n \in Names : DeleteProject(r, c, n)
  <2>1. request'[r].op \in {"unseed", "unproject"} /\ request'[r].pc = "done"
      BY <1>4, BeginMoves DEF RemoveDemo, DeleteProject
  <2>2. request[r].op = "none"
      BY <1>4 DEF RemoveDemo, DeleteProject, Begin, Phased
  <2> QED BY <2>1, <2>2 DEF Entered, At
<1> QED BY <1>1, <1>2, <1>3, <1>4 DEF Projects

(* What is left of Next: no row changes, and requests only fail.           *)
Quiet ==
    /\ UNCHANGED <<user, session, invite, resetToken, projects, overlap>>
    /\ \A q \in Requests : \/ request'[q] = request[q]
                           \/ Running(q) /\ request'[q] = [request[q] EXCEPT !.pc = Stopped(q)]

LEMMA NextCases ==
    ASSUME IInv, Phased, Next
    PROVE  \/ \E r \in Requests : Acts(r) /\ Moved(r) /\ Entered(r)
           \/ Quiet
<1>1. RequestsTyped
    BY DEF IInv
<1>2. CASE Tick \/ Restart \/ \E p \in People : AccessExpires(p)
    BY <1>2 DEF Tick, Restart, AccessExpires, Quiet, rowVars
<1> QED BY <1>1, <1>2, SessionsMoves, MembershipMoves, ProjectsMoves,
           SessionsEnter, MembershipEnters, ProjectsEnter DEF Next, Acts

LEMMA QuietRequests ==
    ASSUME IInv, Quiet
    PROVE  \A q \in Requests : /\ request'[q].op = request[q].op /\ request'[q].who = request[q].who
                               /\ request'[q].key = request[q].key /\ request'[q].saw = request[q].saw
                               /\ \/ request'[q].pc = request[q].pc
                                  \/ Running(q) /\ request'[q].pc = "failed" /\ ~At(q, "accept", "mark")
                                  \/ At(q, "accept", "mark") /\ request'[q].pc = "unmarked"
<1> SUFFICES ASSUME NEW q \in Requests
             PROVE  /\ request'[q].op = request[q].op /\ request'[q].who = request[q].who
                    /\ request'[q].key = request[q].key /\ request'[q].saw = request[q].saw
                    /\ \/ request'[q].pc = request[q].pc
                       \/ Running(q) /\ request'[q].pc = "failed" /\ ~At(q, "accept", "mark")
                       \/ At(q, "accept", "mark") /\ request'[q].pc = "unmarked"
    OBVIOUS
<1>1. CASE request'[q] = request[q]
    BY <1>1
<1>2. CASE Running(q) /\ request'[q] = [request[q] EXCEPT !.pc = Stopped(q)]
  <2>1. request[q] \in RequestRow
      BY DEF IInv, RequestsTyped
  <2>2. /\ request'[q].op = request[q].op /\ request'[q].who = request[q].who
        /\ request'[q].key = request[q].key /\ request'[q].saw = request[q].saw
        /\ request'[q].pc = Stopped(q)
      BY <1>2, <2>1 DEF RequestRow
  <2>3. CASE At(q, "accept", "mark")
      BY <2>2, <2>3 DEF Stopped
  <2>4. CASE ~At(q, "accept", "mark")
      BY <1>2, <2>2, <2>4 DEF Stopped
  <2> QED BY <2>3, <2>4
<1> QED BY <1>1, <1>2 DEF Quiet

(* The same, without what stopped where.                                   *)
LEMMA QuietPlain ==
    ASSUME IInv, Quiet
    PROVE  \A q \in Requests : /\ request'[q].op = request[q].op /\ request'[q].who = request[q].who
                               /\ request'[q].key = request[q].key /\ request'[q].saw = request[q].saw
                               /\ \/ request'[q].pc \in {request[q].pc, "failed"}
                                  \/ request[q].op = "accept" /\ request'[q].pc = "unmarked"
BY QuietRequests DEF At

LEMMA PhasedStep == ASSUME IInv, Phased, Next PROVE Phased'
<1>1. ASSUME NEW r \in Requests, Moved(r), Entered(r) PROVE Phased'
    BY <1>1 DEF Phased, Moved, Entered
<1>2. CASE Quiet
    BY <1>2, QuietRequests DEF Phased
<1> QED BY <1>1, <1>2, NextCases

(* Requests that run at the same time are in "overlap", and stay there.    *)
Together == \A a, b \in Requests : a # b /\ Running(a) /\ Running(b) => Overlapped(a, b)

LEMMA TogetherStep == ASSUME IInv, Phased, Together, Next PROVE Together'
<1>1. ASSUME NEW r \in Requests, Moved(r) PROVE Together'
  <2> SUFFICES ASSUME NEW a \in Requests, NEW b \in Requests, a # b, Running(a)', Running(b)'
               PROVE  {a, b} \in overlap'
      BY DEF Together, Overlapped
  <2>1. CASE a # r /\ b # r
      BY <1>1, <2>1 DEF Moved, Together, Overlapped, Running
  <2>2. CASE request[r].pc # "new"
    <3>1. Running(a) /\ Running(b)
        BY <1>1, <2>2 DEF Moved, Running
    <3> QED BY <1>1, <3>1 DEF Moved, Together, Overlapped
  <2>3. CASE request[r].pc = "new" /\ (a = r \/ b = r)
    <3>1. {a, b} = {b, a}
        OBVIOUS
    <3> QED BY <1>1, <2>3, <3>1 DEF Moved, Running
  <2> QED BY <2>1, <2>2, <2>3
<1>2. CASE Quiet
    BY <1>2, QuietRequests DEF Quiet, Together, Overlapped, Running
<1> QED BY <1>1, <1>2, NextCases

(* A request still on its way, together with one that acts now.            *)
LEMMA OverlappedBoth == ASSUME NEW a, NEW b PROVE Overlapped(a, b) <=> Overlapped(b, a)
<1>1. {a, b} = {b, a}
    OBVIOUS
<1> QED BY <1>1 DEF Overlapped

-----------------------------------------------------------------------------
(* The quota.                                                              *)

Apart(S) == \A m, n \in S : m # n => ~Overlapped(m, n)
Counted == projects \ DemoProjects
Beside(r) == {n \in Counted : ~Overlapped(n, r)}

(* Projects that do not overlap respect the quota, and a request about to  *)
(* create one has counted all those it does not overlap.                   *)
QuotaInv ==
    /\ IsFiniteSet(projects)
    /\ \A n \in projects : n \in Requests /\ request[n].pc = "done"
    /\ \A S \in SUBSET Counted : Apart(S) => Cardinality(S) <= MaxProjects
    /\ \A r \in Requests : At(r, "project", "create") => Cardinality(Beside(r)) < MaxProjects
    /\ \A m, n \in DemoProjects : m = n

LEMMA CountedFinite ==
    ASSUME QuotaInv
    PROVE  /\ IsFiniteSet(Counted) /\ Cardinality(Counted) \in Nat
           /\ Cardinality(projects) \in Nat /\ Cardinality(Counted) <= Cardinality(projects)
<1>1. Counted \subseteq projects /\ IsFiniteSet(projects)
    BY DEF Counted, QuotaInv
<1> QED BY <1>1, FS_Subset, FS_CardinalityType

(* Projects keep their kind.                                               *)
LEMMA KindsKept ==
    ASSUME QuotaInv, \A q \in Requests : request[q].pc = "done" => request'[q] = request[q]
    PROVE  /\ \A n \in projects : request'[n].pc = "done"
           /\ \A n \in projects : n \in projects' => (n \in DemoProjects' <=> n \in DemoProjects)
           /\ \A n \in projects : n \in projects' => (n \in Counted' <=> n \in Counted)
BY DEF QuotaInv, DemoProjects, Counted, OfDemo

LEMMA QuotaKept ==
    ASSUME QuotaInv, projects' \subseteq projects, overlap \subseteq overlap',
           \A q \in Requests : request[q].pc = "done" => request'[q] = request[q],
           \A q \in Requests : At(q, "project", "create")' =>
              At(q, "project", "create") \/ Cardinality(projects) < MaxProjects
    PROVE  QuotaInv'
<1>1. IsFiniteSet(projects)'
    BY FS_Subset DEF QuotaInv
<1>2. /\ Counted' \subseteq Counted /\ DemoProjects' \subseteq DemoProjects
      /\ \A n \in projects' : n \in Requests /\ request'[n].pc = "done"
  <2>1. Counted' \subseteq projects' /\ DemoProjects' \subseteq projects'
      BY DEF Counted, DemoProjects
  <2> QED BY <2>1, KindsKept DEF QuotaInv
<1>3. ASSUME NEW S \in SUBSET Counted', Apart(S)'
      PROVE  Cardinality(S) <= MaxProjects
  <2>1. Apart(S) /\ S \in SUBSET Counted
      BY <1>2, <1>3 DEF Apart, Overlapped
  <2> QED BY <2>1 DEF QuotaInv
<1>4. ASSUME NEW q \in Requests, At(q, "project", "create")'
      PROVE  Cardinality(Beside(q)') < MaxProjects
  <2>1. Beside(q)' \subseteq Beside(q) /\ Beside(q) \subseteq Counted
      BY <1>2 DEF Beside, Overlapped
  <2>2. /\ IsFiniteSet(Beside(q)) /\ Cardinality(Beside(q)') <= Cardinality(Beside(q))
        /\ Cardinality(Beside(q)) <= Cardinality(Counted) /\ Cardinality(Counted) <= Cardinality(projects)
      BY <2>1, FS_Subset, CountedFinite
  <2>3. /\ Cardinality(Beside(q)') \in Nat /\ Cardinality(Beside(q)) \in Nat
        /\ Cardinality(Counted) \in Nat /\ Cardinality(projects) \in Nat
      BY <2>1, <2>2, FS_Subset, FS_CardinalityType, CountedFinite
  <2>4. Cardinality(Beside(q)) < MaxProjects \/ Cardinality(projects) < MaxProjects
      BY <1>4 DEF QuotaInv
  <2> QED BY <2>2, <2>3, <2>4, AccountsAssumption
<1>5. \A m, n \in DemoProjects' : m = n
    BY <1>2 DEF QuotaInv
<1> QED BY <1>1, <1>2, <1>3, <1>4, <1>5 DEF QuotaInv

(* A step of a request that creates a project.                             *)
LEMMA Creates ==
    ASSUME IInv, Together, QuotaInv, NEW r \in Requests, Moved(r),
           CreateProject(r) \/ CreateDemoProject(r)
    PROVE  /\ projects' = projects \cup {r} /\ overlap' = overlap
           /\ IsFiniteSet(projects')
           /\ \A n \in projects' : n \in Requests /\ request'[n].pc = "done"
           /\ CreateProject(r) => Counted' = Counted \cup {r} /\ DemoProjects' = DemoProjects
           /\ CreateDemoProject(r) => Counted' = Counted /\ DemoProjects' = DemoProjects \cup {r}
           /\ \A q \in Requests, op \in Ops :
                 At(q, op, "create")' => q # r /\ At(q, op, "create") /\ Overlapped(r, q)
<1>1. projects' = projects \cup {r} /\ overlap' = overlap
    BY DEF CreateProject, CreateDemoProject, Goto
<1>2. /\ request'[r].pc = "done" /\ request'[r].op = request[r].op /\ request[r].pc = "create"
      /\ CreateProject(r) => request[r].op = "project"
      /\ CreateDemoProject(r) => request[r].op = "seed"
    BY GotoMoves DEF CreateProject, CreateDemoProject, At, Running, IInv
<1>3. \A q \in Requests : q # r => request'[q] = request[q]
    BY DEF Moved
<1>4. \A q \in Requests : request[q].pc = "done" => request'[q] = request[q]
    BY <1>2, <1>3
<1>5. IsFiniteSet(projects')
    BY <1>1, FS_AddElement DEF QuotaInv
<1>6. \A n \in projects' : n \in Requests /\ request'[n].pc = "done"
    BY <1>1, <1>2, <1>4, KindsKept DEF QuotaInv
<1>7. r \notin projects
    BY <1>2 DEF QuotaInv
<1>8. /\ \A n \in projects : n \in DemoProjects' <=> n \in DemoProjects
      /\ \A n \in projects : n \in Counted' <=> n \in Counted
    BY <1>1, <1>4, KindsKept
<1>9. /\ CreateProject(r) => r \notin DemoProjects' /\ r \in Counted'
      /\ CreateDemoProject(r) => r \in DemoProjects' /\ r \notin Counted'
    BY <1>1, <1>2 DEF DemoProjects, OfDemo, Counted
<1>10. /\ Counted' \subseteq projects' /\ DemoProjects' \subseteq projects'
       /\ Counted \subseteq projects /\ DemoProjects \subseteq projects
    BY DEF Counted, DemoProjects
<1>11. /\ CreateProject(r) => Counted' = Counted \cup {r} /\ DemoProjects' = DemoProjects
       /\ CreateDemoProject(r) => Counted' = Counted /\ DemoProjects' = DemoProjects \cup {r}
    BY <1>1, <1>7, <1>8, <1>9, <1>10
<1>12. ASSUME NEW q \in Requests, NEW op \in Ops, At(q, op, "create")'
       PROVE  q # r /\ At(q, op, "create") /\ Overlapped(r, q)
  <2>1. q # r /\ At(q, op, "create")
      BY <1>2, <1>3, <1>12 DEF At
  <2> QED BY <1>2, <2>1 DEF Together, Running, At
<1> QED BY <1>1, <1>5, <1>6, <1>11, <1>12

LEMMA QuotaCreate ==
    ASSUME IInv, Together, QuotaInv, NEW r \in Requests, CreateProject(r), Moved(r)
    PROVE  QuotaInv'
<1>1. /\ Counted' = Counted \cup {r} /\ DemoProjects' = DemoProjects /\ overlap' = overlap
      /\ At(r, "project", "create")
    BY Creates DEF CreateProject
<1>2. IsFiniteSet(Counted) /\ IsFiniteSet(Counted')
    BY <1>1, FS_AddElement, CountedFinite
<1>3. ASSUME NEW S \in SUBSET Counted', Apart(S)', r \in S
      PROVE  Cardinality(S) <= MaxProjects
  <2>1. S \ {r} \subseteq Beside(r)
      BY <1>1, <1>3 DEF Apart, Beside, Overlapped
  <2>2. IsFiniteSet(Beside(r)) /\ IsFiniteSet(S)
      BY <1>2, FS_Subset DEF Beside
  <2>3. Cardinality(S \ {r}) <= Cardinality(Beside(r)) /\ Cardinality(S \ {r}) = Cardinality(S) - 1
      BY <2>1, <2>2, <1>3, FS_Subset, FS_RemoveElement
  <2>4. Cardinality(Beside(r)) \in Nat /\ Cardinality(S) \in Nat
      BY <2>2, FS_CardinalityType
  <2> QED BY <1>1, <2>3, <2>4, AccountsAssumption DEF QuotaInv
<1>4. ASSUME NEW S \in SUBSET Counted', Apart(S)', r \notin S
      PROVE  Cardinality(S) <= MaxProjects
    BY <1>1, <1>4 DEF QuotaInv, Apart, Overlapped
<1>5. ASSUME NEW q \in Requests, At(q, "project", "create")'
      PROVE  Cardinality(Beside(q)') < MaxProjects
  <2>1. At(q, "project", "create") /\ Overlapped(r, q)
      BY <1>5, Creates DEF Ops
  <2>2. Beside(q)' = Beside(q)
      BY <1>1, <2>1 DEF Beside, Overlapped
  <2> QED BY <2>1, <2>2 DEF QuotaInv
<1>6. \A m, n \in DemoProjects' : m = n
    BY <1>1 DEF QuotaInv
<1> QED BY <1>3, <1>4, <1>5, <1>6, Creates DEF QuotaInv

LEMMA QuotaSeed ==
    ASSUME IInv, Together, QuotaInv, NEW r \in Requests, CreateDemoProject(r), Moved(r)
    PROVE  QuotaInv'
<1>1. /\ Counted' = Counted /\ DemoProjects' = DemoProjects \cup {r} /\ overlap' = overlap
      /\ At(r, "seed", "create")
    BY Creates DEF CreateDemoProject
<1>2. \A S \in SUBSET Counted' : Apart(S)' => Cardinality(S) <= MaxProjects
    BY <1>1 DEF QuotaInv, Apart, Overlapped
<1>3. ASSUME NEW q \in Requests, At(q, "project", "create")'
      PROVE  Cardinality(Beside(q)') < MaxProjects
  <2>1. At(q, "project", "create")
      BY <1>3, Creates DEF Ops
  <2>2. Beside(q)' = Beside(q)
      BY <1>1 DEF Beside, Overlapped
  <2> QED BY <2>1, <2>2 DEF QuotaInv
<1>4. \A m, n \in DemoProjects' : m = n
    BY <1>1 DEF CreateDemoProject
<1> QED BY <1>2, <1>3, <1>4, Creates DEF QuotaInv

LEMMA QuotaStep == ASSUME IInv, Phased, Together, QuotaInv, Next PROVE QuotaInv'
<1>1. ASSUME NEW r \in Requests, Acts(r), Moved(r), Entered(r),
             ~CreateProject(r), ~CreateDemoProject(r)
      PROVE  QuotaInv'
  <2>1. projects' \subseteq projects
    <3>1. CASE Sessions(r)
        BY <3>1 DEF Sessions, Mint, Rotate, CreateResetToken, UpdateHash, MarkUsed, RevokeAll,
                    Login, ForgotPassword, Refresh, Logout, ResetPassword, rowVars
    <3>2. CASE Membership(r)
        BY <3>2 DEF Membership, DeletePending, CreateInvite, NoSuchUser, CreateMember, MarkAccepted,
                    AcceptInvite, RemoveMember, Invite, UpdateMemberRole, rowVars
    <3>3. CASE Projects(r)
        BY <1>1, <3>3 DEF Projects, RefuseDemoProject, CountProjects, SeedDemo, RemoveDemo, DeleteProject, rowVars
    <3> QED BY <1>1, <3>1, <3>2, <3>3 DEF Acts
  <2>2. ASSUME NEW q \in Requests, At(q, "project", "create")', ~At(q, "project", "create")
        PROVE  Cardinality(projects) < MaxProjects
    <3>1. q = r
        BY <1>1, <2>2 DEF Moved, At
    <3> QED BY <1>1, <2>2, <3>1 DEF Entered, CountProjects, BelowQuota
  <2>3. \A q \in Requests : request[q].pc = "done" => request'[q] = request[q]
      BY <1>1 DEF Moved
  <2> QED BY <1>1, <2>1, <2>2, <2>3, QuotaKept DEF Moved
<1>2. CASE Quiet
  <2>1. \A q \in Requests, op \in Ops : At(q, op, "create")' => At(q, op, "create")
      BY <1>2, QuietRequests DEF At
  <2>2. \A q \in Requests : request[q].pc = "done" => request'[q] = request[q]
      BY <1>2 DEF Quiet, Running
  <2> QED BY <1>2, <2>1, <2>2, QuotaKept DEF Quiet, Ops
<1> QED BY <1>1, <1>2, NextCases, QuotaCreate, QuotaSeed

-----------------------------------------------------------------------------
(* Invites.                                                                *)

Pending(n, p) == invite[n].state = "pending" /\ invite[n].of = p

(* A request about to create an invite has withdrawn every other one of    *)
(* its address, except those that were made while it ran.                  *)
InviteInv ==
    /\ InviteSupersedes
    /\ \A r \in Requests, n \in Names :
          At(r, "invite", "create") /\ Pending(n, request[r].who) => Overlapped(n, r)

LEMMA InvitesUnchanged ==
    ASSUME NEW r \in Requests, Acts(r), ~DeletePending(r), ~CreateInvite(r), ~MarkAccepted(r)
    PROVE  invite' = invite
<1>1. CASE Sessions(r)
    BY <1>1 DEF Sessions, Mint, Rotate, CreateResetToken, UpdateHash, MarkUsed, RevokeAll,
                Login, ForgotPassword, Refresh, Logout, ResetPassword, rowVars
<1>2. CASE Membership(r)
    BY <1>2 DEF Membership, NoSuchUser, CreateMember,
                AcceptInvite, RemoveMember, Invite, UpdateMemberRole, rowVars
<1>3. CASE Projects(r)
    BY <1>3 DEF Projects, CreateProject, CreateDemoProject, RefuseDemoProject, CountProjects, SeedDemo,
                RemoveDemo, DeleteProject, rowVars
<1> QED BY <1>1, <1>2, <1>3 DEF Acts

LEMMA InvitesKept ==
    ASSUME InviteInv, overlap \subseteq overlap',
           \A n \in Names : \A p : Pending(n, p)' => Pending(n, p),
           \A q \in Requests : At(q, "invite", "create")' =>
              \/ At(q, "invite", "create") /\ request'[q].who = request[q].who
              \/ \A n \in Names : ~Pending(n, request[q].who)'
    PROVE  InviteInv'
<1>1. InviteSupersedes'
    BY DEF InviteInv, InviteSupersedes, Overlapped, Pending
<1>2. ASSUME NEW q \in Requests, NEW n \in Names, At(q, "invite", "create")', Pending(n, request[q].who)'
      PROVE  Overlapped(n, q)'
    BY <1>2 DEF InviteInv, Overlapped
<1> QED BY <1>1, <1>2 DEF InviteInv

LEMMA InviteCreate ==
    ASSUME IInv, Together, InviteInv, NEW r \in Requests, CreateInvite(r), Moved(r)
    PROVE  InviteInv'
<1> DEFINE row == [state |-> "pending", of |-> request[r].who, role |-> request[r].saw.role]
<1>1. invite' = [invite EXCEPT ![r] = row] /\ overlap' = overlap /\ At(r, "invite", "create")
    BY DEF CreateInvite, Goto
<1>2. invite \in [Names -> InviteRow] /\ r \in Names
    BY NameOfRequest DEF IInv, RowsOk
<1>3. \A n \in Names : n # r => invite'[n] = invite[n]
    BY <1>1, <1>2
<1>4. invite'[r].of = request[r].who
    BY <1>1, <1>2
<1>5. InviteSupersedes'
  <2> SUFFICES ASSUME NEW m \in Names, NEW n \in Names, m # n,
                      (invite[m].state = "pending" /\ invite[n].state = "pending"
                       /\ invite[m].of = invite[n].of)'
               PROVE  Overlapped(m, n)
      BY <1>1 DEF InviteSupersedes, Overlapped
  <2>1. CASE m = r
      BY <1>1, <1>3, <1>4, <2>1, OverlappedBoth DEF InviteInv, Pending
  <2>2. CASE n = r
      BY <1>1, <1>3, <1>4, <2>2, OverlappedBoth DEF InviteInv, Pending
  <2> QED BY <1>3, <2>1, <2>2 DEF InviteInv, InviteSupersedes
<1>6. ASSUME NEW q \in Requests, NEW n \in Names, At(q, "invite", "create")', Pending(n, request[q].who)'
      PROVE  Overlapped(n, q)
  <2>1. q # r /\ At(q, "invite", "create") /\ request'[q] = request[q]
      BY <1>6, GotoMoves DEF CreateInvite, At, Running, Moved, IInv
  <2>2. CASE n = r
      BY <1>1, <2>1, <2>2 DEF Together, Running, At
  <2> QED BY <1>3, <1>6, <2>1, <2>2 DEF InviteInv, Pending
<1> QED BY <1>1, <1>5, <1>6 DEF InviteInv, Overlapped

LEMMA InviteInvStep == ASSUME IInv, Phased, Together, InviteInv, Next PROVE InviteInv'
<1>1. ASSUME NEW r \in Requests, Acts(r), Moved(r), Entered(r), ~CreateInvite(r)
      PROVE  InviteInv'
  <2>1. ASSUME NEW n \in Names, NEW p, Pending(n, p)'
        PROVE  Pending(n, p)
    <3>1. invite[n] \in InviteRow
        BY DEF IInv, RowsOk
    <3>2. CASE DeletePending(r)
        BY <2>1, <3>2 DEF DeletePending, Pending, NoToken
    <3>3. CASE MarkAccepted(r)
      <4>1. invite'[n] = invite[n] \/ invite'[n].state = "accepted"
          BY <3>3 DEF MarkAccepted, IInv, RowsOk, InviteRow
      <4> QED BY <2>1, <4>1 DEF Pending
    <3> QED BY <1>1, <2>1, <3>2, <3>3, InvitesUnchanged DEF Pending
  <2>2. ASSUME NEW q \in Requests, At(q, "invite", "create")'
        PROVE  \/ At(q, "invite", "create") /\ request'[q].who = request[q].who
               \/ \A n \in Names : ~Pending(n, request[q].who)'
    <3>1. CASE q # r
        BY <1>1, <2>2, <3>1 DEF Moved, At
    <3>2. CASE q = r
      <4>1. DeletePending(r) /\ request[r].pc = "delete"
          BY <1>1, <2>2, <3>2 DEF Entered, DeletePending, At
      <4>2. request'[r].who = request[r].who
          BY <1>1, <4>1 DEF Moved
      <4> QED BY <3>2, <4>1, <4>2 DEF DeletePending, Pending, NoToken
    <3> QED BY <3>1, <3>2
  <2> QED BY <1>1, <2>1, <2>2, InvitesKept DEF Moved
<1>2. CASE Quiet
  <2>1. \A q \in Requests : At(q, "invite", "create")' =>
           At(q, "invite", "create") /\ request'[q].who = request[q].who
      BY <1>2, QuietRequests DEF At
  <2> QED BY <1>2, <2>1, InvitesKept DEF Quiet, Pending
<1> QED BY <1>1, <1>2, NextCases, InviteCreate

-----------------------------------------------------------------------------
(* Accepting an invite.  A name that is over names a row that has been     *)
(* made, and is not made again.                                            *)

Past == {Seed} \cup {r \in Requests : request[r].pc = "done"}

(* The requests that have joined with an invite and marked it, or may.     *)
Joining(r) == /\ request[r].op = "accept" /\ request[r].pc # "unmarked"
              /\ Joined(r) \/ request[r].pc # "failed"

(* Two requests that accept one invite overlap: the invite was pending     *)
(* when the later one began, so the earlier one had not marked it.         *)
AcceptInv ==
    /\ \A n \in Names : invite[n].state # "none" => n \in Past
    /\ \A r \in Requests : request[r].op = "accept" =>
          /\ request[r].key \in Past
          /\ request[r].pc \in {"mint", "done"} => invite[request[r].key].state = "accepted"
          /\ Joined(r) /\ request[r].pc \notin {"mark", "unmarked"} =>
                 invite[request[r].key].state # "pending"
    /\ \A a, b \in Requests :
          a # b /\ Joining(a) /\ Joining(b) /\ request[a].key = request[b].key => Overlapped(a, b)

LEMMA OverKept ==
    ASSUME IInv, NEW r \in Requests, Moved(r)
    PROVE  Past \subseteq Past'
BY DEF Past, Moved

LEMMA OverKeptQuiet ==
    ASSUME IInv, Quiet
    PROVE  Past \subseteq Past'
BY DEF Past, Quiet, Running

LEMMA AcceptInvStep == ASSUME IInv, Phased, Together, AcceptInv, Next PROVE AcceptInv'
<1>0. RequestsTyped /\ RowsOk
    BY DEF IInv
<1>1. ASSUME NEW r \in Requests, Acts(r), Moved(r), Entered(r)
      PROVE  AcceptInv'
  <2>0. Past \subseteq Past'
      BY <1>1, OverKept
  <2>1. ASSUME NEW n \in Names
        PROVE  /\ invite[n].state = "accepted" => invite'[n].state = "accepted"
               /\ n \in Past /\ invite[n].state # "pending" => invite'[n].state # "pending"
               /\ invite'[n].state # "none" => invite[n].state # "none" \/ (n = r /\ CreateInvite(r))
    <3>1. invite \in [Names -> InviteRow]
        BY <1>0 DEF RowsOk
    <3>2. CASE DeletePending(r)
        BY <3>1, <3>2 DEF DeletePending, NoToken
    <3>3. CASE MarkAccepted(r)
      <4>1. invite[n] \in InviteRow
          BY <3>1
      <4> QED BY <3>1, <3>3, <4>1 DEF MarkAccepted, InviteRow
    <3>4. CASE CreateInvite(r)
      <4>1. \A m \in Names : m # r => invite'[m] = invite[m]
          BY <3>1, <3>4 DEF CreateInvite
      <4>2. invite[r].state = "none" /\ r \notin Past
        <5>1. r \notin Past
            BY <3>4, AccountsAssumption DEF CreateInvite, At, Past
        <5> QED BY <5>1, NameOfRequest DEF AcceptInv
      <4> QED BY <3>4, <4>1, <4>2
    <3> QED BY <1>1, <3>2, <3>3, <3>4, InvitesUnchanged
  <2>2. ASSUME NEW n \in Names, invite'[n].state # "none"
        PROVE  n \in Past'
    <3>1. CASE n = r /\ CreateInvite(r)
        BY <3>1, <1>0, GotoMoves DEF CreateInvite, Past, At, Running
    <3> QED BY <2>0, <2>1, <2>2, <3>1 DEF AcceptInv
  <2>3. ASSUME NEW q \in Requests, request'[q].op = "accept"
        PROVE  /\ request'[q].key \in Past'
               /\ request'[q].pc \in {"mint", "done"} => invite'[request'[q].key].state = "accepted"
               /\ Joined(q)' /\ request'[q].pc \notin {"mark", "unmarked"} =>
                      invite'[request'[q].key].state # "pending"
    <3>1. CASE q # r
        BY <1>1, <2>0, <2>1, <2>3, <3>1, <1>0, RequestFields DEF Moved, AcceptInv, Joined
    <3>2. CASE q = r /\ request[r].op # "accept"
      <4> PICK n \in Names : AcceptInvite(r, n)
          BY <1>1, <2>3, <3>2 DEF Entered
      <4>1. /\ request'[r].key = n /\ request'[r].pc = "check" /\ n \in Past
            /\ request'[r].saw.id = Seed
          BY <1>0, BeginMoves DEF AcceptInvite, AcceptInv
      <4> QED BY <2>0, <3>2, <4>1, AccountsAssumption DEF Joined
    <3>3. CASE q = r /\ request[r].op = "accept"
      <4> DEFINE n == request[r].key
      <4>1. request[r].pc # "new" /\ n \in Names
          BY <3>3, <1>0, RequestFields DEF Phased
      <4>2. request'[r].key = n /\ n \in Past'
          BY <1>1, <2>0, <3>3, <4>1 DEF Moved, AcceptInv
      <4>3. CASE request'[r].pc = "mint"
        <5>1. MarkAccepted(r)
            BY <1>1, <2>3, <3>3, <4>3 DEF Entered, At
        <5>2. invite' = [invite EXCEPT ![n].state = "accepted"]
            BY <4>3, <5>1, <1>0, GotoMoves DEF MarkAccepted, At, Running
        <5>3. invite'[n].state = "accepted"
            BY <1>0, <4>1, <5>2 DEF RowsOk, InviteRow
        <5> QED BY <3>3, <4>2, <5>3
      <4>4. CASE request'[r].pc = "done"
        <5>1. At(r, "accept", "mint")
            BY <1>1, <2>3, <3>3, <4>4 DEF Entered, At
        <5> QED BY <2>1, <3>3, <4>1, <4>2, <5>1 DEF AcceptInv, At
      <4>5. ASSUME Joined(r)', request'[r].pc \notin {"mark", "unmarked"}
            PROVE  invite'[n].state # "pending"
        <5>1. CASE MarkAccepted(r)
          <6>1. invite'[n].state = "accepted" \/ invite'[n].state = "none"
              BY <1>0, <4>1, <5>1 DEF MarkAccepted, RowsOk, InviteRow
          <6> QED BY <6>1
        <5>2. CASE request'[r].saw = request[r].saw /\ request[r].pc # "mark"
          <6>1. Joined(r) /\ request[r].pc # "unmarked"
              BY <1>1, <3>3, <4>5, <5>2 DEF Joined, Moved
          <6>2. n \in Past /\ invite[n].state # "pending"
              BY <3>3, <5>2, <6>1 DEF AcceptInv
          <6> QED BY <2>1, <4>1, <6>2
        <5> QED BY <1>1, <3>3, <4>5, <5>1, <5>2 DEF Entered
      <4> QED BY <3>3, <4>2, <4>3, <4>4, <4>5
    <3> QED BY <3>1, <3>2, <3>3
  <2>4. ASSUME NEW b \in Requests, b # r, Joining(r)', Joining(b)', request'[r].key = request'[b].key
        PROVE  Overlapped(r, b)'
    <3>1. Joining(b) /\ request'[b] = request[b]
        BY <1>1, <2>4 DEF Moved, Joining, Joined
    <3>2. CASE request[r].op = "accept"
      <4>1. Joining(r) /\ request'[r].key = request[r].key
          BY <1>1, <3>2 DEF Moved, Joining, Phased
      <4> QED BY <1>1, <2>4, <3>1, <4>1 DEF Moved, AcceptInv, Overlapped
    <3>3. CASE request[r].op # "accept"
      <4> PICK n \in Names : AcceptInvite(r, n)
          BY <1>1, <2>4, <3>3 DEF Entered, Joining
      <4>1. request'[r].key = n /\ invite[n].state = "pending" /\ request[r].pc = "new"
          BY <1>0, BeginMoves DEF AcceptInvite
      <4>2. request[b].pc \notin {"new", "done", "failed", "unmarked"}
          BY <2>4, <3>1, <4>1 DEF AcceptInv, Joining, Phased
      <4> QED BY <1>1, <4>1, <4>2 DEF Moved, Running, Overlapped
    <3> QED BY <3>2, <3>3
  <2>5. ASSUME NEW a \in Requests, NEW b \in Requests, a # b, Joining(a)', Joining(b)',
               request'[a].key = request'[b].key
        PROVE  Overlapped(a, b)'
    <3>1. CASE a = r
        BY <2>4, <2>5, <3>1
    <3>2. CASE b = r
      <4>1. Overlapped(b, a)'
          BY <2>4, <2>5, <3>2
      <4> QED BY <4>1, OverlappedBoth DEF Overlapped
    <3>3. CASE a # r /\ b # r
        BY <1>1, <2>5, <3>3 DEF Moved, AcceptInv, Joining, Joined, Overlapped
    <3> QED BY <3>1, <3>2, <3>3
  <2> QED BY <2>2, <2>3, <2>5 DEF AcceptInv
<1>2. CASE Quiet
  <2>1. invite' = invite /\ overlap' = overlap /\ Past \subseteq Past'
      BY <1>2, OverKeptQuiet DEF Quiet
  <2>2. \A q \in Requests : /\ request'[q].op = request[q].op /\ request'[q].key = request[q].key
                            /\ Joined(q)' = Joined(q)
      BY <1>2, QuietRequests DEF Joined
  <2>3. \A q \in Requests : Joining(q)' => Joining(q)
    <3> SUFFICES ASSUME NEW q \in Requests, Joining(q)' PROVE Joining(q)
      OBVIOUS
    <3>1. CASE request'[q].pc = request[q].pc
        BY <2>2, <3>1 DEF Joining
    <3>2. CASE Running(q) /\ request'[q].pc = "failed"
        BY <2>2, <3>2 DEF Joining, Running
    <3>3. CASE request'[q].pc = "unmarked"
        BY <3>3 DEF Joining
    <3> QED BY <1>2, <3>1, <3>2, <3>3, QuietRequests
  <2>4. ASSUME NEW q \in Requests, request'[q].op = "accept"
        PROVE  /\ request'[q].pc \in {"mint", "done"} => invite'[request'[q].key].state = "accepted"
               /\ Joined(q)' /\ request'[q].pc \notin {"mark", "unmarked"} =>
                      invite'[request'[q].key].state # "pending"
    <3>1. CASE request'[q].pc = request[q].pc
        BY <2>1, <2>2, <2>4, <3>1 DEF AcceptInv
    <3>2. CASE request'[q].pc = "failed" /\ Running(q) /\ ~At(q, "accept", "mark")
        BY <2>1, <2>2, <2>4, <3>2 DEF AcceptInv, Running, At
    <3>3. CASE request'[q].pc = "unmarked"
        BY <3>3
    <3> QED BY <1>2, <3>1, <3>2, <3>3, QuietRequests
  <2> QED BY <2>1, <2>2, <2>3, <2>4 DEF AcceptInv, Overlapped
<1> QED BY <1>1, <1>2, NextCases

-----------------------------------------------------------------------------
(* Exchanging a refresh token.                                             *)

Tokens == {n \in Names : session[n].state # "none"}
Alike(n, k) == session[n].of = session[k].of /\ session[n].at = session[k].at
Paired == {n \in Names : \E k \in Tokens : k # n /\ Alike(n, k)}
Refreshing(r) == request[r].op = "refresh" /\ request[r].pc \notin {"failed", "unmarked"}

(* Once a refresh has rotated its token, no later one can begin with it,   *)
(* unless another token of the same user and second still lives.  (Tokens  *)
(* are finitely many, which the cardinality in ExchangedOnce needs.)       *)
SessionInv ==
    /\ IsFiniteSet(Tokens) /\ Tokens \subseteq Past
    /\ \A r \in Requests : request[r].op = "refresh" =>
          /\ request[r].key \in Past
          /\ request[r].pc \in {"mint", "done"} => session[request[r].key].state # "live"
    /\ \A a, b \in Requests :
          /\ a # b /\ Refreshing(a) /\ Refreshing(b) /\ request[a].key = request[b].key
          /\ request[a].key \in Tokens
          => Overlapped(a, b) \/ request[a].key \in Paired

(* What a step does to the tokens there are: it revokes some, or deletes   *)
(* all of one person; only Mint makes one.                                 *)
TokensMoved(r) ==
    /\ \A n \in Names : n # r /\ session'[n].state # "none" =>
          /\ session[n].state # "none"
          /\ session'[n].of = session[n].of /\ session'[n].at = session[n].at
          /\ session'[n].pw = session[n].pw
          /\ session'[n].state = "live" => session[n].state = "live"
    /\ \A n, k \in Names : /\ n # r /\ k # r /\ session[n].of = session[k].of
                           /\ session[k].state # "none" /\ session'[n].state # "none"
                           => session'[k].state # "none"
    /\ \A n \in Names : /\ n # r /\ session[n].state # "none" /\ session'[n].state = "none"
                        => user'[session[n].of].role = "none"
    /\ session'[r].state # "none" /\ session[r].state = "none" => Mint(r)

LEMMA TokensMove == ASSUME IInv, NEW r \in Requests, Acts(r) PROVE TokensMoved(r)
<1>0. RequestsTyped /\ RowsOk
    BY DEF IInv
<1>1. CASE session' = session
    BY <1>1 DEF TokensMoved
<1>2. CASE Mint(r)
    BY <1>0, <1>2 DEF Mint, TokensMoved, RowsOk
<1>3. ASSUME NEW ns, session' = Without(ns) PROVE TokensMoved(r)
  <2>1. \A n \in Names : session[n] \in SessionRow
      BY <1>0 DEF RowsOk
  <2>2. \A n \in Names : /\ session'[n] = session[n] \/ session'[n] = [session[n] EXCEPT !.state = "revoked"]
                         /\ session'[n].state = "none" <=> session[n].state = "none"
      BY <1>3, <2>1 DEF Without, SessionRow
  <2> QED BY <2>1, <2>2, NameOfRequest DEF TokensMoved, SessionRow
<1>4. ASSUME NEW c \in People, NEW p \in People, RemoveMember(r, c, p)
      PROVE  TokensMoved(r)
  <2>1. user'[p].role = "none"
      BY <1>0, <1>4 DEF RemoveMember, RowsOk, User
  <2>2. \A n \in Names : /\ session[n].of = p => session'[n].state = "none"
                         /\ session[n].of # p => session'[n] = session[n]
      BY <1>4 DEF RemoveMember, NoSession
  <2>3. \A n \in Names : session[n].state # "none" /\ session'[n].state = "none"
                         => user'[session[n].of].role = "none"
      BY <2>1, <2>2 DEF Member
  <2>4. \A n \in Names : session'[n].state # "none" => session'[n] = session[n]
      BY <2>2
  <2>5. \A n, k \in Names : /\ session[n].of = session[k].of
                            /\ session[k].state # "none" /\ session'[n].state # "none"
                            => session'[k].state # "none"
      BY <2>2
  <2> QED BY <2>3, <2>4, <2>5, NameOfRequest DEF TokensMoved
<1>5. CASE Sessions(r)
    BY <1>1, <1>2, <1>3, <1>5 DEF Sessions, Rotate, CreateResetToken, UpdateHash, MarkUsed, RevokeAll,
                Login, ForgotPassword, Refresh, Logout, ResetPassword, rowVars
<1>6. CASE Membership(r)
    BY <1>1, <1>4, <1>6 DEF Membership, NoSuchUser, CreateMember, DeletePending, CreateInvite, MarkAccepted,
                AcceptInvite, Invite, UpdateMemberRole, rowVars
<1>7. CASE Projects(r)
    BY <1>1, <1>7 DEF Projects, CreateProject, CreateDemoProject, RefuseDemoProject, CountProjects, SeedDemo,
                RemoveDemo, DeleteProject, rowVars
<1> QED BY <1>5, <1>6, <1>7 DEF Acts

LEMMA SessionInvStep == ASSUME IInv, Phased, Together, SessionInv, Next PROVE SessionInv'
<1>0. RequestsTyped /\ RowsOk
    BY DEF IInv
<1>1. ASSUME NEW r \in Requests, Acts(r), Moved(r), Entered(r)
      PROVE  SessionInv'
  <2>0. Past \subseteq Past' /\ r \notin Past /\ TokensMoved(r) /\ Past \subseteq Names
      BY <1>1, OverKept, TokensMove, NameOfRequest, AccountsAssumption DEF Past, Moved
  <2>1. Tokens' \subseteq Tokens \cup {r} /\ (r \in Tokens' => Mint(r))
      BY <2>0 DEF Tokens, TokensMoved, SessionInv
  <2>2. IsFiniteSet(Tokens') /\ Tokens' \subseteq Past'
    <3>1. IsFiniteSet(Tokens')
        BY <2>1, FS_AddElement, FS_Subset DEF SessionInv
    <3>2. ASSUME r \in Tokens' PROVE r \in Past'
      <4>1. Mint(r) /\ session[r].state = "none" /\ session'[r].state # "none"
          BY <2>0, <2>1, <3>2, NameOfRequest DEF Tokens, SessionInv
      <4>2. Goto(r, "done")
          BY <4>1 DEF Mint
      <4> QED BY <1>0, <4>1, <4>2, GotoMoves DEF Mint, Running, Past
    <3> QED BY <2>0, <2>1, <3>1, <3>2 DEF SessionInv
  <2>3. ASSUME NEW n \in Past, n \in Tokens'
        PROVE  /\ n \in Tokens /\ session'[n].of = session[n].of /\ session'[n].at = session[n].at
               /\ session'[n].state = "live" => session[n].state = "live"
               /\ n \in Paired => n \in Paired'
    <3>1. n \in Names /\ n # r
        BY <2>0
    <3>2. /\ n \in Tokens /\ session'[n].of = session[n].of /\ session'[n].at = session[n].at
          /\ session'[n].state = "live" => session[n].state = "live"
        BY <2>0, <2>3, <3>1 DEF TokensMoved, Tokens
    <3>3. ASSUME NEW k \in Tokens, k # n, Alike(n, k) PROVE n \in Paired'
      <4>1. k \in Names /\ k # r
          BY <2>0, <3>3 DEF Tokens, SessionInv
      <4>2. k \in Tokens'
        <5>1. session'[n].state # "none" /\ session[k].state # "none" /\ session[n].of = session[k].of
            BY <2>3, <3>3 DEF Tokens, Alike
        <5>2. session'[k].state # "none"
            BY <2>0, <3>1, <4>1, <5>1 DEF TokensMoved
        <5> QED BY <4>1, <5>2 DEF Tokens
      <4>3. session'[k].of = session[k].of /\ session'[k].at = session[k].at
          BY <2>0, <4>1, <4>2 DEF TokensMoved, Tokens
      <4> QED BY <3>1, <3>2, <3>3, <4>2, <4>3 DEF Paired, Alike
    <3> QED BY <3>2, <3>3 DEF Paired
  <2>4. ASSUME NEW n \in Names, Refresh(r, n)
        PROVE  /\ n \in Past /\ n \in Tokens /\ session' = session
               /\ session[n].state # "live" => n \in Paired
    <3>1. PICK k \in Same(n) : session[k].state = "live"
        BY <2>4 DEF Refresh
    <3> QED BY <2>4, <3>1 DEF Refresh, rowVars, Same, Minted, Paired, Alike, Tokens, SessionInv
  <2>5. ASSUME NEW q \in Requests, request'[q].op = "refresh"
        PROVE  /\ request'[q].key \in Past'
               /\ request'[q].pc \in {"mint", "done"} => session'[request'[q].key].state # "live"
    <3>0. \A n \in Past : session'[n].state = "live" => session[n].state = "live"
        BY <2>0, <2>3 DEF Tokens
    <3>1. CASE q # r
        BY <1>1, <2>0, <2>5, <3>0, <3>1 DEF Moved, SessionInv
    <3>2. CASE q = r /\ request[r].op # "refresh"
      <4> PICK n \in Names : Refresh(r, n)
          BY <1>1, <2>5, <3>2 DEF Entered
      <4>1. request'[r].key = n /\ request'[r].pc = "revoke"
          BY <1>0, BeginMoves DEF Refresh
      <4> QED BY <2>0, <2>4, <3>2, <4>1
    <3>3. CASE q = r /\ request[r].op = "refresh"
      <4> DEFINE n == request[r].key
      <4>1. request[r].pc # "new" /\ n \in Names /\ n \in Past
          BY <1>0, <3>3, RequestFields DEF Phased, SessionInv
      <4>2. request'[r].key = n /\ n \in Past'
          BY <1>1, <2>0, <3>3, <4>1 DEF Moved
      <4>3. CASE request'[r].pc = "mint"
        <5>1. session' = Without(Same(n))
            BY <1>1, <2>5, <3>3, <4>3 DEF Entered, At, Rotate
        <5>2. session[n].state = "live" => n \in Same(n)
            BY <4>1 DEF Same, Minted
        <5>3. session[n] \in SessionRow
            BY <1>0, <4>1 DEF RowsOk
        <5>4. session'[n].state # "live"
            BY <4>1, <5>1, <5>2, <5>3 DEF Without, SessionRow
        <5> QED BY <3>3, <4>2, <5>4
      <4>4. CASE request'[r].pc = "done"
        <5>1. At(r, "refresh", "mint")
            BY <1>1, <2>5, <3>3, <4>4 DEF Entered, At
        <5>2. session[n].state # "live"
            BY <3>3, <5>1 DEF SessionInv, At
        <5> QED BY <3>0, <3>3, <4>1, <4>2, <5>2
      <4> QED BY <3>3, <4>2, <4>3, <4>4
    <3> QED BY <3>1, <3>2, <3>3
  <2>6. ASSUME NEW b \in Requests, b # r, Refreshing(r)', Refreshing(b)', request'[r].key = request'[b].key,
               request'[r].key \in Tokens'
        PROVE  Overlapped(r, b)' \/ request'[r].key \in Paired'
    <3> DEFINE n == request'[r].key
    <3>1. Refreshing(b) /\ request'[b] = request[b]
        BY <1>1, <2>6 DEF Moved, Refreshing
    <3>2. n = request[b].key /\ n \in Past
        BY <2>6, <3>1 DEF SessionInv, Refreshing
    <3>3. CASE request[r].op = "refresh"
      <4>1. Refreshing(r) /\ n = request[r].key
          BY <1>1, <3>3 DEF Moved, Refreshing, Phased
      <4>2. n \in Tokens /\ (n \in Paired => n \in Paired')
          BY <2>3, <2>6, <3>2
      <4>3. Overlapped(r, b) \/ n \in Paired
          BY <2>6, <3>1, <3>2, <4>1, <4>2 DEF SessionInv
      <4> QED BY <1>1, <4>2, <4>3 DEF Moved, Overlapped, Paired, Alike
    <3>4. CASE request[r].op # "refresh"
      <4> PICK m \in Names : Refresh(r, m)
          BY <1>1, <2>6, <3>4 DEF Entered, Refreshing
      <4>1. n = m /\ request[r].pc = "new"
          BY <1>0, BeginMoves DEF Refresh
      <4>2. CASE request[b].pc \in {"mint", "done"}
        <5>1. session[m].state # "live"
            BY <3>1, <3>2, <4>1, <4>2 DEF SessionInv, Refreshing
        <5>2. n \in Paired'
            BY <2>3, <2>4, <2>6, <3>2, <4>1, <5>1
        <5> QED BY <5>2 DEF Paired, Alike
      <4>3. CASE request[b].pc \notin {"mint", "done"}
        <5>1. Running(b)
            BY <3>1, <4>3 DEF Refreshing, Phased, Running
        <5> QED BY <1>1, <4>1, <5>1 DEF Moved, Overlapped
      <4> QED BY <4>2, <4>3
    <3> QED BY <3>3, <3>4
  <2>7. ASSUME NEW a \in Requests, NEW b \in Requests, a # b, Refreshing(a)', Refreshing(b)',
               request'[a].key = request'[b].key, request'[a].key \in Tokens'
        PROVE  Overlapped(a, b)' \/ request'[a].key \in Paired'
    <3>1. CASE a = r
        BY <2>6, <2>7, <3>1
    <3>2. CASE b = r
      <4>1. Overlapped(b, a)' \/ request'[b].key \in Paired'
          BY <2>6, <2>7, <3>2
      <4> QED BY <2>7, <4>1, OverlappedBoth DEF Overlapped, Paired, Alike
    <3>3. CASE a # r /\ b # r
      <4> DEFINE n == request[a].key
      <4>1. /\ request'[a] = request[a] /\ request'[b] = request[b]
            /\ Refreshing(a) /\ Refreshing(b) /\ request[b].key = n
          BY <1>1, <2>7, <3>3 DEF Moved, Refreshing
      <4>2. n \in Past
          BY <4>1 DEF SessionInv, Refreshing
      <4>3. n \in Tokens /\ (n \in Paired => n \in Paired')
          BY <2>3, <2>7, <4>1, <4>2
      <4>4. Overlapped(a, b) \/ n \in Paired
          BY <2>7, <4>1, <4>3 DEF SessionInv
      <4> QED BY <1>1, <4>1, <4>3, <4>4 DEF Moved, Overlapped, Paired, Alike
    <3> QED BY <3>1, <3>2, <3>3
  <2> QED BY <2>2, <2>5, <2>7 DEF SessionInv
<1>2. CASE Quiet
  <2>1. Tokens' = Tokens /\ Past \subseteq Past' /\ session' = session /\ overlap' = overlap
      BY <1>2, OverKeptQuiet DEF Quiet, Tokens
  <2> QED BY <1>2, <2>1, QuietPlain DEF SessionInv, Refreshing, Overlapped, Paired, Alike
<1> QED BY <1>1, <1>2, NextCases

LEMMA ExchangedOnceHolds == SessionInv => ExchangedOnce
<1> SUFFICES ASSUME SessionInv, NEW a \in Requests, NEW b \in Requests, a # b,
                    At(a, "refresh", "done"), At(b, "refresh", "done"),
                    request[b].key \in Same(request[a].key), ~Overlapped(a, b)
             PROVE  Cardinality(Same(request[a].key)) > 1
    BY DEF ExchangedOnce
<1> DEFINE n == request[a].key  S == Same(n)
<1>1. S \subseteq Tokens /\ n \in Tokens /\ n \in S
    BY NameOfRequest DEF Same, Minted, Tokens, SessionInv, Past, At
<1>2. \E k \in S : k # n
  <2>1. CASE request[b].key = n
    <3>1. n \in Paired
        BY <1>1, <2>1 DEF SessionInv, Refreshing, At
    <3> QED BY <1>1, <3>1 DEF Paired, Alike, Same, Minted, Tokens
  <2> QED BY <2>1
<1>3. IsFiniteSet(S) /\ Cardinality(S) \in Nat
    BY <1>1, FS_Subset, FS_CardinalityType DEF SessionInv
<1>4. Cardinality(S) # 0
    BY <1>1, <1>3, FS_EmptySet
<1>5. Cardinality(S) # 1
    BY <1>1, <1>2, <1>3, FS_Singleton
<1> QED BY <1>3, <1>4, <1>5

-----------------------------------------------------------------------------
(* Resetting a password.  A row's id is Seed or the request that made it.  *)

Made == {Seed} \cup {x \in Requests : /\ request[x].op = "accept"
                                      /\ request[x].pc \notin {"new", "check", "create"}}
Opening(r) == request[r].pc = "mint" \/ At(r, "refresh", "revoke") \/ At(r, "accept", "mark")
Rooted(p, w, z) == \E k \in Tokens : session[k].of = p /\ session[k].pw = w /\ Overlapped(k, z)
Usable(n) == resetToken[n].state # "none"

(* No row has the id of a request that is yet to create it.                *)
IdsMade ==
    /\ \A p \in People : user[p].id \in Made
    /\ \A r \in Requests : request[r].saw.id \in Made

(* A token belongs to a row that exists, so the password was changed if    *)
(* the token is still there afterwards, and passwords only get newer.      *)
ResetRows ==
    /\ \A n \in Names : Usable(n) => n \in Past /\ Member(resetToken[n].of)
    /\ \A z \in Requests : request[z].op = "reset" /\ request[z].pc \in {"hash", "mark"} =>
          /\ request[z].key \in Past
          /\ Usable(request[z].key) =>
               /\ resetToken[request[z].key].of = request[z].who
               /\ user[request[z].who].id = request[z].saw.id
               /\ request[z].pc = "mark" => request[z].saw.pw <= user[request[z].who].pw
    /\ \A z \in Requests : request[z].op = "reset" /\ request[z].pc \in {"revoke", "done"} =>
          request[z].saw.pw <= user[request[z].who].pw

(* A request that can still open a session on a password older than a      *)
(* finished reset overlapped it, or rests on a session that did.           *)
OpeningsRooted ==
    \A z, r \in Requests :
        /\ At(z, "reset", "done") /\ Opening(r) /\ request[r].who = request[z].who
        /\ Member(request[r].who) /\ user[request[r].who].id = request[r].saw.id
        /\ request[r].saw.pw < request[z].saw.pw
        => Overlapped(r, z) \/ Rooted(request[r].who, request[r].saw.pw, z)

SessionsRooted ==
    \A z \in Requests : At(z, "reset", "done") =>
        \A n \in Names :
            /\ session[n].state = "live" /\ session[n].of = request[z].who
            /\ session[n].pw < request[z].saw.pw
            => Rooted(request[z].who, session[n].pw, z)

ResetInv == IdsMade /\ ResetRows /\ OpeningsRooted /\ SessionsRooted

(* What a step does to the users' rows and to the reset tokens.            *)
UsersMoved(r) ==
    \A p \in People :
        /\ user[p].pw \in Nat /\ user'[p].pw \in Nat /\ user[p].pw <= user'[p].pw
        /\ \/ user'[p].id = user[p].id /\ (Member(p)' => Member(p))
           \/ ~Member(p) /\ CreateMember(r) /\ user'[p].id = r
        /\ Member(p) => Member(p)' \/ \E c \in People : RemoveMember(r, c, p)

ResetTokensMoved(r) ==
    /\ \A n \in Names : n # r /\ Usable(n)' => Usable(n) /\ resetToken'[n].of = resetToken[n].of
    /\ Usable(r)' /\ ~Usable(r) =>
          /\ CreateResetToken(r) /\ request'[r].pc = "done"
          /\ Member(resetToken[r].of)'
    /\ \A n \in Names : Usable(n)' /\ Usable(n) /\ Member(resetToken[n].of) => Member(resetToken[n].of)'

LEMMA UsersMove == ASSUME IInv, NEW r \in Requests, Acts(r) PROVE UsersMoved(r)
<1>0. RequestsTyped /\ RowsOk
    BY DEF IInv
<1>1. CASE user' = user
    BY <1>0, <1>1, RowFields DEF UsersMoved, Member
<1>2. ASSUME NEW q \in People, NEW u \in User, user' = [user EXCEPT ![q] = u],
             user[q].pw <= u.pw, u.id = user[q].id, Member(q),
             u.role # "none" \/ \E c \in People : RemoveMember(r, c, q)
      PROVE  UsersMoved(r)
    BY <1>0, <1>2, RowFields DEF UsersMoved, Member, RowsOk, User
<1>3. CASE UpdateHash(r)
  <2> DEFINE q == request[r].who  u == [user[q] EXCEPT !.pw = user[q].pw + 1]
  <2>1. q \in People /\ user[q] \in User /\ user[q].pw \in Nat
      BY <1>0, RequestFields, RowFields
  <2>2. u \in User /\ user[q].pw <= u.pw /\ u.id = user[q].id /\ u.role = user[q].role
      BY <2>1 DEF User
  <2>3. user' = user \/ (Member(q) /\ user' = [user EXCEPT ![q] = u])
      BY <1>3 DEF UpdateHash
  <2> HIDE DEF u
  <2> QED BY <1>1, <1>2, <2>1, <2>2, <2>3 DEF Member
<1>4. CASE CreateMember(r)
  <2> DEFINE q == request[r].who
             u == [role |-> request[r].saw.role, id |-> r, pw |-> user[q].pw + 1]
  <2>1. q \in People /\ user[q] \in User /\ user[q].pw \in Nat
      BY <1>0, RequestFields, RowFields
  <2>2. u.pw \in Nat /\ user[q].pw <= u.pw /\ u.id = r
      BY <2>1
  <2>3. user' = user \/ (~Member(q) /\ user' = [user EXCEPT ![q] = u])
      BY <1>4 DEF CreateMember
  <2> HIDE DEF u
  <2>4. CASE ~Member(q) /\ user' = [user EXCEPT ![q] = u]
      BY <1>0, <1>4, <2>1, <2>2, <2>4, RowFields DEF UsersMoved, Member, RowsOk
  <2> QED BY <1>1, <2>3, <2>4
<1>5. ASSUME NEW c \in People, NEW p \in People,
             RemoveMember(r, c, p) \/ \E role \in Given : UpdateMemberRole(r, c, p, role)
      PROVE  UsersMoved(r)
  <2>1. PICK role \in Role : /\ user' = [user EXCEPT ![p].role = role] /\ Member(p)
                             /\ role # "none" \/ RemoveMember(r, c, p)
      BY <1>5 DEF RemoveMember, UpdateMemberRole, Role, Given
  <2> DEFINE u == [user[p] EXCEPT !.role = role]
  <2>2. /\ user[p] \in User /\ u \in User /\ u.id = user[p].id /\ u.role = role
        /\ user[p].pw \in Nat /\ user[p].pw <= u.pw
      BY <1>0, RowFields DEF User
  <2>3. user' = [user EXCEPT ![p] = u]
      BY <2>1
  <2> HIDE DEF u
  <2> QED BY <1>2, <2>1, <2>2, <2>3
<1>6. CASE Sessions(r)
    BY <1>1, <1>3, <1>6 DEF Sessions, Mint, Rotate, CreateResetToken, MarkUsed, RevokeAll,
                Login, ForgotPassword, Refresh, Logout, ResetPassword, rowVars
<1>7. CASE Membership(r)
    BY <1>1, <1>4, <1>5, <1>7 DEF Membership, NoSuchUser, DeletePending, CreateInvite, MarkAccepted,
                AcceptInvite, Invite, rowVars
<1>8. CASE Projects(r)
    BY <1>1, <1>8 DEF Projects, CreateProject, CreateDemoProject, RefuseDemoProject, CountProjects, SeedDemo,
                RemoveDemo, DeleteProject, rowVars
<1> QED BY <1>6, <1>7, <1>8 DEF Acts

LEMMA ResetTokensMove == ASSUME IInv, NEW r \in Requests, Acts(r), Moved(r) PROVE ResetTokensMoved(r)
<1>0. RequestsTyped /\ RowsOk /\ UsersMoved(r)
    BY UsersMove DEF IInv
<1>1. ASSUME resetToken' = resetToken, \A p \in People : Member(p) => Member(p)'
      PROVE  ResetTokensMoved(r)
    BY <1>0, <1>1, RowFields DEF ResetTokensMoved, Usable, Member
<1>2. ASSUME NEW p \in People, user' = user,
             resetToken' = [n \in Names |-> IF resetToken[n].of = p THEN NoToken ELSE resetToken[n]]
      PROVE  ResetTokensMoved(r)
    BY <1>2, NameOfRequest DEF ResetTokensMoved, Usable, NoToken, Member
<1>3. CASE CreateResetToken(r)
  <2> DEFINE row == [state |-> "valid", of |-> request[r].who, role |-> "none"]
  <2>1. \/ resetToken' = resetToken
        \/ /\ resetToken' = [resetToken EXCEPT ![r] = row]
           /\ Member(request[r].who) /\ Goto(r, "done")
      BY <1>3 DEF CreateResetToken
  <2>2. user' = user /\ request[r].pc = "create"
      BY <1>3 DEF CreateResetToken, At
  <2>3. CASE /\ resetToken' = [resetToken EXCEPT ![r] = row]
             /\ Member(request[r].who) /\ Goto(r, "done")
    <3>1. request'[r].pc = "done"
        BY <1>0, <2>2, <2>3, GotoMoves DEF Running
    <3>2. \A n \in Names : n # r => resetToken'[n] = resetToken[n]
        BY <1>0, <2>3 DEF RowsOk
    <3>3. resetToken'[r].of = request[r].who
        BY <1>0, <2>3, NameOfRequest DEF RowsOk
    <3>4. \A p : Member(p)' <=> Member(p)
        BY <2>2 DEF Member
    <3> QED BY <1>3, <2>2, <2>3, <3>1, <3>2, <3>3 DEF ResetTokensMoved, Usable, Member
  <2> QED BY <1>1, <2>1, <2>2, <2>3 DEF Member
<1>4. CASE MarkUsed(r)
  <2> DEFINE n == request[r].key  used == [resetToken[n] EXCEPT !.state = "used"]
  <2>1. /\ user' = user
        /\ \/ resetToken' = resetToken
           \/ resetToken[n].state # "none" /\ resetToken' = [resetToken EXCEPT ![n] = used]
      BY <1>4 DEF MarkUsed
  <2>2. n \in Names /\ used.of = resetToken[n].of
      BY <1>0, RequestFields, RowFields DEF ResetRow
  <2> HIDE DEF used
  <2>3. \A m \in Names : resetToken'[m].of = resetToken[m].of /\ (Usable(m)' => Usable(m))
      BY <1>0, <2>1, <2>2 DEF Usable, RowsOk
  <2> QED BY <2>1, <2>3, NameOfRequest DEF ResetTokensMoved, Member
<1>5. ASSUME NEW c \in People, NEW p \in People, RemoveMember(r, c, p)
      PROVE  ResetTokensMoved(r)
  <2>1. \A q \in People : q # p => user'[q] = user[q]
      BY <1>0, <1>5 DEF RemoveMember, RowsOk
  <2>2. \A n \in Names : /\ resetToken[n].of = p => ~Usable(n)'
                         /\ resetToken[n].of # p => resetToken'[n] = resetToken[n]
      BY <1>5 DEF RemoveMember, NoToken, Usable
  <2> QED BY <1>0, <2>1, <2>2, RowFields, NameOfRequest DEF ResetTokensMoved, Usable, Member
<1>9. ASSUME resetToken' = resetToken, \A c, p \in People : ~RemoveMember(r, c, p)
      PROVE  ResetTokensMoved(r)
    BY <1>0, <1>1, <1>9 DEF UsersMoved
<1>10. CASE \E c, p \in People : RemoveMember(r, c, p)
    BY <1>5, <1>10
<1>6. CASE Sessions(r)
  <2>1. CASE \E p \in People : ForgotPassword(r, p)
      BY <1>2, <2>1 DEF ForgotPassword
  <2> QED BY <1>3, <1>4, <1>6, <1>9, <1>10, <2>1
          DEF Sessions, Mint, Rotate, UpdateHash, RevokeAll, Login, Refresh, Logout, ResetPassword, rowVars
<1>7. CASE Membership(r)
    BY <1>9, <1>10, <1>7 DEF Membership, NoSuchUser, DeletePending, CreateInvite, MarkAccepted,
                CreateMember, UpdateMemberRole, AcceptInvite, Invite, rowVars
<1>8. CASE Projects(r)
    BY <1>9, <1>10, <1>8 DEF Projects, CreateProject, CreateDemoProject, RefuseDemoProject, CountProjects, SeedDemo,
                RemoveDemo, DeleteProject, rowVars
<1> QED BY <1>6, <1>7, <1>8 DEF Acts

LEMMA MadeKept == ASSUME IInv, Phased, NEW r \in Requests, Acts(r), Moved(r) PROVE Made \subseteq Made'
<1>0. RequestsTyped
    BY DEF IInv
<1>1. ASSUME r \in Made, r # Seed PROVE r \in Made'
  <2>1. /\ request[r].op = "accept" /\ request[r].pc \notin {"new", "check", "create"}
      BY <1>1 DEF Made
  <2>2. \A op, pc, who, key, saw : ~Begin(r, op, pc, who, key, saw)
      BY <2>1 DEF Begin
  <2>3. CASE Sessions(r)
    <3>1. Mint(r)
        BY <2>1, <2>2, <2>3 DEF Sessions, Rotate, CreateResetToken, UpdateHash, MarkUsed, RevokeAll,
                Login, ForgotPassword, Refresh, Logout, ResetPassword, At
    <3>2. request[r].pc = "mint" /\ (Goto(r, "done") \/ Goto(r, "failed"))
        BY <3>1 DEF Mint
    <3> QED BY <1>0, <2>1, <3>2, GotoMoves DEF Running, Made
  <2>4. CASE Membership(r)
    <3>1. MarkAccepted(r)
        BY <2>1, <2>2, <2>4 DEF Membership, NoSuchUser, DeletePending, CreateInvite,
                CreateMember, RemoveMember, UpdateMemberRole, AcceptInvite, Invite, At
    <3>2. request[r].pc = "mark" /\ (Goto(r, "mint") \/ Goto(r, "failed"))
        BY <3>1 DEF MarkAccepted, At
    <3> QED BY <1>0, <2>1, <3>2, GotoMoves DEF Running, Made
  <2>5. CASE Projects(r)
      BY <2>1, <2>2, <2>5 DEF Projects, CreateProject, CreateDemoProject, RefuseDemoProject, CountProjects, SeedDemo,
                RemoveDemo, DeleteProject, At
  <2> QED BY <2>3, <2>4, <2>5 DEF Acts
<1>2. \A q \in Requests : q # r => request'[q] = request[q]
    BY DEF Moved
<1> QED BY <1>1, <1>2 DEF Made

LEMMA SawMade ==
    ASSUME IInv, IdsMade, NEW r \in Requests, Acts(r), Moved(r)
    PROVE  request'[r].saw.id \in Made \/ (CreateMember(r) /\ request'[r].saw.id = r /\ request'[r].pc = "mark"
                                           /\ request'[r].op = "accept")
<1>0. RequestsTyped /\ RowsOk
    BY DEF IInv
<1>1. \A p \in People : user[p].id \in Made
    BY DEF IdsMade
<1>2. request[r].saw.id \in Made /\ Seed \in Made
    BY DEF IdsMade, Made
<1>3. CASE Sessions(r)
  <2>1. CASE Mint(r) \/ Rotate(r) \/ CreateResetToken(r) \/ MarkUsed(r) \/ RevokeAll(r)
      BY <1>0, <1>2, <2>1, GotoMoves DEF Mint, Rotate, CreateResetToken, MarkUsed, RevokeAll, At, Running
  <2>2. CASE UpdateHash(r)
    <3>1. request[r] \in RequestRow /\ request[r].saw \in User
        BY <1>0 DEF RequestsTyped, RequestRow
    <3>2. request'[r].saw.id = request[r].saw.id
        BY <1>0, <2>2, <3>1 DEF UpdateHash, RequestsTyped, RequestRow, User
    <3> QED BY <1>2, <3>2
  <2>3. CASE \E p \in People : Login(r, p) \/ ForgotPassword(r, p)
      BY <1>0, <1>1, <2>3, BeginMoves DEF Login, ForgotPassword
  <2>4. CASE \E n \in Names : Refresh(r, n)
    <3> PICK n \in Names : Refresh(r, n)
        BY <2>4
    <3> DEFINE u == user[session[n].of]
    <3>1. PICK k \in Names : Begin(r, "refresh", "revoke", session[n].of, n, [u EXCEPT !.pw = session[k].pw])
        BY DEF Refresh, Same
    <3>2. u \in User /\ session[n].of \in People
        BY <1>0, RowFields
    <3>3. request'[r].saw = [u EXCEPT !.pw = session[k].pw]
        BY <1>0, <3>1, BeginMoves
    <3> QED BY <1>1, <3>2, <3>3 DEF User
  <2>5. CASE \E n \in Names : Logout(r, n) \/ ResetPassword(r, n)
    <3> PICK n \in Names : Logout(r, n) \/ ResetPassword(r, n)
        BY <2>5
    <3>1. session[n].of \in People /\ resetToken[n].of \in People
        BY <1>0, RowFields
    <3>2. request'[r].saw = user[session[n].of] \/ request'[r].saw = user[resetToken[n].of]
        BY <1>0, BeginMoves DEF Logout, ResetPassword
    <3> QED BY <1>1, <3>1, <3>2
  <2> QED BY <1>3, <2>1, <2>2, <2>3, <2>4, <2>5 DEF Sessions
<1>4. CASE Membership(r)
  <2>1. CASE DeletePending(r) \/ CreateInvite(r) \/ NoSuchUser(r) \/ MarkAccepted(r)
      BY <1>0, <1>2, <2>1, GotoMoves DEF DeletePending, CreateInvite, NoSuchUser, MarkAccepted, At, Running
  <2>2. CASE CreateMember(r)
    <3> DEFINE row == [role |-> request[r].saw.role, id |-> r, pw |-> user[request[r].who].pw + 1]
    <3>1. CASE Goto(r, "failed")
        BY <1>0, <1>2, <2>2, <3>1, GotoMoves DEF CreateMember, At, Running
    <3>2. CASE request' = [request EXCEPT ![r].pc = "mark", ![r].saw = row]
      <4>1. /\ request'[r].saw = row /\ request'[r].pc = "mark" /\ request'[r].op = request[r].op
          BY <1>0, <3>2 DEF RequestsTyped, RequestRow
      <4> QED BY <2>2, <4>1 DEF CreateMember, At
    <3> QED BY <2>2, <3>1, <3>2 DEF CreateMember
  <2>3. CASE \E n \in Names : AcceptInvite(r, n)
      BY <1>0, <1>2, <2>3, BeginMoves DEF AcceptInvite
  <2>4. ASSUME NEW c \in People, NEW p \in People,
               RemoveMember(r, c, p) \/ \E role \in Given : UpdateMemberRole(r, c, p, role)
        PROVE  request'[r].saw.id \in Made
      BY <1>0, <1>1, <2>4, BeginMoves DEF RemoveMember, UpdateMemberRole
  <2>5. ASSUME NEW c \in People, NEW p \in People, NEW role \in Given, Invite(r, c, p, role)
        PROVE  request'[r].saw.id \in Made
      BY <1>0, <1>2, <2>5, BeginMoves DEF Invite
  <2> QED BY <1>4, <2>1, <2>2, <2>3, <2>4, <2>5 DEF Membership
<1>5. CASE Projects(r)
  <2>1. CASE CreateProject(r) \/ CreateDemoProject(r) \/ RefuseDemoProject(r)
      BY <1>0, <1>2, <2>1, GotoMoves DEF CreateProject, CreateDemoProject, RefuseDemoProject, At, Running
  <2>2. CASE \E c \in People : \/ CountProjects(r, c) \/ SeedDemo(r, c) \/ RemoveDemo(r, c)
                             \/ \E n \in Names : DeleteProject(r, c, n)
      BY <1>0, <1>1, <2>2, BeginMoves DEF CountProjects, SeedDemo, RemoveDemo, DeleteProject
  <2> QED BY <1>5, <2>1, <2>2 DEF Projects
<1> QED BY <1>3, <1>4, <1>5 DEF Acts

LEMMA IdsMadeStep == ASSUME IInv, Phased, IdsMade, Next PROVE IdsMade'
<1>1. ASSUME NEW r \in Requests, Acts(r), Moved(r), Entered(r)
      PROVE  IdsMade'
  <2>1. Made \subseteq Made' /\ UsersMoved(r)
      BY <1>1, MadeKept, UsersMove
  <2>2. request'[r].saw.id \in Made'
      BY <1>1, <2>1, SawMade DEF Made
  <2>3. ASSUME CreateMember(r), user' # user PROVE r \in Made'
    <3>1. request'[r].pc = "mark" /\ request'[r].op = "accept"
        BY <2>3 DEF CreateMember, At, IInv, RequestsTyped, RequestRow
    <3> QED BY <3>1 DEF Made
  <2>4. \A p \in People : user'[p].id \in Made'
      BY <2>1, <2>3 DEF UsersMoved, IdsMade
  <2> QED BY <1>1, <2>1, <2>2, <2>4 DEF IdsMade, Moved
<1>2. CASE Quiet
  <2>1. Made \subseteq Made'
      BY <1>2, QuietRequests DEF Made
  <2> QED BY <1>2, <2>1, QuietRequests DEF Quiet, IdsMade
<1> QED BY <1>1, <1>2, NextCases

LEMMA ResetRowsStep == ASSUME IInv, Phased, ResetRows, Next PROVE ResetRows'
<1>0. RequestsTyped /\ RowsOk /\ \A q \in Requests : request[q].who \in People /\ request[q].saw.pw \in Nat
    BY RequestFields DEF IInv
<1>1. ASSUME NEW r \in Requests, Acts(r), Moved(r), Entered(r)
      PROVE  ResetRows'
  <2>0. Past \subseteq Past' /\ r \notin Past /\ Past \subseteq Names /\ UsersMoved(r) /\ ResetTokensMoved(r)
      BY <1>1, OverKept, UsersMove, ResetTokensMove, NameOfRequest, AccountsAssumption DEF Past, Moved
  <2>1. ASSUME NEW n \in Names, Usable(n)'
        PROVE  n \in Past' /\ Member(resetToken[n].of)'
    <3>1. CASE Usable(n)
        BY <2>0, <2>1, <3>1 DEF ResetRows, ResetTokensMoved
    <3>2. CASE ~Usable(n)
      <4>1. n = r
          BY <2>0, <2>1, <3>2 DEF ResetTokensMoved
      <4> QED BY <2>0, <2>1, <3>2, <4>1 DEF ResetTokensMoved, Past
    <3> QED BY <3>1, <3>2
  <2>3. ASSUME NEW p \in People, NEW n \in Past, Usable(n)', Usable(n) => resetToken[n].of = p
        PROVE  /\ Usable(n) /\ resetToken'[n].of = p /\ user'[p].id = user[p].id
               /\ user[p].pw \in Nat /\ user'[p].pw \in Nat /\ user[p].pw <= user'[p].pw
    <3>1. n \in Names /\ n # r
        BY <2>0
    <3>2. Usable(n) /\ resetToken'[n].of = p
        BY <2>0, <2>3, <3>1 DEF ResetTokensMoved
    <3>3. Member(p)
        BY <2>3, <3>1, <3>2 DEF ResetRows
    <3> QED BY <2>0, <3>2, <3>3 DEF UsersMoved
  <2>4. ASSUME NEW z \in Requests, request'[z].op = "reset", request'[z].pc \in {"hash", "mark"}
        PROVE  /\ request'[z].key \in Past'
               /\ Usable(request[z].key)' =>
                    /\ resetToken'[request'[z].key].of = request'[z].who
                    /\ user'[request'[z].who].id = request'[z].saw.id
                    /\ request'[z].pc = "mark" => request'[z].saw.pw <= user'[request'[z].who].pw
    <3>1. CASE z # r
      <4> DEFINE n == request[z].key  p == request[z].who
      <4>1. request'[z] = request[z]
          BY <1>1, <3>1 DEF Moved
      <4>2. n \in Past /\ p \in People /\ (Usable(n) => resetToken[n].of = p)
          BY <1>0, <2>4, <4>1 DEF ResetRows
      <4>3. ASSUME resetToken'[n].state # "none"
            PROVE  /\ resetToken'[n].of = p /\ user'[p].id = request[z].saw.id
                   /\ request[z].pc = "mark" => request[z].saw.pw <= user'[p].pw
        <5>1. /\ Usable(n) /\ resetToken'[n].of = p /\ user'[p].id = user[p].id
              /\ user[p].pw \in Nat /\ user'[p].pw \in Nat /\ user[p].pw <= user'[p].pw
            BY <2>3, <4>2, <4>3 DEF Usable
        <5>2. /\ user[p].id = request[z].saw.id
              /\ request[z].pc = "mark" => request[z].saw.pw <= user[p].pw
            BY <2>4, <4>1, <5>1 DEF ResetRows
        <5> QED BY <1>0, <5>1, <5>2
      <4> QED BY <2>0, <4>1, <4>2, <4>3 DEF Usable
    <3>2. CASE z = r /\ request'[r].pc = "hash"
      <4> PICK n \in Names : ResetPassword(r, n)
          BY <1>1, <2>4, <3>2 DEF Entered, At
      <4>1. n \in Past
          BY DEF ResetPassword, ResetRows, Usable
      <4>2. /\ request'[r].key = n /\ request'[r].who = resetToken[n].of
            /\ request'[r].saw = user[resetToken[n].of]
          BY <1>0, BeginMoves DEF ResetPassword
      <4> QED BY <2>0, <3>2, <4>1, <4>2 DEF ResetPassword, rowVars
    <3>3. CASE z = r /\ request'[r].pc = "mark"
      <4> DEFINE n == request[r].key  p == request[r].who
      <4>1. UpdateHash(r)
          BY <1>1, <2>4, <3>3 DEF Entered, At
      <4>2. /\ request[r] \in RequestRow /\ request[r].saw \in User /\ p \in People /\ n \in Names
            /\ user[p] \in User /\ user[p].pw \in Nat
          BY <1>0, RequestFields, RowFields DEF RequestsTyped
      <4>3. /\ request[r].op = "reset" /\ request[r].pc = "hash"
            /\ request'[r].key = n /\ request'[r].who = p /\ request'[r].saw.pw = user[p].pw + 1
            /\ request'[r].saw.id = request[r].saw.id
          BY <1>0, <4>1, <4>2 DEF UpdateHash, At, RequestsTyped, RequestRow, User
      <4>4. n \in Past /\ (Usable(n) => resetToken[n].of = p /\ user[p].id = request[r].saw.id)
          BY <4>3 DEF ResetRows
      <4>5. ASSUME resetToken'[n].state # "none"
            PROVE  /\ resetToken'[n].of = p /\ user'[p].id = request[r].saw.id
                   /\ user'[p].pw = user[p].pw + 1
        <5>1. /\ Usable(n) /\ resetToken'[n].of = p /\ user'[p].id = user[p].id
            BY <2>3, <4>2, <4>4, <4>5 DEF Usable
        <5>2. Member(p)
            BY <4>2, <4>4, <5>1 DEF ResetRows
        <5>3. user' = [user EXCEPT ![p].pw = @ + 1]
            BY <4>1, <4>4, <5>1, <5>2 DEF UpdateHash
        <5>4. user'[p].pw = user[p].pw + 1
            BY <1>0, <4>2, <5>3 DEF RowsOk, User
        <5> QED BY <4>4, <5>1, <5>4
      <4>6. user[p].pw + 1 <= user[p].pw + 1
          BY <4>2
      <4> QED BY <2>0, <3>3, <4>3, <4>4, <4>5, <4>6 DEF Usable
    <3> QED BY <2>4, <3>1, <3>2, <3>3
  <2>5. ASSUME NEW z \in Requests, request'[z].op = "reset", request'[z].pc \in {"revoke", "done"}
        PROVE  request'[z].saw.pw <= user'[request'[z].who].pw
    <3> DEFINE p == request[z].who
    <3>1. /\ request[z].saw.pw \in Nat /\ p \in People /\ user[p].pw \in Nat /\ user'[p].pw \in Nat
          /\ user[p].pw <= user'[p].pw
        BY <1>0, <2>0 DEF UsersMoved
    <3>2. /\ request'[z].who = p /\ request'[z].saw = request[z].saw /\ request[z].saw.pw <= user[p].pw
      <4>1. CASE z # r
          BY <1>1, <2>5, <4>1 DEF Moved, ResetRows
      <4>2. CASE z = r /\ request'[r].pc = "revoke"
        <5>1. MarkUsed(r)
            BY <1>1, <2>5, <4>2 DEF Entered, At
        <5>2. /\ request[r].op = "reset" /\ request[r].pc = "mark"
              /\ Goto(r, "revoke") \/ Goto(r, "failed")
            BY <5>1 DEF MarkUsed, At
        <5>3. request'[r].who = p /\ request'[r].saw = request[r].saw /\ Goto(r, "revoke")
            BY <1>0, <4>2, <5>2, GotoMoves DEF Running
        <5>4. Usable(request[r].key)
            BY <1>0, <4>2, <5>1, <5>2, GotoMoves DEF MarkUsed, Usable, Running
        <5> QED BY <4>2, <5>2, <5>3, <5>4 DEF ResetRows
      <4>3. CASE z = r /\ request'[r].pc = "done"
        <5>1. RevokeAll(r)
            BY <1>1, <2>5, <4>3 DEF Entered, At
        <5>2. request[r].op = "reset" /\ request[r].pc = "revoke" /\ Goto(r, "done")
            BY <5>1 DEF RevokeAll, At
        <5> QED BY <1>0, <4>3, <5>2, GotoMoves DEF Running, ResetRows
      <4> QED BY <2>5, <4>1, <4>2, <4>3
    <3> QED BY <3>1, <3>2
  <2> QED BY <2>1, <2>4, <2>5 DEF ResetRows
<1>2. CASE Quiet
  <2>1. Past \subseteq Past' /\ user' = user /\ resetToken' = resetToken
      BY <1>2, OverKeptQuiet DEF Quiet
  <2>2. \A z \in Requests : /\ request'[z].op = request[z].op /\ request'[z].who = request[z].who
                            /\ request'[z].key = request[z].key /\ request'[z].saw = request[z].saw
                            /\ \/ request'[z].pc \in {request[z].pc, "failed"}
                               \/ request[z].op = "accept" /\ request'[z].pc = "unmarked"
      BY <1>2, QuietPlain
  <2> QED BY <2>1, <2>2 DEF ResetRows, Usable, Member
<1> QED BY <1>1, <1>2, NextCases

LEMMA RootKept ==
    ASSUME IInv, SessionInv, NEW r \in Requests, Acts(r), Moved(r), NEW p, NEW w, NEW z, Rooted(p, w, z),
           user'[p].role # "none" \/ \E n \in Names : n # r /\ session'[n].state # "none" /\ session[n].of = p
    PROVE  Rooted(p, w, z)'
<1>0. TokensMoved(r) /\ r \notin Tokens
    BY TokensMove, AccountsAssumption DEF SessionInv, Past, Moved
<1>1. PICK k \in Tokens : session[k].of = p /\ session[k].pw = w /\ Overlapped(k, z)
    BY DEF Rooted
<1>2. k \in Names /\ k # r /\ session[k].state # "none"
    BY <1>0, <1>1 DEF Tokens
<1>3. session'[k].state # "none"
    BY <1>0, <1>1, <1>2 DEF TokensMoved
<1>4. session'[k].of = p /\ session'[k].pw = w
    BY <1>0, <1>1, <1>2, <1>3 DEF TokensMoved
<1>5. {k, z} \in overlap'
    BY <1>1 DEF Moved, Overlapped
<1> QED BY <1>2, <1>3, <1>4, <1>5 DEF Rooted, Tokens, Overlapped

(* Who is opening a session after the step was opening it before, or rests *)
(* on a password that is not older, or exchanges a live token.             *)
LEMMA OpensFrom ==
    ASSUME IInv, Phased, NEW r \in Requests, Acts(r), Moved(r), Opening(r)', user'[request'[r].who].role # "none"
    PROVE  \/ /\ Opening(r) /\ user' = user
              /\ request'[r].who = request[r].who /\ request'[r].saw = request[r].saw
           \/ request'[r].saw.pw = user'[request'[r].who].pw
           \/ \E k \in Names : /\ session[k].state = "live" /\ session[k].of = request'[r].who
                               /\ session[k].pw = request'[r].saw.pw /\ session' = session
<1>0. RequestsTyped /\ RowsOk
    BY DEF IInv
<1>1. CASE Sessions(r)
  <2>1. CASE Mint(r) \/ CreateResetToken(r) \/ MarkUsed(r) \/ RevokeAll(r)
    <3>1. request'[r].pc \in {"done", "failed"} \/ (request'[r].pc = "revoke" /\ request'[r].op = "reset")
      <4>1. CASE Mint(r)
        <5>1. request[r].pc = "mint" /\ (Goto(r, "done") \/ Goto(r, "failed"))
            BY <4>1 DEF Mint
        <5> QED BY <1>0, <5>1, GotoMoves DEF Running
      <4> QED BY <1>0, <2>1, <4>1, GotoMoves DEF CreateResetToken, MarkUsed, RevokeAll, At, Running
    <3> QED BY <3>1 DEF Opening, At
  <2>2. CASE UpdateHash(r)
    <3>1. request'[r].pc = "mark" /\ request'[r].op = "reset"
        BY <1>0, <2>2 DEF UpdateHash, At, RequestsTyped, RequestRow
    <3> QED BY <3>1 DEF Opening, At
  <2>3. CASE Rotate(r)
    <3>1. user' = user /\ At(r, "refresh", "revoke") /\ Goto(r, "mint")
        BY <2>3 DEF Rotate
    <3> QED BY <1>0, <3>1, GotoMoves DEF Opening, At, Running
  <2>4. CASE \E p \in People : Login(r, p)
      BY <1>0, <2>4, BeginMoves DEF Login, rowVars
  <2>5. CASE \E n \in Names : Refresh(r, n)
    <3> PICK n \in Names : Refresh(r, n)
        BY <2>5
    <3> DEFINE u == user[session[n].of]
    <3>1. PICK k \in Same(n) : /\ session[k].state = "live"
                               /\ Begin(r, "refresh", "revoke", session[n].of, n, [u EXCEPT !.pw = session[k].pw])
        BY DEF Refresh
    <3>2. u \in User /\ k \in Names /\ session[k].of = session[n].of
        BY <1>0, <3>1, RowFields DEF Same
    <3>3. request'[r].saw = [u EXCEPT !.pw = session[k].pw] /\ request'[r].who = session[n].of
        BY <1>0, <3>1, BeginMoves
    <3> HIDE DEF u
    <3>4. request'[r].saw.pw = session[k].pw
        BY <3>2, <3>3 DEF User
    <3> QED BY <3>1, <3>2, <3>3, <3>4 DEF Refresh, rowVars
  <2>6. CASE \/ \E p \in People : ForgotPassword(r, p)
             \/ \E n \in Names : Logout(r, n) \/ ResetPassword(r, n)
    <3>1. request'[r].pc \in {"create", "done", "hash"}
        BY <1>0, <2>6, BeginMoves DEF ForgotPassword, Logout, ResetPassword
    <3> QED BY <3>1 DEF Opening, At
  <2> QED BY <1>1, <2>1, <2>2, <2>3, <2>4, <2>5, <2>6 DEF Sessions
<1>2. CASE Membership(r)
  <2>1. CASE DeletePending(r) \/ CreateInvite(r) \/ NoSuchUser(r)
    <3>1. request'[r].pc \in {"create", "done", "failed"}
        BY <1>0, <2>1, GotoMoves DEF DeletePending, CreateInvite, NoSuchUser, At, Running
    <3> QED BY <3>1 DEF Opening, At
  <2>2. CASE MarkAccepted(r)
    <3>1. user' = user /\ At(r, "accept", "mark") /\ (Goto(r, "mint") \/ Goto(r, "failed"))
        BY <2>2 DEF MarkAccepted
    <3> QED BY <1>0, <3>1, GotoMoves DEF Opening, At, Running
  <2>3. CASE CreateMember(r)
    <3> DEFINE p == request[r].who
               row == [role |-> request[r].saw.role, id |-> r, pw |-> user[p].pw + 1]
    <3>1. CASE Goto(r, "failed")
      <4>1. request'[r].pc = "failed"
          BY <1>0, <2>3, <3>1, GotoMoves DEF CreateMember, At, Running
      <4> QED BY <4>1 DEF Opening, At
    <3>2. CASE /\ user' = [user EXCEPT ![p] = row]
               /\ request' = [request EXCEPT ![r].pc = "mark", ![r].saw = row]
      <4>1. p \in People
          BY <1>0, RequestFields
      <4>2. request'[r].saw = row /\ request'[r].who = p
          BY <1>0, <3>2 DEF RequestsTyped, RequestRow
      <4>3. user'[p] = row
          BY <1>0, <3>2, <4>1 DEF RowsOk
      <4> QED BY <4>2, <4>3
    <3> QED BY <2>3, <3>1, <3>2 DEF CreateMember
  <2>4. CASE \E n \in Names : AcceptInvite(r, n)
    <3>1. request'[r].pc = "check"
        BY <1>0, <2>4, BeginMoves DEF AcceptInvite
    <3> QED BY <3>1 DEF Opening, At
  <2>5. ASSUME NEW c \in People, NEW p \in People,
               RemoveMember(r, c, p) \/ \E role \in Given : UpdateMemberRole(r, c, p, role)
        PROVE  request'[r].pc = "done"
      BY <1>0, <2>5, BeginMoves DEF RemoveMember, UpdateMemberRole
  <2>6. ASSUME NEW c \in People, NEW p \in People, NEW role \in Given, Invite(r, c, p, role)
        PROVE  request'[r].pc = "delete"
      BY <1>0, <2>6, BeginMoves DEF Invite
  <2> QED BY <1>2, <2>1, <2>2, <2>3, <2>4, <2>5, <2>6 DEF Membership, Opening, At
<1>3. CASE Projects(r)
  <2>1. request'[r].pc \in {"create", "done", "failed"}
    <3>1. CASE CreateProject(r) \/ CreateDemoProject(r) \/ RefuseDemoProject(r)
        BY <1>0, <3>1, GotoMoves DEF CreateProject, CreateDemoProject, RefuseDemoProject, At, Running
    <3>2. CASE \E c \in People : \/ CountProjects(r, c) \/ SeedDemo(r, c) \/ RemoveDemo(r, c)
                               \/ \E n \in Names : DeleteProject(r, c, n)
        BY <1>0, <3>2, BeginMoves DEF CountProjects, SeedDemo, RemoveDemo, DeleteProject
    <3> QED BY <1>3, <3>1, <3>2 DEF Projects
  <2> QED BY <2>1 DEF Opening, At
<1> QED BY <1>1, <1>2, <1>3 DEF Acts

LEMMA OpeningsStep ==
    ASSUME IInv, Phased, Together, SessionInv, ResetInv, Next
    PROVE  OpeningsRooted'
<1>0. RequestsTyped /\ RowsOk /\ \A q \in Requests : request[q].who \in People /\ request[q].saw.pw \in Nat
    BY RequestFields DEF IInv
<1> SUFFICES ASSUME NEW z \in Requests, NEW o \in Requests,
                    At(z, "reset", "done")', Opening(o)',
                    request'[o].who = request'[z].who, user'[request'[o].who].role # "none",
                    user'[request'[o].who].id = request'[o].saw.id,
                    request'[o].saw.pw < request'[z].saw.pw
             PROVE  \/ {o, z} \in overlap'
                    \/ \E k \in Tokens' : /\ session'[k].of = request'[o].who
                                          /\ session'[k].pw = request'[o].saw.pw /\ {k, z} \in overlap'
    BY DEF OpeningsRooted, Member, Overlapped, Rooted
<1> PICK p, w : p = request'[z].who /\ w = request'[o].saw.pw
    OBVIOUS
<1> SUFFICES {o, z} \in overlap' \/ Rooted(p, w, z)'
    BY DEF Rooted, Overlapped
<1>1. ASSUME NEW r \in Requests, Acts(r), Moved(r), Entered(r)
      PROVE  {o, z} \in overlap' \/ Rooted(p, w, z)'
  <2>0. UsersMoved(r)
      BY <1>1, UsersMove
  <2>1. o # z
      BY DEF At, Opening
  <2>2. CASE z = r
    <3>1. RevokeAll(z) /\ Running(z)
        BY <1>1, <2>2 DEF Entered, At, RevokeAll, Running
    <3>2. request'[o] = request[o] /\ Running(o)
        BY <1>1, <2>1, <2>2 DEF Moved, Opening, At, Running
    <3> QED BY <1>1, <2>1, <3>1, <3>2 DEF Together, Overlapped, Moved
  <2>3. CASE z # r
    <3>1. request'[z] = request[z] /\ At(z, "reset", "done") /\ p \in People /\ p = request[z].who
        BY <1>0, <1>1, <2>3 DEF Moved, At
    <3>2. request[z].saw.pw <= user[p].pw /\ user[p].pw \in Nat /\ user'[p].pw \in Nat /\ user[p].pw <= user'[p].pw
        BY <2>0, <3>1 DEF ResetInv, ResetRows, At, UsersMoved
    <3>3. w < request[z].saw.pw
        BY <3>1
    <3>4. SUFFICES Overlapped(o, z) \/ Rooted(p, w, z)
        BY <1>1, RootKept DEF Moved, Overlapped
    <3>5. ASSUME Opening(o), request[o].who = p, request[o].saw = request'[o].saw, Member(p),
                 user[p].id = request[o].saw.id
          PROVE  Overlapped(o, z) \/ Rooted(p, w, z)
        BY <3>1, <3>3, <3>5 DEF ResetInv, OpeningsRooted
    <3>6. CASE o # r
      <4>1. request'[o] = request[o] /\ Opening(o) /\ request[o].saw.id \in Made
          BY <1>1, <3>6 DEF Moved, Opening, At, ResetInv, IdsMade
      <4>2. CASE user'[p].id = user[p].id /\ (Member(p)' => Member(p))
          BY <3>3, <3>5, <4>1, <4>2 DEF Member
      <4>3. CASE CreateMember(r) /\ user'[p].id = r
          BY <3>3, <4>1, <4>3, AccountsAssumption DEF CreateMember, At, Made
      <4> QED BY <2>0, <3>1, <4>2, <4>3 DEF UsersMoved
    <3>7. CASE o = r
      <4>1. CASE /\ Opening(r) /\ user' = user
                 /\ request'[r].who = request[r].who /\ request'[r].saw = request[r].saw
          BY <3>3, <3>5, <3>7, <4>1 DEF Member
      <4>2. CASE w = user'[p].pw
          BY <1>0, <3>1, <3>2, <3>3, <4>2
      <4>3. ASSUME NEW k \in Names, session[k].state = "live", session[k].of = p, session[k].pw = w
            PROVE  Rooted(p, w, z)
          BY <3>1, <3>3, <4>3 DEF ResetInv, SessionsRooted
      <4> QED BY <1>1, <3>3, <3>7, <4>1, <4>2, <4>3, OpensFrom
    <3> QED BY <3>6, <3>7
  <2> QED BY <2>2, <2>3
<1>2. CASE Quiet
  <2>1. /\ user' = user /\ session' = session /\ overlap' = overlap
        /\ \A q \in Requests : /\ request'[q].op = request[q].op /\ request'[q].who = request[q].who
                               /\ request'[q].saw = request[q].saw
                               /\ \/ request'[q].pc \in {request[q].pc, "failed"}
                                  \/ request[q].op = "accept" /\ request'[q].pc = "unmarked"
      BY <1>2, QuietPlain DEF Quiet
  <2>2. Overlapped(o, z) \/ Rooted(p, w, z)
      BY <2>1 DEF ResetInv, OpeningsRooted, Opening, At, Member
  <2> QED BY <2>1, <2>2 DEF Rooted, Tokens, Overlapped
<1> QED BY <1>1, <1>2, NextCases

LEMMA SessionsRootedStep ==
    ASSUME IInv, Phased, Together, SessionInv, ResetInv, Next
    PROVE  SessionsRooted'
<1>0. RequestsTyped /\ RowsOk
    BY DEF IInv
<1> SUFFICES ASSUME NEW z \in Requests, NEW n \in Names, NEW p, NEW w, At(z, "reset", "done")',
                    session'[n].state = "live", p = request'[z].who, session'[n].of = p,
                    w = session'[n].pw, w < request'[z].saw.pw
             PROVE  Rooted(p, w, z)'
    BY DEF SessionsRooted, Rooted
<1>1. ASSUME NEW r \in Requests, Acts(r), Moved(r), Entered(r)
      PROVE  Rooted(p, w, z)'
  <2>0. TokensMoved(r)
      BY <1>1, TokensMove
  <2>1. CASE z = r
    <3>1. session' = Without({m \in Names : session[m].of = request[z].who}) /\ request[z].pc = "revoke"
          /\ Goto(z, "done")
        BY <1>1, <2>1 DEF Entered, RevokeAll, At
    <3>2. request'[z].who = request[z].who
        BY <1>0, <3>1, GotoMoves DEF Running
    <3>3. session[n] \in SessionRow
        BY <1>0 DEF RowsOk
    <3> QED BY <3>1, <3>2, <3>3 DEF Without, SessionRow
  <2>2. CASE z # r
    <3>1. request'[z] = request[z] /\ At(z, "reset", "done") /\ p = request[z].who /\ w < request[z].saw.pw
        BY <1>1, <2>2 DEF Moved, At
    <3>3. CASE n # r
      <4>1. session[n].state = "live" /\ session[n].of = p /\ session[n].pw = w
          BY <2>0, <3>1, <3>3 DEF TokensMoved
      <4>2. Rooted(p, w, z)
          BY <3>1, <4>1 DEF ResetInv, SessionsRooted
      <4> QED BY <1>1, <3>3, <4>1, <4>2, RootKept
    <3>4. CASE n = r
      <4>0. session[r].state = "none" /\ r \in Names
          BY <1>1, NameOfRequest, AccountsAssumption DEF SessionInv, Tokens, Past, Moved
      <4>1. Mint(r)
          BY <2>0, <3>4, <4>0 DEF TokensMoved
      <4>2. /\ Opening(r) /\ Member(request[r].who) /\ user[request[r].who].id = request[r].saw.id
            /\ session' = [session EXCEPT ![r] = [state |-> "live", of |-> request[r].who, at |-> second,
                                                  pw |-> request[r].saw.pw]]
            /\ user' = user
          BY <3>4, <4>0, <4>1 DEF Mint, Opening
      <4>3. session'[r].of = request[r].who /\ session'[r].pw = request[r].saw.pw
          BY <1>0, <4>0, <4>2 DEF RowsOk
      <4>4. request[r].who = p /\ request[r].saw.pw = w
          BY <3>4, <4>3
      <4>5. Overlapped(r, z) \/ Rooted(p, w, z)
          BY <3>1, <4>2, <4>4 DEF ResetInv, OpeningsRooted
      <4>6. CASE Overlapped(r, z)
        <5>1. {r, z} \in overlap' /\ r \in Tokens'
            BY <1>1, <3>4, <4>0, <4>6 DEF Moved, Overlapped, Tokens
        <5> QED BY <3>4, <5>1 DEF Rooted, Overlapped
      <4>7. CASE Rooted(p, w, z)
        <5>1. user'[p].role # "none"
            BY <4>2, <4>4 DEF Member
        <5> QED BY <1>1, <4>7, <5>1, RootKept
      <4> QED BY <4>5, <4>6, <4>7
    <3> QED BY <3>3, <3>4
  <2> QED BY <2>1, <2>2
<1>2. CASE Quiet
  <2>1. /\ session' = session /\ overlap' = overlap
        /\ \A q \in Requests : /\ request'[q].op = request[q].op /\ request'[q].who = request[q].who
                               /\ request'[q].saw = request[q].saw
                               /\ \/ request'[q].pc \in {request[q].pc, "failed"}
                                  \/ request[q].op = "accept" /\ request'[q].pc = "unmarked"
      BY <1>2, QuietPlain DEF Quiet
  <2>2. Rooted(p, w, z)
      BY <2>1 DEF ResetInv, SessionsRooted, At
  <2> QED BY <2>1, <2>2 DEF Rooted, Tokens, Overlapped
<1> QED BY <1>1, <1>2, NextCases

-----------------------------------------------------------------------------
(* All of it together.                                                     *)

(* The inductive invariant.                                                *)
OverlapInv == Phased /\ Together /\ QuotaInv /\ InviteInv /\ AcceptInv /\ SessionInv /\ ResetInv

LEMMA InitOverlapInv == Init => OverlapInv
<1> SUFFICES ASSUME Init PROVE OverlapInv
    OBVIOUS
<1>1. /\ \A r \in Requests : request[r] = Idle
      /\ \A n \in Names : session[n].state # "none" <=> n = Seed
      /\ \A n \in Names : invite[n].state # "none" => n = Seed
      /\ \A n \in Names : resetToken[n].state = "none"
      /\ \A p \in People : user[p].id = Seed
      /\ projects = {}
    BY NameOfRequest DEF Init, NoSession, NoToken
<1> USE DEF Idle
<1>2. Phased /\ Together
    BY <1>1 DEF Phased, Together, Running
<1>3. QuotaInv
  <2>1. Counted = {} /\ DemoProjects = {} /\ \A S \in SUBSET Counted : S = {}
      BY <1>1 DEF Counted, DemoProjects
  <2>2. \A r \in Requests : ~At(r, "project", "create")
      BY <1>1 DEF At
  <2>3. IsFiniteSet(projects)
      BY <1>1, FS_EmptySet
  <2>4. \A S \in SUBSET Counted : Cardinality(S) <= MaxProjects
      BY <2>1, FS_EmptySet, AccountsAssumption
  <2> QED BY <1>1, <2>1, <2>2, <2>3, <2>4 DEF QuotaInv
<1>4. InviteInv
    BY <1>1 DEF InviteInv, InviteSupersedes, At
<1>a. AcceptInv
  <2>1. /\ \A r \in Requests : request[r].op = "none"
        /\ \A n \in Names : invite[n].state # "none" => n \in Past
      BY <1>1 DEF Past
  <2> QED BY <2>1 DEF AcceptInv, Joining
<1>5. SessionInv
  <2>1. Tokens = {Seed}
      BY <1>1, NameOfRequest DEF Tokens
  <2>2. IsFiniteSet(Tokens) /\ Tokens \subseteq Past
      BY <2>1, FS_Singleton DEF Past
  <2> QED BY <1>1, <2>2 DEF SessionInv, Refreshing
<1>6. ResetInv
    BY <1>1 DEF ResetInv, IdsMade, Made, ResetRows, Usable, OpeningsRooted, SessionsRooted, At
<1> QED BY <1>2, <1>3, <1>4, <1>a, <1>5, <1>6 DEF OverlapInv

LEMMA NextOverlapInv == IInv /\ OverlapInv /\ [Next]_vars => OverlapInv'
<1>1. ASSUME IInv, OverlapInv, Next PROVE OverlapInv'
    BY <1>1, PhasedStep, TogetherStep, QuotaStep, InviteInvStep, AcceptInvStep, SessionInvStep,
       IdsMadeStep, ResetRowsStep, OpeningsStep, SessionsRootedStep DEF OverlapInv, ResetInv
<1>2. ASSUME IInv, OverlapInv, UNCHANGED vars PROVE OverlapInv'
  <2>1. UNCHANGED <<request, overlap, user, session, invite, resetToken, projects>>
      BY <1>2 DEF vars, rowVars
  <2>2. Tokens' = Tokens /\ Past' = Past /\ Made' = Made /\ Paired' = Paired
      BY <2>1 DEF Tokens, Past, Made, Paired, Alike
  <2>3. QuotaInv'
      BY <1>2, <2>1 DEF OverlapInv, Overlapped, QuotaInv, Apart, Beside, Counted, DemoProjects, OfDemo, At
  <2>4. Phased' /\ Together' /\ InviteInv' /\ AcceptInv'
      BY <1>2, <2>1, <2>2 DEF OverlapInv, Phased, Together, Running, Overlapped, At,
         InviteInv, InviteSupersedes, Pending, AcceptInv, Joining, Joined
  <2>5. SessionInv' /\ IdsMade' /\ ResetRows'
      BY <1>2, <2>1, <2>2 DEF OverlapInv, SessionInv, Refreshing, Overlapped, ResetInv, IdsMade, ResetRows,
         Usable, Member
  <2>6. OpeningsRooted' /\ SessionsRooted'
      BY <1>2, <2>1, <2>2 DEF OverlapInv, ResetInv, OpeningsRooted, SessionsRooted, Rooted, Opening, At, Member,
         Overlapped
  <2> QED BY <2>3, <2>4, <2>5, <2>6 DEF OverlapInv, ResetInv
<1> QED BY <1>1, <1>2

LEMMA OverlapInvariance == Spec => []OverlapInv
<1>1. Init => IInv /\ OverlapInv
    BY InitIInv, InitOverlapInv
<1>2. (IInv /\ OverlapInv) /\ [Next]_vars => (IInv /\ OverlapInv)'
    BY NextIInv, NextOverlapInv
<1> QED BY <1>1, <1>2, PTL DEF Spec

(* createProject counts, then creates: the quota is exceeded only by       *)
(* requests that ran at the same time, however long the series of calls,   *)
(* the demo project set aside, which is created without counting; of this  *)
(* there is one at most, however seeds and removals overlap.               *)
THEOREM QuotaHolds == Spec => []QuotaHoldsAlone
<1>1. OverlapInv => QuotaHoldsAlone
  <2> SUFFICES ASSUME OverlapInv
               PROVE  /\ Cardinality(Counted) > MaxProjects =>
                             \E m, n \in Counted : m # n /\ Overlapped(m, n)
                      /\ Cardinality(DemoProjects) <= 1
      BY DEF QuotaHoldsAlone, Counted
  <2>1. ASSUME Cardinality(Counted) > MaxProjects
        PROVE  ~Apart(Counted)
    <3>1. Cardinality(Counted) \in Nat
        BY CountedFinite DEF OverlapInv
    <3> QED BY <2>1, <3>1, AccountsAssumption DEF OverlapInv, QuotaInv
  <2>2. Cardinality(DemoProjects) <= 1
    <3>1. DemoProjects = {} \/ \E n \in DemoProjects : DemoProjects = {n}
        BY DEF OverlapInv, QuotaInv
    <3> QED BY <3>1, FS_EmptySet, FS_Singleton
  <2> QED BY <2>1, <2>2 DEF Apart
<1> QED BY <1>1, OverlapInvariance, PTL

(* createInvite withdraws the earlier invites of the address: two are open *)
(* only if they were made at the same time.                                *)
THEOREM InvitesSuperseded == Spec => []InviteSupersedes
<1>1. OverlapInv => InviteSupersedes
    BY DEF OverlapInv, InviteInv
<1> QED BY <1>1, OverlapInvariance, PTL

(* acceptInvite: one invite makes two members only if it is accepted by    *)
(* two requests at the same time, or if the process of one of them ended   *)
(* between making the member and marking the invite.                       *)
THEOREM InviteJoinsOnce == Spec => []JoinedOnce
<1>1. OverlapInv => JoinedOnce
    BY DEF OverlapInv, AcceptInv, JoinedOnce, Joining, Joined
<1> QED BY <1>1, OverlapInvariance, PTL

(* refreshTokens exchanges a token once, except by two refreshes at the    *)
(* same time or for tokens signed in the same second.                      *)
THEOREM TokenExchangedOnce == Spec => []ExchangedOnce
<1>1. OverlapInv => ExchangedOnce
    BY ExchangedOnceHolds DEF OverlapInv
<1> QED BY <1>1, OverlapInvariance, PTL

(* resetPassword ends the sessions of the old password, except those that  *)
(* were being opened while it ran and those they are exchanged for.        *)
THEOREM ResetEnds == Spec => []ResetEndsSessions
<1>1. OverlapInv => ResetEndsSessions
    BY DEF OverlapInv, ResetInv, SessionsRooted, Rooted, ResetEndsSessions, Tokens, Minted
<1> QED BY <1>1, OverlapInvariance, PTL
=============================================================================

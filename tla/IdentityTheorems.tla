------------------------- MODULE IdentityTheorems -------------------------
(***************************************************************************)
(* Theorems about module Identity, for every number of users, addresses    *)
(* and concurrent requests, and every limit of failed logins.              *)
(***************************************************************************)
EXTENDS Identity, TableTheorems

(***************************************************************************)
(* The inductive invariant.  The properties are not inductive: that codes  *)
(* serve their purpose needs that a slot says what the mail of its code    *)
(* said and that no other slot has that code (SlotsFollowMails), that the  *)
(* verified are proven needs that a link which still verifies went to the  *)
(* address of the row (LinksAreCurrent) and a pending change to its target *)
(* (ChangesGoToTarget), and that the replaced are revoked needs what a     *)
(* request between two transactions may rely on (HandedOver).              *)
(***************************************************************************)
UsersOK ==
  /\ users \in [Users -> UserRow]
  /\ \A u \in Users : ColumnsAgree(users[u].code)

TablesOK ==
  /\ mails \in Seq(Mail) /\ invites \in Seq(Invite) /\ tokens \in Seq(Token)
  /\ links \subseteq Users \X Addresses /\ proven \subseteq Users \X Addresses
  /\ honoured \subseteq Nat \X Purposes

RequestsOK == handling \in [Requests -> UnderWay \cup {Idle}]

\* What is in a slot is what the last mail of that code said, and two rows
\* never hold the same code.
SlotsFollowMails ==
  \A u \in Users : users[u].code.otp # 0 =>
    /\ users[u].code.otp \in DOMAIN mails
    /\ mails[users[u].code.otp].purpose = users[u].code.purpose
    /\ \A v \in Users \ {u} : users[v].code.otp # users[u].code.otp

Codes == SlotsFollowMails /\ CodeServesItsPurpose /\ SpentCodesAreGone

\* An account that is not verified has still the address its link went to,
\* and a pending new address is the one its code went to.
LinksAreCurrent ==
  \A l \in links : users[l[1]].verified \/ users[l[1]].email = l[2]

ChangesGoToTarget ==
  \A u \in Users : users[u].code.purpose = "email-change" =>
    mails[users[u].code.otp].to = users[u].code.target

Proofs == VerifiedIsProven /\ LinksAreCurrent

\* What a request may be waiting with: a token it looked up is in the table,
\* and one it is about to replace has been revoked.
MayHold(h) ==
  /\ h.next \in {"check", "revoke"} => h.token \in DOMAIN tokens
  /\ h.next = "clear" => h.token = 0
  /\ h.next = "persist" /\ h.token # 0 =>
       h.token \in DOMAIN tokens /\ ~tokens[h.token].live

HandedOver == \A r \in Requests : MayHold(handling[r])

Chain ==
  /\ ReplacedIsRevoked /\ HandedOver
  /\ \A t \in DOMAIN tokens : tokens[t].from # 0 => tokens[t].from \in DOMAIN tokens

IInv ==
  /\ UsersOK /\ TablesOK /\ RequestsOK
  /\ Codes /\ ChangesGoToTarget /\ Proofs /\ LockFollowsFailures /\ Chain

-----------------------------------------------------------------------------
(***************************************************************************)
(* Types.                                                                  *)
(***************************************************************************)
\* One row is written, and its columns agree.
LEMMA OneRow ==
  ASSUME UsersOK, NEW u \in Users, NEW row \in UserRow, ColumnsAgree(row.code),
         users' = [users EXCEPT ![u] = row]
  PROVE  UsersOK'
  BY DEF UsersOK

\* The slot of one row is written.
LEMMA OneCode ==
  ASSUME UsersOK, NEW u \in Users, NEW c \in Slot, ColumnsAgree(c),
         users' = [users EXCEPT ![u].code = c]
  PROVE  UsersOK'
  <1> DEFINE row == [users[u] EXCEPT !.code = c]
  <1>1. users' = [users EXCEPT ![u] = row]
    OBVIOUS
  <1>2. row \in UserRow /\ row.code = c
    BY DEF UsersOK, UserRow
  <1> QED
    BY <1>1, <1>2, OneRow

\* The counter of failures may be cleared and may be at its limit.
LEMMA Limits == 0 \in 0 .. MaxFailures /\ MaxFailures \in 0 .. MaxFailures
  BY IdentityAssumption

\* Clearing the four columns leaves them in agreement.
LEMMA Empty == EmptySlot \in Slot /\ ColumnsAgree(EmptySlot)
  BY DEF EmptySlot, Slot, ColumnsAgree

\* INSERT of a user.
LEMMA NewRow ==
  ASSUME NEW e \in Addresses, NEW verified \in BOOLEAN, NEW role \in Roles
  PROVE  /\ NewUser(e, verified, role) \in UserRow
         /\ ColumnsAgree(NewUser(e, verified, role).code)
  BY Empty, IdentityAssumption DEF NewUser, UserRow

\* A request that is at some step has a user, a purpose and an address.
LEMMA Busy ==
  ASSUME RequestsOK, NEW r \in Requests, handling[r].next # "nothing"
  PROVE  /\ handling[r] \in UnderWay
         /\ handling[r].user \in Users /\ handling[r].purpose \in {"login", "admin-login"}
         /\ handling[r].email \in Addresses /\ handling[r].token \in Nat
  BY DEF RequestsOK, UnderWay, Idle

\* IssueCode: the slot and the table of mails after a new code.
LEMMA Issued ==
  ASSUME UsersOK, mails \in Seq(Mail), NEW u \in Users, NEW purpose \in Purposes,
         NEW to \in Addresses, NEW target \in Addresses \cup {NoAddress},
         target = NoAddress <=> purpose # "email-change",
         IssueCode(u, purpose, to, target)
  PROVE  /\ UsersOK' /\ mails' \in Seq(Mail)
         /\ DOMAIN mails' = DOMAIN mails \cup {Len(mails) + 1}
         /\ \A m \in DOMAIN mails : mails'[m] = mails[m]
         /\ mails'[Len(mails) + 1] = [to |-> to, purpose |-> purpose]
         /\ Len(mails) + 1 \notin DOMAIN mails /\ Len(mails) + 1 # 0
  <1> DEFINE c == [otp |-> Len(mails) + 1, fresh |-> TRUE, purpose |-> purpose,
                   target |-> target]
  <1>1. Len(mails) + 1 \in Nat \ {0} /\ Len(mails) + 1 \notin DOMAIN mails
    BY RowsOf
  <1>2. c \in Slot /\ ColumnsAgree(c)
    BY <1>1 DEF Slot, ColumnsAgree, Purposes
  <1>3. UsersOK'
    BY <1>2, OneCode DEF IssueCode
  <1>4. [to |-> to, purpose |-> purpose] \in Mail
    BY DEF Mail
  <1> QED
    BY <1>1, <1>3, <1>4, OneMoreRow DEF IssueCode

\* Every step leaves well-formed users.
LEMMA UsersStep == IInv /\ [Next]_vars => UsersOK'
  <1> SUFFICES ASSUME IInv, Next PROVE UsersOK'
    BY DEF UsersOK, IInv, vars
  <1>1. UsersOK /\ RequestsOK /\ mails \in Seq(Mail) /\ invites \in Seq(Invite)
    BY DEF IInv, TablesOK
  <1>2. \A u \in Users : /\ users[u] \in UserRow /\ users[u].code \in Slot
                         /\ ColumnsAgree(users[u].code)
    BY <1>1 DEF UsersOK, UserRow
  <1>3. ASSUME NEW r \in Requests, Session(r)
        PROVE  UsersOK'
    <2>1. ASSUME NEW u \in Users, NEW e \in Addresses, Register(r, u, e)
          PROVE  UsersOK'
      BY <1>1, <2>1, NewRow, OneRow DEF Register, Roles
    <2>2. ASSUME NEW u \in Users, NEW e \in Addresses, GoogleCallback(r, u, e)
          PROVE  UsersOK'
      <3>1. CASE users' = [users EXCEPT ![u].verified = TRUE]
        BY <1>1, <3>1 DEF UsersOK, UserRow
      <3>2. CASE users' = [users EXCEPT ![u] = NewUser(e, TRUE, "user")]
        BY <1>1, <3>2, NewRow, OneRow DEF Roles
      <3> QED
        BY <2>2, <3>1, <3>2 DEF GoogleCallback
    <2>3. CASE LoginFails(r)
      <3> DEFINE u == handling[r].user
                 count == users[u].failed + 1
                 full == [users[u] EXCEPT !.failed = MaxFailures, !.lock = "on"]
                 more == [users[u] EXCEPT !.failed = count]
      <3>1. u \in Users
        BY <1>1, <2>3, Busy DEF LoginFails, At
      <3>2. CASE count >= MaxFailures
        <4>1. users' = [users EXCEPT ![u] = full]
          BY <2>3, <3>2 DEF LoginFails
        <4>2. full \in UserRow /\ full.code = users[u].code
          BY <1>2, <3>1, Limits DEF UserRow
        <4> QED
          BY <1>1, <1>2, <3>1, <4>1, <4>2, OneRow
      <3>3. CASE ~(count >= MaxFailures)
        <4>1. users' = [users EXCEPT ![u] = more]
          BY <1>2, <2>3, <3>1, <3>3 DEF LoginFails, UserRow
        <4>2. users[u].failed \in 0 .. MaxFailures
          BY <1>2, <3>1 DEF UserRow
        <4>3. count \in 0 .. MaxFailures
          BY <3>3, <4>2, IdentityAssumption
        <4>4. more \in UserRow /\ more.code = users[u].code
          BY <1>2, <3>1, <4>3 DEF UserRow
        <4> QED
          BY <1>1, <1>2, <3>1, <4>1, <4>4, OneRow
      <3> QED
        BY <3>2, <3>3
    <2>4. CASE LoginClears(r)
      <3> DEFINE u == handling[r].user
                 row == [users[u] EXCEPT !.failed = 0, !.lock = "none"]
      <3>1. u \in Users
        BY <1>1, <2>4, Busy DEF LoginClears, At
      <3>2. users' = [users EXCEPT ![u] = row]
        BY <2>4 DEF LoginClears
      <3>3. row \in UserRow /\ row.code = users[u].code
        BY <1>2, <3>1, Limits DEF UserRow
      <3> QED
        BY <1>1, <1>2, <3>1, <3>2, <3>3, OneRow
    <2>5. CASE LoginIssues(r)
      <3>1. /\ handling[r].user \in Users /\ handling[r].email \in Addresses
            /\ handling[r].purpose \in {"login", "admin-login"}
        BY <1>1, <2>5, Busy DEF LoginIssues, At
      <3>2. handling[r].purpose \in Purposes /\ handling[r].purpose # "email-change"
        BY <3>1 DEF Purposes
      <3> QED
        BY <1>1, <2>5, <3>1, <3>2, Issued DEF LoginIssues
    <2>6. CASE VerifyClears(r)
      BY <1>1, <2>6, Busy, Empty, OneCode DEF VerifyClears, At
    <2>7. CASE ResetCommits(r)
      <3>1. handling[r].user \in Users
        BY <1>1, <2>7, Busy DEF ResetCommits, At
      <3> DEFINE u == handling[r].user
                 row == [users[u] EXCEPT !.reset = FALSE]
      <3>2. users' = [users EXCEPT ![u] = row]
        BY <2>7 DEF ResetCommits
      <3>3. row \in UserRow /\ row.code = users[u].code
        BY <1>2, <3>1 DEF UserRow
      <3> QED
        BY <1>1, <1>2, <3>1, <3>2, <3>3, OneRow
    <2> QED
      BY <1>1, <1>3, <2>1, <2>2, <2>3, <2>4, <2>5, <2>6, <2>7
      DEF Session, Login, AdminLogin, ResendOtp, AdminResendOtp, VerifyOtp, AdminVerifyOtp,
          LoginReads, ResendReads, VerifyReads, RefreshAsserts, RefreshChecks,
          RefreshRevokes, Persists, ResetReads, Fails, UsersOK
  <1>4. ASSUME NEW u \in Users, Account(u)
        PROVE  UsersOK'
    <2>1. ASSUME NEW e \in Addresses, VerifyEmail(u, e)
          PROVE  UsersOK'
      BY <1>1, <2>1 DEF UsersOK, UserRow, VerifyEmail
    <2>2. ASSUME NEW e \in Addresses, InitiateEmailChange(u, e)
          PROVE  UsersOK'
      BY <1>1, <2>2, Issued, IdentityAssumption DEF InitiateEmailChange, Purposes
    <2>3. CASE ConfirmEmailChange(u)
      <3> DEFINE row == [users[u] EXCEPT !.email = users[u].code.target,
                                         !.verified = TRUE, !.code = EmptySlot]
      <3>1. users' = [users EXCEPT ![u] = row]
        BY <2>3 DEF ConfirmEmailChange
      <3>2. users[u].code.target \in Addresses \cup {NoAddress}
        BY <1>2 DEF Slot
      <3>3. row \in UserRow /\ row.code = EmptySlot
        BY <1>2, <3>2, Empty DEF UserRow
      <3> QED
        BY <1>1, <3>1, <3>3, Empty, OneRow
    <2>4. CASE InitiateAccountDeletion(u)
      <3>1. users[u].email \in Addresses
        BY <1>2, <2>4 DEF InitiateAccountDeletion, Exists, UserRow
      <3> QED
        BY <1>1, <2>4, <3>1, Issued DEF InitiateAccountDeletion, Purposes
    <2>5. CASE ConfirmAccountDeletion(u)
      <3> DEFINE row == [users[u] EXCEPT !.deleted = TRUE, !.suspended = TRUE,
                                         !.code = EmptySlot]
      <3>1. users' = [users EXCEPT ![u] = row]
        BY <2>5 DEF ConfirmAccountDeletion
      <3>2. row \in UserRow /\ row.code = EmptySlot
        BY <1>2, Empty DEF UserRow
      <3> QED
        BY <1>1, <3>1, <3>2, Empty, OneRow
    <2>6. CASE ForgotPassword(u)
      BY <1>1, <2>6 DEF UsersOK, UserRow, ForgotPassword
    <2> QED
      BY <1>1, <1>4, <2>1, <2>2, <2>3, <2>4, <2>5, <2>6 DEF Account, Logout, UsersOK
  <1>5. ASSUME NEW u \in Users, Clock(u)
        PROVE  UsersOK'
    <2>1. CASE PassCodeWindow(u)
      <3> DEFINE c == [users[u].code EXCEPT !.fresh = FALSE]
      <3>1. users' = [users EXCEPT ![u].code = c]
        BY <2>1 DEF PassCodeWindow
      <3>2. c \in Slot /\ ColumnsAgree(c)
        BY <1>2 DEF Slot, ColumnsAgree
      <3> QED
        BY <1>1, <3>1, <3>2, OneCode
    <2>2. CASE PassResetWindow(u)
      BY <1>1, <2>2 DEF UsersOK, UserRow, PassResetWindow
    <2>3. CASE PassLock(u)
      BY <1>1, <2>3 DEF UsersOK, UserRow, PassLock
    <2> QED
      BY <1>5, <2>1, <2>2, <2>3 DEF Clock
  <1>6. CASE Administration
    <2>1. ASSUME NEW u \in Users, NEW yes \in BOOLEAN, SetSuspended(u, yes)
          PROVE  UsersOK'
      <3> DEFINE row == [users[u] EXCEPT !.suspended = yes]
      <3>1. users' = [users EXCEPT ![u] = row]
        BY <2>1 DEF SetSuspended
      <3>2. row \in UserRow /\ row.code = users[u].code
        BY <1>2 DEF UserRow
      <3> QED
        BY <1>1, <1>2, <3>1, <3>2, OneRow
    <2>2. ASSUME NEW u \in Users, NEW role \in Roles, SetRole(u, role)
          PROVE  UsersOK'
      BY <1>1, <2>2 DEF UsersOK, UserRow, SetRole
    <2>3. ASSUME NEW i \in DOMAIN invites, NEW u \in Users, AcceptAdminInvite(i, u)
          PROVE  UsersOK'
      <3> DEFINE row == [users[u] EXCEPT !.role = "admin"]
      <3>1. users' = [users EXCEPT ![u] = row]
        BY <2>3 DEF AcceptAdminInvite
      <3>2. row \in UserRow /\ row.code = users[u].code
        BY <1>2 DEF UserRow, Roles
      <3> QED
        BY <1>1, <1>2, <3>1, <3>2, OneRow
    <2>4. ASSUME NEW i \in DOMAIN invites, NEW u \in Users, CompleteAdminSetup(i, u)
          PROVE  UsersOK'
      <3>0. invites[i] \in Invite
        BY <1>1, RowsOf
      <3>1. invites[i].email \in Addresses
        BY <3>0 DEF Invite
      <3>2. /\ NewUser(invites[i].email, TRUE, "admin") \in UserRow
            /\ ColumnsAgree(NewUser(invites[i].email, TRUE, "admin").code)
        BY <3>1, NewRow DEF Roles
      <3> QED
        BY <1>1, <2>4, <3>2, OneRow DEF CompleteAdminSetup
    <2> QED
      BY <1>1, <1>6, <2>1, <2>2, <2>3, <2>4
      DEF Administration, SuspendUser, ReinstateUser, RemoveAdmin,
          UpgradeAdminToSuperAdmin, InviteAdmin, PassInviteWindow, Roles, UsersOK
  <1> QED
    BY <1>3, <1>4, <1>5, <1>6 DEF Next

-----------------------------------------------------------------------------
(***************************************************************************)
(* What a step does to the slots.                                          *)
(***************************************************************************)
Keeps(u) ==
  \/ users'[u].code = EmptySlot
  \/ /\ users'[u].code.otp = users[u].code.otp
     /\ users'[u].code.purpose = users[u].code.purpose
     /\ users'[u].code.target = users[u].code.target

NoNewCode == mails' = mails /\ \A u \in Users : Keeps(u)

Spends(u, purpose) ==
  /\ Presents(u, purpose)
  /\ purpose \in {"account-delete", "email-change"} => users'[u].code = EmptySlot

Issues(u, purpose, to, target) ==
  /\ IssueCode(u, purpose, to, target)
  /\ target = NoAddress <=> purpose # "email-change"
  /\ target # NoAddress => to = target

SlotStep ==
  \/ NoNewCode /\ honoured' = honoured
  \/ NoNewCode /\ \E u \in Users, purpose \in Purposes : Spends(u, purpose)
  \/ /\ honoured' = honoured
     /\ \E u \in Users, purpose \in Purposes, to \in Addresses,
          target \in Addresses \cup {NoAddress} : Issues(u, purpose, to, target)

\* A row is replaced, or some of its columns, and the slot stays.
LEMMA OneKept ==
  ASSUME UsersOK, NEW u \in Users, NEW row, users' = [users EXCEPT ![u] = row],
         row.code = users[u].code \/ row.code = EmptySlot
  PROVE  \A v \in Users : Keeps(v)
  BY DEF UsersOK, Keeps

\* Every step does one of the three things SlotStep lists.
LEMMA Slots == IInv /\ Next => SlotStep
  <1> SUFFICES ASSUME IInv, Next PROVE SlotStep
    OBVIOUS
  <1>1. UsersOK /\ RequestsOK
    BY DEF IInv
  <1>2. \A u \in Users : users[u] \in UserRow
    BY <1>1 DEF UsersOK
  <1>3. ASSUME users' = users
        PROVE  \A v \in Users : Keeps(v)
    BY <1>3 DEF Keeps
  <1>4. ASSUME NEW r \in Requests, Session(r)
        PROVE  SlotStep
    <2>1. ASSUME NEW u \in Users, NEW e \in Addresses, Register(r, u, e)
          PROVE  SlotStep
      <3>1. NewUser(e, FALSE, "user").code = EmptySlot
        BY DEF NewUser
      <3> QED
        BY <1>1, <2>1, <3>1, OneKept DEF Register, SlotStep, NoNewCode
    <2>2. ASSUME NEW u \in Users, NEW e \in Addresses, GoogleCallback(r, u, e)
          PROVE  SlotStep
      <3>1. CASE users' = [users EXCEPT ![u].verified = TRUE]
        <4> DEFINE row == [users[u] EXCEPT !.verified = TRUE]
        <4>1. users' = [users EXCEPT ![u] = row] /\ row.code = users[u].code
          BY <1>2, <3>1 DEF UserRow
        <4> QED
          BY <1>1, <2>2, <4>1, OneKept DEF GoogleCallback, SlotStep, NoNewCode
      <3>2. CASE users' = [users EXCEPT ![u] = NewUser(e, TRUE, "user")]
        <4>1. NewUser(e, TRUE, "user").code = EmptySlot
          BY DEF NewUser
        <4> QED
          BY <1>1, <2>2, <3>2, <4>1, OneKept DEF GoogleCallback, SlotStep, NoNewCode
      <3> QED
        BY <2>2, <3>1, <3>2 DEF GoogleCallback
    <2>3. CASE LoginFails(r)
      <3> DEFINE u == handling[r].user
                 row == [users[u] EXCEPT
                   !.failed = IF users[u].failed + 1 >= MaxFailures
                              THEN MaxFailures ELSE users[u].failed + 1,
                   !.lock = IF users[u].failed + 1 >= MaxFailures THEN "on" ELSE @]
      <3>1. u \in Users
        BY <1>1, <2>3, Busy DEF LoginFails, At
      <3>2. users' = [users EXCEPT ![u] = row] /\ row.code = users[u].code
        BY <1>2, <2>3, <3>1 DEF LoginFails, UserRow
      <3> QED
        BY <1>1, <2>3, <3>1, <3>2, OneKept DEF LoginFails, SlotStep, NoNewCode
    <2>4. CASE LoginClears(r)
      <3> DEFINE u == handling[r].user
                 row == [users[u] EXCEPT !.failed = 0, !.lock = "none"]
      <3>1. u \in Users
        BY <1>1, <2>4, Busy DEF LoginClears, At
      <3>2. users' = [users EXCEPT ![u] = row] /\ row.code = users[u].code
        BY <1>2, <2>4, <3>1 DEF LoginClears, UserRow
      <3> QED
        BY <1>1, <2>4, <3>1, <3>2, OneKept DEF LoginClears, SlotStep, NoNewCode
    <2>5. CASE LoginIssues(r)
      <3>1. /\ handling[r].user \in Users /\ handling[r].email \in Addresses
            /\ handling[r].purpose \in {"login", "admin-login"}
        BY <1>1, <2>5, Busy DEF LoginIssues, At
      <3>2. handling[r].purpose \in Purposes /\ handling[r].purpose # "email-change"
        BY <3>1 DEF Purposes
      <3>3. Issues(handling[r].user, handling[r].purpose, handling[r].email, NoAddress)
        BY <2>5, <3>2 DEF LoginIssues, Issues
      <3> QED
        BY <2>5, <3>1, <3>2, <3>3 DEF LoginIssues, SlotStep
    <2>6. CASE VerifyClears(r)
      <3> DEFINE u == handling[r].user
                 row == [users[u] EXCEPT !.code = EmptySlot]
      <3>1. u \in Users
        BY <1>1, <2>6, Busy DEF VerifyClears, At
      <3>2. users' = [users EXCEPT ![u] = row] /\ row.code = EmptySlot
        BY <1>2, <2>6, <3>1 DEF VerifyClears, UserRow
      <3> QED
        BY <1>1, <2>6, <3>1, <3>2, OneKept DEF VerifyClears, SlotStep, NoNewCode
    <2>7. CASE ResetCommits(r)
      <3> DEFINE u == handling[r].user
                 row == [users[u] EXCEPT !.reset = FALSE]
      <3>1. u \in Users
        BY <1>1, <2>7, Busy DEF ResetCommits, At
      <3>2. users' = [users EXCEPT ![u] = row] /\ row.code = users[u].code
        BY <1>2, <2>7, <3>1 DEF ResetCommits, UserRow
      <3> QED
        BY <1>1, <2>7, <3>1, <3>2, OneKept DEF ResetCommits, SlotStep, NoNewCode
    <2>8. ASSUME NEW u \in Users, NEW purpose \in {"login", "admin-login"},
                 VerifyReads(r, u, purpose)
          PROVE  SlotStep
      <3>1. purpose \in Purposes /\ Spends(u, purpose)
        BY <2>8 DEF VerifyReads, Spends, Purposes
      <3> QED
        BY <1>3, <2>8, <3>1 DEF VerifyReads, SlotStep, NoNewCode
    <2> QED
      BY <1>3, <1>4, <2>1, <2>2, <2>3, <2>4, <2>5, <2>6, <2>7, <2>8
      DEF Session, Login, AdminLogin, ResendOtp, AdminResendOtp, VerifyOtp, AdminVerifyOtp,
          LoginReads, ResendReads, RefreshAsserts, RefreshChecks,
          RefreshRevokes, Persists, ResetReads, Fails, SlotStep, NoNewCode
  <1>5. ASSUME NEW u \in Users, Account(u)
        PROVE  SlotStep
    <2>1. ASSUME NEW e \in Addresses, VerifyEmail(u, e)
          PROVE  SlotStep
      <3> DEFINE row == [users[u] EXCEPT !.verified = TRUE]
      <3>1. users' = [users EXCEPT ![u] = row] /\ row.code = users[u].code
        BY <1>2, <2>1 DEF VerifyEmail, UserRow
      <3> QED
        BY <1>1, <2>1, <3>1, OneKept DEF VerifyEmail, SlotStep, NoNewCode
    <2>2. ASSUME NEW e \in Addresses, InitiateEmailChange(u, e)
          PROVE  SlotStep
      <3>1. "email-change" \in Purposes /\ Issues(u, "email-change", e, e)
        BY <2>2, IdentityAssumption DEF InitiateEmailChange, Issues, Purposes
      <3> QED
        BY <2>2, <3>1 DEF InitiateEmailChange, SlotStep
    <2>3. CASE ConfirmEmailChange(u)
      <3> DEFINE row == [users[u] EXCEPT !.email = users[u].code.target,
                                         !.verified = TRUE, !.code = EmptySlot]
      <3>1. users' = [users EXCEPT ![u] = row] /\ row.code = EmptySlot
        BY <1>2, <2>3 DEF ConfirmEmailChange, UserRow
      <3>2. users'[u].code = EmptySlot
        BY <1>1, <3>1 DEF UsersOK
      <3>3. "email-change" \in Purposes /\ Spends(u, "email-change")
        BY <2>3, <3>2 DEF ConfirmEmailChange, Spends, Purposes
      <3> QED
        BY <1>1, <2>3, <3>1, <3>3, OneKept DEF ConfirmEmailChange, SlotStep, NoNewCode
    <2>4. CASE InitiateAccountDeletion(u)
      <3>1. users[u].email \in Addresses
        BY <1>2, <2>4 DEF InitiateAccountDeletion, Exists, UserRow
      <3>2. /\ "account-delete" \in Purposes
            /\ Issues(u, "account-delete", users[u].email, NoAddress)
        BY <2>4 DEF InitiateAccountDeletion, Issues, Purposes
      <3> QED
        BY <2>4, <3>1, <3>2 DEF InitiateAccountDeletion, SlotStep
    <2>5. CASE ConfirmAccountDeletion(u)
      <3> DEFINE row == [users[u] EXCEPT !.deleted = TRUE, !.suspended = TRUE,
                                         !.code = EmptySlot]
      <3>1. users' = [users EXCEPT ![u] = row] /\ row.code = EmptySlot
        BY <1>2, <2>5 DEF ConfirmAccountDeletion, UserRow
      <3>2. users'[u].code = EmptySlot
        BY <1>1, <3>1 DEF UsersOK
      <3>3. "account-delete" \in Purposes /\ Spends(u, "account-delete")
        BY <2>5, <3>2 DEF ConfirmAccountDeletion, Spends, Purposes
      <3> QED
        BY <1>1, <2>5, <3>1, <3>3, OneKept DEF ConfirmAccountDeletion, SlotStep, NoNewCode
    <2>6. CASE ForgotPassword(u)
      <3> DEFINE row == [users[u] EXCEPT !.reset = TRUE]
      <3>1. users' = [users EXCEPT ![u] = row] /\ row.code = users[u].code
        BY <1>2, <2>6 DEF ForgotPassword, UserRow
      <3> QED
        BY <1>1, <2>6, <3>1, OneKept DEF ForgotPassword, SlotStep, NoNewCode
    <2> QED
      BY <1>3, <1>5, <2>1, <2>2, <2>3, <2>4, <2>5, <2>6
      DEF Account, Logout, SlotStep, NoNewCode
  <1>6. ASSUME NEW u \in Users, Clock(u)
        PROVE  SlotStep
    <2>1. CASE PassCodeWindow(u)
      <3>1. /\ users'[u].code.otp = users[u].code.otp
            /\ users'[u].code.purpose = users[u].code.purpose
            /\ users'[u].code.target = users[u].code.target
            /\ \A v \in Users : v # u => users'[v] = users[v]
        BY <1>1, <1>2, <2>1 DEF PassCodeWindow, UsersOK, UserRow, Slot
      <3> QED
        BY <2>1, <3>1 DEF PassCodeWindow, SlotStep, NoNewCode, Keeps
    <2>2. CASE PassResetWindow(u)
      <3> DEFINE row == [users[u] EXCEPT !.reset = FALSE]
      <3>1. users' = [users EXCEPT ![u] = row] /\ row.code = users[u].code
        BY <1>2, <2>2 DEF PassResetWindow, UserRow
      <3> QED
        BY <1>1, <2>2, <3>1, OneKept DEF PassResetWindow, SlotStep, NoNewCode
    <2>3. CASE PassLock(u)
      <3> DEFINE row == [users[u] EXCEPT !.lock = "past"]
      <3>1. users' = [users EXCEPT ![u] = row] /\ row.code = users[u].code
        BY <1>2, <2>3 DEF PassLock, UserRow
      <3> QED
        BY <1>1, <2>3, <3>1, OneKept DEF PassLock, SlotStep, NoNewCode
    <2> QED
      BY <1>6, <2>1, <2>2, <2>3 DEF Clock
  <1>7. CASE Administration
    <2>1. ASSUME NEW u \in Users, NEW yes \in BOOLEAN, SetSuspended(u, yes)
          PROVE  SlotStep
      <3> DEFINE row == [users[u] EXCEPT !.suspended = yes]
      <3>1. users' = [users EXCEPT ![u] = row] /\ row.code = users[u].code
        BY <1>2, <2>1 DEF SetSuspended, UserRow
      <3> QED
        BY <1>1, <2>1, <3>1, OneKept DEF SetSuspended, SlotStep, NoNewCode
    <2>2. ASSUME NEW u \in Users, NEW role \in Roles, SetRole(u, role)
          PROVE  SlotStep
      <3> DEFINE row == [users[u] EXCEPT !.role = role]
      <3>1. users' = [users EXCEPT ![u] = row] /\ row.code = users[u].code
        BY <1>2, <2>2 DEF SetRole, UserRow
      <3> QED
        BY <1>1, <2>2, <3>1, OneKept DEF SetRole, SlotStep, NoNewCode
    <2>3. ASSUME NEW i \in DOMAIN invites, NEW u \in Users, AcceptAdminInvite(i, u)
          PROVE  SlotStep
      <3> DEFINE row == [users[u] EXCEPT !.role = "admin"]
      <3>1. users' = [users EXCEPT ![u] = row] /\ row.code = users[u].code
        BY <1>2, <2>3 DEF AcceptAdminInvite, UserRow
      <3> QED
        BY <1>1, <2>3, <3>1, OneKept DEF AcceptAdminInvite, SlotStep, NoNewCode
    <2>4. ASSUME NEW i \in DOMAIN invites, NEW u \in Users, CompleteAdminSetup(i, u)
          PROVE  SlotStep
      <3>1. NewUser(invites[i].email, TRUE, "admin").code = EmptySlot
        BY DEF NewUser
      <3> QED
        BY <1>1, <2>4, <3>1, OneKept DEF CompleteAdminSetup, SlotStep, NoNewCode
    <2> QED
      BY <1>3, <1>7, <2>1, <2>2, <2>3, <2>4
      DEF Administration, SuspendUser, ReinstateUser, RemoveAdmin,
          UpgradeAdminToSuperAdmin, InviteAdmin, PassInviteWindow, Roles, SlotStep, NoNewCode
  <1> QED
    BY <1>4, <1>5, <1>6, <1>7 DEF Next

-----------------------------------------------------------------------------
(***************************************************************************)
(* Codes are honoured for their purpose, spent when they should be, and a  *)
(* new address is proven by its own code.                                  *)
(***************************************************************************)
\* No new code: a slot that is not empty is the slot it was.
LEMMA KeptSlots ==
  ASSUME IInv, NoNewCode, NEW u \in Users, users'[u].code.otp # 0
  PROVE  /\ users'[u].code.otp = users[u].code.otp
         /\ users'[u].code.purpose = users[u].code.purpose
         /\ users'[u].code.target = users[u].code.target
         /\ users'[u].code # EmptySlot
  BY DEF NoNewCode, Keeps, EmptySlot

\* Without a new code, slots still follow the mails, and what was honoured stays so.
LEMMA CodesKept ==
  ASSUME IInv, NoNewCode, UsersOK'
  PROVE  /\ SlotsFollowMails' /\ ChangesGoToTarget'
         /\ \A h \in honoured : /\ h[1] \in DOMAIN mails' /\ mails'[h[1]].purpose = h[2]
                                /\ h[2] \in {"account-delete", "email-change"} =>
                                     \A u \in Users : users'[u].code.otp # h[1]
  <1>1. mails' = mails /\ mails \in Seq(Mail)
    BY DEF NoNewCode, IInv, TablesOK
  <1>2. SlotsFollowMails /\ ChangesGoToTarget /\ CodeServesItsPurpose /\ SpentCodesAreGone
    BY DEF IInv, Codes
  <1>3. SlotsFollowMails'
    <2> SUFFICES ASSUME NEW u \in Users, users'[u].code.otp # 0
                 PROVE  /\ users'[u].code.otp \in DOMAIN mails
                        /\ mails[users'[u].code.otp].purpose = users'[u].code.purpose
                        /\ \A v \in Users \ {u} : users'[v].code.otp # users'[u].code.otp
      BY <1>1 DEF SlotsFollowMails
    <2>1. /\ users'[u].code.otp = users[u].code.otp
          /\ users'[u].code.purpose = users[u].code.purpose
      BY KeptSlots
    <2>2. ASSUME NEW v \in Users \ {u}
          PROVE  users'[v].code.otp # users'[u].code.otp
      <3>1. CASE users'[v].code.otp = 0
        BY <3>1
      <3>2. CASE users'[v].code.otp # 0
        BY <1>2, <2>1, <3>2, KeptSlots DEF SlotsFollowMails
      <3> QED
        BY <3>1, <3>2
    <2> QED
      BY <1>2, <2>1, <2>2 DEF SlotsFollowMails
  <1>4. ChangesGoToTarget'
    <2> SUFFICES ASSUME NEW u \in Users, users'[u].code.purpose = "email-change"
                 PROVE  mails[users'[u].code.otp].to = users'[u].code.target
      BY <1>1 DEF ChangesGoToTarget
    <2>1. users'[u].code.otp # 0
      BY DEF UsersOK, ColumnsAgree
    <2> QED
      BY <1>2, <2>1, KeptSlots DEF ChangesGoToTarget
  <1>5. ASSUME NEW h \in honoured
        PROVE  /\ h[1] \in DOMAIN mails' /\ mails'[h[1]].purpose = h[2]
               /\ h[2] \in {"account-delete", "email-change"} =>
                    \A u \in Users : users'[u].code.otp # h[1]
    <2>1. h[1] \in DOMAIN mails /\ mails[h[1]].purpose = h[2]
      BY <1>2 DEF CodeServesItsPurpose
    <2>2. h[1] # 0
      BY <1>1, <2>1, RowsOf
    <2>3. ASSUME h[2] \in {"account-delete", "email-change"}, NEW u \in Users
          PROVE  users'[u].code.otp # h[1]
      <3>1. users[u].code.otp # h[1]
        BY <1>2, <2>3 DEF SpentCodesAreGone
      <3> QED
        BY <2>2, <3>1, KeptSlots
    <2> QED
      BY <1>1, <2>1, <2>3
  <1> QED
    BY <1>3, <1>4, <1>5

\* Every step preserves what the invariant says of codes.
LEMMA CodesStep ==
  IInv /\ [Next]_vars =>
    Codes' /\ ChangesGoToTarget' /\ mails' \in Seq(Mail) /\ honoured' \subseteq Nat \X Purposes
  <1> SUFFICES ASSUME IInv, [Next]_vars
               PROVE  /\ Codes' /\ ChangesGoToTarget'
                      /\ mails' \in Seq(Mail) /\ honoured' \subseteq Nat \X Purposes
    OBVIOUS
  <1>1. UsersOK /\ UsersOK' /\ mails \in Seq(Mail) /\ honoured \subseteq Nat \X Purposes
    BY UsersStep DEF IInv, TablesOK
  <1>2. SlotsFollowMails /\ ChangesGoToTarget /\ CodeServesItsPurpose /\ SpentCodesAreGone
    BY DEF IInv, Codes
  <1>3. CASE UNCHANGED vars
    BY <1>1, <1>2, <1>3
    DEF vars, Codes, SlotsFollowMails, ChangesGoToTarget, CodeServesItsPurpose, SpentCodesAreGone
  <1>4. CASE NoNewCode /\ honoured' = honoured
    <2>1. CodeServesItsPurpose' /\ SpentCodesAreGone'
      BY <1>1, <1>4, CodesKept DEF CodeServesItsPurpose, SpentCodesAreGone
    <2>2. SlotsFollowMails' /\ ChangesGoToTarget'
      BY <1>1, <1>4, CodesKept
    <2> QED
      BY <1>1, <1>4, <2>1, <2>2 DEF Codes, NoNewCode
  <1>5. ASSUME NoNewCode, NEW u \in Users, NEW purpose \in Purposes, Spends(u, purpose)
        PROVE  /\ Codes' /\ ChangesGoToTarget'
               /\ mails' \in Seq(Mail) /\ honoured' \subseteq Nat \X Purposes
    <2> DEFINE n == users[u].code.otp
    <2>1. /\ n # 0 /\ users[u].code.purpose = purpose
          /\ honoured' = honoured \cup {<<n, purpose>>}
          /\ mails' = mails
      BY <1>5 DEF Spends, Presents, NoNewCode
    <2>2. /\ n \in DOMAIN mails /\ mails[n].purpose = purpose
          /\ \A v \in Users \ {u} : users[v].code.otp # n
      BY <1>2, <2>1 DEF SlotsFollowMails
    <2>3. n \in Nat
      BY <1>1, <2>2, RowsOf
    <2>4. ASSUME purpose \in {"account-delete", "email-change"}, NEW v \in Users
          PROVE  users'[v].code.otp # n
      <3>1. CASE v = u
        BY <1>5, <2>1, <2>4, <3>1 DEF Spends, EmptySlot
      <3>2. CASE v # u
        BY <1>5, <2>1, <2>2, <3>2, KeptSlots
      <3> QED
        BY <3>1, <3>2
    <2> HIDE DEF n
    <2>5. CodeServesItsPurpose'
      BY <1>1, <1>5, <2>1, <2>2, CodesKept DEF CodeServesItsPurpose
    <2>6. SpentCodesAreGone'
      BY <1>1, <1>5, <2>1, <2>4, CodesKept DEF SpentCodesAreGone
    <2>7. honoured' \subseteq Nat \X Purposes
      BY <1>1, <2>1, <2>3
    <2>8. SlotsFollowMails' /\ ChangesGoToTarget'
      BY <1>1, <1>5, CodesKept
    <2> QED
      BY <1>1, <2>1, <2>5, <2>6, <2>7, <2>8 DEF Codes
  <1>6. ASSUME honoured' = honoured,
               NEW u \in Users, NEW purpose \in Purposes, NEW to \in Addresses,
               NEW target \in Addresses \cup {NoAddress}, Issues(u, purpose, to, target)
        PROVE  /\ Codes' /\ ChangesGoToTarget'
               /\ mails' \in Seq(Mail) /\ honoured' \subseteq Nat \X Purposes
    <2> DEFINE n == Len(mails) + 1
               c == [otp |-> n, fresh |-> TRUE, purpose |-> purpose, target |-> target]
    <2>1. /\ mails' \in Seq(Mail) /\ DOMAIN mails' = DOMAIN mails \cup {n}
          /\ \A m \in DOMAIN mails : mails'[m] = mails[m]
          /\ mails'[n] = [to |-> to, purpose |-> purpose]
          /\ n \notin DOMAIN mails /\ n # 0
      BY <1>1, <1>6, Issued DEF Issues
    <2>2. /\ users'[u].code = c
          /\ \A v \in Users \ {u} : users'[v] = users[v]
      BY <1>1, <1>6 DEF Issues, IssueCode, UsersOK, UserRow
    <2>3. /\ c.otp = n /\ c.purpose = purpose /\ c.target = target
      OBVIOUS
    <2> HIDE DEF n, c
    <2>4. SlotsFollowMails'
      <3>1. ASSUME NEW v \in Users \ {u}, users'[v].code.otp # 0
            PROVE  /\ users'[v].code.otp \in DOMAIN mails
                   /\ mails[users'[v].code.otp].purpose = users'[v].code.purpose
                   /\ \A w \in Users \ {v} : users'[w].code.otp # users'[v].code.otp
        BY <1>2, <2>1, <2>2, <2>3, <3>1 DEF SlotsFollowMails
      <3>2. /\ users'[u].code.otp = n /\ users'[u].code.purpose = purpose
            /\ \A v \in Users \ {u} : users'[v].code.otp # n
        BY <2>1, <2>2, <2>3, <3>1
      <3> QED
        BY <2>1, <3>1, <3>2 DEF SlotsFollowMails
    <2>5. ChangesGoToTarget'
      <3> SUFFICES ASSUME NEW v \in Users, users'[v].code.purpose = "email-change"
                   PROVE  mails'[users'[v].code.otp].to = users'[v].code.target
        BY DEF ChangesGoToTarget
      <3>1. CASE v = u
        BY <1>6, <2>1, <2>2, <2>3, <3>1 DEF Issues
      <3>2. CASE v # u
        <4>1. users[v].code.otp # 0
          BY <1>1, <2>2, <3>2 DEF UsersOK, ColumnsAgree
        <4> QED
          BY <1>2, <2>1, <2>2, <3>2, <4>1 DEF ChangesGoToTarget, SlotsFollowMails
      <3> QED
        BY <3>1, <3>2
    <2>6. CodeServesItsPurpose'
      BY <1>2, <1>6, <2>1 DEF CodeServesItsPurpose
    <2>7. SpentCodesAreGone'
      <3> SUFFICES ASSUME NEW h \in honoured, h[2] \in {"account-delete", "email-change"},
                          NEW v \in Users
                   PROVE  users'[v].code.otp # h[1]
        BY <1>6 DEF SpentCodesAreGone
      <3>1. users[v].code.otp # h[1] /\ h[1] \in DOMAIN mails
        BY <1>2 DEF SpentCodesAreGone, CodeServesItsPurpose
      <3> QED
        BY <2>1, <2>2, <2>3, <3>1
    <2> QED
      BY <1>1, <1>6, <2>1, <2>4, <2>5, <2>6, <2>7 DEF Codes
  <1>7. CASE Next
    <2>1. SlotStep
      BY <1>7, Slots
    <2> QED
      BY <1>4, <1>5, <1>6, <2>1 DEF SlotStep
  <1> QED
    BY <1>3, <1>7

-----------------------------------------------------------------------------
(***************************************************************************)
(* Verified addresses are proven, and locks follow failures.               *)
(***************************************************************************)
SameAddresses ==
  /\ \A v \in Users : /\ users'[v].email = users[v].email
                      /\ users'[v].verified = users[v].verified
  /\ links' = links
  /\ proven \subseteq proven'

SameLocks ==
  \A v \in Users : /\ users'[v].failed = users[v].failed
                    /\ users'[v].lock = users[v].lock

PlainStep == SameAddresses /\ SameLocks

RowStep ==
  \/ PlainStep
  \/ \E r \in Requests : LoginFails(r) \/ LoginClears(r)
  \/ \E r \in Requests, u \in Users, e \in Addresses :
       Register(r, u, e) \/ GoogleCallback(r, u, e)
  \/ \E u \in Users, e \in Addresses : VerifyEmail(u, e)
  \/ \E u \in Users : ConfirmEmailChange(u) \/ PassLock(u)
  \/ \E i \in DOMAIN invites, u \in Users : CompleteAdminSetup(i, u)

\* A row is replaced by one with the same address and lock.
LEMMA PlainRow ==
  ASSUME UsersOK, NEW u \in Users, NEW row, users' = [users EXCEPT ![u] = row],
         row.email = users[u].email, row.verified = users[u].verified,
         row.failed = users[u].failed, row.lock = users[u].lock,
         links' = links, proven \subseteq proven'
  PROVE  PlainStep
  BY DEF UsersOK, PlainStep, SameAddresses, SameLocks

\* Every step leaves addresses and locks alone, or is one of those RowStep lists.
LEMMA Rows == IInv /\ Next => RowStep
  <1> SUFFICES ASSUME IInv, Next PROVE RowStep
    OBVIOUS
  <1>1. UsersOK /\ RequestsOK
    BY DEF IInv
  <1>2. \A u \in Users : users[u] \in UserRow
    BY <1>1 DEF UsersOK
  <1>3. ASSUME users' = users, links' = links, proven \subseteq proven'
        PROVE  PlainStep
    BY <1>3 DEF PlainStep, SameAddresses, SameLocks
  <1>4. ASSUME NEW u \in Users, NEW c, users' = [users EXCEPT ![u].code = c],
               links' = links, proven \subseteq proven'
        PROVE  PlainStep
    <2> DEFINE row == [users[u] EXCEPT !.code = c]
    <2>1. users' = [users EXCEPT ![u] = row]
      BY <1>4
    <2>2. /\ row.email = users[u].email /\ row.verified = users[u].verified
          /\ row.failed = users[u].failed /\ row.lock = users[u].lock
      BY <1>2 DEF UserRow
    <2> QED
      BY <1>1, <1>4, <2>1, <2>2, PlainRow
  <1>5. ASSUME NEW u \in Users, NEW no, users' = [users EXCEPT ![u].reset = no],
               links' = links, proven \subseteq proven'
        PROVE  PlainStep
    <2> DEFINE row == [users[u] EXCEPT !.reset = no]
    <2>1. users' = [users EXCEPT ![u] = row]
      BY <1>5
    <2>2. /\ row.email = users[u].email /\ row.verified = users[u].verified
          /\ row.failed = users[u].failed /\ row.lock = users[u].lock
      BY <1>2 DEF UserRow
    <2> QED
      BY <1>1, <1>5, <2>1, <2>2, PlainRow
  <1>6. ASSUME NEW r \in Requests, Session(r)
        PROVE  RowStep
    <2>1. CASE LoginIssues(r)
      <3>1. handling[r].user \in Users
        BY <1>1, <2>1, Busy DEF LoginIssues, At
      <3>2. \E c : users' = [users EXCEPT ![handling[r].user].code = c]
        BY <2>1 DEF LoginIssues, IssueCode
      <3> QED
        BY <1>4, <2>1, <3>1, <3>2 DEF LoginIssues, RowStep
    <2>2. CASE VerifyClears(r)
      <3>1. handling[r].user \in Users
        BY <1>1, <2>2, Busy DEF VerifyClears, At
      <3> QED
        BY <1>4, <2>2, <3>1 DEF VerifyClears, RowStep
    <2>3. CASE ResetCommits(r)
      <3>1. handling[r].user \in Users
        BY <1>1, <2>3, Busy DEF ResetCommits, At
      <3> QED
        BY <1>5, <2>3, <3>1 DEF ResetCommits, RowStep
    <2>4. ASSUME NEW u \in Users, NEW purpose, VerifyReads(r, u, purpose)
          PROVE  RowStep
      BY <1>3, <2>4 DEF VerifyReads, Presents, RowStep
    <2> QED
      BY <1>3, <1>6, <2>1, <2>2, <2>3, <2>4
      DEF Session, Login, AdminLogin, ResendOtp, AdminResendOtp, VerifyOtp, AdminVerifyOtp,
          LoginReads, ResendReads, RefreshAsserts, RefreshChecks,
          RefreshRevokes, Persists, ResetReads, Fails, RowStep
  <1>7. ASSUME NEW u \in Users, Account(u)
        PROVE  RowStep
    <2>1. ASSUME NEW e \in Addresses, InitiateEmailChange(u, e)
          PROVE  RowStep
      <3>1. \E c : users' = [users EXCEPT ![u].code = c]
        BY <2>1 DEF InitiateEmailChange, IssueCode
      <3> QED
        BY <1>4, <2>1, <3>1 DEF InitiateEmailChange, RowStep
    <2>2. CASE InitiateAccountDeletion(u)
      <3>1. \E c : users' = [users EXCEPT ![u].code = c]
        BY <2>2 DEF InitiateAccountDeletion, IssueCode
      <3> QED
        BY <1>4, <2>2, <3>1 DEF InitiateAccountDeletion, RowStep
    <2>3. CASE ConfirmAccountDeletion(u)
      <3> DEFINE row == [users[u] EXCEPT !.deleted = TRUE, !.suspended = TRUE,
                                         !.code = EmptySlot]
      <3>1. users' = [users EXCEPT ![u] = row]
        BY <2>3 DEF ConfirmAccountDeletion
      <3>2. /\ row.email = users[u].email /\ row.verified = users[u].verified
            /\ row.failed = users[u].failed /\ row.lock = users[u].lock
        BY <1>2 DEF UserRow
      <3> QED
        BY <1>1, <2>3, <3>1, <3>2, PlainRow DEF ConfirmAccountDeletion, Presents, RowStep
    <2>4. CASE ForgotPassword(u)
      BY <1>5, <2>4 DEF ForgotPassword, RowStep
    <2> QED
      BY <1>3, <1>7, <2>1, <2>2, <2>3, <2>4 DEF Account, Logout, RowStep
  <1>8. ASSUME NEW u \in Users, Clock(u)
        PROVE  RowStep
    <2>1. CASE PassCodeWindow(u)
      <3>1. \E c : users' = [users EXCEPT ![u].code = c]
        BY <2>1 DEF PassCodeWindow
      <3> QED
        BY <1>4, <2>1, <3>1 DEF PassCodeWindow, RowStep
    <2>2. CASE PassResetWindow(u)
      BY <1>5, <2>2 DEF PassResetWindow, RowStep
    <2> QED
      BY <1>8, <2>1, <2>2 DEF Clock, RowStep
  <1>9. CASE Administration
    <2>1. ASSUME NEW u \in Users, NEW yes \in BOOLEAN, SetSuspended(u, yes)
          PROVE  RowStep
      <3> DEFINE row == [users[u] EXCEPT !.suspended = yes]
      <3>1. users' = [users EXCEPT ![u] = row]
        BY <2>1 DEF SetSuspended
      <3>2. /\ row.email = users[u].email /\ row.verified = users[u].verified
            /\ row.failed = users[u].failed /\ row.lock = users[u].lock
        BY <1>2 DEF UserRow
      <3> QED
        BY <1>1, <2>1, <3>1, <3>2, PlainRow DEF SetSuspended, RowStep
    <2>2. ASSUME NEW u \in Users, NEW role, users' = [users EXCEPT ![u].role = role],
                 links' = links, proven \subseteq proven'
          PROVE  RowStep
      <3> DEFINE row == [users[u] EXCEPT !.role = role]
      <3>1. users' = [users EXCEPT ![u] = row]
        BY <2>2
      <3>2. /\ row.email = users[u].email /\ row.verified = users[u].verified
            /\ row.failed = users[u].failed /\ row.lock = users[u].lock
        BY <1>2 DEF UserRow
      <3> QED
        BY <1>1, <2>2, <3>1, <3>2, PlainRow DEF RowStep
    <2>3. ASSUME NEW u \in Users, NEW role, SetRole(u, role)
          PROVE  RowStep
      BY <2>2, <2>3 DEF SetRole
    <2>4. ASSUME NEW i \in DOMAIN invites, NEW u \in Users, AcceptAdminInvite(i, u)
          PROVE  RowStep
      BY <2>2, <2>4 DEF AcceptAdminInvite
    <2> QED
      BY <1>3, <1>9, <2>1, <2>3, <2>4
      DEF Administration, SuspendUser, ReinstateUser, RemoveAdmin,
          UpgradeAdminToSuperAdmin, InviteAdmin, PassInviteWindow, RowStep
  <1> QED
    BY <1>6, <1>7, <1>8, <1>9 DEF Next

\* A row that is free is not verified and has no link.
LEMMA Nobody ==
  ASSUME IInv, NEW u \in Users, ~Exists(u)
  PROVE  ~users[u].verified /\ \A l \in links : l[1] # u
  BY IdentityAssumption
  DEF IInv, TablesOK, Proofs, VerifiedIsProven, LinksAreCurrent, Exists

\* Every step preserves that the verified are proven.
LEMMA ProofsStep ==
  IInv /\ [Next]_vars =>
    Proofs' /\ links' \subseteq Users \X Addresses
  <1> SUFFICES ASSUME IInv, [Next]_vars
               PROVE  Proofs' /\ links' \subseteq Users \X Addresses
    OBVIOUS
  <1>1. /\ UsersOK /\ Proofs /\ links \subseteq Users \X Addresses
        /\ VerifiedIsProven /\ LinksAreCurrent
    BY DEF IInv, TablesOK, Proofs
  <1>2. CASE UNCHANGED vars
    BY <1>1, <1>2 DEF vars, Proofs, VerifiedIsProven, LinksAreCurrent
  <1>3. CASE SameAddresses
    <2>1. VerifiedIsProven'
      BY <1>1, <1>3 DEF SameAddresses, VerifiedIsProven
    <2>2. LinksAreCurrent'
      <3> SUFFICES ASSUME NEW l \in links
                   PROVE  users'[l[1]].verified \/ users'[l[1]].email = l[2]
        BY <1>3 DEF SameAddresses, LinksAreCurrent
      <3>1. l[1] \in Users
        BY <1>1
      <3> QED
        BY <1>1, <1>3, <3>1 DEF SameAddresses, LinksAreCurrent
    <2> QED
      BY <1>1, <1>3, <2>1, <2>2 DEF SameAddresses, Proofs
  \* One row changes: it is verified, or has the only link to it.
  <1>4. ASSUME NEW u \in Users, \A v \in Users \ {u} : users'[v] = users[v],
               proven \subseteq proven',
               users'[u].verified => <<u, users'[u].email>> \in proven',
               links' = links \/ \E e \in Addresses : links' = links \cup {<<u, e>>},
               \A l \in links' : l[1] = u =>
                 users'[u].verified \/ users'[u].email = l[2]
        PROVE  Proofs' /\ links' \subseteq Users \X Addresses
    <2>1. VerifiedIsProven'
      BY <1>1, <1>4 DEF VerifiedIsProven
    <2>2. links' \subseteq Users \X Addresses
      BY <1>1, <1>4
    <2>3. LinksAreCurrent'
      <3> SUFFICES ASSUME NEW l \in links'
                   PROVE  users'[l[1]].verified \/ users'[l[1]].email = l[2]
        BY DEF LinksAreCurrent
      <3>1. l[1] \in Users /\ (l[1] # u => l \in links)
        BY <1>4, <2>2
      <3> QED
        BY <1>1, <1>4, <3>1 DEF LinksAreCurrent
    <2> QED
      BY <2>1, <2>2, <2>3 DEF Proofs
  <1>5. ASSUME NEW r \in Requests, LoginFails(r) \/ LoginClears(r)
        PROVE  SameAddresses
    <2> DEFINE u == handling[r].user
    <2>1. u \in Users
      BY <1>5, Busy DEF LoginFails, LoginClears, At, IInv
    <2>2. \E a, b : users' = [users EXCEPT ![u].failed = a, ![u].lock = b]
      BY <1>5 DEF LoginFails, LoginClears
    <2>3. \A v \in Users : /\ users'[v].email = users[v].email
                           /\ users'[v].verified = users[v].verified
      BY <1>1, <2>1, <2>2 DEF UsersOK, UserRow
    <2> QED
      BY <1>5, <2>3 DEF LoginFails, LoginClears, SameAddresses
  <1>6. ASSUME NEW u \in Users, PassLock(u)
        PROVE  SameAddresses
    BY <1>1, <1>6 DEF UsersOK, UserRow, PassLock, SameAddresses
  <1>7. ASSUME NEW r \in Requests, NEW u \in Users, NEW e \in Addresses, Register(r, u, e)
        PROVE  Proofs' /\ links' \subseteq Users \X Addresses
    <2>1. /\ users'[u] = NewUser(e, FALSE, "user")
          /\ \A v \in Users \ {u} : users'[v] = users[v]
      BY <1>1, <1>7 DEF Register, UsersOK
    <2>2. ~users'[u].verified /\ users'[u].email = e
      BY <2>1 DEF NewUser
    <2>3. links' = links \cup {<<u, e>>} /\ proven' = proven /\ ~Exists(u)
      BY <1>7 DEF Register
    <2>4. \A l \in links' : l[1] = u => users'[u].email = l[2]
      BY <2>2, <2>3, Nobody
    <2>5. \E f \in Addresses : links' = links \cup {<<u, f>>}
      BY <2>3
    <2>6. proven \subseteq proven' /\ (users'[u].verified => <<u, users'[u].email>> \in proven')
      BY <2>2, <2>3
    <2> QED
      BY <1>4, <2>1, <2>4, <2>5, <2>6
  <1>8. ASSUME NEW r \in Requests, NEW u \in Users, NEW e \in Addresses,
               GoogleCallback(r, u, e)
        PROVE  Proofs' /\ links' \subseteq Users \X Addresses
    <2>1. links' = links /\ proven' = proven \cup {<<u, e>>}
      BY <1>8 DEF GoogleCallback
    <2>2. CASE /\ users[u].email = e
               /\ users' = [users EXCEPT ![u].verified = TRUE]
      <3>1. /\ users'[u].verified /\ users'[u].email = e
            /\ \A v \in Users \ {u} : users'[v] = users[v]
        BY <1>1, <2>2 DEF UsersOK, UserRow
      <3> QED
        BY <1>4, <2>1, <3>1
    <2>3. CASE users' = [users EXCEPT ![u] = NewUser(e, TRUE, "user")]
      <3>1. /\ users'[u] = NewUser(e, TRUE, "user")
            /\ \A v \in Users \ {u} : users'[v] = users[v]
        BY <1>1, <2>3 DEF UsersOK
      <3>2. users'[u].verified /\ users'[u].email = e
        BY <3>1 DEF NewUser
      <3> QED
        BY <1>4, <2>1, <3>1, <3>2
    <2> QED
      BY <1>8, <2>2, <2>3 DEF GoogleCallback
  <1>9. ASSUME NEW u \in Users, NEW e \in Addresses, VerifyEmail(u, e)
        PROVE  Proofs' /\ links' \subseteq Users \X Addresses
    <2>1. <<u, e>> \in links /\ links' = links /\ proven' = proven \cup {<<u, e>>}
      BY <1>9 DEF VerifyEmail
    <2>2. /\ users'[u].verified /\ users'[u].email = users[u].email
          /\ \A v \in Users \ {u} : users'[v] = users[v]
      BY <1>1, <1>9 DEF VerifyEmail, UsersOK, UserRow
    <2>3. users[u].verified \/ users[u].email = e
      BY <1>1, <2>1 DEF LinksAreCurrent
    <2>4. <<u, users[u].email>> \in proven'
      BY <1>1, <2>1, <2>3 DEF VerifiedIsProven
    <2> QED
      BY <1>4, <2>1, <2>2, <2>4
  <1>10. ASSUME NEW u \in Users, ConfirmEmailChange(u)
         PROVE  Proofs' /\ links' \subseteq Users \X Addresses
    <2>1. /\ users'[u].verified /\ users'[u].email = users[u].code.target
          /\ \A v \in Users \ {u} : users'[v] = users[v]
      BY <1>1, <1>10 DEF ConfirmEmailChange, UsersOK, UserRow
    <2>2. mails[users[u].code.otp].to = users[u].code.target
      BY <1>10 DEF ConfirmEmailChange, Presents, ChangesGoToTarget, IInv
    <2>3. links' = links /\ proven' = proven \cup {<<u, users[u].code.target>>}
      BY <1>10, <2>2 DEF ConfirmEmailChange, Presents
    <2> QED
      BY <1>4, <2>1, <2>3
  <1>11. ASSUME NEW i \in DOMAIN invites, NEW u \in Users, CompleteAdminSetup(i, u)
         PROVE  Proofs' /\ links' \subseteq Users \X Addresses
    <2>1. /\ users'[u] = NewUser(invites[i].email, TRUE, "admin")
          /\ \A v \in Users \ {u} : users'[v] = users[v]
      BY <1>1, <1>11 DEF CompleteAdminSetup, UsersOK
    <2>2. users'[u].verified /\ users'[u].email = invites[i].email
      BY <2>1 DEF NewUser
    <2>3. links' = links /\ proven' = proven \cup {<<u, invites[i].email>>}
      BY <1>11 DEF CompleteAdminSetup
    <2> QED
      BY <1>4, <2>1, <2>2, <2>3
  <1>12. CASE Next
    <2>1. RowStep
      BY <1>12, Rows
    <2> QED
      BY <1>3, <1>5, <1>6, <1>7, <1>8, <1>9, <1>10, <1>11, <2>1 DEF RowStep, PlainStep
  <1> QED
    BY <1>2, <1>12

\* Every step keeps the counter of failures and the lock together.
LEMMA LockStep == IInv /\ [Next]_vars => LockFollowsFailures'
  <1> SUFFICES ASSUME IInv, [Next]_vars PROVE LockFollowsFailures'
    OBVIOUS
  <1>1. UsersOK /\ LockFollowsFailures
    BY DEF IInv
  <1>2. CASE UNCHANGED vars
    BY <1>1, <1>2 DEF vars, LockFollowsFailures
  <1>3. CASE SameLocks
    BY <1>1, <1>3 DEF SameLocks, LockFollowsFailures
  \* One row changes, and its lock agrees with its counter.
  <1>4. ASSUME NEW u \in Users, \A v \in Users \ {u} : users'[v] = users[v],
               users'[u].failed = MaxFailures <=> users'[u].lock # "none"
        PROVE  LockFollowsFailures'
    BY <1>1, <1>4 DEF LockFollowsFailures
  <1>5. ASSUME NEW u \in Users, NEW e, NEW verified, NEW role,
               users' = [users EXCEPT ![u] = NewUser(e, verified, role)]
        PROVE  LockFollowsFailures'
    <2>1. /\ users'[u] = NewUser(e, verified, role)
          /\ \A v \in Users \ {u} : users'[v] = users[v]
      BY <1>1, <1>5 DEF UsersOK
    <2>2. users'[u].failed = 0 /\ users'[u].lock = "none"
      BY <2>1 DEF NewUser
    <2> QED
      BY <1>4, <2>1, <2>2, IdentityAssumption
  <1>6. ASSUME NEW u \in Users, users' = [users EXCEPT ![u].verified = TRUE]
        PROVE  LockFollowsFailures'
    <2>1. SameLocks
      BY <1>1, <1>6 DEF UsersOK, UserRow, SameLocks
    <2> QED
      BY <1>3, <2>1
  <1>7. ASSUME NEW r \in Requests, LoginFails(r)
        PROVE  LockFollowsFailures'
    <2> DEFINE u == handling[r].user
               count == users[u].failed + 1
    <2>1. u \in Users
      BY <1>7, Busy DEF LoginFails, At, IInv
    <2>2. /\ users'[u].failed = IF count >= MaxFailures THEN MaxFailures ELSE count
          /\ users'[u].lock = IF count >= MaxFailures THEN "on" ELSE users[u].lock
          /\ \A v \in Users \ {u} : users'[v] = users[v]
      BY <1>1, <1>7, <2>1 DEF LoginFails, UsersOK, UserRow
    <2>3. users[u].failed \in 0 .. MaxFailures
      BY <1>1, <2>1 DEF UsersOK, UserRow
    <2>4. CASE count >= MaxFailures
      BY <1>4, <2>1, <2>2, <2>4
    <2>5. CASE ~(count >= MaxFailures)
      <3>1. users[u].failed # MaxFailures /\ count # MaxFailures
        BY <2>3, <2>5, IdentityAssumption
      <3> QED
        BY <1>1, <1>4, <2>1, <2>2, <2>5, <3>1 DEF LockFollowsFailures
    <2> QED
      BY <2>4, <2>5
  <1>8. ASSUME NEW r \in Requests, LoginClears(r)
        PROVE  LockFollowsFailures'
    <2> DEFINE u == handling[r].user
    <2>1. u \in Users
      BY <1>8, Busy DEF LoginClears, At, IInv
    <2>2. /\ users'[u].failed = 0 /\ users'[u].lock = "none"
          /\ \A v \in Users \ {u} : users'[v] = users[v]
      BY <1>1, <1>8, <2>1 DEF LoginClears, UsersOK, UserRow
    <2> QED
      BY <1>4, <2>1, <2>2, IdentityAssumption
  <1>9. ASSUME NEW u \in Users, PassLock(u)
        PROVE  LockFollowsFailures'
    <2>1. /\ users[u].lock = "on"
          /\ users'[u].lock = "past" /\ users'[u].failed = users[u].failed
          /\ \A v \in Users \ {u} : users'[v] = users[v]
      BY <1>1, <1>9 DEF PassLock, UsersOK, UserRow
    <2> QED
      BY <1>1, <1>4, <2>1 DEF LockFollowsFailures
  <1>10. ASSUME NEW u \in Users, ConfirmEmailChange(u)
         PROVE  LockFollowsFailures'
    <2>1. SameLocks
      BY <1>1, <1>10 DEF ConfirmEmailChange, UsersOK, UserRow, SameLocks
    <2> QED
      BY <1>3, <2>1
  <1>11. CASE Next
    <2>1. RowStep
      BY <1>11, Rows
    <2>2. ASSUME NEW r \in Requests, NEW u \in Users, NEW e \in Addresses,
                 Register(r, u, e) \/ GoogleCallback(r, u, e)
          PROVE  LockFollowsFailures'
      <3>1. \/ users' = [users EXCEPT ![u] = NewUser(e, FALSE, "user")]
            \/ users' = [users EXCEPT ![u] = NewUser(e, TRUE, "user")]
            \/ users' = [users EXCEPT ![u].verified = TRUE]
        BY <2>2 DEF Register, GoogleCallback
      <3> QED
        BY <1>5, <1>6, <3>1
    <2>3. ASSUME NEW u \in Users, NEW e \in Addresses, VerifyEmail(u, e)
          PROVE  LockFollowsFailures'
      BY <1>6, <2>3 DEF VerifyEmail
    <2>4. ASSUME NEW i \in DOMAIN invites, NEW u \in Users, CompleteAdminSetup(i, u)
          PROVE  LockFollowsFailures'
      BY <1>5, <2>4 DEF CompleteAdminSetup
    <2> QED
      BY <1>3, <1>7, <1>8, <1>9, <1>10, <2>1, <2>2, <2>3, <2>4 DEF RowStep, PlainStep
  <1> QED
    BY <1>2, <1>11

-----------------------------------------------------------------------------
(***************************************************************************)
(* Requests, invitations, tokens.                                          *)
(***************************************************************************)
\* One request goes on, the others stay where they are.
LEMMA OneRequest ==
  ASSUME RequestsOK, NEW r \in Requests, NEW h \in UnderWay \cup {Idle},
         handling' = [handling EXCEPT ![r] = h]
  PROVE  /\ RequestsOK' /\ handling'[r] = h
         /\ \A q \in Requests \ {r} : handling'[q] = handling[q]
  BY DEF RequestsOK

\* What a request that begins is waiting with.
LEMMA Begun ==
  ASSUME NEW step \in Steps, NEW u \in Users, NEW purpose \in {"login", "admin-login"},
         NEW e \in Addresses, NEW t \in Nat
  PROVE  /\ Begin(step, u, purpose, e, t) \in UnderWay
         /\ Begin(step, u, purpose, e, t).next = step
         /\ Begin(step, u, purpose, e, t).token = t
  BY DEF Begin, UnderWay

\* A request goes on to its next transaction with what it holds.
LEMMA Continued ==
  ASSUME RequestsOK, NEW r \in Requests, handling[r].next # "nothing", NEW step \in Steps,
         handling' = [handling EXCEPT ![r].next = step]
  PROVE  /\ RequestsOK' /\ handling'[r].next = step /\ handling'[r].token = handling[r].token
         /\ \A q \in Requests \ {r} : handling'[q] = handling[q]
  <1> DEFINE h == [handling[r] EXCEPT !.next = step]
  <1>1. handling[r] \in UnderWay
    BY Busy
  <1>2. handling' = [handling EXCEPT ![r] = h]
    OBVIOUS
  <1>3. h \in UnderWay /\ h.next = step /\ h.token = handling[r].token
    BY <1>1 DEF UnderWay
  <1> QED
    BY <1>2, <1>3, OneRequest

\* Tokens stay in the table, replace the same token, and do not revive.
TokensStand ==
  /\ DOMAIN tokens \subseteq DOMAIN tokens'
  /\ \A t \in DOMAIN tokens : /\ tokens'[t].from = tokens[t].from
                              /\ ~tokens[t].live => ~tokens'[t].live

\* What a request holds it may hold after any step of the others.
LEMMA StillHeld ==
  ASSUME TokensStand, NEW h, MayHold(h)
  PROVE  /\ h.next \in {"check", "revoke"} => h.token \in DOMAIN tokens'
         /\ h.next = "clear" => h.token = 0
         /\ h.next = "persist" /\ h.token # 0 =>
              h.token \in DOMAIN tokens' /\ ~tokens'[h.token].live
  BY DEF TokensStand, MayHold

\* UPDATE refresh_tokens SET revoked of the rows in S.
LEMMA RevokedRows ==
  ASSUME tokens \in Seq(Token), NEW S, tokens' = Revoked(S)
  PROVE  /\ tokens' \in Seq(Token) /\ DOMAIN tokens' = DOMAIN tokens
         /\ TokensStand
         /\ \A t \in S \cap DOMAIN tokens : ~tokens'[t].live
  <1>1. ASSUME NEW t \in DOMAIN tokens
        PROVE  /\ tokens'[t] \in Token /\ tokens'[t].from = tokens[t].from
               /\ ~tokens[t].live => ~tokens'[t].live
               /\ t \in S => ~tokens'[t].live
    <2>1. tokens[t] \in Token
      BY RowsOf
    <2> DEFINE live == tokens[t].live /\ t \notin S
    <2>2. tokens'[t] = [tokens[t] EXCEPT !.live = live]
      BY DEF Revoked
    <2>3. /\ live \in BOOLEAN
          /\ ~tokens[t].live => ~live
          /\ t \in S => ~live
      OBVIOUS
    <2> HIDE DEF live
    <2>4. tokens'[t] \in Token /\ tokens'[t].from = tokens[t].from /\ tokens'[t].live = live
      BY <2>1, <2>2, <2>3 DEF Token
    <2> QED
      BY <2>3, <2>4
  <1>2. tokens' = [t \in DOMAIN tokens |-> tokens'[t]]
    BY DEF Revoked
  <1>3. tokens' \in Seq(Token) /\ DOMAIN tokens' = DOMAIN tokens
    BY <1>1, <1>2, SameRows
  <1> QED
    BY <1>1, <1>3 DEF TokensStand

\* The requests and the tokens after a step, and who is waiting with what.
Sessions ==
  /\ RequestsOK /\ tokens \in Seq(Token)
  /\ ReplacedIsRevoked
  /\ \A t \in DOMAIN tokens : tokens[t].from # 0 => tokens[t].from \in DOMAIN tokens
  /\ \A r \in Requests : MayHold(handling[r])

\* The part of the invariant that is about sessions.
LEMMA SessionsOf == IInv => Sessions
  BY DEF IInv, TablesOK, Chain, HandedOver, MayHold, Sessions

\* What that part contributes to the invariant.
LEMMA OfSessions == Sessions' => RequestsOK' /\ tokens' \in Seq(Token)' /\ Chain'
  BY DEF Chain, HandedOver, MayHold, Sessions

\* No token is added, and a request that goes on may hold what it holds.
LEMMA GoesOn ==
  ASSUME Sessions, TokensStand, tokens' \in Seq(Token), DOMAIN tokens' = DOMAIN tokens,
         RequestsOK',
         \A q \in Requests : handling'[q] = handling[q] \/ MayHold(handling[q])'
  PROVE  Sessions'
  <1>1. ReplacedIsRevoked'
    BY DEF Sessions, TokensStand, ReplacedIsRevoked
  <1>2. \A t \in DOMAIN tokens' :
          tokens'[t].from # 0 => tokens'[t].from \in DOMAIN tokens'
    BY DEF Sessions, TokensStand
  <1>3. ASSUME NEW q \in Requests
        PROVE  MayHold(handling[q])'
    <2>1. CASE MayHold(handling[q])'
      BY <2>1
    <2>2. CASE handling'[q] = handling[q]
      <3>1. MayHold(handling[q])
        BY DEF Sessions
      <3> QED
        BY <2>2, <3>1, StillHeld DEF MayHold
    <2> QED
      BY <2>1, <2>2
  <1> QED
    BY <1>1, <1>2, <1>3 DEF Sessions

\* Every step preserves that the replaced are revoked.
LEMMA SessionsStep == IInv /\ [Next]_vars => Sessions'
  <1> SUFFICES ASSUME IInv, [Next]_vars PROVE Sessions'
    OBVIOUS
  <1>1. Sessions /\ RequestsOK /\ tokens \in Seq(Token) /\ UsersOK
    BY SessionsOf DEF IInv, Sessions
  <1>2. ASSUME tokens' = tokens
        PROVE  TokensStand /\ tokens' \in Seq(Token) /\ DOMAIN tokens' = DOMAIN tokens
    BY <1>1, <1>2 DEF TokensStand
  <1>3. ASSUME handling' = handling
        PROVE  RequestsOK' /\ \A q \in Requests : handling'[q] = handling[q]
    BY <1>1, <1>3 DEF RequestsOK
  <1>4. ASSUME NEW S, tokens' = Revoked(S)
        PROVE  /\ TokensStand /\ tokens' \in Seq(Token) /\ DOMAIN tokens' = DOMAIN tokens
               /\ \A t \in S \cap DOMAIN tokens : ~tokens'[t].live
    BY <1>1, <1>4, RevokedRows
  <1>5. CASE UNCHANGED <<handling, tokens>>
    BY <1>1, <1>2, <1>3, <1>5, GoesOn
  <1>6. ASSUME NEW r \in Requests, handling' = [handling EXCEPT ![r] = Idle],
               TokensStand, tokens' \in Seq(Token), DOMAIN tokens' = DOMAIN tokens
        PROVE  Sessions'
    <2>1. /\ RequestsOK' /\ handling'[r] = Idle
          /\ \A q \in Requests \ {r} : handling'[q] = handling[q]
      BY <1>1, <1>6, OneRequest
    <2>2. MayHold(handling[r])'
      BY <2>1 DEF MayHold, Idle
    <2> QED
      BY <1>1, <1>6, <2>1, <2>2, GoesOn
  <1>7. ASSUME NEW r \in Requests, NEW step \in {"compare", "issue", "clear", "persist", "reset"},
               NEW u \in Users, NEW purpose \in {"login", "admin-login"}, NEW e \in Addresses,
               handling' = [handling EXCEPT ![r] = Begin(step, u, purpose, e, 0)],
               tokens' = tokens
        PROVE  Sessions'
    <2> DEFINE h == Begin(step, u, purpose, e, 0)
    <2>1. h \in UnderWay /\ h.next = step /\ h.token = 0
      BY Begun DEF Steps
    <2> HIDE DEF h
    <2>2. /\ RequestsOK' /\ handling'[r] = h
          /\ \A q \in Requests \ {r} : handling'[q] = handling[q]
      BY <1>1, <1>7, <2>1, OneRequest DEF h
    <2>3. MayHold(handling[r])'
      BY <2>1, <2>2 DEF MayHold
    <2> QED
      BY <1>1, <1>2, <1>7, <2>2, <2>3, GoesOn
  <1>8. ASSUME NEW r \in Requests, Session(r)
        PROVE  Sessions'
    <2>1. ASSUME NEW u \in Users, NEW e \in Addresses,
                 Register(r, u, e) \/ GoogleCallback(r, u, e)
          PROVE  Sessions'
      BY <1>7, <2>1 DEF Register, GoogleCallback
    <2>2. ASSUME NEW u \in Users, NEW purpose \in {"login", "admin-login"},
                 \/ LoginReads(r, u, purpose) \/ ResendReads(r, u, purpose)
                 \/ VerifyReads(r, u, purpose)
          PROVE  Sessions'
      <3>1. users[u].email \in Addresses
        BY <1>1, <2>2 DEF LoginReads, ResendReads, VerifyReads, Exists, UsersOK, UserRow
      <3> QED
        BY <1>7, <2>2, <3>1 DEF LoginReads, ResendReads, VerifyReads
    <2>3. ASSUME NEW u \in Users, ResetReads(r, u)
          PROVE  Sessions'
      <3>1. users[u].email \in Addresses
        BY <1>1, <2>3 DEF ResetReads, Exists, UsersOK, UserRow
      <3> QED
        BY <1>7, <2>3, <3>1 DEF ResetReads
    <2>4. CASE LoginFails(r) \/ LoginIssues(r) \/ Fails(r)
      BY <1>2, <1>6, <2>4 DEF LoginFails, LoginIssues, Fails
    <2>5. CASE ResetCommits(r)
      <3>1. tokens' = Revoked(TokensOf(handling[r].user))
        BY <2>5 DEF ResetCommits
      <3> QED
        BY <1>4, <1>6, <2>5, <3>1 DEF ResetCommits
    <2>6. CASE LoginClears(r)
      <3>1. /\ RequestsOK' /\ handling'[r].next = "issue"
            /\ \A q \in Requests \ {r} : handling'[q] = handling[q]
        BY <1>1, <2>6, Continued DEF LoginClears, At, Steps
      <3>2. MayHold(handling[r])' /\ tokens' = tokens
        BY <2>6, <3>1 DEF MayHold, LoginClears
      <3> QED
        BY <1>1, <1>2, <3>1, <3>2, GoesOn
    <2>7. CASE VerifyClears(r)
      <3>1. /\ RequestsOK' /\ handling'[r].next = "persist"
            /\ handling'[r].token = handling[r].token
            /\ \A q \in Requests \ {r} : handling'[q] = handling[q]
        BY <1>1, <2>7, Continued DEF VerifyClears, At, Steps
      <3>2. handling[r].token = 0
        BY <1>1, <2>7 DEF VerifyClears, At, Sessions, MayHold
      <3>3. MayHold(handling[r])' /\ tokens' = tokens
        BY <2>7, <3>1, <3>2 DEF MayHold, VerifyClears
      <3> QED
        BY <1>1, <1>2, <3>1, <3>3, GoesOn
    <2>8. ASSUME NEW t \in DOMAIN tokens, RefreshAsserts(r, t)
          PROVE  Sessions'
      <3>1. t \in Nat /\ tokens[t] \in Token
        BY <1>1, RowsOf
      <3>2. tokens[t].user \in Users
        BY <3>1 DEF Token
      <3>3. users[tokens[t].user].email \in Addresses
        BY <1>1, <2>8, <3>2 DEF RefreshAsserts, Exists, UsersOK, UserRow
      <3> DEFINE h == Begin("check", tokens[t].user, "login", users[tokens[t].user].email, t)
      <3>4. h \in UnderWay /\ h.next = "check" /\ h.token = t
        BY <3>1, <3>2, <3>3, Begun DEF Steps
      <3>5. handling' = [handling EXCEPT ![r] = h] /\ tokens' = tokens
        BY <2>8 DEF RefreshAsserts
      <3> HIDE DEF h
      <3>6. /\ RequestsOK' /\ handling'[r] = h
            /\ \A q \in Requests \ {r} : handling'[q] = handling[q]
        BY <1>1, <3>4, <3>5, OneRequest
      <3>7. MayHold(handling[r])'
        BY <3>4, <3>5, <3>6 DEF MayHold
      <3> QED
        BY <1>1, <1>2, <3>5, <3>6, <3>7, GoesOn
    <2>9. CASE RefreshChecks(r)
      <3>1. /\ RequestsOK' /\ handling'[r].next = "revoke"
            /\ handling'[r].token = handling[r].token
            /\ \A q \in Requests \ {r} : handling'[q] = handling[q]
        BY <1>1, <2>9, Continued DEF RefreshChecks, At, Steps
      <3>2. handling[r].token \in DOMAIN tokens
        BY <1>1, <2>9 DEF RefreshChecks, At, Sessions, MayHold
      <3>3. MayHold(handling[r])' /\ tokens' = tokens
        BY <2>9, <3>1, <3>2 DEF MayHold, RefreshChecks
      <3> QED
        BY <1>1, <1>2, <3>1, <3>3, GoesOn
    <2>10. CASE RefreshRevokes(r)
      <3>1. /\ RequestsOK' /\ handling'[r].next = "persist"
            /\ handling'[r].token = handling[r].token
            /\ \A q \in Requests \ {r} : handling'[q] = handling[q]
        BY <1>1, <2>10, Continued DEF RefreshRevokes, At, Steps
      <3>2. handling[r].token \in DOMAIN tokens
        BY <1>1, <2>10 DEF RefreshRevokes, At, Sessions, MayHold
      <3>3. /\ TokensStand /\ tokens' \in Seq(Token) /\ DOMAIN tokens' = DOMAIN tokens
            /\ ~tokens'[handling[r].token].live
        BY <1>4, <2>10, <3>2 DEF RefreshRevokes
      <3>4. MayHold(handling[r])'
        BY <3>1, <3>2, <3>3 DEF MayHold
      <3> QED
        BY <1>1, <3>1, <3>3, <3>4, GoesOn
    <2>11. CASE Persists(r)
      <3> DEFINE row == [user |-> handling[r].user, live |-> TRUE, from |-> handling[r].token]
                 n == Len(tokens) + 1
      <3>1. handling[r].user \in Users /\ handling[r].token \in Nat /\ handling[r].next = "persist"
        BY <1>1, <2>11, Busy DEF Persists, At
      <3>2. row \in Token /\ row.from = handling[r].token
        BY <3>1 DEF Token
      <3>3. tokens' = Append(tokens, row)
        BY <2>11 DEF Persists
      <3> HIDE DEF row
      <3>4. /\ tokens' \in Seq(Token) /\ DOMAIN tokens' = DOMAIN tokens \cup {n}
            /\ \A t \in DOMAIN tokens : tokens'[t] = tokens[t]
            /\ tokens'[n] = row
        BY <1>1, <3>2, <3>3, OneMoreRow
      <3>5. /\ RequestsOK' /\ handling'[r] = Idle
            /\ \A q \in Requests \ {r} : handling'[q] = handling[q]
        BY <1>1, <2>11, OneRequest DEF Persists
      <3> HIDE DEF n
      <3>6. row.from # 0 => row.from \in DOMAIN tokens /\ ~tokens[row.from].live
        BY <1>1, <3>1, <3>2 DEF Sessions, MayHold
      <3>7. ReplacedIsRevoked'
        BY <1>1, <3>4, <3>6 DEF Sessions, ReplacedIsRevoked
      <3>8. \A t \in DOMAIN tokens' :
              tokens'[t].from # 0 => tokens'[t].from \in DOMAIN tokens'
        BY <1>1, <3>4, <3>6 DEF Sessions
      <3>9. TokensStand
        BY <3>4 DEF TokensStand
      <3>10. ASSUME NEW q \in Requests
             PROVE  MayHold(handling[q])'
        <4>1. CASE q = r
          BY <3>5, <4>1 DEF MayHold, Idle
        <4>2. CASE q # r
          <5>1. MayHold(handling[q]) /\ handling'[q] = handling[q]
            BY <1>1, <3>5, <4>2 DEF Sessions
          <5> QED
            BY <3>9, <5>1, StillHeld DEF MayHold
        <4> QED
          BY <4>1, <4>2
      <3> QED
        BY <3>4, <3>5, <3>7, <3>8, <3>10 DEF Sessions
    <2> QED
      BY <1>8, <2>1, <2>2, <2>3, <2>4, <2>5, <2>6, <2>7, <2>8, <2>9, <2>10, <2>11
      DEF Session, Login, AdminLogin, ResendOtp, AdminResendOtp, VerifyOtp, AdminVerifyOtp
  <1>9. ASSUME NEW u \in Users, Account(u) \/ Clock(u)
        PROVE  Sessions'
    <2>1. CASE Logout(u)
      <3>1. tokens' = Revoked(TokensOf(u)) /\ handling' = handling
        BY <2>1 DEF Logout
      <3> QED
        BY <1>1, <1>3, <1>4, <3>1, GoesOn
    <2> QED
      BY <1>5, <1>9, <2>1
      DEF Account, Clock, VerifyEmail, InitiateEmailChange, ConfirmEmailChange,
          InitiateAccountDeletion, ConfirmAccountDeletion, ForgotPassword,
          PassCodeWindow, PassResetWindow, PassLock
  <1>10. CASE Administration
    BY <1>5, <1>10
    DEF Administration, SuspendUser, ReinstateUser, SetSuspended, RemoveAdmin,
        UpgradeAdminToSuperAdmin, SetRole, InviteAdmin, PassInviteWindow,
        AcceptAdminInvite, CompleteAdminSetup
  <1>11. CASE UNCHANGED vars
    BY <1>5, <1>11 DEF vars
  <1> QED
    BY <1>8, <1>9, <1>10, <1>11 DEF Next

\* Every step leaves well-formed invitations.
LEMMA InvitesStep == IInv /\ [Next]_vars => invites' \in Seq(Invite)
  <1> SUFFICES ASSUME IInv, [Next]_vars PROVE invites' \in Seq(Invite)
    OBVIOUS
  <1>1. invites \in Seq(Invite)
    BY DEF IInv, TablesOK
  <1>2. ASSUME NEW i \in DOMAIN invites, NEW status \in {"expired", "consumed"},
               invites' = [invites EXCEPT ![i].status = status]
        PROVE  invites' \in Seq(Invite)
    <2>1. invites[i] \in Invite
      BY <1>1, RowsOf
    <2>2. [invites[i] EXCEPT !.status = status] \in Invite
      BY <2>1 DEF Invite
    <2> QED
      BY <1>1, <1>2, <2>2, StatusOfOne
  <1>3. ASSUME NEW e \in Addresses, InviteAdmin(e)
        PROVE  invites' \in Seq(Invite)
    <2>1. [email |-> e, status |-> "open"] \in Invite
      BY DEF Invite
    <2> QED
      BY <1>1, <1>3, <2>1, OneMoreRow DEF InviteAdmin
  <1>4. ASSUME NEW i \in DOMAIN invites, PassInviteWindow(i)
        PROVE  invites' \in Seq(Invite)
    BY <1>2, <1>4 DEF PassInviteWindow
  <1>5. ASSUME NEW i \in DOMAIN invites, NEW u \in Users,
               AcceptAdminInvite(i, u) \/ CompleteAdminSetup(i, u)
        PROVE  invites' \in Seq(Invite)
    BY <1>2, <1>5 DEF AcceptAdminInvite, CompleteAdminSetup
  <1>6. ASSUME NEW r \in Requests, Session(r)
        PROVE  invites' = invites
    BY <1>6
    DEF Session, Register, GoogleCallback, Login, AdminLogin, ResendOtp, AdminResendOtp,
        VerifyOtp, AdminVerifyOtp, LoginReads, ResendReads, VerifyReads, LoginFails,
        LoginClears, LoginIssues, VerifyClears, RefreshAsserts, RefreshChecks,
        RefreshRevokes, Persists, ResetReads, ResetCommits, Fails
  <1>7. ASSUME NEW u \in Users, Account(u) \/ Clock(u)
        PROVE  invites' = invites
    BY <1>7
    DEF Account, Clock, VerifyEmail, InitiateEmailChange, ConfirmEmailChange,
        InitiateAccountDeletion, ConfirmAccountDeletion, Logout, ForgotPassword,
        PassCodeWindow, PassResetWindow, PassLock
  <1>8. CASE Administration
    BY <1>1, <1>3, <1>4, <1>5, <1>8
    DEF Administration, SuspendUser, ReinstateUser, SetSuspended, RemoveAdmin,
        UpgradeAdminToSuperAdmin, SetRole
  <1>9. CASE UNCHANGED vars
    BY <1>1, <1>9 DEF vars
  <1> QED
    BY <1>1, <1>6, <1>7, <1>8, <1>9 DEF Next

\* Every step adds to proven only pairs of a user and an address.
LEMMA ProvenStep == IInv /\ [Next]_vars => proven' \subseteq Users \X Addresses
  <1> SUFFICES ASSUME IInv, [Next]_vars PROVE proven' \subseteq Users \X Addresses
    OBVIOUS
  <1>1. /\ proven \subseteq Users \X Addresses /\ mails \in Seq(Mail)
        /\ invites \in Seq(Invite) /\ SlotsFollowMails
    BY DEF IInv, TablesOK, Codes
  <1>2. ASSUME NEW u \in Users, NEW purpose, Presents(u, purpose)
        PROVE  proven' \subseteq Users \X Addresses
    <2> DEFINE m == mails[users[u].code.otp]
    <2>1. users[u].code.otp \in DOMAIN mails
      BY <1>1, <1>2 DEF Presents, SlotsFollowMails
    <2>2. m \in Mail
      BY <1>1, <2>1, RowsOf
    <2>3. m.to \in Addresses
      BY <2>2 DEF Mail
    <2> QED
      BY <1>1, <1>2, <2>3 DEF Presents
  <1>3. ASSUME NEW u \in Users, NEW i \in DOMAIN invites,
               proven' = proven \cup {<<u, invites[i].email>>}
        PROVE  proven' \subseteq Users \X Addresses
    <2>1. invites[i] \in Invite
      BY <1>1, RowsOf
    <2>2. invites[i].email \in Addresses
      BY <2>1 DEF Invite
    <2> QED
      BY <1>1, <1>3, <2>2
  <1>4. ASSUME NEW r \in Requests, Session(r)
        PROVE  proven' \subseteq Users \X Addresses
    <2>1. ASSUME NEW u \in Users, NEW e \in Addresses, GoogleCallback(r, u, e)
          PROVE  proven' \subseteq Users \X Addresses
      BY <1>1, <2>1 DEF GoogleCallback
    <2>2. ASSUME NEW u \in Users, NEW purpose, VerifyReads(r, u, purpose)
          PROVE  proven' \subseteq Users \X Addresses
      BY <1>2, <2>2 DEF VerifyReads
    <2> QED
      BY <1>1, <1>4, <2>1, <2>2
      DEF Session, Register, Login, AdminLogin, ResendOtp, AdminResendOtp,
          VerifyOtp, AdminVerifyOtp, LoginReads, ResendReads, LoginFails,
          LoginClears, LoginIssues, VerifyClears, RefreshAsserts, RefreshChecks,
          RefreshRevokes, Persists, ResetReads, ResetCommits, Fails
  <1>5. ASSUME NEW u \in Users, Account(u) \/ Clock(u)
        PROVE  proven' \subseteq Users \X Addresses
    <2>1. CASE ConfirmEmailChange(u) \/ ConfirmAccountDeletion(u)
      BY <1>2, <2>1 DEF ConfirmEmailChange, ConfirmAccountDeletion
    <2>2. ASSUME NEW e \in Addresses, VerifyEmail(u, e)
          PROVE  proven' \subseteq Users \X Addresses
      BY <1>1, <2>2 DEF VerifyEmail
    <2> QED
      BY <1>1, <1>5, <2>1, <2>2
      DEF Account, Clock, InitiateEmailChange, InitiateAccountDeletion, Logout,
          ForgotPassword, PassCodeWindow, PassResetWindow, PassLock
  <1>6. CASE Administration
    <2>1. ASSUME NEW i \in DOMAIN invites, NEW u \in Users,
                 AcceptAdminInvite(i, u) \/ CompleteAdminSetup(i, u)
          PROVE  proven' \subseteq Users \X Addresses
      BY <1>3, <2>1 DEF AcceptAdminInvite, CompleteAdminSetup
    <2> QED
      BY <1>1, <1>6, <2>1
      DEF Administration, SuspendUser, ReinstateUser, SetSuspended, RemoveAdmin,
          UpgradeAdminToSuperAdmin, SetRole, InviteAdmin, PassInviteWindow
  <1>7. CASE UNCHANGED vars
    BY <1>1, <1>7 DEF vars
  <1> QED
    BY <1>4, <1>5, <1>6, <1>7 DEF Next

-----------------------------------------------------------------------------
(***************************************************************************)
(* The theorems.                                                           *)
(***************************************************************************)
\* The empty tables satisfy the invariant.
LEMMA InitIInv == Init => IInv
  <1> SUFFICES ASSUME Init PROVE IInv
    OBVIOUS
  <1> DEFINE nobody == NewUser(NoAddress, FALSE, "user")
  <1>1. /\ nobody \in UserRow /\ nobody.code = EmptySlot
        /\ ~nobody.verified /\ nobody.failed = 0 /\ nobody.lock = "none"
    BY Empty, Limits DEF NewUser, UserRow, Roles
  <1>2. users = [u \in Users |-> nobody]
    BY DEF Init
  <1> HIDE DEF nobody
  <1>3. UsersOK
    BY <1>1, <1>2, Empty DEF UsersOK
  <1>4. /\ \A R : << >> \in Seq(R)
        /\ DOMAIN mails = {} /\ DOMAIN tokens = {}
    BY EmptySeq DEF Init
  <1>5. TablesOK
    BY <1>4 DEF Init, TablesOK
  <1>6. RequestsOK /\ \A r \in Requests : handling[r].next = "nothing"
    BY DEF Init, RequestsOK, Idle
  <1>7. Codes /\ ChangesGoToTarget
    <2>1. \A u \in Users : users[u].code = EmptySlot
      BY <1>1, <1>2
    <2>2. EmptySlot.otp = 0 /\ EmptySlot.purpose = "none"
      BY DEF EmptySlot
    <2>3. \A u \in Users : users[u].code.otp = 0 /\ users[u].code.purpose = "none"
      BY <2>1, <2>2
    <2>4. SlotsFollowMails
      BY <2>3 DEF SlotsFollowMails
    <2>5. ChangesGoToTarget
      BY <2>3 DEF ChangesGoToTarget
    <2>6. honoured = {}
      BY DEF Init
    <2>7. CodeServesItsPurpose /\ SpentCodesAreGone
      BY <2>6 DEF CodeServesItsPurpose, SpentCodesAreGone
    <2> QED
      BY <2>4, <2>5, <2>7 DEF Codes
  <1>8. Proofs
    BY <1>1, <1>2 DEF Init, Proofs, VerifiedIsProven, LinksAreCurrent
  <1>9. LockFollowsFailures
    BY <1>1, <1>2, IdentityAssumption DEF LockFollowsFailures
  <1>10. Chain
    BY <1>4, <1>6 DEF Chain, ReplacedIsRevoked, HandedOver, MayHold
  <1> QED
    BY <1>3, <1>5, <1>6, <1>7, <1>8, <1>9, <1>10 DEF IInv

\* Every step preserves the invariant.
LEMMA NextIInv == IInv /\ [Next]_vars => IInv'
  <1> SUFFICES ASSUME IInv, [Next]_vars PROVE IInv'
    OBVIOUS
  <1>1. UsersOK'
    BY UsersStep
  <1>2. /\ Codes' /\ ChangesGoToTarget'
        /\ mails' \in Seq(Mail) /\ honoured' \subseteq Nat \X Purposes
    BY CodesStep
  <1>3. Proofs' /\ links' \subseteq Users \X Addresses
    BY ProofsStep
  <1>4. LockFollowsFailures'
    BY LockStep
  <1>5. RequestsOK' /\ tokens' \in Seq(Token)' /\ Chain'
    BY SessionsStep, OfSessions
  <1>6. invites' \in Seq(Invite) /\ proven' \subseteq Users \X Addresses
    BY InvitesStep, ProvenStep
  <1> QED
    BY <1>1, <1>2, <1>3, <1>4, <1>5, <1>6 DEF IInv, TablesOK, Token

\* The inductive invariant.
THEOREM Inductive == Spec => []IInv
  BY InitIInv, NextIInv, PTL DEF Spec

\* Rows stay well-formed and the four columns of a code agree, whichever of the
\* six handlers that write them come between each other.
THEOREM IdentityTypeCorrect == Spec => []TypeOK
  <1>1. IInv => TypeOK
    BY DEF IInv, UsersOK, TablesOK, RequestsOK, TypeOK
  <1> QED
    BY <1>1, Inductive, PTL

\* verifyEmail may ignore the address in its link: whoever counts as verified
\* has shown to receive mail at the address the row has now.
THEOREM VerifiedAreProven == Spec => []VerifiedIsProven
  <1>1. IInv => VerifiedIsProven
    BY DEF IInv, Proofs
  <1> QED
    BY <1>1, Inductive, PTL

\* verifyOtp, adminVerifyOtp, confirmAccountDeletion and confirmEmailChange
\* accept a code only for what its mail said, although they share one slot.
THEOREM CodesServeTheirPurpose == Spec => []CodeServesItsPurpose
  <1>1. IInv => CodeServesItsPurpose
    BY DEF IInv, Codes
  <1> QED
    BY <1>1, Inductive, PTL

\* A code that deleted an account or changed an address works no second time.
THEOREM SpentCodesStayGone == Spec => []SpentCodesAreGone
  <1>1. IInv => SpentCodesAreGone
    BY DEF IInv, Codes
  <1> QED
    BY <1>1, Inductive, PTL

\* recordFailedLogin and clearFailedLogins keep counter and lock together,
\* in whatever order the logins under way reach them.
THEOREM LocksFollowFailures == Spec => []LockFollowsFailures
  <1>1. IInv => LockFollowsFailures
    BY DEF IInv
  <1> QED
    BY <1>1, Inductive, PTL

\* Whatever comes between the transactions of a refresh, the token it replaces
\* is revoked before the new one is stored.
THEOREM ReplacedTokensAreRevoked == Spec => []ReplacedIsRevoked
  <1>1. IInv => ReplacedIsRevoked
    BY DEF IInv, Chain
  <1> QED
    BY <1>1, Inductive, PTL
=============================================================================

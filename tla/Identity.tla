------------------------------ MODULE Identity ------------------------------
(***************************************************************************)
(* Accounts and how one proves to own one: registration, verified e-mail   *)
(* addresses, login by one-time code, lockout, refresh tokens, password    *)
(* reset, change of address, deletion, suspension, invited administrators. *)
(*                                                                         *)
(* A user row has ONE slot for a one-time code, whatever the code is for.  *)
(* Handlers that work in one transaction on a row they read FOR UPDATE are *)
(* one action.  Login, verification of a login code, refresh and password  *)
(* reset read in one transaction and write in others: each is a request    *)
(* that goes through steps, and other requests come in between.            *)
(*                                                                         *)
(* authMiddleware's check that a caller is neither suspended nor deleted   *)
(* is a query of its own, before the handler's transaction; the handlers   *)
(* cannot rely on it, so it is no guard here.  (The role it reads is one:  *)
(* a change of role in between could as well come after the handler.  So   *)
(* could what the few transactions that lock no row may miss: they write   *)
(* a column no other check of theirs reads, or insert under UNIQUE(email).)*)
(*                                                                         *)
(* Passwords, hashes and signatures are left out: a comparison may succeed *)
(* or fail, and only who received a code, link or token can present it.    *)
(* A link or token that expired is one nobody presents.  Two random codes  *)
(* are taken to be different.  POST /auth/google-signup is no action: it   *)
(* reads a variable that does not exist (auth.controller.ts:407), throws,  *)
(* and is rolled back every time.                                          *)
(***************************************************************************)
EXTENDS Integers, Sequences

CONSTANTS
  Users,        \* ids of user rows
  Addresses,    \* e-mail addresses, in lower case as every writer stores them
  NoAddress,    \* no address: a row that does not exist yet, or a NULL column
  Requests,     \* requests that may be under way at one time
  MaxFailures,  \* LOGIN_MAX_FAILED_ATTEMPTS
  MaxCodes,     \* bound on the one-time codes issued, for TLC
  MaxTokens,    \* bound on the refresh tokens issued, for TLC
  MaxInvites    \* bound on the invitations, for TLC

ASSUME IdentityAssumption ==
  /\ NoAddress \notin Addresses
  /\ MaxFailures \in Nat \ {0}
  /\ MaxCodes \in Nat /\ MaxTokens \in Nat /\ MaxInvites \in Nat

VARIABLES
  users,     \* table users
  mails,     \* the one-time codes, in the order they were issued: to whom, for what
  links,     \* e-mail verification links sent: user and address
  invites,   \* table admin_invites
  tokens,    \* table refresh_tokens
  handling,  \* how far each request has come
  proven,    \* history: user and address the caller has shown to receive mail at
  honoured   \* history: which code was accepted for which purpose

vars == <<users, mails, links, invites, tokens, handling, proven, honoured>>

-----------------------------------------------------------------------------
Purposes == {"login", "admin-login", "account-delete", "email-change"}
Roles == {"user", "admin", "super_admin"}

\* otp, otp_expires (is it ahead?), otp_purpose and otp_target_email.
Slot ==
  [otp : Nat, fresh : BOOLEAN, purpose : Purposes \cup {"none"},
   target : Addresses \cup {NoAddress}]
EmptySlot == [otp |-> 0, fresh |-> FALSE, purpose |-> "none", target |-> NoAddress]

\* The four columns are written together and agree.
ColumnsAgree(c) ==
  /\ c.otp = 0 <=> c.purpose = "none"
  /\ c.target = NoAddress <=> c.purpose # "email-change"
  /\ c.fresh => c.otp # 0

\* lock is locked_until: NULL, ahead, or past.  reset: is there an unexpired
\* password_reset_token?  failed is counted up to MaxFailures, which is all
\* that recordFailedLogin distinguishes.
UserRow ==
  [email : Addresses \cup {NoAddress}, verified : BOOLEAN, role : Roles,
   suspended : BOOLEAN, deleted : BOOLEAN,
   failed : 0 .. MaxFailures, lock : {"none", "on", "past"},
   reset : BOOLEAN, code : Slot]

NewUser(e, verified, role) ==
  [email |-> e, verified |-> verified, role |-> role,
   suspended |-> FALSE, deleted |-> FALSE, failed |-> 0, lock |-> "none",
   reset |-> FALSE, code |-> EmptySlot]

Mail == [to : Addresses, purpose : Purposes]
Invite == [email : Addresses, status : {"open", "expired", "consumed"}]

\* from is the token that this one replaces, 0 after a login.
Token == [user : Users, live : BOOLEAN, from : Nat]

\* A request under way: what it does next, for whom, and what it has read.
Idle == [next |-> "nothing"]
Steps == {"compare", "issue", "clear", "check", "revoke", "persist", "reset"}
UnderWay ==
  [next : Steps, user : Users, purpose : {"login", "admin-login"},
   email : Addresses, token : Nat]
Begin(step, u, p, e, t) ==
  [next |-> step, user |-> u, purpose |-> p, email |-> e, token |-> t]

Exists(u) == users[u].email # NoAddress
Free(e) == \A u \in Users : users[u].email # e     \* UNIQUE(email)
Open(u) == ~users[u].deleted /\ ~users[u].suspended
IsAdmin(u) == users[u].role # "user"
At(r, step) == handling[r].next = step

Init ==
  /\ users = [u \in Users |-> NewUser(NoAddress, FALSE, "user")]
  /\ mails = << >> /\ links = {} /\ invites = << >> /\ tokens = << >>
  /\ handling = [r \in Requests |-> Idle]
  /\ proven = {} /\ honoured = {}

-----------------------------------------------------------------------------
(***************************************************************************)
(* One-time codes.                                                         *)
(***************************************************************************)
\* A new code for u is written to the slot, over what was there, and mailed.
IssueCode(u, purpose, to, target) ==
  /\ Len(mails) < MaxCodes
  /\ mails' = Append(mails, [to |-> to, purpose |-> purpose])
  /\ users' = [users EXCEPT ![u].code =
       [otp |-> Len(mails) + 1, fresh |-> TRUE, purpose |-> purpose, target |-> target]]

\* The caller presents the code that is in the slot, so he has read the mail.
Presents(u, purpose) ==
  /\ users[u].code.otp # 0
  /\ users[u].code.fresh
  /\ users[u].code.purpose = purpose
  /\ honoured' = honoured \cup {<<users[u].code.otp, purpose>>}
  /\ proven' = proven \cup {<<u, mails[users[u].code.otp].to>>}

PassCodeWindow(u) ==
  /\ users[u].code.fresh
  /\ users' = [users EXCEPT ![u].code.fresh = FALSE]
  /\ UNCHANGED <<mails, links, invites, tokens, handling, proven, honoured>>

-----------------------------------------------------------------------------
(***************************************************************************)
(* Sessions.                                                               *)
(***************************************************************************)
\* persistRefreshToken, the last step of every handler that opens a session.
Persists(r) ==
  /\ At(r, "persist")
  /\ Len(tokens) < MaxTokens
  /\ tokens' = Append(tokens,
       [user |-> handling[r].user, live |-> TRUE, from |-> handling[r].token])
  /\ handling' = [handling EXCEPT ![r] = Idle]
  /\ UNCHANGED <<users, mails, links, invites, proven, honoured>>

\* POST /auth/register.  The mails go out after the commit; if one fails the
\* request ends without a token, as any request may (Fails).
Register(r, u, e) ==
  /\ handling[r] = Idle
  /\ ~Exists(u) /\ Free(e)
  /\ users' = [users EXCEPT ![u] = NewUser(e, FALSE, "user")]
  /\ links' = links \cup {<<u, e>>}
  /\ handling' = [handling EXCEPT ![r] = Begin("persist", u, "login", e, 0)]
  /\ UNCHANGED <<mails, invites, tokens, proven, honoured>>

\* GET /auth/google/callback: Google vouches for the address.  An account
\* that has it is taken, suspended or not; otherwise one is made.
GoogleCallback(r, u, e) ==
  /\ handling[r] = Idle
  /\ \/ /\ users[u].email = e
        /\ users' = [users EXCEPT ![u].verified = TRUE]
     \/ /\ ~Exists(u) /\ Free(e)
        /\ users' = [users EXCEPT ![u] = NewUser(e, TRUE, "user")]
  /\ proven' = proven \cup {<<u, e>>}
  /\ handling' = [handling EXCEPT ![r] = Begin("persist", u, "login", e, 0)]
  /\ UNCHANGED <<mails, links, invites, tokens, honoured>>

\* GET /auth/verify-email.  The link names user and address; only the user
\* is looked at.
VerifyEmail(u, e) ==
  /\ <<u, e>> \in links
  /\ users' = [users EXCEPT ![u].verified = TRUE]
  /\ proven' = proven \cup {<<u, e>>}
  /\ UNCHANGED <<mails, links, invites, tokens, handling, honoured>>

\* The first transaction of a login: the row is read and its owner not turned
\* away.
LoginReads(r, u, purpose) ==
  /\ handling[r] = Idle
  /\ Exists(u) /\ Open(u)
  /\ users[u].lock # "on"
  /\ handling' = [handling EXCEPT ![r] =
       Begin("compare", u, purpose, users[u].email, 0)]
  /\ UNCHANGED <<users, mails, links, invites, tokens, proven, honoured>>

Login(r, u) == LoginReads(r, u, "login")
AdminLogin(r, u) == IsAdmin(u) /\ LoginReads(r, u, "admin-login")

\* The password is wrong: recordFailedLogin.
LoginFails(r) ==
  LET u == handling[r].user
      count == users[u].failed + 1
  IN
  /\ At(r, "compare")
  /\ users' = [users EXCEPT
       ![u].failed = IF count >= MaxFailures THEN MaxFailures ELSE count,
       ![u].lock = IF count >= MaxFailures THEN "on" ELSE @]
  /\ handling' = [handling EXCEPT ![r] = Idle]
  /\ UNCHANGED <<mails, links, invites, tokens, proven, honoured>>

\* As LoginClears, but only the counter is cleared.
LoginClearsCounter(r) ==
  LET u == handling[r].user IN
  /\ At(r, "compare")
  /\ users' = [users EXCEPT ![u].failed = 0]
  /\ handling' = [handling EXCEPT ![r].next = "issue"]
  /\ UNCHANGED <<mails, links, invites, tokens, proven, honoured>>

\* The password is right: clearFailedLogins, whatever happened meanwhile.
LoginClears(r) ==
  LET u == handling[r].user IN
  /\ At(r, "compare")
  /\ users' = [users EXCEPT ![u].failed = 0, ![u].lock = "none"]
  /\ handling' = [handling EXCEPT ![r].next = "issue"]
  /\ UNCHANGED <<mails, links, invites, tokens, proven, honoured>>

\* The first transaction of a request for another code.
ResendReads(r, u, purpose) ==
  /\ handling[r] = Idle
  /\ Exists(u) /\ Open(u)
  /\ handling' = [handling EXCEPT ![r] =
       Begin("issue", u, purpose, users[u].email, 0)]
  /\ UNCHANGED <<users, mails, links, invites, tokens, proven, honoured>>

ResendOtp(r, u) == ResendReads(r, u, "login")
AdminResendOtp(r, u) == IsAdmin(u) /\ ResendReads(r, u, "admin-login")

\* As LoginIssues, but the address of a pending change stays in the row.
LoginIssuesKeepingTarget(r) ==
  LET u == handling[r].user IN
  /\ At(r, "issue")
  /\ IssueCode(u, handling[r].purpose, handling[r].email, users[u].code.target)
  /\ handling' = [handling EXCEPT ![r] = Idle]
  /\ UNCHANGED <<links, invites, tokens, proven, honoured>>

\* As LoginIssues, but a resent code takes over the purpose in the slot.
LoginIssuesKeepingPurpose(r) ==
  LET u == handling[r].user IN
  /\ At(r, "issue") /\ Len(mails) < MaxCodes
  /\ mails' = Append(mails, [to |-> handling[r].email, purpose |-> handling[r].purpose])
  /\ users' = [users EXCEPT ![u].code.otp = Len(mails) + 1, ![u].code.fresh = TRUE]
  /\ handling' = [handling EXCEPT ![r] = Idle]
  /\ UNCHANGED <<links, invites, tokens, proven, honoured>>

\* Last transaction of login and resend.  The code goes to the address read
\* at the beginning.
LoginIssues(r) ==
  /\ At(r, "issue")
  /\ IssueCode(handling[r].user, handling[r].purpose, handling[r].email, NoAddress)
  /\ handling' = [handling EXCEPT ![r] = Idle]
  /\ UNCHANGED <<links, invites, tokens, proven, honoured>>

\* The first transaction of a verification: the code is accepted.  It stays
\* in the slot until VerifyClears.
VerifyReads(r, u, purpose) ==
  /\ handling[r] = Idle
  /\ Exists(u) /\ Open(u)
  /\ Presents(u, purpose)
  /\ handling' = [handling EXCEPT ![r] =
       Begin("clear", u, purpose, users[u].email, 0)]
  /\ UNCHANGED <<users, mails, links, invites, tokens>>

VerifyOtp(r, u) == VerifyReads(r, u, "login")
AdminVerifyOtp(r, u) == IsAdmin(u) /\ VerifyReads(r, u, "admin-login")

\* Second transaction: the slot is emptied, whatever code is in it by now.
VerifyClears(r) ==
  /\ At(r, "clear")
  /\ users' = [users EXCEPT ![handling[r].user].code = EmptySlot]
  /\ handling' = [handling EXCEPT ![r].next = "persist"]
  /\ UNCHANGED <<mails, links, invites, tokens, proven, honoured>>

\* revokeAllRefreshTokens names the tokens of u; Revoked(S) is the table with
\* the tokens in S revoked.
TokensOf(u) == {t \in DOMAIN tokens : tokens[t].user = u}
Revoked(S) ==
  [t \in DOMAIN tokens |-> [tokens[t] EXCEPT !.live = @ /\ t \notin S]]

\* POST /auth/refresh-token, first transaction: assertRefreshTokenActive.
RefreshAsserts(r, t) ==
  /\ handling[r] = Idle
  /\ tokens[t].live
  /\ Exists(tokens[t].user)
  /\ handling' = [handling EXCEPT ![r] =
       Begin("check", tokens[t].user, "login", users[tokens[t].user].email, t)]
  /\ UNCHANGED <<users, mails, links, invites, tokens, proven, honoured>>

\* Second transaction: its user is neither deleted nor suspended.
RefreshChecks(r) ==
  /\ At(r, "check")
  /\ Open(handling[r].user)
  /\ handling' = [handling EXCEPT ![r].next = "revoke"]
  /\ UNCHANGED <<users, mails, links, invites, tokens, proven, honoured>>

\* As RefreshRevokes, but the token presented stays good.
RefreshRevokesNothing(r) ==
  /\ At(r, "revoke")
  /\ handling' = [handling EXCEPT ![r].next = "persist"]
  /\ UNCHANGED <<users, mails, links, invites, tokens, proven, honoured>>

\* Third transaction: revokeRefreshToken.
RefreshRevokes(r) ==
  /\ At(r, "revoke")
  /\ tokens' = Revoked({handling[r].token})
  /\ handling' = [handling EXCEPT ![r].next = "persist"]
  /\ UNCHANGED <<users, mails, links, invites, proven, honoured>>

\* POST /auth/logout.  The token in the body is revoked in a transaction
\* before; it is one of the user's, so this one leaves nothing else to model.
Logout(u) ==
  /\ Exists(u)
  /\ tokens' = Revoked(TokensOf(u))
  /\ UNCHANGED <<users, mails, links, invites, handling, proven, honoured>>

-----------------------------------------------------------------------------
(***************************************************************************)
(* Password reset.                                                         *)
(***************************************************************************)
ForgotPassword(u) ==
  /\ Exists(u)
  /\ users' = [users EXCEPT ![u].reset = TRUE]
  /\ UNCHANGED <<mails, links, invites, tokens, handling, proven, honoured>>

PassResetWindow(u) ==
  /\ users[u].reset
  /\ users' = [users EXCEPT ![u].reset = FALSE]
  /\ UNCHANGED <<mails, links, invites, tokens, handling, proven, honoured>>

\* POST /auth/reset-password, first transaction: the link is good.
ResetReads(r, u) ==
  /\ handling[r] = Idle
  /\ users[u].reset /\ Exists(u)
  /\ handling' = [handling EXCEPT ![r] = Begin("reset", u, "login", users[u].email, 0)]
  /\ UNCHANGED <<users, mails, links, invites, tokens, proven, honoured>>

\* Second transaction: the password is replaced, the reset token removed,
\* every session ended.
ResetCommits(r) ==
  LET u == handling[r].user IN
  /\ At(r, "reset")
  /\ users' = [users EXCEPT ![u].reset = FALSE]
  /\ tokens' = Revoked(TokensOf(u))
  /\ handling' = [handling EXCEPT ![r] = Idle]
  /\ UNCHANGED <<mails, links, invites, proven, honoured>>

\* A step throws, or the server stops: what was committed stays.
Fails(r) ==
  /\ handling[r] # Idle
  /\ handling' = [handling EXCEPT ![r] = Idle]
  /\ UNCHANGED <<users, mails, links, invites, tokens, proven, honoured>>

PassLock(u) ==
  /\ users[u].lock = "on"
  /\ users' = [users EXCEPT ![u].lock = "past"]
  /\ UNCHANGED <<mails, links, invites, tokens, handling, proven, honoured>>

-----------------------------------------------------------------------------
(***************************************************************************)
(* The account's own handlers.                                             *)
(***************************************************************************)
InitiateAccountDeletion(u) ==
  /\ Exists(u) /\ ~users[u].deleted
  /\ ~IsAdmin(u)
  /\ IssueCode(u, "account-delete", users[u].email, NoAddress)
  /\ UNCHANGED <<links, invites, tokens, handling, proven, honoured>>

ConfirmAccountDeletion(u) ==
  /\ Exists(u) /\ ~users[u].deleted
  /\ Presents(u, "account-delete")
  /\ users' = [users EXCEPT ![u].deleted = TRUE, ![u].suspended = TRUE,
                            ![u].code = EmptySlot]
  /\ UNCHANGED <<mails, links, invites, tokens, handling>>

\* As InitiateEmailChange, but the code goes to the address of the account.
InitiateEmailChangeToOld(u, e) ==
  /\ Exists(u) /\ ~users[u].deleted
  /\ users[u].email # e
  /\ \A v \in Users \ {u} : users[v].email = e => users[v].deleted
  /\ IssueCode(u, "email-change", users[u].email, e)
  /\ UNCHANGED <<links, invites, tokens, handling, proven, honoured>>

\* An address counts as taken unless its account is deleted; UNIQUE(email)
\* will still refuse that one when the change is confirmed.
InitiateEmailChange(u, e) ==
  /\ Exists(u) /\ ~users[u].deleted
  /\ users[u].email # e
  /\ \A v \in Users \ {u} : users[v].email = e => users[v].deleted
  /\ IssueCode(u, "email-change", e, e)
  /\ UNCHANGED <<links, invites, tokens, handling, proven, honoured>>

\* As ConfirmEmailChange, but the code stays in the slot.
ConfirmEmailChangeKeepsCode(u) ==
  LET e == users[u].code.target IN
  /\ Exists(u) /\ ~users[u].deleted
  /\ Presents(u, "email-change")
  /\ e # NoAddress
  /\ \A v \in Users \ {u} : users[v].email # e
  /\ users' = [users EXCEPT ![u].email = e, ![u].verified = TRUE]
  /\ UNCHANGED <<mails, links, invites, tokens, handling>>

ConfirmEmailChange(u) ==
  LET e == users[u].code.target IN
  /\ Exists(u) /\ ~users[u].deleted
  /\ Presents(u, "email-change")
  /\ e # NoAddress
  /\ \A v \in Users \ {u} : users[v].email # e     \* UNIQUE(email)
  /\ users' = [users EXCEPT ![u].email = e, ![u].verified = TRUE,
                            ![u].code = EmptySlot]
  /\ UNCHANGED <<mails, links, invites, tokens, handling>>

-----------------------------------------------------------------------------
(***************************************************************************)
(* The admins' handlers.  An admin who invites is given the link that is   *)
(* mailed, and vouches for the address if he passes it on.                 *)
(***************************************************************************)
SetSuspended(u, yes) ==
  /\ Exists(u)
  /\ users' = [users EXCEPT ![u].suspended = yes]
  /\ UNCHANGED <<mails, links, invites, tokens, handling, proven, honoured>>

SuspendUser(u) == SetSuspended(u, TRUE)
ReinstateUser(u) == SetSuspended(u, FALSE)

InviteAdmin(e) ==
  /\ Len(invites) < MaxInvites
  /\ \A u \in Users : users[u].email = e /\ IsAdmin(u) => users[u].deleted
  /\ invites' = Append(invites, [email |-> e, status |-> "open"])
  /\ UNCHANGED <<users, mails, links, tokens, handling, proven, honoured>>

PassInviteWindow(i) ==
  /\ invites[i].status = "open"
  /\ invites' = [invites EXCEPT ![i].status = "expired"]
  /\ UNCHANGED <<users, mails, links, tokens, handling, proven, honoured>>

\* The account with the invited address, if there is one, becomes admin.
AcceptAdminInvite(i, u) ==
  /\ invites[i].status = "open"
  /\ users[u].email = invites[i].email /\ ~users[u].deleted
  /\ users' = [users EXCEPT ![u].role = "admin"]
  /\ invites' = [invites EXCEPT ![i].status = "consumed"]
  /\ proven' = proven \cup {<<u, invites[i].email>>}
  /\ UNCHANGED <<mails, links, tokens, handling, honoured>>

\* If there is none, one is made, and its address counts as verified.
CompleteAdminSetup(i, u) ==
  /\ invites[i].status = "open"
  /\ ~Exists(u) /\ Free(invites[i].email)
  /\ users' = [users EXCEPT ![u] = NewUser(invites[i].email, TRUE, "admin")]
  /\ invites' = [invites EXCEPT ![i].status = "consumed"]
  /\ proven' = proven \cup {<<u, invites[i].email>>}
  /\ UNCHANGED <<mails, links, tokens, handling, honoured>>

SetRole(u, role) ==
  /\ Exists(u) /\ ~users[u].deleted
  /\ users[u].role = "admin"
  /\ users' = [users EXCEPT ![u].role = role]
  /\ UNCHANGED <<mails, links, invites, tokens, handling, proven, honoured>>

RemoveAdmin(u) == SetRole(u, "user")
UpgradeAdminToSuperAdmin(u) == SetRole(u, "super_admin")

-----------------------------------------------------------------------------
Session(r) ==
  \/ \E u \in Users, e \in Addresses : Register(r, u, e) \/ GoogleCallback(r, u, e)
  \/ \E u \in Users :
       \/ Login(r, u) \/ ResendOtp(r, u) \/ VerifyOtp(r, u)
       \/ AdminLogin(r, u) \/ AdminResendOtp(r, u) \/ AdminVerifyOtp(r, u)
  \/ LoginFails(r) \/ LoginClears(r) \/ LoginIssues(r) \/ VerifyClears(r)
  \/ \E t \in DOMAIN tokens : RefreshAsserts(r, t)
  \/ RefreshChecks(r) \/ RefreshRevokes(r) \/ Persists(r)
  \/ \E u \in Users : ResetReads(r, u)
  \/ ResetCommits(r)
  \/ Fails(r)

Account(u) ==
  \/ \E e \in Addresses : VerifyEmail(u, e) \/ InitiateEmailChange(u, e)
  \/ ConfirmEmailChange(u)
  \/ InitiateAccountDeletion(u) \/ ConfirmAccountDeletion(u)
  \/ Logout(u) \/ ForgotPassword(u)

Clock(u) == PassCodeWindow(u) \/ PassResetWindow(u) \/ PassLock(u)

Administration ==
  \/ \E u \in Users :
       \/ SuspendUser(u) \/ ReinstateUser(u)
       \/ RemoveAdmin(u) \/ UpgradeAdminToSuperAdmin(u)
  \/ \E e \in Addresses : InviteAdmin(e)
  \/ \E i \in DOMAIN invites : PassInviteWindow(i)
  \/ \E i \in DOMAIN invites, u \in Users :
       AcceptAdminInvite(i, u) \/ CompleteAdminSetup(i, u)

Next ==
  \/ \E r \in Requests : Session(r)
  \/ \E u \in Users : Account(u) \/ Clock(u)
  \/ Administration

Spec == Init /\ [][Next]_vars

-----------------------------------------------------------------------------
(***************************************************************************)
(* Properties.                                                             *)
(***************************************************************************)
\* Every table holds well-formed rows, and the columns of a one-time code,
\* which six handlers write, belong together.
TypeOK ==
  /\ users \in [Users -> UserRow]
  /\ \A u \in Users : ColumnsAgree(users[u].code)
  /\ mails \in Seq(Mail)
  /\ links \subseteq Users \X Addresses
  /\ invites \in Seq(Invite)
  /\ tokens \in Seq(Token)
  /\ handling \in [Requests -> UnderWay \cup {Idle}]
  /\ proven \subseteq Users \X Addresses
  /\ honoured \subseteq Nat \X Purposes

\* email_verified speaks of the address the account has NOW: whoever acts for
\* the account received mail there.  verifyEmail does not compare the address
\* in its link with the row's; that is harmless only because no path changes
\* the address of an account that is not verified without verifying the new
\* one.
VerifiedIsProven ==
  \A u \in Users : users[u].verified => <<u, users[u].email>> \in proven

\* A code is only ever accepted for what its mail said it was for, although
\* four flows write the same slot and verification empties it unlooked.
CodeServesItsPurpose ==
  \A h \in honoured : h[1] \in DOMAIN mails /\ mails[h[1]].purpose = h[2]

\* Deletion and change of address spend their code: it is in no slot again.
\* (A login code is accepted in one transaction and cleared in another, and
\* may be accepted by two requests.)
SpentCodesAreGone ==
  \A h \in honoured : h[2] \in {"account-delete", "email-change"} =>
    \A u \in Users : users[u].code.otp # h[1]

\* An account has reached the limit of failed logins exactly when it was
\* locked, though failures and successes of requests that began earlier keep
\* arriving, and although the lock runs out and the counter does not.
LockFollowsFailures ==
  \A u \in Users : users[u].failed = MaxFailures <=> users[u].lock # "none"

\* A token that was replaced is dead before its replacement exists.
ReplacedIsRevoked ==
  \A t \in DOMAIN tokens : tokens[t].from # 0 => ~tokens[tokens[t].from].live
=============================================================================

------------------------------ MODULE Members ------------------------------
(***************************************************************************)
(* What a member has besides money: the identity check (modules/kyc and    *)
(* the decisions in modules/admin), beneficiaries (modules/beneficiaries)  *)
(* and ratings (modules/ratings), behind the middleware that admits a      *)
(* request (authMiddleware, requireVerifiedUser, adminMiddleware and       *)
(* requirePermission).                                                     *)
(*                                                                         *)
(* The middleware reads the user's row once; the handler runs later and    *)
(* does not read it again.  A handler that takes the lock of every row it  *)
(* depends on is one step; setDefaultBeneficiary and submitRating do not,  *)
(* and are one step a statement.  Any transaction may fail before its      *)
(* commit, a decision also because its email cannot be sent.               *)
(***************************************************************************)
EXTENDS Naturals, FiniteSets

CONSTANTS
  Users,
  Submissions,    \* rows of kyc that may be inserted
  Beneficiaries,  \* rows of beneficiaries that may be inserted
  Trades,         \* trades that may be completed
  Owner,          \* user of each submission and beneficiary
  Currency,       \* currency of each beneficiary
  Parties,        \* buyer and seller of each trade
  Requests,       \* requests under way at once
  Nobody

ASSUME MembersAssumption ==
  /\ Owner \in [Submissions \cup Beneficiaries -> Users]
  /\ Parties \in [Trades -> SUBSET Users]
  /\ Nobody \notin Requests

VARIABLES
  role, status, blocked,  \* columns of users; blocked: suspended or deleted
  setUp,                  \* users made by completeAdminSetup (a history)
  kyc,                    \* status of each submission, "none" before its upload
  work, step,             \* what a request is admitted to do, and its next statement
  fresh, exists, default, \* beneficiaries to come, in the table, with is_default
  lock, found, cleared,   \* row locks, and what a set-default has read and unset
  alone,                  \* has no other set-default overlapped it? (a history)
  completed, ratings      \* completed trades, and rows of trade_ratings

account == <<role, status, blocked, setUp>>
request == <<work, step>>
payee == <<fresh, exists, default, lock, found, cleared, alone>>
trading == <<completed, ratings>>
vars == <<account, kyc, request, payee, trading>>

Roles == {"none", "user", "admin", "super_admin"}
Statuses == {"unverified", "pending", "verified", "rejected"}
Decisions == {"verified", "rejected"}

Upload == [op : {"upload"}, by : Users, on : Submissions]
Decide == [op : Decisions, by : Users, on : Submissions]
Payee == [op : {"create", "delete", "default"}, by : Users, on : Beneficiaries]
Rate == [op : {"rate"}, by : Users, on : Trades]
NoWork == [op |-> "none", by |-> Nobody, on |-> Nobody]

Init ==
  /\ role = [u \in Users |-> "none"] /\ status = [u \in Users |-> "unverified"]
  /\ blocked = {} /\ setUp = {}
  /\ kyc = [k \in Submissions |-> "none"]
  /\ work = [r \in Requests |-> NoWork] /\ step = [r \in Requests |-> "idle"]
  /\ fresh = Beneficiaries /\ exists = {} /\ default = {}
  /\ lock = [b \in Beneficiaries |-> Nobody]
  /\ found = [r \in Requests |-> {}] /\ cleared = [r \in Requests |-> {}]
  /\ alone = [r \in Requests |-> FALSE]
  /\ completed = {}
  /\ ratings = [t \in Trades |-> [u \in Users |-> 0]]

-----------------------------------------------------------------------------
(* Accounts, as modules/auth and modules/admin change them.                *)

\* A verified email makes a user, whose identity is not verified.
Registers(u) ==
  /\ role[u] = "none"
  /\ role' = [role EXCEPT ![u] = "user"]
  /\ UNCHANGED <<status, blocked, setUp, kyc, request, payee, trading>>

\* completeAdminSetup inserts an administrator as verified, without a submission.
CompleteAdminSetup(u) ==
  /\ role[u] = "none"
  /\ role' = [role EXCEPT ![u] = "admin"]
  /\ status' = [status EXCEPT ![u] = "verified"]
  /\ setUp' = setUp \cup {u}
  /\ UNCHANGED <<blocked, kyc, request, payee, trading>>

\* acceptAdminInvite, upgradeAdminToSuperAdmin and removeAdmin move the role
\* and leave the identity check as it is.
RoleChanges(u) ==
  /\ \/ role[u] # "none" /\ \E granted \in {"admin", "super_admin"} : role' = [role EXCEPT ![u] = granted]
     \/ role[u] = "admin" /\ role' = [role EXCEPT ![u] = "user"]
  /\ UNCHANGED <<status, blocked, setUp, kyc, request, payee, trading>>

\* suspendUser and reinstateUser; a deletion, which nothing undoes, is taken
\* for a suspension, so that more can happen here than in the code.
Blocks(u) ==
  /\ role[u] # "none"
  /\ blocked' = (blocked \ {u}) \cup ({u} \ blocked)
  /\ UNCHANGED <<role, status, setUp, kyc, request, payee, trading>>

-----------------------------------------------------------------------------
(* Requests.                                                               *)

Starts(r, w, first) ==
  /\ step[r] = "idle"
  /\ work' = [work EXCEPT ![r] = w]
  /\ step' = [step EXCEPT ![r] = first]

Ends(r) ==
  /\ work' = [work EXCEPT ![r] = NoWork]
  /\ step' = [step EXCEPT ![r] = "idle"]

StepsTo(r, next) == step' = [step EXCEPT ![r] = next] /\ UNCHANGED work

\* authMiddleware
Known(u) == role[u] # "none" /\ u \notin blocked
\* requireVerifiedUser
Verified(u) == Known(u) /\ status[u] = "verified"
\* adminMiddleware and requirePermission("kyc.approve")
MayDecide(u) == Known(u) /\ role[u] \in {"admin", "super_admin"}

\* The middleware lets a request through; the files of an upload are stored
\* before its transaction.
Admitted(r) ==
  /\ \/ \E w \in Upload : Known(w.by) /\ Owner[w.on] = w.by /\ Starts(r, w, "run")
     \/ \E w \in Decide : MayDecide(w.by) /\ Starts(r, w, "run")
     \/ \E w \in Payee :
          /\ Verified(w.by) /\ Owner[w.on] = w.by
          /\ Starts(r, w, IF w.op = "default" THEN "select" ELSE "run")
     \/ \E w \in Rate : Verified(w.by) /\ Starts(r, w, "trade")
  /\ UNCHANGED <<account, kyc, payee, trading>>

\* As Fails, but without the release of the connection.
FailsKeepingLocks(r) ==
  /\ step[r] \notin {"idle", "commit"}
  /\ Ends(r)
  /\ found' = [found EXCEPT ![r] = {}] /\ cleared' = [cleared EXCEPT ![r] = {}]
  /\ UNCHANGED <<account, kyc, fresh, exists, default, lock, alone, trading>>

\* A transaction that throws, or an id that is not found: it is rolled back
\* and its locks are released.
Fails(r) ==
  /\ step[r] \notin {"idle", "commit"}
  /\ Ends(r)
  /\ lock' = [b \in Beneficiaries |-> IF lock[b] = r THEN Nobody ELSE lock[b]]
  /\ found' = [found EXCEPT ![r] = {}] /\ cleared' = [cleared EXCEPT ![r] = {}]
  /\ UNCHANGED <<account, kyc, fresh, exists, default, alone, trading>>

-----------------------------------------------------------------------------
(* The identity check.                                                     *)

\* uploadKyc: whatever the status was, it is pending again.
UploadKyc(r) ==
  /\ step[r] = "run" /\ work[r] \in Upload
  /\ kyc[work[r].on] = "none"
  /\ kyc' = [kyc EXCEPT ![work[r].on] = "pending"]
  /\ status' = [status EXCEPT ![work[r].by] = "pending"]
  /\ Ends(r)
  /\ UNCHANGED <<role, blocked, setUp, payee, trading>>

\* As Decides, but a rejection changes the submission only.
RejectsSubmissionOnly(r, outcome) ==
  /\ step[r] = "run" /\ work[r] \in Decide /\ work[r].op = outcome
  /\ kyc[work[r].on] # "none"
  /\ kyc' = [kyc EXCEPT ![work[r].on] = outcome]
  /\ status' = IF outcome = "rejected" THEN status ELSE [status EXCEPT ![Owner[work[r].on]] = outcome]
  /\ Ends(r)
  /\ UNCHANGED <<role, blocked, setUp, payee, trading>>

\* The status of the submission is not looked at, so one may be decided
\* again, and an old one after a new one came.
Decides(r, outcome) ==
  /\ step[r] = "run" /\ work[r] \in Decide /\ work[r].op = outcome
  /\ kyc[work[r].on] # "none"
  /\ kyc' = [kyc EXCEPT ![work[r].on] = outcome]
  /\ status' = [status EXCEPT ![Owner[work[r].on]] = outcome]
  /\ Ends(r)
  /\ UNCHANGED <<role, blocked, setUp, payee, trading>>

ApproveKyc(r) == Decides(r, "verified")
RejectKyc(r) == Decides(r, "rejected")

-----------------------------------------------------------------------------
(* Beneficiaries.                                                          *)

Peers(b) == {x \in Beneficiaries : Owner[x] = Owner[b] /\ Currency[x] = Currency[b]}
Free(r, b) == lock[b] \in {Nobody, r}
SetsDefault(r, b) == step[r] # "idle" /\ work[r].op = "default" /\ work[r].on \in Peers(b)

CreateBeneficiary(r) ==
  /\ step[r] = "run" /\ work[r].op = "create" /\ work[r].on \in fresh
  /\ fresh' = fresh \ {work[r].on} /\ exists' = exists \cup {work[r].on}
  /\ Ends(r)
  /\ UNCHANGED <<account, kyc, default, lock, found, cleared, alone, trading>>

\* One DELETE by id and user, which waits for whoever holds the row.
DeleteBeneficiary(r) ==
  /\ step[r] = "run" /\ work[r].op = "delete"
  /\ work[r].on \in exists /\ Free(r, work[r].on)
  /\ exists' = exists \ {work[r].on} /\ default' = default \ {work[r].on}
  /\ Ends(r)
  /\ UNCHANGED <<account, kyc, fresh, lock, found, cleared, alone, trading>>

\* setDefaultBeneficiary, first statement: the row is read, not locked.
SelectsTarget(r) ==
  /\ step[r] = "select" /\ work[r].on \in exists
  /\ StepsTo(r, "find")
  /\ LET others == {q \in Requests \ {r} : SetsDefault(q, work[r].on) /\ step[q] # "select"}
     IN alone' = [q \in Requests |-> IF q = r THEN others = {} ELSE alone[q] /\ q \notin others]
  /\ UNCHANGED <<account, kyc, fresh, exists, default, lock, found, cleared, trading>>

\* As FindsDefaults, but with LIMIT 1.
FindsOneDefault(r) ==
  /\ step[r] = "find"
  /\ LET here == Peers(work[r].on) \cap default
     IN found' = [found EXCEPT ![r] = IF here = {} THEN {} ELSE {CHOOSE b \in here : TRUE}]
  /\ StepsTo(r, "unset")
  /\ UNCHANGED <<account, kyc, fresh, exists, default, lock, cleared, alone, trading>>

\* Second statement: the UPDATE finds the defaults that are committed when it
\* starts, ...
FindsDefaults(r) ==
  /\ step[r] = "find"
  /\ found' = [found EXCEPT ![r] = Peers(work[r].on) \cap default]
  /\ StepsTo(r, "unset")
  /\ UNCHANGED <<account, kyc, fresh, exists, default, lock, cleared, alone, trading>>

\* ... waits until nobody holds one of them, and unsets those that are still
\* default.  One that became default meanwhile is not seen.
UnsetsDefaults(r) ==
  /\ step[r] = "unset"
  /\ \A b \in found[r] : Free(r, b)
  /\ LET hit == found[r] \cap default
     IN /\ cleared' = [cleared EXCEPT ![r] = hit]
        /\ lock' = [b \in Beneficiaries |-> IF b \in hit THEN r ELSE lock[b]]
  /\ StepsTo(r, "set")
  /\ UNCHANGED <<account, kyc, fresh, exists, default, found, alone, trading>>

\* Third statement; a row deleted since the first is updated in vain.
SetsTarget(r) ==
  /\ step[r] = "set" /\ Free(r, work[r].on)
  /\ lock' = [lock EXCEPT ![work[r].on] = IF work[r].on \in exists THEN r ELSE @]
  /\ StepsTo(r, "commit")
  /\ UNCHANGED <<account, kyc, fresh, exists, default, found, cleared, alone, trading>>

CommitsDefault(r) ==
  /\ step[r] = "commit"
  /\ default' = (default \ cleared[r]) \cup ({work[r].on} \cap exists)
  /\ Ends(r)
  /\ lock' = [b \in Beneficiaries |-> IF lock[b] = r THEN Nobody ELSE lock[b]]
  /\ found' = [found EXCEPT ![r] = {}] /\ cleared' = [cleared EXCEPT ![r] = {}]
  /\ UNCHANGED <<account, kyc, fresh, exists, alone, trading>>

-----------------------------------------------------------------------------
(* Ratings.                                                                *)

\* A trade is settled (trades.controller.ts); completed is final.
TradeCompletes(t) ==
  /\ t \notin completed
  /\ completed' = completed \cup {t}
  /\ UNCHANGED <<account, kyc, request, payee, ratings>>

\* submitRating, first statement: the trade is read, not locked.
ReadsTrade(r) ==
  /\ step[r] = "trade"
  /\ work[r].on \in completed /\ work[r].by \in Parties[work[r].on]
  /\ StepsTo(r, "existing")
  /\ UNCHANGED <<account, kyc, payee, trading>>

\* Second statement: is there a rating of this user for the trade?
ReadsExisting(r) ==
  /\ step[r] = "existing"
  /\ ratings[work[r].on][work[r].by] = 0
  /\ StepsTo(r, "insert")
  /\ UNCHANGED <<account, kyc, payee, trading>>

\* As InsertsRating, but without UQ_trade_rater.
InsertsAnyRating(r) ==
  /\ step[r] = "insert"
  /\ ratings' = [ratings EXCEPT ![work[r].on][work[r].by] = @ + 1]
  /\ Ends(r)
  /\ UNCHANGED <<account, kyc, payee, completed>>

\* Third statement, which UQ_trade_rater refuses if another request was first.
InsertsRating(r) ==
  /\ step[r] = "insert"
  /\ ratings[work[r].on][work[r].by] = 0
  /\ ratings' = [ratings EXCEPT ![work[r].on][work[r].by] = @ + 1]
  /\ Ends(r)
  /\ UNCHANGED <<account, kyc, payee, completed>>

-----------------------------------------------------------------------------

AccountNext == \E u \in Users : Registers(u) \/ CompleteAdminSetup(u) \/ RoleChanges(u) \/ Blocks(u)
KycNext == \E r \in Requests : UploadKyc(r) \/ ApproveKyc(r) \/ RejectKyc(r)
PayeeNext == \E r \in Requests :
  \/ CreateBeneficiary(r) \/ DeleteBeneficiary(r) \/ SelectsTarget(r) \/ FindsDefaults(r)
  \/ UnsetsDefaults(r) \/ SetsTarget(r) \/ CommitsDefault(r)
RatingNext ==
  \/ \E t \in Trades : TradeCompletes(t)
  \/ \E r \in Requests : ReadsTrade(r) \/ ReadsExisting(r) \/ InsertsRating(r)

Next ==
  \/ AccountNext \/ KycNext \/ PayeeNext \/ RatingNext
  \/ \E r \in Requests : Admitted(r) \/ Fails(r)

Spec == Init /\ [][Next]_vars

-----------------------------------------------------------------------------
(* Properties.                                                             *)

\* Every variable keeps its type, and a row is locked by a request at work.
TypeOK ==
  /\ role \in [Users -> Roles] /\ status \in [Users -> Statuses]
  /\ blocked \subseteq Users /\ setUp \subseteq Users
  /\ kyc \in [Submissions -> Statuses \cup {"none"}]
  /\ work \in [Requests -> Upload \cup Decide \cup Payee \cup Rate \cup {NoWork}]
  /\ step \in [Requests -> {"idle", "run", "select", "find", "unset", "set", "commit",
                            "trade", "existing", "insert"}]
  /\ fresh \subseteq Beneficiaries /\ exists \subseteq Beneficiaries \ fresh
  /\ default \subseteq exists
  /\ lock \in [Beneficiaries -> Requests \cup {Nobody}]
  /\ \A b \in Beneficiaries : lock[b] # Nobody => step[lock[b]] \in {"set", "commit"}
  /\ found \in [Requests -> SUBSET Beneficiaries] /\ cleared \in [Requests -> SUBSET Beneficiaries]
  /\ alone \in [Requests -> BOOLEAN]
  /\ completed \subseteq Trades
  /\ ratings \in [Trades -> [Users -> Nat]]

\* A user whose identity counts as verified has a submission that is verified,
\* whatever is uploaded and decided again and in which order (admin.controller
\* .ts, approveKyc and rejectKyc); users made by completeAdminSetup are the
\* exception, and stay it when they lose the role.
VerifiedHaveRecords ==
  \A u \in Users \ setUp :
    status[u] = "verified" => \E k \in Submissions : Owner[k] = u /\ kyc[k] = "verified"

\* A set-default that no other one of the user and currency overlapped leaves
\* its beneficiary as the only default, also if overlapping ones had left two
\* (beneficiaries.controller.ts, setDefaultBeneficiary).
LoneDefaultIsUnique ==
  [][\A r \in Requests :
       LET b == work[r].on
       IN (step[r] = "commit" /\ step'[r] = "idle" /\ alone[r] /\ b \in exists)
            => default' \cap Peers(b) = {b}]_vars

\* A party of a completed trade rates it at most once, and nobody else rates
\* it, though the trade and the ratings are read without locks
\* (ratings.controller.ts, submitRating).
OneRatingPerParty ==
  \A t \in Trades, u \in Users :
    ratings[t][u] <= (IF t \in completed /\ u \in Parties[t] THEN 1 ELSE 0)
=============================================================================

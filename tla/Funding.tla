------------------------------ MODULE Funding ------------------------------
(***************************************************************************)
(* Money that enters and leaves the platform: deposits in NGN through      *)
(* Flutterwave, deposits in other currencies that an admin approves,       *)
(* withdrawals, and the ledger that is to explain every balance.           *)
(*                                                                         *)
(* One action is one handler, as in module Escrow, with one exception.     *)
(* Every other handler reads its deposit or withdrawal FOR UPDATE;         *)
(* flutterwaveWebhook reads the deposit unlocked and acts on what it saw.  *)
(* It is two steps, WebhookReads and WebhookCredits, and any handler may   *)
(* come between them.                                                      *)
(*                                                                         *)
(* Flutterwave is external: it holds payment links by our reference, takes *)
(* payments, and delivers a webhook for a payment late, never, or more     *)
(* than once.                                                              *)
(***************************************************************************)
EXTENDS Wallets, Sums, Sequences

CONSTANTS
  Amounts,            \* amounts a request or a payment may name
  Deliveries,         \* webhook requests that may be handled at one time
  Opening,            \* available balance of every account at the start
  MaxDeposits,        \* bound on the deposits, for TLC
  MaxWithdrawals,     \* bound on the withdrawals, for TLC
  InitialStatus,      \* what the database gives withdrawals.status by default
  WithdrawalColumns   \* the columns that table withdrawals has

ASSUME FundingAssumption ==
  /\ IsFiniteSet(Users)
  /\ Amounts \subseteq Nat
  /\ Opening \in [Accounts -> Nat]
  /\ MaxDeposits \in Nat /\ MaxWithdrawals \in Nat
  /\ InitialStatus \in {"pending", "requested"}

VARIABLES
  wallets,      \* table wallets
  pinSet,       \* users with transaction_pin_set
  deposits,     \* table deposits: the i-th has the i-th DEP reference
  withdrawals,  \* table withdrawals: the i-th has the i-th WDR reference
  ledger,       \* table ledger, by its UNIQUE reference
  links,        \* DEP references Flutterwave has a payment link for
  payments,     \* payments Flutterwave has taken
  handling      \* for each delivery, the deposit its transaction has read

bank == <<links, payments>>
vars == <<wallets, pinSet, deposits, withdrawals, ledger, bank, handling>>

-----------------------------------------------------------------------------
(***************************************************************************)
(* Rows.                                                                   *)
(***************************************************************************)
DepositStatus ==
  {"initiated", "pending_review", "completed", "failed", "expired", "rejected"}

\* stale: created more than 24 hours ago.
DepositRow ==
  [user : Users, currency : Currencies, amount : Nat,
   status : DepositStatus, stale : BOOLEAN]

WithdrawalRow ==
  [user : Users, currency : Currencies, amount : Nat,
   status : {"pending", "requested", "approved", "processing", "completed", "failed"}]

\* The reference of a ledger row is that of its deposit or withdrawal, or
\* REJ- and that of the withdrawal it reverses.
DepositRef(d) == <<"DEP", d>>
WithdrawalRef(w) == <<"WDR", w>>
ReversalRef(w) == <<"REJ", w>>
References == {"DEP", "WDR", "REJ"} \X Nat

\* initiated_by is the owner of the account or an admin.
LedgerRow ==
  [account : Accounts, credit : Nat, debit : Nat, by : {"owner", "admin"}]

CreditRow(x, by) ==
  [account |-> <<x.user, x.currency>>, credit |-> x.amount, debit |-> 0, by |-> by]
DebitRow(x) ==
  [account |-> <<x.user, x.currency>>, credit |-> 0, debit |-> x.amount, by |-> "owner"]

\* The ledger with a new row; a transaction that writes a reference anew
\* fails, see CanCreditDeposit.
WithRow(ref, row) ==
  [r \in DOMAIN ledger \cup {ref} |-> IF r = ref THEN row ELSE ledger[r]]

Payment == [ref : Nat, amount : Nat]

Idle == 0

-----------------------------------------------------------------------------
Init ==
  /\ wallets = [acc \in Accounts |-> [balance |-> Opening[acc], locked |-> 0]]
  /\ pinSet = {}
  /\ deposits = << >> /\ withdrawals = << >> /\ ledger = << >>
  /\ links = {} /\ payments = {}
  /\ handling = [h \in Deliveries |-> Idle]

SetTransactionPin(u) ==
  /\ u \notin pinSet
  /\ pinSet' = pinSet \cup {u}
  /\ UNCHANGED <<wallets, deposits, withdrawals, ledger, bank, handling>>

\* nextReference(DEP).  The sequence is part of the transaction: a reference
\* is used up only when the deposit commits.
NextDeposit == Len(deposits) + 1

NewDeposit(u, c, a, status) ==
  /\ Len(deposits) < MaxDeposits
  /\ deposits' = Append(deposits,
       [user |-> u, currency |-> c, amount |-> a, status |-> status, stale |-> FALSE])

-----------------------------------------------------------------------------
(***************************************************************************)
(* Deposits: the user's side.                                              *)
(***************************************************************************)
\* POST /deposits/ngn/initiate: the deposit is inserted and Flutterwave asked
\* for a link, inside one transaction.
InitiateNgnDeposit(u, a) ==
  /\ NewDeposit(u, NGN, a, "initiated")
  /\ links' = links \cup {NextDeposit}
  /\ UNCHANGED <<wallets, pinSet, withdrawals, ledger, payments, handling>>

\* The same, when something after the call to Flutterwave fails: the deposit
\* and its reference are rolled back, the link stays.
InitiateNgnDepositRollsBack ==
  /\ Len(deposits) < MaxDeposits
  /\ links' = links \cup {NextDeposit}
  /\ UNCHANGED <<wallets, pinSet, deposits, withdrawals, ledger, payments, handling>>

\* POST /deposits/foreign.
SubmitForeignDeposit(u, c, a) ==
  /\ NewDeposit(u, c, a, "pending_review")
  /\ UNCHANGED <<wallets, pinSet, withdrawals, ledger, bank, handling>>

SetDeposit(d, status) == deposits' = [deposits EXCEPT ![d].status = status]

\* POST /deposits/:id/cancel by u.
CancelDeposit(u, d) ==
  /\ deposits[d].user = u
  /\ deposits[d].status = "initiated"
  /\ SetDeposit(d, "failed")
  /\ UNCHANGED <<wallets, pinSet, withdrawals, ledger, bank, handling>>

\* The clock passes 24 hours after the creation of a deposit.
PassDepositWindow(d) ==
  /\ deposits[d].status = "initiated" /\ ~deposits[d].stale
  /\ deposits' = [deposits EXCEPT ![d].stale = TRUE]
  /\ UNCHANGED <<wallets, pinSet, withdrawals, ledger, bank, handling>>

\* As StaleDeposits, but the job looks for deposits under review.
StaleDepositsUnderReview ==
  {d \in DOMAIN deposits : deposits[d].status = "pending_review" /\ deposits[d].stale}

StaleDeposits ==
  {d \in DOMAIN deposits : deposits[d].status = "initiated" /\ deposits[d].stale}

\* jobs/depositExpiryJob.ts; SKIP LOCKED makes S any part of the stale ones.
DepositExpiryJob(S) ==
  /\ S # {} /\ S \subseteq StaleDeposits
  /\ deposits' = [d \in DOMAIN deposits |->
       IF d \in S THEN [deposits[d] EXCEPT !.status = "expired"] ELSE deposits[d]]
  /\ UNCHANGED <<wallets, pinSet, withdrawals, ledger, bank, handling>>

-----------------------------------------------------------------------------
(***************************************************************************)
(* Deposits: the crediting.                                                *)
(***************************************************************************)
\* As CanCreditDeposit, without the UNIQUE index on ledger.reference.
CanCreditDepositAgain(d) ==
  CanCredit(wallets, deposits[d].user, deposits[d].currency, deposits[d].amount)

\* The credit and its ledger row go through: the amount is positive and the
\* reference is not in the ledger yet.
CanCreditDeposit(d) ==
  /\ CanCredit(wallets, deposits[d].user, deposits[d].currency, deposits[d].amount)
  /\ DepositRef(d) \notin DOMAIN ledger

CreditDeposit(d, by) ==
  LET x == deposits[d]
  IN /\ CanCreditDeposit(d)
     /\ wallets' = Credit(wallets, x.user, x.currency, x.amount)
     /\ ledger' = WithRow(DepositRef(d), CreditRow(x, by))
     /\ SetDeposit(d, "completed")

\* A customer pays through a link, the amount asked for or another.  The
\* event charge.completed is taken to mean a payment that went through, as
\* flutterwaveWebhook takes it: it does not look at data.status.
Pay(p) ==
  /\ p.ref \in links
  /\ payments' = payments \cup {p}
  /\ UNCHANGED <<wallets, pinSet, deposits, withdrawals, ledger, links, handling>>

\* As PaymentMatches, without the check of the amount.
PaymentMatchesAnyAmount(p, d) ==
  p.ref = d /\ deposits[d].currency = NGN

\* The checks of the webhook: payments are in NGN.
PaymentMatches(p, d) ==
  p.ref = d /\ deposits[d].currency = NGN /\ deposits[d].amount = p.amount

\* POST /webhooks/flutterwave, first half: delivery h of payment p finds its
\* deposit not completed and the checks pass.  When the deposit is missing
\* or completed, or a check throws, the answer is the same 200 and nothing
\* changes.
WebhookReads(h, p) ==
  /\ handling[h] = Idle
  /\ p \in payments
  /\ p.ref \in DOMAIN deposits
  /\ deposits[p.ref].status # "completed"
  /\ PaymentMatches(p, p.ref)
  /\ handling' = [handling EXCEPT ![h] = p.ref]
  /\ UNCHANGED <<wallets, pinSet, deposits, withdrawals, ledger, bank>>

\* Second half: the credit, and the status, whatever it is by now.
WebhookCredits(h) ==
  /\ handling[h] # Idle
  /\ CreditDeposit(handling[h], "owner")
  /\ handling' = [handling EXCEPT ![h] = Idle]
  /\ UNCHANGED <<pinSet, withdrawals, bank>>

\* An exception in the second half (the reference is in the ledger already, a
\* mail cannot be sent): rolled back, logged and answered with 200.
WebhookFails(h) ==
  /\ handling[h] # Idle
  /\ handling' = [handling EXCEPT ![h] = Idle]
  /\ UNCHANGED <<wallets, pinSet, deposits, withdrawals, ledger, bank>>

\* POST /admin/deposits/:id/approve.
ApproveDeposit(d) ==
  /\ deposits[d].status \in {"pending_review", "initiated"}
  /\ CreditDeposit(d, "admin")
  /\ UNCHANGED <<pinSet, withdrawals, bank, handling>>

\* POST /admin/deposits/:id/verify-flutterwave: Flutterwave knows a payment
\* for the reference, of the amount at least.
VerifyFlutterwaveDeposit(d) ==
  /\ deposits[d].status = "initiated"
  /\ deposits[d].currency = NGN
  /\ \E p \in payments : p.ref = d /\ p.amount >= deposits[d].amount
  /\ CreditDeposit(d, "admin")
  /\ UNCHANGED <<pinSet, withdrawals, bank, handling>>

\* As RejectDeposit, for completed deposits too.
RejectAnyDeposit(d) ==
  /\ SetDeposit(d, "rejected")
  /\ UNCHANGED <<wallets, pinSet, withdrawals, ledger, bank, handling>>

\* POST /admin/deposits/:id/reject.
RejectDeposit(d) ==
  /\ deposits[d].status # "completed"
  /\ SetDeposit(d, "rejected")
  /\ UNCHANGED <<wallets, pinSet, withdrawals, ledger, bank, handling>>

-----------------------------------------------------------------------------
(***************************************************************************)
(* Withdrawals.                                                            *)
(***************************************************************************)
\* POST /withdrawals/request by u, to a beneficiary with an account in c.
\* The INSERT names no status.
RequestWithdrawal(u, c, a) ==
  LET x == [user |-> u, currency |-> c, amount |-> a, status |-> InitialStatus]
  IN /\ Len(withdrawals) < MaxWithdrawals
     /\ u \in pinSet
     /\ CanDebit(wallets, u, c, a)
     /\ wallets' = Debit(wallets, u, c, a)
     /\ ledger' = WithRow(WithdrawalRef(Len(withdrawals) + 1), DebitRow(x))
     /\ withdrawals' = Append(withdrawals, x)
     /\ UNCHANGED <<pinSet, deposits, bank, handling>>

\* An UPDATE that names a column the table does not have throws.
HasColumns(columns) == columns \subseteq WithdrawalColumns

CanApprove(w) ==
  /\ withdrawals[w].status \in {"requested", "processing"}
  /\ HasColumns({"status", "reviewed_by", "reviewed_at"})

\* As CanReject, for completed withdrawals too.
CanRejectCompleted(w) ==
  /\ withdrawals[w].status # "failed"
  /\ HasColumns({"status", "rejection_reason", "reviewed_by", "reviewed_at"})

CanReject(w) ==
  /\ withdrawals[w].status \notin {"completed", "failed"}
  /\ HasColumns({"status", "rejection_reason", "reviewed_by", "reviewed_at"})

\* POST /admin/withdrawals/:id/approve.
ApproveWithdrawal(w) ==
  /\ CanApprove(w)
  /\ withdrawals' = [withdrawals EXCEPT ![w].status = "completed"]
  /\ UNCHANGED <<wallets, pinSet, deposits, ledger, bank, handling>>

\* As RejectWithdrawal, but the withdrawal goes on waiting.
RejectWithdrawalKeepsStatus(w) ==
  LET x == withdrawals[w]
  IN /\ CanReject(w)
     /\ CanCredit(wallets, x.user, x.currency, x.amount)
     /\ ReversalRef(w) \notin DOMAIN ledger
     /\ wallets' = Credit(wallets, x.user, x.currency, x.amount)
     /\ ledger' = WithRow(ReversalRef(w), CreditRow(x, "admin"))
     /\ UNCHANGED <<pinSet, deposits, withdrawals, bank, handling>>

\* POST /admin/withdrawals/:id/reject: the amount comes back.
RejectWithdrawal(w) ==
  LET x == withdrawals[w]
  IN /\ CanReject(w)
     /\ CanCredit(wallets, x.user, x.currency, x.amount)
     /\ ReversalRef(w) \notin DOMAIN ledger
     /\ wallets' = Credit(wallets, x.user, x.currency, x.amount)
     /\ ledger' = WithRow(ReversalRef(w), CreditRow(x, "admin"))
     /\ withdrawals' = [withdrawals EXCEPT ![w].status = "failed"]
     /\ UNCHANGED <<pinSet, deposits, bank, handling>>

-----------------------------------------------------------------------------
UserStep ==
  \E u \in Users :
    \/ SetTransactionPin(u)
    \/ \E a \in Amounts :
         \/ InitiateNgnDeposit(u, a)
         \/ \E c \in Foreign : SubmitForeignDeposit(u, c, a)
         \/ \E c \in Currencies : RequestWithdrawal(u, c, a)
    \/ \E d \in DOMAIN deposits : CancelDeposit(u, d)

BankStep ==
  \/ InitiateNgnDepositRollsBack
  \/ \E p \in [ref : links, amount : Amounts] : Pay(p)
  \/ \E h \in Deliveries :
       \/ \E p \in payments : WebhookReads(h, p)
       \/ WebhookCredits(h)
       \/ WebhookFails(h)

AdminStep ==
  \/ \E d \in DOMAIN deposits :
       ApproveDeposit(d) \/ VerifyFlutterwaveDeposit(d) \/ RejectDeposit(d)
  \/ \E w \in DOMAIN withdrawals : ApproveWithdrawal(w) \/ RejectWithdrawal(w)

ClockStep == \E d \in DOMAIN deposits : PassDepositWindow(d)

Jobs == \E S \in SUBSET DOMAIN deposits : DepositExpiryJob(S)

Next == UserStep \/ BankStep \/ AdminStep \/ ClockStep \/ Jobs

Spec == Init /\ [][Next]_vars

\* server.ts starts the job with setInterval; a run that finds no row locked
\* takes every stale deposit.
FairSpec == Spec /\ WF_vars(DepositExpiryJob(StaleDeposits))

-----------------------------------------------------------------------------
(***************************************************************************)
(* Properties.                                                             *)
(***************************************************************************)
\* Every row has its type; no balance is negative.
TypeOK ==
  /\ wallets \in WalletTable
  /\ pinSet \subseteq Users
  /\ deposits \in Seq(DepositRow)
  /\ withdrawals \in Seq(WithdrawalRow)
  /\ DOMAIN ledger \subseteq References
  /\ \A r \in DOMAIN ledger : ledger[r] \in LedgerRow
  /\ links \subseteq Nat /\ payments \subseteq Payment
  /\ handling \in [Deliveries -> Nat]

\* The ledger explains every balance: what an account holds is what it opened
\* with, plus the credits and minus the debits the ledger has for it.
Entries(acc) == {r \in DOMAIN ledger : ledger[r].account = acc}
Credits(acc) == Total([r \in DOMAIN ledger |-> ledger[r].credit], Entries(acc))
Debits(acc) == Total([r \in DOMAIN ledger |-> ledger[r].debit], Entries(acc))
LedgerExplainsBalances ==
  \A acc \in Accounts :
    wallets[acc].balance + Debits(acc) = Opening[acc] + Credits(acc)

\* A deposit is completed exactly when its amount has been credited, to its
\* owner, although webhooks act on a status they read before the handlers of
\* other requests changed it.
CompletedIffCredited ==
  \A d \in DOMAIN deposits :
    /\ deposits[d].status = "completed" <=> DepositRef(d) \in DOMAIN ledger
    /\ DepositRef(d) \in DOMAIN ledger =>
         /\ ledger[DepositRef(d)].account = <<deposits[d].user, deposits[d].currency>>
         /\ ledger[DepositRef(d)].credit = deposits[d].amount

\* What no admin approved was paid for: a deposit that a webhook credited is
\* an NGN deposit, and Flutterwave took a payment of its amount for its
\* reference.
CreditsArePaidFor ==
  \A d \in DOMAIN deposits :
    (DepositRef(d) \in DOMAIN ledger /\ ledger[DepositRef(d)].by = "owner") =>
      /\ deposits[d].currency = NGN
      /\ [ref |-> d, amount |-> deposits[d].amount] \in payments

\* A withdrawal was debited, and was given back exactly when it failed: no
\* withdrawal is both paid out and refunded.
RefundedIffFailed ==
  \A w \in DOMAIN withdrawals :
    /\ WithdrawalRef(w) \in DOMAIN ledger
    /\ withdrawals[w].status = "failed" <=> ReversalRef(w) \in DOMAIN ledger

\* Whatever comes after, a credited deposit and a decided withdrawal stay as
\* they are: no cancellation, rejection, expiry or late webhook undoes them,
\* and no ledger row changes or goes.
KeepsSettled ==
  /\ \A d \in DOMAIN deposits :
       deposits[d].status = "completed" => deposits'[d] = deposits[d]
  /\ \A w \in DOMAIN withdrawals :
       withdrawals[w].status \in {"completed", "failed"} =>
         withdrawals'[w] = withdrawals[w]
  /\ \A r \in DOMAIN ledger : r \in DOMAIN ledger' /\ ledger'[r] = ledger[r]
SettledStays == [][KeepsSettled]_vars

\* An NGN deposit that nobody pays is not left waiting.
StaleDepositEnds ==
  \A d \in 1 .. MaxDeposits :
    (d \in DOMAIN deposits /\ deposits[d].status = "initiated" /\ deposits[d].stale)
      ~> (d \in DOMAIN deposits /\ deposits[d].status # "initiated")

\* An admin can approve a withdrawal that waits, or reject it and so give the
\* money back.
WithdrawalsDecidable ==
  \A w \in DOMAIN withdrawals :
    withdrawals[w].status \notin {"completed", "failed"} =>
      CanApprove(w) /\ CanReject(w)
=============================================================================

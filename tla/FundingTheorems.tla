-------------------------- MODULE FundingTheorems --------------------------
(***************************************************************************)
(* Theorems about module Funding, for every number of users, deposits,     *)
(* withdrawals and webhook deliveries, and every amount.                   *)
(***************************************************************************)
EXTENDS Funding, TableTheorems

(***************************************************************************)
(* The inductive invariant.  Beside the properties themselves it needs     *)
(* that the ledger is finite, or there would be no sums, that it has rows  *)
(* only for deposits and withdrawals that exist, or a new one might find   *)
(* its reference taken, and that a webhook under way handles a deposit     *)
(* that was paid for.                                                      *)
(***************************************************************************)
LedgerOfRows ==
  /\ IsFiniteSet(DOMAIN ledger)
  /\ \A r \in DOMAIN ledger :
       IF r[1] = "DEP" THEN r[2] \in DOMAIN deposits
                       ELSE r[2] \in DOMAIN withdrawals

PaidFor(d) ==
  deposits[d].currency = NGN /\ [ref |-> d, amount |-> deposits[d].amount] \in payments

HandledPaid ==
  \A h \in Deliveries :
    handling[h] # Idle => handling[h] \in DOMAIN deposits /\ PaidFor(handling[h])

Books == LedgerOfRows /\ LedgerExplainsBalances

Decisions == CompletedIffCredited /\ RefundedIffFailed /\ CreditsArePaidFor

IInv == TypeOK /\ Books /\ Decisions /\ HandledPaid

-----------------------------------------------------------------------------
(***************************************************************************)
(* The ledger.                                                             *)
(***************************************************************************)
\* What a new row of the ledger does to the sums of an account.
LEMMA RowAdded ==
  ASSUME IsFiniteSet(DOMAIN ledger), \A r \in DOMAIN ledger : ledger[r] \in LedgerRow,
         NEW ref, ref \notin DOMAIN ledger, NEW row \in LedgerRow,
         ledger' = WithRow(ref, row),
         NEW acc
  PROVE  /\ Credits(acc)' = Credits(acc) + (IF row.account = acc THEN row.credit ELSE 0)
         /\ Debits(acc)' = Debits(acc) + (IF row.account = acc THEN row.debit ELSE 0)
         /\ Credits(acc) \in Nat /\ Debits(acc) \in Nat
  <1> DEFINE E == Entries(acc)
             fc == [r \in DOMAIN ledger |-> ledger[r].credit]
             fd == [r \in DOMAIN ledger |-> ledger[r].debit]
             gc == [r \in DOMAIN ledger' |-> ledger'[r].credit]
             gd == [r \in DOMAIN ledger' |-> ledger'[r].debit]
  <1>1. /\ DOMAIN ledger' = DOMAIN ledger \cup {ref}
        /\ \A r \in DOMAIN ledger : ledger'[r] = ledger[r]
        /\ ledger'[ref] = row
    BY DEF WithRow
  <1>2. row.credit \in Nat /\ row.debit \in Nat
    BY DEF LedgerRow
  <1>3. E \subseteq DOMAIN ledger /\ IsFiniteSet(E) /\ ref \notin E
    BY FS_Subset DEF Entries
  <1>4. \A r \in E : ledger[r].credit \in Nat /\ ledger[r].debit \in Nat
    BY <1>3 DEF LedgerRow
  <1>5. NatOn(fc, E) /\ \A r \in E : gc[r] = fc[r]
    BY <1>1, <1>3, <1>4 DEF NatOn
  <1>6. NatOn(fd, E) /\ \A r \in E : gd[r] = fd[r]
    BY <1>1, <1>3, <1>4 DEF NatOn
  <1>7. gc[ref] = row.credit /\ gd[ref] = row.debit
    BY <1>1
  <1>8. Credits(acc) = Total(fc, E) /\ Debits(acc) = Total(fd, E)
    BY DEF Credits, Debits
  <1>9. Credits(acc)' = Total(gc, E') /\ Debits(acc)' = Total(gd, E')
    BY DEF Credits, Debits
  <1>10. Total(fc, E) \in Nat /\ Total(fd, E) \in Nat
    BY <1>3, <1>5, <1>6, TotalIsNat
  <1>11. CASE row.account = acc
    <2>1. E' = E \cup {ref}
      BY <1>1, <1>11 DEF Entries
    <2>2. gc[ref] \in Nat /\ gd[ref] \in Nat
      BY <1>2, <1>7
    <2> HIDE DEF E, fc, fd, gc, gd
    <2>3. Total(gc, E \cup {ref}) = Total(fc, E) + gc[ref]
      BY <1>3, <1>5, <2>2, TotalOfOneMore
    <2>4. Total(gd, E \cup {ref}) = Total(fd, E) + gd[ref]
      BY <1>3, <1>6, <2>2, TotalOfOneMore
    <2> QED
      BY <1>7, <1>8, <1>9, <1>10, <1>11, <2>1, <2>3, <2>4
  <1>12. CASE row.account # acc
    <2>1. E' = E
      BY <1>1, <1>12 DEF Entries
    <2> HIDE DEF E, fc, fd, gc, gd
    <2>2. Total(gc, E) = Total(fc, E) /\ Total(gd, E) = Total(fd, E)
      BY <1>5, <1>6, TotalDependsOnRows
    <2> QED
      BY <1>8, <1>9, <1>10, <1>12, <2>1, <2>2
  <1> QED
    BY <1>11, <1>12

\* A balance and a ledger row that change together, by the same amount: the
\* ledger goes on explaining every balance.
LEMMA RowExplains ==
  ASSUME TypeOK, IsFiniteSet(DOMAIN ledger), LedgerExplainsBalances,
         NEW ref, ref \notin DOMAIN ledger, NEW row \in LedgerRow,
         ledger' = WithRow(ref, row),
         wallets' \in WalletTable,
         wallets'[row.account].balance + row.debit
           = wallets[row.account].balance + row.credit,
         \A acc \in Accounts \ {row.account} :
           wallets'[acc].balance = wallets[acc].balance
  PROVE  LedgerExplainsBalances'
  <1> SUFFICES ASSUME NEW acc \in Accounts
               PROVE  wallets'[acc].balance + Debits(acc)' = Opening[acc] + Credits(acc)'
    BY DEF LedgerExplainsBalances
  <1>1. /\ Credits(acc)' = Credits(acc) + (IF row.account = acc THEN row.credit ELSE 0)
        /\ Debits(acc)' = Debits(acc) + (IF row.account = acc THEN row.debit ELSE 0)
        /\ Credits(acc) \in Nat /\ Debits(acc) \in Nat
    BY RowAdded DEF TypeOK
  <1>2. wallets[acc].balance + Debits(acc) = Opening[acc] + Credits(acc)
    BY DEF LedgerExplainsBalances
  <1>3. /\ wallets[acc].balance \in Nat /\ wallets'[acc].balance \in Nat
        /\ Opening[acc] \in Nat
    BY FundingAssumption DEF TypeOK, WalletTable, WalletRow
  <1>4. row.credit \in Nat /\ row.debit \in Nat
    BY DEF LedgerRow
  <1> QED
    BY <1>1, <1>2, <1>3, <1>4

-----------------------------------------------------------------------------
(***************************************************************************)
(* Steps that leave wallets and ledger alone.                              *)
(***************************************************************************)
\* The parts of the invariant that speak of a deposit survive when the terms
\* of the deposits stay and none becomes or ceases to be completed.
TermsStay ==
  /\ DOMAIN deposits' = DOMAIN deposits
  /\ \A d \in DOMAIN deposits :
       /\ deposits'[d].user = deposits[d].user
       /\ deposits'[d].currency = deposits[d].currency
       /\ deposits'[d].amount = deposits[d].amount
       /\ deposits'[d].status = "completed" <=> deposits[d].status = "completed"

LEMMA SameBooks ==
  ASSUME LedgerExplainsBalances, UNCHANGED <<wallets, ledger>>
  PROVE  LedgerExplainsBalances'
  BY DEF LedgerExplainsBalances, Debits, Credits, Entries

LEMMA QuietStep ==
  ASSUME IInv, TypeOK', TermsStay, HandledPaid',
         UNCHANGED <<wallets, withdrawals, ledger>>, payments \subseteq payments'
  PROVE  IInv'
  <1>1. LedgerExplainsBalances'
    BY SameBooks DEF IInv, Books
  <1>2. LedgerOfRows'
    BY DEF IInv, Books, LedgerOfRows, TermsStay
  <1>3. CompletedIffCredited'
    BY DEF IInv, Decisions, CompletedIffCredited, TermsStay
  <1>4. RefundedIffFailed'
    BY DEF IInv, Decisions, RefundedIffFailed
  <1>5. CreditsArePaidFor'
    BY DEF IInv, Decisions, CreditsArePaidFor, TermsStay
  <1> QED
    BY <1>1, <1>2, <1>3, <1>4, <1>5 DEF IInv, Books, Decisions

\* The handlers and jobs that change a status, none to or from completed.
LEMMA StatusStep ==
  ASSUME IInv, deposits' \in Seq(DepositRow), TermsStay,
         UNCHANGED <<wallets, pinSet, withdrawals, ledger, bank, handling>>
  PROVE  IInv'
  <1>1. TypeOK'
    BY DEF IInv, TypeOK, bank
  <1>2. HandledPaid'
    BY DEF IInv, HandledPaid, PaidFor, TermsStay, bank
  <1> QED
    BY <1>1, <1>2, QuietStep DEF bank

LEMMA SetTransactionPinStep ==
  ASSUME IInv, NEW u \in Users, SetTransactionPin(u)
  PROVE  IInv'
  <1>1. TypeOK' /\ HandledPaid' /\ TermsStay
    BY DEF IInv, TypeOK, SetTransactionPin, bank, HandledPaid, PaidFor, TermsStay
  <1> QED
    BY <1>1, QuietStep DEF SetTransactionPin, bank

\* Setting the status of one deposit that is not completed.
LEMMA SetDepositStep ==
  ASSUME IInv, NEW d \in DOMAIN deposits, NEW status \in DepositStatus,
         status # "completed", deposits[d].status # "completed",
         SetDeposit(d, status),
         UNCHANGED <<wallets, pinSet, withdrawals, ledger, bank, handling>>
  PROVE  IInv'
  <1>1. deposits \in Seq(DepositRow) /\ deposits[d] \in DepositRow
    BY RowsOf DEF IInv, TypeOK
  <1>2. [deposits[d] EXCEPT !.status = status] \in DepositRow
    BY <1>1 DEF DepositRow
  <1>3. /\ deposits' \in Seq(DepositRow) /\ DOMAIN deposits' = DOMAIN deposits
        /\ deposits'[d] = [deposits[d] EXCEPT !.status = status]
        /\ \A i \in DOMAIN deposits : i # d => deposits'[i] = deposits[i]
    BY <1>1, <1>2, StatusOfOne DEF SetDeposit
  <1>4. /\ deposits'[d].user = deposits[d].user
        /\ deposits'[d].currency = deposits[d].currency
        /\ deposits'[d].amount = deposits[d].amount
        /\ deposits'[d].status = status
    BY <1>1, <1>3 DEF DepositRow
  <1>5. TermsStay
    BY <1>3, <1>4 DEF TermsStay
  <1> QED
    BY <1>3, <1>5, StatusStep

LEMMA PassDepositWindowStep ==
  ASSUME IInv, NEW d \in DOMAIN deposits, PassDepositWindow(d)
  PROVE  IInv'
  <1> DEFINE row == [deposits[d] EXCEPT !.stale = TRUE]
  <1>1. deposits \in Seq(DepositRow) /\ \A i \in DOMAIN deposits : deposits[i] \in DepositRow
    BY RowsOf DEF IInv, TypeOK
  <1>2. /\ row \in DepositRow /\ row.user = deposits[d].user
        /\ row.currency = deposits[d].currency /\ row.amount = deposits[d].amount
        /\ row.status = deposits[d].status
    BY <1>1 DEF DepositRow
  <1>3. deposits' = [deposits EXCEPT ![d] = row]
    BY DEF PassDepositWindow
  <1> HIDE DEF row
  <1>4. /\ deposits' = [i \in DOMAIN deposits |-> deposits'[i]]
        /\ \A i \in DOMAIN deposits : deposits'[i] = IF i = d THEN row ELSE deposits[i]
    BY <1>3
  <1>5. \A i \in DOMAIN deposits : deposits'[i] \in DepositRow
    BY <1>1, <1>2, <1>4
  <1>6. deposits' \in Seq(DepositRow) /\ DOMAIN deposits' = DOMAIN deposits
    BY <1>1, <1>4, <1>5, SameRows
  <1>7. TermsStay
    BY <1>2, <1>4, <1>6 DEF TermsStay
  <1> QED
    BY <1>6, <1>7, StatusStep DEF PassDepositWindow

LEMMA DepositExpiryJobStep ==
  ASSUME IInv, NEW S, DepositExpiryJob(S)
  PROVE  IInv'
  <1> DEFINE New(i) == [deposits[i] EXCEPT !.status = "expired"]
  <1>1. deposits \in Seq(DepositRow) /\ \A i \in DOMAIN deposits : deposits[i] \in DepositRow
    BY RowsOf DEF IInv, TypeOK
  <1>2. \A i \in DOMAIN deposits :
          /\ New(i) \in DepositRow /\ New(i).user = deposits[i].user
          /\ New(i).currency = deposits[i].currency /\ New(i).amount = deposits[i].amount
          /\ New(i).status = "expired"
    BY <1>1 DEF DepositRow, DepositStatus
  <1>3. \A i \in S : deposits[i].status = "initiated"
    BY DEF DepositExpiryJob, StaleDeposits
  <1>4. deposits' = [i \in DOMAIN deposits |-> IF i \in S THEN New(i) ELSE deposits[i]]
    BY DEF DepositExpiryJob
  <1> HIDE DEF New
  <1>5. /\ deposits' = [i \in DOMAIN deposits |-> deposits'[i]]
        /\ \A i \in DOMAIN deposits :
             deposits'[i] = IF i \in S THEN New(i) ELSE deposits[i]
    BY <1>4
  <1>6. \A i \in DOMAIN deposits : deposits'[i] \in DepositRow
    BY <1>1, <1>2, <1>5
  <1>7. deposits' \in Seq(DepositRow) /\ DOMAIN deposits' = DOMAIN deposits
    BY <1>1, <1>5, <1>6, SameRows
  <1>8. TermsStay
    BY <1>2, <1>3, <1>5, <1>7 DEF TermsStay
  <1> QED
    BY <1>7, <1>8, StatusStep DEF DepositExpiryJob

-----------------------------------------------------------------------------
(***************************************************************************)
(* New deposits and payments.                                              *)
(***************************************************************************)
\* A reference that has not been drawn is not in the ledger.
LEMMA FreshReferences ==
  ASSUME IInv
  PROVE  /\ \A d : d \notin DOMAIN deposits => DepositRef(d) \notin DOMAIN ledger
         /\ \A w : w \notin DOMAIN withdrawals =>
              WithdrawalRef(w) \notin DOMAIN ledger /\ ReversalRef(w) \notin DOMAIN ledger
  BY DEF IInv, Books, LedgerOfRows, DepositRef, WithdrawalRef, ReversalRef

LEMMA NewDepositStep ==
  ASSUME IInv, NEW u \in Users, NEW c \in Currencies, NEW a \in Nat,
         NEW status \in DepositStatus, status # "completed",
         NewDeposit(u, c, a, status), links' \subseteq Nat,
         UNCHANGED <<wallets, pinSet, withdrawals, ledger, payments, handling>>
  PROVE  IInv'
  <1> DEFINE x == [user |-> u, currency |-> c, amount |-> a, status |-> status,
                   stale |-> FALSE]
             n == Len(deposits) + 1
  <1>1. x \in DepositRow /\ x.status = status
    BY DEF DepositRow
  <1>2. deposits \in Seq(DepositRow) /\ deposits' = Append(deposits, x)
    BY DEF IInv, TypeOK, NewDeposit
  <1>3. n \in Nat \ {0} /\ n \notin DOMAIN deposits
    BY <1>2, RowsOf
  <1> HIDE DEF x, n
  <1>4. /\ deposits' \in Seq(DepositRow) /\ DOMAIN deposits' = DOMAIN deposits \cup {n}
        /\ \A d \in DOMAIN deposits : deposits'[d] = deposits[d]
        /\ deposits'[n] = x
    BY <1>1, <1>2, OneMoreRow DEF n
  <1>5. DepositRef(n) \notin DOMAIN ledger
    BY <1>3, FreshReferences
  <1>6. TypeOK'
    BY <1>4 DEF IInv, TypeOK
  <1>7. LedgerExplainsBalances'
    BY SameBooks DEF IInv, Books
  <1>8. LedgerOfRows'
    BY <1>4 DEF IInv, Books, LedgerOfRows
  <1>9. CompletedIffCredited'
    BY <1>1, <1>4, <1>5 DEF IInv, Decisions, CompletedIffCredited
  <1>10. RefundedIffFailed'
    BY DEF IInv, Decisions, RefundedIffFailed
  <1>11. CreditsArePaidFor'
    BY <1>4, <1>5 DEF IInv, Decisions, CreditsArePaidFor
  <1>12. HandledPaid'
    BY <1>4 DEF IInv, HandledPaid, PaidFor
  <1> QED
    BY <1>6, <1>7, <1>8, <1>9, <1>10, <1>11, <1>12 DEF IInv, Books, Decisions

LEMMA NextDepositIsNat ==
  ASSUME IInv
  PROVE  NextDeposit \in Nat
  BY RowsOf DEF IInv, TypeOK, NextDeposit

LEMMA InitiateNgnDepositStep ==
  ASSUME IInv, NEW u \in Users, NEW a \in Amounts, InitiateNgnDeposit(u, a)
  PROVE  IInv'
  <1>1. NGN \in Currencies /\ a \in Nat /\ "initiated" \in DepositStatus
    BY FundingAssumption DEF Currencies, DepositStatus
  <1>2. links' \subseteq Nat
    BY NextDepositIsNat DEF IInv, TypeOK, InitiateNgnDeposit
  <1> QED
    BY <1>1, <1>2, NewDepositStep DEF InitiateNgnDeposit

LEMMA SubmitForeignDepositStep ==
  ASSUME IInv, NEW u \in Users, NEW c \in Foreign, NEW a \in Amounts,
         SubmitForeignDeposit(u, c, a)
  PROVE  IInv'
  <1>1. c \in Currencies /\ a \in Nat /\ "pending_review" \in DepositStatus
    BY FundingAssumption DEF Currencies, DepositStatus
  <1>2. links' \subseteq Nat /\ UNCHANGED payments
    BY DEF IInv, TypeOK, SubmitForeignDeposit, bank
  <1> QED
    BY <1>1, <1>2, NewDepositStep DEF SubmitForeignDeposit

LEMMA InitiateNgnDepositRollsBackStep ==
  ASSUME IInv, InitiateNgnDepositRollsBack
  PROVE  IInv'
  <1>1. TypeOK'
    BY NextDepositIsNat DEF IInv, TypeOK, InitiateNgnDepositRollsBack
  <1>2. HandledPaid' /\ TermsStay
    BY DEF IInv, HandledPaid, PaidFor, TermsStay, InitiateNgnDepositRollsBack
  <1> QED
    BY <1>1, <1>2, QuietStep DEF InitiateNgnDepositRollsBack

LEMMA PayStep ==
  ASSUME IInv, NEW p \in [ref : links, amount : Amounts], Pay(p)
  PROVE  IInv'
  <1>1. p \in Payment
    BY FundingAssumption DEF IInv, TypeOK, Payment
  <1>2. TypeOK'
    BY <1>1 DEF IInv, TypeOK, Pay
  <1>3. HandledPaid' /\ TermsStay
    BY DEF IInv, HandledPaid, PaidFor, TermsStay, Pay
  <1> QED
    BY <1>2, <1>3, QuietStep DEF Pay

\* What a delivery reads passes the checks: the deposit exists and is paid
\* for.
LEMMA WebhookReadsStep ==
  ASSUME IInv, NEW h \in Deliveries, NEW p \in payments, WebhookReads(h, p)
  PROVE  IInv'
  <1>1. p.ref \in Nat /\ p = [ref |-> p.ref, amount |-> p.amount]
    BY DEF IInv, TypeOK, Payment
  <1>2. p.ref \in DOMAIN deposits /\ PaidFor(p.ref)
    BY <1>1 DEF WebhookReads, PaymentMatches, PaidFor
  <1>3. TypeOK'
    BY <1>1 DEF IInv, TypeOK, WebhookReads, bank
  <1>4. HandledPaid'
    BY <1>2 DEF IInv, TypeOK, HandledPaid, PaidFor, WebhookReads, bank
  <1>5. TermsStay
    BY DEF TermsStay, WebhookReads
  <1> QED
    BY <1>3, <1>4, <1>5, QuietStep DEF WebhookReads, bank

LEMMA WebhookFailsStep ==
  ASSUME IInv, NEW h \in Deliveries, WebhookFails(h)
  PROVE  IInv'
  <1>1. TypeOK'
    BY DEF IInv, TypeOK, WebhookFails, bank, Idle
  <1>2. HandledPaid'
    BY DEF IInv, TypeOK, HandledPaid, PaidFor, WebhookFails, bank
  <1>3. TermsStay
    BY DEF TermsStay, WebhookFails
  <1> QED
    BY <1>1, <1>2, <1>3, QuietStep DEF WebhookFails, bank

-----------------------------------------------------------------------------
(***************************************************************************)
(* Credits.                                                                *)
(***************************************************************************)
\* WalletService.credit and debit.
LEMMA CreditEffect ==
  ASSUME NEW w \in WalletTable, NEW u \in Users, NEW c \in Currencies, NEW a \in Nat
  PROVE  /\ Credit(w, u, c, a) \in WalletTable
         /\ Credit(w, u, c, a)[<<u, c>>].balance = w[<<u, c>>].balance + a
         /\ \A acc \in Accounts \ {<<u, c>>} : Credit(w, u, c, a)[acc] = w[acc]
  <1> DEFINE acc == <<u, c>>
             row == [balance |-> w[acc].balance + a, locked |-> w[acc].locked]
  <1>1. acc \in Accounts /\ w[acc] \in WalletRow
    BY DEF Accounts, WalletTable
  <1>2. row \in WalletRow /\ row.balance = w[acc].balance + a
    BY <1>1 DEF WalletRow
  <1>3. Credit(w, u, c, a) = [w EXCEPT ![acc] = row]
    <2>1. [w[acc] EXCEPT !.balance = w[acc].balance + a] = row
      BY <1>1 DEF WalletRow
    <2>2. Credit(w, u, c, a)
            = [w EXCEPT ![acc] = [w[acc] EXCEPT !.balance = w[acc].balance + a]]
      BY DEF Credit
    <2> QED
      BY <2>1, <2>2
  <1> HIDE DEF row
  <1> QED
    BY <1>1, <1>2, <1>3 DEF WalletTable

LEMMA DebitEffect ==
  ASSUME NEW w \in WalletTable, NEW u \in Users, NEW c \in Currencies, NEW a \in Nat,
         CanDebit(w, u, c, a)
  PROVE  /\ Debit(w, u, c, a) \in WalletTable
         /\ Debit(w, u, c, a)[<<u, c>>].balance + a = w[<<u, c>>].balance
         /\ \A acc \in Accounts \ {<<u, c>>} : Debit(w, u, c, a)[acc] = w[acc]
  <1> DEFINE acc == <<u, c>>
             row == [balance |-> w[acc].balance - a, locked |-> w[acc].locked]
  <1>1. acc \in Accounts /\ w[acc] \in WalletRow /\ w[acc].balance >= a
    BY DEF Accounts, WalletTable, CanDebit
  <1>2. row \in WalletRow /\ row.balance + a = w[acc].balance
    BY <1>1 DEF WalletRow
  <1>3. Debit(w, u, c, a) = [w EXCEPT ![acc] = row]
    <2>1. [w[acc] EXCEPT !.balance = w[acc].balance - a] = row
      BY <1>1 DEF WalletRow
    <2>2. Debit(w, u, c, a)
            = [w EXCEPT ![acc] = [w[acc] EXCEPT !.balance = w[acc].balance - a]]
      BY DEF Debit
    <2> QED
      BY <2>1, <2>2
  <1> HIDE DEF row
  <1> QED
    BY <1>1, <1>2, <1>3 DEF WalletTable

\* A credit of x with its ledger row under an unused reference, whether x is
\* a deposit or a withdrawal that is given back.
LEMMA CreditBooks ==
  ASSUME IInv, NEW x, x.user \in Users, x.currency \in Currencies, x.amount \in Nat,
         NEW by \in {"owner", "admin"},
         NEW ref \in References, ref \notin DOMAIN ledger,
         wallets' = Credit(wallets, x.user, x.currency, x.amount),
         ledger' = WithRow(ref, CreditRow(x, by))
  PROVE  /\ wallets' \in WalletTable /\ LedgerExplainsBalances'
         /\ DOMAIN ledger' = DOMAIN ledger \cup {ref} /\ IsFiniteSet(DOMAIN ledger')
         /\ DOMAIN ledger' \subseteq References
         /\ \A r \in DOMAIN ledger : ledger'[r] = ledger[r]
         /\ ledger'[ref] = CreditRow(x, by)
         /\ \A r \in DOMAIN ledger' : ledger'[r] \in LedgerRow
  <1> DEFINE row == CreditRow(x, by)
             acc == <<x.user, x.currency>>
  <1>1. /\ row \in LedgerRow /\ row.account = acc
        /\ row.credit = x.amount /\ row.debit = 0 /\ acc \in Accounts
    BY DEF CreditRow, LedgerRow, Accounts
  <1>2. /\ TypeOK /\ wallets \in WalletTable /\ IsFiniteSet(DOMAIN ledger)
        /\ LedgerExplainsBalances
    BY DEF IInv, TypeOK, Books, LedgerOfRows
  <1>3. /\ wallets' \in WalletTable
        /\ wallets'[acc].balance = wallets[acc].balance + x.amount
        /\ \A z \in Accounts \ {acc} : wallets'[z] = wallets[z]
    BY <1>2, CreditEffect
  <1>4. wallets[acc].balance \in Nat
    BY <1>1, <1>2 DEF WalletTable, WalletRow
  <1> HIDE DEF row, acc
  <1>5. wallets'[row.account].balance + row.debit = wallets[row.account].balance + row.credit
    BY <1>1, <1>3, <1>4
  <1>6. \A z \in Accounts \ {row.account} : wallets'[z].balance = wallets[z].balance
    BY <1>1, <1>3
  <1>7. ledger' = WithRow(ref, row)
    BY DEF row
  <1>8. LedgerExplainsBalances'
    BY <1>1, <1>2, <1>3, <1>5, <1>6, <1>7, RowExplains
  <1>9. /\ DOMAIN ledger' = DOMAIN ledger \cup {ref}
        /\ \A r \in DOMAIN ledger : ledger'[r] = ledger[r]
        /\ ledger'[ref] = row
    BY <1>7 DEF WithRow
  <1>10. IsFiniteSet(DOMAIN ledger')
    BY <1>2, <1>9, FS_AddElement
  <1>11. \A r \in DOMAIN ledger' : ledger'[r] \in LedgerRow
    BY <1>1, <1>2, <1>9 DEF TypeOK
  <1>12. DOMAIN ledger' \subseteq References
    BY <1>2, <1>9 DEF TypeOK
  <1> QED
    BY <1>3, <1>8, <1>9, <1>10, <1>11, <1>12 DEF row

\* Every way to credit a deposit: for the owner, when it was paid for, or by
\* an admin.
LEMMA CreditDepositStep ==
  ASSUME IInv, NEW d \in DOMAIN deposits, NEW by \in {"owner", "admin"},
         by = "owner" => PaidFor(d),
         CreditDeposit(d, by),
         UNCHANGED <<pinSet, withdrawals, bank>>,
         handling' \in [Deliveries -> Nat],
         \A h \in Deliveries : handling'[h] \in {handling[h], Idle}
  PROVE  IInv'
  <1> DEFINE x == deposits[d]
             ref == DepositRef(d)
  <1>1. deposits \in Seq(DepositRow) /\ d \in Nat /\ x \in DepositRow
    BY RowsOf DEF IInv, TypeOK
  <1>2. ref \in References /\ ref \notin DOMAIN ledger
    BY <1>1 DEF CreditDeposit, CanCreditDeposit, DepositRef, References
  <1>3. x.user \in Users /\ x.currency \in Currencies /\ x.amount \in Nat
    BY <1>1 DEF DepositRow
  <1>4. /\ wallets' \in WalletTable /\ LedgerExplainsBalances'
        /\ DOMAIN ledger' = DOMAIN ledger \cup {ref} /\ IsFiniteSet(DOMAIN ledger')
        /\ DOMAIN ledger' \subseteq References
        /\ \A r \in DOMAIN ledger : ledger'[r] = ledger[r]
        /\ ledger'[ref] = CreditRow(x, by)
        /\ \A r \in DOMAIN ledger' : ledger'[r] \in LedgerRow
    <2>1. /\ wallets' = Credit(wallets, x.user, x.currency, x.amount)
          /\ ledger' = WithRow(ref, CreditRow(x, by))
      BY DEF CreditDeposit
    <2> HIDE DEF x, ref
    <2> QED
      BY <1>2, <1>3, <2>1, CreditBooks
  <1>5. [x EXCEPT !.status = "completed"] \in DepositRow
    BY <1>1 DEF DepositRow, DepositStatus
  <1>6. /\ deposits' \in Seq(DepositRow) /\ DOMAIN deposits' = DOMAIN deposits
        /\ deposits'[d] = [x EXCEPT !.status = "completed"]
        /\ \A i \in DOMAIN deposits : i # d => deposits'[i] = deposits[i]
    BY <1>1, <1>5, StatusOfOne DEF CreditDeposit, SetDeposit
  <1>7. /\ deposits'[d].user = x.user /\ deposits'[d].currency = x.currency
        /\ deposits'[d].amount = x.amount /\ deposits'[d].status = "completed"
    BY <1>1, <1>6 DEF DepositRow
  <1>8. /\ ledger'[ref].account = <<x.user, x.currency>>
        /\ ledger'[ref].credit = x.amount /\ ledger'[ref].by = by
    BY <1>4 DEF CreditRow
  <1>9. \A i \in DOMAIN deposits : i # d => DepositRef(i) # ref
    BY DEF DepositRef
  <1>10. \A w : WithdrawalRef(w) # ref /\ ReversalRef(w) # ref
    BY DEF DepositRef, WithdrawalRef, ReversalRef
  <1>11. TypeOK'
    BY <1>4, <1>6 DEF IInv, TypeOK, bank
  <1>12. LedgerOfRows'
    <2>1. ref[1] = "DEP" /\ ref[2] \in DOMAIN deposits
      BY DEF DepositRef
    <2> QED
      BY <1>4, <1>6, <2>1 DEF IInv, Books, LedgerOfRows
  <1> HIDE DEF x, ref
  <1>13. CompletedIffCredited'
    <2> SUFFICES ASSUME NEW i \in DOMAIN deposits
                 PROVE  /\ deposits'[i].status = "completed" <=> DepositRef(i) \in DOMAIN ledger'
                        /\ DepositRef(i) \in DOMAIN ledger' =>
                             /\ ledger'[DepositRef(i)].account
                                  = <<deposits'[i].user, deposits'[i].currency>>
                             /\ ledger'[DepositRef(i)].credit = deposits'[i].amount
      BY <1>6 DEF CompletedIffCredited
    <2>1. CASE i = d
      BY <1>4, <1>7, <1>8, <2>1 DEF ref
    <2>2. CASE i # d
      BY <1>4, <1>6, <1>9, <2>2 DEF IInv, Decisions, CompletedIffCredited
    <2> QED
      BY <2>1, <2>2
  <1>14. RefundedIffFailed'
    BY <1>4, <1>10 DEF IInv, Decisions, RefundedIffFailed
  <1>15. CreditsArePaidFor'
    <2> SUFFICES ASSUME NEW i \in DOMAIN deposits, DepositRef(i) \in DOMAIN ledger',
                        ledger'[DepositRef(i)].by = "owner"
                 PROVE  /\ deposits'[i].currency = NGN
                        /\ [ref |-> i, amount |-> deposits'[i].amount] \in payments
      BY <1>6 DEF CreditsArePaidFor, bank
    <2>1. CASE i = d
      BY <1>7, <1>8, <2>1 DEF PaidFor, ref, x
    <2>2. CASE i # d
      BY <1>4, <1>6, <1>9, <2>2 DEF IInv, Decisions, CreditsArePaidFor
    <2> QED
      BY <2>1, <2>2
  <1>16. HandledPaid'
    <2> SUFFICES ASSUME NEW h \in Deliveries, handling'[h] # Idle
                 PROVE  /\ handling'[h] \in DOMAIN deposits'
                        /\ deposits'[handling'[h]].currency = NGN
                        /\ [ref |-> handling'[h], amount |-> deposits'[handling'[h]].amount]
                             \in payments'
      BY DEF HandledPaid, PaidFor
    <2>1. handling'[h] = handling[h]
      OBVIOUS
    <2>2. handling[h] \in DOMAIN deposits /\ PaidFor(handling[h])
      BY <2>1 DEF IInv, HandledPaid
    <2>3. \A i \in DOMAIN deposits : /\ deposits'[i].currency = deposits[i].currency
                                     /\ deposits'[i].amount = deposits[i].amount
      BY <1>6, <1>7 DEF x
    <2> QED
      BY <1>6, <2>1, <2>2, <2>3 DEF PaidFor, bank
  <1> QED
    BY <1>4, <1>11, <1>12, <1>13, <1>14, <1>15, <1>16 DEF IInv, Books, Decisions

LEMMA WebhookCreditsStep ==
  ASSUME IInv, NEW h \in Deliveries, WebhookCredits(h)
  PROVE  IInv'
  <1>1. handling[h] \in DOMAIN deposits /\ PaidFor(handling[h])
    BY DEF IInv, HandledPaid, WebhookCredits
  <1>2. /\ handling' \in [Deliveries -> Nat]
        /\ \A g \in Deliveries : handling'[g] \in {handling[g], Idle}
    BY DEF IInv, TypeOK, WebhookCredits, Idle
  <1> QED
    BY <1>1, <1>2, CreditDepositStep DEF WebhookCredits

LEMMA AdminCreditStep ==
  ASSUME IInv, NEW d \in DOMAIN deposits, CreditDeposit(d, "admin"),
         UNCHANGED <<pinSet, withdrawals, bank, handling>>
  PROVE  IInv'
  <1>1. /\ handling' \in [Deliveries -> Nat]
        /\ \A g \in Deliveries : handling'[g] \in {handling[g], Idle}
    BY DEF IInv, TypeOK
  <1> QED
    BY <1>1, CreditDepositStep

-----------------------------------------------------------------------------
(***************************************************************************)
(* Withdrawals.                                                            *)
(***************************************************************************)
LEMMA RequestWithdrawalStep ==
  ASSUME IInv, NEW u \in Users, NEW c \in Currencies, NEW a \in Amounts,
         RequestWithdrawal(u, c, a)
  PROVE  IInv'
  <1> DEFINE x == [user |-> u, currency |-> c, amount |-> a, status |-> InitialStatus]
             n == Len(withdrawals) + 1
             ref == WithdrawalRef(n)
             row == DebitRow(x)
  <1>1. a \in Nat /\ x \in WithdrawalRow /\ x.status # "failed"
    BY FundingAssumption DEF WithdrawalRow
  <1>2. /\ withdrawals \in Seq(WithdrawalRow) /\ withdrawals' = Append(withdrawals, x)
        /\ wallets \in WalletTable /\ IsFiniteSet(DOMAIN ledger)
        /\ TypeOK /\ LedgerExplainsBalances
    BY DEF IInv, TypeOK, Books, LedgerOfRows, RequestWithdrawal
  <1>3. n \in Nat /\ n \notin DOMAIN withdrawals
    BY <1>2, RowsOf
  <1>4. ref \in References /\ ref[1] # "DEP" /\ ref[2] = n
    BY <1>3 DEF WithdrawalRef, References
  <1>5. ref \notin DOMAIN ledger /\ ReversalRef(n) \notin DOMAIN ledger
    BY <1>3, FreshReferences
  <1>6. /\ row \in LedgerRow /\ row.account = <<u, c>> /\ <<u, c>> \in Accounts
        /\ row.credit = 0 /\ row.debit = a
    BY <1>1 DEF DebitRow, LedgerRow, Accounts
  <1>7. /\ wallets' \in WalletTable
        /\ wallets'[<<u, c>>].balance + a = wallets[<<u, c>>].balance
        /\ \A z \in Accounts \ {<<u, c>>} : wallets'[z] = wallets[z]
    BY <1>1, <1>2, DebitEffect DEF RequestWithdrawal
  <1>8. ledger' = WithRow(ref, row)
    BY DEF RequestWithdrawal
  <1>9. /\ withdrawals' \in Seq(WithdrawalRow)
        /\ DOMAIN withdrawals' = DOMAIN withdrawals \cup {n}
        /\ \A w \in DOMAIN withdrawals : withdrawals'[w] = withdrawals[w]
        /\ withdrawals'[n] = x
    <2> HIDE DEF x
    <2> QED
      BY <1>1, <1>2, OneMoreRow
  <1>10. /\ \A w \in DOMAIN withdrawals : WithdrawalRef(w) # ref
         /\ \A w : ReversalRef(w) # ref
         /\ \A d : DepositRef(d) # ref
    BY <1>3 DEF DepositRef, WithdrawalRef, ReversalRef
  <1> HIDE DEF x, n, ref, row
  <1>11. wallets[<<u, c>>].balance \in Nat
    BY <1>2, <1>6 DEF WalletTable, WalletRow
  <1>12. LedgerExplainsBalances'
    <2>1. wallets'[row.account].balance + row.debit = wallets[row.account].balance + row.credit
      BY <1>6, <1>7, <1>11
    <2>2. \A z \in Accounts \ {row.account} : wallets'[z].balance = wallets[z].balance
      BY <1>6, <1>7
    <2> QED
      BY <1>2, <1>5, <1>6, <1>7, <1>8, <2>1, <2>2, RowExplains
  <1>13. /\ DOMAIN ledger' = DOMAIN ledger \cup {ref}
         /\ \A r \in DOMAIN ledger : ledger'[r] = ledger[r]
         /\ ledger'[ref] = row
    BY <1>5, <1>8 DEF WithRow
  <1>14. TypeOK'
    <2>1. /\ DOMAIN ledger' \subseteq References
          /\ \A r \in DOMAIN ledger' : ledger'[r] \in LedgerRow
      BY <1>2, <1>4, <1>6, <1>13 DEF TypeOK
    <2> QED
      BY <1>2, <1>7, <1>9, <2>1 DEF TypeOK, RequestWithdrawal, bank
  <1>15. LedgerOfRows'
    <2>1. IsFiniteSet(DOMAIN ledger')
      BY <1>2, <1>13, FS_AddElement
    <2>2. UNCHANGED deposits
      BY DEF RequestWithdrawal
    <2> QED
      BY <1>4, <1>9, <1>13, <2>1, <2>2 DEF IInv, Books, LedgerOfRows
  <1>16. CompletedIffCredited' /\ CreditsArePaidFor'
    BY <1>10, <1>13
    DEF IInv, Decisions, CompletedIffCredited, CreditsArePaidFor, RequestWithdrawal, bank
  <1>17. RefundedIffFailed'
    <2> SUFFICES ASSUME NEW w \in DOMAIN withdrawals'
                 PROVE  /\ WithdrawalRef(w) \in DOMAIN ledger'
                        /\ withdrawals'[w].status = "failed"
                             <=> ReversalRef(w) \in DOMAIN ledger'
      BY DEF RefundedIffFailed
    <2>1. CASE w = n
      BY <1>1, <1>5, <1>9, <1>10, <1>13, <2>1 DEF ref
    <2>2. CASE w \in DOMAIN withdrawals
      BY <1>9, <1>10, <1>13, <2>2 DEF IInv, Decisions, RefundedIffFailed
    <2> QED
      BY <1>9, <2>1, <2>2
  <1>18. HandledPaid'
    BY DEF IInv, HandledPaid, PaidFor, RequestWithdrawal, bank
  <1> QED
    BY <1>12, <1>14, <1>15, <1>16, <1>17, <1>18 DEF IInv, Books, Decisions

LEMMA ApproveWithdrawalStep ==
  ASSUME IInv, NEW w \in DOMAIN withdrawals, ApproveWithdrawal(w)
  PROVE  IInv'
  <1>1. withdrawals \in Seq(WithdrawalRow) /\ withdrawals[w] \in WithdrawalRow
    BY RowsOf DEF IInv, TypeOK
  <1>2. [withdrawals[w] EXCEPT !.status = "completed"] \in WithdrawalRow
    BY <1>1 DEF WithdrawalRow
  <1>3. /\ withdrawals' \in Seq(WithdrawalRow) /\ DOMAIN withdrawals' = DOMAIN withdrawals
        /\ withdrawals'[w] = [withdrawals[w] EXCEPT !.status = "completed"]
        /\ \A i \in DOMAIN withdrawals : i # w => withdrawals'[i] = withdrawals[i]
    BY <1>1, <1>2, StatusOfOne DEF ApproveWithdrawal
  <1>4. withdrawals'[w].status = "completed" /\ withdrawals[w].status # "failed"
    BY <1>1, <1>3 DEF WithdrawalRow, ApproveWithdrawal, CanApprove
  <1>5. TypeOK'
    BY <1>3 DEF IInv, TypeOK, ApproveWithdrawal, bank
  <1>6. LedgerExplainsBalances'
    BY SameBooks DEF IInv, Books, ApproveWithdrawal
  <1>7. LedgerOfRows'
    BY <1>3 DEF IInv, Books, LedgerOfRows, ApproveWithdrawal
  <1>8. CompletedIffCredited' /\ CreditsArePaidFor'
    BY DEF IInv, Decisions, CompletedIffCredited, CreditsArePaidFor, ApproveWithdrawal, bank
  <1>9. RefundedIffFailed'
    BY <1>3, <1>4 DEF IInv, Decisions, RefundedIffFailed, ApproveWithdrawal
  <1>10. HandledPaid'
    BY DEF IInv, HandledPaid, PaidFor, ApproveWithdrawal, bank
  <1> QED
    BY <1>5, <1>6, <1>7, <1>8, <1>9, <1>10 DEF IInv, Books, Decisions

LEMMA RejectWithdrawalStep ==
  ASSUME IInv, NEW w \in DOMAIN withdrawals, RejectWithdrawal(w)
  PROVE  IInv'
  <1> DEFINE x == withdrawals[w]
             ref == ReversalRef(w)
  <1>1. withdrawals \in Seq(WithdrawalRow) /\ x \in WithdrawalRow /\ w \in Nat
    BY RowsOf DEF IInv, TypeOK
  <1>2. ref \in References /\ ref \notin DOMAIN ledger /\ ref[1] # "DEP" /\ ref[2] = w
    BY <1>1 DEF RejectWithdrawal, ReversalRef, References
  <1>3. x.user \in Users /\ x.currency \in Currencies /\ x.amount \in Nat
    BY <1>1 DEF WithdrawalRow
  <1>4. /\ wallets' \in WalletTable /\ LedgerExplainsBalances'
        /\ DOMAIN ledger' = DOMAIN ledger \cup {ref} /\ IsFiniteSet(DOMAIN ledger')
        /\ DOMAIN ledger' \subseteq References
        /\ \A r \in DOMAIN ledger : ledger'[r] = ledger[r]
        /\ \A r \in DOMAIN ledger' : ledger'[r] \in LedgerRow
    <2>1. /\ wallets' = Credit(wallets, x.user, x.currency, x.amount)
          /\ ledger' = WithRow(ref, CreditRow(x, "admin"))
      BY DEF RejectWithdrawal
    <2> HIDE DEF x, ref
    <2> QED
      BY <1>2, <1>3, <2>1, CreditBooks
  <1>5. [x EXCEPT !.status = "failed"] \in WithdrawalRow
    BY <1>1 DEF WithdrawalRow
  <1>6. /\ withdrawals' \in Seq(WithdrawalRow) /\ DOMAIN withdrawals' = DOMAIN withdrawals
        /\ withdrawals'[w] = [x EXCEPT !.status = "failed"]
        /\ \A i \in DOMAIN withdrawals : i # w => withdrawals'[i] = withdrawals[i]
    BY <1>1, <1>5, StatusOfOne DEF RejectWithdrawal
  <1>7. withdrawals'[w].status = "failed"
    BY <1>1, <1>6 DEF WithdrawalRow
  <1>8. /\ \A i \in DOMAIN withdrawals : i # w => ReversalRef(i) # ref
        /\ \A d : DepositRef(d) # ref
    BY DEF ReversalRef, DepositRef
  <1>9. TypeOK'
    BY <1>4, <1>6 DEF IInv, TypeOK, RejectWithdrawal, bank
  <1> HIDE DEF x
  <1>10. LedgerOfRows'
    <2>1. UNCHANGED deposits
      BY DEF RejectWithdrawal
    <2> HIDE DEF ref
    <2> QED
      BY <1>2, <1>4, <1>6, <2>1 DEF IInv, Books, LedgerOfRows
  <1>11. CompletedIffCredited' /\ CreditsArePaidFor'
    <2>1. UNCHANGED <<deposits, payments>>
      BY DEF RejectWithdrawal, bank
    <2> HIDE DEF ref
    <2> QED
      BY <1>4, <1>8, <2>1 DEF IInv, Decisions, CompletedIffCredited, CreditsArePaidFor
  <1>12. RefundedIffFailed'
    <2> SUFFICES ASSUME NEW i \in DOMAIN withdrawals
                 PROVE  /\ WithdrawalRef(i) \in DOMAIN ledger'
                        /\ withdrawals'[i].status = "failed"
                             <=> ReversalRef(i) \in DOMAIN ledger'
      BY <1>6 DEF RefundedIffFailed
    <2>1. WithdrawalRef(i) \in DOMAIN ledger'
      BY <1>4 DEF IInv, Decisions, RefundedIffFailed
    <2>2. CASE i = w
      BY <1>4, <1>7, <2>1, <2>2
    <2>3. CASE i # w
      BY <1>4, <1>6, <1>8, <2>1, <2>3 DEF IInv, Decisions, RefundedIffFailed
    <2> QED
      BY <2>2, <2>3
  <1>13. HandledPaid'
    BY DEF IInv, HandledPaid, PaidFor, RejectWithdrawal, bank
  <1> QED
    BY <1>4, <1>9, <1>10, <1>11, <1>12, <1>13 DEF IInv, Books, Decisions

-----------------------------------------------------------------------------
(***************************************************************************)
(* The invariant holds in every reachable state.                           *)
(***************************************************************************)
LEMMA InitInv == Init => IInv
  <1> SUFFICES ASSUME Init PROVE IInv
    OBVIOUS
  <1>1. /\ DOMAIN deposits = {} /\ DOMAIN withdrawals = {} /\ DOMAIN ledger = {}
        /\ deposits \in Seq(DepositRow) /\ withdrawals \in Seq(WithdrawalRow)
    BY EmptySeq, RowsOf DEF Init
  <1>2. IsFiniteSet(DOMAIN ledger)
    BY <1>1, FS_EmptySet
  <1>3. wallets \in WalletTable
    BY FundingAssumption DEF Init, WalletTable, WalletRow
  <1>4. TypeOK
    BY <1>1, <1>3 DEF Init, TypeOK, Idle
  <1>5. LedgerOfRows /\ CompletedIffCredited /\ RefundedIffFailed /\ CreditsArePaidFor
    BY <1>1, <1>2 DEF LedgerOfRows, CompletedIffCredited, RefundedIffFailed, CreditsArePaidFor
  <1>6. HandledPaid
    BY DEF Init, HandledPaid
  <1>7. LedgerExplainsBalances
    <2> SUFFICES ASSUME NEW acc \in Accounts
                 PROVE  wallets[acc].balance + Debits(acc) = Opening[acc] + Credits(acc)
      BY DEF LedgerExplainsBalances
    <2>1. Entries(acc) = {}
      BY <1>1 DEF Entries
    <2>2. Debits(acc) = 0 /\ Credits(acc) = 0
      BY <2>1, TotalOfNothing DEF Debits, Credits
    <2>3. wallets[acc].balance = Opening[acc]
      BY DEF Init
    <2> QED
      BY <2>2, <2>3
  <1> QED
    BY <1>4, <1>5, <1>6, <1>7 DEF IInv, Books, Decisions

LEMMA UserStepInv ==
  ASSUME IInv, UserStep
  PROVE  IInv'
  <1> PICK u \in Users :
        \/ SetTransactionPin(u)
        \/ \E a \in Amounts :
             \/ InitiateNgnDeposit(u, a)
             \/ \E c \in Foreign : SubmitForeignDeposit(u, c, a)
             \/ \E c \in Currencies : RequestWithdrawal(u, c, a)
        \/ \E d \in DOMAIN deposits : CancelDeposit(u, d)
    BY DEF UserStep
  <1>1. CASE SetTransactionPin(u)
    BY <1>1, SetTransactionPinStep
  <1>2. ASSUME NEW a \in Amounts, InitiateNgnDeposit(u, a)
        PROVE  IInv'
    BY <1>2, InitiateNgnDepositStep
  <1>3. ASSUME NEW a \in Amounts, NEW c \in Foreign, SubmitForeignDeposit(u, c, a)
        PROVE  IInv'
    BY <1>3, SubmitForeignDepositStep
  <1>4. ASSUME NEW a \in Amounts, NEW c \in Currencies, RequestWithdrawal(u, c, a)
        PROVE  IInv'
    BY <1>4, RequestWithdrawalStep
  <1>5. ASSUME NEW d \in DOMAIN deposits, CancelDeposit(u, d)
        PROVE  IInv'
    BY <1>5, SetDepositStep DEF CancelDeposit, DepositStatus
  <1> QED
    BY <1>1, <1>2, <1>3, <1>4, <1>5

LEMMA BankStepInv ==
  ASSUME IInv, BankStep
  PROVE  IInv'
  <1>1. CASE InitiateNgnDepositRollsBack
    BY <1>1, InitiateNgnDepositRollsBackStep
  <1>2. ASSUME NEW p \in [ref : links, amount : Amounts], Pay(p)
        PROVE  IInv'
    BY <1>2, PayStep
  <1>3. ASSUME NEW h \in Deliveries, NEW p \in payments, WebhookReads(h, p)
        PROVE  IInv'
    BY <1>3, WebhookReadsStep
  <1>4. ASSUME NEW h \in Deliveries, WebhookCredits(h)
        PROVE  IInv'
    BY <1>4, WebhookCreditsStep
  <1>5. ASSUME NEW h \in Deliveries, WebhookFails(h)
        PROVE  IInv'
    BY <1>5, WebhookFailsStep
  <1> QED
    BY <1>1, <1>2, <1>3, <1>4, <1>5 DEF BankStep

LEMMA AdminStepInv ==
  ASSUME IInv, AdminStep
  PROVE  IInv'
  <1>1. ASSUME NEW d \in DOMAIN deposits, ApproveDeposit(d)
        PROVE  IInv'
    BY <1>1, AdminCreditStep DEF ApproveDeposit
  <1>2. ASSUME NEW d \in DOMAIN deposits, VerifyFlutterwaveDeposit(d)
        PROVE  IInv'
    BY <1>2, AdminCreditStep DEF VerifyFlutterwaveDeposit
  <1>3. ASSUME NEW d \in DOMAIN deposits, RejectDeposit(d)
        PROVE  IInv'
    BY <1>3, SetDepositStep DEF RejectDeposit, DepositStatus
  <1>4. ASSUME NEW w \in DOMAIN withdrawals, ApproveWithdrawal(w)
        PROVE  IInv'
    BY <1>4, ApproveWithdrawalStep
  <1>5. ASSUME NEW w \in DOMAIN withdrawals, RejectWithdrawal(w)
        PROVE  IInv'
    BY <1>5, RejectWithdrawalStep
  <1> QED
    BY <1>1, <1>2, <1>3, <1>4, <1>5 DEF AdminStep

LEMMA StutterInv ==
  ASSUME IInv, UNCHANGED vars
  PROVE  IInv'
  <1>1. TypeOK' /\ HandledPaid' /\ TermsStay
    BY DEF IInv, TypeOK, HandledPaid, PaidFor, TermsStay, vars, bank
  <1> QED
    BY <1>1, QuietStep DEF vars, bank

LEMMA StepInv == IInv /\ [Next]_vars => IInv'
  <1> SUFFICES ASSUME IInv, [Next]_vars PROVE IInv'
    OBVIOUS
  <1>1. CASE UserStep
    BY <1>1, UserStepInv
  <1>2. CASE BankStep
    BY <1>2, BankStepInv
  <1>3. CASE AdminStep
    BY <1>3, AdminStepInv
  <1>4. CASE ClockStep
    BY <1>4, PassDepositWindowStep DEF ClockStep
  <1>5. CASE Jobs
    BY <1>5, DepositExpiryJobStep DEF Jobs
  <1>6. CASE UNCHANGED vars
    BY <1>6, StutterInv
  <1> QED
    BY <1>1, <1>2, <1>3, <1>4, <1>5, <1>6 DEF Next

LEMMA Invariant == Spec => []IInv
  BY InitInv, StepInv, PTL DEF Spec

\* Every row has its type, whatever users, admins, Flutterwave and the job
\* do: no balance is ever negative.
THEOREM FundingTypeCorrect == Spec => []TypeOK
  <1>1. IInv => TypeOK
    BY DEF IInv
  <1> QED
    BY <1>1, Invariant, PTL

\* The ledger explains every balance: opening balance, plus credits, minus
\* debits.
THEOREM LedgerIsComplete == Spec => []LedgerExplainsBalances
  <1>1. IInv => LedgerExplainsBalances
    BY DEF IInv, Books
  <1> QED
    BY <1>1, Invariant, PTL

\* A deposit is completed exactly when its amount was credited to its owner,
\* although the webhook acts on a status it read without a lock.
THEOREM CreditedOnce == Spec => []CompletedIffCredited
  <1>1. IInv => CompletedIffCredited
    BY DEF IInv, Decisions
  <1> QED
    BY <1>1, Invariant, PTL

\* A deposit no admin approved was paid for, to the cent.
THEOREM CreditedForPayment == Spec => []CreditsArePaidFor
  <1>1. IInv => CreditsArePaidFor
    BY DEF IInv, Decisions
  <1> QED
    BY <1>1, Invariant, PTL

\* A withdrawal is given back exactly when it failed.
THEOREM RefundedOnce == Spec => []RefundedIffFailed
  <1>1. IInv => RefundedIffFailed
    BY DEF IInv, Decisions
  <1> QED
    BY <1>1, Invariant, PTL

-----------------------------------------------------------------------------
(***************************************************************************)
(* What is settled stays.                                                  *)
(***************************************************************************)
LEMMA SettledByStatus ==
  ASSUME IInv, NEW d \in DOMAIN deposits, NEW status,
         deposits[d].status # "completed", SetDeposit(d, status),
         UNCHANGED <<withdrawals, ledger>>
  PROVE  KeepsSettled
  BY DEF KeepsSettled, SetDeposit

LEMMA SettledByNewDeposit ==
  ASSUME IInv, NEW u \in Users, NEW c \in Currencies, NEW a \in Nat,
         NEW status \in DepositStatus, NewDeposit(u, c, a, status),
         UNCHANGED <<withdrawals, ledger>>
  PROVE  KeepsSettled
  <1> DEFINE x == [user |-> u, currency |-> c, amount |-> a, status |-> status,
                   stale |-> FALSE]
  <1>1. deposits \in Seq(DepositRow) /\ x \in DepositRow /\ deposits' = Append(deposits, x)
    BY DEF IInv, TypeOK, NewDeposit, DepositRow
  <1> HIDE DEF x
  <1> QED
    BY <1>1, OneMoreRow DEF KeepsSettled

\* A deposit is credited at most once, and never after it is completed: its
\* reference is in the ledger.
LEMMA SettledByCredit ==
  ASSUME IInv, NEW d \in DOMAIN deposits, NEW by, CreditDeposit(d, by),
         UNCHANGED withdrawals
  PROVE  KeepsSettled
  <1>1. DepositRef(d) \notin DOMAIN ledger
    BY DEF CreditDeposit, CanCreditDeposit
  <1>2. deposits[d].status # "completed"
    BY <1>1 DEF IInv, Decisions, CompletedIffCredited
  <1>3. \A i \in DOMAIN deposits : i # d => deposits'[i] = deposits[i]
    BY DEF CreditDeposit, SetDeposit
  <1>4. \A r \in DOMAIN ledger : r \in DOMAIN ledger' /\ ledger'[r] = ledger[r]
    BY <1>1 DEF CreditDeposit, WithRow
  <1> QED
    BY <1>2, <1>3, <1>4 DEF KeepsSettled

LEMMA SettledByRequest ==
  ASSUME IInv, NEW u \in Users, NEW c \in Currencies, NEW a \in Amounts,
         RequestWithdrawal(u, c, a)
  PROVE  KeepsSettled
  <1> DEFINE x == [user |-> u, currency |-> c, amount |-> a, status |-> InitialStatus]
             n == Len(withdrawals) + 1
  <1>1. withdrawals \in Seq(WithdrawalRow) /\ x \in WithdrawalRow
    BY FundingAssumption DEF IInv, TypeOK, WithdrawalRow
  <1>2. withdrawals' = Append(withdrawals, x) /\ UNCHANGED deposits
    BY DEF RequestWithdrawal
  <1>3. ledger' = WithRow(WithdrawalRef(n), DebitRow(x))
    BY DEF RequestWithdrawal
  <1>4. n \notin DOMAIN withdrawals
    BY <1>1, RowsOf
  <1> HIDE DEF x, n
  <1>5. WithdrawalRef(n) \notin DOMAIN ledger
    BY <1>4, FreshReferences
  <1>6. \A r \in DOMAIN ledger : r \in DOMAIN ledger' /\ ledger'[r] = ledger[r]
    BY <1>3, <1>5 DEF WithRow
  <1>7. \A w \in DOMAIN withdrawals : withdrawals'[w] = withdrawals[w]
    BY <1>1, <1>2, OneMoreRow
  <1> QED
    BY <1>2, <1>6, <1>7 DEF KeepsSettled

LEMMA SettledByDecision ==
  ASSUME IInv, NEW w \in DOMAIN withdrawals,
         ApproveWithdrawal(w) \/ RejectWithdrawal(w)
  PROVE  KeepsSettled
  <1>1. withdrawals[w].status \notin {"completed", "failed"} /\ UNCHANGED deposits
    BY DEF ApproveWithdrawal, CanApprove, RejectWithdrawal, CanReject
  <1>2. \A i \in DOMAIN withdrawals : i # w => withdrawals'[i] = withdrawals[i]
    BY DEF ApproveWithdrawal, RejectWithdrawal
  <1>3. \A r \in DOMAIN ledger : r \in DOMAIN ledger' /\ ledger'[r] = ledger[r]
    BY DEF ApproveWithdrawal, RejectWithdrawal, WithRow
  <1> QED
    BY <1>1, <1>2, <1>3 DEF KeepsSettled

LEMMA StepSettles == IInv /\ [Next]_vars => [KeepsSettled]_vars
  <1> SUFFICES ASSUME IInv, Next PROVE KeepsSettled
    OBVIOUS
  <1>1. ASSUME UNCHANGED <<deposits, withdrawals, ledger>>
        PROVE  KeepsSettled
    BY <1>1 DEF KeepsSettled
  <1>2. CASE UserStep
    <2>1. ASSUME NEW u \in Users, SetTransactionPin(u)
          PROVE  KeepsSettled
      BY <1>1, <2>1 DEF SetTransactionPin
    <2>2. ASSUME NEW u \in Users, NEW a \in Amounts, InitiateNgnDeposit(u, a)
          PROVE  KeepsSettled
      BY <2>2, SettledByNewDeposit, FundingAssumption
      DEF InitiateNgnDeposit, Currencies, DepositStatus
    <2>3. ASSUME NEW u \in Users, NEW a \in Amounts, NEW c \in Foreign,
                 SubmitForeignDeposit(u, c, a)
          PROVE  KeepsSettled
      BY <2>3, SettledByNewDeposit, FundingAssumption
      DEF SubmitForeignDeposit, Currencies, DepositStatus
    <2>4. ASSUME NEW u \in Users, NEW d \in DOMAIN deposits, CancelDeposit(u, d)
          PROVE  KeepsSettled
      BY <2>4, SettledByStatus DEF CancelDeposit
    <2> QED
      BY <1>2, <2>1, <2>2, <2>3, <2>4, SettledByRequest DEF UserStep
  <1>3. CASE BankStep
    <2>1. ASSUME NEW h \in Deliveries, WebhookCredits(h)
          PROVE  KeepsSettled
      <3>1. handling[h] \in DOMAIN deposits
        BY <2>1 DEF IInv, HandledPaid, WebhookCredits
      <3> QED
        BY <2>1, <3>1, SettledByCredit DEF WebhookCredits
    <2> QED
      BY <1>1, <1>3, <2>1
      DEF BankStep, InitiateNgnDepositRollsBack, Pay, WebhookReads, WebhookFails
  <1>4. CASE AdminStep
    <2>1. ASSUME NEW d \in DOMAIN deposits,
                 ApproveDeposit(d) \/ VerifyFlutterwaveDeposit(d)
          PROVE  KeepsSettled
      BY <2>1, SettledByCredit DEF ApproveDeposit, VerifyFlutterwaveDeposit
    <2>2. ASSUME NEW d \in DOMAIN deposits, RejectDeposit(d)
          PROVE  KeepsSettled
      BY <2>2, SettledByStatus DEF RejectDeposit
    <2> QED
      BY <1>4, <2>1, <2>2, SettledByDecision DEF AdminStep
  <1>5. ASSUME NEW d \in DOMAIN deposits, PassDepositWindow(d)
        PROVE  KeepsSettled
    BY <1>5 DEF KeepsSettled, PassDepositWindow
  <1>6. ASSUME NEW S, DepositExpiryJob(S)
        PROVE  KeepsSettled
    BY <1>6 DEF KeepsSettled, DepositExpiryJob, StaleDeposits
  <1> QED
    BY <1>2, <1>3, <1>4, <1>5, <1>6 DEF Next, ClockStep, Jobs

\* Nothing undoes a credited deposit or a decided withdrawal, and the ledger
\* only grows.
THEOREM SettledForGood == Spec => SettledStays
  BY Invariant, StepSettles, PTL DEF Spec, SettledStays
=============================================================================

------------------------------- MODULE Wallets -------------------------------
(***************************************************************************)
(* services/walletService.ts: the only code that changes a wallet row.     *)
(*                                                                         *)
(* A wallet row has an available balance and a locked balance, counted in  *)
(* hundredths of the currency (numeric(18,2) columns).  Each method of     *)
(* WalletService is a pair: Can...(w, ...) holds when the method returns   *)
(* instead of throwing, and the operator of the method's name is the       *)
(* contents of the wallets table after it.  A method that throws aborts    *)
(* the transaction of its caller, so a handler of the model takes its step *)
(* only when every method it calls returns.                                *)
(*                                                                         *)
(* The methods read their rows FOR UPDATE and hold them to the end of the  *)
(* transaction, which is why a handler may be one step of the model.  The  *)
(* ledger rows and the references they number are left to other modules.   *)
(***************************************************************************)
EXTENDS Integers

CONSTANTS
  Users,     \* accounts of the platform
  NGN,       \* the quote currency
  Foreign    \* GBP, USD, CAD: the currencies that are traded against it

ASSUME WalletsAssumption == NGN \notin Foreign

Currencies == Foreign \cup {NGN}

\* A wallet per user and currency: UNIQUE (user_id, currency).
Accounts == Users \X Currencies

WalletRow == [balance : Nat, locked : Nat]

WalletTable == [Accounts -> WalletRow]

-----------------------------------------------------------------------------
\* assertNonNegative: every method refuses a zero or negative amount.
Positive(a) == a > 0

\* As CanDebit, without the check of the available balance.
CanDebitUnchecked(w, u, c, a) == Positive(a)

CanDebit(w, u, c, a) == Positive(a) /\ w[<<u, c>>].balance >= a

CanCredit(w, u, c, a) == Positive(a)

\* As CanLock, without the check of the available balance.
CanLockUnchecked(w, u, c, a) == Positive(a)

CanLock(w, u, c, a) == Positive(a) /\ w[<<u, c>>].balance >= a

CanUnlock(w, u, c, a) == Positive(a) /\ w[<<u, c>>].locked >= a

CanTransferFromLocked(w, from, to, c, a) ==
  Positive(a) /\ w[<<from, c>>].locked >= a

-----------------------------------------------------------------------------
Credit(w, u, c, a) == [w EXCEPT ![<<u, c>>].balance = @ + a]

Debit(w, u, c, a) == [w EXCEPT ![<<u, c>>].balance = @ - a]

\* As Lock, but the amount stays available: the update of "balance" is lost.
LockKeepingBalance(w, u, c, a) == [w EXCEPT ![<<u, c>>].locked = @ + a]

Lock(w, u, c, a) ==
  [w EXCEPT ![<<u, c>>] = [balance |-> @.balance - a, locked |-> @.locked + a]]

Unlock(w, u, c, a) ==
  [w EXCEPT ![<<u, c>>] = [balance |-> @.balance + a, locked |-> @.locked - a]]

\* The locked amount leaves the sender's wallet for good and arrives in the
\* receiver's available balance.
TransferFromLocked(w, from, to, c, a) ==
  [w EXCEPT ![<<from, c>>] = [balance |-> @.balance, locked |-> @.locked - a],
            ![<<to, c>>] = [balance |-> @.balance + a, locked |-> @.locked]]
=============================================================================

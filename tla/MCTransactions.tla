--------------------------- MODULE MCTransactions ---------------------------
(***************************************************************************)
(* Small instances of Transactions for TLC: two users with a wallet in     *)
(* naira and one in pounds, and the TXN sequence.                          *)
(***************************************************************************)
EXTENDS Transactions, TLC

CONSTANTS aNgn, aGbp, bNgn, bGbp, TXN, r1, r2, r3

MCOpening == [w \in Accounts |-> 1]

\* Settlements and conversions in opposite directions, a credit that draws a
\* reference, and a request that opens a transaction within another.
MCPrograms ==
  r1 :> {SettleTrade(aNgn, bNgn, bGbp, aGbp, 1, 1), Convert(aNgn, aGbp, 2, 1, TXN)}
  @@ r2 :> {SettleTrade(bNgn, aNgn, aGbp, bGbp, 1, 1), Convert(aGbp, aNgn, 1, 1, TXN)}
  @@ r3 :> {ChangeBalance(aNgn, 1, TXN), ChangeBalanceFor(aGbp, 2), TransactionWithin}
=============================================================================

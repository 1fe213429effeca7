--------------------------- MODULE EscrowTheorems ---------------------------
(***************************************************************************)
(* Theorems about module Escrow, for every number of users, listings,      *)
(* trades and bids, every amount and every price.                          *)
(***************************************************************************)
EXTENDS Escrow, TableTheorems

(***************************************************************************)
(* The inductive invariant.  Beside the types it needs that rows refer to  *)
(* rows that exist (nothing is ever deleted), that nobody trades with      *)
(* himself, and that the disputes agree with the trades: otherwise a trade *)
(* in escrow might already have a dispute, and completing it would look    *)
(* like an award.                                                          *)
(***************************************************************************)
Related ==
  /\ DOMAIN disputes \subseteq DOMAIN trades
  /\ \A t \in DOMAIN trades : trades[t].sabit \in DOMAIN sabits
  /\ \A b \in DOMAIN bids : bids[b].sabit \in DOMAIN sabits

Parties ==
  /\ \A t \in DOMAIN trades : trades[t].buyer # trades[t].seller
  /\ \A b \in DOMAIN bids : bids[b].buyer # bids[b].seller

IInv == TypeOK /\ Related /\ Parties /\ DisputesAgree

HoldingsOf(w) == [acc \in Accounts |-> w[acc].balance + w[acc].locked]

-----------------------------------------------------------------------------
(***************************************************************************)
(* Wallets.                                                                *)
(***************************************************************************)
\* WalletService.lock keeps the table well typed and the holdings what they
\* were.
LEMMA LockEffect ==
  ASSUME NEW w \in WalletTable, NEW u \in Users, NEW c \in Currencies,
         NEW a \in Nat, CanLock(w, u, c, a)
  PROVE  /\ Lock(w, u, c, a) \in WalletTable
         /\ HoldingsOf(Lock(w, u, c, a)) = HoldingsOf(w)
  <1> DEFINE acc == <<u, c>>
             row == [balance |-> w[acc].balance - a, locked |-> w[acc].locked + a]
  <1>1. acc \in Accounts /\ w[acc] \in WalletRow /\ w[acc].balance >= a
    BY DEF Accounts, WalletTable, CanLock
  <1>2. row \in WalletRow /\ row.balance + row.locked = w[acc].balance + w[acc].locked
    BY <1>1 DEF WalletRow
  <1>3. Lock(w, u, c, a) = [w EXCEPT ![acc] = row]
    BY <1>1 DEF Lock, WalletTable, WalletRow
  <1> HIDE DEF row
  <1> QED
    BY <1>1, <1>2, <1>3 DEF WalletTable, HoldingsOf

\* WalletService.unlock likewise.
LEMMA UnlockEffect ==
  ASSUME NEW w \in WalletTable, NEW u \in Users, NEW c \in Currencies,
         NEW a \in Nat, CanUnlock(w, u, c, a)
  PROVE  /\ Unlock(w, u, c, a) \in WalletTable
         /\ HoldingsOf(Unlock(w, u, c, a)) = HoldingsOf(w)
  <1> DEFINE acc == <<u, c>>
             row == [balance |-> w[acc].balance + a, locked |-> w[acc].locked - a]
  <1>1. acc \in Accounts /\ w[acc] \in WalletRow /\ w[acc].locked >= a
    BY DEF Accounts, WalletTable, CanUnlock
  <1>2. row \in WalletRow /\ row.balance + row.locked = w[acc].balance + w[acc].locked
    BY <1>1 DEF WalletRow
  <1>3. Unlock(w, u, c, a) = [w EXCEPT ![acc] = row]
    BY <1>1 DEF Unlock, WalletTable, WalletRow
  <1> HIDE DEF row
  <1> QED
    BY <1>1, <1>2, <1>3 DEF WalletTable, HoldingsOf

\* WalletService.transferFromLocked moves the amount from one user's holdings
\* to another's.
LEMMA TransferEffect ==
  ASSUME NEW w \in WalletTable, NEW from \in Users, NEW to \in Users, from # to,
         NEW c \in Currencies, NEW a \in Nat, CanTransferFromLocked(w, from, to, c, a)
  PROVE  /\ TransferFromLocked(w, from, to, c, a) \in WalletTable
         /\ HoldingsOf(TransferFromLocked(w, from, to, c, a))
              = [HoldingsOf(w) EXCEPT ![<<from, c>>] = @ - a, ![<<to, c>>] = @ + a]
         /\ a > 0 /\ HoldingsOf(w)[<<from, c>>] >= a
  <1> DEFINE f == <<from, c>>
             t == <<to, c>>
             frow == [balance |-> w[f].balance, locked |-> w[f].locked - a]
             trow == [balance |-> w[t].balance + a, locked |-> w[t].locked]
             v == TransferFromLocked(w, from, to, c, a)
             h == HoldingsOf(w)
  <1>1. /\ f \in Accounts /\ t \in Accounts /\ f # t
        /\ w[f] \in WalletRow /\ w[t] \in WalletRow /\ w[f].locked >= a /\ a > 0
    BY DEF Accounts, WalletTable, CanTransferFromLocked, Positive
  <1>2. /\ frow \in WalletRow
        /\ frow.balance + frow.locked = w[f].balance + w[f].locked - a
        /\ trow \in WalletRow
        /\ trow.balance + trow.locked = w[t].balance + w[t].locked + a
        /\ w[f].balance + w[f].locked >= a
    BY <1>1 DEF WalletRow
  <1>3. v = [w EXCEPT ![f] = frow, ![t] = trow]
    BY <1>1 DEF TransferFromLocked, WalletTable, WalletRow
  <1>4. h = [acc \in Accounts |-> w[acc].balance + w[acc].locked]
    BY DEF HoldingsOf
  <1>5. HoldingsOf(v) = [acc \in Accounts |-> v[acc].balance + v[acc].locked]
    BY DEF HoldingsOf
  <1> HIDE DEF frow, trow, v, h, f, t
  <1>6. v \in WalletTable
    BY <1>1, <1>2, <1>3 DEF WalletTable
  <1>7. HoldingsOf(v) = [h EXCEPT ![f] = @ - a, ![t] = @ + a]
    <2>1. v[f] = frow /\ v[t] = trow /\ \A acc \in Accounts \ {f, t} : v[acc] = w[acc]
      BY <1>1, <1>3 DEF WalletTable
    <2>2. /\ HoldingsOf(v)[f] = h[f] - a /\ HoldingsOf(v)[t] = h[t] + a
          /\ \A acc \in Accounts \ {f, t} : HoldingsOf(v)[acc] = h[acc]
      <3>1. /\ HoldingsOf(v)[f] = frow.balance + frow.locked
            /\ HoldingsOf(v)[t] = trow.balance + trow.locked
            /\ h[f] = w[f].balance + w[f].locked /\ h[t] = w[t].balance + w[t].locked
        BY <1>1, <1>4, <1>5, <2>1
      <3>2. \A acc \in Accounts \ {f, t} : HoldingsOf(v)[acc] = h[acc]
        BY <1>4, <1>5, <2>1
      <3>3. HoldingsOf(v)[f] = h[f] - a
        BY <1>1, <1>2, <3>1 DEF WalletRow
      <3>4. HoldingsOf(v)[t] = h[t] + a
        BY <1>1, <1>2, <3>1 DEF WalletRow
      <3> QED
        BY <3>2, <3>3, <3>4
    <2> QED
      BY <1>1, <1>4, <1>5, <2>2
  <1> QED
    BY <1>1, <1>2, <1>4, <1>6, <1>7 DEF v, h, f, t

-----------------------------------------------------------------------------
(***************************************************************************)
(* Money and tables.                                                       *)
(***************************************************************************)
LEMMA DivisionIsNat ==
  ASSUME NEW n \in Nat, NEW d \in Nat \ {0}
  PROVE  n \div d \in Nat
  BY Z3

\* toFixed(2) of a product of natural numbers is a natural number.
LEMMA NgnValueIsNat ==
  ASSUME NEW a \in Nat, NEW r \in Nat
  PROVE  NgnValue(a, r) \in Nat
  <1>1. Cents \in Nat \ {0}
    BY EscrowAssumption
  <1>2. Cents \div 2 \in Nat
    BY <1>1, DivisionIsNat
  <1>3. a * r + Cents \div 2 \in Nat
    BY <1>2
  <1> QED
    BY <1>1, <1>3, DivisionIsNat DEF NgnValue

\* What locks for a listing is an amount of a currency.
LEMMA HoldsAreNat ==
  ASSUME NEW l \in SabitRow, NEW a \in Nat
  PROVE  /\ OwnerHold(l, a) \in Nat /\ OwnerCurrency(l) \in Currencies
         /\ TakerHold(l, a) \in Nat /\ TakerCurrency(l) \in Currencies
  BY NgnValueIsNat
  DEF SabitRow, OwnerHold, OwnerCurrency, TakerHold, TakerCurrency, Currencies

LEMMA UpdateEffect ==
  ASSUME NEW table, NEW ids, NEW rows, IsTable(table, ids, rows),
         NEW i \in DOMAIN table, NEW row \in rows
  PROVE  /\ IsTable([table EXCEPT ![i] = row], ids, rows)
         /\ DOMAIN [table EXCEPT ![i] = row] = DOMAIN table
         /\ [table EXCEPT ![i] = row][i] = row
         /\ \A j \in DOMAIN table \ {i} : [table EXCEPT ![i] = row][j] = table[j]
  BY DEF IsTable

\* The sum of a column of natural numbers over any rows of a table.
LEMMA ColumnSumIsNat ==
  ASSUME NEW table, NEW ids, NEW rows, IsTable(table, ids, rows), IsFiniteSet(ids),
         NEW field, \A row \in rows : row[field] \in Nat,
         NEW S \in SUBSET (DOMAIN table)
  PROVE  Total(Column(table, field), S) \in Nat
  <1>1. IsFiniteSet(S)
    BY FS_Subset DEF IsTable
  <1>2. NatOn(Column(table, field), S)
    BY DEF NatOn, Column, IsTable
  <1> QED
    BY <1>1, <1>2, TotalIsNat

-----------------------------------------------------------------------------
(***************************************************************************)
(* Settlements.                                                            *)
(***************************************************************************)
\* The terms of a trade or a bid, as the contract sees them.
Terms(x) ==
  /\ x.buyer \in Users /\ x.seller \in Users /\ x.buyer # x.seller
  /\ x.currency \in Foreign
  /\ x.amount \in Nat /\ x.total \in Nat

\* Paying out the buyer's locked NGN is the contract's Pay.
LEMMA NgnEffect ==
  ASSUME NEW w \in WalletTable, NEW x, Terms(x), NEW state,
         CanTransferFromLocked(w, x.buyer, x.seller, NGN, x.total)
  PROVE  /\ AfterNgn(w, x) \in WalletTable
         /\ HoldingsOf(AfterNgn(w, x)) = Contract!Pay(HoldingsOf(w), AsDeal(x, state))
         /\ Contract!CanPay(HoldingsOf(w), AsDeal(x, state))
  <1>1. NGN \in Currencies
    BY DEF Currencies
  <1>2. /\ AfterNgn(w, x) \in WalletTable
        /\ HoldingsOf(AfterNgn(w, x))
             = [HoldingsOf(w) EXCEPT ![<<x.buyer, NGN>>] = @ - x.total,
                                     ![<<x.seller, NGN>>] = @ + x.total]
        /\ x.total > 0 /\ HoldingsOf(w)[<<x.buyer, NGN>>] >= x.total
    BY <1>1, TransferEffect DEF Terms, AfterNgn
  <1> QED
    BY <1>2 DEF AsDeal, Contract!Pay, Contract!CanPay

\* Both transfers are the contract's Swap.
LEMMA SettleEffect ==
  ASSUME NEW w \in WalletTable, NEW x, Terms(x), NEW state, CanSettle(w, x)
  PROVE  /\ Settle(w, x) \in WalletTable
         /\ HoldingsOf(Settle(w, x)) = Contract!Swap(HoldingsOf(w), AsDeal(x, state))
         /\ Contract!CanSwap(HoldingsOf(w), AsDeal(x, state))
  <1> DEFINE v == AfterNgn(w, x)
             b == <<x.buyer, x.currency>>
             s == <<x.seller, x.currency>>
  <1>1. /\ v \in WalletTable
        /\ HoldingsOf(v) = Contract!Pay(HoldingsOf(w), AsDeal(x, state))
        /\ Contract!CanPay(HoldingsOf(w), AsDeal(x, state))
    BY NgnEffect DEF CanSettle
  <1>2. x.currency \in Currencies /\ x.currency # NGN
    BY WalletsAssumption DEF Terms, Currencies
  <1>3. /\ Settle(w, x) \in WalletTable
        /\ HoldingsOf(Settle(w, x))
             = [HoldingsOf(v) EXCEPT ![s] = @ - x.amount, ![b] = @ + x.amount]
        /\ x.amount > 0 /\ HoldingsOf(v)[s] >= x.amount
    BY <1>1, <1>2, TransferEffect DEF Terms, CanSettle, Settle
  <1>4. s \in Accounts /\ HoldingsOf(v)[s] = HoldingsOf(w)[s]
    <2>1. s \in Accounts
      BY <1>2 DEF Terms, Accounts
    <2>2. HoldingsOf(w) = [acc \in Accounts |-> HoldingsOf(w)[acc]]
      BY DEF HoldingsOf
    <2> QED
      BY <1>1, <1>2, <2>1, <2>2 DEF Contract!Pay, AsDeal
  <1> QED
    BY <1>1, <1>3, <1>4 DEF AsDeal, Contract!Swap, Contract!CanSwap

-----------------------------------------------------------------------------
(***************************************************************************)
(* The invariant, action by action; and what the action does to what       *)
(* people own.                                                             *)
(***************************************************************************)
LEMMA HoldingsAreOf == Holdings = HoldingsOf(wallets) /\ Holdings' = HoldingsOf(wallets')
  BY DEF Holdings, HoldingsOf

LEMMA InitInv == Init => IInv
  <1> SUFFICES ASSUME Init PROVE IInv
    OBVIOUS
  <1>1. wallets \in WalletTable
    BY EscrowAssumption DEF Init, WalletTable, WalletRow
  <1>2. \A ids, rows : IsTable(<< >>, ids, rows)
    BY DEF IsTable
  <1> QED
    BY <1>1, <1>2 DEF Init, IInv, TypeOK, Related, Parties, DisputesAgree

LEMMA SetTransactionPinStep ==
  ASSUME IInv, NEW u \in Users, SetTransactionPin(u)
  PROVE  IInv'
  BY DEF IInv, SetTransactionPin, TypeOK, IsTable, Related, Parties, DisputesAgree, Open

LEMMA CreateSabitStep ==
  ASSUME IInv, NEW u \in Users, NEW s \in SabitIds, NEW type \in ListingTypes,
         NEW c \in Foreign, NEW a \in Amounts, NEW r \in Rates,
         CreateSabit(u, s, type, c, a, r)
  PROVE  IInv' /\ Holdings' = Holdings
  <1> DEFINE l == [user |-> u, type |-> type, currency |-> c, amount |-> a,
                   available |-> a, rate |-> r, status |-> "active"]
  <1>1. l \in SabitRow /\ a \in Nat
    BY EscrowAssumption DEF SabitRow
  <1>2. /\ CanLock(wallets, u, OwnerCurrency(l), OwnerHold(l, a))
        /\ wallets' = Lock(wallets, u, OwnerCurrency(l), OwnerHold(l, a))
        /\ sabits' = Insert(sabits, s, l)
        /\ UNCHANGED <<pinSet, trades, bids, disputes>>
    BY DEF CreateSabit
  <1> HIDE DEF l
  <1>3. wallets' \in WalletTable /\ HoldingsOf(wallets') = HoldingsOf(wallets)
    BY <1>1, <1>2, HoldsAreNat, LockEffect DEF IInv, TypeOK
  <1>4. IsTable(sabits', SabitIds, SabitRow) /\ DOMAIN sabits' = DOMAIN sabits \cup {s}
    BY <1>1, <1>2 DEF Insert, IsTable, IInv, TypeOK
  <1> QED
    BY <1>2, <1>3, <1>4, HoldingsAreOf
    DEF IInv, TypeOK, IsTable, Related, Parties, DisputesAgree, Open

LEMMA CancelSabitStep ==
  ASSUME IInv, NEW u \in Users, NEW s \in SabitIds, CancelSabit(u, s)
  PROVE  IInv' /\ Holdings' = Holdings
  <1> DEFINE l == sabits[s]
             k == [l EXCEPT !.status = "cancelled", !.available = 0]
  <1>1. s \in DOMAIN sabits /\ l \in SabitRow /\ k \in SabitRow
    BY DEF CancelSabit, IInv, TypeOK, IsTable, SabitRow
  <1>2. sabits' = [sabits EXCEPT ![s] = k]
    BY <1>1 DEF CancelSabit, SabitRow, IInv, TypeOK, IsTable
  <1>3. l.available \in Nat
    BY <1>1 DEF SabitRow
  <1>4. wallets' \in WalletTable /\ HoldingsOf(wallets') = HoldingsOf(wallets)
    BY <1>1, <1>3, HoldsAreNat, UnlockEffect DEF CancelSabit, IInv, TypeOK
  <1> HIDE DEF l, k
  <1>5. IsTable(sabits', SabitIds, SabitRow) /\ DOMAIN sabits' = DOMAIN sabits
    BY <1>1, <1>2, UpdateEffect DEF IInv, TypeOK
  <1> QED
    BY <1>4, <1>5, HoldingsAreOf
    DEF CancelSabit, IInv, TypeOK, IsTable, Related, Parties, DisputesAgree, Open

LEMMA InitiateTradeStep ==
  ASSUME IInv, NEW u \in Users, NEW s \in SabitIds, NEW t \in TradeIds,
         NEW a \in Amounts, InitiateTrade(u, s, t, a)
  PROVE  IInv' /\ Holdings' = Holdings
  <1> DEFINE l == sabits[s]
             x == [sabit |-> s,
                   buyer |-> IF l.type = "SELL" THEN u ELSE l.user,
                   seller |-> IF l.type = "SELL" THEN l.user ELSE u,
                   currency |-> l.currency, amount |-> a,
                   total |-> NgnValue(a, l.rate),
                   status |-> "escrowed", expired |-> FALSE]
  <1>1. s \in DOMAIN sabits /\ l \in SabitRow /\ a \in Nat /\ l.available >= a
    BY EscrowAssumption DEF InitiateTrade, IInv, TypeOK, IsTable
  <1>2. NgnValue(a, l.rate) \in Nat
    BY <1>1, NgnValueIsNat DEF SabitRow
  <1>3. /\ x \in TradeRow /\ x.buyer # x.seller /\ x.sabit = s
        /\ x.status = "escrowed"
    BY <1>1, <1>2 DEF InitiateTrade, TradeRow, SabitRow, TradeStatus
  <1>4. Take(l, a) \in SabitRow
    <2>1. l.available - a \in Nat
      BY <1>1 DEF SabitRow
    <2> QED
      BY <1>1, <2>1 DEF Take, SabitRow
  <1>5. wallets' \in WalletTable /\ HoldingsOf(wallets') = HoldingsOf(wallets)
    BY <1>1, HoldsAreNat, LockEffect DEF InitiateTrade, IInv, TypeOK
  <1>6. /\ t \notin DOMAIN trades /\ trades' = Insert(trades, t, x)
        /\ sabits' = [sabits EXCEPT ![s] = Take(l, a)]
        /\ UNCHANGED <<pinSet, bids, disputes>>
    BY DEF InitiateTrade
  <1> HIDE DEF x, l
  <1>7. IsTable(sabits', SabitIds, SabitRow) /\ DOMAIN sabits' = DOMAIN sabits
    BY <1>1, <1>4, <1>6, UpdateEffect DEF IInv, TypeOK
  <1>8. /\ IsTable(trades', TradeIds, TradeRow)
        /\ DOMAIN trades' = DOMAIN trades \cup {t} /\ trades'[t] = x
        /\ \A j \in DOMAIN trades : trades'[j] = trades[j]
    BY <1>3, <1>6 DEF Insert, IsTable, IInv, TypeOK
  <1>9. TypeOK'
    BY <1>5, <1>6, <1>7, <1>8 DEF IInv, TypeOK, IsTable
  <1>10. Related' /\ Parties'
    BY <1>1, <1>3, <1>6, <1>7, <1>8 DEF IInv, Related, Parties
  <1>11. DisputesAgree'
    BY <1>3, <1>6, <1>8 DEF IInv, Related, DisputesAgree, Open
  <1> QED
    BY <1>5, <1>9, <1>10, <1>11, HoldingsAreOf DEF IInv

LEMMA PassPinWindowStep ==
  ASSUME IInv, NEW t \in TradeIds, PassPinWindow(t)
  PROVE  IInv' /\ Holdings' = Holdings
  <1> DEFINE y == [trades[t] EXCEPT !.expired = TRUE]
  <1>1. t \in DOMAIN trades /\ trades[t] \in TradeRow
    BY DEF PassPinWindow, IInv, TypeOK, IsTable
  <1>2. /\ y \in TradeRow /\ y.buyer = trades[t].buyer /\ y.seller = trades[t].seller
        /\ y.sabit = trades[t].sabit /\ y.status = trades[t].status
    BY <1>1 DEF TradeRow
  <1>3. /\ trades' = [trades EXCEPT ![t] = y]
        /\ UNCHANGED <<wallets, pinSet, sabits, bids, disputes>>
    BY DEF PassPinWindow
  <1> HIDE DEF y
  <1>4. /\ IsTable(trades', TradeIds, TradeRow) /\ DOMAIN trades' = DOMAIN trades
        /\ \A i \in DOMAIN trades :
             /\ trades'[i].buyer = trades[i].buyer /\ trades'[i].seller = trades[i].seller
             /\ trades'[i].sabit = trades[i].sabit
             /\ trades'[i].status = trades[i].status
    BY <1>1, <1>2, <1>3 DEF IInv, TypeOK, IsTable
  <1>5. TypeOK'
    BY <1>3, <1>4 DEF IInv, TypeOK, IsTable
  <1>6. Related' /\ Parties'
    BY <1>3, <1>4 DEF IInv, Related, Parties
  <1>7. DisputesAgree'
    BY <1>3, <1>4 DEF IInv, DisputesAgree, Open
  <1> QED
    BY <1>3, <1>5, <1>6, <1>7 DEF IInv, Holdings

\* A trade changes its status and nothing else.
LEMMA TradeMoves ==
  ASSUME IInv, NEW t \in DOMAIN trades, NEW status \in TradeStatus,
         trades' = [trades EXCEPT ![t].status = status]
  PROVE  /\ IsTable(trades', TradeIds, TradeRow)
         /\ DOMAIN trades' = DOMAIN trades /\ trades'[t].status = status
         /\ \A i \in DOMAIN trades :
              /\ trades'[i].buyer = trades[i].buyer /\ trades'[i].seller = trades[i].seller
              /\ trades'[i].sabit = trades[i].sabit
              /\ trades'[i].currency = trades[i].currency
              /\ trades'[i].amount = trades[i].amount /\ trades'[i].total = trades[i].total
              /\ i # t => trades'[i].status = trades[i].status
  <1> DEFINE y == [trades[t] EXCEPT !.status = status]
  <1>1. trades[t] \in TradeRow
    BY DEF IInv, TypeOK, IsTable
  <1>2. /\ y \in TradeRow /\ y.buyer = trades[t].buyer /\ y.seller = trades[t].seller
        /\ y.sabit = trades[t].sabit /\ y.currency = trades[t].currency
        /\ y.amount = trades[t].amount /\ y.total = trades[t].total /\ y.status = status
    BY <1>1 DEF TradeRow
  <1>3. trades' = [trades EXCEPT ![t] = y]
    OBVIOUS
  <1> HIDE DEF y
  <1> QED
    BY <1>2, <1>3 DEF IInv, TypeOK, IsTable

LEMMA TradeTerms ==
  ASSUME IInv, NEW t \in DOMAIN trades
  PROVE  Terms(trades[t])
  BY DEF IInv, TypeOK, IsTable, Parties, Terms, TradeRow

LEMMA BidTerms ==
  ASSUME IInv, NEW b \in DOMAIN bids
  PROVE  Terms(bids[b])
  BY DEF IInv, TypeOK, IsTable, Parties, Terms, BidRow

LEMMA SellerConfirmTradeStep ==
  ASSUME IInv, NEW u \in Users, NEW t \in TradeIds, SellerConfirmTrade(u, t)
  PROVE  IInv'
  <1>1. /\ t \in DOMAIN trades /\ CanSettle(wallets, trades[t])
        /\ trades[t].status = "escrowed"
        /\ wallets' = Settle(wallets, trades[t])
        /\ trades' = [trades EXCEPT ![t].status = "completed"]
        /\ UNCHANGED <<pinSet, sabits, bids, disputes>>
    BY DEF SellerConfirmTrade
  <1>2. wallets' \in WalletTable
    BY <1>1, TradeTerms, SettleEffect DEF IInv, TypeOK
  <1>3. "completed" \in TradeStatus
    BY DEF TradeStatus
  <1>4. /\ IsTable(trades', TradeIds, TradeRow)
        /\ DOMAIN trades' = DOMAIN trades /\ trades'[t].status = "completed"
        /\ \A i \in DOMAIN trades :
             /\ trades'[i].buyer = trades[i].buyer /\ trades'[i].seller = trades[i].seller
             /\ trades'[i].sabit = trades[i].sabit
             /\ i # t => trades'[i].status = trades[i].status
    BY <1>1, <1>3, TradeMoves
  <1>5. TypeOK'
    BY <1>1, <1>2, <1>4 DEF IInv, TypeOK, IsTable
  <1>6. Related' /\ Parties'
    BY <1>1, <1>4 DEF IInv, Related, Parties
  <1>7. DisputesAgree'
    BY <1>1, <1>4 DEF IInv, DisputesAgree, Open
  <1> QED
    BY <1>5, <1>6, <1>7 DEF IInv

LEMMA PinExpiryJobStep ==
  ASSUME IInv, NEW S \in SUBSET TradeIds, PinExpiryJob(S)
  PROVE  IInv' /\ Holdings' = Holdings
  <1>1. /\ S \subseteq DOMAIN trades
        /\ \A t \in S : trades[t].status \in {"escrowed", "initiated"}
        /\ trades' = SetStatus(trades, S, "cancelled")
        /\ sabits' = [s \in DOMAIN sabits |-> Restored(s, S)]
        /\ UNCHANGED <<wallets, pinSet, bids, disputes>>
    BY DEF PinExpiryJob, ExpiredTrades
  <1>2. IsTable(sabits', SabitIds, SabitRow) /\ DOMAIN sabits' = DOMAIN sabits
    <2>1. ASSUME NEW s \in DOMAIN sabits
          PROVE  Restored(s, S) \in SabitRow
      <3> DEFINE n == Total(Column(trades, "amount"), {t \in S : trades[t].sabit = s})
      <3>1. n \in Nat
        <4>1. IsTable(trades, TradeIds, TradeRow) /\ IsFiniteSet(TradeIds)
          BY EscrowAssumption DEF IInv, TypeOK
        <4>2. \A row \in TradeRow : row["amount"] \in Nat
          BY DEF TradeRow
        <4>3. {t \in S : trades[t].sabit = s} \in SUBSET DOMAIN trades
          BY <1>1
        <4> QED
          BY <4>1, <4>2, <4>3, ColumnSumIsNat
      <3>2. sabits[s] \in SabitRow
        BY DEF IInv, TypeOK, IsTable
      <3> HIDE DEF n
      <3>3. sabits[s].available + n \in Nat
        BY <3>1, <3>2 DEF SabitRow
      <3> QED
        BY <3>2, <3>3 DEF Restored, SabitRow, n
    <2> QED
      BY <1>1, <2>1 DEF IInv, TypeOK, IsTable
  <1>3. /\ IsTable(trades', TradeIds, TradeRow) /\ DOMAIN trades' = DOMAIN trades
        /\ \A i \in DOMAIN trades :
             /\ trades'[i].buyer = trades[i].buyer /\ trades'[i].seller = trades[i].seller
             /\ trades'[i].sabit = trades[i].sabit
             /\ i \in S => trades'[i].status = "cancelled"
             /\ i \notin S => trades'[i].status = trades[i].status
    BY <1>1 DEF SetStatus, IInv, TypeOK, IsTable, TradeRow, TradeStatus
  <1>4. TypeOK'
    BY <1>1, <1>2, <1>3 DEF IInv, TypeOK, IsTable
  <1>5. Related' /\ Parties'
    BY <1>1, <1>2, <1>3 DEF IInv, Related, Parties
  <1>6. DisputesAgree'
    BY <1>1, <1>3 DEF IInv, DisputesAgree, Open
  <1> QED
    BY <1>1, <1>4, <1>5, <1>6 DEF IInv, Holdings

LEMMA RaiseDisputeStep ==
  ASSUME IInv, NEW u \in Users, NEW t \in TradeIds, RaiseDispute(u, t)
  PROVE  IInv' /\ Holdings' = Holdings
  <1>1. /\ t \in DOMAIN trades /\ trades[t].status \in {"escrowed", "confirmed"}
        /\ trades' = [trades EXCEPT ![t].status = "disputed"]
        /\ disputes' = Insert(disputes, t, "open")
        /\ UNCHANGED <<wallets, pinSet, sabits, bids>>
    BY DEF RaiseDispute
  <1>2. "disputed" \in TradeStatus
    BY DEF TradeStatus
  <1>3. /\ IsTable(trades', TradeIds, TradeRow)
        /\ DOMAIN trades' = DOMAIN trades /\ trades'[t].status = "disputed"
        /\ \A i \in DOMAIN trades :
             /\ trades'[i].buyer = trades[i].buyer /\ trades'[i].seller = trades[i].seller
             /\ trades'[i].sabit = trades[i].sabit
             /\ i # t => trades'[i].status = trades[i].status
    BY <1>1, <1>2, TradeMoves
  <1>4. /\ IsTable(disputes', TradeIds, {"open", "resolved"})
        /\ DOMAIN disputes' = DOMAIN disputes \cup {t} /\ disputes'[t] = "open"
        /\ \A i \in DOMAIN disputes \ {t} : disputes'[i] = disputes[i]
    BY <1>1 DEF Insert, IsTable, IInv, TypeOK
  <1>5. TypeOK'
    BY <1>1, <1>3, <1>4 DEF IInv, TypeOK, IsTable
  <1>6. Related' /\ Parties'
    BY <1>1, <1>3, <1>4 DEF IInv, Related, Parties
  <1>7. DisputesAgree'
    BY <1>1, <1>3, <1>4 DEF IInv, DisputesAgree, Open
  <1> QED
    BY <1>1, <1>5, <1>6, <1>7 DEF IInv, Holdings

LEMMA ResolveDisputeStep ==
  ASSUME IInv, NEW t \in TradeIds, NEW favor \in Favors, ResolveDispute(t, favor)
  PROVE  IInv'
  <1> DEFINE x == trades[t]
             l == sabits[x.sabit]
  <1>1. /\ t \in DOMAIN disputes /\ disputes[t] = "open" /\ x.status = "disputed"
        /\ t \in DOMAIN trades /\ x.sabit \in DOMAIN sabits
        /\ disputes' = [disputes EXCEPT ![t] = "resolved"]
        /\ UNCHANGED <<pinSet, bids>>
        /\ ResolveForBuyer(t) \/ ResolveForSeller(t)
    BY DEF ResolveDispute, IInv, Related
  <1>2. Terms(x)
    BY <1>1, TradeTerms
  <1>3. /\ wallets' \in WalletTable
        /\ IsTable(sabits', SabitIds, SabitRow) /\ DOMAIN sabits' = DOMAIN sabits
        /\ \/ trades' = [trades EXCEPT ![t].status = "cancelled"]
           \/ trades' = [trades EXCEPT ![t].status = "completed"]
    <2>1. CASE ResolveForBuyer(t)
      <3>1. wallets' \in WalletTable
        BY <1>2, <2>1, UnlockEffect DEF ResolveForBuyer, IInv, TypeOK, Terms, Currencies
      <3>2. l \in SabitRow /\ x.amount \in Nat
        BY <1>1, <1>2 DEF IInv, TypeOK, IsTable, Terms
      <3>3. l.available + x.amount \in Nat
        BY <3>2 DEF SabitRow
      <3>4. Reopened(l, x.amount) \in SabitRow
        BY <3>2, <3>3 DEF Reopened, SabitRow
      <3>5. sabits' = [sabits EXCEPT ![x.sabit] = Reopened(l, x.amount)]
        BY <2>1 DEF ResolveForBuyer
      <3>6. IsTable(sabits', SabitIds, SabitRow) /\ DOMAIN sabits' = DOMAIN sabits
        BY <1>1, <3>4, <3>5 DEF IsTable, IInv, TypeOK
      <3> QED
        BY <2>1, <3>1, <3>6 DEF ResolveForBuyer
    <2>2. CASE ResolveForSeller(t)
      BY <1>2, <2>2, NgnEffect DEF ResolveForSeller, IInv, TypeOK
    <2> QED
      BY <1>1, <2>1, <2>2
  <1>4. "cancelled" \in TradeStatus /\ "completed" \in TradeStatus
    BY DEF TradeStatus
  <1>5. /\ IsTable(trades', TradeIds, TradeRow) /\ DOMAIN trades' = DOMAIN trades
        /\ trades'[t].status \in {"cancelled", "completed"}
        /\ \A i \in DOMAIN trades :
             /\ trades'[i].buyer = trades[i].buyer /\ trades'[i].seller = trades[i].seller
             /\ trades'[i].sabit = trades[i].sabit
             /\ i # t => trades'[i].status = trades[i].status
    BY <1>1, <1>3, <1>4, TradeMoves
  <1>6. /\ IsTable(disputes', TradeIds, {"open", "resolved"})
        /\ DOMAIN disputes' = DOMAIN disputes /\ disputes'[t] = "resolved"
        /\ \A i \in DOMAIN disputes \ {t} : disputes'[i] = disputes[i]
    BY <1>1 DEF IInv, TypeOK, IsTable
  <1> HIDE DEF x, l
  <1>7. TypeOK'
    BY <1>1, <1>3, <1>5, <1>6 DEF IInv, TypeOK, IsTable
  <1>8. Related' /\ Parties'
    BY <1>1, <1>3, <1>5, <1>6 DEF IInv, Related, Parties
  <1>9. DisputesAgree'
    BY <1>1, <1>5, <1>6 DEF IInv, DisputesAgree, Open
  <1> QED
    BY <1>7, <1>8, <1>9 DEF IInv

\* What a step of a bid must leave in order.
LEMMA BidsStepInv ==
  ASSUME IInv, wallets' \in WalletTable, UNCHANGED <<pinSet, sabits, trades, disputes>>,
         IsTable(bids', BidIds, BidRow),
         \A b \in DOMAIN bids' : /\ bids'[b].sabit \in DOMAIN sabits
                                 /\ bids'[b].buyer # bids'[b].seller
  PROVE  IInv'
  <1>1. TypeOK'
    BY DEF IInv, TypeOK, IsTable
  <1>2. Related' /\ Parties' /\ DisputesAgree'
    BY DEF IInv, Related, Parties, DisputesAgree, Open
  <1> QED
    BY <1>1, <1>2 DEF IInv

\* Bids of S change their status and nothing else.
LEMMA BidsMove ==
  ASSUME IInv, NEW S, NEW status \in {"accepted", "rejected", "expired", "withdrawn"},
         bids' = SetStatus(bids, S, status)
  PROVE  /\ IsTable(bids', BidIds, BidRow) /\ DOMAIN bids' = DOMAIN bids
         /\ \A b \in DOMAIN bids : /\ bids'[b].sabit = bids[b].sabit
                                   /\ bids'[b].buyer = bids[b].buyer
                                   /\ bids'[b].seller = bids[b].seller
  <1>1. ASSUME NEW b \in DOMAIN bids
        PROVE  /\ bids'[b] \in BidRow /\ bids'[b].sabit = bids[b].sabit
               /\ bids'[b].buyer = bids[b].buyer /\ bids'[b].seller = bids[b].seller
    BY DEF SetStatus, IInv, TypeOK, IsTable, BidRow
  <1> QED
    BY <1>1 DEF SetStatus, IInv, TypeOK, IsTable

LEMMA PlaceBidStep ==
  ASSUME IInv, NEW u \in Users, NEW s \in SabitIds, NEW b \in BidIds,
         NEW a \in Amounts, NEW r \in Rates, PlaceBid(u, s, b, a, r)
  PROVE  IInv' /\ Holdings' = Holdings
  <1> DEFINE y == [sabit |-> s, buyer |-> u, seller |-> sabits[s].user,
                   currency |-> sabits[s].currency, amount |-> a,
                   total |-> NgnValue(a, r), expired |-> FALSE, status |-> "pending"]
  <1>1. /\ s \in DOMAIN sabits /\ sabits[s] \in SabitRow /\ sabits[s].user # u
        /\ a \in Nat /\ NgnValue(a, r) \in Nat
    BY EscrowAssumption, NgnValueIsNat DEF PlaceBid, IInv, TypeOK, IsTable
  <1>2. y \in BidRow /\ y.buyer # y.seller /\ y.sabit = s
    BY <1>1 DEF BidRow, SabitRow
  <1>3. wallets' \in WalletTable /\ HoldingsOf(wallets') = HoldingsOf(wallets)
    BY <1>1, LockEffect DEF PlaceBid, IInv, TypeOK, Currencies
  <1>4. bids' = Insert(bids, b, y) /\ UNCHANGED <<pinSet, sabits, trades, disputes>>
    BY DEF PlaceBid
  <1> HIDE DEF y
  <1>5. /\ IsTable(bids', BidIds, BidRow) /\ DOMAIN bids' = DOMAIN bids \cup {b}
        /\ bids'[b] = y /\ \A i \in DOMAIN bids \ {b} : bids'[i] = bids[i]
    BY <1>2, <1>4 DEF Insert, IsTable, IInv, TypeOK
  <1>6. \A i \in DOMAIN bids' : /\ bids'[i].sabit \in DOMAIN sabits
                                /\ bids'[i].buyer # bids'[i].seller
    BY <1>1, <1>2, <1>5 DEF IInv, Related, Parties
  <1> QED
    BY <1>3, <1>4, <1>5, <1>6, BidsStepInv, HoldingsAreOf

LEMMA PassBidWindowStep ==
  ASSUME IInv, NEW b \in BidIds, PassBidWindow(b)
  PROVE  IInv' /\ Holdings' = Holdings
  <1> DEFINE y == [bids[b] EXCEPT !.expired = TRUE]
  <1>1. b \in DOMAIN bids /\ bids[b] \in BidRow
    BY DEF PassBidWindow, IInv, TypeOK, IsTable
  <1>2. /\ y \in BidRow /\ y.buyer = bids[b].buyer /\ y.seller = bids[b].seller
        /\ y.sabit = bids[b].sabit
    BY <1>1 DEF BidRow
  <1>3. /\ bids' = [bids EXCEPT ![b] = y]
        /\ UNCHANGED <<wallets, pinSet, sabits, trades, disputes>>
    BY DEF PassBidWindow
  <1> HIDE DEF y
  <1>4. /\ IsTable(bids', BidIds, BidRow) /\ DOMAIN bids' = DOMAIN bids
        /\ bids'[b] = y /\ \A i \in DOMAIN bids \ {b} : bids'[i] = bids[i]
    BY <1>1, <1>2, <1>3 DEF IsTable, IInv, TypeOK
  <1>5. \A i \in DOMAIN bids' : /\ bids'[i].sabit \in DOMAIN sabits
                                /\ bids'[i].buyer # bids'[i].seller
    BY <1>1, <1>2, <1>4 DEF IInv, Related, Parties
  <1>6. wallets' \in WalletTable
    BY <1>3 DEF IInv, TypeOK
  <1> QED
    BY <1>3, <1>4, <1>5, <1>6, BidsStepInv DEF Holdings

\* Rejecting and withdrawing a bid.
LEMMA ReleaseBidStep ==
  ASSUME IInv, NEW b \in DOMAIN bids, NEW status \in {"rejected", "withdrawn"},
         ReleaseBid(b, status)
  PROVE  IInv' /\ Holdings' = Holdings
  <1>1. Terms(bids[b])
    BY BidTerms
  <1>2. wallets' \in WalletTable /\ HoldingsOf(wallets') = HoldingsOf(wallets)
    BY <1>1, UnlockEffect DEF ReleaseBid, IInv, TypeOK, Terms, Currencies
  <1>3. /\ bids' = SetStatus(bids, {b}, status)
        /\ UNCHANGED <<pinSet, sabits, trades, disputes>>
    BY DEF ReleaseBid, SetStatus, IInv, TypeOK, IsTable
  <1>4. /\ IsTable(bids', BidIds, BidRow) /\ DOMAIN bids' = DOMAIN bids
        /\ \A i \in DOMAIN bids : /\ bids'[i].sabit = bids[i].sabit
                                  /\ bids'[i].buyer = bids[i].buyer
                                  /\ bids'[i].seller = bids[i].seller
    BY <1>3, BidsMove
  <1>5. \A i \in DOMAIN bids' : /\ bids'[i].sabit \in DOMAIN sabits
                                /\ bids'[i].buyer # bids'[i].seller
    BY <1>4 DEF IInv, Related, Parties
  <1> QED
    BY <1>2, <1>3, <1>4, <1>5, BidsStepInv, HoldingsAreOf

LEMMA BidExpiryJobStep ==
  ASSUME IInv, NEW S \in SUBSET BidIds, BidExpiryJob(S)
  PROVE  IInv' /\ Holdings' = Holdings
  <1>1. /\ S \subseteq DOMAIN bids
        /\ \A acc \in Accounts : wallets[acc].locked >= BidRefund(S, acc)
        /\ wallets' = [acc \in Accounts |->
             [balance |-> wallets[acc].balance + BidRefund(S, acc),
              locked |-> wallets[acc].locked - BidRefund(S, acc)]]
        /\ bids' = SetStatus(bids, S, "expired")
        /\ UNCHANGED <<pinSet, sabits, trades, disputes>>
    BY DEF BidExpiryJob, ExpiredBids
  <1>2. ASSUME NEW acc \in Accounts
        PROVE  /\ wallets'[acc] \in WalletRow
               /\ wallets'[acc].balance + wallets'[acc].locked
                    = wallets[acc].balance + wallets[acc].locked
    <2> DEFINE n == BidRefund(S, acc)
    <2>1. n \in Nat
      <3>1. IsTable(bids, BidIds, BidRow) /\ IsFiniteSet(BidIds)
        BY EscrowAssumption DEF IInv, TypeOK
      <3>2. \A row \in BidRow : row["total"] \in Nat
        BY DEF BidRow
      <3>3. {b \in S : bids[b].buyer = acc[1]} \in SUBSET DOMAIN bids
        BY <1>1
      <3>4. Total(Column(bids, "total"), {b \in S : bids[b].buyer = acc[1]}) \in Nat
        BY <3>1, <3>2, <3>3, ColumnSumIsNat
      <3> QED
        BY <3>4 DEF BidRefund
    <2>2. wallets[acc] \in WalletRow /\ wallets[acc].locked >= n
      BY <1>1 DEF IInv, TypeOK, WalletTable
    <2>3. wallets'[acc] = [balance |-> wallets[acc].balance + n,
                           locked |-> wallets[acc].locked - n]
      BY <1>1
    <2> HIDE DEF n
    <2> QED
      BY <2>1, <2>2, <2>3 DEF WalletRow
  <1>3. wallets' \in WalletTable
    BY <1>1, <1>2 DEF WalletTable
  <1>4. Holdings' = Holdings
    BY <1>2 DEF Holdings
  <1>5. /\ IsTable(bids', BidIds, BidRow) /\ DOMAIN bids' = DOMAIN bids
        /\ \A i \in DOMAIN bids : /\ bids'[i].sabit = bids[i].sabit
                                  /\ bids'[i].buyer = bids[i].buyer
                                  /\ bids'[i].seller = bids[i].seller
    BY <1>1, BidsMove
  <1>6. \A i \in DOMAIN bids' : /\ bids'[i].sabit \in DOMAIN sabits
                                /\ bids'[i].buyer # bids'[i].seller
    BY <1>5 DEF IInv, Related, Parties
  <1> QED
    BY <1>1, <1>3, <1>4, <1>5, <1>6, BidsStepInv

\* The trade an accepted bid makes, and what the step does.
LEMMA AcceptBidStep ==
  ASSUME IInv, NEW u \in Users, NEW b \in BidIds, NEW t \in TradeIds, AcceptBid(u, b, t)
  PROVE  /\ IInv'
         /\ t \notin DOMAIN trades /\ UNCHANGED disputes
         /\ DOMAIN trades' = DOMAIN trades \cup {t}
         /\ \A i \in DOMAIN trades : trades'[i] = trades[i]
         /\ Terms(trades'[t]) /\ trades'[t].status = "completed"
         /\ Contract!CanSwap(Holdings, AsDeal(trades'[t], "settled"))
         /\ Holdings' = Contract!Swap(Holdings, AsDeal(trades'[t], "settled"))
  <1> DEFINE x == bids[b]
             l == sabits[x.sabit]
             w == Lock(wallets, u, x.currency, x.amount)
             y == [sabit |-> x.sabit, buyer |-> x.buyer, seller |-> x.seller,
                   currency |-> x.currency, amount |-> x.amount, total |-> x.total,
                   status |-> "completed", expired |-> FALSE]
  <1>1. /\ b \in DOMAIN bids /\ t \notin DOMAIN trades /\ x.seller = u
        /\ x.amount <= l.available /\ CanLock(wallets, u, x.currency, x.amount)
        /\ CanSettle(w, x) /\ wallets' = Settle(w, x)
        /\ bids' = [bids EXCEPT ![b].status = "accepted"]
        /\ sabits' = [sabits EXCEPT ![x.sabit] = Take(l, x.amount)]
        /\ trades' = Insert(trades, t, y)
        /\ UNCHANGED <<pinSet, disputes>>
    BY DEF AcceptBid
  <1>2. Terms(x) /\ x \in BidRow /\ x.sabit \in DOMAIN sabits /\ l \in SabitRow
    BY <1>1, BidTerms DEF IInv, TypeOK, IsTable, Related
  <1>3. w \in WalletTable /\ HoldingsOf(w) = HoldingsOf(wallets)
    BY <1>1, <1>2, LockEffect DEF Terms, Currencies, IInv, TypeOK
  <1>4. /\ y \in TradeRow /\ Terms(y) /\ y.sabit = x.sabit /\ y.status = "completed"
        /\ AsDeal(y, "settled") = AsDeal(x, "settled")
    BY <1>2 DEF TradeRow, TradeStatus, BidRow, Terms, AsDeal
  <1>5. Take(l, x.amount) \in SabitRow
    <2>1. l.available - x.amount \in Nat
      BY <1>1, <1>2 DEF SabitRow, Terms
    <2> QED
      BY <1>2, <2>1 DEF Take, SabitRow
  <1> HIDE DEF x, l, w, y
  <1>6. /\ wallets' \in WalletTable
        /\ HoldingsOf(wallets') = Contract!Swap(HoldingsOf(w), AsDeal(x, "settled"))
        /\ Contract!CanSwap(HoldingsOf(w), AsDeal(x, "settled"))
    BY <1>1, <1>2, <1>3, SettleEffect
  <1>7. /\ IsTable(trades', TradeIds, TradeRow) /\ DOMAIN trades' = DOMAIN trades \cup {t}
        /\ trades'[t] = y /\ \A i \in DOMAIN trades : trades'[i] = trades[i]
    BY <1>1, <1>4 DEF Insert, IsTable, IInv, TypeOK
  <1>8. IsTable(sabits', SabitIds, SabitRow) /\ DOMAIN sabits' = DOMAIN sabits
    BY <1>1, <1>2, <1>5 DEF IsTable, IInv, TypeOK
  <1>9. /\ IsTable(bids', BidIds, BidRow) /\ DOMAIN bids' = DOMAIN bids
        /\ \A i \in DOMAIN bids : /\ bids'[i].sabit = bids[i].sabit
                                  /\ bids'[i].buyer = bids[i].buyer
                                  /\ bids'[i].seller = bids[i].seller
    <2>1. bids' = SetStatus(bids, {b}, "accepted")
      BY <1>1 DEF SetStatus, IInv, TypeOK, IsTable
    <2> QED
      BY <2>1, BidsMove
  <1>10. TypeOK'
    BY <1>1, <1>6, <1>7, <1>8, <1>9 DEF IInv, TypeOK, IsTable
  <1>11. Related'
    BY <1>1, <1>2, <1>4, <1>7, <1>8, <1>9 DEF IInv, Related
  <1>12. Parties'
    BY <1>4, <1>7, <1>9 DEF IInv, Parties, Terms
  <1>13. DisputesAgree'
    BY <1>1, <1>4, <1>7 DEF IInv, DisputesAgree, Open, Related
  <1> QED
    BY <1>1, <1>3, <1>4, <1>6, <1>7, <1>10, <1>11, <1>12, <1>13, HoldingsAreOf DEF IInv

\* Every step of the marketplace keeps the invariant.
LEMMA StepInv == IInv /\ [Next]_vars => IInv'
  <1> SUFFICES ASSUME IInv, [Next]_vars PROVE IInv'
    OBVIOUS
  <1>1. CASE \E u \in Users : SetTransactionPin(u)
    BY <1>1, SetTransactionPinStep
  <1>2. CASE SabitStep
    BY <1>2, CreateSabitStep, CancelSabitStep DEF SabitStep
  <1>3. CASE TradeStep
    BY <1>3, InitiateTradeStep, SellerConfirmTradeStep, RaiseDisputeStep DEF TradeStep
  <1>4. CASE BidStep
    BY <1>4, PlaceBidStep, AcceptBidStep, ReleaseBidStep DEF BidStep, RejectBid, WithdrawBid
  <1>5. CASE AdminStep
    BY <1>5, ResolveDisputeStep DEF AdminStep
  <1>6. CASE Clock
    BY <1>6, PassPinWindowStep, PassBidWindowStep DEF Clock
  <1>7. CASE Jobs
    BY <1>7, PinExpiryJobStep, BidExpiryJobStep DEF Jobs
  <1>8. CASE UNCHANGED vars
    BY <1>8 DEF vars, IInv, TypeOK, IsTable, Related, Parties, DisputesAgree, Open
  <1> QED
    BY <1>1, <1>2, <1>3, <1>4, <1>5, <1>6, <1>7, <1>8 DEF Next

\* Every table is well typed at all times; in particular no wallet balance,
\* no locked balance and no listing's available amount is ever negative, in
\* any interleaving of the handlers and the jobs.
THEOREM TypeCorrect == Spec => []TypeOK
  BY InitInv, StepInv, PTL DEF Spec, IInv

\* Disputes and trades never disagree: a trade is marked disputed exactly
\* while its dispute is open, and a resolved dispute's trade has ended.
THEOREM DisputesConsistent == Spec => []DisputesAgree
  BY InitInv, StepInv, PTL DEF Spec, IInv

-----------------------------------------------------------------------------
(***************************************************************************)
(* The marketplace keeps the contract of module Exchange.                  *)
(***************************************************************************)
LEMMA DealStates ==
  /\ \A d : DealState("initiated", d) = "struck" /\ DealState("escrowed", d) = "struck"
  /\ \A d : DealState("confirmed", d) = "struck" /\ DealState("disputed", d) = "disputed"
  /\ \A d : DealState("cancelled", d) = "void"
  /\ DealState("completed", TRUE) = "awarded"
  /\ DealState("completed", FALSE) = "settled"
  BY DEF DealState

\* A trade is a deal, in every status.
LEMMA DealsTyped ==
  ASSUME NEW x, Terms(x),
         NEW state \in {"struck", "disputed", "settled", "awarded", "void"}
  PROVE  /\ AsDeal(x, state) \in Contract!Deal
         /\ AsDeal(x, state).buyer # AsDeal(x, state).seller
         /\ AsDeal(x, state).state = state
  <1>1. x.currency \in Currencies \ {NGN}
    BY WalletsAssumption DEF Terms, Currencies
  <1> QED
    BY <1>1 DEF Terms, AsDeal, Contract!Deal

\* Steps that touch neither trades nor disputes move no deal.
LEMMA SameDeals ==
  ASSUME UNCHANGED <<trades, disputes>>
  PROVE  Deals' = Deals
  BY DEF Deals, ByDispute

\* One trade changes its status: its deal changes its state.
LEMMA OneDealMoves ==
  ASSUME IInv, NEW t \in DOMAIN trades, NEW status \in TradeStatus,
         trades' = [trades EXCEPT ![t].status = status],
         \A i \in DOMAIN trades \ {t} : i \in DOMAIN disputes' <=> i \in DOMAIN disputes
  PROVE  Contract!Move({t}, DealState(status, t \in DOMAIN disputes'))
  <1> DEFINE st == DealState(status, t \in DOMAIN disputes')
  <1>1. DOMAIN trades' = DOMAIN trades
    BY TradeMoves
  <1>2. ASSUME NEW i \in DOMAIN trades
        PROVE  Deals'[i] = IF i \in {t} THEN [Deals[i] EXCEPT !.state = st] ELSE Deals[i]
    <2>1. /\ trades'[i].buyer = trades[i].buyer /\ trades'[i].seller = trades[i].seller
          /\ trades'[i].currency = trades[i].currency
          /\ trades'[i].amount = trades[i].amount /\ trades'[i].total = trades[i].total
          /\ i # t => trades'[i].status = trades[i].status
          /\ trades'[t].status = status
      BY TradeMoves
    <2>2. Deals'[i] = AsDeal(trades'[i], DealState(trades'[i].status, i \in DOMAIN disputes'))
      BY <1>1 DEF Deals, ByDispute
    <2>3. Deals[i] = AsDeal(trades[i], DealState(trades[i].status, i \in DOMAIN disputes))
      BY DEF Deals, ByDispute
    <2>4. CASE i = t
      BY <2>1, <2>2, <2>3, <2>4 DEF AsDeal
    <2>5. CASE i # t
      BY <2>1, <2>2, <2>3, <2>5 DEF AsDeal
    <2> QED
      BY <2>4, <2>5
  <1>3. DOMAIN Deals' = DOMAIN trades /\ DOMAIN Deals = DOMAIN trades
    BY <1>1 DEF Deals
  <1>4. Deals' = [i \in DOMAIN Deals' |-> Deals'[i]]
    BY DEF Deals
  <1> HIDE DEF st
  <1>5. Contract!Move({t}, st)
    BY <1>2, <1>3, <1>4 DEF Contract!Move
  <1> QED
    BY <1>5 DEF st

\* The state of the deal of a trade.
LEMMA StateOf ==
  ASSUME NEW t \in DOMAIN trades
  PROVE  /\ Deals[t] = AsDeal(trades[t], DealState(trades[t].status, t \in DOMAIN disputes))
         /\ Deals[t].state = DealState(trades[t].status, t \in DOMAIN disputes)
         /\ t \in DOMAIN Deals
  BY DEF Deals, ByDispute, AsDeal

LEMMA InitiateTradeRefines ==
  ASSUME IInv, NEW u \in Users, NEW s \in SabitIds, NEW t \in TradeIds,
         NEW a \in Amounts, InitiateTrade(u, s, t, a)
  PROVE  Contract!Strike(t)
  <1>1. IInv' /\ Holdings' = Holdings
    BY InitiateTradeStep
  <1>2. /\ t \notin DOMAIN trades /\ DOMAIN trades' = DOMAIN trades \cup {t}
        /\ \A i \in DOMAIN trades : trades'[i] = trades[i]
        /\ trades'[t].status = "escrowed" /\ UNCHANGED disputes
    BY DEF InitiateTrade, Insert
  <1>3. Terms(trades'[t])
    BY <1>1, <1>2 DEF IInv, TypeOK, IsTable, Parties, Terms, TradeRow
  <1>4. Deals'[t] = AsDeal(trades'[t], "struck")
    BY <1>2, DealStates DEF Deals, ByDispute
  <1>5. /\ t \notin DOMAIN Deals /\ DOMAIN Deals' = DOMAIN Deals \cup {t}
        /\ \A i \in DOMAIN Deals : Deals'[i] = Deals[i]
    BY <1>2 DEF Deals, ByDispute
  <1>6. /\ Deals'[t] \in Contract!Deal /\ Deals'[t].buyer # Deals'[t].seller
        /\ Deals'[t].state = "struck"
    BY <1>3, <1>4, DealsTyped
  <1>7. Contract!Appears(t, "struck")
    BY <1>5, <1>6 DEF Contract!Appears
  <1> QED
    BY <1>1, <1>7 DEF Contract!Strike

LEMMA SellerConfirmTradeRefines ==
  ASSUME IInv, NEW u \in Users, NEW t \in TradeIds, SellerConfirmTrade(u, t)
  PROVE  Contract!Settle(t)
  <1>1. /\ t \in DOMAIN trades /\ trades[t].status = "escrowed"
        /\ CanSettle(wallets, trades[t]) /\ wallets' = Settle(wallets, trades[t])
        /\ trades' = [trades EXCEPT ![t].status = "completed"] /\ UNCHANGED disputes
    BY DEF SellerConfirmTrade
  <1>2. t \notin DOMAIN disputes
    BY <1>1 DEF IInv, TypeOK, IsTable, DisputesAgree, Open
  <1>3. Deals[t] = AsDeal(trades[t], "struck") /\ Deals[t].state = "struck" /\ t \in DOMAIN Deals
    BY <1>1, StateOf, DealStates
  <1>4. /\ Contract!CanSwap(Holdings, Deals[t])
        /\ Holdings' = Contract!Swap(Holdings, Deals[t])
    BY <1>1, <1>3, TradeTerms, SettleEffect, HoldingsAreOf DEF IInv, TypeOK
  <1>5. Contract!Move({t}, "settled")
    <2>1. "completed" \in TradeStatus
      BY DEF TradeStatus
    <2>2. Contract!Move({t}, DealState("completed", t \in DOMAIN disputes'))
      BY <1>1, <2>1, OneDealMoves
    <2>3. (t \in DOMAIN disputes') = FALSE
      BY <1>1, <1>2
    <2> QED
      BY <2>2, <2>3, DealStates
  <1> QED
    BY <1>3, <1>4, <1>5 DEF Contract!Settle, Contract!InState

LEMMA RaiseDisputeRefines ==
  ASSUME IInv, NEW u \in Users, NEW t \in TradeIds, RaiseDispute(u, t)
  PROVE  Contract!Dispute(t)
  <1>1. /\ t \in DOMAIN trades /\ trades[t].status \in {"escrowed", "confirmed"}
        /\ trades' = [trades EXCEPT ![t].status = "disputed"]
        /\ DOMAIN disputes' = DOMAIN disputes \cup {t}
    BY DEF RaiseDispute, Insert
  <1>2. Deals[t].state = "struck" /\ t \in DOMAIN Deals
    BY <1>1, StateOf, DealStates
  <1>3. Contract!Move({t}, "disputed")
    <2>1. "disputed" \in TradeStatus
      BY DEF TradeStatus
    <2>2. Contract!Move({t}, DealState("disputed", t \in DOMAIN disputes'))
      BY <1>1, <2>1, OneDealMoves
    <2> QED
      BY <2>2, DealStates
  <1>4. Holdings' = Holdings
    BY RaiseDisputeStep
  <1> QED
    BY <1>2, <1>3, <1>4 DEF Contract!Dispute, Contract!InState

LEMMA ResolveDisputeRefines ==
  ASSUME IInv, NEW t \in TradeIds, NEW favor \in Favors, ResolveDispute(t, favor)
  PROVE  Contract!Award(t) \/ Contract!Void({t})
  <1>1. /\ t \in DOMAIN disputes /\ t \in DOMAIN trades /\ trades[t].status = "disputed"
        /\ DOMAIN disputes' = DOMAIN disputes
        /\ ResolveForBuyer(t) \/ ResolveForSeller(t)
    BY DEF ResolveDispute, IInv, Related
  <1>2. /\ Deals[t] = AsDeal(trades[t], "disputed") /\ Deals[t].state = "disputed"
        /\ t \in DOMAIN Deals
    BY <1>1, StateOf, DealStates
  <1>3. CASE ResolveForBuyer(t)
    <2>1. Holdings' = Holdings
      BY <1>1, <1>3, TradeTerms, UnlockEffect, HoldingsAreOf
      DEF ResolveForBuyer, IInv, TypeOK, Terms, Currencies
    <2>2. Contract!Move({t}, "void")
      <3>1. "cancelled" \in TradeStatus
        BY DEF TradeStatus
      <3>2. trades' = [trades EXCEPT ![t].status = "cancelled"]
        BY <1>3 DEF ResolveForBuyer
      <3>3. Contract!Move({t}, DealState("cancelled", t \in DOMAIN disputes'))
        BY <1>1, <3>1, <3>2, OneDealMoves
      <3> QED
        BY <3>3, DealStates
    <2> QED
      BY <1>2, <2>1, <2>2 DEF Contract!Void, Contract!InState
  <1>4. CASE ResolveForSeller(t)
    <2>1. /\ Contract!CanPay(Holdings, Deals[t])
          /\ Holdings' = Contract!Pay(Holdings, Deals[t])
      BY <1>1, <1>2, <1>4, TradeTerms, NgnEffect, HoldingsAreOf
      DEF ResolveForSeller, IInv, TypeOK
    <2>2. Contract!Move({t}, "awarded")
      <3>1. "completed" \in TradeStatus
        BY DEF TradeStatus
      <3>2. trades' = [trades EXCEPT ![t].status = "completed"]
        BY <1>4 DEF ResolveForSeller
      <3>3. Contract!Move({t}, DealState("completed", t \in DOMAIN disputes'))
        BY <1>1, <3>1, <3>2, OneDealMoves
      <3>4. (t \in DOMAIN disputes') = TRUE
        BY <1>1
      <3> QED
        BY <3>3, <3>4, DealStates
    <2> QED
      BY <1>2, <2>1, <2>2 DEF Contract!Award, Contract!InState
  <1> QED
    BY <1>1, <1>3, <1>4

LEMMA PinExpiryJobRefines ==
  ASSUME IInv, NEW S \in SUBSET TradeIds, PinExpiryJob(S)
  PROVE  Contract!Void(S)
  <1>1. /\ S \subseteq DOMAIN trades
        /\ \A t \in S : trades[t].status \in {"escrowed", "initiated"}
        /\ trades' = SetStatus(trades, S, "cancelled") /\ UNCHANGED disputes
    BY DEF PinExpiryJob, ExpiredTrades
  <1>2. S \subseteq Contract!InState("struck")
    BY <1>1, StateOf, DealStates DEF Contract!InState
  <1>3. ASSUME NEW i \in DOMAIN trades
        PROVE  Deals'[i] = IF i \in S THEN [Deals[i] EXCEPT !.state = "void"] ELSE Deals[i]
    <2>1. /\ i \in DOMAIN trades'
          /\ trades'[i] = IF i \in S THEN [trades[i] EXCEPT !.status = "cancelled"]
                                     ELSE trades[i]
      BY <1>1 DEF SetStatus
    <2>2. Deals'[i] = AsDeal(trades'[i], DealState(trades'[i].status, i \in DOMAIN disputes))
      BY <1>1, <2>1 DEF Deals, ByDispute
    <2>3. trades[i] \in TradeRow
      BY DEF IInv, TypeOK, IsTable
    <2>4. CASE i \in S
      <3>1. /\ trades'[i].status = "cancelled"
            /\ AsDeal(trades'[i], "void") = AsDeal(trades[i], "void")
        BY <2>1, <2>3, <2>4 DEF AsDeal, TradeRow
      <3>2. Deals'[i] = AsDeal(trades[i], "void")
        BY <2>2, <3>1, DealStates
      <3>3. Deals[i] = AsDeal(trades[i], DealState(trades[i].status, i \in DOMAIN disputes))
        BY StateOf
      <3>4. [Deals[i] EXCEPT !.state = "void"] = AsDeal(trades[i], "void")
        BY <3>3 DEF AsDeal
      <3> QED
        BY <2>4, <3>2, <3>4
    <2>5. CASE i \notin S
      BY <2>1, <2>2, <2>5, StateOf
    <2> QED
      BY <2>4, <2>5
  <1>4. /\ DOMAIN Deals = DOMAIN trades /\ DOMAIN Deals' = DOMAIN trades
        /\ Deals' = [i \in DOMAIN Deals' |-> Deals'[i]]
    BY <1>1 DEF Deals, SetStatus
  <1>5. Contract!Move(S, "void")
    BY <1>3, <1>4 DEF Contract!Move
  <1>6. Holdings' = Holdings
    BY PinExpiryJobStep
  <1> QED
    BY <1>2, <1>5, <1>6 DEF Contract!Void

LEMMA AcceptBidRefines ==
  ASSUME IInv, NEW u \in Users, NEW b \in BidIds, NEW t \in TradeIds, AcceptBid(u, b, t)
  PROVE  Contract!StrikeAndSettle(t)
  <1>1. /\ t \notin DOMAIN trades /\ UNCHANGED disputes
        /\ DOMAIN trades' = DOMAIN trades \cup {t}
        /\ \A i \in DOMAIN trades : trades'[i] = trades[i]
        /\ Terms(trades'[t]) /\ trades'[t].status = "completed"
        /\ Contract!CanSwap(Holdings, AsDeal(trades'[t], "settled"))
        /\ Holdings' = Contract!Swap(Holdings, AsDeal(trades'[t], "settled"))
    BY AcceptBidStep
  <1>2. (t \in DOMAIN disputes') = FALSE
    BY <1>1 DEF IInv, Related
  <1>3. Deals'[t] = AsDeal(trades'[t], "settled")
    BY <1>1, <1>2, DealStates DEF Deals, ByDispute
  <1>4. /\ t \notin DOMAIN Deals /\ DOMAIN Deals' = DOMAIN Deals \cup {t}
        /\ \A i \in DOMAIN Deals : Deals'[i] = Deals[i]
    BY <1>1 DEF Deals, ByDispute
  <1>5. /\ Deals'[t] \in Contract!Deal /\ Deals'[t].buyer # Deals'[t].seller
        /\ Deals'[t].state = "settled"
    BY <1>1, <1>3, DealsTyped
  <1>6. Contract!Appears(t, "settled")
    BY <1>4, <1>5 DEF Contract!Appears
  <1> QED
    BY <1>1, <1>3, <1>6 DEF Contract!StrikeAndSettle

LEMMA InitRefines == Init => Contract!Init
  <1> SUFFICES ASSUME Init PROVE Contract!Init
    OBVIOUS
  <1>1. \A acc \in Accounts : Opening[acc] + 0 = Opening[acc]
    BY EscrowAssumption
  <1>2. Holdings = Opening
    BY <1>1, EscrowAssumption DEF Init, Holdings
  <1>3. Deals = << >>
    BY DEF Init, Deals
  <1> QED
    BY <1>2, <1>3 DEF Contract!Init

LEMMA StepRefines ==
  ASSUME IInv, [Next]_vars
  PROVE  [Contract!Next]_<<Holdings, Deals>>
  <1> DEFINE Still == Holdings' = Holdings /\ Deals' = Deals
  <1>1. CASE \E u \in Users : SetTransactionPin(u)
    <2>1. UNCHANGED <<wallets, trades, disputes>>
      BY <1>1 DEF SetTransactionPin
    <2>2. Holdings' = Holdings
      BY <2>1 DEF Holdings
    <2> QED
      BY <2>1, <2>2, SameDeals
  <1>2. CASE SabitStep
    <2>1. UNCHANGED <<trades, disputes>>
      <3>1. ASSUME NEW u \in Users, NEW s \in SabitIds, NEW type \in ListingTypes,
                   NEW c \in Foreign, NEW a \in Amounts, NEW r \in Rates,
                   CreateSabit(u, s, type, c, a, r)
            PROVE  UNCHANGED <<trades, disputes>>
        BY <3>1 DEF CreateSabit
      <3>2. ASSUME NEW u \in Users, NEW s \in SabitIds, CancelSabit(u, s)
            PROVE  UNCHANGED <<trades, disputes>>
        BY <3>2 DEF CancelSabit
      <3> QED
        BY <1>2, <3>1, <3>2 DEF SabitStep
    <2>2. Holdings' = Holdings
      BY <1>2, CreateSabitStep, CancelSabitStep DEF SabitStep
    <2> QED
      BY <2>1, <2>2, SameDeals
  <1>3. CASE TradeStep
    BY <1>3, InitiateTradeRefines, SellerConfirmTradeRefines, RaiseDisputeRefines
    DEF TradeStep, Contract!Next
  <1>4. CASE BidStep
    <2>1. ASSUME NEW u \in Users, NEW b \in BidIds, NEW t \in TradeIds, AcceptBid(u, b, t)
          PROVE  Contract!Next
      BY <2>1, AcceptBidRefines DEF Contract!Next
    <2>2. ASSUME NEW u \in Users, NEW b \in BidIds, NEW s \in SabitIds,
                 NEW a \in Amounts, NEW r \in Rates, PlaceBid(u, s, b, a, r)
          PROVE  Still
      BY <2>2, PlaceBidStep, SameDeals DEF PlaceBid
    <2>3. ASSUME NEW u \in Users, NEW b \in BidIds, RejectBid(u, b) \/ WithdrawBid(u, b)
          PROVE  Still
      <3>1. PICK status \in {"rejected", "withdrawn"} : b \in DOMAIN bids /\ ReleaseBid(b, status)
        BY <2>3 DEF RejectBid, WithdrawBid
      <3> QED
        BY <3>1, ReleaseBidStep, SameDeals DEF ReleaseBid
    <2> QED
      BY <1>4, <2>1, <2>2, <2>3 DEF BidStep
  <1>5. CASE AdminStep
    <2>1. PICK t \in TradeIds : Contract!Award(t) \/ Contract!Void({t})
      BY <1>5, ResolveDisputeRefines DEF AdminStep
    <2>2. {t} \in SUBSET TradeIds
      OBVIOUS
    <2> QED
      BY <2>1, <2>2 DEF Contract!Next
  <1>6. CASE Clock
    <2>1. ASSUME NEW t \in TradeIds, PassPinWindow(t)
          PROVE  Still
      <3>1. Holdings' = Holdings
        BY <2>1, PassPinWindowStep
      <3>2. /\ trades' = [trades EXCEPT ![t].expired = TRUE] /\ t \in DOMAIN trades
            /\ UNCHANGED disputes /\ \A i \in DOMAIN trades : trades[i] \in TradeRow
        BY <2>1 DEF PassPinWindow, IInv, TypeOK, IsTable
      <3>3. ASSUME NEW i \in DOMAIN trades
            PROVE  /\ trades'[i].status = trades[i].status
                   /\ \A state : AsDeal(trades'[i], state) = AsDeal(trades[i], state)
        BY <3>2 DEF TradeRow, AsDeal
      <3>4. DOMAIN trades' = DOMAIN trades
        BY <3>2
      <3>5. Deals' = Deals
        BY <3>2, <3>3, <3>4 DEF Deals, ByDispute
      <3> QED
        BY <3>1, <3>5
    <2>2. ASSUME NEW b \in BidIds, PassBidWindow(b)
          PROVE  Still
      BY <2>2, PassBidWindowStep, SameDeals DEF PassBidWindow
    <2> QED
      BY <1>6, <2>1, <2>2 DEF Clock
  <1>7. CASE Jobs
    <2>1. ASSUME NEW S \in SUBSET TradeIds, PinExpiryJob(S)
          PROVE  Contract!Next
      BY <2>1, PinExpiryJobRefines DEF Contract!Next
    <2>2. ASSUME NEW S \in SUBSET BidIds, BidExpiryJob(S)
          PROVE  Still
      BY <2>2, BidExpiryJobStep, SameDeals DEF BidExpiryJob
    <2> QED
      BY <1>7, <2>1, <2>2 DEF Jobs
  <1>8. CASE UNCHANGED vars
    BY <1>8, SameDeals DEF vars, Holdings
  <1> QED
    BY <1>1, <1>2, <1>3, <1>4, <1>5, <1>6, <1>7, <1>8 DEF Next

\* The marketplace implements the contract: every trade is settled at most
\* once, at the amounts it was made for, and apart from settlements and
\* awards no handler and no job moves money between users.
THEOREM EscrowKeepsContract == Spec => KeepsContract
  <1>1. IInv /\ IInv' /\ [Next]_vars => [Contract!Next]_<<Holdings, Deals>>
    BY StepRefines
  <1> QED
    BY <1>1, InitInv, StepInv, InitRefines, PTL DEF Spec, KeepsContract, Contract!Spec

-----------------------------------------------------------------------------
(***************************************************************************)
(* What the contract is worth, and the escrow with it: it never makes an   *)
(* account negative, neither creates nor destroys money, and a deal keeps  *)
(* its terms and ends at most once.                                        *)
(***************************************************************************)
\* A payment keeps every account a natural number and every total what it
\* was: the NGN leg of a settlement and the award of a dispute.
LEMMA PayIsSound ==
  ASSUME NEW w \in [Accounts -> Nat], NEW x \in Contract!Deal,
         x.buyer # x.seller, Contract!CanPay(w, x)
  PROVE  /\ Contract!Pay(w, x) \in [Accounts -> Nat]
         /\ \A c \in Currencies :
              Total(Contract!Pay(w, x), Users \X {c}) = Total(w, Users \X {c})
  <1> DEFINE b == <<x.buyer, NGN>>
             s == <<x.seller, NGN>>
  <1>1. /\ b \in Accounts /\ s \in Accounts /\ b # s
        /\ x.price \in Nat /\ w[b] >= x.price
    BY DEF Contract!Deal, Accounts, Currencies, Contract!CanPay
  <1>2. Contract!Pay(w, x) = [w EXCEPT ![b] = @ - x.price, ![s] = @ + x.price]
    BY DEF Contract!Pay
  <1>3. Contract!Pay(w, x) \in [Accounts -> Nat]
    BY <1>1, <1>2
  <1>4. ASSUME NEW c \in Currencies
        PROVE  Total(Contract!Pay(w, x), Users \X {c}) = Total(w, Users \X {c})
    <2> DEFINE S == Users \X {c}
    <2>1. IsFiniteSet(S) /\ S \subseteq Accounts
      BY EscrowAssumption, FS_Singleton, FS_Product DEF Accounts
    <2>2. NatOn(w, S) /\ NatOn(Contract!Pay(w, x), S)
      BY <2>1, <1>3 DEF NatOn
    <2>3. CASE c = NGN
      <3>1. b \in S /\ s \in S
        BY <1>1, <2>3 DEF Accounts
      <3>2. Contract!Pay(w, x)[b] + Contract!Pay(w, x)[s] = w[b] + w[s]
        BY <1>1, <1>2
      <3>3. \A z \in S \ {b, s} : Contract!Pay(w, x)[z] = w[z]
        BY <1>2, <2>1
      <3> HIDE DEF b, s, S
      <3>4. Total(Contract!Pay(w, x), S) = Total(w, S)
        BY <1>1, <2>1, <2>2, <3>1, <3>2, <3>3, TotalOfMove
      <3> QED
        BY <3>4 DEF S
    <2>4. CASE c # NGN
      <3>1. b \notin S /\ s \notin S
        BY <2>4
      <3>2. \A z \in S : Contract!Pay(w, x)[z] = w[z]
        BY <1>2, <2>1, <3>1
      <3> QED
        BY <3>2, TotalDependsOnRows
    <2> QED
      BY <2>3, <2>4
  <1> QED
    BY <1>3, <1>4

\* So does a swap: the settlement of a trade, the acceptance of a bid.
LEMMA SwapIsSound ==
  ASSUME NEW w \in [Accounts -> Nat], NEW x \in Contract!Deal,
         x.buyer # x.seller, Contract!CanSwap(w, x)
  PROVE  /\ Contract!Swap(w, x) \in [Accounts -> Nat]
         /\ \A c \in Currencies :
              Total(Contract!Swap(w, x), Users \X {c}) = Total(w, Users \X {c})
  <1> DEFINE b == <<x.buyer, x.currency>>
             s == <<x.seller, x.currency>>
             v == Contract!Pay(w, x)
  <1>1. /\ v \in [Accounts -> Nat]
        /\ \A c \in Currencies : Total(v, Users \X {c}) = Total(w, Users \X {c})
    BY PayIsSound DEF Contract!CanSwap
  <1>2. /\ b \in Accounts /\ s \in Accounts /\ b # s
        /\ x.amount \in Nat /\ x.currency # NGN /\ x.currency \in Currencies
    BY DEF Contract!Deal, Accounts
  <1>3. v[s] = w[s]
    BY <1>2 DEF Contract!Pay
  <1>4. v[s] >= x.amount
    BY <1>3 DEF Contract!CanSwap
  <1>5. Contract!Swap(w, x) = [v EXCEPT ![s] = @ - x.amount, ![b] = @ + x.amount]
    BY DEF Contract!Swap
  <1> HIDE DEF b, s, v
  <1>6. Contract!Swap(w, x) \in [Accounts -> Nat]
    <2>1. v \in [Accounts -> Nat] /\ v[s] \in Nat /\ v[b] \in Nat
      BY <1>1, <1>2
    <2>2. v[s] - x.amount \in Nat /\ v[b] + x.amount \in Nat
      BY <1>2, <1>4, <2>1
    <2> QED
      BY <1>2, <1>5, <2>1, <2>2
  <1>7. ASSUME NEW c \in Currencies
        PROVE  Total(Contract!Swap(w, x), Users \X {c}) = Total(v, Users \X {c})
    <2> DEFINE S == Users \X {c}
    <2>1. IsFiniteSet(S) /\ S \subseteq Accounts
      BY EscrowAssumption, FS_Singleton, FS_Product DEF Accounts
    <2>2. NatOn(v, S) /\ NatOn(Contract!Swap(w, x), S)
      BY <2>1, <1>1, <1>6 DEF NatOn
    <2>3. CASE c = x.currency
      <3>1. b \in S /\ s \in S
        BY <1>2, <2>3 DEF Accounts, b, s
      <3>2. Contract!Swap(w, x)[b] + Contract!Swap(w, x)[s] = v[b] + v[s]
        <4>1. /\ v \in [Accounts -> Nat] /\ v[b] \in Nat /\ v[s] \in Nat
              /\ Contract!Swap(w, x)[b] = v[b] + x.amount
              /\ Contract!Swap(w, x)[s] = v[s] - x.amount
          BY <1>1, <1>2, <1>5
        <4> QED
          BY <1>2, <4>1
      <3>3. \A z \in S \ {b, s} : Contract!Swap(w, x)[z] = v[z]
        BY <1>1, <1>5, <2>1
      <3> HIDE DEF S
      <3>4. Total(Contract!Swap(w, x), S) = Total(v, S)
        BY <1>2, <2>1, <2>2, <3>1, <3>2, <3>3, TotalOfMove
      <3> QED
        BY <3>4 DEF S
    <2>4. CASE c # x.currency
      <3>1. b \notin S /\ s \notin S
        BY <2>4 DEF b, s
      <3>2. \A z \in S : Contract!Swap(w, x)[z] = v[z]
        BY <1>1, <1>5, <2>1, <3>1
      <3> QED
        BY <3>2, TotalDependsOnRows
    <2> QED
      BY <2>3, <2>4
  <1> QED
    BY <1>1, <1>6, <1>7

\* What the contract keeps.
XInv == Contract!TypeOK /\ MoneyConserved

\* It holds before anything has been agreed.
LEMMA InitIsSound == Contract!Init => XInv
  BY EscrowAssumption
  DEF Contract!Init, XInv, Contract!TypeOK, Contract!Accounts, Accounts, MoneyConserved

\* Giving the deals of S another state keeps them deals between two users, and
\* keeps their terms.
LEMMA MoveKeepsDeals ==
  ASSUME Contract!TypeOK, NEW S,
         NEW state \in {"disputed", "settled", "awarded", "void"}, Contract!Move(S, state),
         \A d \in S : d \in DOMAIN Deals => ~Contract!Ended(Deals[d])
  PROVE  /\ DOMAIN Deals' \subseteq TradeIds
         /\ \A d \in DOMAIN Deals' :
              Deals'[d] \in Contract!Deal /\ Deals'[d].buyer # Deals'[d].seller
         /\ Contract!DealsStand
  <1>1. DOMAIN Deals' = DOMAIN Deals
    BY DEF Contract!Move
  <1>2. ASSUME NEW d \in DOMAIN Deals
        PROVE  /\ Deals'[d] \in Contract!Deal /\ Deals'[d].buyer # Deals'[d].seller
               /\ Deals'[d] = [Deals[d] EXCEPT !.state = Deals'[d].state]
               /\ Contract!Ended(Deals[d]) => Deals'[d] = Deals[d]
    <2>1. Deals[d] \in Contract!Deal /\ Deals[d].buyer # Deals[d].seller
      BY DEF Contract!TypeOK
    <2>2. Deals'[d] = IF d \in S THEN [Deals[d] EXCEPT !.state = state] ELSE Deals[d]
      BY DEF Contract!Move
    <2> QED
      BY <2>1, <2>2 DEF Contract!Deal
  <1> QED
    BY <1>1, <1>2 DEF Contract!TypeOK, Contract!DealsStand

\* A deal that appears is a deal between two users, and the others stay.
LEMMA AppearsKeepsDeals ==
  ASSUME Contract!TypeOK, NEW d \in TradeIds, NEW state, Contract!Appears(d, state)
  PROVE  /\ DOMAIN Deals' \subseteq TradeIds
         /\ \A e \in DOMAIN Deals' :
              Deals'[e] \in Contract!Deal /\ Deals'[e].buyer # Deals'[e].seller
         /\ Contract!DealsStand
  <1>1. \A e \in DOMAIN Deals : Deals[e] = [Deals[e] EXCEPT !.state = Deals[e].state]
    BY DEF Contract!TypeOK, Contract!Deal
  <1> QED
    BY <1>1 DEF Contract!TypeOK, Contract!Appears, Contract!DealsStand

\* A step that leaves the balances sound and the deals deals keeps the contract
\* sound.
LEMMA SoundNext ==
  ASSUME XInv, Holdings' \in [Accounts -> Nat],
         \A c \in Currencies :
           Total(Holdings', Users \X {c}) = Total(Holdings, Users \X {c}),
         DOMAIN Deals' \subseteq TradeIds,
         \A d \in DOMAIN Deals' :
           Deals'[d] \in Contract!Deal /\ Deals'[d].buyer # Deals'[d].seller
  PROVE  XInv'
  BY DEF XInv, Contract!TypeOK, Contract!Accounts, Accounts, MoneyConserved, AccountsIn,
         Contract!Deal

\* Every step of the contract is sound.
LEMMA StepIsSound ==
  ASSUME XInv, Contract!Next
  PROVE  XInv' /\ Contract!DealsStand
  <1>1. /\ Contract!TypeOK /\ Holdings \in [Accounts -> Nat]
        /\ \A d \in DOMAIN Deals :
             Deals[d] \in Contract!Deal /\ Deals[d].buyer # Deals[d].seller
    BY DEF XInv, Contract!TypeOK, Contract!Accounts, Accounts
  <1>2. ASSUME NEW d \in TradeIds, Contract!Strike(d)
        PROVE  XInv' /\ Contract!DealsStand
    <2>1. Contract!Appears(d, "struck") /\ Holdings' = Holdings
      BY <1>2 DEF Contract!Strike
    <2> QED
      BY <1>1, <2>1, AppearsKeepsDeals, SoundNext
  <1>3. ASSUME NEW d \in TradeIds, Contract!Settle(d)
        PROVE  XInv' /\ Contract!DealsStand
    <2>1. /\ d \in DOMAIN Deals /\ Deals[d].state = "struck"
          /\ Contract!CanSwap(Holdings, Deals[d])
          /\ Holdings' = Contract!Swap(Holdings, Deals[d])
          /\ Contract!Move({d}, "settled")
      BY <1>3 DEF Contract!Settle, Contract!InState
    <2>2. \A e \in {d} : e \in DOMAIN Deals => ~Contract!Ended(Deals[e])
      BY <2>1 DEF Contract!Ended
    <2>3. /\ Holdings' \in [Accounts -> Nat]
          /\ \A c \in Currencies :
               Total(Holdings', Users \X {c}) = Total(Holdings, Users \X {c})
      BY <1>1, <2>1, SwapIsSound
    <2> QED
      BY <1>1, <2>1, <2>2, <2>3, MoveKeepsDeals, SoundNext
  <1>4. ASSUME NEW d \in TradeIds, Contract!StrikeAndSettle(d)
        PROVE  XInv' /\ Contract!DealsStand
    <2>1. /\ Contract!Appears(d, "settled")
          /\ Contract!CanSwap(Holdings, Deals'[d])
          /\ Holdings' = Contract!Swap(Holdings, Deals'[d])
      BY <1>4 DEF Contract!StrikeAndSettle
    <2>2. Deals'[d] \in Contract!Deal /\ Deals'[d].buyer # Deals'[d].seller
      BY <2>1 DEF Contract!Appears
    <2>3. /\ Holdings' \in [Accounts -> Nat]
          /\ \A c \in Currencies :
               Total(Holdings', Users \X {c}) = Total(Holdings, Users \X {c})
      BY <1>1, <2>1, <2>2, SwapIsSound
    <2> QED
      BY <1>1, <2>1, <2>3, AppearsKeepsDeals, SoundNext
  <1>5. ASSUME NEW d \in TradeIds, Contract!Dispute(d)
        PROVE  XInv' /\ Contract!DealsStand
    <2>1. /\ Deals[d].state = "struck" /\ Contract!Move({d}, "disputed")
          /\ Holdings' = Holdings
      BY <1>5 DEF Contract!Dispute, Contract!InState
    <2>2. \A e \in {d} : e \in DOMAIN Deals => ~Contract!Ended(Deals[e])
      BY <2>1 DEF Contract!Ended
    <2> QED
      BY <1>1, <2>1, <2>2, MoveKeepsDeals, SoundNext
  <1>6. ASSUME NEW d \in TradeIds, Contract!Award(d)
        PROVE  XInv' /\ Contract!DealsStand
    <2>1. /\ d \in DOMAIN Deals /\ Deals[d].state = "disputed"
          /\ Contract!CanPay(Holdings, Deals[d])
          /\ Holdings' = Contract!Pay(Holdings, Deals[d])
          /\ Contract!Move({d}, "awarded")
      BY <1>6 DEF Contract!Award, Contract!InState
    <2>2. \A e \in {d} : e \in DOMAIN Deals => ~Contract!Ended(Deals[e])
      BY <2>1 DEF Contract!Ended
    <2>3. /\ Holdings' \in [Accounts -> Nat]
          /\ \A c \in Currencies :
               Total(Holdings', Users \X {c}) = Total(Holdings, Users \X {c})
      BY <1>1, <2>1, PayIsSound
    <2> QED
      BY <1>1, <2>1, <2>2, <2>3, MoveKeepsDeals, SoundNext
  <1>7. ASSUME NEW S \in SUBSET TradeIds, Contract!Void(S)
        PROVE  XInv' /\ Contract!DealsStand
    <2>1. /\ \A e \in S : e \in DOMAIN Deals => ~Contract!Ended(Deals[e])
          /\ Contract!Move(S, "void") /\ Holdings' = Holdings
      BY <1>7 DEF Contract!Void, Contract!InState, Contract!Ended
    <2> QED
      BY <1>1, <2>1, MoveKeepsDeals, SoundNext
  <1> QED
    BY <1>2, <1>3, <1>4, <1>5, <1>6, <1>7 DEF Contract!Next

\* Trading creates and destroys no money: per currency, what all wallets hold,
\* available and locked, is what they held at the start.  It holds because the
\* contract conserves money and the escrow keeps the contract.
THEOREM EscrowConserves == Spec => []MoneyConserved
  <1>1. Contract!Init => XInv
    BY InitIsSound
  <1>2. XInv /\ [Contract!Next]_<<Holdings, Deals>> => XInv'
    <2>1. XInv /\ UNCHANGED <<Holdings, Deals>> => XInv'
      BY DEF XInv, Contract!TypeOK, MoneyConserved
    <2> QED
      BY <2>1, StepIsSound
  <1>3. XInv => MoneyConserved
    BY DEF XInv
  <1> QED
    BY <1>1, <1>2, <1>3, EscrowKeepsContract, PTL DEF KeepsContract, Contract!Spec

\* A trade keeps the terms it was made for through every handler and every job,
\* and once it is settled, awarded or cancelled it stays so.
THEOREM TradesStandAsMade == Spec => [][Contract!DealsStand]_<<Holdings, Deals>>
  <1>1. Contract!Init => XInv
    BY InitIsSound
  <1>2. XInv /\ [Contract!Next]_<<Holdings, Deals>> => XInv'
    <2>1. XInv /\ UNCHANGED <<Holdings, Deals>> => XInv'
      BY DEF XInv, Contract!TypeOK, MoneyConserved
    <2> QED
      BY <2>1, StepIsSound
  <1>3. /\ XInv /\ [Contract!Next]_<<Holdings, Deals>>
        => [Contract!DealsStand]_<<Holdings, Deals>>
    BY StepIsSound
  <1> QED
    BY <1>1, <1>2, <1>3, EscrowKeepsContract, PTL DEF KeepsContract, Contract!Spec

-----------------------------------------------------------------------------
(***************************************************************************)
(* The books of the escrow: LockedAccounted and EscrowBacked. Their sums   *)
(* are over whole tables, but a step changes one row (the jobs several).   *)
(* So the sums are written row by row: what a listing, a trade and a bid   *)
(* claim of the locked money of one user and currency, and what share a    *)
(* trade has in the roundings. A step then replaces the claim of its row   *)
(* by another, which is what it does to the wallet, exactly or, where a    *)
(* price is rounded, to a hundredth.                                       *)
(***************************************************************************)
\* A trade has the terms of its listing, a bid asks for a listing that sells.
Struck(x, l) ==
  /\ x.currency = l.currency
  /\ l.type = "SELL" => x.seller = l.user
  /\ l.type = "BUY" => x.buyer = l.user /\ x.total = NgnValue(x.amount, l.rate)

BidOn(x, l) == l.type = "SELL" /\ x.seller = l.user /\ x.currency = l.currency

\* Listings are of the types and at the prices the market has, and every trade and
\* every bid has the terms of its listing.
Origins ==
  /\ \A s \in DOMAIN sabits : sabits[s].type \in ListingTypes /\ sabits[s].rate \in Rates
  /\ \A t \in DOMAIN trades : Struck(trades[t], sabits[trades[t].sabit])
  /\ \A b \in DOMAIN bids : BidOn(bids[b], sabits[bids[b].sabit])

\* What a listing l holds locked of user u's currency c: what is still available.
SabitClaim(l, u, c) ==
  IF l.user = u /\ OwnerCurrency(l) = c THEN OwnerHold(l, l.available) ELSE 0

\* What a trade x claims of user u's locked currency c. While it is open, the
\* seller's amount and the buyer's total; after its end, what the code leaves
\* behind (the terms of Stranded). buy: its listing buys; disp: it ended by a
\* dispute.
TradeClaim(x, buy, disp, u, c) ==
  IF x.seller = u /\ x.currency = c
  THEN IF \/ Open(x)
          \/ x.status = "cancelled" /\ buy
          \/ x.status = "completed" /\ disp
       THEN x.amount ELSE 0
  ELSE IF /\ c = NGN /\ x.buyer = u
          /\ \/ Open(x)
             \/ x.status = "cancelled" /\ ~disp /\ ~buy
       THEN x.total ELSE 0

\* What a dispute won by the buyer on a BUY listing has released twice.
Overdraft(x, buy, disp, u, c) ==
  IF c = NGN /\ x.buyer = u /\ x.status = "cancelled" /\ disp /\ buy THEN x.total ELSE 0

\* The share of trade x in Roundings. cut: the price of its part was rounded.
Rounded(x) == PriceRounds(sabits[x.sabit])
Slack(x, cut, u, c) ==
  IF c = NGN /\ cut /\ x.buyer = u
  THEN IF x.status = "cancelled" THEN 2 ELSE 1
  ELSE 0

\* What a bid x claims: the buyer's total while it is pending, the seller's amount
\* after it was accepted (the seller's lock for the trade, never released).
BidClaim(x, u, c) ==
  IF c = NGN /\ x.buyer = u /\ x.status = "pending" THEN x.total
  ELSE IF x.seller = u /\ x.currency = c /\ x.status = "accepted" THEN x.amount ELSE 0

\* The claims of all rows, as columns.
SabitClaimOf(u, c) == [s \in DOMAIN sabits |-> SabitClaim(sabits[s], u, c)]
TradeClaimOf(u, c) ==
  [t \in DOMAIN trades |->
     TradeClaim(trades[t], IsBuyListing(trades[t]), ByDispute(t), u, c)]
OverdraftOf(u, c) ==
  [t \in DOMAIN trades |->
     Overdraft(trades[t], IsBuyListing(trades[t]), ByDispute(t), u, c)]
SlackOf(u, c) ==
  [t \in DOMAIN trades |-> Slack(trades[t], Rounded(trades[t]), u, c)]
BidClaimOf(u, c) == [b \in DOMAIN bids |-> BidClaim(bids[b], u, c)]

\* The sums of the columns.
SabitClaims(u, c) == Total(SabitClaimOf(u, c), DOMAIN sabits)
TradeClaims(u, c) == Total(TradeClaimOf(u, c), DOMAIN trades)
Overdrafts(u, c) == Total(OverdraftOf(u, c), DOMAIN trades)
Slacks(u, c) == Total(SlackOf(u, c), DOMAIN trades)
BidClaims(u, c) == Total(BidClaimOf(u, c), DOMAIN bids)

\* Rounding what is exact changes nothing.
LEMMA DivisionIsExact ==
  ASSUME NEW n \in Nat, NEW d \in Nat \ {0}, NEW h \in Nat, h < d
  PROVE  (n * d + h) \div d = n
  BY Z3

\* Half a unit is less than a unit.
LEMMA HalfIsLess == Cents \div 2 \in Nat /\ Cents \div 2 < Cents
  BY EscrowAssumption, Z3

\* toFixed(2) at a whole price is exact.
LEMMA WholeValue ==
  ASSUME NEW a \in Nat, NEW k \in Nat
  PROVE  NgnValue(a, k * Cents) = a * k
  <1>1. a * k \in Nat /\ a * (k * Cents) = (a * k) * Cents
    BY EscrowAssumption, Z3
  <1> QED
    BY <1>1, HalfIsLess, DivisionIsExact, EscrowAssumption DEF NgnValue

\* A quotient is the whole number of times the divisor fits.
LEMMA QuotientFits ==
  ASSUME NEW n \in Nat, NEW d \in Nat \ {0}
  PROVE  n \div d \in Nat /\ (n \div d) * d <= n /\ n < (n \div d) * d + d
  BY Z3

\* Less than two units either way is one unit at most.
LEMMA LessThanTwo ==
  ASSUME NEW k \in Int, NEW d \in Nat \ {0}, -(2 * d) < k * d, k * d < 2 * d
  PROVE  k \in -1 .. 1
  <1>1. ~(k >= 2)
    BY Z3
  <1>2. ~(k <= -2)
    BY Z3
  <1> QED
    BY <1>1, <1>2

\* At any price, the parts and the whole differ by a hundredth at most.
LEMMA NgnValueNearlyAdds ==
  ASSUME NEW a \in Nat, NEW b \in Nat, NEW r \in Nat
  PROVE  NgnValue(a + b, r) - NgnValue(a, r) - NgnValue(b, r) \in -1 .. 1
  <1> DEFINE h == Cents \div 2
             m == a * r
             n == b * r
             p == NgnValue(a, r)
             q == NgnValue(b, r)
             s == NgnValue(a + b, r)
  <1>1. /\ Cents \in Nat \ {0} /\ h \in Nat /\ h < Cents
        /\ m \in Nat /\ n \in Nat /\ (a + b) * r = m + n
    <2>1. a * r \in Nat /\ b * r \in Nat /\ (a + b) * r = a * r + b * r
      BY Z3
    <2> QED
      BY <2>1, HalfIsLess, EscrowAssumption
  <1>2. /\ p = (m + h) \div Cents /\ q = (n + h) \div Cents
        /\ s = (m + n + h) \div Cents
    BY <1>1 DEF NgnValue
  <1> HIDE DEF h, m, n, p, q, s
  <1>3. /\ p \in Nat /\ p * Cents <= m + h /\ m + h < p * Cents + Cents
        /\ q \in Nat /\ q * Cents <= n + h /\ n + h < q * Cents + Cents
        /\ s \in Nat /\ s * Cents <= m + n + h /\ m + n + h < s * Cents + Cents
    <2>1. m + h \in Nat /\ n + h \in Nat /\ m + n + h \in Nat
      BY <1>1
    <2> QED
      BY <1>1, <1>2, <2>1, QuotientFits
  <1>4. /\ p * Cents \in Nat /\ q * Cents \in Nat /\ s * Cents \in Nat
        /\ (s - p - q) * Cents = s * Cents - p * Cents - q * Cents
    BY <1>1, <1>3, Z3
  <1>5. -(2 * Cents) < (s - p - q) * Cents /\ (s - p - q) * Cents < 2 * Cents
    BY <1>1, <1>3, <1>4
  <1>6. s - p - q \in -1 .. 1
    <2>1. s - p - q \in Int
      BY <1>3
    <2> QED
      BY <1>1, <1>5, <2>1, LessThanTwo
  <1> QED
    BY <1>6 DEF s, p, q

\* How far what locks for two parts of listing l may be from what locks for
\* the whole, in user v's currency d: a hundredth if its prices are rounded.
Play(l, v, d) ==
  IF PriceRounds(l) /\ v = l.user /\ d = NGN THEN 1 ELSE 0

\* A price without hundredths is a number of whole units.
LEMMA WholePrice ==
  ASSUME NEW r \in Nat, r % Cents = 0
  PROVE  \E k \in Nat : r = k * Cents
  <1>1. Cents \in Nat \ {0}
    BY EscrowAssumption
  <1>2. r \div Cents \in Nat /\ r = (r \div Cents) * Cents
    BY <1>1, Z3
  <1> QED
    BY <1>2

\* What locks for two parts of a listing is what locks for the whole, up to
\* that.
LEMMA HoldsNearlyAdd ==
  ASSUME NEW l \in SabitRow, l.type \in ListingTypes, l.rate \in Rates,
         NEW a \in Nat, NEW b \in Nat
  PROVE  /\ OwnerHold(l, a + b) - OwnerHold(l, a) - OwnerHold(l, b) \in -1 .. 1
         /\ ~PriceRounds(l) =>
              OwnerHold(l, a + b) = OwnerHold(l, a) + OwnerHold(l, b)
  <1>1. CASE l.type = "SELL"
    BY <1>1 DEF OwnerHold
  <1>2. CASE l.type = "BUY"
    <2>1. NgnValue(a + b, l.rate) - NgnValue(a, l.rate) - NgnValue(b, l.rate) \in -1 .. 1
      BY NgnValueNearlyAdds DEF SabitRow
    <2>2. ASSUME ~PriceRounds(l)
          PROVE  NgnValue(a + b, l.rate) = NgnValue(a, l.rate) + NgnValue(b, l.rate)
      <3>1. PICK k \in Nat : l.rate = k * Cents
        <4>1. l.rate \in Nat /\ l.rate % Cents = 0
          BY <1>2, <2>2 DEF PriceRounds, SabitRow
        <4> QED
          BY <4>1, WholePrice
      <3>2. /\ NgnValue(a + b, l.rate) = (a + b) * k
            /\ NgnValue(a, l.rate) = a * k /\ NgnValue(b, l.rate) = b * k
        <4>1. a + b \in Nat
          OBVIOUS
        <4> QED
          BY <3>1, <4>1, WholeValue
      <3>3. (a + b) * k = a * k + b * k
        BY Z3
      <3> QED
        BY <3>2, <3>3
    <2> QED
      BY <1>2, <2>1, <2>2 DEF OwnerHold
  <1> QED
    BY <1>1, <1>2 DEF SabitRow

\* Nothing locks for nothing.
LEMMA HoldOfNothing ==
  ASSUME NEW l \in SabitRow
  PROVE  OwnerHold(l, 0) = 0
  <1>1. Cents \in Nat \ {0}
    BY EscrowAssumption
  <1>2. (0 * Cents + Cents \div 2) \div Cents = 0
    BY <1>1, HalfIsLess, DivisionIsExact
  <1>3. 0 * l.rate + Cents \div 2 = 0 * Cents + Cents \div 2
    BY <1>1, HalfIsLess DEF SabitRow
  <1> QED
    BY <1>2, <1>3 DEF OwnerHold, NgnValue

\* Tables are finite: there are finitely many ids.
LEMMA TablesAreFinite ==
  ASSUME IInv
  PROVE  /\ IsFiniteSet(DOMAIN sabits) /\ IsFiniteSet(DOMAIN trades)
         /\ IsFiniteSet(DOMAIN bids)
  BY EscrowAssumption, FS_Subset DEF IInv, TypeOK, IsTable

\* Claims are natural numbers.
LEMMA SabitClaimIsNat ==
  ASSUME NEW l \in SabitRow, NEW u, NEW c
  PROVE  SabitClaim(l, u, c) \in Nat
  <1>1. l.available \in Nat
    BY DEF SabitRow
  <1> QED
    BY <1>1, HoldsAreNat DEF SabitClaim

\* The same for trades.
LEMMA TradeClaimIsNat ==
  ASSUME NEW x \in TradeRow, NEW buy, NEW disp, NEW u, NEW c
  PROVE  TradeClaim(x, buy, disp, u, c) \in Nat /\ Overdraft(x, buy, disp, u, c) \in Nat
  BY DEF TradeRow, TradeClaim, Overdraft

\* The same for bids.
LEMMA BidClaimIsNat ==
  ASSUME NEW x \in BidRow, NEW u, NEW c
  PROVE  BidClaim(x, u, c) \in Nat
  BY DEF BidRow, BidClaim

\* So are their sums.
LEMMA ClaimsAreNat ==
  ASSUME IInv, NEW u, NEW c
  PROVE  /\ NatOn(SabitClaimOf(u, c), DOMAIN sabits)
         /\ NatOn(TradeClaimOf(u, c), DOMAIN trades)
         /\ NatOn(OverdraftOf(u, c), DOMAIN trades)
         /\ NatOn(SlackOf(u, c), DOMAIN trades)
         /\ NatOn(BidClaimOf(u, c), DOMAIN bids)
         /\ SabitClaims(u, c) \in Nat /\ TradeClaims(u, c) \in Nat
         /\ Overdrafts(u, c) \in Nat /\ Slacks(u, c) \in Nat
         /\ BidClaims(u, c) \in Nat
  <1>1. /\ \A s \in DOMAIN sabits : sabits[s] \in SabitRow
        /\ \A t \in DOMAIN trades : trades[t] \in TradeRow
        /\ \A b \in DOMAIN bids : bids[b] \in BidRow
    BY DEF IInv, TypeOK, IsTable
  <1>2. NatOn(SabitClaimOf(u, c), DOMAIN sabits)
    BY <1>1, SabitClaimIsNat DEF NatOn, SabitClaimOf
  <1>3. NatOn(TradeClaimOf(u, c), DOMAIN trades) /\ NatOn(OverdraftOf(u, c), DOMAIN trades)
    BY <1>1, TradeClaimIsNat DEF NatOn, TradeClaimOf, OverdraftOf
  <1>4. NatOn(BidClaimOf(u, c), DOMAIN bids)
    BY <1>1, BidClaimIsNat DEF NatOn, BidClaimOf
  <1>5. SabitClaims(u, c) \in Nat /\ BidClaims(u, c) \in Nat
    BY <1>2, <1>4, TablesAreFinite, TotalIsNat
    DEF SabitClaims, BidClaims, SabitClaimOf, BidClaimOf
  <1>6. TradeClaims(u, c) \in Nat /\ Overdrafts(u, c) \in Nat
    BY <1>3, TablesAreFinite, TotalIsNat
    DEF TradeClaims, Overdrafts, TradeClaimOf, OverdraftOf
  <1>7. NatOn(SlackOf(u, c), DOMAIN trades)
    BY DEF NatOn, SlackOf, Slack
  <1>8. Slacks(u, c) \in Nat
    BY <1>7, TablesAreFinite, TotalIsNat DEF Slacks, SlackOf
  <1> QED
    BY <1>2, <1>3, <1>4, <1>5, <1>6, <1>7, <1>8

\* The terms of Committed and Stranded that are about trades, row by row.
LEMMA TradesByRow ==
  ASSUME IInv, NEW u \in Users, NEW c \in Currencies,
         NEW For, For = {t \in DOMAIN trades :
           /\ trades[t].seller = u /\ trades[t].currency = c
           /\ \/ Open(trades[t])
              \/ trades[t].status = "cancelled" /\ IsBuyListing(trades[t])
              \/ trades[t].status = "completed" /\ ByDispute(t)},
         NEW By, By = {t \in DOMAIN trades :
           /\ trades[t].buyer = u
           /\ \/ Open(trades[t])
              \/ /\ trades[t].status = "cancelled" /\ ~ByDispute(t)
                 /\ ~IsBuyListing(trades[t])}
  PROVE  TradeClaims(u, c)
           = Total(Column(trades, "amount"), For)
               + (IF c = NGN THEN Total(Column(trades, "total"), By) ELSE 0)
  <1> DEFINE f == [t \in DOMAIN trades |-> IF t \in For THEN trades[t].amount ELSE 0]
             g == [t \in DOMAIN trades |-> IF c = NGN /\ t \in By THEN trades[t].total ELSE 0]
  <1>1. \A t \in DOMAIN trades : /\ trades[t] \in TradeRow
                                 /\ trades[t].currency # NGN
    BY WalletsAssumption DEF IInv, TypeOK, IsTable, TradeRow
  <1>2. NatOn(f, DOMAIN trades) /\ NatOn(g, DOMAIN trades)
    BY <1>1 DEF NatOn, TradeRow
  <1>3. ASSUME NEW t \in DOMAIN trades
        PROVE  TradeClaimOf(u, c)[t] = f[t] + g[t]
    <2>1. trades[t].amount \in Nat /\ trades[t].total \in Nat /\ trades[t].currency # NGN
      BY <1>1 DEF TradeRow
    <2>2. /\ t \in For <=>
               /\ trades[t].seller = u /\ trades[t].currency = c
               /\ \/ Open(trades[t])
                  \/ trades[t].status = "cancelled" /\ IsBuyListing(trades[t])
                  \/ trades[t].status = "completed" /\ ByDispute(t)
          /\ t \in By <=>
               /\ trades[t].buyer = u
               /\ \/ Open(trades[t])
                  \/ /\ trades[t].status = "cancelled" /\ ~ByDispute(t)
                     /\ ~IsBuyListing(trades[t])
      OBVIOUS
    <2>3. TradeClaimOf(u, c)[t] = TradeClaim(trades[t], IsBuyListing(trades[t]), ByDispute(t), u, c)
      BY DEF TradeClaimOf
    <2>4. /\ f[t] = IF t \in For THEN trades[t].amount ELSE 0
          /\ g[t] = IF c = NGN /\ t \in By THEN trades[t].total ELSE 0
      OBVIOUS
    <2> HIDE DEF f, g
    <2> QED
      BY <2>1, <2>2, <2>3, <2>4 DEF TradeClaim
  <1>4. TradeClaims(u, c) = Total(f, DOMAIN trades) + Total(g, DOMAIN trades)
    <2> HIDE DEF f, g
    <2> QED
      BY <1>2, <1>3, TablesAreFinite, TotalOfSum DEF TradeClaims, TradeClaimOf
  <1>5. Total(f, DOMAIN trades) = Total(Column(trades, "amount"), For)
    <2>1. For \subseteq DOMAIN trades
      OBVIOUS
    <2>2. \A t \in DOMAIN trades :
            f[t] = IF t \in For THEN Column(trades, "amount")[t] ELSE 0
      BY DEF Column
    <2> HIDE DEF f
    <2> QED
      BY <2>1, <2>2, TotalOfSome
  <1>6. Total(g, DOMAIN trades)
          = IF c = NGN THEN Total(Column(trades, "total"), By) ELSE 0
    <2> DEFINE T == IF c = NGN THEN By ELSE {}
    <2>1. T \subseteq DOMAIN trades
      OBVIOUS
    <2>2. \A t \in DOMAIN trades :
            g[t] = IF t \in T THEN Column(trades, "total")[t] ELSE 0
      BY DEF Column
    <2> HIDE DEF g
    <2>3. Total(g, DOMAIN trades) = Total(Column(trades, "total"), T)
      <3> HIDE DEF T
      <3> QED
        BY <2>1, <2>2, TotalOfSome
    <2> QED
      BY <2>3, TotalOfNothing
  <1> QED
    BY <1>4, <1>5, <1>6

\* The term about listings.
LEMMA SabitsByRow ==
  ASSUME IInv, NEW u \in Users, NEW c \in Currencies
  PROVE  SabitClaims(u, c)
           = Total(OwnerHolds, {s \in DOMAIN sabits :
                                  sabits[s].user = u /\ OwnerCurrency(sabits[s]) = c})
  <1> DEFINE T == {s \in DOMAIN sabits : sabits[s].user = u /\ OwnerCurrency(sabits[s]) = c}
  <1>1. \A s \in DOMAIN sabits :
          SabitClaimOf(u, c)[s] = IF s \in T THEN OwnerHolds[s] ELSE 0
    BY DEF SabitClaimOf, SabitClaim, OwnerHolds
  <1>2. T \subseteq DOMAIN sabits
    OBVIOUS
  <1> HIDE DEF T
  <1>3. Total(SabitClaimOf(u, c), DOMAIN sabits) = Total(OwnerHolds, T)
    BY <1>1, <1>2, TotalOfSome
  <1> QED
    BY <1>3 DEF SabitClaims, SabitClaimOf, T

\* The terms about bids.
LEMMA BidsByRow ==
  ASSUME IInv, NEW u \in Users, NEW c \in Currencies,
         NEW Pending, Pending = {b \in DOMAIN bids :
                         bids[b].status = "pending" /\ bids[b].buyer = u},
         NEW Accepted, Accepted = {b \in DOMAIN bids :
                         /\ bids[b].status = "accepted"
                         /\ bids[b].seller = u /\ bids[b].currency = c}
  PROVE  BidClaims(u, c)
           = Total(Column(bids, "amount"), Accepted)
               + (IF c = NGN THEN Total(Column(bids, "total"), Pending) ELSE 0)
  <1> DEFINE f == [b \in DOMAIN bids |-> IF b \in Accepted THEN bids[b].amount ELSE 0]
             g == [b \in DOMAIN bids |-> IF c = NGN /\ b \in Pending THEN bids[b].total ELSE 0]
  <1>1. \A b \in DOMAIN bids : bids[b] \in BidRow /\ bids[b].currency # NGN
    BY WalletsAssumption DEF IInv, TypeOK, IsTable, BidRow
  <1>2. NatOn(f, DOMAIN bids) /\ NatOn(g, DOMAIN bids)
    BY <1>1 DEF NatOn, BidRow
  <1>3. ASSUME NEW b \in DOMAIN bids
        PROVE  BidClaimOf(u, c)[b] = f[b] + g[b]
    <2>1. bids[b].amount \in Nat /\ bids[b].total \in Nat /\ bids[b].currency # NGN
      BY <1>1 DEF BidRow
    <2> QED
      BY <2>1 DEF BidClaimOf, BidClaim
  <1>4. BidClaims(u, c) = Total(f, DOMAIN bids) + Total(g, DOMAIN bids)
    <2> HIDE DEF f, g
    <2> QED
      BY <1>2, <1>3, TablesAreFinite, TotalOfSum DEF BidClaims, BidClaimOf
  <1>5. Total(f, DOMAIN bids) = Total(Column(bids, "amount"), Accepted)
    <2>1. Accepted \subseteq DOMAIN bids
      OBVIOUS
    <2>2. \A b \in DOMAIN bids :
            f[b] = IF b \in Accepted THEN Column(bids, "amount")[b] ELSE 0
      BY DEF Column
    <2> HIDE DEF f
    <2> QED
      BY <2>1, <2>2, TotalOfSome
  <1>6. Total(g, DOMAIN bids)
          = IF c = NGN THEN Total(Column(bids, "total"), Pending) ELSE 0
    <2> DEFINE T == IF c = NGN THEN Pending ELSE {}
    <2>1. T \subseteq DOMAIN bids
      OBVIOUS
    <2>2. \A b \in DOMAIN bids :
            g[b] = IF b \in T THEN Column(bids, "total")[b] ELSE 0
      BY DEF Column
    <2> HIDE DEF g
    <2>3. Total(g, DOMAIN bids) = Total(Column(bids, "total"), T)
      <3> HIDE DEF T
      <3> QED
        BY <2>1, <2>2, TotalOfSome
    <2> QED
      BY <2>3, TotalOfNothing
  <1> QED
    BY <1>4, <1>5, <1>6

\* Sums over disjoint sets of trades add up.
LEMMA AmountsAdd ==
  ASSUME IInv, NEW field \in {"amount", "total"}, NEW A, NEW B,
         A \subseteq DOMAIN trades, B \subseteq DOMAIN trades, A \cap B = {}
  PROVE  /\ Total(Column(trades, field), A \cup B)
              = Total(Column(trades, field), A) + Total(Column(trades, field), B)
         /\ Total(Column(trades, field), A) \in Nat
         /\ Total(Column(trades, field), B) \in Nat
  <1>1. IsFiniteSet(A) /\ IsFiniteSet(B)
    BY TablesAreFinite, FS_Subset
  <1>2. \A t \in DOMAIN trades : trades[t][field] \in Nat
    BY DEF IInv, TypeOK, IsTable, TradeRow
  <1>3. NatOn(Column(trades, field), A) /\ NatOn(Column(trades, field), B)
    BY <1>2 DEF NatOn, Column
  <1> QED
    BY <1>1, <1>3, TotalOfUnion, TotalIsNat

\* The sums of Escrow, row by row.
LEMMA BooksByRow ==
  ASSUME IInv, NEW u \in Users, NEW c \in Currencies
  PROVE  /\ Committed(u, c) + Stranded(u, c)
              = SabitClaims(u, c) + TradeClaims(u, c) + BidClaims(u, c)
         /\ Overdrawn(u, c) = Overdrafts(u, c)
         /\ Committed(u, c) \in Nat /\ Stranded(u, c) \in Nat
  <1> DEFINE amount == Column(trades, "amount")
             total == Column(trades, "total")
             OpenFor == {t \in DOMAIN trades :
                           /\ Open(trades[t])
                           /\ trades[t].seller = u /\ trades[t].currency = c}
             VoidFor == {t \in DOMAIN trades :
                           /\ trades[t].status = "cancelled" /\ IsBuyListing(trades[t])
                           /\ trades[t].seller = u /\ trades[t].currency = c}
             DoneFor == {t \in DOMAIN trades :
                           /\ trades[t].status = "completed" /\ ByDispute(t)
                           /\ trades[t].seller = u /\ trades[t].currency = c}
             OpenBy == {t \in DOMAIN trades : Open(trades[t]) /\ trades[t].buyer = u}
             VoidBy == {t \in DOMAIN trades :
                          /\ trades[t].status = "cancelled" /\ ~ByDispute(t)
                          /\ ~IsBuyListing(trades[t])
                          /\ trades[t].buyer = u}
             OverBy == {t \in DOMAIN trades :
                          /\ trades[t].status = "cancelled" /\ ByDispute(t)
                          /\ IsBuyListing(trades[t])
                          /\ trades[t].buyer = u}
             Owned == {s \in DOMAIN sabits :
                         sabits[s].user = u /\ OwnerCurrency(sabits[s]) = c}
             Pending == {b \in DOMAIN bids :
                           bids[b].status = "pending" /\ bids[b].buyer = u}
             Accepted == {b \in DOMAIN bids :
                            /\ bids[b].status = "accepted"
                            /\ bids[b].seller = u /\ bids[b].currency = c}
             For == {t \in DOMAIN trades :
                       /\ trades[t].seller = u /\ trades[t].currency = c
                       /\ \/ Open(trades[t])
                          \/ trades[t].status = "cancelled" /\ IsBuyListing(trades[t])
                          \/ trades[t].status = "completed" /\ ByDispute(t)}
             By == {t \in DOMAIN trades :
                      /\ trades[t].buyer = u
                      /\ \/ Open(trades[t])
                         \/ /\ trades[t].status = "cancelled" /\ ~ByDispute(t)
                            /\ ~IsBuyListing(trades[t])}
  <1>1. Committed(u, c)
          = Total(OwnerHolds, Owned) + Total(amount, OpenFor)
              + (IF c = NGN
                 THEN Total(total, OpenBy) + Total(Column(bids, "total"), Pending)
                 ELSE 0)
    BY DEF Committed, SabitsWhere, TradesWhere, BidsWhere
  <1>2. Stranded(u, c)
          = Total(Column(bids, "amount"), Accepted) + Total(amount, VoidFor)
              + Total(amount, DoneFor) + (IF c = NGN THEN Total(total, VoidBy) ELSE 0)
    BY DEF Stranded, TradesWhere, BidsWhere
  <1>3. /\ SabitClaims(u, c) = Total(OwnerHolds, Owned)
        /\ SabitClaims(u, c) \in Nat
    BY SabitsByRow, ClaimsAreNat
  <1>4. BidClaims(u, c)
          = Total(Column(bids, "amount"), Accepted)
              + (IF c = NGN THEN Total(Column(bids, "total"), Pending) ELSE 0)
    BY BidsByRow
  <1>5. /\ Total(Column(bids, "amount"), Accepted) \in Nat
        /\ Total(Column(bids, "total"), Pending) \in Nat
    <2>1. IsTable(bids, BidIds, BidRow) /\ IsFiniteSet(BidIds)
      BY EscrowAssumption DEF IInv, TypeOK
    <2>2. \A row \in BidRow : row["amount"] \in Nat /\ row["total"] \in Nat
      BY DEF BidRow
    <2>3. Accepted \in SUBSET DOMAIN bids /\ Pending \in SUBSET DOMAIN bids
      OBVIOUS
    <2> QED
      BY <2>1, <2>2, <2>3, ColumnSumIsNat
  <1>6. TradeClaims(u, c)
          = Total(amount, For) + (IF c = NGN THEN Total(total, By) ELSE 0)
    BY TradesByRow
  <1>7. /\ OpenFor \subseteq DOMAIN trades /\ VoidFor \subseteq DOMAIN trades
        /\ DoneFor \subseteq DOMAIN trades
        /\ OpenFor \cap VoidFor = {} /\ (OpenFor \cup VoidFor) \cap DoneFor = {}
        /\ OpenFor \cup VoidFor \subseteq DOMAIN trades
        /\ For = (OpenFor \cup VoidFor) \cup DoneFor
    BY DEF Open
  <1>8. /\ OpenBy \subseteq DOMAIN trades /\ VoidBy \subseteq DOMAIN trades
        /\ OpenBy \cap VoidBy = {} /\ By = OpenBy \cup VoidBy
    BY DEF Open
  <1>9. Overdrawn(u, c) = IF c = NGN THEN Total(total, OverBy) ELSE 0
    BY DEF Overdrawn, TradesWhere
  <1>10. Overdrafts(u, c) = IF c = NGN THEN Total(total, OverBy) ELSE 0
    <2> DEFINE T == IF c = NGN THEN OverBy ELSE {}
    <2>1. T \subseteq DOMAIN trades
      OBVIOUS
    <2>2. \A t \in DOMAIN trades :
            OverdraftOf(u, c)[t] = IF t \in T THEN total[t] ELSE 0
      BY DEF OverdraftOf, Overdraft, Column
    <2>3. Total(OverdraftOf(u, c), DOMAIN trades) = Total(total, T)
      <3> HIDE DEF T, total
      <3> QED
        BY <2>1, <2>2, TotalOfSome
    <2> QED
      BY <2>3, TotalOfNothing DEF Overdrafts, OverdraftOf
  <1> HIDE DEF amount, total, OpenFor, VoidFor, DoneFor, OpenBy, VoidBy, OverBy,
               Owned, Pending, Accepted, For, By
  <1>11. /\ Total(amount, For)
              = Total(amount, OpenFor) + Total(amount, VoidFor) + Total(amount, DoneFor)
         /\ Total(amount, OpenFor) \in Nat /\ Total(amount, VoidFor) \in Nat
         /\ Total(amount, DoneFor) \in Nat
    <2>1. /\ Total(amount, OpenFor \cup VoidFor)
               = Total(amount, OpenFor) + Total(amount, VoidFor)
          /\ Total(amount, OpenFor) \in Nat /\ Total(amount, VoidFor) \in Nat
      BY <1>7, AmountsAdd DEF amount
    <2>2. /\ Total(amount, (OpenFor \cup VoidFor) \cup DoneFor)
               = Total(amount, OpenFor \cup VoidFor) + Total(amount, DoneFor)
          /\ Total(amount, DoneFor) \in Nat
      BY <1>7, AmountsAdd DEF amount
    <2> QED
      BY <1>7, <2>1, <2>2
  <1>12. /\ Total(total, By) = Total(total, OpenBy) + Total(total, VoidBy)
         /\ Total(total, OpenBy) \in Nat /\ Total(total, VoidBy) \in Nat
    BY <1>8, AmountsAdd DEF total
  <1> QED
    BY <1>1, <1>2, <1>3, <1>4, <1>5, <1>6, <1>9, <1>10, <1>11, <1>12

-----------------------------------------------------------------------------
(***************************************************************************)
(* The books balanced, and what moves one of their terms: a wallet         *)
(* operation, or a row that changes or appears.                            *)
(***************************************************************************)
\* The books of <<u, c>>, row by row: every locked unit, and every unit released
\* twice, is the claim of a row, up to what rounding may do.
Held(u, c) == wallets[<<u, c>>].locked + Overdrafts(u, c)
Due(u, c) == SabitClaims(u, c) + TradeClaims(u, c) + BidClaims(u, c)
Balanced(u, c) ==
  Held(u, c) <= Due(u, c) + Slacks(u, c) /\ Due(u, c) <= Held(u, c) + Slacks(u, c)

Accounted == \A u \in Users, c \in Currencies : Balanced(u, c)

\* The same listing, whatever is available of it and whatever its status.
SameListing(l, k) ==
  k.user = l.user /\ k.type = l.type /\ k.currency = l.currency /\ k.rate = l.rate

\* Listings stay, and stay the same listings.
SabitsStand ==
  /\ DOMAIN sabits \subseteq DOMAIN sabits'
  /\ \A s \in DOMAIN sabits : SameListing(sabits[s], sabits'[s])

\* What WalletService.lock does to the locked balances.
LEMMA LockedAfterLock ==
  ASSUME NEW w \in WalletTable, NEW u \in Users, NEW c \in Currencies, NEW a \in Nat,
         NEW v \in Users, NEW d \in Currencies
  PROVE  Lock(w, u, c, a)[<<v, d>>].locked
           = w[<<v, d>>].locked + (IF v = u /\ d = c THEN a ELSE 0)
  <1>1. <<v, d>> \in Accounts /\ <<u, c>> \in Accounts /\ w[<<v, d>>].locked \in Nat
    BY DEF Accounts, WalletTable, WalletRow
  <1> QED
    BY <1>1 DEF Lock, WalletTable

\* What WalletService.unlock does to them.
LEMMA LockedAfterUnlock ==
  ASSUME NEW w \in WalletTable, NEW u \in Users, NEW c \in Currencies, NEW a \in Nat,
         NEW v \in Users, NEW d \in Currencies
  PROVE  Unlock(w, u, c, a)[<<v, d>>].locked
           = w[<<v, d>>].locked - (IF v = u /\ d = c THEN a ELSE 0)
  <1>1. <<v, d>> \in Accounts /\ <<u, c>> \in Accounts /\ w[<<v, d>>].locked \in Nat
    BY DEF Accounts, WalletTable, WalletRow
  <1> QED
    BY <1>1 DEF Unlock, WalletTable

\* What WalletService.transferFromLocked does to them.
LEMMA LockedAfterTransfer ==
  ASSUME NEW w \in WalletTable, NEW u \in Users, NEW to \in Users, u # to,
         NEW c \in Currencies, NEW a \in Nat,
         NEW v \in Users, NEW d \in Currencies
  PROVE  TransferFromLocked(w, u, to, c, a)[<<v, d>>].locked
           = w[<<v, d>>].locked - (IF v = u /\ d = c THEN a ELSE 0)
  <1>1. /\ <<v, d>> \in Accounts /\ <<u, c>> \in Accounts /\ <<to, c>> \in Accounts
        /\ w[<<v, d>>].locked \in Nat /\ <<u, c>> # <<to, c>>
    BY DEF Accounts, WalletTable, WalletRow
  <1>2. <<v, d>> = <<u, c>> <=> v = u /\ d = c
    OBVIOUS
  <1> QED
    BY <1>1, <1>2 DEF TransferFromLocked, WalletTable

\* What the two transfers of a settlement do to them.
LEMMA LockedAfterSettle ==
  ASSUME NEW w \in WalletTable, NEW x, Terms(x), CanSettle(w, x),
         NEW v \in Users, NEW d \in Currencies
  PROVE  Settle(w, x)[<<v, d>>].locked
           = w[<<v, d>>].locked
               - (IF v = x.buyer /\ d = NGN THEN x.total ELSE 0)
               - (IF v = x.seller /\ d = x.currency THEN x.amount ELSE 0)
  <1>1. NGN \in Currencies /\ x.currency \in Currencies
    BY DEF Currencies, Terms
  <1>2. AfterNgn(w, x) \in WalletTable
    BY NgnEffect DEF CanSettle
  <1>3. AfterNgn(w, x)[<<v, d>>].locked
          = w[<<v, d>>].locked - (IF v = x.buyer /\ d = NGN THEN x.total ELSE 0)
    BY <1>1, LockedAfterTransfer DEF AfterNgn, Terms
  <1>4. Settle(w, x)[<<v, d>>].locked
          = AfterNgn(w, x)[<<v, d>>].locked
              - (IF v = x.seller /\ d = x.currency THEN x.amount ELSE 0)
    BY <1>1, <1>2, LockedAfterTransfer DEF Settle, Terms
  <1> QED
    BY <1>3, <1>4

\* A listing from which n was taken claims less by what locks for n, up to the
\* rounding.
LEMMA ClaimOfPart ==
  ASSUME NEW l \in SabitRow, l.type \in ListingTypes, l.rate \in Rates,
         NEW k \in SabitRow, SameListing(l, k), NEW n \in Nat,
         l.available = k.available + n,
         NEW v \in Users, NEW d \in Currencies
  PROVE  \E e \in -Play(l, v, d) .. Play(l, v, d) :
           SabitClaim(l, v, d)
             = SabitClaim(k, v, d) + e
                 + (IF v = l.user /\ d = OwnerCurrency(l) THEN OwnerHold(l, n) ELSE 0)
  <1> DEFINE i == OwnerHold(l, k.available)
             j == OwnerHold(l, n)
             w == OwnerHold(l, l.available)
             e == IF v = l.user /\ d = OwnerCurrency(l) THEN w - i - j ELSE 0
  <1>1. k.available \in Nat /\ l.available \in Nat
    BY DEF SabitRow
  <1>2. /\ w - i - j \in -1 .. 1
        /\ ~PriceRounds(l) => w = i + j
    BY <1>1, HoldsNearlyAdd
  <1>3. OwnerHold(k, k.available) = i /\ OwnerCurrency(k) = OwnerCurrency(l)
    BY DEF SameListing, OwnerHold, OwnerCurrency
  <1>4. w \in Nat /\ i \in Nat /\ j \in Nat
    BY <1>1, HoldsAreNat
  <1>5. l.type \in {"SELL", "BUY"}
    BY DEF SabitRow
  <1>6. PriceRounds(l) => OwnerCurrency(l) = NGN
    BY DEF PriceRounds, OwnerCurrency
  <1> HIDE DEF w, i, j
  <1>7. e \in -Play(l, v, d) .. Play(l, v, d)
    BY <1>2, <1>4, <1>5, <1>6 DEF Play
  <1>8. SabitClaim(l, v, d)
          = SabitClaim(k, v, d) + e
              + (IF v = l.user /\ d = OwnerCurrency(l) THEN j ELSE 0)
    <2>1. /\ SabitClaim(l, v, d) = IF v = l.user /\ d = OwnerCurrency(l) THEN w ELSE 0
          /\ SabitClaim(k, v, d) = IF v = l.user /\ d = OwnerCurrency(l) THEN i ELSE 0
      BY <1>3 DEF SabitClaim, SameListing, w
    <2> QED
      BY <1>4, <2>1
  <1> QED
    BY <1>7, <1>8 DEF j

\* A listing changes: its claim is replaced.
LEMMA SabitMoves ==
  ASSUME IInv, NEW s \in DOMAIN sabits, NEW k \in SabitRow, SameListing(sabits[s], k),
         sabits' = [sabits EXCEPT ![s] = k], NEW u \in Users, NEW c \in Currencies
  PROVE  /\ SabitClaims(u, c)' + SabitClaim(sabits[s], u, c)
              = SabitClaims(u, c) + SabitClaim(k, u, c)
         /\ SabitClaims(u, c)' \in Nat
         /\ SabitsStand
  <1>1. DOMAIN sabits' = DOMAIN sabits /\ sabits'[s] = k
        /\ \A i \in DOMAIN sabits \ {s} : sabits'[i] = sabits[i]
    OBVIOUS
  <1>2. SabitClaimOf(u, c)'[s] = SabitClaim(k, u, c) /\ SabitClaim(k, u, c) \in Nat
    BY <1>1, SabitClaimIsNat DEF SabitClaimOf
  <1>3. \A i \in DOMAIN sabits \ {s} : SabitClaimOf(u, c)'[i] = SabitClaimOf(u, c)[i]
    BY <1>1 DEF SabitClaimOf
  <1>4. /\ Total(SabitClaimOf(u, c)', DOMAIN sabits) + SabitClaimOf(u, c)[s]
             = Total(SabitClaimOf(u, c), DOMAIN sabits) + SabitClaimOf(u, c)'[s]
        /\ Total(SabitClaimOf(u, c)', DOMAIN sabits) \in Nat
    BY <1>2, <1>3, TablesAreFinite, ClaimsAreNat, TotalOfChange
  <1>5. SabitsStand
    BY <1>1 DEF SabitsStand, SameListing
  <1> QED
    BY <1>1, <1>2, <1>4, <1>5 DEF SabitClaims, SabitClaimOf

\* A listing appears, with its claim.
LEMMA SabitAppears ==
  ASSUME IInv, NEW s, s \notin DOMAIN sabits, NEW k \in SabitRow,
         sabits' = Insert(sabits, s, k), NEW u \in Users, NEW c \in Currencies
  PROVE  /\ SabitClaims(u, c)' = SabitClaims(u, c) + SabitClaim(k, u, c)
         /\ SabitsStand
  <1>1. DOMAIN sabits' = DOMAIN sabits \cup {s} /\ sabits'[s] = k
        /\ \A i \in DOMAIN sabits : sabits'[i] = sabits[i]
    BY DEF Insert
  <1>2. SabitClaimOf(u, c)'[s] = SabitClaim(k, u, c) /\ SabitClaim(k, u, c) \in Nat
    BY <1>1, SabitClaimIsNat DEF SabitClaimOf
  <1>3. \A i \in DOMAIN sabits : SabitClaimOf(u, c)'[i] = SabitClaimOf(u, c)[i]
    BY <1>1 DEF SabitClaimOf
  <1>4. Total(SabitClaimOf(u, c)', DOMAIN sabits \cup {s})
          = Total(SabitClaimOf(u, c), DOMAIN sabits) + SabitClaimOf(u, c)'[s]
    BY <1>2, <1>3, TablesAreFinite, ClaimsAreNat, TotalOfOneMore
  <1>5. SabitsStand
    BY <1>1 DEF SabitsStand, SameListing
  <1> QED
    BY <1>1, <1>2, <1>4, <1>5 DEF SabitClaims, SabitClaimOf

\* Trades claim the same while they and the disputes stay.
LEMMA TradesStand ==
  ASSUME IInv, SabitsStand, trades' = trades, DOMAIN disputes' = DOMAIN disputes,
         NEW u \in Users, NEW c \in Currencies
  PROVE  /\ TradeClaims(u, c)' = TradeClaims(u, c) /\ Overdrafts(u, c)' = Overdrafts(u, c)
         /\ Slacks(u, c)' = Slacks(u, c)
  <1>1. \A t \in DOMAIN trades : /\ IsBuyListing(trades[t])' = IsBuyListing(trades[t])
                                 /\ Rounded(trades[t])' = Rounded(trades[t])
    BY DEF IInv, Related, SabitsStand, SameListing, IsBuyListing, Rounded, PriceRounds
  <1>2. \A t \in DOMAIN trades : /\ TradeClaimOf(u, c)'[t] = TradeClaimOf(u, c)[t]
                                 /\ OverdraftOf(u, c)'[t] = OverdraftOf(u, c)[t]
                                 /\ SlackOf(u, c)'[t] = SlackOf(u, c)[t]
    BY <1>1 DEF TradeClaimOf, OverdraftOf, SlackOf, ByDispute
  <1>3. TradeClaims(u, c)' = TradeClaims(u, c) /\ Overdrafts(u, c)' = Overdrafts(u, c)
    BY <1>2, TotalDependsOnRows DEF TradeClaims, Overdrafts, TradeClaimOf, OverdraftOf
  <1>4. Slacks(u, c)' = Slacks(u, c)
    BY <1>2, TotalDependsOnRows DEF Slacks, SlackOf
  <1> QED
    BY <1>3, <1>4

\* A trade gets another status, perhaps with a dispute: its claim is replaced.
LEMMA TradeMoved ==
  ASSUME IInv, SabitsStand, NEW t \in DOMAIN trades, NEW status \in TradeStatus,
         trades' = [trades EXCEPT ![t].status = status],
         DOMAIN disputes' \in {DOMAIN disputes, DOMAIN disputes \cup {t}},
         NEW y, y = [trades[t] EXCEPT !.status = status],
         NEW u \in Users, NEW c \in Currencies
  PROVE  /\ TradeClaims(u, c)' + TradeClaim(trades[t], IsBuyListing(trades[t]), ByDispute(t), u, c)
              = TradeClaims(u, c) + TradeClaim(y, IsBuyListing(trades[t]), ByDispute(t)', u, c)
         /\ Overdrafts(u, c)' + Overdraft(trades[t], IsBuyListing(trades[t]), ByDispute(t), u, c)
              = Overdrafts(u, c) + Overdraft(y, IsBuyListing(trades[t]), ByDispute(t)', u, c)
         /\ Slacks(u, c)' + Slack(trades[t], Rounded(trades[t]), u, c)
              = Slacks(u, c) + Slack(y, Rounded(trades[t]), u, c)
         /\ TradeClaims(u, c)' \in Nat /\ Overdrafts(u, c)' \in Nat
         /\ Slacks(u, c)' \in Nat
  <1>1. trades[t] \in TradeRow
    BY DEF IInv, TypeOK, IsTable
  <1>2. y \in TradeRow /\ y.sabit = trades[t].sabit
    BY <1>1 DEF TradeRow
  <1>3. /\ DOMAIN trades' = DOMAIN trades /\ trades'[t] = y
        /\ \A i \in DOMAIN trades \ {t} : trades'[i] = trades[i]
    OBVIOUS
  <1>4. /\ \A i \in DOMAIN trades : trades'[i].sabit = trades[i].sabit
        /\ \A i \in DOMAIN trades :
             /\ sabits'[trades[i].sabit].type = sabits[trades[i].sabit].type
             /\ sabits'[trades[i].sabit].rate = sabits[trades[i].sabit].rate
    BY <1>2, <1>3 DEF IInv, Related, SabitsStand, SameListing
  <1>5. \A i \in DOMAIN trades : /\ IsBuyListing(trades[i])' = IsBuyListing(trades[i])
                                 /\ Rounded(trades[i])' = Rounded(trades[i])
    BY <1>4 DEF IsBuyListing, Rounded, PriceRounds
  <1>6. \A i \in DOMAIN trades \ {t} : ByDispute(i)' = ByDispute(i)
    BY DEF ByDispute
  <1>7. \A i \in DOMAIN trades \ {t} : /\ TradeClaimOf(u, c)'[i] = TradeClaimOf(u, c)[i]
                                       /\ OverdraftOf(u, c)'[i] = OverdraftOf(u, c)[i]
                                       /\ SlackOf(u, c)'[i] = SlackOf(u, c)[i]
    BY <1>3, <1>5, <1>6 DEF TradeClaimOf, OverdraftOf, SlackOf
  <1>8. /\ TradeClaimOf(u, c)'[t]
             = TradeClaim(y, IsBuyListing(trades[t]), ByDispute(t)', u, c)
        /\ OverdraftOf(u, c)'[t]
             = Overdraft(y, IsBuyListing(trades[t]), ByDispute(t)', u, c)
        /\ SlackOf(u, c)'[t] = Slack(y, Rounded(trades[t]), u, c)
    BY <1>3, <1>5 DEF TradeClaimOf, OverdraftOf, SlackOf
  <1>9. /\ TradeClaimOf(u, c)'[t] \in Nat /\ OverdraftOf(u, c)'[t] \in Nat
        /\ SlackOf(u, c)'[t] \in Nat
    BY <1>2, <1>8, TradeClaimIsNat DEF Slack
  <1>10. /\ Total(TradeClaimOf(u, c)', DOMAIN trades) + TradeClaimOf(u, c)[t]
              = Total(TradeClaimOf(u, c), DOMAIN trades) + TradeClaimOf(u, c)'[t]
         /\ Total(TradeClaimOf(u, c)', DOMAIN trades) \in Nat
    BY <1>7, <1>9, TablesAreFinite, ClaimsAreNat, TotalOfChange
  <1>11. /\ Total(OverdraftOf(u, c)', DOMAIN trades) + OverdraftOf(u, c)[t]
              = Total(OverdraftOf(u, c), DOMAIN trades) + OverdraftOf(u, c)'[t]
         /\ Total(OverdraftOf(u, c)', DOMAIN trades) \in Nat
    BY <1>7, <1>9, TablesAreFinite, ClaimsAreNat, TotalOfChange
  <1>12. /\ Total(SlackOf(u, c)', DOMAIN trades) + SlackOf(u, c)[t]
              = Total(SlackOf(u, c), DOMAIN trades) + SlackOf(u, c)'[t]
         /\ Total(SlackOf(u, c)', DOMAIN trades) \in Nat
    BY <1>7, <1>9, TablesAreFinite, ClaimsAreNat, TotalOfChange
  <1>13. /\ Slacks(u, c)' + Slack(trades[t], Rounded(trades[t]), u, c)
               = Slacks(u, c) + Slack(y, Rounded(trades[t]), u, c)
         /\ Slacks(u, c)' \in Nat
    BY <1>3, <1>8, <1>12 DEF Slacks, SlackOf
  <1> QED
    BY <1>3, <1>8, <1>10, <1>11, <1>13
    DEF TradeClaims, TradeClaimOf, Overdrafts, OverdraftOf

\* A trade appears, with its claim and without a dispute.
LEMMA TradeAppears ==
  ASSUME IInv, SabitsStand, NEW t, t \notin DOMAIN trades, NEW y \in TradeRow,
         y.sabit \in DOMAIN sabits, trades' = Insert(trades, t, y), UNCHANGED disputes,
         NEW u \in Users, NEW c \in Currencies
  PROVE  /\ TradeClaims(u, c)'
              = TradeClaims(u, c) + TradeClaim(y, IsBuyListing(y), ByDispute(t)', u, c)
         /\ Overdrafts(u, c)' = Overdrafts(u, c) /\ ~ByDispute(t)'
         /\ Slacks(u, c)' = Slacks(u, c) + Slack(y, Rounded(y), u, c)
  <1>1. /\ DOMAIN trades' = DOMAIN trades \cup {t} /\ trades'[t] = y
        /\ \A i \in DOMAIN trades : trades'[i] = trades[i]
    BY DEF Insert
  <1>2. /\ \A i \in DOMAIN trades : /\ IsBuyListing(trades[i])' = IsBuyListing(trades[i])
                                    /\ Rounded(trades[i])' = Rounded(trades[i])
        /\ IsBuyListing(trades[t])' = IsBuyListing(y) /\ Rounded(trades[t])' = Rounded(y)
    <2>1. /\ \A i \in DOMAIN trades :
               /\ sabits'[trades[i].sabit].type = sabits[trades[i].sabit].type
               /\ sabits'[trades[i].sabit].rate = sabits[trades[i].sabit].rate
          /\ sabits'[y.sabit].type = sabits[y.sabit].type
          /\ sabits'[y.sabit].rate = sabits[y.sabit].rate
      BY DEF IInv, Related, SabitsStand, SameListing
    <2> QED
      BY <1>1, <2>1 DEF IsBuyListing, Rounded, PriceRounds
  <1>3. (\A i \in DOMAIN trades : ByDispute(i)' = ByDispute(i)) /\ ~ByDispute(t)'
    BY DEF ByDispute, IInv, Related
  <1>4. \A i \in DOMAIN trades : /\ TradeClaimOf(u, c)'[i] = TradeClaimOf(u, c)[i]
                                 /\ OverdraftOf(u, c)'[i] = OverdraftOf(u, c)[i]
                                 /\ SlackOf(u, c)'[i] = SlackOf(u, c)[i]
    BY <1>1, <1>2, <1>3 DEF TradeClaimOf, OverdraftOf, SlackOf
  <1>5. /\ TradeClaimOf(u, c)'[t] = TradeClaim(y, IsBuyListing(y), ByDispute(t)', u, c)
        /\ OverdraftOf(u, c)'[t] = 0
        /\ SlackOf(u, c)'[t] = Slack(y, Rounded(y), u, c)
    BY <1>1, <1>2, <1>3 DEF TradeClaimOf, OverdraftOf, Overdraft, SlackOf
  <1>6. /\ TradeClaimOf(u, c)'[t] \in Nat /\ OverdraftOf(u, c)'[t] \in Nat
        /\ SlackOf(u, c)'[t] \in Nat
    BY <1>5 DEF TradeClaim, TradeRow, Slack
  <1>7. /\ IsFiniteSet(DOMAIN trades)
        /\ NatOn(TradeClaimOf(u, c), DOMAIN trades) /\ NatOn(OverdraftOf(u, c), DOMAIN trades)
        /\ NatOn(SlackOf(u, c), DOMAIN trades)
    BY TablesAreFinite, ClaimsAreNat
  <1>8. Total(TradeClaimOf(u, c)', DOMAIN trades \cup {t})
           = Total(TradeClaimOf(u, c), DOMAIN trades) + TradeClaimOf(u, c)'[t]
    BY <1>4, <1>6, <1>7, TotalOfOneMore
  <1>9. /\ Total(OverdraftOf(u, c)', DOMAIN trades \cup {t})
             = Total(OverdraftOf(u, c), DOMAIN trades) + OverdraftOf(u, c)'[t]
        /\ Total(OverdraftOf(u, c), DOMAIN trades) \in Nat
    BY <1>4, <1>6, <1>7, TotalOfOneMore
  <1>10. Slacks(u, c)' = Slacks(u, c) + Slack(y, Rounded(y), u, c)
    <2>1. Total(SlackOf(u, c)', DOMAIN trades \cup {t})
            = Total(SlackOf(u, c), DOMAIN trades) + SlackOf(u, c)'[t]
      <3>1. /\ \A i \in DOMAIN trades : SlackOf(u, c)'[i] = SlackOf(u, c)[i]
            /\ SlackOf(u, c)'[t] \in Nat
            /\ IsFiniteSet(DOMAIN trades) /\ NatOn(SlackOf(u, c), DOMAIN trades)
        BY <1>4, <1>6, <1>7
      <3> QED
        BY <3>1, TotalOfOneMore
    <2>2. Slacks(u, c)' = Total(SlackOf(u, c)', DOMAIN trades \cup {t})
      BY <1>1 DEF Slacks, SlackOf
    <2>3. Slacks(u, c) = Total(SlackOf(u, c), DOMAIN trades)
      BY DEF Slacks
    <2> QED
      BY <1>5, <2>1, <2>2, <2>3
  <1> QED
    BY <1>1, <1>3, <1>5, <1>8, <1>9, <1>10
    DEF TradeClaims, TradeClaimOf, Overdrafts, OverdraftOf

\* A bid changes: its claim is replaced.
LEMMA BidMoves ==
  ASSUME IInv, NEW b \in DOMAIN bids,
         NEW y \in BidRow, bids' = [bids EXCEPT ![b] = y],
         NEW u \in Users, NEW c \in Currencies
  PROVE  /\ BidClaims(u, c)' + BidClaim(bids[b], u, c) = BidClaims(u, c) + BidClaim(y, u, c)
         /\ BidClaims(u, c)' \in Nat
  <1>1. /\ DOMAIN bids' = DOMAIN bids /\ bids'[b] = y
        /\ \A i \in DOMAIN bids \ {b} : bids'[i] = bids[i]
    OBVIOUS
  <1>2. \A i \in DOMAIN bids \ {b} : BidClaimOf(u, c)'[i] = BidClaimOf(u, c)[i]
    BY <1>1 DEF BidClaimOf
  <1>3. BidClaimOf(u, c)'[b] = BidClaim(y, u, c) /\ BidClaim(y, u, c) \in Nat
    BY <1>1, BidClaimIsNat DEF BidClaimOf
  <1>4. /\ Total(BidClaimOf(u, c)', DOMAIN bids) + BidClaimOf(u, c)[b]
             = Total(BidClaimOf(u, c), DOMAIN bids) + BidClaimOf(u, c)'[b]
        /\ Total(BidClaimOf(u, c)', DOMAIN bids) \in Nat
    BY <1>2, <1>3, TablesAreFinite, ClaimsAreNat, TotalOfChange
  <1> QED
    BY <1>1, <1>3, <1>4 DEF BidClaims, BidClaimOf

\* A bid appears, with its claim.
LEMMA BidAppears ==
  ASSUME IInv, NEW b, b \notin DOMAIN bids, NEW y \in BidRow,
         bids' = Insert(bids, b, y), NEW u \in Users, NEW c \in Currencies
  PROVE  BidClaims(u, c)' = BidClaims(u, c) + BidClaim(y, u, c)
  <1>1. /\ DOMAIN bids' = DOMAIN bids \cup {b} /\ bids'[b] = y
        /\ \A i \in DOMAIN bids : bids'[i] = bids[i]
    BY DEF Insert
  <1>2. \A i \in DOMAIN bids : BidClaimOf(u, c)'[i] = BidClaimOf(u, c)[i]
    BY <1>1 DEF BidClaimOf
  <1>3. BidClaimOf(u, c)'[b] = BidClaim(y, u, c) /\ BidClaim(y, u, c) \in Nat
    BY <1>1, BidClaimIsNat DEF BidClaimOf
  <1>4. Total(BidClaimOf(u, c)', DOMAIN bids \cup {b})
          = Total(BidClaimOf(u, c), DOMAIN bids) + BidClaimOf(u, c)'[b]
    BY <1>2, <1>3, TablesAreFinite, ClaimsAreNat, TotalOfOneMore
  <1> QED
    BY <1>1, <1>3, <1>4 DEF BidClaims, BidClaimOf

-----------------------------------------------------------------------------
(***************************************************************************)
(* The inductive invariant of the books, and the steps of the marketplace  *)
(* that it survives, one by one.                                           *)
(***************************************************************************)
\* What every step keeps.
BInv == IInv /\ Origins /\ Accounted

\* With no rows there is no claim, and nothing is locked at the start.
LEMMA InitBooks == Init => Origins /\ Accounted
  <1> SUFFICES ASSUME Init PROVE Origins /\ Accounted
    OBVIOUS
  <1>1. DOMAIN sabits = {} /\ DOMAIN trades = {} /\ DOMAIN bids = {}
    BY DEF Init
  <1>2. Origins
    BY <1>1 DEF Origins
  <1>3. ASSUME NEW u \in Users, NEW c \in Currencies
        PROVE  Balanced(u, c)
    <2>1. /\ SabitClaims(u, c) = 0 /\ TradeClaims(u, c) = 0 /\ Slacks(u, c) = 0
          /\ BidClaims(u, c) = 0 /\ Overdrafts(u, c) = 0
      BY <1>1, TotalOfNothing
      DEF SabitClaims, SabitClaimOf, TradeClaims, TradeClaimOf, BidClaims, BidClaimOf,
          Overdrafts, OverdraftOf, Slacks, SlackOf
    <2>2. wallets[<<u, c>>].locked = 0
      BY DEF Init, Accounts
    <2> QED
      BY <2>1, <2>2 DEF Balanced, Held, Due
  <1> QED
    BY <1>2, <1>3 DEF Accounted

\* What every step starts from.
LEMMA AccountBefore ==
  ASSUME BInv, NEW v \in Users, NEW d \in Currencies
  PROVE  /\ wallets \in WalletTable /\ wallets[<<v, d>>].locked \in Nat
         /\ SabitClaims(v, d) \in Nat /\ TradeClaims(v, d) \in Nat
         /\ Overdrafts(v, d) \in Nat /\ BidClaims(v, d) \in Nat
         /\ Slacks(v, d) \in Nat
         /\ Balanced(v, d)
  <1>1. wallets \in WalletTable
    BY DEF BInv, IInv, TypeOK
  <1>2. wallets[<<v, d>>].locked \in Nat
    BY <1>1 DEF WalletTable, WalletRow, Accounts
  <1> QED
    BY <1>1, <1>2, ClaimsAreNat DEF BInv, Accounted

\* What a step has to do to keep the books: the two sides move together, or
\* drift apart by no more than the slack grows.
LEMMA BooksMove ==
  ASSUME BInv, NEW v \in Users, NEW d \in Currencies,
         NEW e \in Int, NEW g \in Nat, -g <= e, e <= g,
         Held(v, d)' - Due(v, d)' = Held(v, d) - Due(v, d) + e,
         Held(v, d)' \in Int, Due(v, d)' \in Int,
         Slacks(v, d)' = Slacks(v, d) + g
  PROVE  Balanced(v, d)'
  <1>1. Held(v, d) \in Int /\ Due(v, d) \in Int /\ Slacks(v, d) \in Nat
    BY AccountBefore DEF Held, Due
  <1>2. /\ Held(v, d) <= Due(v, d) + Slacks(v, d)
        /\ Due(v, d) <= Held(v, d) + Slacks(v, d)
    BY AccountBefore DEF Balanced
  <1>3. /\ Held(v, d)' <= Due(v, d)' + Slacks(v, d)'
        /\ Due(v, d)' <= Held(v, d)' + Slacks(v, d)'
    BY <1>1, <1>2
  <1> QED
    BY <1>3 DEF Balanced

\* The usual case: the two sides move together.
LEMMA BooksStay ==
  ASSUME BInv, NEW v \in Users, NEW d \in Currencies,
         Held(v, d)' - Due(v, d)' = Held(v, d) - Due(v, d),
         Held(v, d)' \in Int, Due(v, d)' \in Int,
         Slacks(v, d)' = Slacks(v, d)
  PROVE  Balanced(v, d)'
  <1>1. Held(v, d) \in Int /\ Due(v, d) \in Int /\ Slacks(v, d) \in Nat
    BY AccountBefore DEF Held, Due
  <1>2. /\ Held(v, d)' - Due(v, d)' = Held(v, d) - Due(v, d) + 0
        /\ Slacks(v, d)' = Slacks(v, d) + 0
    BY <1>1
  <1> QED
    BY <1>2, BooksMove

\* The listings that steps work on are well formed.
LEMMA ListingsAre ==
  ASSUME BInv
  PROVE  /\ sabits = [s \in DOMAIN sabits |-> sabits[s]]
         /\ \A s \in DOMAIN sabits : /\ sabits[s] \in SabitRow
                                     /\ sabits[s].type \in ListingTypes
                                     /\ sabits[s].rate \in Rates
         /\ \A t \in DOMAIN trades : trades[t].sabit \in DOMAIN sabits
         /\ \A b \in DOMAIN bids : bids[b].sabit \in DOMAIN sabits
  BY DEF BInv, IInv, TypeOK, IsTable, Related, Origins

\* createSabit locks what the new listing claims.
LEMMA CreateSabitBooks ==
  ASSUME BInv, NEW u \in Users, NEW s \in SabitIds, NEW type \in ListingTypes,
         NEW c \in Foreign, NEW a \in Amounts, NEW r \in Rates,
         CreateSabit(u, s, type, c, a, r)
  PROVE  Accounted'
  <1> DEFINE l == [user |-> u, type |-> type, currency |-> c, amount |-> a,
                   available |-> a, rate |-> r, status |-> "active"]
  <1>1. l \in SabitRow /\ a \in Nat /\ l.user = u /\ l.available = a
    BY EscrowAssumption DEF SabitRow
  <1>2. /\ s \notin DOMAIN sabits
        /\ wallets' = Lock(wallets, u, OwnerCurrency(l), OwnerHold(l, a))
        /\ sabits' = Insert(sabits, s, l)
        /\ UNCHANGED <<pinSet, trades, bids, disputes>>
    BY DEF CreateSabit
  <1> HIDE DEF l
  <1> SUFFICES ASSUME NEW v \in Users, NEW d \in Currencies
               PROVE  Balanced(v, d)'
    BY DEF Accounted
  <1>3. OwnerHold(l, a) \in Nat /\ OwnerCurrency(l) \in Currencies
    BY <1>1, HoldsAreNat
  <1>4. wallets'[<<v, d>>].locked
          = wallets[<<v, d>>].locked
              + (IF v = u /\ d = OwnerCurrency(l) THEN OwnerHold(l, a) ELSE 0)
    BY <1>2, <1>3, AccountBefore, LockedAfterLock
  <1>5. SabitClaims(v, d)' = SabitClaims(v, d) + SabitClaim(l, v, d) /\ SabitsStand
    BY <1>1, <1>2, SabitAppears DEF BInv
  <1>6. /\ TradeClaims(v, d)' = TradeClaims(v, d) /\ Overdrafts(v, d)' = Overdrafts(v, d)
        /\ Slacks(v, d)' = Slacks(v, d)
    BY <1>2, <1>5, TradesStand DEF BInv
  <1>7. BidClaims(v, d)' = BidClaims(v, d)
    BY <1>2 DEF BidClaims, BidClaimOf
  <1>8. SabitClaim(l, v, d)
          = IF v = u /\ d = OwnerCurrency(l) THEN OwnerHold(l, a) ELSE 0
    BY <1>1 DEF SabitClaim
  <1>9. SabitClaim(l, v, d) \in Nat
    BY <1>1, SabitClaimIsNat
  <1>10. /\ Held(v, d)' - Due(v, d)' = Held(v, d) - Due(v, d)
         /\ Held(v, d)' \in Int /\ Due(v, d)' \in Int
    BY <1>3, <1>4, <1>5, <1>6, <1>7, <1>8, <1>9, AccountBefore DEF Held, Due
  <1> QED
    BY <1>6, <1>10, BooksStay

\* cancelSabit unlocks what the listing claims no more.
LEMMA CancelSabitBooks ==
  ASSUME BInv, NEW u \in Users, NEW s \in SabitIds, CancelSabit(u, s)
  PROVE  Accounted'
  <1> DEFINE l == sabits[s]
             k == [l EXCEPT !.status = "cancelled", !.available = 0]
             n == l.available
  <1>1. s \in DOMAIN sabits /\ l \in SabitRow /\ k \in SabitRow /\ l.user = u
        /\ l.type \in ListingTypes /\ l.rate \in Rates /\ n \in Nat
        /\ k.available = 0 /\ SameListing(l, k)
    BY ListingsAre DEF CancelSabit, SabitRow, SameListing
  <1>2. sabits' = [sabits EXCEPT ![s] = k] /\ UNCHANGED <<pinSet, trades, bids, disputes>>
    BY <1>1, ListingsAre DEF CancelSabit, SabitRow
  <1>3. wallets' = IF n > 0 THEN Unlock(wallets, u, OwnerCurrency(l), OwnerHold(l, n))
                   ELSE wallets
    BY DEF CancelSabit
  <1> HIDE DEF l, k, n
  <1> SUFFICES ASSUME NEW v \in Users, NEW d \in Currencies
               PROVE  Balanced(v, d)'
    BY DEF Accounted
  <1>4. OwnerHold(l, n) \in Nat /\ OwnerCurrency(l) \in Currencies /\ OwnerHold(l, 0) = 0
    BY <1>1, HoldsAreNat, HoldOfNothing
  <1>5. wallets'[<<v, d>>].locked
          = wallets[<<v, d>>].locked
              - (IF v = u /\ d = OwnerCurrency(l) THEN OwnerHold(l, n) ELSE 0)
    <2>1. CASE n > 0
      BY <1>3, <1>4, <2>1, AccountBefore, LockedAfterUnlock
    <2>2. CASE ~(n > 0)
      <3>1. n = 0
        BY <1>1, <2>2
      <3> QED
        BY <1>3, <1>4, <2>2, <3>1, AccountBefore
    <2> QED
      BY <2>1, <2>2
  <1>6. /\ SabitClaims(v, d)' + SabitClaim(l, v, d) = SabitClaims(v, d) + SabitClaim(k, v, d)
        /\ SabitClaims(v, d)' \in Nat /\ SabitsStand
    BY <1>1, <1>2, SabitMoves DEF BInv, l
  <1>7. SabitClaim(l, v, d) = SabitClaim(k, v, d)
          + (IF v = u /\ d = OwnerCurrency(l) THEN OwnerHold(l, n) ELSE 0)
    <2>1. OwnerHold(k, 0) = 0 /\ k.user = l.user /\ OwnerCurrency(k) = OwnerCurrency(l)
      BY <1>1, HoldOfNothing DEF SameListing, OwnerCurrency
    <2>2. SabitClaim(k, v, d) = 0
      BY <1>1, <2>1 DEF SabitClaim
    <2>3. SabitClaim(l, v, d)
            = IF v = u /\ d = OwnerCurrency(l) THEN OwnerHold(l, n) ELSE 0
      BY <1>1 DEF SabitClaim, n
    <2> QED
      BY <1>4, <2>2, <2>3
  <1>8. /\ TradeClaims(v, d)' = TradeClaims(v, d) /\ Overdrafts(v, d)' = Overdrafts(v, d)
        /\ Slacks(v, d)' = Slacks(v, d)
    BY <1>2, <1>6, TradesStand DEF BInv
  <1>9. BidClaims(v, d)' = BidClaims(v, d)
    BY <1>2 DEF BidClaims, BidClaimOf
  <1>10. SabitClaim(k, v, d) \in Nat
    BY <1>1, SabitClaimIsNat
  <1>11. /\ Held(v, d)' - Due(v, d)' = Held(v, d) - Due(v, d)
         /\ Held(v, d)' \in Int /\ Due(v, d)' \in Int
    <2>1. /\ wallets[<<v, d>>].locked \in Nat
          /\ SabitClaims(v, d) \in Nat /\ TradeClaims(v, d) \in Nat
          /\ Overdrafts(v, d) \in Nat /\ BidClaims(v, d) \in Nat
      BY AccountBefore
    <2> QED
      BY <1>4, <1>5, <1>6, <1>7, <1>8, <1>9, <1>10, <2>1 DEF Held, Due
  <1> QED
    BY <1>8, <1>11, BooksStay

\* initiateTrade: the listing's claim shrinks by what the trade claims of the
\* owner, and the other side's part is locked.
LEMMA InitiateTradeBooks ==
  ASSUME BInv, NEW u \in Users, NEW s \in SabitIds, NEW t \in TradeIds,
         NEW a \in Amounts, InitiateTrade(u, s, t, a)
  PROVE  Accounted'
  <1> DEFINE l == sabits[s]
             k == Take(l, a)
             x == [sabit |-> s,
                   buyer |-> IF l.type = "SELL" THEN u ELSE l.user,
                   seller |-> IF l.type = "SELL" THEN l.user ELSE u,
                   currency |-> l.currency, amount |-> a,
                   total |-> NgnValue(a, l.rate),
                   status |-> "escrowed", expired |-> FALSE]
  <1>1. /\ s \in DOMAIN sabits /\ l \in SabitRow /\ a \in Nat /\ l.available >= a
        /\ l.type \in ListingTypes /\ l.rate \in Rates /\ l.user # u
    BY EscrowAssumption, ListingsAre DEF InitiateTrade
  <1>2. NgnValue(a, l.rate) \in Nat /\ l.user \in Users /\ l.currency \in Foreign
    BY <1>1, NgnValueIsNat DEF SabitRow
  <1>3. k \in SabitRow /\ SameListing(l, k) /\ l.available = k.available + a
    <2>1. l.available - a \in Nat /\ l.available = (l.available - a) + a
      BY <1>1 DEF SabitRow
    <2> QED
      BY <1>1, <2>1 DEF Take, SabitRow, SameListing
  <1>4. x \in TradeRow
    BY <1>1, <1>2 DEF TradeRow, SabitRow, TradeStatus
  <1>5. /\ t \notin DOMAIN trades /\ trades' = Insert(trades, t, x)
        /\ sabits' = [sabits EXCEPT ![s] = k]
        /\ wallets' = Lock(wallets, u, TakerCurrency(l), TakerHold(l, a))
        /\ UNCHANGED <<pinSet, bids, disputes>>
    BY DEF InitiateTrade
  <1>6. /\ x.sabit = s /\ x.currency = l.currency /\ x.amount = a
        /\ x.total = NgnValue(a, l.rate) /\ x.status = "escrowed"
        /\ l.type = "SELL" => x.buyer = u /\ x.seller = l.user
        /\ l.type # "SELL" => x.buyer = l.user /\ x.seller = u
    OBVIOUS
  <1> HIDE DEF l, k, x
  <1> SUFFICES ASSUME NEW v \in Users, NEW d \in Currencies
               PROVE  Balanced(v, d)'
    BY DEF Accounted
  <1>7. wallets'[<<v, d>>].locked
          = wallets[<<v, d>>].locked
              + (IF v = u /\ d = TakerCurrency(l) THEN TakerHold(l, a) ELSE 0)
    BY <1>1, <1>5, HoldsAreNat, AccountBefore, LockedAfterLock
  <1>8. /\ SabitClaims(v, d)' + SabitClaim(l, v, d) = SabitClaims(v, d) + SabitClaim(k, v, d)
        /\ SabitClaims(v, d)' \in Nat /\ SabitsStand
    BY <1>1, <1>3, <1>5, SabitMoves DEF BInv, l
  <1>9. PICK e \in -Play(l, v, d) .. Play(l, v, d) :
          SabitClaim(l, v, d)
            = SabitClaim(k, v, d) + e
                + (IF v = l.user /\ d = OwnerCurrency(l) THEN OwnerHold(l, a) ELSE 0)
    BY <1>1, <1>3, ClaimOfPart
  <1>10. /\ TradeClaims(v, d)'
              = TradeClaims(v, d) + TradeClaim(x, IsBuyListing(x), ByDispute(t)', v, d)
         /\ Overdrafts(v, d)' = Overdrafts(v, d) /\ ~ByDispute(t)'
         /\ Slacks(v, d)' = Slacks(v, d) + Slack(x, Rounded(x), v, d)
    BY <1>1, <1>4, <1>5, <1>6, <1>8, TradeAppears DEF BInv
  <1>11. BidClaims(v, d)' = BidClaims(v, d)
    BY <1>5 DEF BidClaims, BidClaimOf
  <1>12. TradeClaim(x, IsBuyListing(x), ByDispute(t)', v, d)
           = (IF v = u /\ d = TakerCurrency(l) THEN TakerHold(l, a) ELSE 0)
               + (IF v = l.user /\ d = OwnerCurrency(l) THEN OwnerHold(l, a) ELSE 0)
    <2>1. TradeClaim(x, IsBuyListing(x), ByDispute(t)', v, d)
            = IF x.seller = v /\ x.currency = d THEN a
              ELSE IF d = NGN /\ x.buyer = v THEN NgnValue(a, l.rate) ELSE 0
      BY <1>6, <1>10 DEF TradeClaim, Open
    <2>2. l.currency # NGN
      BY <1>2, WalletsAssumption
    <2>3. a \in Nat /\ NgnValue(a, l.rate) \in Nat
      BY <1>1, <1>2
    <2>4. CASE l.type = "SELL"
      <3>1. /\ TakerCurrency(l) = NGN /\ TakerHold(l, a) = NgnValue(a, l.rate)
            /\ OwnerCurrency(l) = l.currency /\ OwnerHold(l, a) = a
        BY <2>4 DEF TakerCurrency, TakerHold, OwnerCurrency, OwnerHold
      <3>2. x.buyer = u /\ x.seller = l.user /\ x.currency = l.currency
        BY <1>6, <2>4
      <3>3. l.user # u
        BY <1>1
      <3> QED
        BY <2>1, <2>2, <2>3, <3>1, <3>2, <3>3
    <2>5. CASE l.type # "SELL"
      <3>1. /\ OwnerCurrency(l) = NGN /\ OwnerHold(l, a) = NgnValue(a, l.rate)
            /\ TakerCurrency(l) = l.currency /\ TakerHold(l, a) = a
        BY <2>5 DEF TakerCurrency, TakerHold, OwnerCurrency, OwnerHold
      <3>2. x.buyer = l.user /\ x.seller = u /\ x.currency = l.currency
        BY <1>6, <2>5
      <3>3. l.user # u
        BY <1>1
      <3> QED
        BY <2>1, <2>2, <2>3, <3>1, <3>2, <3>3
    <2> QED
      BY <2>4, <2>5
  <1> DEFINE p == IF v = u /\ d = TakerCurrency(l) THEN TakerHold(l, a) ELSE 0
             q == IF v = l.user /\ d = OwnerCurrency(l) THEN OwnerHold(l, a) ELSE 0
  <1>13. SabitClaim(k, v, d) \in Nat /\ p \in Nat /\ q \in Nat
    BY <1>1, <1>3, SabitClaimIsNat, HoldsAreNat
  <1>14. /\ wallets'[<<v, d>>].locked = wallets[<<v, d>>].locked + p
         /\ SabitClaim(l, v, d) = SabitClaim(k, v, d) + e + q
         /\ TradeClaim(x, IsBuyListing(x), ByDispute(t)', v, d) = p + q
    BY <1>7, <1>9, <1>12
  <1> HIDE DEF p, q
  <1>15. /\ wallets[<<v, d>>].locked \in Nat
         /\ SabitClaims(v, d) \in Nat /\ TradeClaims(v, d) \in Nat
         /\ Overdrafts(v, d) \in Nat /\ BidClaims(v, d) \in Nat
    BY AccountBefore
  <1>16. /\ SabitClaims(v, d)' + q + e = SabitClaims(v, d)
         /\ TradeClaims(v, d)' = TradeClaims(v, d) + (p + q)
    BY <1>8, <1>10, <1>13, <1>14, <1>15
  <1>17. /\ Held(v, d)' - Due(v, d)' = Held(v, d) - Due(v, d) + e
         /\ Held(v, d)' \in Int /\ Due(v, d)' \in Int
    BY <1>8, <1>10, <1>11, <1>13, <1>14, <1>15, <1>16 DEF Held, Due
  <1>18. Slack(x, Rounded(x), v, d) = Play(l, v, d)
    <2>1. Rounded(x) <=> PriceRounds(l)
      BY <1>6 DEF Rounded, l
    <2>2. PriceRounds(l) => x.buyer = l.user
      BY <1>6 DEF PriceRounds
    <2> QED
      BY <1>6, <2>1, <2>2 DEF Slack, Play
  <1>19. Play(l, v, d) \in Nat /\ e \in Int /\ -Play(l, v, d) <= e /\ e <= Play(l, v, d)
    <2>1. Play(l, v, d) \in Nat
      BY DEF Play
    <2> QED
      BY <2>1
  <1> QED
    BY <1>10, <1>17, <1>18, <1>19, BooksMove

\* sellerConfirmTrade pays out what the trade claims.
LEMMA SellerConfirmTradeBooks ==
  ASSUME BInv, NEW u \in Users, NEW t \in TradeIds, SellerConfirmTrade(u, t)
  PROVE  Accounted'
  <1> DEFINE x == trades[t]
             y == [x EXCEPT !.status = "completed"]
  <1>1. /\ t \in DOMAIN trades /\ CanSettle(wallets, x) /\ x.status = "escrowed"
        /\ wallets' = Settle(wallets, x)
        /\ trades' = [trades EXCEPT ![t].status = "completed"]
        /\ UNCHANGED <<pinSet, sabits, bids, disputes>>
    BY DEF SellerConfirmTrade
  <1>2. Terms(x) /\ x \in TradeRow
    BY <1>1, TradeTerms DEF BInv, IInv, TypeOK, IsTable
  <1>3. ~ByDispute(t) /\ ByDispute(t)' = ByDispute(t)
    BY <1>1 DEF ByDispute, BInv, IInv, TypeOK, IsTable, DisputesAgree, Open
  <1>4. "completed" \in TradeStatus /\ SabitsStand
    BY <1>1 DEF TradeStatus, SabitsStand, SameListing
  <1> SUFFICES ASSUME NEW v \in Users, NEW d \in Currencies
               PROVE  Balanced(v, d)'
    BY DEF Accounted
  <1>5. wallets'[<<v, d>>].locked
          = wallets[<<v, d>>].locked
              - (IF v = x.buyer /\ d = NGN THEN x.total ELSE 0)
              - (IF v = x.seller /\ d = x.currency THEN x.amount ELSE 0)
    BY <1>1, <1>2, AccountBefore, LockedAfterSettle
  <1>6. /\ TradeClaims(v, d)' + TradeClaim(x, IsBuyListing(x), ByDispute(t), v, d)
             = TradeClaims(v, d) + TradeClaim(y, IsBuyListing(x), ByDispute(t)', v, d)
        /\ Overdrafts(v, d)' + Overdraft(x, IsBuyListing(x), ByDispute(t), v, d)
             = Overdrafts(v, d) + Overdraft(y, IsBuyListing(x), ByDispute(t)', v, d)
        /\ Slacks(v, d)' + Slack(x, Rounded(x), v, d)
             = Slacks(v, d) + Slack(y, Rounded(x), v, d)
        /\ TradeClaims(v, d)' \in Nat /\ Overdrafts(v, d)' \in Nat
        /\ Slacks(v, d)' \in Nat
    BY <1>1, <1>4, TradeMoved DEF BInv
  <1>7. SabitClaims(v, d)' = SabitClaims(v, d) /\ BidClaims(v, d)' = BidClaims(v, d)
    BY <1>1 DEF SabitClaims, SabitClaimOf, BidClaims, BidClaimOf
  <1>8. /\ y.status = "completed" /\ y.buyer = x.buyer
        /\ x.amount \in Nat /\ x.total \in Nat /\ x.currency # NGN
    BY <1>2, WalletsAssumption DEF Terms, TradeRow
  <1> HIDE DEF x, y
  <1>9. /\ Overdraft(x, IsBuyListing(x), ByDispute(t), v, d) = 0
        /\ Overdraft(y, IsBuyListing(x), ByDispute(t)', v, d) = 0
    BY <1>1, <1>8 DEF Overdraft
  <1>10. TradeClaim(x, IsBuyListing(x), ByDispute(t), v, d)
           = (IF v = x.buyer /\ d = NGN THEN x.total ELSE 0)
               + (IF v = x.seller /\ d = x.currency THEN x.amount ELSE 0)
    BY <1>1, <1>8 DEF TradeClaim, Open
  <1>11. TradeClaim(y, IsBuyListing(x), ByDispute(t)', v, d) = 0
    BY <1>3, <1>8 DEF TradeClaim, Open
  <1>12. Slacks(v, d)' = Slacks(v, d)
    <2>1. Slack(x, Rounded(x), v, d) = Slack(y, Rounded(x), v, d)
      BY <1>1, <1>8 DEF Slack
    <2>2. Slack(y, Rounded(x), v, d) \in Nat
      BY DEF Slack
    <2>3. Slacks(v, d) \in Nat /\ Slacks(v, d)' \in Nat
      BY <1>6, AccountBefore
    <2>4. Slacks(v, d)' + Slack(x, Rounded(x), v, d)
            = Slacks(v, d) + Slack(y, Rounded(x), v, d)
      BY <1>6
    <2> QED
      BY <2>1, <2>2, <2>3, <2>4
  <1>13. /\ Held(v, d)' - Due(v, d)' = Held(v, d) - Due(v, d)
         /\ Held(v, d)' \in Int /\ Due(v, d)' \in Int
    BY <1>5, <1>6, <1>7, <1>8, <1>9, <1>10, <1>11, AccountBefore DEF Held, Due
  <1> QED
    BY <1>12, <1>13, BooksStay

\* raiseDispute moves no money, and an open trade claims the same disputed or not.
LEMMA RaiseDisputeBooks ==
  ASSUME BInv, NEW u \in Users, NEW t \in TradeIds, RaiseDispute(u, t)
  PROVE  Accounted'
  <1> DEFINE x == trades[t]
             y == [x EXCEPT !.status = "disputed"]
  <1>1. /\ t \in DOMAIN trades /\ x.status \in {"escrowed", "confirmed"}
        /\ trades' = [trades EXCEPT ![t].status = "disputed"]
        /\ disputes' = Insert(disputes, t, "open")
        /\ UNCHANGED <<wallets, pinSet, sabits, bids>>
    BY DEF RaiseDispute
  <1>2. Terms(x) /\ x \in TradeRow
    BY <1>1, TradeTerms DEF BInv, IInv, TypeOK, IsTable
  <1>3. DOMAIN disputes' = DOMAIN disputes \cup {t}
    BY <1>1 DEF Insert
  <1>4. "disputed" \in TradeStatus /\ SabitsStand
    BY <1>1 DEF TradeStatus, SabitsStand, SameListing
  <1> SUFFICES ASSUME NEW v \in Users, NEW d \in Currencies
               PROVE  Balanced(v, d)'
    BY DEF Accounted
  <1>5. /\ TradeClaims(v, d)' + TradeClaim(x, IsBuyListing(x), ByDispute(t), v, d)
             = TradeClaims(v, d) + TradeClaim(y, IsBuyListing(x), ByDispute(t)', v, d)
        /\ Overdrafts(v, d)' + Overdraft(x, IsBuyListing(x), ByDispute(t), v, d)
             = Overdrafts(v, d) + Overdraft(y, IsBuyListing(x), ByDispute(t)', v, d)
        /\ Slacks(v, d)' + Slack(x, Rounded(x), v, d)
             = Slacks(v, d) + Slack(y, Rounded(x), v, d)
        /\ TradeClaims(v, d)' \in Nat /\ Overdrafts(v, d)' \in Nat
        /\ Slacks(v, d)' \in Nat
    BY <1>1, <1>3, <1>4, TradeMoved DEF BInv
  <1>6. SabitClaims(v, d)' = SabitClaims(v, d) /\ BidClaims(v, d)' = BidClaims(v, d)
    BY <1>1 DEF SabitClaims, SabitClaimOf, BidClaims, BidClaimOf
  <1>7. /\ y.status = "disputed" /\ y.seller = x.seller /\ y.buyer = x.buyer
        /\ y.currency = x.currency /\ y.amount = x.amount /\ y.total = x.total
        /\ x.amount \in Nat /\ x.total \in Nat /\ x.currency # NGN
    BY <1>2, WalletsAssumption DEF Terms, TradeRow
  <1> HIDE DEF x, y
  <1>8. /\ Overdraft(x, IsBuyListing(x), ByDispute(t), v, d) = 0
        /\ Overdraft(y, IsBuyListing(x), ByDispute(t)', v, d) = 0
    BY <1>1, <1>7 DEF Overdraft
  <1>9. TradeClaim(x, IsBuyListing(x), ByDispute(t), v, d)
           = TradeClaim(y, IsBuyListing(x), ByDispute(t)', v, d)
    BY <1>1, <1>7 DEF TradeClaim, Open
  <1>10. TradeClaim(y, IsBuyListing(x), ByDispute(t)', v, d) \in Nat
    BY <1>7 DEF TradeClaim
  <1>11. Slacks(v, d)' = Slacks(v, d)
    <2>1. Slack(x, Rounded(x), v, d) = Slack(y, Rounded(x), v, d)
      BY <1>1, <1>7 DEF Slack
    <2>2. Slack(y, Rounded(x), v, d) \in Nat
      BY DEF Slack
    <2>3. Slacks(v, d) \in Nat /\ Slacks(v, d)' \in Nat
      BY <1>5, AccountBefore
    <2>4. Slacks(v, d)' + Slack(x, Rounded(x), v, d)
            = Slacks(v, d) + Slack(y, Rounded(x), v, d)
      BY <1>5
    <2> QED
      BY <2>1, <2>2, <2>3, <2>4
  <1>12. /\ Held(v, d)' - Due(v, d)' = Held(v, d) - Due(v, d)
         /\ Held(v, d)' \in Int /\ Due(v, d)' \in Int
    BY <1>1, <1>5, <1>6, <1>7, <1>8, <1>9, <1>10, AccountBefore DEF Held, Due
  <1> QED
    BY <1>11, <1>12, BooksStay

\* resolveDispute: the four cases, of which one strands the seller's amount and
\* one releases the buyer's total twice.
LEMMA ResolveDisputeBooks ==
  ASSUME BInv, NEW t \in TradeIds, NEW favor \in Favors,
         ResolveDispute(t, favor)
  PROVE  Accounted'
  <1> DEFINE x == trades[t]
             l == sabits[x.sabit]
             k == Reopened(l, x.amount)
             status == IF favor = "buyer" THEN "cancelled" ELSE "completed"
             y == [x EXCEPT !.status = status]
  <1>1. /\ t \in DOMAIN trades /\ x.status = "disputed" /\ ByDispute(t)
        /\ DOMAIN disputes' = DOMAIN disputes /\ ByDispute(t)'
        /\ favor = "buyer" => ResolveForBuyer(t)
        /\ favor # "buyer" => ResolveForSeller(t)
        /\ UNCHANGED <<pinSet, bids>>
    <2>1. t \in DOMAIN disputes /\ DOMAIN disputes \subseteq DOMAIN trades
      BY DEF ResolveDispute, BInv, IInv, Related
    <2>2. DOMAIN disputes' = DOMAIN disputes
      BY DEF ResolveDispute
    <2> QED
      BY <2>1, <2>2 DEF ResolveDispute, ByDispute
  <1>2. Terms(x) /\ x \in TradeRow
    BY <1>1, TradeTerms DEF BInv, IInv, TypeOK, IsTable
  <1>3. /\ x.amount \in Nat /\ x.total \in Nat /\ x.currency # NGN /\ NGN \in Currencies
        /\ x.buyer \in Users /\ x.seller \in Users /\ x.buyer # x.seller
    BY <1>2, WalletsAssumption DEF Terms, Currencies
  <1>4. /\ x.sabit \in DOMAIN sabits /\ l \in SabitRow
        /\ l.type \in ListingTypes /\ l.rate \in Rates
    BY <1>1, ListingsAre
  <1>5. /\ x.currency = l.currency
        /\ l.type = "SELL" => x.seller = l.user
        /\ l.type = "BUY" => x.buyer = l.user /\ x.total = NgnValue(x.amount, l.rate)
    BY <1>1 DEF BInv, Origins, Struck, BidOn
  <1>6. status \in TradeStatus /\ trades' = [trades EXCEPT ![t].status = status]
    BY <1>1 DEF TradeStatus, ResolveForBuyer, ResolveForSeller
  <1>7. /\ y.status = (IF favor = "buyer" THEN "cancelled" ELSE "completed")
        /\ y.seller = x.seller /\ y.buyer = x.buyer
        /\ y.currency = x.currency /\ y.amount = x.amount /\ y.total = x.total
    BY <1>2 DEF TradeRow
  <1> HIDE DEF status
  <1>8. /\ k \in SabitRow /\ SameListing(l, k) /\ k.available = l.available + x.amount
        /\ k.user = l.user /\ k.type = l.type /\ k.rate = l.rate /\ k.currency = l.currency
    <2>1. l.available + x.amount \in Nat
      BY <1>3, <1>4 DEF SabitRow
    <2> QED
      BY <1>4, <2>1 DEF Reopened, SabitRow, SameListing
  <1> SUFFICES ASSUME NEW v \in Users, NEW d \in Currencies
               PROVE  Balanced(v, d)'
    BY DEF Accounted
  <1> DEFINE p == IF v = x.buyer /\ d = NGN THEN x.total ELSE 0
             q == IF v = x.seller /\ d = x.currency THEN x.amount ELSE 0
  <1>9. p \in Nat /\ q \in Nat
    BY <1>3
  <1>10. wallets'[<<v, d>>].locked = wallets[<<v, d>>].locked - p
    <2>1. wallets \in WalletTable
      BY AccountBefore
    <2>2. CASE favor = "buyer"
      <3>1. wallets' = Unlock(wallets, x.buyer, NGN, x.total)
        BY <1>1, <2>2 DEF ResolveForBuyer
      <3> QED
        BY <1>3, <2>1, <3>1, LockedAfterUnlock
    <2>3. CASE favor # "buyer"
      <3>1. wallets' = TransferFromLocked(wallets, x.buyer, x.seller, NGN, x.total)
        BY <1>1, <2>3 DEF ResolveForSeller, AfterNgn
      <3> QED
        BY <1>3, <2>1, <3>1, LockedAfterTransfer
    <2> QED
      BY <2>2, <2>3
  <1>11. /\ favor = "buyer" => SabitClaims(v, d)' + SabitClaim(l, v, d)
                                 = SabitClaims(v, d) + SabitClaim(k, v, d)
         /\ favor # "buyer" => SabitClaims(v, d)' = SabitClaims(v, d)
         /\ SabitClaims(v, d)' \in Nat /\ SabitsStand
    <2>1. CASE favor = "buyer"
      <3>1. sabits' = [sabits EXCEPT ![x.sabit] = k]
        BY <1>1, <2>1 DEF ResolveForBuyer
      <3> QED
        BY <1>4, <1>8, <2>1, <3>1, SabitMoves DEF BInv
    <2>2. CASE favor # "buyer"
      <3>1. sabits' = sabits
        BY <1>1, <2>2 DEF ResolveForSeller
      <3> QED
        BY <2>2, <3>1, AccountBefore DEF SabitClaims, SabitClaimOf, SabitsStand, SameListing
    <2> QED
      BY <2>1, <2>2
  <1>12. PICK e \in -Play(k, v, d) .. Play(k, v, d) :
           SabitClaim(k, v, d)
             = SabitClaim(l, v, d) + e
                 + (IF v = k.user /\ d = OwnerCurrency(k) THEN OwnerHold(k, x.amount) ELSE 0)
    <2>1. SameListing(k, l)
      BY <1>8 DEF SameListing
    <2> QED
      BY <1>3, <1>4, <1>8, <2>1, ClaimOfPart
  <1>13. /\ TradeClaims(v, d)' + TradeClaim(x, IsBuyListing(x), ByDispute(t), v, d)
              = TradeClaims(v, d) + TradeClaim(y, IsBuyListing(x), ByDispute(t)', v, d)
         /\ Overdrafts(v, d)' + Overdraft(x, IsBuyListing(x), ByDispute(t), v, d)
              = Overdrafts(v, d) + Overdraft(y, IsBuyListing(x), ByDispute(t)', v, d)
         /\ Slacks(v, d)' + Slack(x, Rounded(x), v, d)
              = Slacks(v, d) + Slack(y, Rounded(x), v, d)
         /\ TradeClaims(v, d)' \in Nat /\ Overdrafts(v, d)' \in Nat
         /\ Slacks(v, d)' \in Nat
    BY <1>1, <1>6, <1>11, TradeMoved DEF BInv
  <1>14. BidClaims(v, d)' = BidClaims(v, d)
    BY <1>1 DEF BidClaims, BidClaimOf
  <1>15. SabitClaim(l, v, d) \in Nat /\ (IsBuyListing(x) <=> l.type # "SELL")
         /\ (l.type # "SELL" => l.type = "BUY") /\ (Rounded(x) <=> PriceRounds(l))
         /\ (Rounded(x) => IsBuyListing(x))
    BY <1>4, SabitClaimIsNat DEF IsBuyListing, SabitRow, Rounded, PriceRounds
  <1>16. /\ wallets[<<v, d>>].locked \in Nat
         /\ SabitClaims(v, d) \in Nat /\ TradeClaims(v, d) \in Nat
         /\ Overdrafts(v, d) \in Nat /\ BidClaims(v, d) \in Nat
         /\ Slacks(v, d) \in Nat
    BY AccountBefore
  <1> HIDE DEF x, y, l, k
  <1>17. /\ Overdraft(x, IsBuyListing(x), ByDispute(t), v, d) = 0
         /\ TradeClaim(x, IsBuyListing(x), ByDispute(t), v, d) = p + q
    BY <1>1, <1>3 DEF Overdraft, TradeClaim, Open
  <1>18. /\ Play(k, v, d) \in Nat /\ e \in Int
         /\ -Play(k, v, d) <= e /\ e <= Play(k, v, d)
         /\ ~IsBuyListing(x) => Play(k, v, d) = 0
    <2>1. Play(k, v, d) \in Nat
      BY DEF Play
    <2>2. ~IsBuyListing(x) => Play(k, v, d) = 0
      BY <1>8, <1>15 DEF Play, PriceRounds
    <2> QED
      BY <2>1, <2>2
  <1>19. Slacks(v, d)'
           = Slacks(v, d) + (IF favor = "buyer" THEN Play(k, v, d) ELSE 0)
    <2>1. /\ Slack(x, Rounded(x), v, d) \in Nat
          /\ Slack(y, Rounded(x), v, d) \in Nat
      BY DEF Slack
    <2>2. Slack(y, Rounded(x), v, d)
            = Slack(x, Rounded(x), v, d)
                + (IF favor = "buyer" THEN Play(k, v, d) ELSE 0)
      <3> PriceRounds(k) <=> Rounded(x)
        BY <1>8, <1>15 DEF PriceRounds
      <3>1. CASE Rounded(x)
        <4>1. x.buyer = k.user
          BY <1>5, <1>8, <1>15, <3>1
        <4> QED
          BY <1>1, <1>7, <3>1, <4>1 DEF Slack, Play
      <3>2. CASE ~Rounded(x)
        BY <3>2 DEF Slack, Play
      <3> QED
        BY <3>1, <3>2
    <2> QED
      BY <1>13, <1>16, <1>18, <2>1, <2>2
  <1>20. CASE favor = "buyer" /\ IsBuyListing(x)
    <2>1. /\ TradeClaim(y, IsBuyListing(x), ByDispute(t)', v, d) = q
          /\ Overdraft(y, IsBuyListing(x), ByDispute(t)', v, d) = p
      BY <1>1, <1>3, <1>7, <1>20 DEF TradeClaim, Overdraft, Open
    <2>2. SabitClaim(k, v, d) = SabitClaim(l, v, d) + e + p
      BY <1>5, <1>8, <1>12, <1>15, <1>20 DEF OwnerCurrency, OwnerHold
    <2> HIDE DEF p, q
    <2>3. SabitClaims(v, d)' = SabitClaims(v, d) + e + p
      <3>1. SabitClaims(v, d)' + SabitClaim(l, v, d) = SabitClaims(v, d) + SabitClaim(k, v, d)
        BY <1>11, <1>20
      <3>2. /\ SabitClaims(v, d)' \in Nat /\ SabitClaims(v, d) \in Nat
            /\ SabitClaim(l, v, d) \in Nat
        BY <1>11, <1>15, <1>16
      <3>3. p \in Nat /\ e \in Int
        BY <1>9, <1>18
      <3> QED
        BY <2>2, <3>1, <3>2, <3>3
    <2>4. TradeClaims(v, d)' + p = TradeClaims(v, d)
      <3>1. TradeClaims(v, d)' + (p + q) = TradeClaims(v, d) + q
        BY <1>13, <1>17, <2>1
      <3>2. TradeClaims(v, d)' \in Nat /\ TradeClaims(v, d) \in Nat
        BY <1>13, <1>16
      <3> QED
        BY <1>9, <3>1, <3>2
    <2>5. Overdrafts(v, d)' = Overdrafts(v, d) + p
      <3>1. Overdrafts(v, d)' + 0 = Overdrafts(v, d) + p
        BY <1>13, <1>17, <2>1
      <3>2. Overdrafts(v, d)' \in Nat
        BY <1>13
      <3> QED
        BY <3>1, <3>2
    <2>6. /\ Held(v, d)' - Due(v, d)' = Held(v, d) - Due(v, d) + (-e)
          /\ Held(v, d)' \in Int /\ Due(v, d)' \in Int
      BY <1>9, <1>10, <1>13, <1>14, <1>16, <1>18, <2>3, <2>4, <2>5 DEF Held, Due
    <2>7. /\ -e \in Int /\ -Play(k, v, d) <= -e /\ -e <= Play(k, v, d)
          /\ Slacks(v, d)' = Slacks(v, d) + Play(k, v, d)
      BY <1>18, <1>19, <1>20
    <2> QED
      BY <1>18, <2>6, <2>7, BooksMove
  <1>21. CASE favor = "buyer" /\ ~IsBuyListing(x)
    <2>1. /\ TradeClaim(y, IsBuyListing(x), ByDispute(t)', v, d) = 0
          /\ Overdraft(y, IsBuyListing(x), ByDispute(t)', v, d) = 0
      BY <1>1, <1>3, <1>7, <1>21 DEF TradeClaim, Overdraft, Open
    <2>2. SabitClaim(k, v, d) = SabitClaim(l, v, d) + q
      <3>1. e = 0
        BY <1>18, <1>21
      <3>2. SabitClaim(k, v, d)
              = SabitClaim(l, v, d)
                  + (IF v = k.user /\ d = OwnerCurrency(k) THEN OwnerHold(k, x.amount)
                     ELSE 0)
        BY <1>12, <1>15, <3>1
      <3> QED
        BY <1>5, <1>8, <1>15, <1>21, <3>2 DEF OwnerCurrency, OwnerHold
    <2> HIDE DEF p, q
    <2>3. /\ Held(v, d)' - Due(v, d)' = Held(v, d) - Due(v, d)
          /\ Held(v, d)' \in Int /\ Due(v, d)' \in Int
      <3>1. SabitClaims(v, d)' = SabitClaims(v, d) + q
        BY <1>9, <1>11, <1>15, <1>16, <1>21, <2>2
      <3>2. TradeClaims(v, d)' + (p + q) = TradeClaims(v, d) + 0
        BY <1>13, <1>17, <2>1
      <3>3. Overdrafts(v, d)' + 0 = Overdrafts(v, d) + 0
        BY <1>13, <1>17, <2>1
      <3>4. TradeClaims(v, d)' \in Nat /\ Overdrafts(v, d)' \in Nat
        BY <1>13
      <3> QED
        BY <1>9, <1>10, <1>14, <1>16, <3>1, <3>2, <3>3, <3>4 DEF Held, Due
    <2>4. Slacks(v, d)' = Slacks(v, d)
      BY <1>16, <1>18, <1>19, <1>21
    <2> QED
      BY <2>3, <2>4, BooksStay
  <1>22. CASE favor # "buyer"
    <2>1. /\ TradeClaim(y, IsBuyListing(x), ByDispute(t)', v, d) = q
          /\ Overdraft(y, IsBuyListing(x), ByDispute(t)', v, d) = 0
      BY <1>1, <1>3, <1>7, <1>22 DEF TradeClaim, Overdraft, Open
    <2> HIDE DEF p, q
    <2>2. /\ Held(v, d)' - Due(v, d)' = Held(v, d) - Due(v, d)
          /\ Held(v, d)' \in Int /\ Due(v, d)' \in Int
      BY <1>9, <1>10, <1>11, <1>13, <1>14, <1>15, <1>16, <1>17, <1>22, <2>1
      DEF Held, Due
    <2>3. Slacks(v, d)' = Slacks(v, d)
      BY <1>16, <1>19, <1>22
    <2> QED
      BY <2>2, <2>3, BooksStay
  <1> QED
    BY <1>20, <1>21, <1>22

\* placeBid locks what the bid claims.
LEMMA PlaceBidBooks ==
  ASSUME BInv, NEW u \in Users, NEW s \in SabitIds, NEW b \in BidIds,
         NEW a \in Amounts, NEW r \in Rates, PlaceBid(u, s, b, a, r)
  PROVE  Accounted'
  <1> DEFINE y == [sabit |-> s, buyer |-> u, seller |-> sabits[s].user,
                   currency |-> sabits[s].currency, amount |-> a,
                   total |-> NgnValue(a, r), expired |-> FALSE, status |-> "pending"]
  <1>1. /\ b \notin DOMAIN bids /\ bids' = Insert(bids, b, y)
        /\ wallets' = Lock(wallets, u, NGN, NgnValue(a, r))
        /\ UNCHANGED <<pinSet, sabits, trades, disputes>>
    BY DEF PlaceBid
  <1>2. NgnValue(a, r) \in Nat /\ NGN \in Currencies
    BY EscrowAssumption, NgnValueIsNat DEF Currencies
  <1>3. y \in BidRow
    <2>1. s \in DOMAIN sabits
      BY DEF PlaceBid
    <2>2. sabits[s].user \in Users /\ sabits[s].currency \in Foreign
      BY <2>1, ListingsAre DEF SabitRow
    <2> QED
      BY <1>2, <2>2, EscrowAssumption DEF BidRow
  <1>4. y.buyer = u /\ y.total = NgnValue(a, r) /\ y.status = "pending"
    OBVIOUS
  <1> HIDE DEF y
  <1> SUFFICES ASSUME NEW v \in Users, NEW d \in Currencies
               PROVE  Balanced(v, d)'
    BY DEF Accounted
  <1>5. wallets'[<<v, d>>].locked
          = wallets[<<v, d>>].locked + (IF v = u /\ d = NGN THEN NgnValue(a, r) ELSE 0)
    BY <1>1, <1>2, AccountBefore, LockedAfterLock
  <1>6. SabitClaims(v, d)' = SabitClaims(v, d) /\ SabitsStand
    BY <1>1 DEF SabitClaims, SabitClaimOf, SabitsStand, SameListing
  <1>7. /\ TradeClaims(v, d)' = TradeClaims(v, d) /\ Overdrafts(v, d)' = Overdrafts(v, d)
        /\ Slacks(v, d)' = Slacks(v, d)
    BY <1>1, <1>6, TradesStand DEF BInv
  <1>8. BidClaims(v, d)' = BidClaims(v, d) + BidClaim(y, v, d)
    BY <1>1, <1>3, BidAppears DEF BInv
  <1>9. BidClaim(y, v, d) = IF v = u /\ d = NGN THEN NgnValue(a, r) ELSE 0
    BY <1>4 DEF BidClaim
  <1>10. BidClaim(y, v, d) \in Nat
    BY <1>3, BidClaimIsNat
  <1>11. /\ Held(v, d)' - Due(v, d)' = Held(v, d) - Due(v, d)
         /\ Held(v, d)' \in Int /\ Due(v, d)' \in Int
    <2>1. /\ wallets[<<v, d>>].locked \in Nat
          /\ SabitClaims(v, d) \in Nat /\ TradeClaims(v, d) \in Nat
          /\ Overdrafts(v, d) \in Nat /\ BidClaims(v, d) \in Nat
      BY AccountBefore
    <2> QED
      BY <1>5, <1>6, <1>7, <1>8, <1>9, <1>10, <2>1 DEF Held, Due
  <1> QED
    BY <1>7, <1>11, BooksStay

\* rejectBid and withdrawBid unlock it.
LEMMA ReleaseBidBooks ==
  ASSUME BInv, NEW b \in DOMAIN bids, bids[b].status = "pending",
         NEW status \in {"pending", "accepted", "rejected", "expired", "withdrawn"},
         status \notin {"pending", "accepted"}, ReleaseBid(b, status)
  PROVE  Accounted'
  <1> DEFINE x == bids[b]
             y == [x EXCEPT !.status = status]
  <1>1. /\ bids' = [bids EXCEPT ![b] = y]
        /\ wallets' = Unlock(wallets, x.buyer, NGN, x.total)
        /\ UNCHANGED <<pinSet, sabits, trades, disputes>>
    BY DEF ReleaseBid
  <1>2. x \in BidRow /\ NGN \in Currencies
    BY DEF BInv, IInv, TypeOK, IsTable, Currencies
  <1>3. /\ x.buyer \in Users /\ x.total \in Nat /\ x.status = "pending"
        /\ y \in BidRow /\ y.status = status
    BY <1>2 DEF BidRow
  <1> SUFFICES ASSUME NEW v \in Users, NEW d \in Currencies
               PROVE  Balanced(v, d)'
    BY DEF Accounted
  <1> HIDE DEF x, y
  <1> DEFINE p == IF v = x.buyer /\ d = NGN THEN x.total ELSE 0
  <1>4. wallets'[<<v, d>>].locked = wallets[<<v, d>>].locked - p
    BY <1>1, <1>2, <1>3, AccountBefore, LockedAfterUnlock
  <1>5. SabitClaims(v, d)' = SabitClaims(v, d) /\ SabitsStand
    BY <1>1 DEF SabitClaims, SabitClaimOf, SabitsStand, SameListing
  <1>6. /\ TradeClaims(v, d)' = TradeClaims(v, d) /\ Overdrafts(v, d)' = Overdrafts(v, d)
        /\ Slacks(v, d)' = Slacks(v, d)
    BY <1>1, <1>5, TradesStand DEF BInv
  <1>7. /\ BidClaims(v, d)' + BidClaim(x, v, d) = BidClaims(v, d) + BidClaim(y, v, d)
        /\ BidClaims(v, d)' \in Nat
    BY <1>1, <1>3, BidMoves DEF BInv, x
  <1>8. /\ BidClaim(x, v, d) = p /\ BidClaim(y, v, d) = 0 /\ p \in Nat
    BY <1>2, <1>3 DEF BidClaim
  <1> HIDE DEF p
  <1>9. /\ Held(v, d)' - Due(v, d)' = Held(v, d) - Due(v, d)
         /\ Held(v, d)' \in Int /\ Due(v, d)' \in Int
    <2>1. /\ wallets[<<v, d>>].locked \in Nat
          /\ SabitClaims(v, d) \in Nat /\ TradeClaims(v, d) \in Nat
          /\ Overdrafts(v, d) \in Nat /\ BidClaims(v, d) \in Nat
      BY AccountBefore
    <2> QED
      BY <1>4, <1>5, <1>6, <1>7, <1>8, <2>1 DEF Held, Due
  <1> QED
    BY <1>6, <1>9, BooksStay

\* acceptBid pays the bid from locked money, and leaves the listing's lock for the
\* amount behind, as the accepted bid's claim.
LEMMA AcceptBidBooks ==
  ASSUME BInv, NEW u \in Users, NEW b \in BidIds, NEW t \in TradeIds,
         AcceptBid(u, b, t)
  PROVE  Accounted'
  <1> DEFINE x == bids[b]
             y == [x EXCEPT !.status = "accepted"]
             l == sabits[x.sabit]
             k == Take(l, x.amount)
             w == Lock(wallets, u, x.currency, x.amount)
             z == [sabit |-> x.sabit, buyer |-> x.buyer, seller |-> x.seller,
                   currency |-> x.currency, amount |-> x.amount, total |-> x.total,
                   status |-> "completed", expired |-> FALSE]
  <1>1. /\ b \in DOMAIN bids /\ t \notin DOMAIN trades /\ x.status = "pending"
        /\ x.seller = u /\ x.amount <= l.available
        /\ CanLock(wallets, u, x.currency, x.amount) /\ CanSettle(w, x)
        /\ wallets' = Settle(w, x)
        /\ bids' = [bids EXCEPT ![b] = y]
        /\ sabits' = [sabits EXCEPT ![x.sabit] = k]
        /\ trades' = Insert(trades, t, z)
        /\ UNCHANGED <<pinSet, disputes>>
    BY DEF AcceptBid
  <1>2. Terms(x) /\ x \in BidRow
    BY <1>1, BidTerms DEF BInv, IInv, TypeOK, IsTable
  <1>3. /\ x.amount \in Nat /\ x.total \in Nat /\ x.currency # NGN /\ NGN \in Currencies
        /\ x.currency \in Currencies
    BY <1>2, WalletsAssumption DEF Terms, Currencies
  <1>4. /\ x.sabit \in DOMAIN sabits /\ l \in SabitRow
        /\ l.type \in ListingTypes /\ l.rate \in Rates
    BY <1>1, ListingsAre
  <1>5. l.type = "SELL" /\ u = l.user /\ x.currency = l.currency
    BY <1>1 DEF BInv, Origins, Struck, BidOn
  <1>6. k \in SabitRow /\ SameListing(l, k) /\ l.available = k.available + x.amount
    <2>1. l.available - x.amount \in Nat /\ l.available = (l.available - x.amount) + x.amount
      BY <1>1, <1>3, <1>4 DEF SabitRow
    <2> QED
      BY <1>4, <2>1 DEF Take, SabitRow, SameListing
  <1>7. z \in TradeRow /\ z.sabit = x.sabit /\ z.status = "completed"
    BY <1>2 DEF BidRow, TradeRow, TradeStatus
  <1>8. /\ y \in BidRow /\ y.status = "accepted"
        /\ y.seller = u /\ y.currency = x.currency /\ y.amount = x.amount
    BY <1>1, <1>2 DEF BidRow
  <1> HIDE DEF y, l, k, w, z
  <1> SUFFICES ASSUME NEW v \in Users, NEW d \in Currencies
               PROVE  Balanced(v, d)'
    BY DEF Accounted
  <1> DEFINE p == IF v = x.buyer /\ d = NGN THEN x.total ELSE 0
             q == IF v = u /\ d = x.currency THEN x.amount ELSE 0
  <1>9. p \in Nat /\ q \in Nat
    BY <1>3
  <1>10. wallets'[<<v, d>>].locked = wallets[<<v, d>>].locked + q - p - q
    <2>1. w \in WalletTable
      BY <1>1, <1>3, AccountBefore, LockEffect DEF w
    <2>2. w[<<v, d>>].locked = wallets[<<v, d>>].locked + q
      BY <1>3, AccountBefore, LockedAfterLock DEF w
    <2>3. wallets'[<<v, d>>].locked
            = w[<<v, d>>].locked - p
                - (IF v = x.seller /\ d = x.currency THEN x.amount ELSE 0)
      BY <1>1, <1>2, <2>1, LockedAfterSettle
    <2>4. wallets'[<<v, d>>].locked = w[<<v, d>>].locked - p - q
      BY <1>1, <2>3
    <2>5. wallets[<<v, d>>].locked \in Nat
      BY AccountBefore
    <2> HIDE DEF p, q
    <2> QED
      BY <1>9, <2>2, <2>4, <2>5
  <1>11. /\ SabitClaims(v, d)' + SabitClaim(l, v, d) = SabitClaims(v, d) + SabitClaim(k, v, d)
         /\ SabitClaims(v, d)' \in Nat /\ SabitsStand
    BY <1>1, <1>4, <1>6, SabitMoves DEF BInv, l
  <1>12. SabitClaim(l, v, d) = SabitClaim(k, v, d) + q
    <2>1. PICK e \in -Play(l, v, d) .. Play(l, v, d) :
            SabitClaim(l, v, d)
              = SabitClaim(k, v, d) + e
                  + (IF v = l.user /\ d = OwnerCurrency(l)
                     THEN OwnerHold(l, x.amount) ELSE 0)
      BY <1>3, <1>4, <1>6, ClaimOfPart
    <2>2. e = 0
      <3>1. Play(l, v, d) = 0
        BY <1>5 DEF Play, PriceRounds
      <3> QED
        BY <3>1
    <2>3. SabitClaim(k, v, d) \in Nat
      BY <1>6, SabitClaimIsNat
    <2>4. /\ OwnerCurrency(l) = x.currency /\ OwnerHold(l, x.amount) = x.amount
          /\ l.user = u
      BY <1>5 DEF OwnerCurrency, OwnerHold
    <2>5. SabitClaim(l, v, d)
            = SabitClaim(k, v, d) + 0 + (IF v = u /\ d = x.currency THEN x.amount ELSE 0)
      BY <2>1, <2>2, <2>4
    <2> QED
      BY <1>3, <2>3, <2>5
  <1>13. /\ TradeClaims(v, d)'
              = TradeClaims(v, d) + TradeClaim(z, IsBuyListing(z), ByDispute(t)', v, d)
         /\ Overdrafts(v, d)' = Overdrafts(v, d) /\ ~ByDispute(t)'
         /\ Slacks(v, d)' = Slacks(v, d) + Slack(z, Rounded(z), v, d)
    BY <1>1, <1>4, <1>7, <1>11, TradeAppears DEF BInv
  <1>14. TradeClaim(z, IsBuyListing(z), ByDispute(t)', v, d) = 0
    BY <1>7, <1>13 DEF TradeClaim, Open
  <1>15. /\ BidClaims(v, d)' + BidClaim(x, v, d) = BidClaims(v, d) + BidClaim(y, v, d)
         /\ BidClaims(v, d)' \in Nat
    BY <1>1, <1>8, BidMoves DEF BInv
  <1>16. BidClaim(x, v, d) = p /\ BidClaim(y, v, d) = q
    BY <1>1, <1>8 DEF BidClaim
  <1>17. SabitClaim(k, v, d) \in Nat
    BY <1>6, SabitClaimIsNat
  <1>18. Slacks(v, d)' = Slacks(v, d)
    <2>1. ~Rounded(z)
      BY <1>5, <1>7 DEF Rounded, PriceRounds, l
    <2>2. Slack(z, Rounded(z), v, d) = 0
      BY <2>1 DEF Slack
    <2>3. Slacks(v, d) \in Nat
      BY AccountBefore
    <2> QED
      BY <1>13, <2>2, <2>3
  <1> HIDE DEF p, q, x
  <1>19. /\ Held(v, d)' - Due(v, d)' = Held(v, d) - Due(v, d)
         /\ Held(v, d)' \in Int /\ Due(v, d)' \in Int
    <2>1. /\ wallets[<<v, d>>].locked \in Nat
          /\ SabitClaims(v, d) \in Nat /\ TradeClaims(v, d) \in Nat
          /\ Overdrafts(v, d) \in Nat /\ BidClaims(v, d) \in Nat
      BY AccountBefore
    <2> QED
      <3>1. SabitClaims(v, d)' + q = SabitClaims(v, d)
        BY <1>9, <1>11, <1>12, <1>17, <2>1
      <3>2. TradeClaims(v, d)' = TradeClaims(v, d) /\ Overdrafts(v, d)' = Overdrafts(v, d)
        BY <1>13, <1>14, <2>1
      <3>3. BidClaims(v, d)' + p = BidClaims(v, d) + q
        BY <1>15, <1>16
      <3> QED
        <4>1. Held(v, d)' = Held(v, d) - p
          BY <1>9, <1>10, <2>1, <3>2 DEF Held
        <4>2. Due(v, d)' = Due(v, d) - p
          BY <1>9, <1>11, <1>15, <2>1, <3>1, <3>2, <3>3 DEF Due
        <4>3. Held(v, d) \in Int /\ Due(v, d) \in Int
          BY <2>1 DEF Held, Due
        <4> QED
          BY <1>9, <4>1, <4>2, <4>3
  <1> QED
    BY <1>18, <1>19, BooksStay

\* Time moves no money.
LEMMA PassPinWindowBooks ==
  ASSUME BInv, NEW t \in TradeIds, PassPinWindow(t)
  PROVE  Accounted'
  <1> DEFINE y == [trades[t] EXCEPT !.expired = TRUE]
  <1>1. t \in DOMAIN trades /\ trades[t] \in TradeRow
    BY DEF PassPinWindow, BInv, IInv, TypeOK, IsTable
  <1>2. /\ y.buyer = trades[t].buyer /\ y.seller = trades[t].seller
        /\ y.sabit = trades[t].sabit /\ y.status = trades[t].status
        /\ y.amount = trades[t].amount /\ y.total = trades[t].total
        /\ y.currency = trades[t].currency
    BY <1>1 DEF TradeRow
  <1>3. /\ trades' = [trades EXCEPT ![t] = y]
        /\ UNCHANGED <<wallets, pinSet, sabits, bids, disputes>>
    BY DEF PassPinWindow
  <1> HIDE DEF y
  <1>4. /\ DOMAIN trades' = DOMAIN trades /\ trades'[t] = y
        /\ \A i \in DOMAIN trades \ {t} : trades'[i] = trades[i]
    BY <1>1, <1>3 DEF BInv, IInv, TypeOK, IsTable
  <1>5. \A i \in DOMAIN trades :
          /\ IsBuyListing(trades[i])' = IsBuyListing(trades[i])
          /\ ByDispute(i)' = ByDispute(i)
          /\ Rounded(trades[i])' = Rounded(trades[i])
    BY <1>2, <1>3, <1>4 DEF IsBuyListing, ByDispute, Rounded, PriceRounds
  <1> SUFFICES ASSUME NEW v \in Users, NEW d \in Currencies
               PROVE  Balanced(v, d)'
    BY DEF Accounted
  <1>6. \A i \in DOMAIN trades : /\ TradeClaimOf(v, d)'[i] = TradeClaimOf(v, d)[i]
                                 /\ OverdraftOf(v, d)'[i] = OverdraftOf(v, d)[i]
                                 /\ SlackOf(v, d)'[i] = SlackOf(v, d)[i]
    BY <1>2, <1>4, <1>5
    DEF TradeClaimOf, OverdraftOf, SlackOf, TradeClaim, Overdraft, Slack, Open
  <1>7. /\ TradeClaims(v, d)' = TradeClaims(v, d) /\ Overdrafts(v, d)' = Overdrafts(v, d)
        /\ Slacks(v, d)' = Slacks(v, d)
    <2>1. TradeClaims(v, d)' = TradeClaims(v, d) /\ Overdrafts(v, d)' = Overdrafts(v, d)
      BY <1>4, <1>6, TotalDependsOnRows
      DEF TradeClaims, Overdrafts, TradeClaimOf, OverdraftOf
    <2>2. Slacks(v, d)' = Slacks(v, d)
      BY <1>4, <1>6, TotalDependsOnRows DEF Slacks, SlackOf
    <2> QED
      BY <2>1, <2>2
  <1>8. SabitClaims(v, d)' = SabitClaims(v, d) /\ BidClaims(v, d)' = BidClaims(v, d)
    BY <1>3 DEF SabitClaims, SabitClaimOf, BidClaims, BidClaimOf
  <1>9. /\ Held(v, d)' - Due(v, d)' = Held(v, d) - Due(v, d)
         /\ Held(v, d)' \in Int /\ Due(v, d)' \in Int
    <2>1. /\ wallets[<<v, d>>].locked \in Nat
          /\ SabitClaims(v, d) \in Nat /\ TradeClaims(v, d) \in Nat
          /\ Overdrafts(v, d) \in Nat /\ BidClaims(v, d) \in Nat
      BY AccountBefore
    <2> QED
      BY <1>3, <1>7, <1>8, <2>1 DEF Held, Due
  <1> QED
    BY <1>7, <1>9, BooksStay

\* Nor does it for bids.
LEMMA PassBidWindowBooks ==
  ASSUME BInv, NEW b \in BidIds, PassBidWindow(b)
  PROVE  Accounted'
  <1> DEFINE y == [bids[b] EXCEPT !.expired = TRUE]
  <1>1. b \in DOMAIN bids /\ bids[b] \in BidRow
    BY DEF PassBidWindow, BInv, IInv, TypeOK, IsTable
  <1>2. /\ y \in BidRow /\ y.buyer = bids[b].buyer /\ y.seller = bids[b].seller
        /\ y.currency = bids[b].currency /\ y.amount = bids[b].amount
        /\ y.total = bids[b].total /\ y.status = bids[b].status
    BY <1>1 DEF BidRow
  <1>3. /\ bids' = [bids EXCEPT ![b] = y]
        /\ UNCHANGED <<wallets, pinSet, sabits, trades, disputes>>
    BY DEF PassBidWindow
  <1> HIDE DEF y
  <1> SUFFICES ASSUME NEW v \in Users, NEW d \in Currencies
               PROVE  Balanced(v, d)'
    BY DEF Accounted
  <1>4. SabitClaims(v, d)' = SabitClaims(v, d) /\ SabitsStand
    BY <1>3 DEF SabitClaims, SabitClaimOf, SabitsStand, SameListing
  <1>5. /\ TradeClaims(v, d)' = TradeClaims(v, d) /\ Overdrafts(v, d)' = Overdrafts(v, d)
        /\ Slacks(v, d)' = Slacks(v, d)
    BY <1>3, <1>4, TradesStand DEF BInv
  <1>6. /\ BidClaims(v, d)' + BidClaim(bids[b], v, d) = BidClaims(v, d) + BidClaim(y, v, d)
        /\ BidClaims(v, d)' \in Nat
    BY <1>1, <1>2, <1>3, BidMoves DEF BInv
  <1>7. BidClaim(y, v, d) = BidClaim(bids[b], v, d) /\ BidClaim(y, v, d) \in Nat
    BY <1>2, BidClaimIsNat DEF BidClaim
  <1>8. /\ Held(v, d)' - Due(v, d)' = Held(v, d) - Due(v, d)
         /\ Held(v, d)' \in Int /\ Due(v, d)' \in Int
    <2>1. /\ wallets[<<v, d>>].locked \in Nat
          /\ SabitClaims(v, d) \in Nat /\ TradeClaims(v, d) \in Nat
          /\ Overdrafts(v, d) \in Nat /\ BidClaims(v, d) \in Nat
      BY AccountBefore
    <2> QED
      BY <1>3, <1>4, <1>5, <1>6, <1>7, <2>1 DEF Held, Due
  <1> QED
    BY <1>5, <1>8, BooksStay

\* bidExpiryJob ends any number of pending bids and unlocks their totals.
LEMMA BidExpiryJobBooks ==
  ASSUME BInv, NEW S \in SUBSET BidIds, BidExpiryJob(S)
  PROVE  Accounted'
  <1>1. /\ S \subseteq DOMAIN bids /\ \A b \in S : bids[b].status = "pending"
        /\ wallets' = [acc \in Accounts |->
             [balance |-> wallets[acc].balance + BidRefund(S, acc),
              locked |-> wallets[acc].locked - BidRefund(S, acc)]]
        /\ bids' = SetStatus(bids, S, "expired")
        /\ UNCHANGED <<pinSet, sabits, trades, disputes>>
    BY DEF BidExpiryJob, ExpiredBids
  <1> SUFFICES ASSUME NEW v \in Users, NEW d \in Currencies
               PROVE  Balanced(v, d)'
    BY DEF Accounted
  <1> DEFINE T == IF d = NGN THEN {b \in S : bids[b].buyer = v} ELSE {}
             h == [b \in DOMAIN bids |-> IF b \in T THEN bids[b].total ELSE 0]
             g == BidClaimOf(v, d)'
  <1>2. wallets'[<<v, d>>].locked = wallets[<<v, d>>].locked - BidRefund(S, <<v, d>>)
    BY <1>1 DEF Accounts
  <1>3. SabitClaims(v, d)' = SabitClaims(v, d) /\ SabitsStand
    BY <1>1 DEF SabitClaims, SabitClaimOf, SabitsStand, SameListing
  <1>4. /\ TradeClaims(v, d)' = TradeClaims(v, d) /\ Overdrafts(v, d)' = Overdrafts(v, d)
        /\ Slacks(v, d)' = Slacks(v, d)
    BY <1>1, <1>3, TradesStand DEF BInv
  <1>5. \A b \in DOMAIN bids : bids[b] \in BidRow
    BY DEF BInv, IInv, TypeOK, IsTable
  <1>6. /\ DOMAIN bids' = DOMAIN bids
        /\ \A b \in DOMAIN bids :
             /\ bids'[b].buyer = bids[b].buyer /\ bids'[b].seller = bids[b].seller
             /\ bids'[b].currency = bids[b].currency
             /\ bids'[b].amount = bids[b].amount /\ bids'[b].total = bids[b].total
             /\ bids'[b].status = IF b \in S THEN "expired" ELSE bids[b].status
    BY <1>1, <1>5 DEF SetStatus, BidRow
  <1>7. ASSUME NEW b \in DOMAIN bids
        PROVE  /\ BidClaimOf(v, d)[b] = g[b] + h[b]
               /\ g[b] \in Nat /\ h[b] \in Nat
    <2>1. bids[b].total \in Nat /\ bids[b].amount \in Nat
      BY <1>5 DEF BidRow
    <2>2. BidClaimOf(v, d)[b] = BidClaim(bids[b], v, d)
      BY DEF BidClaimOf
    <2>3. g[b] = BidClaim(bids'[b], v, d)
      BY <1>6 DEF BidClaimOf
    <2>4. CASE b \in S
      BY <1>1, <1>6, <2>1, <2>2, <2>3, <2>4 DEF BidClaim
    <2>5. CASE b \notin S
      BY <1>1, <1>6, <2>1, <2>2, <2>3, <2>5 DEF BidClaim
    <2> QED
      BY <2>4, <2>5
  <1>8. Total(h, DOMAIN bids) = BidRefund(S, <<v, d>>)
    <2>1. T \subseteq DOMAIN bids
      BY <1>1
    <2>2. \A b \in DOMAIN bids : h[b] = IF b \in T THEN Column(bids, "total")[b] ELSE 0
      BY DEF Column
    <2>3. Total(h, DOMAIN bids) = Total(Column(bids, "total"), T)
      <3> HIDE DEF T, h
      <3> QED
        BY <2>1, <2>2, TotalOfSome
    <2>4. BidRefund(S, <<v, d>>) = Total(Column(bids, "total"), T)
      BY TotalOfNothing DEF BidRefund
    <2> QED
      BY <2>3, <2>4
  <1>9. /\ Total(BidClaimOf(v, d), DOMAIN bids)
             = Total(g, DOMAIN bids) + Total(h, DOMAIN bids)
        /\ Total(g, DOMAIN bids) \in Nat /\ Total(h, DOMAIN bids) \in Nat
    <2>1. NatOn(g, DOMAIN bids) /\ NatOn(h, DOMAIN bids)
      BY <1>7 DEF NatOn
    <2>2. IsFiniteSet(DOMAIN bids)
      BY TablesAreFinite DEF BInv
    <2> HIDE DEF g, h
    <2> QED
      BY <1>7, <2>1, <2>2, TotalOfSum, TotalIsNat
  <1>10. /\ BidClaims(v, d) = Total(BidClaimOf(v, d), DOMAIN bids)
         /\ BidClaims(v, d)' = Total(g, DOMAIN bids)
    BY <1>6 DEF BidClaims, BidClaimOf
  <1> HIDE DEF g, h
  <1>11. /\ Held(v, d)' - Due(v, d)' = Held(v, d) - Due(v, d)
         /\ Held(v, d)' \in Int /\ Due(v, d)' \in Int
    <2>1. /\ wallets[<<v, d>>].locked \in Nat
          /\ SabitClaims(v, d) \in Nat /\ TradeClaims(v, d) \in Nat
          /\ Overdrafts(v, d) \in Nat /\ BidClaims(v, d) \in Nat
      BY AccountBefore
    <2> QED
      BY <1>2, <1>3, <1>4, <1>8, <1>9, <1>10, <2>1 DEF Held, Due
  <1> QED
    BY <1>4, <1>11, BooksStay

-----------------------------------------------------------------------------
(***************************************************************************)
(* PinExpiryJob ends any number of trades in one step: an induction over   *)
(* the set of trades it ends, from none of them to all.                    *)
(***************************************************************************)
\* What an expired trade's end does to the claims on locked money: its amount
\* leaves the trade for the listing.
LEMMA ExpiredTradeClaims ==
  ASSUME BInv, NEW t \in ExpiredTrades, NEW v \in Users, NEW d \in Currencies,
         NEW y, y = [trades[t] EXCEPT !.status = "cancelled"]
  PROVE  LET x == trades[t]
             l == sabits[x.sabit]
         IN /\ TradeClaim(x, IsBuyListing(x), ByDispute(t), v, d)
                 = TradeClaim(y, IsBuyListing(x), ByDispute(t), v, d)
                     + (IF v = l.user /\ d = OwnerCurrency(l)
                        THEN OwnerHold(l, x.amount) ELSE 0)
            /\ Overdraft(x, IsBuyListing(x), ByDispute(t), v, d) = 0
            /\ Overdraft(y, IsBuyListing(x), ByDispute(t), v, d) = 0
  <1> DEFINE x == trades[t]
             l == sabits[x.sabit]
  <1>1. t \in DOMAIN trades /\ x.status \in {"escrowed", "initiated"}
    BY DEF ExpiredTrades
  <1>2. ~ByDispute(t)
    BY <1>1 DEF ByDispute, BInv, IInv, TypeOK, IsTable, DisputesAgree, Open
  <1>3. Terms(x) /\ x \in TradeRow
    BY <1>1, TradeTerms DEF BInv, IInv, TypeOK, IsTable
  <1>4. /\ x.amount \in Nat /\ x.total \in Nat /\ x.currency # NGN /\ x.buyer # x.seller
    BY <1>3, WalletsAssumption DEF Terms
  <1>5. /\ l \in SabitRow /\ (IsBuyListing(x) <=> l.type = "BUY")
        /\ l.type \in {"SELL", "BUY"}
    BY <1>1, ListingsAre DEF IsBuyListing, SabitRow
  <1>6. /\ x.currency = l.currency
        /\ l.type = "SELL" => x.seller = l.user
        /\ l.type = "BUY" => x.buyer = l.user /\ x.total = NgnValue(x.amount, l.rate)
    BY <1>1 DEF BInv, Origins, Struck, BidOn
  <1>7. /\ y.status = "cancelled" /\ y.seller = x.seller /\ y.buyer = x.buyer
        /\ y.currency = x.currency /\ y.amount = x.amount /\ y.total = x.total
    BY <1>3 DEF TradeRow
  <1> HIDE DEF x, l
  <1>8. /\ Overdraft(x, IsBuyListing(x), ByDispute(t), v, d) = 0
        /\ Overdraft(y, IsBuyListing(x), ByDispute(t), v, d) = 0
    BY <1>1, <1>2 DEF Overdraft
  <1>9. TradeClaim(x, IsBuyListing(x), ByDispute(t), v, d)
          = (IF v = x.buyer /\ d = NGN THEN x.total ELSE 0)
              + (IF v = x.seller /\ d = x.currency THEN x.amount ELSE 0)
    BY <1>1, <1>4 DEF TradeClaim, Open
  <1>10. CASE l.type = "SELL"
    <2>1. TradeClaim(y, IsBuyListing(x), ByDispute(t), v, d)
            = IF v = x.buyer /\ d = NGN THEN x.total ELSE 0
      BY <1>2, <1>4, <1>5, <1>7, <1>10 DEF TradeClaim, Open
    <2>2. /\ OwnerCurrency(l) = x.currency /\ OwnerHold(l, x.amount) = x.amount
          /\ l.user = x.seller
      BY <1>6, <1>10 DEF OwnerCurrency, OwnerHold
    <2> QED
      BY <1>8, <1>9, <2>1, <2>2 DEF x, l
  <1>11. CASE l.type = "BUY"
    <2>1. TradeClaim(y, IsBuyListing(x), ByDispute(t), v, d)
            = IF v = x.seller /\ d = x.currency THEN x.amount ELSE 0
      BY <1>2, <1>4, <1>5, <1>7, <1>11 DEF TradeClaim, Open
    <2>2. /\ OwnerCurrency(l) = NGN /\ OwnerHold(l, x.amount) = x.total
          /\ l.user = x.buyer
      BY <1>6, <1>11 DEF OwnerCurrency, OwnerHold
    <2>3. TradeClaim(x, IsBuyListing(x), ByDispute(t), v, d)
            = TradeClaim(y, IsBuyListing(x), ByDispute(t), v, d)
                + (IF v = l.user /\ d = OwnerCurrency(l)
                   THEN OwnerHold(l, x.amount) ELSE 0)
      BY <1>4, <1>9, <2>1, <2>2
    <2> QED
      BY <1>8, <2>3 DEF x, l
  <1> QED
    BY <1>5, <1>10, <1>11

\* Giving back one more trade's amount.
LEMMA OneMoreRestored ==
  ASSUME BInv, NEW T, T \subseteq ExpiredTrades, NEW t \in ExpiredTrades, t \notin T,
         NEW s \in DOMAIN sabits
  PROVE  /\ Restored(s, T) \in SabitRow /\ SameListing(sabits[s], Restored(s, T))
         /\ Restored(s, T \cup {t}) \in SabitRow
         /\ SameListing(sabits[s], Restored(s, T \cup {t}))
         /\ Restored(s, T \cup {t}).available
              = Restored(s, T).available
                  + (IF trades[t].sabit = s THEN trades[t].amount ELSE 0)
  <1> DEFINE R == {i \in T : trades[i].sabit = s}
             Q == {i \in T \cup {t} : trades[i].sabit = s}
             amount == Column(trades, "amount")
             l == sabits[s]
             k == Restored(s, T)
             m == Restored(s, T \cup {t})
  <1>1. T \subseteq DOMAIN trades /\ t \in DOMAIN trades
    BY DEF ExpiredTrades
  <1>2. IsFiniteSet(R) /\ NatOn(amount, R) /\ Total(amount, R) \in Nat
        /\ amount[t] = trades[t].amount /\ trades[t].amount \in Nat
    <2>1. IsFiniteSet(R)
      <3>1. R \subseteq DOMAIN trades
        BY <1>1
      <3> QED
        BY <3>1, TablesAreFinite, FS_Subset DEF BInv
    <2>2. \A i \in DOMAIN trades : trades[i].amount \in Nat
      BY DEF BInv, IInv, TypeOK, IsTable, TradeRow
    <2>3. NatOn(amount, R)
      BY <1>1, <2>2 DEF NatOn, Column
    <2>4. amount[t] = trades[t].amount /\ trades[t].amount \in Nat
      BY <1>1, <2>2 DEF Column
    <2> QED
      BY <2>1, <2>3, <2>4, TotalIsNat
  <1>3. Total(amount, Q)
          = Total(amount, R) + (IF trades[t].sabit = s THEN trades[t].amount ELSE 0)
    <2>1. CASE trades[t].sabit = s
      <3>1. Q = R \cup {t} /\ t \in Q /\ Q \ {t} = R
        BY <2>1
      <3> HIDE DEF Q, R, amount
      <3>2. IsFiniteSet(Q) /\ NatOn(amount, Q)
        BY <1>2, <3>1, FS_AddElement DEF NatOn
      <3>3. Total(amount, Q) = amount[t] + Total(amount, R)
        BY <3>1, <3>2, TotalWithoutOne
      <3> QED
        BY <1>2, <2>1, <3>3
    <2>2. CASE trades[t].sabit # s
      <3>1. Q = R
        BY <2>2
      <3> QED
        BY <1>2, <2>2, <3>1
    <2> QED
      BY <2>1, <2>2
  <1>4. l \in SabitRow /\ l.available \in Nat
    BY ListingsAre DEF SabitRow
  <1>5. /\ k = [l EXCEPT !.available = l.available + Total(amount, R)]
        /\ m = [l EXCEPT !.available = l.available + Total(amount, Q)]
    BY <1>4 DEF Restored, SabitRow
  <1>6. Total(amount, Q) \in Nat
    BY <1>2, <1>3
  <1> HIDE DEF R, Q, amount, l, k, m
  <1>7. /\ k \in SabitRow /\ SameListing(l, k) /\ k.available = l.available + Total(amount, R)
        /\ m \in SabitRow /\ SameListing(l, m) /\ m.available = l.available + Total(amount, Q)
    BY <1>2, <1>4, <1>5, <1>6 DEF SabitRow, SameListing
  <1>8. m.available
          = k.available + (IF trades[t].sabit = s THEN trades[t].amount ELSE 0)
    BY <1>2, <1>3, <1>4, <1>7
  <1> QED
    BY <1>7, <1>8 DEF l, k, m

\* Claims on locked money while the amounts of the trades in T have been given
\* back and the others not.
RestoredClaims(T, u, c) ==
  [s \in DOMAIN sabits |-> SabitClaim(Restored(s, T), u, c)]

\* The claims of the trades, those of T already cancelled.
EndedClaims(T, u, c) ==
  [t \in DOMAIN trades |->
     IF t \in T
     THEN TradeClaim([trades[t] EXCEPT !.status = "cancelled"],
                     IsBuyListing(trades[t]), ByDispute(t), u, c)
     ELSE TradeClaimOf(u, c)[t]]

\* The shares of the trades in the roundings, those of T already cancelled.
EndedSlacks(T, u, c) ==
  [t \in DOMAIN trades |->
     IF t \in T
     THEN Slack([trades[t] EXCEPT !.status = "cancelled"], Rounded(trades[t]), u, c)
     ELSE SlackOf(u, c)[t]]

\* No trade has ended yet.
LEMMA NothingRestored ==
  ASSUME BInv, NEW v, NEW d
  PROVE  /\ Total(RestoredClaims({}, v, d), DOMAIN sabits) = SabitClaims(v, d)
         /\ Total(EndedClaims({}, v, d), DOMAIN trades) = TradeClaims(v, d)
         /\ Total(EndedSlacks({}, v, d), DOMAIN trades) = Slacks(v, d)
  <1>1. \A s \in DOMAIN sabits : RestoredClaims({}, v, d)[s] = SabitClaimOf(v, d)[s]
    <2> SUFFICES ASSUME NEW s \in DOMAIN sabits
                 PROVE  SabitClaim(Restored(s, {}), v, d) = SabitClaim(sabits[s], v, d)
      BY DEF RestoredClaims, SabitClaimOf
    <2>1. {t \in {} : trades[t].sabit = s} = {}
      OBVIOUS
    <2>2. Total(Column(trades, "amount"), {t \in {} : trades[t].sabit = s}) = 0
      BY <2>1, TotalOfNothing
    <2>3. sabits[s] \in SabitRow /\ sabits[s].available + 0 = sabits[s].available
      BY ListingsAre DEF SabitRow
    <2>4. Restored(s, {}) = sabits[s]
      BY <2>2, <2>3 DEF Restored, SabitRow
    <2> QED
      BY <2>4
  <1>2. \A t \in DOMAIN trades : EndedClaims({}, v, d)[t] = TradeClaimOf(v, d)[t]
    BY DEF EndedClaims
  <1>3. Total(EndedSlacks({}, v, d), DOMAIN trades) = Slacks(v, d)
    <2>1. \A t \in DOMAIN trades : EndedSlacks({}, v, d)[t] = SlackOf(v, d)[t]
      BY DEF EndedSlacks
    <2> QED
      BY <2>1, TotalDependsOnRows DEF Slacks, SlackOf
  <1> QED
    BY <1>1, <1>2, <1>3, TotalDependsOnRows
    DEF SabitClaims, SabitClaimOf, TradeClaims, TradeClaimOf

\* A trade that ends takes a second share in the roundings, if it has one.
LEMMA OneMoreSlack ==
  ASSUME BInv, NEW T, T \subseteq ExpiredTrades,
         NEW t \in ExpiredTrades, t \notin T, NEW v \in Users, NEW d \in Currencies
  PROVE  /\ Total(EndedSlacks(T \cup {t}, v, d), DOMAIN trades)
              = Total(EndedSlacks(T, v, d), DOMAIN trades)
                  + Play(sabits[trades[t].sabit], v, d)
         /\ Total(EndedSlacks(T \cup {t}, v, d), DOMAIN trades) \in Nat
  <1> DEFINE x == trades[t]
             y == [x EXCEPT !.status = "cancelled"]
             p == EndedSlacks(T, v, d)
             q == EndedSlacks(T \cup {t}, v, d)
             n == Play(sabits[x.sabit], v, d)
  <1>1. /\ t \in DOMAIN trades /\ x \in TradeRow /\ x.status \in {"escrowed", "initiated"}
        /\ IsFiniteSet(DOMAIN trades)
    <2>1. t \in DOMAIN trades /\ x.status \in {"escrowed", "initiated"}
      BY DEF ExpiredTrades
    <2>2. x \in TradeRow
      BY <2>1 DEF BInv, IInv, TypeOK, IsTable
    <2> QED
      BY <2>1, <2>2, TablesAreFinite DEF BInv
  <1>2. /\ Rounded(x) <=> PriceRounds(sabits[x.sabit])
        /\ PriceRounds(sabits[x.sabit]) => x.buyer = sabits[x.sabit].user
    BY <1>1 DEF Rounded, PriceRounds, BInv, Origins, Struck
  <1>3. y.status = "cancelled" /\ y.buyer = x.buyer
    BY <1>1 DEF TradeRow
  <1>4. NatOn(p, DOMAIN trades) /\ (\A i \in DOMAIN trades \ {t} : q[i] = p[i])
    BY DEF EndedSlacks, SlackOf, Slack, NatOn
  <1>5. /\ p[t] = Slack(x, Rounded(x), v, d)
        /\ q[t] = Slack(y, Rounded(x), v, d)
    BY <1>1 DEF EndedSlacks, SlackOf
  <1> HIDE DEF y
  <1>6. q[t] = p[t] + n /\ n \in Nat /\ q[t] \in Nat
    <2> HIDE DEF p, q, x
    <2> QED
      BY <1>1, <1>2, <1>3, <1>5 DEF Slack, Play
  <1> HIDE DEF p, q, n, x
  <1>7. /\ Total(q, DOMAIN trades) + p[t] = Total(p, DOMAIN trades) + q[t]
        /\ Total(q, DOMAIN trades) \in Nat
    BY <1>1, <1>4, <1>6, TotalOfChange
  <1>8. Total(p, DOMAIN trades) \in Nat /\ p[t] \in Nat
    BY <1>1, <1>4, TotalIsNat DEF NatOn
  <1>9. Total(q, DOMAIN trades) = Total(p, DOMAIN trades) + n
    BY <1>6, <1>7, <1>8
  <1> QED
    BY <1>7, <1>9 DEF p, q, n, x

\* What one more trade loses, its listing gains, up to the rounding.
LEMMA OneMoreEnds ==
  ASSUME BInv, NEW T, T \subseteq ExpiredTrades,
         NEW t \in ExpiredTrades, t \notin T, NEW v \in Users, NEW d \in Currencies
  PROVE  /\ \E e \in -Play(sabits[trades[t].sabit], v, d)
                          .. Play(sabits[trades[t].sabit], v, d) :
              Total(RestoredClaims(T \cup {t}, v, d), DOMAIN sabits)
                + Total(EndedClaims(T \cup {t}, v, d), DOMAIN trades)
              = Total(RestoredClaims(T, v, d), DOMAIN sabits)
                  + Total(EndedClaims(T, v, d), DOMAIN trades) + e
         /\ Total(RestoredClaims(T \cup {t}, v, d), DOMAIN sabits) \in Nat
         /\ Total(EndedClaims(T \cup {t}, v, d), DOMAIN trades) \in Nat
  <1> DEFINE x == trades[t]
             y == [x EXCEPT !.status = "cancelled"]
             s == x.sabit
             U == T \cup {t}
             f == RestoredClaims(T, v, d)
             g == RestoredClaims(U, v, d)
             p == EndedClaims(T, v, d)
             q == EndedClaims(U, v, d)
             l == sabits[s]
             n == IF v = l.user /\ d = OwnerCurrency(l) THEN OwnerHold(l, x.amount) ELSE 0
  <1>1. /\ t \in DOMAIN trades /\ T \subseteq DOMAIN trades
        /\ \A i \in DOMAIN trades : trades[i] \in TradeRow
        /\ s \in DOMAIN sabits /\ l \in SabitRow
        /\ l.type \in ListingTypes /\ l.rate \in Rates
    <2>1. t \in DOMAIN trades /\ T \subseteq DOMAIN trades
      BY DEF ExpiredTrades
    <2>2. \A i \in DOMAIN trades : trades[i] \in TradeRow
      BY DEF BInv, IInv, TypeOK, IsTable
    <2> QED
      BY <2>1, <2>2, ListingsAre
  <1>2. /\ IsFiniteSet(DOMAIN sabits) /\ IsFiniteSet(DOMAIN trades)
        /\ x.amount \in Nat /\ y \in TradeRow
    <2>1. x.amount \in Nat /\ y \in TradeRow
      BY <1>1 DEF TradeRow, TradeStatus
    <2> QED
      BY <2>1, TablesAreFinite DEF BInv
  <1>3. n \in Nat
    BY <1>1, <1>2, HoldsAreNat
  <1>4. NatOn(f, DOMAIN sabits) /\ \A i \in DOMAIN sabits : g[i] \in Nat
    <2>1. \A i \in DOMAIN sabits : Restored(i, T) \in SabitRow /\ Restored(i, U) \in SabitRow
      BY OneMoreRestored
    <2> QED
      BY <2>1, SabitClaimIsNat DEF NatOn, RestoredClaims
  <1>5. NatOn(p, DOMAIN trades)
    <2>1. ASSUME NEW i \in DOMAIN trades
          PROVE  p[i] \in Nat
      <3>1. /\ TradeClaimOf(v, d)[i] \in Nat
            /\ [trades[i] EXCEPT !.status = "cancelled"] \in TradeRow
        BY <1>1, ClaimsAreNat DEF BInv, NatOn, TradeRow, TradeStatus
      <3> QED
        BY <3>1, TradeClaimIsNat DEF EndedClaims
    <2> HIDE DEF p
    <2> QED
      BY <2>1 DEF NatOn
  <1>6. PICK e \in -Play(l, v, d) .. Play(l, v, d) : g[s] = f[s] + e + n
    <2> DEFINE k == Restored(s, T)
               m == Restored(s, U)
    <2>1. /\ k \in SabitRow /\ SameListing(l, k) /\ m \in SabitRow /\ SameListing(l, m)
          /\ m.available = k.available + (IF x.sabit = s THEN x.amount ELSE 0)
      BY <1>1, OneMoreRestored
    <2>2. m.available = k.available + x.amount /\ SameListing(m, k)
          /\ m.type \in ListingTypes /\ m.rate \in Rates
          /\ m.user = l.user /\ m.type = l.type /\ m.rate = l.rate /\ m.currency = l.currency
      BY <1>1, <2>1 DEF SameListing
    <2>3. g[s] = SabitClaim(m, v, d) /\ f[s] = SabitClaim(k, v, d)
      BY <1>1 DEF RestoredClaims
    <2> HIDE DEF k, m, l, x, s
    <2>4. PICK e \in -Play(m, v, d) .. Play(m, v, d) :
            SabitClaim(m, v, d)
              = SabitClaim(k, v, d) + e
                  + (IF v = m.user /\ d = OwnerCurrency(m)
                     THEN OwnerHold(m, x.amount) ELSE 0)
      BY <1>2, <2>1, <2>2, ClaimOfPart
    <2>5. OwnerCurrency(m) = OwnerCurrency(l) /\ OwnerHold(m, x.amount) = OwnerHold(l, x.amount)
      BY <2>2 DEF OwnerCurrency, OwnerHold
    <2>6. Play(m, v, d) = Play(l, v, d)
      BY <2>2 DEF Play, PriceRounds
    <2>7. g[s] = f[s] + e + n
      BY <2>2, <2>3, <2>4, <2>5 DEF n
    <2> QED
      BY <2>4, <2>6, <2>7
  <1>7. \A i \in DOMAIN sabits \ {s} : g[i] = f[i]
    <2> SUFFICES ASSUME NEW i \in DOMAIN sabits, i # s
                 PROVE  g[i] = f[i]
      OBVIOUS
    <2> DEFINE k == Restored(i, T)
               m == Restored(i, U)
    <2>1. /\ k \in SabitRow /\ SameListing(sabits[i], k)
          /\ m \in SabitRow /\ SameListing(sabits[i], m)
          /\ m.available = k.available + (IF x.sabit = i THEN x.amount ELSE 0)
      BY OneMoreRestored
    <2>2. /\ m.available = k.available /\ m.user = k.user /\ m.type = k.type
          /\ m.rate = k.rate /\ m.currency = k.currency
      BY <2>1 DEF SameListing, SabitRow
    <2>3. g[i] = SabitClaim(m, v, d) /\ f[i] = SabitClaim(k, v, d)
      BY DEF RestoredClaims
    <2> HIDE DEF k, m
    <2> QED
      BY <2>2, <2>3 DEF SabitClaim, OwnerCurrency, OwnerHold
  <1>8. /\ p[t] = q[t] + n
        /\ q[t] \in Nat
        /\ \A i \in DOMAIN trades \ {t} : q[i] = p[i]
    <2>1. /\ p[t] = TradeClaim(x, IsBuyListing(x), ByDispute(t), v, d)
          /\ q[t] = TradeClaim(y, IsBuyListing(x), ByDispute(t), v, d)
      BY <1>1 DEF EndedClaims, TradeClaimOf
    <2>2. \A i \in DOMAIN trades \ {t} : q[i] = p[i]
      BY DEF EndedClaims
    <2>3. TradeClaim(x, IsBuyListing(x), ByDispute(t), v, d)
            = TradeClaim(y, IsBuyListing(x), ByDispute(t), v, d) + n
      BY ExpiredTradeClaims
    <2>4. TradeClaim(y, IsBuyListing(x), ByDispute(t), v, d) \in Nat
      BY <1>2, TradeClaimIsNat
    <2> QED
      BY <2>1, <2>2, <2>3, <2>4
  <1> HIDE DEF f, g, p, q, n, x, y, s, U, l
  <1>9. /\ Total(g, DOMAIN sabits) + f[s] = Total(f, DOMAIN sabits) + g[s]
        /\ Total(g, DOMAIN sabits) \in Nat
    BY <1>1, <1>2, <1>4, <1>7, TotalOfChange
  <1>10. /\ Total(q, DOMAIN trades) + p[t] = Total(p, DOMAIN trades) + q[t]
         /\ Total(q, DOMAIN trades) \in Nat
    BY <1>1, <1>2, <1>5, <1>8, TotalOfChange
  <1>11. /\ Total(f, DOMAIN sabits) \in Nat /\ Total(p, DOMAIN trades) \in Nat
         /\ f[s] \in Nat
    BY <1>1, <1>2, <1>4, <1>5, TotalIsNat DEF NatOn
  <1>12. Total(g, DOMAIN sabits) + Total(q, DOMAIN trades)
           = Total(f, DOMAIN sabits) + Total(p, DOMAIN trades) + e
    <2>0. e \in Int
      BY DEF Play
    <2>1. Total(g, DOMAIN sabits) = Total(f, DOMAIN sabits) + e + n
      BY <1>3, <1>6, <1>9, <1>11, <2>0
    <2>2. q[t] \in Nat /\ p[t] = q[t] + n
      BY <1>8
    <2>3. Total(q, DOMAIN trades) + n = Total(p, DOMAIN trades)
      BY <1>3, <1>10, <1>11, <2>2
    <2> QED
      BY <1>3, <1>9, <1>10, <1>11, <2>0, <2>1, <2>3
  <1> QED
    BY <1>6, <1>9, <1>10, <1>12 DEF f, g, p, q, U, l, s, x

\* pinExpiryJob: all trades of S have ended.
LEMMA PinExpiryJobBooks ==
  ASSUME BInv, NEW S \in SUBSET TradeIds, PinExpiryJob(S)
  PROVE  Accounted'
  <1>1. /\ S \subseteq ExpiredTrades /\ S \subseteq DOMAIN trades
        /\ trades' = SetStatus(trades, S, "cancelled")
        /\ sabits' = [s \in DOMAIN sabits |-> Restored(s, S)]
        /\ UNCHANGED <<wallets, pinSet, bids, disputes>>
    BY DEF PinExpiryJob, ExpiredTrades
  <1>2. \A i \in DOMAIN trades : /\ trades[i] \in TradeRow
                                 /\ trades[i].sabit \in DOMAIN sabits
    BY DEF BInv, IInv, TypeOK, IsTable, Related
  <1>3. \A s \in DOMAIN sabits :
          sabits'[s].type = sabits[s].type /\ sabits'[s].rate = sabits[s].rate
    BY <1>1, ListingsAre DEF Restored, SabitRow
  <1>4. /\ DOMAIN sabits' = DOMAIN sabits /\ DOMAIN trades' = DOMAIN trades
        /\ \A i \in DOMAIN trades :
             /\ trades'[i].sabit = trades[i].sabit
             /\ i \in S => trades'[i] = [trades[i] EXCEPT !.status = "cancelled"]
             /\ i \notin S => trades'[i] = trades[i]
    BY <1>1, <1>2 DEF SetStatus, TradeRow
  <1>5. \A i \in DOMAIN trades :
          /\ IsBuyListing(trades[i])' = IsBuyListing(trades[i])
          /\ ByDispute(i)' = ByDispute(i)
          /\ Rounded(trades[i])' = Rounded(trades[i])
    <2> SUFFICES ASSUME NEW i \in DOMAIN trades
                 PROVE  /\ IsBuyListing(trades[i])' = IsBuyListing(trades[i])
                        /\ ByDispute(i)' = ByDispute(i)
                        /\ Rounded(trades[i])' = Rounded(trades[i])
      OBVIOUS
    <2>1. /\ trades'[i].sabit = trades[i].sabit
          /\ sabits'[trades[i].sabit].type = sabits[trades[i].sabit].type
          /\ sabits'[trades[i].sabit].rate = sabits[trades[i].sabit].rate
      BY <1>2, <1>3, <1>4
    <2>2. IsBuyListing(trades[i])' = IsBuyListing(trades[i])
      BY <2>1 DEF IsBuyListing
    <2>3. ByDispute(i)' = ByDispute(i)
      BY <1>1 DEF ByDispute
    <2>4. Rounded(trades[i])' = Rounded(trades[i])
      BY <2>1 DEF Rounded, PriceRounds
    <2> QED
      BY <2>2, <2>3, <2>4
  <1> SUFFICES ASSUME NEW v \in Users, NEW d \in Currencies
               PROVE  Balanced(v, d)'
    BY DEF Accounted
  <1> DEFINE Drift(T) ==
               Total(RestoredClaims(T, v, d), DOMAIN sabits)
                 + Total(EndedClaims(T, v, d), DOMAIN trades)
                 - (SabitClaims(v, d) + TradeClaims(v, d))
  <1>6. SabitClaims(v, d)' = Total(RestoredClaims(S, v, d), DOMAIN sabits)
    <2>1. \A s \in DOMAIN sabits : SabitClaimOf(v, d)'[s] = RestoredClaims(S, v, d)[s]
      BY <1>1, <1>4 DEF SabitClaimOf, RestoredClaims
    <2> QED
      BY <1>4, <2>1, TotalDependsOnRows DEF SabitClaims, SabitClaimOf
  <1>7. TradeClaims(v, d)' = Total(EndedClaims(S, v, d), DOMAIN trades)
    <2>1. \A i \in DOMAIN trades : TradeClaimOf(v, d)'[i] = EndedClaims(S, v, d)[i]
      BY <1>4, <1>5 DEF TradeClaimOf, EndedClaims
    <2> QED
      BY <1>4, <2>1, TotalDependsOnRows DEF TradeClaims, TradeClaimOf
  <1>8. Overdrafts(v, d)' = Overdrafts(v, d)
    <2>1. ASSUME NEW i \in DOMAIN trades
          PROVE  OverdraftOf(v, d)'[i] = OverdraftOf(v, d)[i]
      <3>1. OverdraftOf(v, d)'[i]
              = Overdraft(trades'[i], IsBuyListing(trades[i]), ByDispute(i), v, d)
        BY <1>4, <1>5 DEF OverdraftOf
      <3>2. CASE i \in S
        <4>1. trades'[i] = [trades[i] EXCEPT !.status = "cancelled"] /\ i \in ExpiredTrades
          BY <1>1, <1>4, <3>2
        <4> QED
          BY <3>1, <4>1, ExpiredTradeClaims DEF OverdraftOf
      <3>3. CASE i \notin S
        BY <1>4, <3>1, <3>3 DEF OverdraftOf
      <3> QED
        BY <3>2, <3>3
    <2> QED
      BY <1>4, <2>1, TotalDependsOnRows DEF Overdrafts, OverdraftOf
  <1>9. /\ Drift(S) <= Total(EndedSlacks(S, v, d), DOMAIN trades) - Slacks(v, d)
        /\ -Drift(S) <= Total(EndedSlacks(S, v, d), DOMAIN trades) - Slacks(v, d)
        /\ Total(RestoredClaims(S, v, d), DOMAIN sabits) \in Nat
        /\ Total(EndedClaims(S, v, d), DOMAIN trades) \in Nat
        /\ Total(EndedSlacks(S, v, d), DOMAIN trades) \in Nat
    <2> DEFINE Kept(T) ==
                 /\ Drift(T) <= Total(EndedSlacks(T, v, d), DOMAIN trades) - Slacks(v, d)
                 /\ -Drift(T) <= Total(EndedSlacks(T, v, d), DOMAIN trades) - Slacks(v, d)
                 /\ Total(RestoredClaims(T, v, d), DOMAIN sabits) \in Nat
                 /\ Total(EndedClaims(T, v, d), DOMAIN trades) \in Nat
                 /\ Total(EndedSlacks(T, v, d), DOMAIN trades) \in Nat
               G == {T \in SUBSET S : Kept(T)}
    <2>1. {} \in G
      <3>1. /\ SabitClaims(v, d) \in Nat /\ TradeClaims(v, d) \in Nat
            /\ Slacks(v, d) \in Nat
        BY AccountBefore
      <3>2. /\ Total(RestoredClaims({}, v, d), DOMAIN sabits) = SabitClaims(v, d)
            /\ Total(EndedClaims({}, v, d), DOMAIN trades) = TradeClaims(v, d)
            /\ Total(EndedSlacks({}, v, d), DOMAIN trades) = Slacks(v, d)
        BY NothingRestored
      <3> QED
        BY <3>1, <3>2
    <2>2. ASSUME NEW T \in SUBSET S, NEW t \in S \ T, T \in G
          PROVE  T \cup {t} \in G
      <3>1. T \subseteq ExpiredTrades /\ t \in ExpiredTrades /\ t \notin T
            /\ T \cup {t} \in SUBSET S
        BY <1>1
      <3>2. Kept(T)
        BY <2>2
      <3>3. Kept(T \cup {t})
        <4> DEFINE n == Play(sabits[trades[t].sabit], v, d)
                   f == Total(RestoredClaims(T, v, d), DOMAIN sabits)
                   g == Total(RestoredClaims(T \cup {t}, v, d), DOMAIN sabits)
                   p == Total(EndedClaims(T, v, d), DOMAIN trades)
                   q == Total(EndedClaims(T \cup {t}, v, d), DOMAIN trades)
                   i == Total(EndedSlacks(T, v, d), DOMAIN trades)
                   j == Total(EndedSlacks(T \cup {t}, v, d), DOMAIN trades)
        <4>1. PICK e \in -n .. n : g + q = f + p + e
          BY <3>1, OneMoreEnds
        <4>2. n \in Nat /\ e \in Int /\ -n <= e /\ e <= n
          <5>1. n \in Nat
            BY DEF Play
          <5> HIDE DEF n
          <5> QED
            BY <5>1
        <4>3. g \in Nat /\ q \in Nat /\ j = i + n /\ j \in Nat
          BY <3>1, OneMoreEnds, OneMoreSlack
        <4>4. /\ f \in Nat /\ p \in Nat /\ i \in Nat
              /\ f + p - (SabitClaims(v, d) + TradeClaims(v, d)) <= i - Slacks(v, d)
              /\ -(f + p - (SabitClaims(v, d) + TradeClaims(v, d))) <= i - Slacks(v, d)
          BY <3>2
        <4>5. /\ SabitClaims(v, d) \in Nat /\ TradeClaims(v, d) \in Nat
              /\ Slacks(v, d) \in Nat
          BY AccountBefore
        <4> HIDE DEF n, f, g, p, q, i, j
        <4>6. /\ g + q - (SabitClaims(v, d) + TradeClaims(v, d)) <= j - Slacks(v, d)
              /\ -(g + q - (SabitClaims(v, d) + TradeClaims(v, d))) <= j - Slacks(v, d)
          BY <4>1, <4>2, <4>3, <4>4, <4>5
        <4> QED
          BY <4>3, <4>6 DEF g, q, j
      <3> QED
        BY <3>1, <3>3
    <2>3. IsFiniteSet(S)
      BY <1>1, TablesAreFinite, FS_Subset DEF BInv
    <2>4. S \in G
      <3> HIDE DEF G
      <3> QED
        BY <2>1, <2>2, <2>3, SubsetInduction
    <2> QED
      BY <2>4
  <1>10. BidClaims(v, d)' = BidClaims(v, d)
    BY <1>1 DEF BidClaims, BidClaimOf
  <1>11. Slacks(v, d)' = Total(EndedSlacks(S, v, d), DOMAIN trades)
    <2>1. \A i \in DOMAIN trades : SlackOf(v, d)'[i] = EndedSlacks(S, v, d)[i]
      BY <1>4, <1>5 DEF SlackOf, EndedSlacks
    <2> QED
      BY <1>4, <2>1, TotalDependsOnRows DEF Slacks, SlackOf
  <1>12. /\ wallets[<<v, d>>].locked \in Nat
         /\ SabitClaims(v, d) \in Nat /\ TradeClaims(v, d) \in Nat
         /\ Overdrafts(v, d) \in Nat /\ BidClaims(v, d) \in Nat
         /\ Slacks(v, d) \in Nat
    BY AccountBefore
  <1>13. /\ SabitClaims(v, d)' \in Nat /\ TradeClaims(v, d)' \in Nat
         /\ Slacks(v, d)' \in Nat
    BY <1>6, <1>7, <1>9, <1>11
  <1>14. Drift(S) = SabitClaims(v, d)' + TradeClaims(v, d)'
                      - (SabitClaims(v, d) + TradeClaims(v, d))
    BY <1>6, <1>7
  <1> DEFINE g == Slacks(v, d)' - Slacks(v, d)
  <1>15. Drift(S) \in Int /\ Drift(S) <= g /\ -Drift(S) <= g
    BY <1>9, <1>11, <1>12, <1>13, <1>14
  <1> HIDE DEF Drift
  <1>16. /\ g \in Nat /\ -Drift(S) \in Int /\ -g <= -Drift(S) /\ -Drift(S) <= g
         /\ Slacks(v, d)' = Slacks(v, d) + g
    BY <1>12, <1>13, <1>15
  <1>17. /\ Held(v, d)' = Held(v, d)
         /\ Due(v, d)' = Due(v, d) + Drift(S)
         /\ Held(v, d) \in Int /\ Due(v, d) \in Int
    <2>1. wallets' = wallets
      BY <1>1
    <2> QED
      BY <1>8, <1>10, <1>12, <1>13, <1>14, <2>1 DEF Held, Due
  <1> HIDE DEF g
  <1>18. /\ Held(v, d)' - Due(v, d)' = Held(v, d) - Due(v, d) + (-Drift(S))
         /\ Held(v, d)' \in Int /\ Due(v, d)' \in Int
    BY <1>15, <1>17
  <1> QED
    BY <1>16, <1>18, BooksMove

-----------------------------------------------------------------------------
(***************************************************************************)
(* Origins is kept: no step changes the terms of a listing, a trade or a   *)
(* bid.                                                                    *)
(***************************************************************************)
\* Rows that differ in nothing but their status and their window.
SameTerms(x, y) ==
  /\ y.sabit = x.sabit /\ y.buyer = x.buyer /\ y.seller = x.seller
  /\ y.currency = x.currency /\ y.amount = x.amount /\ y.total = x.total

\* Listings that appear are of the market's types and prices.
NewSabits ==
  \A s \in DOMAIN sabits' \ DOMAIN sabits :
    sabits'[s].type \in ListingTypes /\ sabits'[s].rate \in Rates

\* Trades keep their terms, or appear with those of their listing.
NewTrades ==
  \A t \in DOMAIN trades' :
    \/ t \in DOMAIN trades /\ SameTerms(trades[t], trades'[t])
    \/ /\ trades'[t].sabit \in DOMAIN sabits
       /\ Struck(trades'[t], sabits[trades'[t].sabit])

\* So do bids.
NewBids ==
  \A b \in DOMAIN bids' :
    \/ b \in DOMAIN bids /\ SameTerms(bids[b], bids'[b])
    \/ /\ bids'[b].sabit \in DOMAIN sabits
       /\ BidOn(bids'[b], sabits[bids'[b].sabit])

\* This is enough for Origins.
LEMMA OriginsKept ==
  ASSUME BInv, SabitsStand, NewSabits, NewTrades, NewBids
  PROVE  Origins'
  <1>1. ASSUME NEW s \in DOMAIN sabits'
        PROVE  sabits'[s].type \in ListingTypes /\ sabits'[s].rate \in Rates
    <2>1. CASE s \in DOMAIN sabits
      BY <2>1 DEF BInv, Origins, SabitsStand, SameListing
    <2>2. CASE s \notin DOMAIN sabits
      BY <2>2 DEF NewSabits
    <2> QED
      BY <2>1, <2>2
  <1>2. ASSUME NEW t \in DOMAIN trades'
        PROVE  Struck(trades'[t], sabits'[trades'[t].sabit])
    <2> DEFINE y == trades'[t]
    <2>1. y.sabit \in DOMAIN sabits /\ Struck(y, sabits[y.sabit])
      <3>1. CASE t \in DOMAIN trades /\ SameTerms(trades[t], y)
        <4>1. trades[t].sabit \in DOMAIN sabits /\ Struck(trades[t], sabits[trades[t].sabit])
          BY <3>1 DEF BInv, IInv, Related, Origins
        <4> QED
          BY <3>1, <4>1 DEF SameTerms, Struck
      <3> QED
        BY <3>1 DEF NewTrades
    <2>2. SameListing(sabits[y.sabit], sabits'[y.sabit])
      BY <2>1 DEF SabitsStand
    <2> QED
      BY <2>1, <2>2 DEF Struck, SameListing
  <1>3. ASSUME NEW b \in DOMAIN bids'
        PROVE  BidOn(bids'[b], sabits'[bids'[b].sabit])
    <2> DEFINE y == bids'[b]
    <2>1. y.sabit \in DOMAIN sabits /\ BidOn(y, sabits[y.sabit])
      <3>1. CASE b \in DOMAIN bids /\ SameTerms(bids[b], y)
        <4>1. bids[b].sabit \in DOMAIN sabits /\ BidOn(bids[b], sabits[bids[b].sabit])
          BY <3>1 DEF BInv, IInv, Related, Origins
        <4> QED
          BY <3>1, <4>1 DEF SameTerms, BidOn
      <3> QED
        BY <3>1 DEF NewBids
    <2>2. SameListing(sabits[y.sabit], sabits'[y.sabit])
      BY <2>1 DEF SabitsStand
    <2> QED
      BY <2>1, <2>2 DEF BidOn, SameListing
  <1> QED
    BY <1>1, <1>2, <1>3 DEF Origins

\* What a step that leaves a table alone does to it.
LEMMA TablesStand ==
  /\ UNCHANGED sabits => SabitsStand /\ NewSabits
  /\ UNCHANGED trades => NewTrades
  /\ UNCHANGED bids => NewBids
  BY DEF SabitsStand, SameListing, NewSabits, NewTrades, NewBids, SameTerms

\* A listing changes what is available of it, or its status.
LEMMA OneSabitStands ==
  ASSUME NEW s \in DOMAIN sabits, NEW k, SameListing(sabits[s], k),
         sabits' = [sabits EXCEPT ![s] = k]
  PROVE  SabitsStand /\ NewSabits
  BY DEF SabitsStand, SameListing, NewSabits

\* A trade, or a bid, changes its status or its window; or it appears.
LEMMA OneTradeStands ==
  /\ \A y : \A t \in DOMAIN trades :
       SameTerms(trades[t], y) /\ trades' = [trades EXCEPT ![t] = y] => NewTrades
  /\ \A t, y :
       y.sabit \in DOMAIN sabits /\ Struck(y, sabits[y.sabit]) /\ trades' = Insert(trades, t, y)
         => NewTrades
  BY DEF NewTrades, SameTerms, Insert

\* The same for bids.
LEMMA OneBidStands ==
  /\ \A y : \A b \in DOMAIN bids :
       SameTerms(bids[b], y) /\ bids' = [bids EXCEPT ![b] = y] => NewBids
  /\ \A b, y :
       y.sabit \in DOMAIN sabits /\ BidOn(y, sabits[y.sabit]) /\ bids' = Insert(bids, b, y)
         => NewBids
  BY DEF NewBids, SameTerms, Insert

\* Another status, or a window that passed, leaves the terms of a row alone.
LEMMA TermsStay ==
  /\ \A status : \A x \in TradeRow : SameTerms(x, [x EXCEPT !.status = status])
  /\ \A status : \A x \in BidRow : SameTerms(x, [x EXCEPT !.status = status])
  /\ \A x \in TradeRow \cup BidRow : SameTerms(x, [x EXCEPT !.expired = TRUE])
  BY DEF SameTerms, TradeRow, BidRow

\* Trades and bids are well formed rows.
LEMMA TradeRows ==
  ASSUME BInv
  PROVE  /\ \A t \in DOMAIN trades : trades[t] \in TradeRow
         /\ \A b \in DOMAIN bids : bids[b] \in BidRow
  BY DEF BInv, IInv, TypeOK, IsTable

\* Steps of listings.
LEMMA SabitStepOrigins ==
  ASSUME BInv, SabitStep
  PROVE  Origins'
  <1> PICK u \in Users, s \in SabitIds :
        \/ \E type \in ListingTypes, c \in Foreign, a \in Amounts, r \in Rates :
             CreateSabit(u, s, type, c, a, r)
        \/ CancelSabit(u, s)
    BY DEF SabitStep
  <1>1. UNCHANGED <<trades, bids>>
    BY DEF CreateSabit, CancelSabit
  <1>2. SabitsStand /\ NewSabits
    <2>1. ASSUME NEW type \in ListingTypes, NEW c \in Foreign, NEW a \in Amounts,
                 NEW r \in Rates, CreateSabit(u, s, type, c, a, r)
          PROVE  SabitsStand /\ NewSabits
      <3> DEFINE l == [user |-> u, type |-> type, currency |-> c, amount |-> a,
                       available |-> a, rate |-> r, status |-> "active"]
      <3>1. s \notin DOMAIN sabits /\ sabits' = Insert(sabits, s, l)
        BY <2>1 DEF CreateSabit
      <3>2. l.type \in ListingTypes /\ l.rate \in Rates
        OBVIOUS
      <3> HIDE DEF l
      <3> QED
        BY <3>1, <3>2 DEF Insert, SabitsStand, SameListing, NewSabits
    <2>2. ASSUME CancelSabit(u, s)
          PROVE  SabitsStand /\ NewSabits
      <3> DEFINE k == [sabits[s] EXCEPT !.status = "cancelled", !.available = 0]
      <3>1. s \in DOMAIN sabits /\ SameListing(sabits[s], k)
        BY <2>2, ListingsAre DEF CancelSabit, SabitRow, SameListing
      <3>2. sabits' = [sabits EXCEPT ![s] = k]
        BY <2>2, <3>1, ListingsAre DEF CancelSabit, SabitRow
      <3> QED
        BY <3>1, <3>2, OneSabitStands
    <2> QED
      BY <2>1, <2>2
  <1> QED
    BY <1>1, <1>2, TablesStand, OriginsKept

\* A listing from which an amount is taken, or to which it returns, stays the
\* same listing.
LEMMA TakenStands ==
  ASSUME BInv, NEW s \in DOMAIN sabits, NEW a,
         NEW k \in {Take(sabits[s], a), Reopened(sabits[s], a)},
         sabits' = [sabits EXCEPT ![s] = k]
  PROVE  SabitsStand /\ NewSabits
  <1>1. sabits[s] \in SabitRow
    BY ListingsAre
  <1>2. SameListing(sabits[s], k)
    BY <1>1 DEF SabitRow, Take, Reopened, SameListing
  <1> QED
    BY <1>2, OneSabitStands

\* initiateTrade makes a trade on the terms of its listing.
LEMMA InitiateTradeOrigins ==
  ASSUME BInv, NEW u \in Users, NEW s \in SabitIds, NEW t \in TradeIds,
         NEW a \in Amounts, InitiateTrade(u, s, t, a)
  PROVE  Origins'
  <1> DEFINE l == sabits[s]
             x == [sabit |-> s,
                   buyer |-> IF l.type = "SELL" THEN u ELSE l.user,
                   seller |-> IF l.type = "SELL" THEN l.user ELSE u,
                   currency |-> l.currency, amount |-> a,
                   total |-> NgnValue(a, l.rate),
                   status |-> "escrowed", expired |-> FALSE]
  <1>1. /\ s \in DOMAIN sabits /\ trades' = Insert(trades, t, x) /\ UNCHANGED bids
        /\ sabits' = [sabits EXCEPT ![s] = Take(sabits[s], a)]
    BY DEF InitiateTrade
  <1>2. x.sabit = s /\ Struck(x, l)
    BY DEF Struck
  <1> HIDE DEF x
  <1>3. SabitsStand /\ NewSabits
    BY <1>1, TakenStands
  <1> QED
    BY <1>1, <1>2, <1>3, TablesStand, OneTradeStands, OriginsKept

\* A trade that gets another status or whose window passes.
LEMMA TradeMoveOrigins ==
  ASSUME BInv, NEW t \in DOMAIN trades, NEW y, SameTerms(trades[t], y),
         trades' = [trades EXCEPT ![t] = y], SabitsStand, NewSabits, UNCHANGED bids
  PROVE  Origins'
  BY TablesStand, OneTradeStands, OriginsKept

\* Steps of trades.
LEMMA TradeStepOrigins ==
  ASSUME BInv, TradeStep
  PROVE  Origins'
  <1> PICK u \in Users, t \in TradeIds :
        \/ \E s \in SabitIds, a \in Amounts : InitiateTrade(u, s, t, a)
        \/ SellerConfirmTrade(u, t)
        \/ RaiseDispute(u, t)
    BY DEF TradeStep
  <1>1. ASSUME NEW status, t \in DOMAIN trades, UNCHANGED <<sabits, bids>>,
               trades' = [trades EXCEPT ![t].status = status]
        PROVE  Origins'
    <2>1. SameTerms(trades[t], [trades[t] EXCEPT !.status = status])
      BY <1>1, TradeRows, TermsStay
    <2>2. trades' = [trades EXCEPT ![t] = [trades[t] EXCEPT !.status = status]]
      BY <1>1
    <2> QED
      BY <1>1, <2>1, <2>2, TablesStand, TradeMoveOrigins
  <1>2. ASSUME SellerConfirmTrade(u, t) PROVE Origins'
    BY <1>1, <1>2 DEF SellerConfirmTrade
  <1>3. ASSUME RaiseDispute(u, t) PROVE Origins'
    BY <1>1, <1>3 DEF RaiseDispute
  <1> QED
    BY <1>2, <1>3, InitiateTradeOrigins

\* A resolution changes a status.
LEMMA ResolveDisputeOrigins ==
  ASSUME BInv, NEW t \in TradeIds, NEW favor \in Favors, ResolveDispute(t, favor)
  PROVE  Origins'
  <1> DEFINE x == trades[t]
             status == IF favor = "buyer" THEN "cancelled" ELSE "completed"
             y == [x EXCEPT !.status = status]
  <1>1. /\ t \in DOMAIN trades /\ UNCHANGED bids /\ trades' = [trades EXCEPT ![t] = y]
        /\ \/ UNCHANGED sabits
           \/ sabits' = [sabits EXCEPT ![x.sabit] = Reopened(@, x.amount)]
    BY DEF ResolveDispute, ResolveForBuyer, ResolveForSeller, BInv, IInv, Related
  <1>2. SameTerms(x, y) /\ x.sabit \in DOMAIN sabits
    BY <1>1, TradeRows, ListingsAre, TermsStay
  <1>3. SabitsStand /\ NewSabits
    BY <1>1, <1>2, TablesStand, TakenStands
  <1> HIDE DEF y
  <1> QED
    BY <1>1, <1>2, <1>3, TradeMoveOrigins

\* acceptBid makes a trade on the terms of its bid.
LEMMA AcceptBidOrigins ==
  ASSUME BInv, NEW u \in Users, NEW b \in BidIds, NEW t \in TradeIds, AcceptBid(u, b, t)
  PROVE  Origins'
  <1> DEFINE x == bids[b]
             y == [x EXCEPT !.status = "accepted"]
             z == [sabit |-> x.sabit, buyer |-> x.buyer, seller |-> x.seller,
                   currency |-> x.currency, amount |-> x.amount, total |-> x.total,
                   status |-> "completed", expired |-> FALSE]
  <1>1. /\ b \in DOMAIN bids /\ bids' = [bids EXCEPT ![b] = y]
        /\ sabits' = [sabits EXCEPT ![x.sabit] = Take(@, x.amount)]
        /\ trades' = Insert(trades, t, z)
    BY DEF AcceptBid
  <1>2. SameTerms(x, y) /\ x.sabit \in DOMAIN sabits
    BY <1>1, TradeRows, ListingsAre, TermsStay
  <1>3. BidOn(x, sabits[x.sabit])
    BY <1>1 DEF BInv, Origins
  <1>4. z.sabit = x.sabit /\ Struck(z, sabits[x.sabit])
    BY <1>3 DEF BidOn, Struck
  <1>5. SabitsStand /\ NewSabits
    BY <1>1, <1>2, TakenStands
  <1> HIDE DEF x, y, z
  <1> QED
    BY <1>1, <1>2, <1>4, <1>5, OneTradeStands, OneBidStands, OriginsKept DEF x

\* Steps of bids.
LEMMA BidStepOrigins ==
  ASSUME BInv, BidStep
  PROVE  Origins'
  <1> PICK u \in Users, b \in BidIds :
        \/ \E s \in SabitIds, a \in Amounts, r \in Rates : PlaceBid(u, s, b, a, r)
        \/ \E t \in TradeIds : AcceptBid(u, b, t)
        \/ RejectBid(u, b)
        \/ WithdrawBid(u, b)
    BY DEF BidStep
  <1>1. ASSUME NEW s \in SabitIds, NEW a \in Amounts, NEW r \in Rates, PlaceBid(u, s, b, a, r)
        PROVE  Origins'
    <2> DEFINE y == [sabit |-> s, buyer |-> u, seller |-> sabits[s].user,
                     currency |-> sabits[s].currency, amount |-> a,
                     total |-> NgnValue(a, r), expired |-> FALSE, status |-> "pending"]
    <2>1. /\ s \in DOMAIN sabits /\ sabits[s].type = "SELL"
          /\ bids' = Insert(bids, b, y) /\ UNCHANGED <<sabits, trades>>
      BY <1>1 DEF PlaceBid
    <2>2. y.sabit = s /\ BidOn(y, sabits[s])
      BY <2>1 DEF BidOn
    <2> HIDE DEF y
    <2> QED
      BY <2>1, <2>2, TablesStand, OneBidStands, OriginsKept
  <1>2. ASSUME b \in DOMAIN bids, NEW status, ReleaseBid(b, status)
        PROVE  Origins'
    <2>1. /\ bids' = [bids EXCEPT ![b] = [bids[b] EXCEPT !.status = status]]
          /\ UNCHANGED <<sabits, trades>>
      BY <1>2 DEF ReleaseBid
    <2>2. SameTerms(bids[b], [bids[b] EXCEPT !.status = status])
      BY <1>2, TradeRows, TermsStay
    <2> QED
      BY <1>2, <2>1, <2>2, TablesStand, OneBidStands, OriginsKept
  <1>3. RejectBid(u, b) => Origins'
    BY <1>2 DEF RejectBid
  <1>4. WithdrawBid(u, b) => Origins'
    BY <1>2 DEF WithdrawBid
  <1> QED
    BY <1>1, <1>3, <1>4, AcceptBidOrigins

\* Windows pass.
LEMMA ClockOrigins ==
  ASSUME BInv, Clock
  PROVE  Origins'
  <1>1. ASSUME NEW t \in TradeIds, PassPinWindow(t)
        PROVE  Origins'
    <2>1. /\ t \in DOMAIN trades /\ UNCHANGED <<sabits, bids>>
          /\ trades' = [trades EXCEPT ![t] = [trades[t] EXCEPT !.expired = TRUE]]
      BY <1>1 DEF PassPinWindow
    <2>2. SameTerms(trades[t], [trades[t] EXCEPT !.expired = TRUE])
      BY <2>1, TradeRows, TermsStay
    <2> QED
      BY <2>1, <2>2, TablesStand, TradeMoveOrigins
  <1>2. ASSUME NEW b \in BidIds, PassBidWindow(b)
        PROVE  Origins'
    <2>1. /\ b \in DOMAIN bids /\ UNCHANGED <<sabits, trades>>
          /\ bids' = [bids EXCEPT ![b] = [bids[b] EXCEPT !.expired = TRUE]]
      BY <1>2 DEF PassBidWindow
    <2>2. SameTerms(bids[b], [bids[b] EXCEPT !.expired = TRUE])
      BY <2>1, TradeRows, TermsStay
    <2> QED
      BY <2>1, <2>2, TablesStand, OneBidStands, OriginsKept
  <1> QED
    BY <1>1, <1>2 DEF Clock

\* The jobs change statuses.
LEMMA JobsOrigins ==
  ASSUME BInv, Jobs
  PROVE  Origins'
  <1>1. ASSUME NEW S \in SUBSET TradeIds, PinExpiryJob(S)
        PROVE  Origins'
    <2>1. /\ trades' = SetStatus(trades, S, "cancelled") /\ UNCHANGED bids
          /\ sabits' = [s \in DOMAIN sabits |-> Restored(s, S)]
      BY <1>1 DEF PinExpiryJob
    <2>2. SabitsStand /\ NewSabits
      <3>1. \A s \in DOMAIN sabits : SameListing(sabits[s], Restored(s, S))
        BY ListingsAre DEF Restored, SabitRow, SameListing
      <3> QED
        BY <2>1, <3>1 DEF SabitsStand, NewSabits
    <2>3. NewTrades
      <3>1. \A t \in DOMAIN trades :
              /\ SameTerms(trades[t], [trades[t] EXCEPT !.status = "cancelled"])
              /\ SameTerms(trades[t], trades[t])
        BY TradeRows, TermsStay DEF SameTerms
      <3> QED
        BY <2>1, <3>1 DEF NewTrades, SetStatus
    <2> QED
      BY <2>1, <2>2, <2>3, TablesStand, OriginsKept
  <1>2. ASSUME NEW S \in SUBSET BidIds, BidExpiryJob(S)
        PROVE  Origins'
    <2>1. bids' = SetStatus(bids, S, "expired") /\ UNCHANGED <<sabits, trades>>
      BY <1>2 DEF BidExpiryJob
    <2>2. NewBids
      <3>1. \A b \in DOMAIN bids :
              /\ SameTerms(bids[b], [bids[b] EXCEPT !.status = "expired"])
              /\ SameTerms(bids[b], bids[b])
        BY TradeRows, TermsStay DEF SameTerms
      <3> QED
        BY <2>1, <3>1 DEF NewBids, SetStatus
    <2> QED
      BY <2>1, <2>2, TablesStand, OriginsKept
  <1> QED
    BY <1>1, <1>2 DEF Jobs

-----------------------------------------------------------------------------
(***************************************************************************)
(* The theorems of the books.                                              *)
(***************************************************************************)
\* Every step of the marketplace keeps the books balanced.
LEMMA StepBooks ==
  ASSUME BInv, [Next]_vars
  PROVE  BInv'
  <1>1. IInv'
    BY StepInv DEF BInv
  <1>2. CASE UNCHANGED <<wallets, sabits, trades, bids, disputes>>
    <2>1. Origins'
      BY <1>2 DEF BInv, Origins
    <2>2. Accounted'
      BY <1>2
      DEF BInv, Accounted, Balanced, Held, Due, SabitClaims, SabitClaimOf,
          TradeClaims, TradeClaimOf, BidClaims, BidClaimOf, Overdrafts, OverdraftOf,
          Slacks, SlackOf, Rounded, PriceRounds, IsBuyListing, ByDispute
    <2> QED
      BY <1>1, <2>1, <2>2 DEF BInv
  <1>3. CASE SabitStep
    <2>1. Accounted'
      BY <1>3, CreateSabitBooks, CancelSabitBooks DEF SabitStep
    <2> QED
      BY <1>1, <1>3, <2>1, SabitStepOrigins DEF BInv
  <1>4. CASE TradeStep
    <2>1. Accounted'
      BY <1>4, InitiateTradeBooks, SellerConfirmTradeBooks, RaiseDisputeBooks DEF TradeStep
    <2> QED
      BY <1>1, <1>4, <2>1, TradeStepOrigins DEF BInv
  <1>5. CASE BidStep
    <2>1. Accounted'
      BY <1>5, PlaceBidBooks, AcceptBidBooks, ReleaseBidBooks
      DEF BidStep, RejectBid, WithdrawBid
    <2> QED
      BY <1>1, <1>5, <2>1, BidStepOrigins DEF BInv
  <1>6. CASE AdminStep
    <2>1. Accounted' /\ Origins'
      BY <1>6, ResolveDisputeBooks, ResolveDisputeOrigins DEF AdminStep
    <2> QED
      BY <1>1, <2>1 DEF BInv
  <1>7. CASE Clock
    <2>1. Accounted'
      BY <1>7, PassPinWindowBooks, PassBidWindowBooks DEF Clock
    <2> QED
      BY <1>1, <1>7, <2>1, ClockOrigins DEF BInv
  <1>8. CASE Jobs
    <2>1. Accounted'
      BY <1>8, PinExpiryJobBooks, BidExpiryJobBooks DEF Jobs
    <2> QED
      BY <1>1, <1>8, <2>1, JobsOrigins DEF BInv
  <1>9. (\E u \in Users : SetTransactionPin(u)) \/ UNCHANGED vars
          => UNCHANGED <<wallets, sabits, trades, bids, disputes>>
    BY DEF SetTransactionPin, vars
  <1> QED
    BY <1>2, <1>3, <1>4, <1>5, <1>6, <1>7, <1>8, <1>9 DEF Next

\* The slack of an account is its Roundings.
LEMMA SlacksAreRoundings ==
  ASSUME IInv, NEW u \in Users, NEW c \in Currencies
  PROVE  Slacks(u, c) = Roundings(u, c) /\ Roundings(u, c) \in Nat
  <1> DEFINE cut == {t \in DOMAIN trades : Rounded(trades[t]) /\ trades[t].buyer = u}
             back == {t \in cut : trades[t].status = "cancelled"}
             one == [t \in DOMAIN trades |-> 1]
  <1>1. Roundings(u, c) = IF c = NGN THEN Cardinality(cut) + Cardinality(back) ELSE 0
    BY DEF Roundings, TradesWhere, Rounded
  <1>2. /\ cut \subseteq DOMAIN trades /\ back \subseteq DOMAIN trades
        /\ IsFiniteSet(DOMAIN trades) /\ IsFiniteSet(cut) /\ IsFiniteSet(back)
    <2>1. cut \subseteq DOMAIN trades /\ back \subseteq DOMAIN trades
      OBVIOUS
    <2> QED
      BY <2>1, TablesAreFinite, FS_Subset
  <1>3. /\ Total(one, cut) = Cardinality(cut) /\ Cardinality(cut) \in Nat
        /\ Total(one, back) = Cardinality(back) /\ Cardinality(back) \in Nat
    <2>1. (\A t \in cut : one[t] = 1) /\ (\A t \in back : one[t] = 1)
      OBVIOUS
    <2> HIDE DEF cut, back, one
    <2> QED
      BY <1>2, <2>1, TotalOfOnes
  <1>4. CASE c # NGN
    <2>1. \A t \in DOMAIN trades :
            SlackOf(u, c)[t] = IF t \in {} THEN SlackOf(u, c)[t] ELSE 0
      BY <1>4 DEF SlackOf, Slack
    <2>2. Total(SlackOf(u, c), DOMAIN trades) = Total(SlackOf(u, c), {})
      BY <2>1, TotalOfSome
    <2>3. Slacks(u, c) = 0
      BY <2>2, TotalOfNothing DEF Slacks
    <2> HIDE DEF cut, back
    <2> QED
      BY <1>1, <1>4, <2>3
  <1>5. CASE c = NGN
    <2> DEFINE a == [t \in DOMAIN trades |-> IF t \in cut THEN one[t] ELSE 0]
               b == [t \in DOMAIN trades |-> IF t \in back THEN one[t] ELSE 0]
    <2>1. ASSUME NEW t \in DOMAIN trades
          PROVE  SlackOf(u, c)[t] = a[t] + b[t]
      BY <1>5 DEF SlackOf, Slack
    <2>2. NatOn(a, DOMAIN trades) /\ NatOn(b, DOMAIN trades)
      BY DEF NatOn
    <2>3. /\ \A t \in DOMAIN trades : a[t] = IF t \in cut THEN one[t] ELSE 0
          /\ \A t \in DOMAIN trades : b[t] = IF t \in back THEN one[t] ELSE 0
      OBVIOUS
    <2> HIDE DEF a, b, one, cut, back
    <2>4. Slacks(u, c) = Total(a, DOMAIN trades) + Total(b, DOMAIN trades)
      BY <1>2, <2>1, <2>2, TotalOfSum DEF Slacks
    <2>5. Total(a, DOMAIN trades) = Total(one, cut) /\ Total(b, DOMAIN trades) = Total(one, back)
      BY <1>2, <2>3, TotalOfSome
    <2> QED
      BY <1>1, <1>3, <1>5, <2>4, <2>5
  <1> QED
    BY <1>4, <1>5

\* Balanced books are what the two properties say.
LEMMA BooksBalance ==
  ASSUME BInv
  PROVE  /\ LockedAccounted
         /\ "BUY" \notin ListingTypes => EscrowBacked
  <1> SUFFICES ASSUME NEW u \in Users, NEW c \in Currencies
               PROVE  LET held == wallets[<<u, c>>].locked + Overdrawn(u, c)
                          due == Committed(u, c) + Stranded(u, c)
                      IN /\ held - due \in -Roundings(u, c) .. Roundings(u, c)
                         /\ "BUY" \notin ListingTypes
                              => wallets[<<u, c>>].locked >= Committed(u, c)
    BY DEF LockedAccounted, EscrowBacked
  <1> DEFINE held == wallets[<<u, c>>].locked + Overdrawn(u, c)
             due == Committed(u, c) + Stranded(u, c)
  <1>1. /\ Committed(u, c) + Stranded(u, c)
             = SabitClaims(u, c) + TradeClaims(u, c) + BidClaims(u, c)
        /\ Overdrawn(u, c) = Overdrafts(u, c)
        /\ Committed(u, c) \in Nat /\ Stranded(u, c) \in Nat
    BY BooksByRow DEF BInv
  <1>2. Slacks(u, c) = Roundings(u, c) /\ Roundings(u, c) \in Nat
    BY SlacksAreRoundings DEF BInv
  <1>3. /\ wallets[<<u, c>>].locked \in Nat /\ Overdrafts(u, c) \in Nat
        /\ held \in Nat /\ due \in Nat
        /\ held <= due + Roundings(u, c) /\ due <= held + Roundings(u, c)
    <2>1. wallets[<<u, c>>].locked \in Nat /\ Overdrafts(u, c) \in Nat
      BY AccountBefore
    <2>2. Held(u, c) = held /\ Due(u, c) = due
      BY <1>1 DEF Held, Due
    <2>3. Held(u, c) <= Due(u, c) + Slacks(u, c) /\ Due(u, c) <= Held(u, c) + Slacks(u, c)
      BY AccountBefore DEF Balanced
    <2> QED
      BY <1>1, <1>2, <2>1, <2>2, <2>3
  <1>4. held - due \in -Roundings(u, c) .. Roundings(u, c)
    <2> HIDE DEF held, due
    <2>1. held - due \in Int /\ -Roundings(u, c) \in Int /\ Roundings(u, c) \in Int
      BY <1>2, <1>3
    <2>2. -Roundings(u, c) <= held - due /\ held - due <= Roundings(u, c)
      BY <1>2, <1>3
    <2> QED
      BY <2>1, <2>2
  <1>5. ASSUME "BUY" \notin ListingTypes
        PROVE  wallets[<<u, c>>].locked >= Committed(u, c)
    <2>1. \A t \in DOMAIN trades : ~IsBuyListing(trades[t]) /\ ~Rounded(trades[t])
      BY <1>5, ListingsAre DEF IsBuyListing, Rounded, PriceRounds, BInv, IInv, Related
    <2>2. \A t \in DOMAIN trades :
            /\ OverdraftOf(u, c)[t] = IF t \in {} THEN OverdraftOf(u, c)[t] ELSE 0
            /\ SlackOf(u, c)[t] = IF t \in {} THEN SlackOf(u, c)[t] ELSE 0
      BY <2>1 DEF OverdraftOf, Overdraft, SlackOf, Slack
    <2>3. Overdrafts(u, c) = 0
      <3>1. Total(OverdraftOf(u, c), DOMAIN trades) = Total(OverdraftOf(u, c), {})
        BY <2>2, TotalOfSome
      <3> QED
        BY <3>1, TotalOfNothing DEF Overdrafts, OverdraftOf
    <2>4. Slacks(u, c) = 0
      <3>1. Total(SlackOf(u, c), DOMAIN trades) = Total(SlackOf(u, c), {})
        BY <2>2, TotalOfSome
      <3> QED
        BY <3>1, TotalOfNothing DEF Slacks, SlackOf
    <2> QED
      BY <1>1, <1>2, <1>3, <2>3, <2>4
  <1> QED
    BY <1>4, <1>5

\* At any price and with any mix of listings, the locked balance of every account
\* is what its listings, trades and bids count on and what the handlers strand,
\* less what they release twice: exactly, but for a hundredth for each time the
\* price of a part of one of its BUY listings was rounded (trades.controller.ts:211).
\* No handler, job or interleaving of them loses or invents locked money beyond that.
THEOREM BooksKept == Spec => []LockedAccounted
  <1>1. Init => BInv
    BY InitInv, InitBooks DEF BInv
  <1>2. BInv /\ [Next]_vars => BInv'
    BY StepBooks
  <1>3. BInv => LockedAccounted
    BY BooksBalance
  <1> QED
    BY <1>1, <1>2, <1>3, PTL DEF Spec

\* Where no listing buys, whatever the prices: the locked money of every user and
\* currency covers what open listings, trades and pending bids promise.
THEOREM PromisesBacked ==
  ASSUME "BUY" \notin ListingTypes
  PROVE  Spec => []EscrowBacked
  <1>1. Init => BInv
    BY InitInv, InitBooks DEF BInv
  <1>2. BInv /\ [Next]_vars => BInv'
    BY StepBooks
  <1>3. BInv => EscrowBacked
    BY BooksBalance
  <1> QED
    BY <1>1, <1>2, <1>3, PTL DEF Spec

-----------------------------------------------------------------------------
(***************************************************************************)
(* No listing is sold twice over: NoOversell. Again one row changes: the   *)
(* listing's available amount and what its trades hold of it move against  *)
(* each other.                                                             *)
(***************************************************************************)
\* What is open or sold of a listing.
Holding(s) == {t \in DOMAIN trades : trades[t].sabit = s /\ trades[t].status # "cancelled"}
Sold(s) == Total(Column(trades, "amount"), Holding(s))

\* What NoOversell counts of a listing: available, and open or sold.
LEMMA ClaimedIs ==
  ASSUME IInv, NEW s \in DOMAIN sabits
  PROVE  /\ Claimed(s) = sabits[s].available + Sold(s)
         /\ Sold(s) \in Nat /\ sabits[s].available \in Nat /\ sabits[s].amount \in Nat
         /\ IsFiniteSet(Holding(s)) /\ NatOn(Column(trades, "amount"), Holding(s))
  <1>1. Claimed(s) = sabits[s].available + Sold(s)
    BY DEF Claimed, Sold, Holding, TradesWhere
  <1>2. IsFiniteSet(Holding(s))
    BY TablesAreFinite, FS_Subset DEF Holding
  <1>3. NatOn(Column(trades, "amount"), Holding(s))
    BY DEF NatOn, Column, Holding, IInv, TypeOK, IsTable, TradeRow
  <1>4. sabits[s].available \in Nat /\ sabits[s].amount \in Nat
    BY DEF IInv, TypeOK, IsTable, SabitRow
  <1> QED
    BY <1>1, <1>2, <1>3, <1>4, TotalIsNat DEF Sold

\* The next state, in the same words.
LEMMA ClaimedNext ==
  ASSUME \A s \in DOMAIN sabits' : sabits'[s].available + Sold(s)' <= sabits'[s].amount
  PROVE  NoOversell'
  BY DEF NoOversell, Claimed, Sold, Holding, TradesWhere

\* The trades of a listing may change in anything but the amount and whether
\* they are cancelled.
LEMMA SameSold ==
  ASSUME IInv, DOMAIN trades' = DOMAIN trades, NEW s,
         \A t \in DOMAIN trades :
           /\ trades'[t].sabit = trades[t].sabit /\ trades'[t].amount = trades[t].amount
           /\ trades[t].sabit = s =>
                (trades'[t].status = "cancelled" <=> trades[t].status = "cancelled")
  PROVE  Sold(s)' = Sold(s)
  <1>1. Holding(s)' = Holding(s)
    BY DEF Holding
  <1>2. \A t \in Holding(s) : Column(trades, "amount")'[t] = Column(trades, "amount")[t]
    BY DEF Column, Holding
  <1> QED
    BY <1>1, <1>2, TotalDependsOnRows DEF Sold

\* A trade appears: its amount leaves what is available of its listing.
LEMMA OneMoreSold ==
  ASSUME IInv, NEW t, t \notin DOMAIN trades, NEW y, y.amount \in Nat,
         y.status # "cancelled", trades' = Insert(trades, t, y), NEW s \in DOMAIN sabits
  PROVE  Sold(s)' = Sold(s) + (IF y.sabit = s THEN y.amount ELSE 0)
  <1> DEFINE f == Column(trades, "amount")
             g == Column(trades, "amount")'
  <1>1. /\ DOMAIN trades' = DOMAIN trades \cup {t} /\ trades'[t] = y
        /\ \A i \in DOMAIN trades : trades'[i] = trades[i]
    BY DEF Insert
  <1>2. t \notin Holding(s) /\ Holding(s) \subseteq DOMAIN trades
    BY DEF Holding
  <1>3. Holding(s)' = Holding(s) \cup (IF y.sabit = s THEN {t} ELSE {})
    BY <1>1 DEF Holding
  <1>4. g[t] = y.amount /\ \A i \in Holding(s) : g[i] = f[i]
    BY <1>1, <1>2 DEF Column
  <1>5. IsFiniteSet(Holding(s)) /\ NatOn(f, Holding(s)) /\ Sold(s) \in Nat
    BY ClaimedIs
  <1>6. Sold(s)' = Total(g, Holding(s)') /\ Sold(s) = Total(f, Holding(s))
    BY DEF Sold
  <1> HIDE DEF f, g
  <1>7. CASE y.sabit = s
    <2> DEFINE U == Holding(s) \cup {t}
    <2>1. IsFiniteSet(U) /\ NatOn(g, U) /\ t \in U /\ U \ {t} = Holding(s)
      BY <1>2, <1>4, <1>5, FS_AddElement DEF NatOn
    <2> HIDE DEF U
    <2>2. Total(g, U) = g[t] + Total(g, Holding(s))
      BY <2>1, TotalWithoutOne
    <2>3. Total(g, Holding(s)) = Total(f, Holding(s))
      BY <1>4, TotalDependsOnRows
    <2>4. Holding(s)' = U
      BY <1>3, <1>7 DEF U
    <2> QED
      BY <1>4, <1>5, <1>6, <1>7, <2>2, <2>3, <2>4
  <1>8. CASE y.sabit # s
    <2>1. Total(g, Holding(s)) = Total(f, Holding(s))
      BY <1>4, TotalDependsOnRows
    <2> QED
      BY <1>3, <1>5, <1>6, <1>8, <2>1
  <1> QED
    BY <1>7, <1>8

\* The trades of S end as cancelled.
Ended(S) ==
  /\ S \subseteq DOMAIN trades /\ DOMAIN trades' = DOMAIN trades
  /\ \A t \in S : trades[t].status # "cancelled"
  /\ \A t \in DOMAIN trades :
       /\ trades'[t].sabit = trades[t].sabit /\ trades'[t].amount = trades[t].amount
       /\ t \in S => trades'[t].status = "cancelled"
       /\ t \notin S => trades'[t].status = trades[t].status

\* What returns to the listing s.
Returned(S, s) == Total(Column(trades, "amount"), {t \in S : trades[t].sabit = s})

\* What ends leaves what is sold.
LEMMA SoldLess ==
  ASSUME IInv, NEW S, Ended(S), NEW s \in DOMAIN sabits
  PROVE  /\ Sold(s) = Sold(s)' + Returned(S, s)
         /\ Sold(s)' \in Nat /\ Returned(S, s) \in Nat
  <1> DEFINE R == {t \in S : trades[t].sabit = s}
  <1> DEFINE f == Column(trades, "amount")
             g == Column(trades, "amount")'
             H == Holding(s)'
  <1>1. /\ H \subseteq DOMAIN trades /\ R \subseteq DOMAIN trades /\ H \cap R = {}
        /\ Holding(s) = H \cup R
    BY DEF Holding, Ended
  <1>2. \A t \in H : g[t] = f[t]
    BY DEF Column, Holding, Ended
  <1>3. /\ Sold(s)' = Total(g, H) /\ Sold(s) = Total(f, Holding(s))
        /\ Returned(S, s) = Total(f, R)
    BY DEF Sold, Returned
  <1> HIDE DEF f, g, H, R
  <1>4. Total(g, H) = Total(f, H)
    BY <1>2, TotalDependsOnRows
  <1>5. /\ Total(f, H \cup R) = Total(f, H) + Total(f, R)
        /\ Total(f, H) \in Nat /\ Total(f, R) \in Nat
    BY <1>1, AmountsAdd DEF f
  <1> QED
    BY <1>1, <1>3, <1>4, <1>5 DEF f

\* A new listing is wholly available.
LEMMA CreateSabitSells ==
  ASSUME IInv, NoOversell, NEW u \in Users, NEW s \in SabitIds, NEW type \in ListingTypes,
         NEW c \in Foreign, NEW a \in Amounts, NEW r \in Rates,
         CreateSabit(u, s, type, c, a, r)
  PROVE  NoOversell'
  <1> DEFINE l == [user |-> u, type |-> type, currency |-> c, amount |-> a,
                   available |-> a, rate |-> r, status |-> "active"]
  <1>1. s \notin DOMAIN sabits /\ sabits' = Insert(sabits, s, l) /\ trades' = trades
    BY DEF CreateSabit
  <1>2. l.available = a /\ l.amount = a /\ a \in Nat
    BY EscrowAssumption
  <1> HIDE DEF l
  <1>3. DOMAIN sabits' = DOMAIN sabits \cup {s} /\ sabits'[s] = l
        /\ \A i \in DOMAIN sabits : sabits'[i] = sabits[i]
    BY <1>1 DEF Insert
  <1>4. \A i \in DOMAIN sabits : sabits'[i].available + Sold(i)' <= sabits'[i].amount
    BY <1>1, <1>3, ClaimedIs DEF NoOversell, Sold, Holding
  <1>5. sabits'[s].available + Sold(s)' <= sabits'[s].amount
    <2>1. Holding(s)' = {}
      BY <1>1 DEF Holding, IInv, Related
    <2> QED
      BY <1>2, <1>3, <2>1, TotalOfNothing DEF Sold
  <1> QED
    BY <1>3, <1>4, <1>5, ClaimedNext

\* A cancelled listing keeps its numbers.
LEMMA CancelSabitSells ==
  ASSUME IInv, NoOversell, NEW u \in Users, NEW s \in SabitIds, CancelSabit(u, s)
  PROVE  NoOversell'
  <1> DEFINE k == [sabits[s] EXCEPT !.status = "cancelled", !.available = 0]
  <1>1. s \in DOMAIN sabits /\ sabits[s] \in SabitRow /\ trades' = trades
    BY DEF CancelSabit, IInv, TypeOK, IsTable
  <1>2. sabits' = [sabits EXCEPT ![s] = k] /\ k.available = 0 /\ k.amount = sabits[s].amount
    BY <1>1 DEF CancelSabit, SabitRow
  <1> HIDE DEF k
  <1>3. DOMAIN sabits' = DOMAIN sabits /\ sabits'[s] = k
        /\ \A i \in DOMAIN sabits \ {s} : sabits'[i] = sabits[i]
    BY <1>1, <1>2
  <1>4. \A i \in DOMAIN sabits : Sold(i)' = Sold(i)
    BY <1>1 DEF Sold, Holding
  <1>5. ASSUME NEW i \in DOMAIN sabits
        PROVE  sabits'[i].available + Sold(i)' <= sabits'[i].amount
    <2>1. sabits[i].available + Sold(i) <= sabits[i].amount
      BY ClaimedIs DEF NoOversell
    <2> QED
      BY <1>2, <1>3, <1>4, <2>1, ClaimedIs
  <1> QED
    BY <1>3, <1>5, ClaimedNext

\* InitiateTrade, AcceptBid: a trade takes its amount from what is available.
LEMMA SaleSells ==
  ASSUME IInv, NoOversell, NEW t, t \notin DOMAIN trades, NEW y,
         y.sabit \in DOMAIN sabits, y.amount \in Nat,
         y.amount <= sabits[y.sabit].available, y.status # "cancelled",
         sabits' = [sabits EXCEPT ![y.sabit] = Take(sabits[y.sabit], y.amount)],
         trades' = Insert(trades, t, y)
  PROVE  NoOversell'
  <1> DEFINE s == y.sabit
             a == y.amount
             k == Take(sabits[s], a)
  <1>1. sabits[s] \in SabitRow
    BY DEF IInv, TypeOK, IsTable
  <1>2. k.available = sabits[s].available - a /\ k.amount = sabits[s].amount
    BY <1>1 DEF Take, SabitRow
  <1>3. DOMAIN sabits' = DOMAIN sabits /\ sabits'[s] = k
        /\ \A i \in DOMAIN sabits \ {s} : sabits'[i] = sabits[i]
    OBVIOUS
  <1> HIDE DEF k
  <1>4. \A i \in DOMAIN sabits : Sold(i)' = Sold(i) + (IF s = i THEN a ELSE 0)
    BY OneMoreSold
  <1>5. ASSUME NEW i \in DOMAIN sabits
        PROVE  sabits'[i].available + Sold(i)' <= sabits'[i].amount
    <2>1. /\ sabits[i].available + Sold(i) <= sabits[i].amount
          /\ sabits[i].available \in Nat /\ Sold(i) \in Nat /\ sabits[i].amount \in Nat
      BY ClaimedIs DEF NoOversell
    <2>2. CASE i = s
      BY <1>2, <1>3, <1>4, <2>1, <2>2
    <2>3. CASE i # s
      BY <1>3, <1>4, <2>1, <2>3
    <2> QED
      BY <2>2, <2>3
  <1> QED
    BY <1>3, <1>5, ClaimedNext

\* Steps that leave the listings alone and cancel nothing.
LEMMA SameSells ==
  ASSUME IInv, NoOversell, UNCHANGED sabits, DOMAIN trades' = DOMAIN trades,
         \A t \in DOMAIN trades :
           /\ trades'[t].sabit = trades[t].sabit /\ trades'[t].amount = trades[t].amount
           /\ trades'[t].status = "cancelled" <=> trades[t].status = "cancelled"
  PROVE  NoOversell'
  <1>1. \A s \in DOMAIN sabits : Sold(s)' = Sold(s)
    BY SameSold
  <1>2. \A s \in DOMAIN sabits : sabits[s].available + Sold(s) <= sabits[s].amount
    BY ClaimedIs DEF NoOversell
  <1> QED
    BY <1>1, <1>2, ClaimedNext

\* PinExpiryJob and a dispute won by the buyer: the amounts of the trades of S
\* that end return to their listings.
LEMMA ReturnSells ==
  ASSUME IInv, NoOversell, NEW S, Ended(S), DOMAIN sabits' = DOMAIN sabits,
         \A s \in DOMAIN sabits :
           /\ sabits'[s].amount = sabits[s].amount
           /\ sabits'[s].available = sabits[s].available + Returned(S, s)
  PROVE  NoOversell'
  <1>1. ASSUME NEW s \in DOMAIN sabits
        PROVE  sabits'[s].available + Sold(s)' <= sabits'[s].amount
    <2>1. /\ Sold(s) = Sold(s)' + Returned(S, s)
          /\ Sold(s)' \in Nat /\ Returned(S, s) \in Nat
      BY SoldLess
    <2>2. /\ sabits'[s].amount = sabits[s].amount
          /\ sabits'[s].available = sabits[s].available + Returned(S, s)
      OBVIOUS
    <2>3. /\ sabits[s].available + Sold(s) <= sabits[s].amount
          /\ sabits[s].available \in Nat /\ Sold(s) \in Nat /\ sabits[s].amount \in Nat
      BY ClaimedIs DEF NoOversell
    <2> QED
      BY <2>1, <2>2, <2>3
  <1> QED
    BY <1>1, ClaimedNext

\* A dispute won by the buyer returns the amount to the listing.
LEMMA ResolveDisputeSells ==
  ASSUME IInv, NoOversell, NEW t \in TradeIds, NEW favor \in Favors,
         ResolveDispute(t, favor)
  PROVE  NoOversell'
  <1> DEFINE x == trades[t]
             l == sabits[x.sabit]
             f == Column(trades, "amount")
  <1>1. /\ t \in DOMAIN trades /\ x.status = "disputed"
        /\ ResolveForBuyer(t) \/ ResolveForSeller(t)
    BY DEF ResolveDispute, IInv, Related
  <1>2. /\ \A i \in DOMAIN trades : trades[i] \in TradeRow
        /\ x.sabit \in DOMAIN sabits
        /\ \A s \in DOMAIN sabits : sabits[s] \in SabitRow
    BY <1>1 DEF IInv, TypeOK, IsTable, Related
  <1>3. CASE ResolveForSeller(t)
    <2>1. trades' = [trades EXCEPT ![t].status = "completed"] /\ UNCHANGED sabits
      BY <1>3 DEF ResolveForSeller
    <2>2. /\ DOMAIN trades' = DOMAIN trades
          /\ \A i \in DOMAIN trades :
               /\ trades'[i].sabit = trades[i].sabit /\ trades'[i].amount = trades[i].amount
               /\ trades'[i].status = "cancelled" <=> trades[i].status = "cancelled"
      BY <1>1, <1>2, <2>1 DEF TradeRow
    <2> QED
      BY <2>1, <2>2, SameSells
  <1>4. CASE ResolveForBuyer(t)
    <2>1. /\ trades' = [trades EXCEPT ![t].status = "cancelled"]
          /\ sabits' = [sabits EXCEPT ![x.sabit] = Reopened(@, x.amount)]
      BY <1>4 DEF ResolveForBuyer
    <2>2. Ended({t})
      BY <1>1, <1>2, <2>1 DEF TradeRow, Ended
    <2>3. f[t] = x.amount /\ x.amount \in Nat
      BY <1>1, <1>2 DEF Column, TradeRow
    <2>4. ASSUME NEW s \in DOMAIN sabits
          PROVE  /\ sabits'[s].amount = sabits[s].amount
                 /\ sabits'[s].available
                      = sabits[s].available + Returned({t}, s)
      <3>1. sabits[s].available \in Nat
        BY <1>2 DEF SabitRow
      <3>2. CASE s = x.sabit
        <4>1. {i \in {t} : trades[i].sabit = s} = {t}
          BY <3>2
        <4>2. sabits'[s] = Reopened(sabits[s], x.amount)
          BY <2>1, <3>2
        <4>3. /\ sabits'[s].amount = sabits[s].amount
              /\ sabits'[s].available = sabits[s].available + x.amount
          BY <1>2, <4>2 DEF Reopened, SabitRow
        <4>4. Returned({t}, s) = x.amount
          BY <2>3, <4>1, TotalOfOne DEF Returned
        <4> QED
          BY <4>3, <4>4
      <3>3. CASE s # x.sabit
        <4>1. {i \in {t} : trades[i].sabit = s} = {}
          BY <3>3
        <4>2. sabits'[s] = sabits[s]
          BY <2>1, <3>3
        <4>3. Returned({t}, s) = 0
          BY <4>1, TotalOfNothing DEF Returned
        <4> QED
          BY <3>1, <4>2, <4>3
      <3> QED
        BY <3>2, <3>3
    <2>5. DOMAIN sabits' = DOMAIN sabits
      BY <2>1
    <2> QED
      BY <2>2, <2>4, <2>5, ReturnSells
  <1> QED
    BY <1>1, <1>3, <1>4

\* So does the job, for every trade that it ends.
LEMMA PinExpiryJobSells ==
  ASSUME IInv, NoOversell, NEW S \in SUBSET TradeIds, PinExpiryJob(S)
  PROVE  NoOversell'
  <1>1. /\ S \subseteq DOMAIN trades
        /\ \A t \in S : trades[t].status # "cancelled"
        /\ trades' = SetStatus(trades, S, "cancelled")
        /\ sabits' = [s \in DOMAIN sabits |-> Restored(s, S)]
    BY DEF PinExpiryJob, ExpiredTrades
  <1>2. /\ \A i \in DOMAIN trades : trades[i] \in TradeRow
        /\ \A s \in DOMAIN sabits : sabits[s] \in SabitRow
    BY DEF IInv, TypeOK, IsTable
  <1>3. Ended(S)
    BY <1>1, <1>2 DEF Ended, SetStatus, TradeRow
  <1>4. /\ DOMAIN sabits' = DOMAIN sabits
        /\ \A s \in DOMAIN sabits :
             /\ sabits'[s].amount = sabits[s].amount
             /\ sabits'[s].available = sabits[s].available + Returned(S, s)
    BY <1>1, <1>2 DEF Restored, Returned, SabitRow
  <1> QED
    BY <1>1, <1>3, <1>4, ReturnSells

\* Every step of the marketplace.
LEMMA StepSells ==
  ASSUME IInv, NoOversell, [Next]_vars
  PROVE  NoOversell'
  <1>1. CASE UNCHANGED <<sabits, trades>>
    BY <1>1 DEF NoOversell, Claimed, TradesWhere
  <1>2. CASE SabitStep
    BY <1>2, CreateSabitSells, CancelSabitSells DEF SabitStep
  <1>3. ASSUME NEW t \in DOMAIN trades, NEW status, status # "cancelled",
               trades[t].status # "cancelled", UNCHANGED sabits,
               trades' = [trades EXCEPT ![t].status = status]
        PROVE  NoOversell'
    <2>1. trades[t] \in TradeRow
      BY DEF IInv, TypeOK, IsTable
    <2>2. /\ DOMAIN trades' = DOMAIN trades
          /\ \A i \in DOMAIN trades :
               /\ trades'[i].sabit = trades[i].sabit /\ trades'[i].amount = trades[i].amount
               /\ trades'[i].status = "cancelled" <=> trades[i].status = "cancelled"
      BY <1>3, <2>1 DEF TradeRow
    <2> QED
      BY <1>3, <2>2, SameSells
  <1>4. ASSUME NEW u \in Users, NEW s \in SabitIds, NEW t \in TradeIds,
               NEW a \in Amounts, InitiateTrade(u, s, t, a)
        PROVE  NoOversell'
    <2> DEFINE y == [sabit |-> s,
                     buyer |-> IF sabits[s].type = "SELL" THEN u ELSE sabits[s].user,
                     seller |-> IF sabits[s].type = "SELL" THEN sabits[s].user ELSE u,
                     currency |-> sabits[s].currency, amount |-> a,
                     total |-> NgnValue(a, sabits[s].rate),
                     status |-> "escrowed", expired |-> FALSE]
    <2>1. /\ s \in DOMAIN sabits /\ sabits[s].available >= a /\ t \notin DOMAIN trades
          /\ sabits' = [sabits EXCEPT ![s] = Take(sabits[s], a)]
          /\ trades' = Insert(trades, t, y)
      BY <1>4 DEF InitiateTrade
    <2>2. y.amount = a /\ y.sabit = s /\ y.status # "cancelled"
      OBVIOUS
    <2>3. a \in Nat /\ a <= sabits[s].available
      BY <2>1, EscrowAssumption, ClaimedIs
    <2> HIDE DEF y
    <2>4. /\ y.sabit \in DOMAIN sabits /\ y.amount \in Nat
          /\ y.amount <= sabits[y.sabit].available
          /\ sabits' = [sabits EXCEPT ![y.sabit] = Take(sabits[y.sabit], y.amount)]
      BY <2>1, <2>2, <2>3
    <2> QED
      BY <2>1, <2>2, <2>4, SaleSells
  <1>5. CASE TradeStep
    BY <1>3, <1>4, <1>5 DEF TradeStep, SellerConfirmTrade, RaiseDispute
  <1>6. ASSUME NEW u \in Users, NEW b \in BidIds, NEW t \in TradeIds, AcceptBid(u, b, t)
        PROVE  NoOversell'
    <2> DEFINE x == bids[b]
               y == [sabit |-> x.sabit, buyer |-> x.buyer, seller |-> x.seller,
                     currency |-> x.currency, amount |-> x.amount, total |-> x.total,
                     status |-> "completed", expired |-> FALSE]
    <2>1. /\ b \in DOMAIN bids /\ t \notin DOMAIN trades
          /\ x.amount <= sabits[x.sabit].available
          /\ sabits' = [sabits EXCEPT ![x.sabit] = Take(sabits[x.sabit], x.amount)]
          /\ trades' = Insert(trades, t, y)
      BY <1>6 DEF AcceptBid
    <2>2. y.amount = x.amount /\ y.sabit = x.sabit /\ y.status # "cancelled"
      OBVIOUS
    <2>3. x.amount \in Nat /\ x.sabit \in DOMAIN sabits
      BY <2>1 DEF IInv, TypeOK, IsTable, Related, BidRow
    <2> HIDE DEF x, y
    <2> QED
      BY <2>1, <2>2, <2>3, SaleSells
  <1>7. CASE BidStep
    <2>1. ASSUME NEW u \in Users, NEW s \in SabitIds, NEW b \in BidIds, NEW a \in Amounts,
                 NEW r \in Rates, PlaceBid(u, s, b, a, r)
          PROVE  NoOversell'
      <3>1. UNCHANGED <<sabits, trades>>
        BY <2>1 DEF PlaceBid
      <3> QED
        BY <1>1, <3>1
    <2>2. ASSUME NEW u \in Users, NEW b \in BidIds, RejectBid(u, b) \/ WithdrawBid(u, b)
          PROVE  NoOversell'
      <3>1. UNCHANGED <<sabits, trades>>
        BY <2>2 DEF RejectBid, WithdrawBid, ReleaseBid
      <3> QED
        BY <1>1, <3>1
    <2> QED
      BY <1>6, <1>7, <2>1, <2>2 DEF BidStep
  <1>8. CASE AdminStep
    BY <1>8, ResolveDisputeSells DEF AdminStep
  <1>9. ASSUME NEW t \in TradeIds, PassPinWindow(t)
        PROVE  NoOversell'
    <2>1. /\ UNCHANGED sabits /\ t \in DOMAIN trades
          /\ trades' = [trades EXCEPT ![t].expired = TRUE]
      BY <1>9 DEF PassPinWindow
    <2>2. trades[t] \in TradeRow
      BY <2>1 DEF IInv, TypeOK, IsTable
    <2>3. /\ DOMAIN trades' = DOMAIN trades
          /\ \A i \in DOMAIN trades :
               /\ trades'[i].sabit = trades[i].sabit /\ trades'[i].amount = trades[i].amount
               /\ trades'[i].status = "cancelled" <=> trades[i].status = "cancelled"
      BY <2>1, <2>2 DEF TradeRow
    <2> QED
      BY <2>1, <2>3, SameSells
  <1>10. CASE Clock
    BY <1>1, <1>9, <1>10 DEF Clock, PassBidWindow
  <1>11. CASE Jobs
    BY <1>1, <1>11, PinExpiryJobSells DEF Jobs, BidExpiryJob
  <1>12. (\E u \in Users : SetTransactionPin(u)) \/ UNCHANGED vars
           => UNCHANGED <<sabits, trades>>
    BY DEF SetTransactionPin, vars
  <1> QED
    BY <1>1, <1>2, <1>5, <1>7, <1>8, <1>10, <1>11, <1>12 DEF Next

\* The trades on a listing that are open or completed, and what is still available
\* of it, never exceed what was listed, in any interleaving of trades, accepted
\* bids, disputes, cancellations and expiry jobs.
THEOREM NothingOversold == Spec => []NoOversell
  <1>1. Init => IInv /\ NoOversell
    BY InitInv DEF Init, NoOversell
  <1>2. IInv /\ NoOversell /\ [Next]_vars => IInv' /\ NoOversell'
    BY StepInv, StepSells
  <1> QED
    BY <1>1, <1>2, PTL DEF Spec

=============================================================================

------------------------------- MODULE Escrow -------------------------------
(***************************************************************************)
(* The peer-to-peer marketplace: listings ("sabits"), trades with an       *)
(* escrow, bids, disputes, and the two jobs that sweep expired trades and  *)
(* expired bids.                                                           *)
(*                                                                         *)
(* One action is one handler.  Every handler runs in one transaction       *)
(* (database/transaction.ts), reads the rows it decides on FOR UPDATE and  *)
(* rolls back on any exception, so it is one atomic step, taken only when  *)
(* no check throws.  A branch that writes and then throws leaves no trace  *)
(* and is therefore not an action: see SellerConfirmTrade and AcceptBid.   *)
(*                                                                         *)
(* Time is two events, PassPinWindow and PassBidWindow: the clock passing  *)
(* a row's pin_expires_at or expires_at.                                   *)
(***************************************************************************)
EXTENDS Wallets, Sums

CONSTANTS
  SabitIds, TradeIds, BidIds,  \* primary keys that may be drawn
  Amounts,        \* amounts a request may name
  Rates,          \* prices a listing or a bid may name
  ListingTypes,   \* the kinds of listing users create: {"SELL", "BUY"}
  Favors,         \* the verdicts admins give: {"buyer", "seller"}
  Cents,          \* hundredths in a unit: 100 in the code
  Opening         \* available balance of every account at the start

ASSUME EscrowAssumption ==
  /\ IsFiniteSet(Users)
  /\ IsFiniteSet(SabitIds) /\ IsFiniteSet(TradeIds) /\ IsFiniteSet(BidIds)
  /\ Amounts \subseteq Nat /\ Rates \subseteq Nat
  /\ ListingTypes \subseteq {"SELL", "BUY"}
  /\ Favors \subseteq {"buyer", "seller"}
  /\ Cents \in Nat \ {0}
  /\ Opening \in [Accounts -> Nat]

VARIABLES
  wallets,   \* table wallets
  pinSet,    \* users with transaction_pin_set
  sabits,    \* table sabits
  trades,    \* table trades
  bids,      \* table bids
  disputes   \* table disputes: the status of the dispute of a trade

vars == <<wallets, pinSet, sabits, trades, bids, disputes>>

-----------------------------------------------------------------------------
(***************************************************************************)
(* Rows.  A table maps the ids in use to rows.                             *)
(***************************************************************************)
SabitRow ==
  [user : Users, type : {"SELL", "BUY"}, currency : Foreign, amount : Nat,
   available : Nat, rate : Nat, status : {"active", "completed", "cancelled"}]

\* expired: NOW() > pin_expires_at.  A trade made from a bid is inserted as
\* completed and has no window.
TradeStatus ==
  {"initiated", "escrowed", "confirmed", "completed", "cancelled", "disputed"}

TradeRow ==
  [sabit : SabitIds, buyer : Users, seller : Users, currency : Foreign,
   amount : Nat, total : Nat, status : TradeStatus, expired : BOOLEAN]

BidRow ==
  [sabit : SabitIds, buyer : Users, seller : Users, currency : Foreign,
   amount : Nat, total : Nat, expired : BOOLEAN,
   status : {"pending", "accepted", "rejected", "expired", "withdrawn"}]

Insert(table, id, row) ==
  [i \in DOMAIN table \cup {id} |-> IF i = id THEN row ELSE table[i]]

\* The table where the rows of S have the given status.
SetStatus(table, S, status) ==
  [i \in DOMAIN table |->
     IF i \in S THEN [table[i] EXCEPT !.status = status] ELSE table[i]]

Column(table, field) == [i \in DOMAIN table |-> table[i][field]]

-----------------------------------------------------------------------------
(***************************************************************************)
(* Money.  Amounts and rates have two decimals, so a product has four and  *)
(* toFixed(2) rounds it half up.                                           *)
(***************************************************************************)
NgnValue(a, r) == (a * r + Cents \div 2) \div Cents

\* What the owner of a listing locks for an amount of it, and what the user
\* who takes that amount locks.
OwnerCurrency(l) == IF l.type = "SELL" THEN l.currency ELSE NGN
OwnerHold(l, a) == IF l.type = "SELL" THEN a ELSE NgnValue(a, l.rate)
TakerCurrency(l) == IF l.type = "SELL" THEN NGN ELSE l.currency
TakerHold(l, a) == IF l.type = "SELL" THEN NgnValue(a, l.rate) ELSE a

\* The status of a listing once a is gone from it: a used-up listing leaves
\* the marketplace.
Take(l, a) ==
  [l EXCEPT !.available = @ - a,
            !.status = IF l.available <= a THEN "completed" ELSE @]

-----------------------------------------------------------------------------
Init ==
  /\ wallets = [acc \in Accounts |-> [balance |-> Opening[acc], locked |-> 0]]
  /\ pinSet = {}
  /\ sabits = << >> /\ trades = << >> /\ bids = << >> /\ disputes = << >>

SetTransactionPin(u) ==
  /\ u \notin pinSet
  /\ pinSet' = pinSet \cup {u}
  /\ UNCHANGED <<wallets, sabits, trades, bids, disputes>>

-----------------------------------------------------------------------------
(***************************************************************************)
(* Listings.                                                               *)
(***************************************************************************)
\* POST /sabits.  Only a SELL listing asks for a PIN.
CreateSabit(u, s, type, c, a, r) ==
  LET l == [user |-> u, type |-> type, currency |-> c, amount |-> a,
            available |-> a, rate |-> r, status |-> "active"]
  IN /\ s \notin DOMAIN sabits
     /\ type = "SELL" => u \in pinSet
     /\ CanLock(wallets, u, OwnerCurrency(l), OwnerHold(l, a))
     /\ wallets' = Lock(wallets, u, OwnerCurrency(l), OwnerHold(l, a))
     /\ sabits' = Insert(sabits, s, l)
     /\ UNCHANGED <<pinSet, trades, bids, disputes>>

\* As CancelSabit, but everything that was listed is refunded.
CancelSabitRefundsAll(u, s) ==
  /\ s \in DOMAIN sabits
  /\ sabits[s].user = u
  /\ sabits[s].status = "active"
  /\ LET l == sabits[s]
     IN /\ CanUnlock(wallets, u, OwnerCurrency(l), OwnerHold(l, l.amount))
        /\ wallets' = Unlock(wallets, u, OwnerCurrency(l), OwnerHold(l, l.amount))
        /\ sabits' = [sabits EXCEPT ![s].status = "cancelled",
                                    ![s].available = 0]
  /\ UNCHANGED <<pinSet, trades, bids, disputes>>

\* DELETE /sabits/:id.  Refunds what is still available, nothing else:
\* trades and bids on the listing live on.
CancelSabit(u, s) ==
  /\ s \in DOMAIN sabits
  /\ sabits[s].user = u
  /\ sabits[s].status = "active"
  /\ LET l == sabits[s]
     IN /\ l.available > 0 =>
             CanUnlock(wallets, u, OwnerCurrency(l), OwnerHold(l, l.available))
        /\ wallets' =
             IF l.available > 0
             THEN Unlock(wallets, u, OwnerCurrency(l), OwnerHold(l, l.available))
             ELSE wallets
        /\ sabits' = [sabits EXCEPT ![s].status = "cancelled",
                                    ![s].available = 0]
  /\ UNCHANGED <<pinSet, trades, bids, disputes>>

-----------------------------------------------------------------------------
(***************************************************************************)
(* Trades.                                                                 *)
(***************************************************************************)
\* POST /trades/initiate by u.
InitiateTrade(u, s, t, a) ==
  /\ t \notin DOMAIN trades
  /\ s \in DOMAIN sabits
  /\ sabits[s].status = "active"
  /\ sabits[s].available >= a
  /\ sabits[s].user # u
  /\ {u, sabits[s].user} \subseteq pinSet
  /\ LET l == sabits[s]
     IN /\ CanLock(wallets, u, TakerCurrency(l), TakerHold(l, a))
        /\ wallets' = Lock(wallets, u, TakerCurrency(l), TakerHold(l, a))
        /\ sabits' = [sabits EXCEPT ![s] = Take(l, a)]
        /\ trades' = Insert(trades, t,
             [sabit |-> s,
              buyer |-> IF l.type = "SELL" THEN u ELSE l.user,
              seller |-> IF l.type = "SELL" THEN l.user ELSE u,
              currency |-> l.currency, amount |-> a,
              total |-> NgnValue(a, l.rate),
              status |-> "escrowed", expired |-> FALSE])
  /\ UNCHANGED <<pinSet, bids, disputes>>

\* The clock passes pin_expires_at of a trade that still waits.
PassPinWindow(t) ==
  /\ t \in DOMAIN trades
  /\ trades[t].status = "escrowed" /\ ~trades[t].expired
  /\ trades' = [trades EXCEPT ![t].expired = TRUE]
  /\ UNCHANGED <<wallets, pinSet, sabits, bids, disputes>>

\* The two transfers that end a trade or an accepted bid: the buyer's locked
\* NGN to the seller, the seller's locked currency to the buyer.
AfterNgn(w, x) == TransferFromLocked(w, x.buyer, x.seller, NGN, x.total)

CanSettle(w, x) ==
  /\ CanTransferFromLocked(w, x.buyer, x.seller, NGN, x.total)
  /\ CanTransferFromLocked(AfterNgn(w, x), x.seller, x.buyer, x.currency, x.amount)

Settle(w, x) ==
  TransferFromLocked(AfterNgn(w, x), x.seller, x.buyer, x.currency, x.amount)

\* As SellerConfirmTrade, without the check that the trade is in escrow.
SellerConfirmTradeTwice(u, t) ==
  /\ t \in DOMAIN trades
  /\ trades[t].seller = u
  /\ ~trades[t].expired
  /\ u \in pinSet
  /\ CanSettle(wallets, trades[t])
  /\ wallets' = Settle(wallets, trades[t])
  /\ trades' = [trades EXCEPT ![t].status = "completed"]
  /\ UNCHANGED <<pinSet, sabits, bids, disputes>>

\* PUT /trades/:id/seller-confirm by u.  On an expired trade the handler
\* cancels the trade, restores the listing and unlocks the initiator, and
\* then throws PIN_EXPIRED: the transaction rolls back and nothing changed.
SellerConfirmTrade(u, t) ==
  /\ t \in DOMAIN trades
  /\ trades[t].seller = u
  /\ trades[t].status = "escrowed"
  /\ ~trades[t].expired
  /\ u \in pinSet
  /\ CanSettle(wallets, trades[t])
  /\ wallets' = Settle(wallets, trades[t])
  /\ trades' = [trades EXCEPT ![t].status = "completed"]
  /\ UNCHANGED <<pinSet, sabits, bids, disputes>>

\* As ExpiredTrades, but the job looks for the status a trade never has.
ExpiredTradesInitiatedOnly ==
  {t \in DOMAIN trades : trades[t].status = "initiated" /\ trades[t].expired}

\* The trades a run of pinExpiryJob selects from.
ExpiredTrades ==
  {t \in DOMAIN trades : /\ trades[t].status \in {"escrowed", "initiated"}
                         /\ trades[t].expired}

\* A listing with the amounts of the trades in S on it given back.
Restored(s, S) ==
  [sabits[s] EXCEPT !.available =
     @ + Total(Column(trades, "amount"), {t \in S : trades[t].sabit = s})]

\* As PinExpiryJob, but the job forgets the status of the trades.
PinExpiryJobForgetsStatus(S) ==
  /\ S # {} /\ S \subseteq ExpiredTrades
  /\ sabits' = [s \in DOMAIN sabits |-> Restored(s, S)]
  /\ UNCHANGED <<wallets, pinSet, trades, bids, disputes>>

\* jobs/pinExpiryJob.ts: one transaction for all the rows S it gets; SKIP
\* LOCKED makes S any part of the expired trades.  The job touches neither
\* the wallets nor the status of the listings.
PinExpiryJob(S) ==
  /\ S # {} /\ S \subseteq ExpiredTrades
  /\ trades' = SetStatus(trades, S, "cancelled")
  /\ sabits' = [s \in DOMAIN sabits |-> Restored(s, S)]
  /\ UNCHANGED <<wallets, pinSet, bids, disputes>>

-----------------------------------------------------------------------------
(***************************************************************************)
(* Disputes.                                                               *)
(***************************************************************************)
\* POST /disputes/raise by a party u, also when the window has passed and
\* the job has not come by yet.
RaiseDispute(u, t) ==
  /\ t \in DOMAIN trades
  /\ u \in {trades[t].buyer, trades[t].seller}
  /\ trades[t].status \in {"escrowed", "confirmed"}
  /\ trades' = [trades EXCEPT ![t].status = "disputed"]
  /\ disputes' = Insert(disputes, t, "open")
  /\ UNCHANGED <<wallets, pinSet, sabits, bids>>

\* The amount goes back to the listing, which reopens if it was used up.
Reopened(l, a) ==
  [l EXCEPT !.available = @ + a,
            !.status = IF @ = "completed" THEN "active" ELSE @]

\* PUT /admin/disputes/:id/resolve.  For the buyer: the buyer's NGN is
\* released, whoever locked it, and the amount returns to the listing.
ResolveForBuyer(t) ==
  LET x == trades[t]
  IN /\ CanUnlock(wallets, x.buyer, NGN, x.total)
     /\ wallets' = Unlock(wallets, x.buyer, NGN, x.total)
     /\ sabits' = [sabits EXCEPT ![x.sabit] = Reopened(@, x.amount)]
     /\ trades' = [trades EXCEPT ![t].status = "cancelled"]

\* For the seller: the buyer's NGN is paid out; the seller's locked currency
\* is not touched.
ResolveForSeller(t) ==
  LET x == trades[t]
  IN /\ CanTransferFromLocked(wallets, x.buyer, x.seller, NGN, x.total)
     /\ wallets' = AfterNgn(wallets, x)
     /\ trades' = [trades EXCEPT ![t].status = "completed"]
     /\ UNCHANGED sabits

\* As ResolveDispute, but the dispute stays open.
ResolveDisputeLeavesOpen(t, favor) ==
  /\ t \in DOMAIN disputes
  /\ disputes[t] = "open"
  /\ trades[t].status = "disputed"
  /\ \/ favor = "buyer" /\ ResolveForBuyer(t)
     \/ favor = "seller" /\ ResolveForSeller(t)
  /\ UNCHANGED <<pinSet, bids, disputes>>

ResolveDispute(t, favor) ==
  /\ t \in DOMAIN disputes
  /\ disputes[t] = "open"
  /\ trades[t].status = "disputed"
  /\ \/ favor = "buyer" /\ ResolveForBuyer(t)
     \/ favor = "seller" /\ ResolveForSeller(t)
  /\ disputes' = [disputes EXCEPT ![t] = "resolved"]
  /\ UNCHANGED <<pinSet, bids>>

-----------------------------------------------------------------------------
(***************************************************************************)
(* Bids.                                                                   *)
(***************************************************************************)
\* POST /bids by u.
PlaceBid(u, s, b, a, r) ==
  /\ b \notin DOMAIN bids
  /\ s \in DOMAIN sabits
  /\ sabits[s].status = "active" /\ sabits[s].type = "SELL"
  /\ sabits[s].user # u
  /\ r < sabits[s].rate
  /\ a <= sabits[s].available
  /\ \A b2 \in DOMAIN bids : ~(/\ bids[b2].buyer = u /\ bids[b2].sabit = s
                               /\ bids[b2].status = "pending")
  /\ u \in pinSet
  /\ CanLock(wallets, u, NGN, NgnValue(a, r))
  /\ wallets' = Lock(wallets, u, NGN, NgnValue(a, r))
  /\ bids' = Insert(bids, b,
       [sabit |-> s, buyer |-> u, seller |-> sabits[s].user,
        currency |-> sabits[s].currency, amount |-> a, total |-> NgnValue(a, r),
        expired |-> FALSE, status |-> "pending"])
  /\ UNCHANGED <<pinSet, sabits, trades, disputes>>

\* The clock passes expires_at of a bid that still waits.
PassBidWindow(b) ==
  /\ b \in DOMAIN bids
  /\ bids[b].status = "pending" /\ ~bids[b].expired
  /\ bids' = [bids EXCEPT ![b].expired = TRUE]
  /\ UNCHANGED <<wallets, pinSet, sabits, trades, disputes>>

\* PUT /bids/:id/accept by u.  The listing only has to hold the amount, its
\* status is not looked at.  The seller's currency is locked anew, beside
\* what creating the listing locked, and one portion is paid out at once.
\* On an expired bid the handler unlocks and then throws BID_EXPIRED: the
\* transaction rolls back and nothing changed.
AcceptBid(u, b, t) ==
  /\ b \in DOMAIN bids /\ t \notin DOMAIN trades
  /\ bids[b].status = "pending"
  /\ bids[b].seller = u
  /\ ~bids[b].expired
  /\ u \in pinSet
  /\ bids[b].amount <= sabits[bids[b].sabit].available
  /\ LET x == bids[b]
         w == Lock(wallets, u, x.currency, x.amount)
     IN /\ CanLock(wallets, u, x.currency, x.amount)
        /\ CanSettle(w, x)
        /\ wallets' = Settle(w, x)
        /\ bids' = [bids EXCEPT ![b].status = "accepted"]
        /\ sabits' = [sabits EXCEPT ![x.sabit] = Take(@, x.amount)]
        /\ trades' = Insert(trades, t,
             [sabit |-> x.sabit, buyer |-> x.buyer, seller |-> x.seller,
              currency |-> x.currency, amount |-> x.amount, total |-> x.total,
              status |-> "completed", expired |-> FALSE])
  /\ UNCHANGED <<pinSet, disputes>>

\* The end of a pending bid that is not accepted: its NGN goes back.
ReleaseBid(b, status) ==
  /\ CanUnlock(wallets, bids[b].buyer, NGN, bids[b].total)
  /\ wallets' = Unlock(wallets, bids[b].buyer, NGN, bids[b].total)
  /\ bids' = [bids EXCEPT ![b].status = status]
  /\ UNCHANGED <<pinSet, sabits, trades, disputes>>

\* PUT /bids/:id/reject by u.
RejectBid(u, b) ==
  /\ b \in DOMAIN bids
  /\ bids[b].status = "pending"
  /\ bids[b].seller = u
  /\ ~bids[b].expired
  /\ u \in pinSet
  /\ ReleaseBid(b, "rejected")

\* PUT /bids/:id/withdraw by u, expired or not.
WithdrawBid(u, b) ==
  /\ b \in DOMAIN bids
  /\ bids[b].status = "pending"
  /\ bids[b].buyer = u
  /\ ReleaseBid(b, "withdrawn")

ExpiredBids == {b \in DOMAIN bids : bids[b].status = "pending" /\ bids[b].expired}

\* What the job returns to an account for the bids in S.
BidRefund(S, acc) ==
  IF acc[2] = NGN
  THEN Total(Column(bids, "total"), {b \in S : bids[b].buyer = acc[1]})
  ELSE 0

\* As BidExpiryJob, but the job marks the bids and releases nothing.
BidExpiryJobKeepsFunds(S) ==
  /\ S # {} /\ S \subseteq ExpiredBids
  /\ bids' = SetStatus(bids, S, "expired")
  /\ UNCHANGED <<wallets, pinSet, sabits, trades, disputes>>

\* As BidExpiryJob, but the job releases the funds and leaves the bids pending.
BidExpiryJobForgetsStatus(S) ==
  /\ S # {} /\ S \subseteq ExpiredBids
  /\ \A acc \in Accounts : wallets[acc].locked >= BidRefund(S, acc)
  /\ wallets' = [acc \in Accounts |->
       [balance |-> wallets[acc].balance + BidRefund(S, acc),
        locked |-> wallets[acc].locked - BidRefund(S, acc)]]
  /\ UNCHANGED <<pinSet, sabits, trades, bids, disputes>>

\* jobs/bidExpiryJob.ts: one transaction for all the rows S it gets.  One
\* unlock that throws rolls the whole batch back.
BidExpiryJob(S) ==
  /\ S # {} /\ S \subseteq ExpiredBids
  /\ \A b \in S : Positive(bids[b].total)
  /\ \A acc \in Accounts : wallets[acc].locked >= BidRefund(S, acc)
  /\ wallets' = [acc \in Accounts |->
       [balance |-> wallets[acc].balance + BidRefund(S, acc),
        locked |-> wallets[acc].locked - BidRefund(S, acc)]]
  /\ bids' = SetStatus(bids, S, "expired")
  /\ UNCHANGED <<pinSet, sabits, trades, disputes>>

-----------------------------------------------------------------------------
SabitStep ==
  \E u \in Users, s \in SabitIds :
    \/ \E type \in ListingTypes, c \in Foreign, a \in Amounts, r \in Rates :
         CreateSabit(u, s, type, c, a, r)
    \/ CancelSabit(u, s)

TradeStep ==
  \E u \in Users, t \in TradeIds :
    \/ \E s \in SabitIds, a \in Amounts : InitiateTrade(u, s, t, a)
    \/ SellerConfirmTrade(u, t)
    \/ RaiseDispute(u, t)

BidStep ==
  \E u \in Users, b \in BidIds :
    \/ \E s \in SabitIds, a \in Amounts, r \in Rates : PlaceBid(u, s, b, a, r)
    \/ \E t \in TradeIds : AcceptBid(u, b, t)
    \/ RejectBid(u, b)
    \/ WithdrawBid(u, b)

AdminStep == \E t \in TradeIds, favor \in Favors : ResolveDispute(t, favor)

Clock ==
  \/ \E t \in TradeIds : PassPinWindow(t)
  \/ \E b \in BidIds : PassBidWindow(b)

Jobs ==
  \/ \E S \in SUBSET TradeIds : PinExpiryJob(S)
  \/ \E S \in SUBSET BidIds : BidExpiryJob(S)

Next ==
  \/ \E u \in Users : SetTransactionPin(u)
  \/ SabitStep \/ TradeStep \/ BidStep \/ AdminStep \/ Clock \/ Jobs

Spec == Init /\ [][Next]_vars

\* server.ts starts both jobs with setInterval and they run for ever.  A run
\* that finds no row locked by a request takes every expired row, in one
\* transaction: that run is what fairness promises.  It does not promise that
\* a part of the batch goes through when the whole cannot.
FairSpec ==
  /\ Spec
  /\ WF_vars(PinExpiryJob(ExpiredTrades))
  /\ WF_vars(BidExpiryJob(ExpiredBids))

-----------------------------------------------------------------------------
(***************************************************************************)
(* What locked money is for.                                               *)
(***************************************************************************)
SabitsWhere(P(_)) == {s \in DOMAIN sabits : P(sabits[s])}
TradesWhere(P(_)) == {t \in DOMAIN trades : P(trades[t])}
BidsWhere(P(_)) == {b \in DOMAIN bids : P(bids[b])}

Open(x) == x.status \in {"initiated", "escrowed", "confirmed", "disputed"}

ByDispute(t) == t \in DOMAIN disputes

\* The column of what the owner of a listing still holds locked for it.
OwnerHolds == [s \in DOMAIN sabits |-> OwnerHold(sabits[s], sabits[s].available)]

\* The amount of account <<u, c>> that some listing, open trade or pending
\* bid counts on.
Committed(u, c) ==
  Total(OwnerHolds, SabitsWhere(LAMBDA l : l.user = u /\ OwnerCurrency(l) = c))
  + Total(Column(trades, "amount"),
          TradesWhere(LAMBDA x : Open(x) /\ x.seller = u /\ x.currency = c))
  + (IF c = NGN
     THEN Total(Column(trades, "total"), TradesWhere(LAMBDA x : Open(x) /\ x.buyer = u))
          + Total(Column(bids, "total"),
                  BidsWhere(LAMBDA x : x.status = "pending" /\ x.buyer = u))
     ELSE 0)

IsBuyListing(x) == sabits[x.sabit].type = "BUY"

\* The amount of <<u, c>> that is locked although nothing counts on it any
\* more: the second lock of an accepted bid, the initiator's lock of a trade
\* that the job cancelled, the seller's lock of a trade that a dispute ended.
Stranded(u, c) ==
  Total(Column(bids, "amount"),
        BidsWhere(LAMBDA x : /\ x.status = "accepted"
                             /\ x.seller = u /\ x.currency = c))
  + Total(Column(trades, "amount"),
          TradesWhere(LAMBDA x : /\ x.status = "cancelled" /\ IsBuyListing(x)
                                 /\ x.seller = u /\ x.currency = c))
  + Total(Column(trades, "amount"),
          {t \in DOMAIN trades : /\ trades[t].status = "completed" /\ ByDispute(t)
                                 /\ trades[t].seller = u /\ trades[t].currency = c})
  + (IF c = NGN
     THEN Total(Column(trades, "total"),
                {t \in DOMAIN trades : /\ trades[t].status = "cancelled" /\ ~ByDispute(t)
                                       /\ ~IsBuyListing(trades[t])
                                       /\ trades[t].buyer = u})
     ELSE 0)

\* The amount of <<u, c>> that a listing counts on although it was released:
\* the owner's NGN of a BUY listing, after a dispute for the buyer.
Overdrawn(u, c) ==
  IF c = NGN
  THEN Total(Column(trades, "total"),
             {t \in DOMAIN trades : /\ trades[t].status = "cancelled" /\ ByDispute(t)
                                    /\ IsBuyListing(trades[t])
                                    /\ trades[t].buyer = u})
  ELSE 0

-----------------------------------------------------------------------------
(***************************************************************************)
(* Properties.                                                             *)
(***************************************************************************)
IsTable(table, ids, rows) ==
  /\ DOMAIN table \subseteq ids
  /\ table = [i \in DOMAIN table |-> table[i]]
  /\ \A i \in DOMAIN table : table[i] \in rows

\* Every row has its type, which includes that no wallet balance, available
\* or locked, and no listing's available amount is ever negative: the tables
\* have no CHECK constraint for it.
TypeOK ==
  /\ wallets \in WalletTable
  /\ pinSet \subseteq Users
  /\ IsTable(sabits, SabitIds, SabitRow)
  /\ IsTable(trades, TradeIds, TradeRow)
  /\ IsTable(bids, BidIds, BidRow)
  /\ IsTable(disputes, TradeIds, {"open", "resolved"})

\* Trading creates and destroys no money: per currency, what all wallets
\* hold, available and locked, stays what it was.
AccountsIn(c) == Users \X {c}
Holdings == [acc \in Accounts |-> wallets[acc].balance + wallets[acc].locked]
MoneyConserved ==
  \A c \in Currencies :
    Total(Holdings, AccountsIn(c)) = Total(Opening, AccountsIn(c))

\* A BUY listing locks the rounded price of its whole amount.  Each trade cuts
\* a part off it at the rounded price of the part, and if it is cancelled the
\* part goes back: unless the price is whole, either may leave the books of the
\* owner out by a hundredth.
PriceRounds(l) == l.type = "BUY" /\ l.rate % Cents # 0
Roundings(u, c) ==
  LET cut == TradesWhere(LAMBDA x : PriceRounds(sabits[x.sabit]) /\ x.buyer = u)
  IN IF c = NGN
     THEN Cardinality(cut) + Cardinality({t \in cut : trades[t].status = "cancelled"})
     ELSE 0

\* The locked balance of every account is what its listings, open trades and
\* pending bids count on, plus the amounts the handlers leave stranded, minus
\* those they release twice: exactly, but for a hundredth for each part of a
\* BUY listing whose price was rounded.
LockedAccounted ==
  \A u \in Users, c \in Currencies :
    LET held == wallets[<<u, c>>].locked + Overdrawn(u, c)
        due == Committed(u, c) + Stranded(u, c)
    IN held - due \in -Roundings(u, c) .. Roundings(u, c)

\* No listing is oversold: what is available, in open trades and sold never
\* exceeds the listed amount, although expired and disputed trades give
\* amounts back and bids are accepted on listings in any status.
Claimed(s) ==
  sabits[s].available
  + Total(Column(trades, "amount"),
          TradesWhere(LAMBDA x : x.sabit = s /\ x.status # "cancelled"))
NoOversell == \A s \in DOMAIN sabits : Claimed(s) <= sabits[s].amount

\* Everything that counts on locked money has it, in whatever order it comes:
\* what is left of a listing can be released, an open trade settled and a
\* pending bid returned.
EscrowBacked ==
  \A u \in Users, c \in Currencies : wallets[<<u, c>>].locked >= Committed(u, c)

\* Locked money is locked for something: when the last listing, trade or bid
\* that counts on it ends, it is available again.
NothingStranded ==
  \A u \in Users, c \in Currencies : wallets[<<u, c>>].locked <= Committed(u, c)

\* The disputes and the trades tables agree: the open disputes are those of
\* the trades marked disputed, and a resolved one belongs to an ended trade.
DisputesAgree ==
  \A t \in DOMAIN trades :
    /\ trades[t].status = "disputed" <=> t \in DOMAIN disputes /\ disputes[t] = "open"
    /\ t \in DOMAIN disputes /\ disputes[t] = "resolved" => ~Open(trades[t])

(***************************************************************************)
(* The contract with the people who hold money: module Exchange, with the  *)
(* balances of a wallet added up and the trades seen as deals.  Every      *)
(* deal ends at most once, at the terms it was struck for, and money only  *)
(* changes hands in a settlement or an award.                              *)
(***************************************************************************)
DealState(status, inDispute) ==
  CASE status \in {"initiated", "escrowed", "confirmed"} -> "struck"
    [] status = "disputed" -> "disputed"
    [] status = "cancelled" -> "void"
    [] status = "completed" -> IF inDispute THEN "awarded" ELSE "settled"

AsDeal(x, state) ==
  [buyer |-> x.buyer, seller |-> x.seller, currency |-> x.currency,
   price |-> x.total, amount |-> x.amount, state |-> state]

Deals ==
  [t \in DOMAIN trades |->
     AsDeal(trades[t], DealState(trades[t].status, ByDispute(t)))]

Contract == INSTANCE Exchange WITH
  DealIds <- TradeIds, worth <- Holdings, deals <- Deals

\* The escrow, with its listings, bids, locks and jobs, keeps the contract.
KeepsContract == Contract!Spec

\* A trade that ran out of time is not left in escrow.
ExpiredTradeEnds ==
  \A t \in TradeIds :
    (t \in DOMAIN trades /\ trades[t].status = "escrowed" /\ trades[t].expired)
      ~> (t \in DOMAIN trades /\ trades[t].status \in {"cancelled", "disputed"})

\* A bid that ran out of time is closed and its NGN is back.
ExpiredBidEnds ==
  \A b \in BidIds :
    (b \in DOMAIN bids /\ bids[b].status = "pending" /\ bids[b].expired)
      ~> (b \in DOMAIN bids /\ bids[b].status \in {"expired", "withdrawn"})
=============================================================================

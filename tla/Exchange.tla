------------------------------ MODULE Exchange ------------------------------
(***************************************************************************)
(* What the marketplace promises to the people who hold money in it,       *)
(* without listings, bids, locks, windows or jobs.                         *)
(*                                                                         *)
(* Two users strike a deal: so much NGN for so much of another currency.   *)
(* A deal is settled by a swap of exactly these two amounts, or voided, or *)
(* disputed and then awarded to the seller or voided by an admin.  It ends *)
(* once.  Nothing else moves money from one user to another.               *)
(*                                                                         *)
(* Module Escrow implements this contract (Escrow!Contract).               *)
(***************************************************************************)
EXTENDS Sums

CONSTANTS
  Users,
  NGN,         \* the currency prices are paid in
  Currencies,  \* NGN and what is traded against it
  DealIds,
  Opening      \* what every account is worth at the start

VARIABLES
  worth,   \* what a user owns of a currency, wherever it is kept
  deals    \* the deals struck so far, with their terms

Accounts == Users \X Currencies

Deal ==
  [buyer : Users, seller : Users, currency : Currencies \ {NGN},
   price : Nat, amount : Nat,
   state : {"struck", "disputed", "settled", "awarded", "void"}]

InState(state) == {d \in DOMAIN deals : deals[d].state = state}

-----------------------------------------------------------------------------
Init ==
  /\ worth = Opening
  /\ deals = << >>

\* The deals of S get a new state, the terms of every deal stay.
Move(S, state) ==
  deals' = [d \in DOMAIN deals |->
              IF d \in S THEN [deals[d] EXCEPT !.state = state] ELSE deals[d]]

\* Deal d is new in the next state, between two users and in this state.
Appears(d, state) ==
  /\ d \notin DOMAIN deals
  /\ DOMAIN deals' = DOMAIN deals \cup {d}
  /\ \A e \in DOMAIN deals : deals'[e] = deals[e]
  /\ deals'[d] \in Deal
  /\ deals'[d].buyer # deals'[d].seller
  /\ deals'[d].state = state

\* Pay(w, x): the price of deal x changes hands; Swap(w, x): so does the
\* amount.
CanPay(w, x) == x.price > 0 /\ w[<<x.buyer, NGN>>] >= x.price
Pay(w, x) ==
  [w EXCEPT ![<<x.buyer, NGN>>] = @ - x.price, ![<<x.seller, NGN>>] = @ + x.price]

CanSwap(w, x) ==
  CanPay(w, x) /\ x.amount > 0 /\ w[<<x.seller, x.currency>>] >= x.amount
Swap(w, x) ==
  [Pay(w, x) EXCEPT ![<<x.seller, x.currency>>] = @ - x.amount,
                    ![<<x.buyer, x.currency>>] = @ + x.amount]

-----------------------------------------------------------------------------
Strike(d) == Appears(d, "struck") /\ UNCHANGED worth

Settle(d) ==
  /\ d \in InState("struck")
  /\ CanSwap(worth, deals[d])
  /\ worth' = Swap(worth, deals[d])
  /\ Move({d}, "settled")

\* A deal that is settled the moment it is struck: an accepted bid.
StrikeAndSettle(d) ==
  /\ Appears(d, "settled")
  /\ CanSwap(worth, deals'[d])
  /\ worth' = Swap(worth, deals'[d])

Dispute(d) ==
  /\ d \in InState("struck")
  /\ Move({d}, "disputed")
  /\ UNCHANGED worth

\* The only one-sided payment: an admin decides a dispute for the seller.
Award(d) ==
  /\ d \in InState("disputed")
  /\ CanPay(worth, deals[d])
  /\ worth' = Pay(worth, deals[d])
  /\ Move({d}, "awarded")

Void(S) ==
  /\ S \subseteq InState("struck") \/ S \subseteq InState("disputed")
  /\ Move(S, "void")
  /\ UNCHANGED worth

Next ==
  \/ \E d \in DealIds : \/ Strike(d) \/ Settle(d) \/ StrikeAndSettle(d)
                        \/ Dispute(d) \/ Award(d)
  \/ \E S \in SUBSET DealIds : Void(S)

Spec == Init /\ [][Next]_<<worth, deals>>

-----------------------------------------------------------------------------
TypeOK ==
  /\ worth \in [Accounts -> Nat]
  /\ DOMAIN deals \subseteq DealIds
  /\ \A d \in DOMAIN deals : deals[d] \in Deal /\ deals[d].buyer # deals[d].seller

\* No currency is created or destroyed.
Conserved ==
  \A c \in Currencies :
    Total(worth, Users \X {c}) = Total(Opening, Users \X {c})

\* Whoever strikes a deal knows what it will be: its terms never change, and
\* once it is settled, awarded or void it stays so.
Ended(x) == x.state \in {"settled", "awarded", "void"}
DealsStand ==
  \A d \in DOMAIN deals :
    /\ d \in DOMAIN deals'
    /\ deals'[d] = [deals[d] EXCEPT !.state = deals'[d].state]
    /\ Ended(deals[d]) => deals'[d] = deals[d]
=============================================================================

------------------------------ MODULE MCEscrow ------------------------------
(***************************************************************************)
(* Small instances of Escrow for TLC.                                      *)
(***************************************************************************)
EXTENDS Escrow, TLC

CONSTANTS OpeningNgn, OpeningForeign

MCOpening ==
  [acc \in Accounts |-> IF acc[2] = NGN THEN OpeningNgn ELSE OpeningForeign]

\* Users and ids are interchangeable: all accounts open alike.
Symmetry ==
  Permutations(Users) \cup Permutations(SabitIds)
    \cup Permutations(TradeIds) \cup Permutations(BidIds)
=============================================================================

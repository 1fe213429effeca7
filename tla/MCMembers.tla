----------------------------- MODULE MCMembers -----------------------------
(***************************************************************************)
(* Small instances of Members for TLC.  The identity check, beneficiaries  *)
(* and ratings do not read each other's tables, so a behaviour works on    *)
(* one of them; scenario says which.                                       *)
(***************************************************************************)
EXTENDS Members, TLC
CONSTANTS u1, u2, k1, k2, b1, b2, b3, t1, r1, r2

VARIABLE scenario

MCOwner == k1 :> u1 @@ k2 :> u1 @@ b1 :> u1 @@ b2 :> u1 @@ b3 :> u1
MCCurrency == b1 :> "NGN" @@ b2 :> "NGN" @@ b3 :> "GBP"
MCParties == t1 :> {u1, u2}

Concerned ==
  CASE scenario = "kyc" -> Upload \cup Decide
    [] scenario = "payees" -> Payee
    [] OTHER -> Rate

MCInit == Init /\ scenario \in {"kyc", "payees", "ratings"}

\* The users of beneficiaries and ratings are verified from the start.
MCNext ==
  /\ \/ \E r \in Requests : (Admitted(r) /\ work'[r] \in Concerned) \/ Fails(r)
     \/ scenario = "kyc" /\ (AccountNext \/ KycNext)
     \/ scenario # "kyc" /\ \E u \in Users : CompleteAdminSetup(u)
     \/ scenario = "payees" /\ PayeeNext
     \/ scenario = "ratings" /\ RatingNext
  /\ UNCHANGED scenario

MCSpec == MCInit /\ [][MCNext]_<<vars, scenario>>
=============================================================================

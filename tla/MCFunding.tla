----------------------------- MODULE MCFunding -----------------------------
(***************************************************************************)
(* Small instances of Funding for TLC.                                     *)
(***************************************************************************)
EXTENDS Funding, TLC

CONSTANT OpeningBalance

MCOpening == [acc \in Accounts |-> OpeningBalance]

\* migrations/1760000000011-AddWithdrawals.ts, without the columns that no
\* handler writes after the INSERT.
MigratedColumns ==
  {"status", "provider_reference", "failure_reason", "reviewed_by"}

\* The table the admin handlers are written for.
ExpectedColumns == MigratedColumns \cup {"rejection_reason", "reviewed_at"}

Symmetry == Permutations(Users) \cup Permutations(Deliveries)
=============================================================================

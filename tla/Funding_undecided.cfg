SPECIFICATION Spec
CONSTANTS
  Users = {u1}
  NGN = NGN
  Foreign = {GBP}
  Amounts = {1}
  Deliveries = {h1}
  OpeningBalance = 1
  Opening <- MCOpening
  MaxDeposits = 0
  MaxWithdrawals = 1
  InitialStatus = "pending"
  WithdrawalColumns <- MigratedColumns
INVARIANTS WithdrawalsDecidable
CHECK_DEADLOCK FALSE

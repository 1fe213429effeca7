SPECIFICATION FairSpec
CONSTANTS
  Users = {u1}
  NGN = NGN
  Foreign = {GBP}
  Amounts = {1, 2}
  Deliveries = {h1, h2}
  OpeningBalance = 1
  Opening <- MCOpening
  MaxDeposits = 2
  MaxWithdrawals = 1
  InitialStatus = "requested"
  WithdrawalColumns <- ExpectedColumns
INVARIANTS TypeOK LedgerExplainsBalances CompletedIffCredited CreditsArePaidFor RefundedIffFailed
PROPERTIES SettledStays StaleDepositEnds
CHECK_DEADLOCK FALSE

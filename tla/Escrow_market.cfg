SPECIFICATION Spec
CONSTANTS
  Users = {u1, u2}
  NGN = NGN
  Foreign = {GBP}
  SabitIds = {s1, s2}
  TradeIds = {t1, t2}
  BidIds = {b1}
  Amounts = {1, 2}
  Rates = {1, 2}
  ListingTypes = {"SELL", "BUY"}
  Favors = {"buyer", "seller"}
  Cents = 2
  OpeningNgn = 4
  OpeningForeign = 3
  Opening <- MCOpening
SYMMETRY Symmetry
INVARIANTS TypeOK MoneyConserved LockedAccounted NoOversell DisputesAgree
PROPERTIES KeepsContract
CHECK_DEADLOCK FALSE

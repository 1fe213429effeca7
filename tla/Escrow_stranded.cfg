SPECIFICATION Spec
CONSTANTS
  Users = {u1, u2}
  NGN = NGN
  Foreign = {GBP}
  SabitIds = {s1}
  TradeIds = {t1}
  BidIds = {}
  Amounts = {1}
  Rates = {1}
  ListingTypes = {"SELL"}
  Favors = {"buyer", "seller"}
  Cents = 1
  OpeningNgn = 1
  OpeningForeign = 1
  Opening <- MCOpening
INVARIANTS NothingStranded
CHECK_DEADLOCK FALSE

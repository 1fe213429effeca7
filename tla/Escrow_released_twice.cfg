SPECIFICATION FairSpec
CONSTANTS
  Users = {u1, u2}
  NGN = NGN
  Foreign = {GBP}
  SabitIds = {s1, s2}
  TradeIds = {t1}
  BidIds = {b1}
  Amounts = {1}
  Rates = {1, 2}
  ListingTypes = {"SELL", "BUY"}
  Favors = {"buyer", "seller"}
  Cents = 1
  OpeningNgn = 3
  OpeningForeign = 2
  Opening <- MCOpening
PROPERTIES ExpiredBidEnds
CHECK_DEADLOCK FALSE

SPECIFICATION FairSpec
CONSTANTS
  Users = {u1, u2, u3}
  NGN = NGN
  Foreign = {GBP}
  SabitIds = {s1}
  TradeIds = {t1, t2}
  BidIds = {b1}
  Amounts = {1, 2}
  Rates = {1, 2}
  ListingTypes = {"SELL"}
  Favors = {"buyer", "seller"}
  Cents = 2
  OpeningNgn = 3
  OpeningForeign = 3
  Opening <- MCOpening
INVARIANTS EscrowBacked
PROPERTIES ExpiredTradeEnds ExpiredBidEnds
CHECK_DEADLOCK FALSE

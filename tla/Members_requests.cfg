SPECIFICATION MCSpec
CONSTANTS
  u1 = u1
  u2 = u2
  k1 = k1
  k2 = k2
  b1 = b1
  b2 = b2
  b3 = b3
  t1 = t1
  r1 = r1
  r2 = r2
  Users = {u1, u2}
  Submissions = {k1, k2}
  Beneficiaries = {b1, b2, b3}
  Trades = {t1}
  Owner <- MCOwner
  Currency <- MCCurrency
  Parties <- MCParties
  Requests = {r1, r2}
  Nobody = Nobody
INVARIANTS TypeOK VerifiedHaveRecords OneRatingPerParty
PROPERTIES LoneDefaultIsUnique

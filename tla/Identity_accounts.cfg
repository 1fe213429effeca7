SPECIFICATION Spec
CONSTANTS
  Users = {u1, u2}
  Addresses = {a1, a2}
  NoAddress = NoAddress
  Requests = {r1}
  MaxFailures = 1
  MaxCodes = 1
  MaxTokens = 0
  MaxInvites = 1
SYMMETRY Symmetry
INVARIANTS VerifiedIsProven
CHECK_DEADLOCK FALSE

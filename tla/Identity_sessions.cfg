SPECIFICATION Spec
CONSTANTS
  Users = {u1}
  Addresses = {a1, a2}
  NoAddress = NoAddress
  Requests = {r1, r2}
  MaxFailures = 2
  MaxCodes = 2
  MaxTokens = 2
  MaxInvites = 0
SYMMETRY Symmetry
INVARIANTS TypeOK CodeServesItsPurpose SpentCodesAreGone LockFollowsFailures ReplacedIsRevoked
CHECK_DEADLOCK FALSE

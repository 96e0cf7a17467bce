CONSTANTS
  ann = ann  bob = bob  h1 = h1  h2 = h2  h3 = h3  d0 = d0  d1 = d1  d2 = d2
  None = None
  Members = {ann}
  Enrolled = {ann}
  HomeDevice <- HomeOfAnn
  Handlers = {h1, h2, h3}
  MayRun <- ChangeDevice
  Tickets = {t1}
  Devices = {d0, d1, d2}
  Sessions = {s1}
  MaxChallenges = 2
  MaxRequests = 2
  MaxFaults = 0
SPECIFICATION Spec
SYMMETRY SymChange
INVARIANTS ApprovalRetiresDevices PendingBounded

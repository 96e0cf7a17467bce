CONSTANTS
  ann = ann  bob = bob  h1 = h1  h2 = h2  h3 = h3  d0 = d0  d1 = d1  d2 = d2
  None = None
  Members = {ann}
  Enrolled = {}
  HomeDevice <- NoHome
  Handlers = {h1, h2}
  MayRun <- EnrolAndBar
  Tickets = {t1}
  Devices = {d0, d1}
  Sessions = {s1}
  MaxChallenges = 2
  MaxRequests = 1
  MaxFaults = 0
SPECIFICATION Spec
INVARIANT TicketSingleUse

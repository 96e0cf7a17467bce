CONSTANTS
  ann = ann  bob = bob  h1 = h1  h2 = h2  h3 = h3  d0 = d0  d1 = d1  d2 = d2
  None = None
  Members = {ann, bob}
  Enrolled = {ann, bob}
  HomeDevice <- HomeOfBoth
  Handlers = {h1, h2, h3}
  MayRun <- AtTheGate
  Tickets = {t1}
  Devices = {d0, d1}
  Sessions = {s1}
  MaxChallenges = 2
  MaxRequests = 1
  MaxFaults = 1
SPECIFICATION FairSpec
INVARIANT GrantSound
PROPERTIES RevocationCompletes IsAccounts

CONSTANTS
  None = None
  adm = adm  e1 = e1  e2 = e2
  Emails = {adm, e1, e2}
  AdminEmail = adm
  Ids = {m1, m2}
  AdminId = ADM
  Files <- Sheets
  Handlers = {h1, h2}
  MaxTries = 2
  MaxFaults = 1
SPECIFICATION FairSpec
INVARIANTS TypeOK RowsAccounted ImportComplete IdsSound BootstrapSound
PROPERTIES BootstrapCompletes LockoutIsFinal IsRegistry
CHECK_DEADLOCK FALSE

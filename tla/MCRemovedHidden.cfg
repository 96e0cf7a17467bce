CONSTANTS
  None = None
  ann = ann   admin = admin  x = x  y = y  q1 = q1  q2 = q2  h1 = h1  h2 = h2
  Members = {ann, admin}
  Admins = {admin}
  Posts = {q1}
  Media = {x, y}
  Attachments <- Lists
  Handlers = {h1, h2}
  MayRun <- Feed
  MaxFaults = 0
SPECIFICATION Spec
PROPERTY RemovedStaysHidden

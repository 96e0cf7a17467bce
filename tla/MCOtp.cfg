CONSTANTS
  h1 = h1  h2 = h2  h3 = h3
  Handlers = {h1, h2}
  MaxChallenges = 3
  MaxAttempts = 2
  DailyCap = 1
  Cooldown = 1
  Lifetime = 2
  DayLength = 3
  MaxTime = 3
  MaxFaults = 1
SPECIFICATION Spec
SYMMETRY Sym
INVARIANTS TypeOK GuessBudget AcceptBudget TryBudget CapSlack
PROPERTY DeadStaysDead
CHECK_DEADLOCK FALSE

CONSTANTS
  h1 = h1  h2 = h2  h3 = h3
  Handlers = {h1}
  MaxChallenges = 3
  MaxAttempts = 1
  DailyCap = 1
  Cooldown = 1
  Lifetime = 1
  DayLength = 3
  MaxTime = 4
  MaxFaults = 0
SPECIFICATION Spec
SYMMETRY Sym
INVARIANT DailyCapKept
CHECK_DEADLOCK FALSE

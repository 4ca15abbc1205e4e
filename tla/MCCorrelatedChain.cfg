SPECIFICATION Spec
CONSTANTS
  r1 = r1
  r2 = r2
  j1 = j1
  j2 = j2
  Rank = {r1, r2}
  Job = {j1, j2}
  Scheduler = Scheduler
  None = None
  MaxRoster = 4
  MaxEpisodes = 2
  MaxRestores = 2
  MaxFaults = 2
  MaxTrouble = 3
SYMMETRY Symmetry
INVARIANTS
  AcceptedHappened
  HealthyAccepted
CHECK_DEADLOCK FALSE

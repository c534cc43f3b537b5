CONSTANTS
  a1 = a1  a2 = a2  a3 = a3
  Attempts <- MCAttempts
  Active <- MCOneAttempt
  Answers = {"success", "failed", "pending"}
  Batch = 1
  Stale = 2
  Session = 3
  Day = 6
  MaxMishaps = 1
SPECIFICATION Spec
SYMMETRY Symmetry
INVARIANTS TypeOK NobodyStarves VerdictDecides
PROPERTY VerdictStands

CONSTANTS
  a1 = a1  a2 = a2  a3 = a3
  Attempts <- MCOneAttempt
  Active <- MCOneAttempt
  Answers = {}
  Batch = 1
  Stale = 3
  Session = 6
  Day = 12
  MaxMishaps = 0
SPECIFICATION LiveSpec
PROPERTY AbandonedIsVoided

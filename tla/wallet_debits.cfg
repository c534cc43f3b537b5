\* Concurrent checkouts and legacy debits, with crashes: the money is right.
CONSTANTS
  o1 = o1  o2 = o2  o3 = o3  t1 = t1
  r1 = r1  r2 = r2  r3 = r3
  Requests <- MCRequests
  Refs <- MCRefs
  Calls <- DebitCalls
  InitBalance = 3
  MaxTopUp = 4
  MinOnline = 1
SPECIFICATION Spec
INVARIANTS BooksBalance
PROPERTIES PaysLikeAnAccount
\* Every handler ends: nothing is left to do.
CHECK_DEADLOCK FALSE

\* Vendor payments and picker withdrawals, interleaved at every await, cut
\* short anywhere.
CONSTANTS
  p1 = p1  p2 = p2  i1 = i1  i2 = i2  c1 = c1  c2 = c2
  r1 = r1  r2 = r2  h1 = h1  h2 = h2  k1 = k1
  Payments <- MCPayments
  Invoices <- MCInvoices
  Calls <- MCCalls
  Steps = 2
  NoPayment = NoPayment
  ByHand = ByHand
  Requests <- MCRequests
  Handlers <- MCHandlers
  Keys <- MCKeys
  NoKey = NoKey
  Amounts = {1}
  Earnings = 1
  MaxCredits = 2
SPECIFICATION MCSpec
SYMMETRY Alike
CONSTRAINT Few
INVARIANTS TypesOK LinesInOrder ScheduledByItsPayment OnePaymentAtATime
           NeverOverdrawn PaidIsDebited OneRequestPerKey BooksBalanceAtRest
PROPERTY Disburses

SPECIFICATION Spec
CONSTANTS
  Plans = {"starter", "pro"}
  Modules = {m1}
  SeededModules = {m1}
  Offers <- MCOffers
  FirstOffers <- MCFirstOffers
  ListPrices = {3, 4}
  SeedPrice = 3
  PlanRows <- MCPlanRows
  FirstPlanRows <- MCFirstPlanRows
  Overrides = {0}
  Statuses = {"active", "past_due"}
  Requests = {r1, r2}
  NoPlan = NoPlan
  MaxRequests = 3
  MaxInvoices = 1
  Transactions = {t1, t2}
  NoInvoice = NoInvoice
SYMMETRY MCSymmetry
INVARIANTS
  BillingTypeOK
  AmountIsOwed
  PlanIsKept
  PaidIsCovered
\* Once every request is answered, nothing happens.
CHECK_DEADLOCK FALSE

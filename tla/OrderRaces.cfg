\* Everything races: two orders that empty the shelf, a payment and a webhook
\* each, a cancel request and the timer; under fairness of the timer.
SPECIFICATION FairSpec
CONSTANTS
  u1 = u1  i1 = i1  i2 = i2  o1 = o1  o2 = o2  p1 = p1  p2 = p2
  g1 = g1  g2 = g2  h1 = h1  h2 = h2  h3 = h3  c1 = c1  c2 = c2
  Users = {u1}
  Items = {i1, i2}
  Orders = {o1, o2}
  Payments = {p1, p2}
  Hooks = {h1, h2}
  Cancels = {c1}
  Jobs = {j1}
  Grades = {g1, g2}
  Buyer <- OneBuyer
  Lines <- Wanted
  Subtotal <- Subtotals
  UsePoint <- SpendTen
  PayFor <- OneEach
  HookFor <- HookTargets
  CancelFor <- CancelTargets
  MinAmount <- Thresholds
  RatePercent <- Rates
  InitStock <- Shelf
  InitPoint <- TenPoints
  InitGrade <- LowGrade
  MayExpire = {o1, o2}
  Leavers = {u1}
  Reviewable = {}
  Products <- NoProduct
  SellerStocks = {}
  NoGrade = NoGrade
  NoPayment = NoPayment
INVARIANTS
  TypeOK
  PointLedger
  CancelIsNeutral
  
  DriftNeedsExpiry
PROPERTIES
  LedgerSpec
  ExpiredIsReleased

\* Two payment rows for the first order, the webhook of one delivered twice,
\* a cancel request, the timer, and a seller who edits the product.
SPECIFICATION Spec
CONSTANTS
  u1 = u1  i1 = i1  i2 = i2  o1 = o1  o2 = o2  p1 = p1  p2 = p2
  g1 = g1  g2 = g2  h1 = h1  h2 = h2  h3 = h3  c1 = c1  c2 = c2
  Users = {u1}
  Items = {i1}
  Orders = {o1, o2}
  Payments = {p1, p2}
  Hooks = {h1, h3}
  Cancels = {c1}
  Jobs = {j1}
  Grades = {g1, g2}
  Buyer <- OneBuyer
  Lines <- Wanted
  Subtotal <- Subtotals
  UsePoint <- SpendTen
  PayFor <- BothForFirst
  HookFor <- HookTargets
  CancelFor <- CancelTargets
  MinAmount <- Thresholds
  RatePercent <- Rates
  InitStock <- Shelf
  InitPoint <- TenPoints
  InitGrade <- LowGrade
  MayExpire = {o1}
  Leavers = {u1}
  Reviewable = {o1}
  Products <- OneProduct
  SellerStocks = {2}
  NoGrade = NoGrade
  NoPayment = NoPayment
INVARIANTS
  StockBounds
  OneClaimPerPayment
  NoOrphans
  NobodyLeavesMidPayment
PROPERTIES
  PaidStaysShown

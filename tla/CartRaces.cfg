\* Updates in opposite order, a removal, a deleted product and account; an
\* edit of an offer and a visit that ends with an order.
\* Every request runs once, so the system stops.
SPECIFICATION OffersSpec
CONSTANTS
  p1 = p1  p2 = p2  a = a  b = b  r1 = r1  r2 = r2  r3 = r3  c1 = c1  d1 = d1
  e1 = e1
  Products = {p1, p2}
  Sizes = {a, b}
  Updates = {r1, r2, r3}
  Creations = {c1}
  Removals = {d1}
  ProductOf <- Target
  SizesOf <- Listed3
  NoRow = NoRow
  NoUpdate = NoUpdate
  Prices = {10000, 35000}
  Rates = {0, 7}
  LastTime = 1
  Edits = {e1}
  EditOf <- Edited1
  ChangeOf <- Body
  FirstOffer <- Opening
  DiscountOf <- Floor
  Null = Null
  Omitted = Omitted
INVARIANTS
  TypeOK
  QuoteHolds
  ReceiptAdds
PROPERTIES
  BasketSpec
CHECK_DEADLOCK FALSE

SPECIFICATION PagesSpec
CONSTANTS
  i1 = i1
  i2 = i2
  c1 = c1
  c2 = c2
  c3 = c3
  u1 = u1
  d1 = d1
  Items = {i1, i2}
  Creates = {c1, c2}
  Updates = {u1}
  Deletes = {d1}
  Ratings = {2, 5}
  NoReview = NoReview
  Limit = 1
INVARIANTS TypeOK OneReviewPerOrderItem PagesComplete
PROPERTIES RecountRepairs
SYMMETRY Symmetric

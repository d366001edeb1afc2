\* Two sign-ups for the address of the buyer, two openings, two
\* favourites and the removal of one, a product and its removal, a withdrawal.
\* Every request runs once, so the system stops.
SPECIFICATION Spec
CONSTANTS
  seller = seller  buyer = buyer  es = es  eb = eb
  u1 = u1  u2 = u2  o1 = o1  o2 = o2
  l1 = l1  l2 = l2  d1 = d1  a1 = a1  x1 = x1  w1 = w1
  Accounts = {seller, buyer}
  Seller = seller
  Buyer = buyer
  Emails = {es, eb}
  EmailOf <- Address
  SignUps = {u1, u2}
  Openings = {o1, o2}
  Likings = {l1, l2}
  Unlikings = {d1}
  Additions = {a1}
  Discards = {x1}
  Withdrawals = {w1}
  Nobody = Nobody
SYMMETRY Symmetry
INVARIANTS
  TypeOK
PROPERTIES
  DirectorySpec
CHECK_DEADLOCK FALSE

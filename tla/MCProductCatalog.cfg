SPECIFICATION Spec
CONSTANTS
  Ids = {p1, p2}
  Requests = {r1, r2}
  Slugs = {s1, s2}
  l1 = l1
  padded = padded
  relative = relative
  Raws = {padded, relative}
  Links = {l1}
  Clean <- OneLinkClean
  Prices = {price}
  MaxNamed = 1
  None = None
SYMMETRY Alike
INVARIANTS
  AlwaysPurchasable
  SlugsAreUnique
  NoPurchaseWithoutProduct

SPECIFICATION ServicesSpec
CONSTANTS
  tag1 = tag1
  tag2 = tag2
  r1 = r1
  r2 = r2
  Code = {tag1, tag2}
  Page = {tag1}
  Units = {1}
  Basket <- Baskets
  Request = {r1, r2}
  Kinds <- KindsOf
  TTL = 1
  FetchTime = 1
  Life = 3
  Margin = 2
  MaxTime = 3
  MaxSales = 1
  Raised = Raised
  Person = {p1, p2}
  Serial = {g1}
  Call = {c1, c2}
  Stamp = {1}
  MaxDay = 1
  Sale = {1}
  MaxActs = 1
  MaxTogether = 2
  Lead = {l1}
  Email = {v1}
  Stage = {"new", "demo"}
  MaxTouches = 2
  Writer = {c1, c2}
  QueueLimit = 1
  Word = {"jean", "coat", "blue"}
  Garment = {"jean", "coat"}
  Bottoms = {"jean"}
  Size <- Sizes
  SchemeOf <- Schemes5
  WaistOf <- Waists
  Inventory <- Floors
  Guest <- Guests
  Model <- Models
  None = None
CHECK_DEADLOCK FALSE
SYMMETRY Symmetry
INVARIANTS ServicesTypeOK CodesAreAccountedFor SizeAnswerIsTrue SweepTakesTheWords
PROPERTIES CountsAreRecent RecordedByConsent CreditedToTheWearer ReplyStaysOnTop

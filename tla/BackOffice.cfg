SPECIFICATION OfficeSpec
CONSTANTS
  User = {u1, u2}
  MaxSessions = 1
  MaxLinks = 2
  Email = {e1, e2}
  Password = {p1, p2}
  Tenant = {t}
  Role = {"client_admin"}
  Changes <- OneChange
  Founder = u1
  Caller = {c1, c2}
  Faults = {"lapse", "unsent"}
  Gone = Gone
  Device = {e1, e2}
  Serial = {n}
  Shop = {h1}
  Staff = {s1}
  ShopOf <- OneShop
  Surface = {"phone"}
  MaxCodes = 2
  Admin = {c1, c2}
  Clerk = {k1, k2}
  Here = {k1}
  MaxSaves = 2
  MaxTime = 2
  Recheck = 1
  Staffed = TRUE
  Token = {c1, c2}
  Store = {m1, m2}
  Door = {"nfc-plate", "qr-plate"}
  MaxCounter = 2
  Phone = {f1, f2}
  Key = {c1, c2}
  Thread = {e1, e2}
  Limit = 1
  Window = 1
  IdleAfter = 1
  MaxClock = 2
  MaxDeques = 3
  None = None
CHECK_DEADLOCK FALSE
SYMMETRY Symmetry
INVARIANTS OfficeTypeOK SessionsAreEarned DeadCodesStayDead StaleWithinRecheck RotationTakesEffect OldLinksStayOld LimitIsExact

SPECIFICATION GuestSpec
CONSTANTS
  Sock = {a, b}
  Covering = {a, b}
  User <- Staff
  UserOf <- SignedIn
  Guest = {anna}
  Anonymous = {anna}
  None = None
  MaxTaps = 1
  MaxAsks = 2
  MaxArrivals = 2
  Faults = {"drop", "refused", "unheard", "lapse"}
CHECK_DEADLOCK FALSE
SYMMETRY Symmetry
INVARIANTS TypeOK ServingIsOpen TakenIsNotOffered StopClosesEarlierAsks TakenNamesTheClaimer

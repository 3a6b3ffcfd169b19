SPECIFICATION RetFairSpec
CONSTANTS
  first = first
  second = second
  OfSecond = {}
  Replica = {r1, r2}
  Manual = {}
  Tenants <- InOrder
  Classes <- OneTable
  Row = {x1, x2}
  TenantOf <- Whose
  ClassOf <- Where
  Ours = {z}
  OursOf <- Kind
  Timed = {r1, r2}
  BATCH = 1
  MaxMigration = 1
  MaxErrors = 1
  MaxBoots = 2
  None = None
CHECK_DEADLOCK FALSE
INVARIANTS ReceiptIsHonest SomebodySweeps
PROPERTIES AgedIsRedacted

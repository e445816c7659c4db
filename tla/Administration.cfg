SPECIFICATION AdminSpec
CONSTANTS
  d1 = d1
  d2 = d2
  v1 = v1
  f1 = f1
  f2 = f2
  t1 = t1
  t2 = t2
  r1 = r1
  r2 = r2
  r3 = r3
  an = an
  binh = binh
  ph1 = ph1
  ph2 = ph2
  h1 = h1
  h2 = h2
  plan1 = plan1
  None = None
  Drivers <- TwoDrivers
  Vehicles <- OneVehicle
  Forms <- TwoForms
  Txns <- TwoTxns
  Unbound <- OneDriver
  Months = 2
  MaxOrders = 2
  MaxEdits = 3
  Records <- ThreeRecords
  Names <- TwoNames
  Phones <- TwoPhones
  Trucks <- OneVehicle
  Handlers <- TwoHandlers
  Plans <- OnePlan
  PlanOf <- OnePlanOf
  MaxDeletes = 2
  DeviceTabs = {"pending", "active"}
  MaxLoads = 3
  MaxRowEdits = 2
  MaxOthers = 1
SYMMETRY Symmetry
INVARIANTS
  RefsAreDistinct
  DeletedHoldsNothing
  ListIsCurrent
PROPERTIES
  NoSecondIdentity
  ImplementsPlanLedger
CHECK_DEADLOCK FALSE

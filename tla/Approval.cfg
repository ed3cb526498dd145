\* One invoice that is submitted twice, one after the other or at the same time.
SPECIFICATION Spec
CONSTANTS
  Invoices = {i1}
  Flows = {f1, f2}
  Users = {u1, u2}
  Items = {x1}
  NSteps = 2
  NoInvoice = NoInvoice
  MaxExpiries = 1
SYMMETRY Symmetry
INVARIANTS
  TypeOK
  OneDecisionPerOpening
  StatusTellsFlow
PROPERTY KeepsOrder
CHECK_DEADLOCK FALSE

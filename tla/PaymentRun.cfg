\* Two requests at a time on two runs and two invoices.  The ids run out, so
\* the instance may stop.
SPECIFICATION Spec
CONSTANTS
  Runs = {r1, r2}
  Invoices = {i1, i2}
  Users = {u1, u2}
  NoRun = noRun
  MaxOpen = 2
SYMMETRY Symmetry
INVARIANTS
  TypeOK
  PaidWasSent
  CompletedIsSettled
  PaidOnce
  StatusTellsRun
PROPERTY KeepsOrders
CHECK_DEADLOCK FALSE

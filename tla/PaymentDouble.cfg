\* One request at a time: three runs in sequence.
SPECIFICATION Spec
CONSTANTS
  Runs = {r1, r2, r3}
  Invoices = {i1, i2}
  Users = {u1}
  NoRun = noRun
  MaxOpen = 1
SYMMETRY Symmetry
INVARIANT InvoicePaidOnce
CHECK_DEADLOCK FALSE

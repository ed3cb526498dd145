\* Two invoices, one worker and no incident: the first is refused, the second is
\* sent, the first is corrected and sent again.
SPECIFICATION Spec
CONSTANTS
  Invoices = {i1, i2}
  Workers = {w1}
  NoInvoice = NoInvoice
  NoWorker = NoWorker
  Editable = {i1}
  MaxEdits = 1
  MaxIncidents = 0
INVARIANT EveryLinkHolds
CHECK_DEADLOCK FALSE

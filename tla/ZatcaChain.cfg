SPECIFICATION FairSpec
CONSTANTS
  Invoices = {i1, i2}
  Workers = {w1, w2}
  NoInvoice = NoInvoice
  NoWorker = NoWorker
  Editable = {i1}
  MaxEdits = 1
  MaxIncidents = 1
INVARIANTS
  TypeOK
  Linked
  StatusTellsZatca
PROPERTIES
  KeepsRegister
  EventuallyAnswered
CHECK_DEADLOCK FALSE

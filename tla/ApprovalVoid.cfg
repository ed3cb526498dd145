\* One flow, one step: the invoice of a held flow is voided by the public API.
SPECIFICATION Spec
CONSTANTS
  Invoices = {i1}
  Flows = {f1}
  Users = {u1, u2}
  Items = {x1}
  NSteps = 1
  NoInvoice = NoInvoice
  MaxExpiries = 1
PROPERTY VoidIsFinal
CHECK_DEADLOCK FALSE

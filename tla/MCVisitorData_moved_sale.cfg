SPECIFICATION Spec
CONSTANTS
  guest = guest
  other = other
  s1 = s1
  s2 = s2
  s3 = s3
  lead = lead
  order = order
  sale = sale
  visit = visit
  direct = direct
  later = later
  tie = tie
  leadCreated = leadCreated
  leadWon = leadWon
  orderCreated = orderCreated
  orderUpdated = orderUpdated
  orderPaid = orderPaid
  orderCancelled = orderCancelled
  saleCreated = saleCreated
  saleUpdated = saleUpdated
  saleMoved = saleMoved
  saleCancelled = saleCancelled
  NoValue = NoValue
  Body <- MCBody
  Sessions = {s1, s2, s3}
  Leads = {lead}
  Orders = {order}
  Sales = {sale}
  Visitors = {guest, other}
  Events = {visit, saleCreated, saleMoved}
  Erasures = {guest}
  Repeated = {}
INVARIANTS
  ErasedInSnapshots
CHECK_DEADLOCK FALSE

SPECIFICATION FairSpec
CONSTANTS
  orderPaid = orderPaid
  orderPaidOther = orderPaidOther
  refund = refund
  e1 = e1
  e2 = e2
  body1 = body1
  body2 = body2
  body3 = body3
  NoContent = NoContent
  NoPublication = NoPublication
  Publications = {orderPaid, orderPaidOther, refund}
  EventIds = {e1, e2}
  Contents = {body1, body2, body3}
  EventOf <- MCEventOf
  ContentOf <- MCContentOf
  Poison = {refund}
  SalesChannels <- MCSalesChannels
  HostOf <- MCHostOf
  NoOrigin = NoOrigin
  MaxEventPayloadBytes = 1
  Unprojectable = {orderPaidOther}
  Tasks = {t1, t2}
  Prefetch = 2
  MaxRetryAttempts = 1
  MaxPublishes <- MCMaxPublishes
  MaxFaults = 1
INVARIANTS
  TypeOK
  NeverLost
  ExactlyOnce
PROPERTIES
  DeadLetterJustified
  EventuallyDrained
  ImplementsContract
CHECK_DEADLOCK FALSE

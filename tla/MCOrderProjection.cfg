SPECIFICATION Spec
CONSTANTS
  created = created
  updated = updated
  repriced = repriced
  paid = paid
  cancelled = cancelled
  refundEur = refundEur
  refundUsd = refundUsd
  lead = lead
  NoValue = NoValue
  NoEvent = NoEvent
  Currencies = {"EUR", "USD"}
  Kind <- MCKind
  Currency <- MCCurrency
  Events = {created, updated, repriced, paid, cancelled, refundEur, refundUsd, lead}
  Version <- MCVersion
  OccurredAt <- MCOccurredAt
INVARIANTS
  TypeOK
  NewestWins
  FactsRecorded
  LinesMatchTotal
  RefundInvalidityRight
PROPERTIES
  PaidFrozen
CHECK_DEADLOCK FALSE

SPECIFICATION Spec
CONSTANTS
  created = created
  updated = updated
  repriced = repriced
  paid = paid
  cancelled = cancelled
  refundEur = refundEur
  refundUsd = refundUsd
  lead = lead
  NoValue = NoValue
  NoEvent = NoEvent
  Currencies = {"EUR", "USD"}
  Kind <- MCKind
  Currency <- MCCurrency
  Events = {created, updated, repriced, paid, cancelled, refundUsd}
  Version <- MCVersion
  OccurredAt <- MCOccurredAt
INVARIANTS
  MismatchMarked
CHECK_DEADLOCK FALSE

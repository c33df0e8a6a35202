SPECIFICATION FairSpec
CONSTANTS
  idA = idA
  idB = idB
  bodyX = bodyX
  bodyY = bodyY
  itemA = itemA
  itemB = itemB
  otherB = otherB
  bad = bad
  batch = batch
  reversed = reversed
  single = single
  huge = huge
  announced = announced
  NoContent = NoContent
  NoLength = NoLength
  NoRequest = NoRequest
  EventIds = {idA, idB}
  Contents = {bodyX, bodyY}
  Items = {itemA, itemB, otherB, bad}
  IdOf <- MCIdOf
  ContentOf <- MCContentOf
  Invalid = {bad}
  SalesChannels <- MCSalesChannels
  HostOf <- MCHostOf
  NoOrigin = NoOrigin
  MaxEventPayloadBytes = 1
  Requests = {batch, reversed, single, huge, announced}
  Batch <- MCBatch
  Single = {single}
  Chunks <- MCChunks
  Declared <- MCDeclared
  MaxBody = 2
  MaxBatch = 4
  MaxSends <- MCMaxSends
  MaxFaults = 1
INVARIANTS
  TypeOK
  AnswersTruthful
  ProjectedOnce
  BodyLimited
PROPERTIES
  EventuallyAnswered
  ImplementsJournal
CHECK_DEADLOCK FALSE

SPECIFICATION Spec
CONSTANTS
  Null = Null
  SocialValues = {"instagram", "paid_social"}
  GoogleTagged = {"google_shopping"}
  Numerals = {"10", "127"}
  ExtraExclusions <- MCExtraExclusions
  OriginHosts <- MCOriginHosts
  DayLength = 3
  MaxCommits = 1
  Histories <- MCHistories
  Filters <- MCFilters
  Asked <- MCAsked
  Queries <- MCQueries
  Uuids <- MCUuids
  Hexes <- MCHexes
  ScanLimit = 4
  HitLimit = 3
INVARIANTS
  TypeOK
  LastChangeStands
  SourcesAgree
  BreakdownsAgree
  PeriodsAddUp
  RatesBounded
  SearchComplete
  
CHECK_DEADLOCK FALSE

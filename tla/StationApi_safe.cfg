SPECIFICATION FairSpec
CONSTANTS
  p1 = p1
  p2 = p2
  p3 = p3
  athens = athens
  berlin = berlin
  Posts = {p1, p2}
  Names = {athens}
  Satellites = {1, 2, 3}
  PageSize = 1
  MaxWrites = 3
  MaxFaults = 1
  NoName = NoName
CHECK_DEADLOCK FALSE
INVARIANTS
  TypeOK
  OneStationPerName
  ConflictIsReal
  StoredWasAccepted
  PassesNameTheirSatellites
  PagingMissesNone
PROPERTIES
  RequestsEnd

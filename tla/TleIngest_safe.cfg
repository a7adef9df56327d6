SPECIFICATION FairSpec
CONSTANTS
  i1 = i1
  i2 = i2
  iss = iss
  noaa = noaa
  Ingesters = {i1, i2}
  Norads = {iss, noaa}
  MaxVersion = 3
  Line2 <- SecondKeepsLine
  MaxOverlaps = 1
  MaxFaults = 1
  NoRow = NoRow
INVARIANTS
  TypeOK
  GroupIsComplete
  LinesBelongTogether
PROPERTIES
  ChangesAreAnnounced
  UnchangedIsSilent
  IngestCatchesUp

SPECIFICATION FairSpec
CONSTANTS
  a = a
  b = b
  junk = junk
  MaxChunks = 4
  TotalChunks = 3
  Payloads <- MCPayloads
  Content <- MCContent
  Length <- MCLength
  Modulus = 2
  MaxInFlight = 2
INVARIANTS
  TypeOK
  CountersMatchBitmap
  StoredIsContent
PROPERTIES
  OnlyGoodFragmentsCount
  EventuallyComplete

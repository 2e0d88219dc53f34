SPECIFICATION FairSpec
CONSTANTS
  Readers = {r1}
  RecordCount = 2
  Words = 2
  SeqMod = 6
  InitialSequence = 4
  MaxPuts = 6
INVARIANTS TypeOK GetConsistent
PROPERTIES RecordsInOrder GetsEnd

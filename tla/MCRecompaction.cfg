SPECIFICATION RecompactionSpec
CONSTANTS
  g1 = g1
  g2 = g2
  Game = {g1, g2}
  RecordOf <- TwoRecords
  RECORDS_PER_BLOCK = 2
  MaxDate = 2
  MaxFaults = 1
INVARIANTS RecompactionTypeOK FlushedRecordsKept StaleIndexIsRepairable
PROPERTIES ClosedDaysGetCompacted

SPECIFICATION Spec
CONSTANTS
  n1 = n1
  n2 = n2
  session = session
  mark = mark
  webhook = webhook
  Nodes <- MCNodes
  Seed = n1
  Replaced <- MCReplaced
  Upserted <- MCUpserted
  Marks <- MCMarks
  Deleted <- MCMarks
  Named <- MCUpserted
  Inserted <- MCUpserted
  SeedRows <- MCSeedRows
  MaxTerm = 3
  Wanted <- MCWanted
  MaxSnapshots = 1
  MaxCrashes = 1
INVARIANTS BuildsOnPrevious AcknowledgedIsCommitted LiveIsCommitted BehindOnlyByRefusal
CHECK_DEADLOCK FALSE

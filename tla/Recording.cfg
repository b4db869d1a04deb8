SPECIFICATION FairSpec
CONSTANTS
  Builds <- SomeBuilds
  Topics <- SomeTopics
  MaxSends = 2
INVARIANTS
  TypeOK
  EntriesAreTimestamps
  CsvComplete
PROPERTIES
  AllWritten

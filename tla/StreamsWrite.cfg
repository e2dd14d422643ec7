SPECIFICATION FairSpec
CONSTANTS
  Readers = {r1}
  Writers = {w1}
  ReaderOptions <- WholeFile
  WriterOptions <- EndedChoices
  Fds = {0, 1, 2}
  NoFd = NoFd
  FileLen = 1
  MinPoolSpace = 2
  WriteLens = {2}
  MaxWrites = 2
  MaxCloses = 0
INVARIANTS WritesInOrder OwnDescriptor
PROPERTY EveryStreamCloses

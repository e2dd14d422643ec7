SPECIFICATION Spec
CONSTANTS
  Readers = {r1, r2}
  Writers = {}
  ReaderOptions <- ReaderChoices
  WriterOptions <- WriterChoices
  Fds = {0, 1, 2}
  NoFd = NoFd
  FileLen = 2
  MinPoolSpace = 2
  WriteLens = {1, 2}
  MaxWrites = 0
  MaxCloses = 1
SYMMETRY ReaderSymmetry
INVARIANTS OwnDescriptor ChunksIntact ReadsWholeRange
PROPERTIES CloseIsLast

SPECIFICATION Spec
CONSTANTS
  Jobs = {j1, j2}
  App = app
  UserFd = 0
  KindsUsed = {"readFile", "readFd"}
  Fds = {0, 1, 2, 3}
  InitLens = {0, 1, 3}
  DataLen = 2
  BufLen = 2
  MaxLength = 4
  SizeMod = 6
  StatMayFail = TRUE
INVARIANT CallbackOnce

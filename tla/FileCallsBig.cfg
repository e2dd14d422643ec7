SPECIFICATION Spec
CONSTANTS
  Jobs = {j1}
  App = app
  UserFd = 0
  KindsUsed = {"readFile"}
  Fds = {0, 1, 2, 3}
  InitLens = {1, 5, 7}
  DataLen = 2
  BufLen = 2
  MaxLength = 4
  SizeMod = 6
  StatMayFail = FALSE
INVARIANT BigFileRejected

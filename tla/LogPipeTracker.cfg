SPECIFICATION FairSpec
CONSTANTS
  Stream = {"stdout", "stderr"}
  Byte = {"text", "newline"}
  Newline = "newline"
  Capacity = 1
  MaxBytes = 2
  Nil = Nil
INVARIANTS  ExitedIsLogged
PROPERTIES ImplementsTracker LinesAreLogged WritersGoOn ExitIsSeen
CHECK_DEADLOCK FALSE

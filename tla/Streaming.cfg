SPECIFICATION FairSpec
CONSTANTS
  MaxChunks = 2
INVARIANTS SuccessIsComplete ForwardIsComplete ReturnedIsReaped
   
CHECK_DEADLOCK FALSE

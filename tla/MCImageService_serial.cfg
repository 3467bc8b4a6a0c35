SPECIFICATION Spec
CONSTANTS
  Rpc = {r1}
  Part = {"", "a", "b", "h", "1", "latest", "d", "e"}
  Ref <- AnyRepository
  Nil = Nil
  StoreFails = FALSE
INVARIANTS AnswerIsTrue ListedIsFound
PROPERTIES ImplementsImageStore

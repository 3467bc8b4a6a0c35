SPECIFICATION Spec
SYMMETRY Symmetry
CONSTANTS
  Rpc = {r1, r2}
  Part = {"", "a", "b", "h", "1", "latest", "d", "e"}
  Ref <- OneRepository
  Nil = Nil
  StoreFails = TRUE
INVARIANTS NoDuplicates NeverEmpty 

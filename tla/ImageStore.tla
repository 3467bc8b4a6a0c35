----------------------------- MODULE ImageStore -----------------------------
(***************************************************************************)
(* What the ImageService promises a client with one request in flight: a   *)
(* set of references is held; a pull adds the one it names, a removal      *)
(* takes away the one it names, or everything of the same repository.      *)
(***************************************************************************)
CONSTANTS
  Item,    \* the references an image can be held under
  Family   \* those of one repository, for each repository

VARIABLE held

Init == held = {}

Pull(i) == held' = held \cup {i}

Remove(i) ==
  \/ held' = held \ {i}
  \/ \E F \in Family : i \in F /\ held' = held \ F

Next == \E i \in Item : Pull(i) \/ Remove(i)

Spec == Init /\ [][Next]_held
=============================================================================

--------------------------- MODULE MCImageService ---------------------------
(***************************************************************************)
(* ImageService on small sets of references.                               *)
(***************************************************************************)
EXTENDS ImageService, TLC

ref(host, port, path, tag, digest) ==
  [host |-> host, port |-> port, path |-> path, tag |-> tag, digest |-> digest]

\* One repository, by no tag, by two tags and by two digests.
OneRepository ==
  {ref("", FALSE, "a", tag, "") : tag \in {"", "1"}}
    \cup {ref("", FALSE, "a", "", digest) : digest \in {"d", "e"}}

\* Two repositories, and one reference that has both a tag and a digest.
TwoRepositories ==
  OneRepository \cup {ref("", FALSE, "b", "", ""), ref("", FALSE, "a", "1", "d")}

\* Two repositories of a registry that is named with its port.
OneRegistry == {ref("h", TRUE, path, "1", "") : path \in {"a", "b"}}

AnyRepository == TwoRepositories \cup OneRegistry

Symmetry == Permutations(Rpc)
=============================================================================

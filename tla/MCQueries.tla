----------------------------- MODULE MCQueries -----------------------------
(***************************************************************************)
(* Queries on one pod and two containers with different labels.            *)
(***************************************************************************)
EXTENDS Queries

AnyLabels ==
  [x \in Cid \cup Pod |->
     IF x = "c1" THEN [app |-> "b"] ELSE [app |-> "a", tier |-> "c"]]

running == [NoFilter EXCEPT !.state = "RUNNING", !.pod = "p1"]
ready == [NoFilter EXCEPT !.state = "READY", !.id = "p1", !.labels = [app |-> "a"]]

ContainerFilterSet == {running}
SandboxFilterSet == {ready}
StatsFilterSet == {NoFilter}
=============================================================================

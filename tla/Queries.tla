------------------------------ MODULE Queries ------------------------------
(***************************************************************************)
(* The queries of RuntimeService, next to the handlers that write: one     *)
(* list or status request at a time, at any point between their steps.     *)
(*                                                                         *)
(* A list reads no snapshot.  diskv.Keys walks the store's directories in  *)
(* a goroutine of its own and hands the names, one at a time, to the       *)
(* handler, which reads each record when it gets round to it.  The walk    *)
(* reads the names of a directory once and looks at each file when its     *)
(* turn comes; a file that is gone by then ends the whole walk, and Keys   *)
(* closes its channel without saying so.                                   *)
(*                                                                         *)
(* Abstracted: the order of the names in a directory, which is any order   *)
(* here.  Labels never change, so they are constants and not in the        *)
(* records.  A container filter is present: without one (nil) the handler  *)
(* panics, which is a crash of procri as module RuntimeService has it.     *)
(***************************************************************************)
EXTENDS RuntimeService

CONSTANTS
  Labels,             \* the labels of every container and pod: a map each
  ContainerFilters,   \* the filters clients send with ListContainers
  SandboxFilters,     \* and with ListPodSandbox
  StatsFilters        \* and with ListContainerStats, which have no state

ASSUME NoCrashAssumption == "crash" \notin Faults
ASSUME IdsAssumption == Cid \cap Pod = {}
ASSUME LabelsAssumption == DOMAIN Labels = Cid \cup Pod
ASSUME FiltersAssumption ==   \* a filter for sandboxes has no field pod
  /\ \A f \in ContainerFilters \cup SandboxFilters \cup StatsFilters : IsFiniteSet(DOMAIN f.labels)
  /\ \A f \in SandboxFilters : f.pod = Nil

VARIABLE query   \* the query in flight

qvars == <<vars, query>>

Lists == {"containers", "sandboxes", "stats"}
Filters(op) ==
  CASE op = "containers" -> ContainerFilters
    [] op = "sandboxes" -> SandboxFilters
    [] op = "stats" -> StatsFilters

NoFilter == [id |-> Nil, pod |-> Nil, state |-> Nil, labels |-> <<>>]

Entry ==
  [id: Cid \cup Pod, pod: Pod \cup {Nil},
   state: {"CREATED", "RUNNING", "EXITED", "READY", "NOTREADY"}]

Query ==
  [op: Lists \cup {"none", "status"},
   pc: {"idle", "range", "stats", "ok", "error"},
   filter: ContainerFilters \cup SandboxFilters \cup StatsFilters \cup {NoFilter},
   walk: {"container", "sandbox", "closed"},   \* the directory Keys is in
   cut: BOOLEAN,                               \* a vanished file ended the walk
   names: SUBSET (Cid \cup Pod),               \* names still to be looked at
   offered: Cid \cup Pod \cup {Nil},           \* in the channel
   taken: Cid \cup Pod \cup {Nil},             \* received, not yet read
   found: Seq(Entry),
   answer: Seq(Cid \cup Pod),
   kept: SUBSET (Cid \cup Pod)]   \* ghost: stored and selected ever since

NoQuery ==
  [op |-> "none", pc |-> "idle", filter |-> NoFilter, walk |-> "closed",
   cut |-> FALSE, names |-> {}, offered |-> Nil, taken |-> Nil,
   found |-> <<>>, answer |-> <<>>, kept |-> {}]

QInit == Init /\ query = NoQuery

\* An operator Wrong_X is no part of the specification: it is X with a plausible
\* bug, and a property that is listed for it fails when it takes X's place.

-----------------------------------------------------------------------------
(***************************************************************************)
(* The filters, each a pass over a list of what getContainer or getSandbox *)
(* returned; a field that is empty (Nil) selects everything.               *)
(***************************************************************************)
getContainer(c) == containers[c]
getSandbox(p) == sandboxes[p]
record(x) == IF x \in Cid THEN getContainer(x) ELSE getSandbox(x)
entry(x) == [id |-> x, pod |-> IF x \in Cid THEN containers[x].pod ELSE Nil,
             state |-> record(x).state]

\* The loop of every filter: what is good is appended to the result.
keep(entries, good) ==
  LET result[i \in 0..Len(entries)] ==
        IF i = 0 THEN <<>>
        ELSE IF entries[i] \in good THEN Append(result[i - 1], entries[i]) ELSE result[i - 1]
  IN result[Len(entries)]

byField(field, value, entries) ==
  IF value = Nil THEN entries ELSE keep(entries, {e \in Range(entries) : e[field] = value})

\* The two loops over maps count the pairs that are equal in both.
matches(labels, x) ==
  {pair \in (DOMAIN labels) \X (DOMAIN Labels[x]) :
     pair[1] = pair[2] /\ labels[pair[1]] = Labels[x][pair[2]]}

Wrong_byLabel(labels, entries) ==
  IF labels = <<>> THEN entries
  ELSE keep(entries, {e \in Range(entries) :
              Cardinality(matches(labels, e.id)) = Cardinality(DOMAIN Labels[e.id])})

byLabel(labels, entries) ==
  IF labels = <<>> THEN entries
  ELSE keep(entries, {e \in Range(entries) :
              Cardinality(matches(labels, e.id)) = Cardinality(DOMAIN labels)})

filterContainers(f, entries) ==
  byField("id", f.id,
    byField("state", f.state,
      byLabel(f.labels,
        byField("pod", f.pod, entries))))

filterPods(f, entries) ==
  byField("state", f.state, byLabel(f.labels, byField("id", f.id, entries)))

selected(op, f, entries) ==
  IF op = "sandboxes" THEN filterPods(f, entries) ELSE filterContainers(f, entries)

\* What a filter means: the reference the passes are checked against.
Selects(f, e) ==
  /\ f.id \in {Nil, e.id}
  /\ f.pod \in {Nil, e.pod}
  /\ f.state \in {Nil, e.state}
  /\ \A key \in DOMAIN f.labels :
       key \in DOMAIN Labels[e.id] /\ f.labels[key] = Labels[e.id][key]

-----------------------------------------------------------------------------
(***************************************************************************)
(* A list begins when Keys opens the first directory.                      *)
(***************************************************************************)
stored(ids) == {x \in ids : record(x) # Nil}
listedIds(op) == IF op = "sandboxes" THEN Pod ELSE Cid

List(op, f) ==
  /\ query.pc = "idle"
  /\ query' = [NoQuery EXCEPT !.op = op, !.pc = "range", !.filter = f,
                 !.walk = "container", !.names = stored(Cid),
                 !.kept = {x \in stored(listedIds(op)) : Selects(f, entry(x))}]

\* filepath.Walk looks at the next file, and either offers its name or gives up.
Wrong_WalkFile(x) ==
  /\ query.walk # "closed" /\ query.offered = Nil
  /\ x \in query.names
  /\ record(x) # Nil
  /\ query' = [query EXCEPT !.offered = x, !.names = @ \ {x}]

WalkFile(x) ==
  /\ query.walk # "closed" /\ query.offered = Nil
  /\ x \in query.names
  /\ query' = IF record(x) = Nil
              THEN [query EXCEPT !.walk = "closed", !.cut = TRUE, !.names = {}]
              ELSE [query EXCEPT !.offered = x, !.names = @ \ {x}]

WalkDirectory ==
  /\ query.walk # "closed" /\ query.offered = Nil
  /\ query.names = {}
  /\ query' = IF query.walk = "container"
              THEN [query EXCEPT !.walk = "sandbox", !.names = stored(Pod)]
              ELSE [query EXCEPT !.walk = "closed"]

\* The handler's range loop receives a name; one without its prefix is skipped.
RangeKey ==
  /\ query.pc = "range" /\ query.taken = Nil
  /\ query.offered # Nil
  /\ query' = [query EXCEPT !.offered = Nil,
                 !.taken = IF query.offered \in listedIds(query.op) THEN query.offered ELSE Nil]

\* getContainer, getSandbox: a record that is gone by now is left out.
Wrong_ReadNil ==
  /\ query.pc = "range" /\ query.taken # Nil
  /\ query' = [query EXCEPT !.taken = Nil,
                 !.found = Append(@, IF record(query.taken) = Nil THEN Nil ELSE entry(query.taken))]

Wrong_ReadRecord ==
  /\ query.pc = "range" /\ query.taken # Nil
  /\ query' = IF record(query.taken) = Nil
              THEN [query EXCEPT !.taken = Nil, !.pc = "ok"]
              ELSE [query EXCEPT !.taken = Nil, !.found = Append(@, entry(query.taken))]

ReadRecord ==
  /\ query.pc = "range" /\ query.taken # Nil
  /\ query' = IF record(query.taken) = Nil
              THEN [query EXCEPT !.taken = Nil]
              ELSE [query EXCEPT !.taken = Nil, !.found = Append(@, entry(query.taken))]

ids(entries) == [i \in DOMAIN entries |-> entries[i].id]

\* The channel is closed: the list is filtered, and returned or, for
\* ListContainerStats, gone through once more.
EndRange ==
  LET entries == selected(query.op, query.filter, query.found) IN
  /\ query.pc = "range" /\ query.taken = Nil
  /\ query.walk = "closed" /\ query.offered = Nil
  /\ query' = IF query.op = "stats"
              THEN [query EXCEPT !.pc = "stats", !.found = entries]
              ELSE [query EXCEPT !.pc = "ok", !.found = <<>>, !.answer = ids(entries)]

\* ContainerStats of the next container; one that is gone is left out.
Stats ==
  /\ query.pc = "stats"
  /\ query' =
       CASE query.found = <<>> -> [query EXCEPT !.pc = "ok"]
         [] query.found # <<>> /\ record(Head(query.found).id) = Nil ->
              [query EXCEPT !.found = Tail(@)]
         [] OTHER ->
              [query EXCEPT !.found = Tail(@), !.answer = Append(@, Head(query.found).id)]

\* The requests about one container or pod: one read, and an error if it is gone.
Status(x) ==
  /\ query.pc = "idle"
  /\ query' = [NoQuery EXCEPT !.op = "status", !.pc = IF record(x) = Nil THEN "error" ELSE "ok"]

ContainerStatus(c) == Status(c)
ContainerStats(c) == Status(c)
PodSandboxStatus(p) == Status(p)

Answer ==
  /\ query.pc \in {"ok", "error"}
  /\ query' = NoQuery

-----------------------------------------------------------------------------
\* Meanwhile a handler, a tracker or a process takes a step.
Meanwhile ==
  /\ Next
  /\ query' = [query EXCEPT !.kept =
       {x \in @ : record(x)' # Nil /\ Selects(query.filter, entry(x)')}]

ListStep ==
  \/ \E x \in Cid \cup Pod : WalkFile(x)
  \/ WalkDirectory
  \/ RangeKey \/ ReadRecord \/ EndRange \/ Stats
  \/ Answer

QueryStep ==
  /\ \/ \E op \in Lists : \E f \in Filters(op) : List(op, f)
     \/ \E c \in used : ContainerStatus(c) \/ ContainerStats(c)
     \/ \E p \in Pod : PodSandboxStatus(p)
     \/ ListStep
  /\ UNCHANGED vars

QNext == Meanwhile \/ QueryStep

\* The two goroutines of a list are scheduled.
QSpec == QInit /\ [][QNext]_qvars /\ WF_qvars(ListStep /\ UNCHANGED vars)

-----------------------------------------------------------------------------
\* The query in flight holds values of its type.
QueryTypeOK == query \in Query

\* A container or pod that is stored and selected from the beginning of a
\* list to its end is in the list, whatever is created, changes its state or
\* is removed meanwhile; unless a removal cut the walk short.
ListIsComplete ==
  query.op \in Lists /\ query.pc = "ok" /\ ~query.cut => query.kept \subseteq Range(query.answer)

\* The passes of the filters, in the order of the code, leave exactly the
\* entries the filter describes.
SelectionIsExact ==
  query.pc = "range" =>
    Range(selected(query.op, query.filter, query.found))
      = {e \in Range(query.found) : Selects(query.filter, e)}

\* An answer that shows a container EXITED stays true, however old it is: the
\* program and everything that held its output are gone.
ExitedStaysTrue ==
  \A e \in Range(query.found) : e.state = "EXITED" =>
    \A p \in Pid : procs[p].cid = e.id => procs[p].main = "reaped" /\ ~procs[p].helper

\* Every query is answered, whatever the handlers do to the store meanwhile.
QueriesReturn == query.pc # "idle" ~> query.pc = "idle"

-----------------------------------------------------------------------------
\* container.go:534: ListContainers lists all containers by filters.
ListsAll ==
  query.op = "containers" /\ query.pc = "ok" => query.kept \subseteq Range(query.answer)

=============================================================================

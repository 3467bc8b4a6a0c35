--------------------------- MODULE QueriesProofs ---------------------------
(***************************************************************************)
(* The queries, for any containers, pods, labels and filters and any       *)
(* number of requests that change the store meanwhile.                     *)
(***************************************************************************)
EXTENDS Queries, RuntimeServiceProofs, FiniteSetTheorems

-----------------------------------------------------------------------------
(***************************************************************************)
(* The loop of a filter.                                                   *)
(***************************************************************************)
\* One round of the loop.
Round(entries, good, i, result) ==
  IF i = 0 THEN <<>>
  ELSE IF entries[i] \in good THEN Append(result[i - 1], entries[i]) ELSE result[i - 1]

\* The results of all the rounds up to n.
Rounds(entries, good, n, result) ==
  result = [i \in 0..n |-> Round(entries, good, i, result)]

\* A set of natural numbers has a least one.
LEMMA LeastIs ==
  ASSUME NEW T \in SUBSET Nat, T # {}
  PROVE  \E n \in T : \A k \in T : n <= k
<1>1. PICK R : R = OpToRel(<, Nat)
  OBVIOUS
<1>2. IsWellFoundedOn(R, Nat)
  BY <1>1, NatLessThanWellFounded
<1>3. PICK n \in T : \A k \in T : ~(<<k, n>> \in R)
  BY <1>2, WFMin
<1>4. ASSUME NEW k \in T PROVE n <= k
  <2>1. <<k, n>> \in R <=> k < n
    BY <1>1 DEF OpToRel
  <2> QED  BY <1>3, <2>1
<1> QED  BY <1>4

\* The loop goes through to its end.
LEMMA RoundsExist ==
  ASSUME NEW entries, NEW good, NEW n \in Nat
  PROVE  \E result : Rounds(entries, good, n, result)
<1>1. PICK T \in SUBSET Nat : T = {k \in Nat : ~\E result : Rounds(entries, good, k, result)}
  OBVIOUS
<1>2. ASSUME T # {} PROVE FALSE
  <2>1. PICK k \in T : \A j \in T : k <= j
    BY <1>2, LeastIs
  <2>2. CASE k = 0
    <3>1. PICK result : result = [i \in 0..0 |-> <<>>]
      OBVIOUS
    <3>2. result = [i \in 0..0 |-> Round(entries, good, i, result)]
      BY <3>1 DEF Round
    <3> QED  BY <1>1, <2>1, <2>2, <3>2 DEF Rounds
  <2>3. CASE k # 0
    <3>1. k - 1 \in Nat /\ k - 1 \notin T
      BY <1>1, <2>1, <2>3
    <3>2. PICK before : Rounds(entries, good, k - 1, before)
      BY <1>1, <3>1
    <3>3. PICK result : result = [i \in 0..k |-> IF i = k THEN Round(entries, good, k, before) ELSE before[i]]
      OBVIOUS
    <3>4. ASSUME NEW i \in 0..k PROVE result[i] = Round(entries, good, i, result)
      <4>1. CASE i = k
        BY <2>3, <3>1, <3>3, <4>1 DEF Round
      <4>2. CASE i # k
        <5>1. i \in 0..(k - 1) /\ (i # 0 => i - 1 \in 0..k /\ i - 1 # k)
          BY <1>1, <4>2
        <5>2. before[i] = Round(entries, good, i, before)
          BY <3>2, <5>1 DEF Rounds
        <5>3. i # 0 => result[i - 1] = before[i - 1]
          BY <3>3, <5>1
        <5>4. result[i] = before[i]
          BY <3>3, <4>2
        <5> QED  BY <5>2, <5>3, <5>4 DEF Round
      <4> QED  BY <4>1, <4>2
    <3>5. result = [i \in 0..k |-> Round(entries, good, i, result)]
      BY <3>3, <3>4
    <3> QED  BY <1>1, <2>1, <3>5 DEF Rounds
  <2> QED  BY <2>2, <2>3
<1> QED  BY <1>1, <1>2

\* What a sequence holds after an element is appended.
LEMMA AppendRange ==
  ASSUME NEW S, NEW s \in Seq(S), NEW e \in S
  PROVE  Range(Append(s, e)) = Range(s) \cup {e}
<1>1. Len(s) \in Nat /\ DOMAIN s = 1..Len(s)
  BY LenProperties
<1>2. /\ Append(s, e) \in Seq(S) /\ Len(Append(s, e)) = Len(s) + 1
      /\ \A i \in 1..Len(s) : Append(s, e)[i] = s[i]
      /\ Append(s, e)[Len(s) + 1] = e
  BY AppendProperties
<1>3. DOMAIN Append(s, e) = 1..(Len(s) + 1)
  BY <1>2, LenProperties
<1>4. 1..(Len(s) + 1) = 1..Len(s) \cup {Len(s) + 1}
  BY <1>1
<1>5. \A i \in 1..(Len(s) + 1) : Append(s, e)[i] \in Range(s) \cup {e}
  BY <1>1, <1>2, <1>4 DEF Range
<1>6. Range(s) \subseteq Range(Append(s, e))
  BY <1>1, <1>2, <1>3, <1>4 DEF Range
<1>7. e \in Range(Append(s, e))
  BY <1>2, <1>3, <1>4 DEF Range
<1> QED  BY <1>3, <1>5, <1>6, <1>7 DEF Range

\* After round n the result holds what is good of the first n entries.
Kept(S, entries, good, result, n) ==
  /\ result[n] \in Seq(S)
  /\ \A e : e \in Range(result[n]) <=> e \in good /\ \E j \in 1..n : e = entries[j]

LEMMA RoundsKeep ==
  ASSUME NEW S, NEW entries \in Seq(S), NEW good, NEW result,
         Rounds(entries, good, Len(entries), result), NEW n \in 0..Len(entries)
  PROVE  Kept(S, entries, good, result, n)
<1>0. Len(entries) \in Nat /\ DOMAIN entries = 1..Len(entries)
  BY LenProperties
<1>1. PICK T \in SUBSET Nat :
        T = {k \in Nat : k <= Len(entries) /\ ~Kept(S, entries, good, result, k)}
  OBVIOUS
<1>2. ASSUME T # {} PROVE FALSE
  <2>1. PICK k \in T : \A j \in T : k <= j
    BY <1>2, LeastIs
  <2>2. k \in 0..Len(entries) /\ ~Kept(S, entries, good, result, k)
    BY <1>0, <1>1, <2>1
  <2>3. result[k] = Round(entries, good, k, result)
    BY <2>2, Zenon DEF Rounds
  <2>4. CASE k = 0
    <3>1. result[k] = <<>>
      BY <2>3, <2>4 DEF Round
    <3>2. Range(result[k]) = {}
      BY <3>1 DEF Range
    <3>3. 1..k = {}
      BY <2>4
    <3>4. <<>> \in Seq(S)
      OBVIOUS
    <3>5. Kept(S, entries, good, result, k)
      BY ONLY <3>1, <3>2, <3>3, <3>4 DEF Kept
    <3> QED  BY <2>2, <3>5
  <2>5. CASE k # 0
    <3>1. k - 1 \in Nat /\ k - 1 <= Len(entries) /\ k \in 1..Len(entries) /\ k - 1 \notin T
      BY <1>0, <2>1, <2>2, <2>5
    <3>2. Kept(S, entries, good, result, k - 1)
      BY <1>1, <3>1
    <3>3. entries[k] \in S
      BY <3>1, ElementOfSeq
    <3>4. 1..k = 1..(k - 1) \cup {k}
      BY <3>1
    <3>5. CASE entries[k] \in good
      <4>1. result[k] = Append(result[k - 1], entries[k])
        BY <2>3, <2>5, <3>5 DEF Round
      <4>2. result[k] \in Seq(S)
        BY <3>2, <3>3, <4>1, AppendProperties DEF Kept
      <4>3. Range(result[k]) = Range(result[k - 1]) \cup {entries[k]}
        BY <3>2, <3>3, <4>1, AppendRange DEF Kept
      <4>4. Kept(S, entries, good, result, k)
        BY ONLY <3>2, <3>4, <3>5, <4>2, <4>3, Zenon DEF Kept
      <4> QED  BY <2>2, <4>4
    <3>6. CASE entries[k] \notin good
      <4>1. result[k] = result[k - 1]
        BY <2>3, <2>5, <3>6 DEF Round
      <4>2. Kept(S, entries, good, result, k)
        BY ONLY <3>2, <3>4, <3>6, <4>1, Zenon DEF Kept
      <4> QED  BY <2>2, <4>2
    <3> QED  BY <3>5, <3>6
  <2> QED  BY <2>4, <2>5
<1> QED  BY <1>1, <1>2

\* A pass leaves the entries that are good, and no others.
LEMMA KeepIs ==
  ASSUME NEW S, NEW entries \in Seq(S), NEW good
  PROVE  /\ keep(entries, good) \in Seq(S)
         /\ Range(keep(entries, good)) = Range(entries) \cap good
<1>0. Len(entries) \in Nat /\ DOMAIN entries = 1..Len(entries)
  BY LenProperties
<1>1. PICK result : result = CHOOSE f : Rounds(entries, good, Len(entries), f)
  OBVIOUS
<1>2. Rounds(entries, good, Len(entries), result)
  BY <1>0, <1>1, RoundsExist
<1>3. keep(entries, good) = (CHOOSE f : Rounds(entries, good, Len(entries), f))[Len(entries)]
  BY Zenon DEF keep, Rounds, Round
<1>4. Kept(S, entries, good, result, Len(entries))
  BY <1>0, <1>2, RoundsKeep
<1>5. \A e : e \in Range(entries) <=> \E j \in 1..Len(entries) : e = entries[j]
  BY <1>0 DEF Range
<1> QED  BY <1>1, <1>3, <1>4, <1>5 DEF Kept

-----------------------------------------------------------------------------
(***************************************************************************)
(* The filters.                                                            *)
(***************************************************************************)
\* The two loops count as many pairs as there are labels asked for when each
\* of these is there, with its value.
LEMMA MatchesIs ==
  ASSUME NEW labels, IsFiniteSet(DOMAIN labels), NEW x
  PROVE  Cardinality(matches(labels, x)) = Cardinality(DOMAIN labels)
           <=> \A key \in DOMAIN labels :
                 key \in DOMAIN Labels[x] /\ labels[key] = Labels[x][key]
<1>1. PICK M : M = matches(labels, x)
  OBVIOUS
<1>2. PICK D : D = DOMAIN labels
  OBVIOUS
<1>3. \A pair \in M : /\ pair = <<pair[1], pair[1]>> /\ pair[1] \in D
                      /\ pair[1] \in DOMAIN Labels[x] /\ labels[pair[1]] = Labels[x][pair[1]]
  BY <1>1, <1>2 DEF matches
<1>4. \A key \in D : key \in DOMAIN Labels[x] /\ labels[key] = Labels[x][key] => <<key, key>> \in M
  BY <1>1, <1>2 DEF matches
<1>5. PICK key : key = [pair \in M |-> pair[1]]
  OBVIOUS
<1>6. key \in Injection(M, D)
  BY <1>3, <1>5 DEF Injection, IsInjective
<1>7. Cardinality(M) = Cardinality(D) <=> key \in Surjection(M, D)
  BY <1>2, <1>6, FS_Injection
<1>8. key \in Surjection(M, D) <=> \A k \in D : \E pair \in M : pair[1] = k
  BY <1>3, <1>5 DEF Surjection
<1>9. (\A k \in D : \E pair \in M : pair[1] = k)
        <=> \A k \in D : k \in DOMAIN Labels[x] /\ labels[k] = Labels[x][k]
  BY <1>3, <1>4
<1> QED  BY <1>1, <1>2, <1>7, <1>8, <1>9

\* A pass by a field leaves the entries with the value asked for, if any.
LEMMA ByFieldIs ==
  ASSUME NEW entries \in Seq(Entry), NEW field, NEW value
  PROVE  /\ byField(field, value, entries) \in Seq(Entry)
         /\ \A e : e \in Range(byField(field, value, entries))
                     <=> e \in Range(entries) /\ value \in {Nil, e[field]}
<1>1. PICK good : good = {e \in Range(entries) : e[field] = value}
  OBVIOUS
<1>2. /\ keep(entries, good) \in Seq(Entry)
      /\ Range(keep(entries, good)) = Range(entries) \cap good
  BY KeepIs
<1>3. byField(field, value, entries) = IF value = Nil THEN entries ELSE keep(entries, good)
  BY <1>1 DEF byField
<1> QED  BY <1>1, <1>2, <1>3

Labelled(labels, x) ==
  \A key \in DOMAIN labels : key \in DOMAIN Labels[x] /\ labels[key] = Labels[x][key]

\* A pass by labels leaves the entries that have all of them.
LEMMA ByLabelIs ==
  ASSUME NEW entries \in Seq(Entry), NEW labels, IsFiniteSet(DOMAIN labels)
  PROVE  /\ byLabel(labels, entries) \in Seq(Entry)
         /\ \A e : e \in Range(byLabel(labels, entries))
                     <=> e \in Range(entries) /\ Labelled(labels, e.id)
<1>1. PICK good : good = {e \in Range(entries) :
                            Cardinality(matches(labels, e.id)) = Cardinality(DOMAIN labels)}
  OBVIOUS
<1>2. /\ keep(entries, good) \in Seq(Entry)
      /\ Range(keep(entries, good)) = Range(entries) \cap good
  BY KeepIs
<1>3. byLabel(labels, entries) = IF labels = <<>> THEN entries ELSE keep(entries, good)
  BY <1>1 DEF byLabel
<1>4. \A e : e \in good <=> e \in Range(entries) /\ Labelled(labels, e.id)
  BY <1>1, MatchesIs DEF Labelled
<1>5. labels = <<>> => \A e : Labelled(labels, e.id)
  BY DEF Labelled
<1> QED  BY <1>2, <1>3, <1>4, <1>5

\* What a filter for containers leaves.
LEMMA FilterContainersIs ==
  ASSUME NEW f, IsFiniteSet(DOMAIN f.labels), NEW entries \in Seq(Entry)
  PROVE  /\ filterContainers(f, entries) \in Seq(Entry)
         /\ \A e : e \in Range(filterContainers(f, entries))
                     <=> e \in Range(entries) /\ Selects(f, e)
<1>1. PICK s1 : s1 = byField("pod", f.pod, entries)
  OBVIOUS
<1>2. s1 \in Seq(Entry) /\ \A e : e \in Range(s1) <=> e \in Range(entries) /\ f.pod \in {Nil, e.pod}
  BY <1>1, ByFieldIs
<1>3. PICK s2 : s2 = byLabel(f.labels, s1)
  OBVIOUS
<1>4. s2 \in Seq(Entry) /\ \A e : e \in Range(s2) <=> e \in Range(s1) /\ Labelled(f.labels, e.id)
  BY <1>2, <1>3, ByLabelIs
<1>5. PICK s3 : s3 = byField("state", f.state, s2)
  OBVIOUS
<1>6. s3 \in Seq(Entry) /\ \A e : e \in Range(s3) <=> e \in Range(s2) /\ f.state \in {Nil, e.state}
  BY <1>4, <1>5, ByFieldIs
<1>7. PICK s4 : s4 = byField("id", f.id, s3)
  OBVIOUS
<1>8. s4 \in Seq(Entry) /\ \A e : e \in Range(s4) <=> e \in Range(s3) /\ f.id \in {Nil, e.id}
  BY <1>6, <1>7, ByFieldIs
<1>9. filterContainers(f, entries) = s4
  BY <1>1, <1>3, <1>5, <1>7 DEF filterContainers
<1>10. \A e : Selects(f, e) <=> /\ f.pod \in {Nil, e.pod} /\ Labelled(f.labels, e.id)
                                /\ f.state \in {Nil, e.state} /\ f.id \in {Nil, e.id}
  BY Zenon DEF Selects, Labelled
<1> QED  BY ONLY <1>2, <1>4, <1>6, <1>8, <1>9, <1>10, Zenon

\* What a filter for sandboxes leaves; it has no field pod.
LEMMA FilterPodsIs ==
  ASSUME NEW f, IsFiniteSet(DOMAIN f.labels), f.pod = Nil, NEW entries \in Seq(Entry)
  PROVE  /\ filterPods(f, entries) \in Seq(Entry)
         /\ \A e : e \in Range(filterPods(f, entries))
                     <=> e \in Range(entries) /\ Selects(f, e)
<1>1. PICK s1 : s1 = byField("id", f.id, entries)
  OBVIOUS
<1>2. s1 \in Seq(Entry) /\ \A e : e \in Range(s1) <=> e \in Range(entries) /\ f.id \in {Nil, e.id}
  BY <1>1, ByFieldIs
<1>3. PICK s2 : s2 = byLabel(f.labels, s1)
  OBVIOUS
<1>4. s2 \in Seq(Entry) /\ \A e : e \in Range(s2) <=> e \in Range(s1) /\ Labelled(f.labels, e.id)
  BY <1>2, <1>3, ByLabelIs
<1>5. PICK s3 : s3 = byField("state", f.state, s2)
  OBVIOUS
<1>6. s3 \in Seq(Entry) /\ \A e : e \in Range(s3) <=> e \in Range(s2) /\ f.state \in {Nil, e.state}
  BY <1>4, <1>5, ByFieldIs
<1>7. filterPods(f, entries) = s3
  BY <1>1, <1>3, <1>5 DEF filterPods
<1>8. \A e : Selects(f, e) <=> /\ f.id \in {Nil, e.id} /\ Labelled(f.labels, e.id)
                               /\ f.state \in {Nil, e.state}
  BY Zenon DEF Selects, Labelled
<1> QED  BY ONLY <1>2, <1>4, <1>6, <1>7, <1>8, Zenon

\* The passes leave the entries that the filter of the list describes.
LEMMA SelectedIs ==
  ASSUME NEW op \in Lists, NEW f \in Filters(op), NEW entries \in Seq(Entry)
  PROVE  /\ selected(op, f, entries) \in Seq(Entry)
         /\ Range(selected(op, f, entries)) = {e \in Range(entries) : Selects(f, e)}
<1>1. IsFiniteSet(DOMAIN f.labels) /\ (op = "sandboxes" => f.pod = Nil)
  BY FiltersAssumption DEF Filters, Lists
<1>2. CASE op = "sandboxes"
  BY <1>1, <1>2, FilterPodsIs DEF selected
<1>3. CASE op # "sandboxes"
  BY <1>1, <1>3, FilterContainersIs DEF selected
<1> QED  BY <1>2, <1>3

-----------------------------------------------------------------------------
(***************************************************************************)
(* The query and the store.                                                *)
(***************************************************************************)
\* The filter of a list is one for its operation, the walk has looked at
\* everything when it closes, and what the handler has taken is of its kind.
QueryFits ==
  /\ query.pc \in {"range", "stats"} => query.op \in Lists
  /\ query.op \in Lists => query.filter \in Filters(query.op)
  /\ query.walk = "closed" => query.names = {}
  /\ query.pc = "range" => query.taken \in listedIds(query.op) \cup {Nil}

QueryInv == TypeOK /\ QueryTypeOK /\ QueryFits

\* The queries leave RuntimeService as it is.
LEMMA ServiceRuns == QSpec => Spec
<1>1. QInit => Init
  BY DEF QInit
<1>2. [QNext]_qvars => [Next]_vars
  BY DEF QNext, Meanwhile, QueryStep, qvars
<1> QED  BY <1>1, <1>2, PTL DEF QSpec, Spec

\* A record that is there has a state, and its container a pod.
LEMMA EntryIs ==
  ASSUME TypeOK, NEW x \in Cid \cup Pod, record(x) # Nil
  PROVE  /\ entry(x) \in Entry /\ entry(x).id = x
         /\ entry(x).state = "EXITED" => x \in Cid /\ containers[x] # Nil /\ containers[x].state = "EXITED"
<1>1. CASE x \in Cid
  <2>1. containers[x] \in Container
    BY <1>1 DEF TypeOK, record, getContainer
  <2> QED  BY <1>1, <2>1 DEF entry, record, getContainer, Entry, Container
<1>2. CASE x \notin Cid
  <2>1. x \in Pod /\ sandboxes[x] \in Sandbox
    BY <1>2 DEF TypeOK, record, getSandbox
  <2> QED  BY <1>2, <2>1 DEF entry, record, getSandbox, Entry, Sandbox
<1> QED  BY <1>1, <1>2

\* What is stored are ids.
LEMMA StoredIs == stored(Cid) \subseteq Cid /\ stored(Pod) \subseteq Pod
  BY DEF stored

\* The ids of a list of entries.
LEMMA IdsIs ==
  ASSUME NEW entries \in Seq(Entry)
  PROVE  /\ ids(entries) \in Seq(Cid \cup Pod)
         /\ Range(ids(entries)) = {e.id : e \in Range(entries)}
<1>1. Len(entries) \in Nat /\ DOMAIN entries = 1..Len(entries)
  BY LenProperties
<1>2. \A i \in 1..Len(entries) : entries[i].id \in Cid \cup Pod
  <2>1. \A i \in 1..Len(entries) : entries[i] \in Entry
    BY ElementOfSeq
  <2> QED  BY <2>1 DEF Entry
<1>3. ids(entries) = [i \in 1..Len(entries) |-> entries[i].id]
  BY <1>1 DEF ids
<1>4. ids(entries) \in Seq(Cid \cup Pod)
  BY <1>1, <1>2, <1>3
<1>5. DOMAIN ids(entries) = 1..Len(entries) /\ \A i \in 1..Len(entries) : ids(entries)[i] = entries[i].id
  BY <1>3
<1>6. Range(ids(entries)) = {e.id : e \in Range(entries)}
  BY <1>1, <1>5 DEF Range
<1> QED  BY <1>4, <1>6

\* The first of a list of entries is one of them, and the others are the rest.
LEMMA HeadIs ==
  ASSUME NEW entries \in Seq(Entry), entries # <<>>
  PROVE  /\ Head(entries) \in Entry /\ Tail(entries) \in Seq(Entry)
         /\ \A e : e \in Range(entries) <=> e = Head(entries) \/ e \in Range(Tail(entries))
<1>1. Len(entries) \in Nat \ {0} /\ DOMAIN entries = 1..Len(entries)
  BY LenProperties, EmptySeq
<1>2. /\ Head(entries) \in Entry /\ Tail(entries) \in Seq(Entry)
      /\ Head(entries) = entries[1] /\ Len(Tail(entries)) = Len(entries) - 1
      /\ \A i \in 1..Len(Tail(entries)) : Tail(entries)[i] = entries[i + 1]
  BY <1>1, HeadTailProperties, ElementOfSeq
<1>3. DOMAIN Tail(entries) = 1..(Len(entries) - 1)
  BY <1>2, LenProperties
<1>4. ASSUME NEW i \in 1..Len(entries) PROVE entries[i] = Head(entries) \/ entries[i] \in Range(Tail(entries))
  <2>1. CASE i = 1
    BY <1>2, <2>1
  <2>2. CASE i # 1
    <3>1. PICK j : j = i - 1
      OBVIOUS
    <3>2. j \in 1..(Len(entries) - 1) /\ entries[i] = Tail(entries)[j]
      BY <1>1, <1>2, <2>2, <3>1
    <3> QED  BY <1>3, <3>2 DEF Range
  <2> QED  BY <2>1, <2>2
<1>5. Head(entries) \in Range(entries)
  BY <1>1, <1>2 DEF Range
<1>6. ASSUME NEW j \in 1..(Len(entries) - 1) PROVE Tail(entries)[j] \in Range(entries)
  BY <1>1, <1>2 DEF Range
<1>7. Range(Tail(entries)) \subseteq Range(entries)
  BY <1>3, <1>6 DEF Range
<1> QED  BY <1>1, <1>2, <1>4, <1>5, <1>7 DEF Range

\* QueryTypeOK and QueryFits hold of a query that has not begun.
LEMMA QueryInit == QInit => QueryInv
<1> SUFFICES ASSUME QInit PROVE QueryInv  OBVIOUS
<1>1. TypeOK
  BY TypeInit DEF QInit, TypeInv
<1>2. <<>> \in Seq(Entry) /\ <<>> \in Seq(Cid \cup Pod)
  OBVIOUS
<1>3. QueryTypeOK
  BY <1>2 DEF QInit, QueryTypeOK, NoQuery, Query
<1>4. QueryFits
  BY DEF QInit, QueryFits, NoQuery, Lists
<1> QED  BY <1>1, <1>3, <1>4 DEF QueryInv

\* A list begins.
LEMMA ListFits ==
  ASSUME QueryInv, NEW op \in Lists, NEW f \in Filters(op), List(op, f)
  PROVE  (QueryTypeOK /\ QueryFits)'
<1>1. f \in ContainerFilters \cup SandboxFilters \cup StatsFilters
  BY DEF Filters, Lists
<1>2. <<>> \in Seq(Entry) /\ <<>> \in Seq(Cid \cup Pod)
  OBVIOUS
<1>3. PICK kept : kept = {x \in stored(listedIds(op)) : Selects(f, entry(x))}
  OBVIOUS
<1>4. kept \subseteq Cid \cup Pod
  BY <1>3 DEF stored, listedIds
<1>5. query' = [NoQuery EXCEPT !.op = op, !.pc = "range", !.filter = f,
                  !.walk = "container", !.names = stored(Cid), !.kept = kept]
  BY <1>3 DEF List
<1>6. QueryTypeOK'
  BY <1>1, <1>2, <1>4, <1>5, StoredIs DEF QueryTypeOK, NoQuery, Query
<1>7. QueryFits'
  BY <1>5 DEF QueryFits, NoQuery, listedIds
<1> QED  BY <1>6, <1>7

\* The walk goes on.
LEMMA WalkFits ==
  ASSUME QueryInv, \/ \E x \in Cid \cup Pod : WalkFile(x)
                   \/ WalkDirectory \/ RangeKey
  PROVE  (QueryTypeOK /\ QueryFits)'
<1> USE DEF QueryInv, QueryTypeOK, Query
<1>1. ASSUME NEW x \in Cid \cup Pod, WalkFile(x) PROVE (QueryTypeOK /\ QueryFits)'
  BY <1>1, ZenonT(60) DEF WalkFile, QueryFits, Filters, listedIds
<1>2. CASE WalkDirectory
  BY <1>2, StoredIs, ZenonT(60) DEF WalkDirectory, QueryFits, Filters, listedIds
<1>3. CASE RangeKey
  <2>1. PICK taken : taken = IF query.offered \in listedIds(query.op) THEN query.offered ELSE Nil
    OBVIOUS
  <2>2. query' = [query EXCEPT !.offered = Nil, !.taken = taken]
    BY <1>3, <2>1 DEF RangeKey
  <2>3. taken \in listedIds(query.op) \cup {Nil} /\ taken \in Cid \cup Pod \cup {Nil}
    BY <2>1
  <2> QED  BY <2>2, <2>3 DEF QueryFits
<1> QED  BY <1>1, <1>2, <1>3

\* The handler reads, selects and answers.
LEMMA ReadFits ==
  ASSUME QueryInv, ReadRecord \/ EndRange \/ Stats \/ Answer
  PROVE  (QueryTypeOK /\ QueryFits)'
<1> USE DEF QueryInv, QueryTypeOK, Query
<1>1. CASE ReadRecord
  <2>1. CASE record(query.taken) = Nil
    BY <1>1, <2>1 DEF ReadRecord, QueryFits, Filters, listedIds
  <2>2. CASE record(query.taken) # Nil
    <3>1. query.taken \in Cid \cup Pod
      BY <1>1 DEF ReadRecord
    <3>2. entry(query.taken) \in Entry
      BY <2>2, <3>1, EntryIs
    <3>3. PICK found : found = Append(query.found, entry(query.taken))
      OBVIOUS
    <3>4. found \in Seq(Entry)
      BY <3>2, <3>3, AppendProperties
    <3>5. query' = [query EXCEPT !.taken = Nil, !.found = found]
      BY <1>1, <2>2, <3>3 DEF ReadRecord
    <3> QED  BY <3>4, <3>5 DEF QueryFits, Filters, listedIds
  <2> QED  BY <2>1, <2>2
<1>2. CASE EndRange
  <2>1. PICK entries : entries = selected(query.op, query.filter, query.found)
    OBVIOUS
  <2>2. query.op \in Lists /\ query.filter \in Filters(query.op)
    BY <1>2 DEF EndRange, QueryFits
  <2>3. entries \in Seq(Entry)
    BY <2>1, <2>2, SelectedIs
  <2>4. ids(entries) \in Seq(Cid \cup Pod) /\ <<>> \in Seq(Entry)
    BY <2>3, IdsIs
  <2>5. query' = IF query.op = "stats"
                 THEN [query EXCEPT !.pc = "stats", !.found = entries]
                 ELSE [query EXCEPT !.pc = "ok", !.found = <<>>, !.answer = ids(entries)]
    BY <1>2, <2>1 DEF EndRange
  <2> QED  BY <2>2, <2>3, <2>4, <2>5 DEF QueryFits, Filters
<1>3. CASE Stats
  <2>1. CASE query.found = <<>>
    BY <1>3, <2>1 DEF Stats, QueryFits, Filters
  <2>2. CASE query.found # <<>>
    <3>1. PICK head : head = Head(query.found)
      OBVIOUS
    <3>2. PICK tail : tail = Tail(query.found)
      OBVIOUS
    <3>3. head \in Entry /\ tail \in Seq(Entry)
      BY <2>2, <3>1, <3>2, HeadIs
    <3>4. Append(query.answer, head.id) \in Seq(Cid \cup Pod)
      BY <3>3, AppendProperties DEF Entry
    <3>5. query' \in {[query EXCEPT !.found = tail],
                      [query EXCEPT !.found = tail, !.answer = Append(@, head.id)]}
      BY <1>3, <2>2, <3>1, <3>2 DEF Stats
    <3> QED  BY <1>3, <3>3, <3>4, <3>5, ZenonT(60) DEF Stats, QueryFits, Filters
  <2> QED  BY <2>1, <2>2
<1>4. CASE Answer
  <2>1. query' = NoQuery /\ <<>> \in Seq(Entry) /\ <<>> \in Seq(Cid \cup Pod)
    BY <1>4 DEF Answer
  <2> QED  BY <2>1 DEF NoQuery, QueryFits, Lists
<1> QED  BY <1>1, <1>2, <1>3, <1>4

\* A step of a query or of the service keeps the query well typed and fit.
LEMMA QueryInvStep == QueryInv /\ TypeOK' /\ [QNext]_qvars => QueryInv'
<1> SUFFICES ASSUME QueryInv, TypeOK', [QNext]_qvars PROVE (QueryTypeOK /\ QueryFits)'
  BY DEF QueryInv
<1>1. CASE Meanwhile
  <2>1. PICK kept : kept = {x \in query.kept : record(x)' # Nil /\ Selects(query.filter, entry(x)')}
    OBVIOUS
  <2>2. query' = [query EXCEPT !.kept = kept] /\ kept \subseteq query.kept
    BY <1>1, <2>1 DEF Meanwhile
  <2> QED  BY <2>2 DEF QueryInv, QueryTypeOK, Query, QueryFits, Filters, listedIds
<1>2. ASSUME NEW x, Status(x) PROVE (QueryTypeOK /\ QueryFits)'
  <2>1. <<>> \in Seq(Entry) /\ <<>> \in Seq(Cid \cup Pod)
    OBVIOUS
  <2>2. query' \in {[NoQuery EXCEPT !.op = "status", !.pc = "error"],
                    [NoQuery EXCEPT !.op = "status", !.pc = "ok"]}
    BY <1>2 DEF Status
  <2> QED  BY <2>1, <2>2 DEF QueryTypeOK, Query, NoQuery, QueryFits, Lists
<1>3. CASE QueryStep
  BY <1>2, <1>3, ListFits, WalkFits, ReadFits
     DEF QueryStep, ListStep, ContainerStatus, ContainerStats, PodSandboxStatus
<1>4. CASE UNCHANGED qvars
  BY <1>4 DEF QueryInv, QueryTypeOK, QueryFits, qvars
<1> QED  BY <1>1, <1>3, <1>4 DEF QNext

\* The store stays well typed under the queries, and so does the query.
LEMMA QueryCorrect == QSpec => []QueryInv
<1>1. TypeOK' /\ QueryInv /\ [QNext]_qvars => QueryInv'
  BY QueryInvStep
<1> QED  BY QueryInit, <1>1, ServiceRuns, TypeCorrect, PTL DEF QSpec

\* The query in flight holds values of its type, for any clients and filters.
THEOREM QueryTypeCorrect == QSpec => []QueryTypeOK
<1>1. QueryInv => QueryTypeOK
  BY DEF QueryInv
<1> QED  BY <1>1, QueryCorrect, PTL

\* However many passes a filter has, and whatever the names that the walk
\* came upon, they leave what the filter describes.
THEOREM SelectionCorrect == QSpec => []SelectionIsExact
<1>1. QueryInv => SelectionIsExact
  BY SelectedIs DEF QueryInv, QueryTypeOK, Query, QueryFits, SelectionIsExact
<1> QED  BY <1>1, QueryCorrect, PTL

-----------------------------------------------------------------------------
(***************************************************************************)
(* Completeness.                                                           *)
(***************************************************************************)
\* Where a name is until the list is answered: still ahead of the walk, between
\* the two goroutines, or read; and past the filters once they have run.
OnItsWay(x) ==
  /\ query.pc = "range" =>
       \/ query.walk = "container" /\ query.op = "sandboxes"
       \/ x \in query.names \cup {query.offered, query.taken}
       \/ \E e \in Range(query.found) : e.id = x /\ Selects(query.filter, e)
  /\ query.pc = "stats" =>
       x \in Range(query.answer) \/ \E e \in Range(query.found) : e.id = x
  /\ query.pc = "ok" => x \in Range(query.answer)

StaysSelected(x) ==
  x \in listedIds(query.op) /\ record(x) # Nil /\ Selects(query.filter, entry(x))

KeptInv ==
  query.op \in Lists =>
    \A x \in query.kept : StaysSelected(x) /\ (~query.cut => OnItsWay(x))

\* A query's own step leaves the records as they are.
LEMMA SameRecords ==
  ASSUME UNCHANGED vars, NEW x
  PROVE  record(x)' = record(x) /\ entry(x)' = entry(x)
  BY DEF vars, record, entry, getContainer, getSandbox

\* Such a step that goes on with the list has to keep its names on their way.
LEMMA GoesOn ==
  ASSUME KeptInv, UNCHANGED vars, query'.op = query.op, query'.filter = query.filter,
         query'.kept = query.kept, query.cut => query'.cut,
         \A x \in query.kept :
           query.op \in Lists /\ StaysSelected(x) /\ OnItsWay(x) /\ ~query'.cut => OnItsWay(x)'
  PROVE  KeptInv'
<1> SUFFICES ASSUME query'.op \in Lists, NEW x \in query'.kept
             PROVE  StaysSelected(x)' /\ (~query'.cut => OnItsWay(x)')
  BY DEF KeptInv
<1>1. StaysSelected(x) /\ (~query.cut => OnItsWay(x))
  BY DEF KeptInv
<1>2. StaysSelected(x)'
  BY <1>1, SameRecords DEF StaysSelected, listedIds
<1> QED  BY <1>1, <1>2

\* A list begins with every name ahead of the walk.
LEMMA ListKeeps ==
  ASSUME QueryInv, UNCHANGED vars, NEW op \in Lists, NEW f \in Filters(op), List(op, f)
  PROVE  KeptInv'
<1>1. PICK kept : kept = {x \in stored(listedIds(op)) : Selects(f, entry(x))}
  OBVIOUS
<1>2. query' = [NoQuery EXCEPT !.op = op, !.pc = "range", !.filter = f,
                  !.walk = "container", !.names = stored(Cid), !.kept = kept]
  BY <1>1 DEF List
<1>3. /\ query'.op = op /\ query'.pc = "range" /\ query'.filter = f
      /\ query'.walk = "container" /\ query'.names = stored(Cid) /\ query'.kept = kept
  BY <1>2 DEF NoQuery
<1>4. ASSUME NEW x \in kept PROVE StaysSelected(x)'
  <2>1. x \in listedIds(op) /\ record(x) # Nil /\ Selects(f, entry(x))
    BY <1>1 DEF stored
  <2> QED  BY <1>3, <2>1, SameRecords DEF StaysSelected, listedIds
<1>5. ASSUME NEW x \in kept PROVE OnItsWay(x)'
  <2>1. op # "sandboxes" => x \in stored(Cid)
    BY <1>1 DEF stored, listedIds
  <2> QED  BY <1>3, <2>1 DEF OnItsWay
<1> QED  BY <1>3, <1>4, <1>5 DEF KeptInv

\* The walk hands every name on, unless it gives up and says so in cut.
LEMMA WalkKeeps ==
  ASSUME QueryInv, KeptInv, UNCHANGED vars,
         \/ \E x \in Cid \cup Pod : WalkFile(x)
         \/ WalkDirectory \/ RangeKey
  PROVE  KeptInv'
<1> USE DEF QueryInv, QueryTypeOK, Query
<1>1. ASSUME NEW y \in Cid \cup Pod, WalkFile(y) PROVE KeptInv'
  <2>1. CASE record(y) = Nil
    <3>1. query' = [query EXCEPT !.walk = "closed", !.cut = TRUE, !.names = {}]
      BY <1>1, <2>1 DEF WalkFile
    <3> QED  BY <3>1, GoesOn
  <2>2. CASE record(y) # Nil
    <3>1. query' = [query EXCEPT !.offered = y, !.names = @ \ {y}] /\ query.offered = Nil
      BY <1>1, <2>2 DEF WalkFile
    <3>2. ASSUME NEW x \in query.kept, OnItsWay(x) PROVE OnItsWay(x)'
      <4>1. x # Nil
        BY NilAssumption
      <4> QED  BY <3>1, <3>2, <4>1 DEF OnItsWay
    <3> QED  BY <3>1, <3>2, GoesOn
  <2> QED  BY <2>1, <2>2
<1>2. CASE WalkDirectory
  <2>1. query.offered = Nil /\ query.names = {}
    BY <1>2 DEF WalkDirectory
  <2>2. CASE query.walk = "container"
    <3>1. query' = [query EXCEPT !.walk = "sandbox", !.names = stored(Pod)]
      BY <1>2, <2>2 DEF WalkDirectory
    <3>2. ASSUME NEW x \in query.kept, StaysSelected(x), OnItsWay(x) PROVE OnItsWay(x)'
      <4>1. query.op = "sandboxes" => x \in stored(Pod)
        BY <3>2 DEF StaysSelected, listedIds, stored
      <4> QED  BY <2>1, <3>1, <3>2, <4>1 DEF OnItsWay
    <3> QED  BY <3>1, <3>2, GoesOn
  <2>3. CASE query.walk # "container"
    <3>1. query' = [query EXCEPT !.walk = "closed"]
      BY <1>2, <2>3 DEF WalkDirectory
    <3>2. ASSUME NEW x \in query.kept, OnItsWay(x) PROVE OnItsWay(x)'
      BY <2>3, <3>1, <3>2 DEF OnItsWay
    <3> QED  BY <3>1, <3>2, GoesOn
  <2> QED  BY <2>2, <2>3
<1>3. CASE RangeKey
  <2>1. PICK taken : taken = IF query.offered \in listedIds(query.op) THEN query.offered ELSE Nil
    OBVIOUS
  <2>2. query' = [query EXCEPT !.offered = Nil, !.taken = taken] /\ query.taken = Nil
    BY <1>3, <2>1 DEF RangeKey
  <2>3. ASSUME NEW x \in query.kept, StaysSelected(x), OnItsWay(x) PROVE OnItsWay(x)'
    <3>1. x # Nil /\ (x = query.offered => x = taken)
      BY <2>1, <2>3, NilAssumption DEF StaysSelected
    <3> QED  BY <2>2, <2>3, <3>1 DEF OnItsWay
  <2> QED  BY <2>2, <2>3, GoesOn
<1> QED  BY <1>1, <1>2, <1>3

\* The handler reads every name that it takes, and selects every entry that
\* the filter describes.
LEMMA ReadKeeps ==
  ASSUME QueryInv, KeptInv, UNCHANGED vars, ReadRecord \/ EndRange \/ Stats \/ Answer
  PROVE  KeptInv'
<1> USE DEF QueryInv, QueryTypeOK, Query
<1>1. CASE ReadRecord
  <2>1. CASE record(query.taken) = Nil
    <3>1. query' = [query EXCEPT !.taken = Nil]
      BY <1>1, <2>1 DEF ReadRecord
    <3>2. ASSUME NEW x \in query.kept, StaysSelected(x), OnItsWay(x) PROVE OnItsWay(x)'
      <4>1. x # query.taken
        BY <2>1, <3>2 DEF StaysSelected
      <4> QED  BY <3>1, <3>2, <4>1 DEF OnItsWay
    <3> QED  BY <3>1, <3>2, GoesOn
  <2>2. CASE record(query.taken) # Nil
    <3>1. query.taken \in Cid \cup Pod /\ query.pc = "range"
      BY <1>1 DEF ReadRecord
    <3>2. PICK e : e = entry(query.taken)
      OBVIOUS
    <3>3. e \in Entry /\ e.id = query.taken
      BY <2>2, <3>1, <3>2, EntryIs
    <3>4. query' = [query EXCEPT !.taken = Nil, !.found = Append(@, e)]
      BY <1>1, <2>2, <3>2 DEF ReadRecord
    <3>5. Range(query'.found) = Range(query.found) \cup {e}
      BY <3>3, <3>4, AppendRange
    <3>6. ASSUME NEW x \in query.kept, StaysSelected(x), OnItsWay(x) PROVE OnItsWay(x)'
      <4>1. x = query.taken => Selects(query.filter, e)
        BY <3>2, <3>6 DEF StaysSelected
      <4>2. /\ query'.pc = "range" /\ query'.walk = query.walk /\ query'.op = query.op
            /\ query'.names = query.names /\ query'.offered = query.offered
            /\ query'.filter = query.filter
        BY <3>1, <3>4
      <4> QED  BY ONLY <3>1, <3>3, <3>5, <3>6, <4>1, <4>2 DEF OnItsWay
    <3>7. /\ query'.op = query.op /\ query'.filter = query.filter
          /\ query'.kept = query.kept /\ query'.cut = query.cut
      BY <3>4
    <3> QED  BY <3>6, <3>7, GoesOn
  <2> QED  BY <2>1, <2>2
<1>2. CASE EndRange
  <2>1. PICK entries : entries = selected(query.op, query.filter, query.found)
    OBVIOUS
  <2>2. /\ query.op \in Lists /\ query.filter \in Filters(query.op)
        /\ query.walk = "closed" /\ query.names = {} /\ query.offered = Nil
        /\ query.taken = Nil /\ query.pc = "range"
    BY <1>2 DEF EndRange, QueryFits
  <2>3. entries \in Seq(Entry) /\ Range(entries) = {e \in Range(query.found) : Selects(query.filter, e)}
    BY <2>1, <2>2, SelectedIs
  <2>4. Range(ids(entries)) = {e.id : e \in Range(entries)}
    BY <2>3, IdsIs
  <2>5. query' = IF query.op = "stats"
                 THEN [query EXCEPT !.pc = "stats", !.found = entries]
                 ELSE [query EXCEPT !.pc = "ok", !.found = <<>>, !.answer = ids(entries)]
    BY <1>2, <2>1 DEF EndRange
  <2>6. ASSUME NEW x \in query.kept, OnItsWay(x) PROVE OnItsWay(x)'
    <3>1. x # Nil
      BY NilAssumption
    <3>2. PICK e \in Range(query.found) : e.id = x /\ Selects(query.filter, e)
      BY <2>2, <2>6, <3>1 DEF OnItsWay
    <3>3. e \in Range(entries) /\ x \in Range(ids(entries))
      BY <2>3, <2>4, <3>2
    <3> QED  BY <2>5, <3>2, <3>3 DEF OnItsWay
  <2>7. /\ query'.op = query.op /\ query'.filter = query.filter
        /\ query'.kept = query.kept /\ query'.cut = query.cut
    BY <2>5
  <2> QED  BY <2>6, <2>7, GoesOn
<1>3. CASE Stats
  <2>0. query.pc = "stats"
    BY <1>3 DEF Stats
  <2>1. CASE query.found = <<>>
    <3>1. query' = [query EXCEPT !.pc = "ok"] /\ Range(query.found) = {}
      BY <1>3, <2>1 DEF Stats, Range
    <3>2. ASSUME NEW x \in query.kept, OnItsWay(x) PROVE OnItsWay(x)'
      BY <2>0, <3>1, <3>2 DEF OnItsWay
    <3> QED  BY <3>1, <3>2, GoesOn
  <2>2. CASE query.found # <<>>
    <3>1. PICK head : head = Head(query.found)
      OBVIOUS
    <3>2. PICK tail : tail = Tail(query.found)
      OBVIOUS
    <3>3. /\ head \in Entry
          /\ \A e : e \in Range(query.found) <=> e = head \/ e \in Range(tail)
      BY <2>2, <3>1, <3>2, HeadIs
    <3>4. query' = IF record(head.id) = Nil
                   THEN [query EXCEPT !.found = tail]
                   ELSE [query EXCEPT !.found = tail, !.answer = Append(@, head.id)]
      BY <1>3, <2>2, <3>1, <3>2 DEF Stats
    <3>5. Range(Append(query.answer, head.id)) = Range(query.answer) \cup {head.id}
      BY <3>3, AppendRange DEF Entry
    <3>6. ASSUME NEW x \in query.kept, StaysSelected(x), OnItsWay(x) PROVE OnItsWay(x)'
      <4>1. record(head.id) = Nil => x # head.id
        BY <3>6 DEF StaysSelected
      <4>2. /\ query'.pc = "stats" /\ query'.found = tail
            /\ query'.answer = IF record(head.id) = Nil THEN query.answer
                               ELSE Append(query.answer, head.id)
        BY <2>0, <3>4
      <4>3. x \in Range(query.answer) \/ \E e \in Range(query.found) : e.id = x
        BY <2>0, <3>6 DEF OnItsWay
      <4>4. x \in Range(query'.answer) \/ \E e \in Range(query'.found) : e.id = x
        BY <3>3, <3>5, <4>1, <4>2, <4>3
      <4> QED  BY <4>2, <4>4 DEF OnItsWay
    <3>7. /\ query'.op = query.op /\ query'.filter = query.filter
          /\ query'.kept = query.kept /\ query'.cut = query.cut
      BY <3>4
    <3> QED  BY <3>6, <3>7, GoesOn
  <2> QED  BY <2>1, <2>2
<1>4. CASE Answer
  BY <1>4 DEF Answer, NoQuery, KeptInv, Lists
<1> QED  BY <1>1, <1>2, <1>3, <1>4

\* Whoever takes a step, what is kept stays on its way to the answer.
LEMMA KeptStep == QueryInv /\ KeptInv /\ [QNext]_qvars => KeptInv'
<1> SUFFICES ASSUME QueryInv, KeptInv, [QNext]_qvars PROVE KeptInv'  OBVIOUS
<1>1. CASE Meanwhile
  <2>1. PICK kept : kept = {x \in query.kept : record(x)' # Nil /\ Selects(query.filter, entry(x)')}
    OBVIOUS
  <2>2. query' = [query EXCEPT !.kept = kept]
    BY <1>1, <2>1 DEF Meanwhile
  <2>3. /\ query'.op = query.op /\ query'.filter = query.filter /\ query'.kept = kept
        /\ query'.cut = query.cut /\ query'.pc = query.pc /\ query'.walk = query.walk
        /\ query'.names = query.names /\ query'.offered = query.offered
        /\ query'.taken = query.taken /\ query'.found = query.found
        /\ query'.answer = query.answer
    BY <2>2 DEF QueryInv, QueryTypeOK, Query
  <2>4. ASSUME query.op \in Lists, NEW x \in kept
        PROVE  StaysSelected(x)' /\ (~query'.cut => OnItsWay(x)')
    <3>1. x \in query.kept /\ record(x)' # Nil /\ Selects(query.filter, entry(x)')
      BY <2>1
    <3>2. StaysSelected(x) /\ (~query.cut => OnItsWay(x))
      BY <2>4, <3>1 DEF KeptInv
    <3>3. StaysSelected(x)'
      BY <2>3, <3>1, <3>2 DEF StaysSelected, listedIds
    <3>4. OnItsWay(x) => OnItsWay(x)'
      BY <2>3 DEF OnItsWay
    <3> QED  BY <2>3, <3>2, <3>3, <3>4
  <2> QED  BY <2>3, <2>4 DEF KeptInv
<1>2. ASSUME NEW x, Status(x) PROVE KeptInv'
  BY <1>2 DEF Status, NoQuery, KeptInv, Lists
<1>3. CASE QueryStep
  BY <1>2, <1>3, ListKeeps, WalkKeeps, ReadKeeps
     DEF QueryStep, ListStep, ContainerStatus, ContainerStats, PodSandboxStatus
<1>4. CASE UNCHANGED qvars
  <2>1. UNCHANGED vars /\ query' = query
    BY <1>4 DEF qvars
  <2>2. \A x : OnItsWay(x) => OnItsWay(x)'
    BY <2>1 DEF OnItsWay
  <2> QED  BY <2>1, <2>2, GoesOn
<1> QED  BY <1>1, <1>3, <1>4 DEF QNext

\* No interleaving of a list with creations, exits and removals loses a
\* container or pod that was there and selected from its beginning to its end,
\* unless a removal cut the walk short.
THEOREM ListCorrect == QSpec => []ListIsComplete
<1>1. QInit => KeptInv
  BY DEF QInit, NoQuery, KeptInv, Lists
<1>2. KeptInv => ListIsComplete
  BY DEF KeptInv, OnItsWay, ListIsComplete
<1> QED  BY <1>1, <1>2, KeptStep, QueryCorrect, PTL DEF QSpec

-----------------------------------------------------------------------------
(***************************************************************************)
(* Answers that show an exit.                                              *)
(***************************************************************************)
\* What an answer shows as EXITED had a process that is gone.
ShownExited ==
  \A e \in Range(query.found) : e.state = "EXITED" =>
    e.id \in Cid /\ \E p \in Pid : procs[p].cid = e.id /\ Gone(p)

\* An entry that was shown before stays true, as a process that is gone stays so.
LEMMA ShownStays ==
  ASSUME TypeInv, [Next]_vars, ShownExited, NEW e \in Range(query.found), e.state = "EXITED"
  PROVE  e.id \in Cid /\ \E p \in Pid : procs'[p].cid = e.id /\ Gone(p)'
<1>1. PICK p \in Pid : e.id \in Cid /\ procs[p].cid = e.id /\ Gone(p)
  BY DEF ShownExited
<1>2. procs'[p] = procs[p]
  BY <1>1, GoneStays
<1> QED  BY <1>1, <1>2 DEF Gone

\* An entry is shown EXITED when the record says so, which is the truth then.
LEMMA ReadIsTrue ==
  ASSUME TypeInv, ExitedIsReaped, RecordsOwn, NEW x \in Cid \cup Pod, record(x) # Nil,
         entry(x).state = "EXITED"
  PROVE  x \in Cid /\ \E p \in Pid : procs[p].cid = x /\ Gone(p)
<1>1. x \in Cid /\ containers[x] # Nil /\ containers[x].state = "EXITED"
  BY EntryIs DEF TypeInv
<1>2. containers[x].pid \in Pid /\ Gone(containers[x].pid)
  BY <1>1 DEF ExitedIsReaped, Gone
<1> QED  BY <1>1, <1>2 DEF RecordsOwn

\* The entries after a step of a query are those before, or one read in it.
LEMMA FoundMoves ==
  ASSUME QueryInv, [QNext]_qvars, NEW e \in Range(query'.found)
  PROVE  \/ e \in Range(query.found)
         \/ \E x \in Cid \cup Pod : record(x) # Nil /\ e = entry(x) /\ UNCHANGED vars
<1> USE DEF QueryInv, QueryTypeOK, Query
<1>0. Range(<<>>) = {}
  BY DEF Range
<1>1. CASE query'.found = query.found
  BY <1>1
<1>2. CASE query'.found = <<>>
  BY <1>0, <1>2
<1>3. CASE ReadRecord /\ UNCHANGED vars
  <2>1. CASE record(query.taken) = Nil
    BY <1>3, <2>1 DEF ReadRecord
  <2>2. CASE record(query.taken) # Nil
    <3>1. query.taken \in Cid \cup Pod
      BY <1>3 DEF ReadRecord
    <3>2. entry(query.taken) \in Entry /\ query'.found = Append(query.found, entry(query.taken))
      BY <1>3, <2>2, <3>1, EntryIs DEF ReadRecord
    <3> QED  BY <1>3, <2>2, <3>1, <3>2, AppendRange
  <2> QED  BY <2>1, <2>2
<1>4. CASE EndRange
  <2>1. query.op \in Lists /\ query.filter \in Filters(query.op)
    BY <1>4 DEF EndRange, QueryFits
  <2>2. Range(selected(query.op, query.filter, query.found)) \subseteq Range(query.found)
    BY <2>1, SelectedIs
  <2>3. query'.found \in {<<>>, selected(query.op, query.filter, query.found)}
    BY <1>4 DEF EndRange
  <2> QED  BY <1>0, <2>2, <2>3
<1>5. CASE Stats
  <2>1. CASE query.found = <<>>
    BY <1>1, <1>5, <2>1 DEF Stats
  <2>2. CASE query.found # <<>>
    <3>1. query'.found = Tail(query.found)
      BY <1>5, <2>2 DEF Stats
    <3> QED  BY <2>2, <3>1, HeadIs
  <2> QED  BY <2>1, <2>2
<1>6. ASSUME NEW x \in Cid \cup Pod, WalkFile(x) PROVE query'.found = query.found
  BY <1>6 DEF WalkFile
<1>7. WalkDirectory \/ RangeKey => query'.found = query.found
  BY DEF WalkDirectory, RangeKey
<1>8. ASSUME NEW op, NEW f, List(op, f) PROVE query'.found = <<>>
  <2>1. PICK k : k = {x \in stored(listedIds(op)) : Selects(f, entry(x))}
    OBVIOUS
  <2>2. query' = [NoQuery EXCEPT !.op = op, !.pc = "range", !.filter = f,
                    !.walk = "container", !.names = stored(Cid), !.kept = k]
    BY <1>8, <2>1 DEF List
  <2> QED  BY <2>2 DEF NoQuery
<1>11. ASSUME NEW x, Status(x) PROVE query'.found = <<>>
  BY <1>11 DEF Status, NoQuery
<1>12. Answer => query'.found = <<>>
  BY DEF Answer, NoQuery
<1>9. Meanwhile \/ UNCHANGED qvars => query'.found = query.found
  BY DEF Meanwhile, qvars
<1> HIDE DEF QueryInv, QueryTypeOK, Query
<1>10. CASE QueryStep
  BY <1>1, <1>2, <1>3, <1>4, <1>5, <1>6, <1>7, <1>8, <1>10, <1>11, <1>12
     DEF QueryStep, ListStep, ContainerStatus, ContainerStats, PodSandboxStatus
<1> QED  BY <1>1, <1>9, <1>10 DEF QNext

TruthInv == TypeInv /\ TrackersReaped /\ RecordsOwn /\ ExitedIsReaped

\* What is shown EXITED stays so, and what is read is true.
LEMMA ShownStep == TruthInv /\ QueryInv /\ ShownExited /\ [QNext]_qvars => ShownExited'
<1> SUFFICES ASSUME TruthInv, QueryInv, ShownExited, [QNext]_qvars,
                    NEW e \in Range(query'.found), e.state = "EXITED"
             PROVE  e.id \in Cid /\ \E p \in Pid : procs'[p].cid = e.id /\ Gone(p)'
  BY DEF ShownExited
<1>1. [Next]_vars
  BY DEF QNext, Meanwhile, QueryStep, qvars
<1>2. CASE e \in Range(query.found)
  BY <1>1, <1>2, ShownStays DEF TruthInv
<1>3. ASSUME NEW x \in Cid \cup Pod, record(x) # Nil, e = entry(x), UNCHANGED vars
      PROVE  e.id \in Cid /\ \E p \in Pid : procs'[p].cid = e.id /\ Gone(p)'
  <2>1. e.id = x
    BY <1>3 DEF entry
  <2>2. x \in Cid /\ \E p \in Pid : procs[p].cid = x /\ Gone(p)
    BY <1>3, ReadIsTrue DEF TruthInv
  <2> QED  BY <1>3, <2>1, <2>2 DEF vars, Gone
<1> QED  BY <1>2, <1>3, FoundMoves

\* An answer that shows a container EXITED never becomes false, whatever
\* requests race with it, if no client starts a container twice.
THEOREM ExitedStaysCorrect ==
  ASSUME "again" \notin Faults
  PROVE  QSpec => []ExitedStaysTrue
<1>1. Init => TypeInv /\ TrackersReaped /\ RecordsOwn /\ SpawnedOnce
  <2>1. Init => TrackersReaped /\ RecordsOwn
    BY DEF Init, TrackersReaped, RecordsOwn, Untracked
  <2> QED  BY <2>1, SpawnedOnceInit, TypeInit
<1>2. /\ TypeInv /\ TrackersReaped /\ RecordsOwn /\ SpawnedOnce /\ [Next]_vars
      => (TypeInv /\ TrackersReaped /\ RecordsOwn /\ SpawnedOnce)'
  BY TypeStep, TrackersStep, RecordsOwnStep, SpawnedOnceStep
<1>3. Spec => [](TruthInv /\ SpawnedOnce)
  BY <1>1, <1>2, ExitedCorrect, PTL DEF Spec, TruthInv
<1>4. QInit => ShownExited
  BY DEF QInit, NoQuery, ShownExited, Range
<1>5. TruthInv /\ SpawnedOnce /\ ShownExited => ExitedStaysTrue
  <2> SUFFICES ASSUME TruthInv, SpawnedOnce, ShownExited,
                      NEW e \in Range(query.found), e.state = "EXITED",
                      NEW p \in Pid, procs[p].cid = e.id
               PROVE  Gone(p)
    BY DEF ExitedStaysTrue, Gone
  <2>1. PICK q \in Pid : e.id \in Cid /\ procs[q].cid = e.id /\ Gone(q)
    BY DEF ShownExited
  <2>2. procs[p].main # "unborn" /\ procs[q].main # "unborn"
    BY <2>1, NilAssumption DEF SpawnedOnce, UnbornIsNobodys
  <2> QED  BY <2>1, <2>2 DEF SpawnedOnce, OneSpawn
<1> QED  BY <1>3, <1>4, <1>5, ShownStep, QueryCorrect, ServiceRuns, PTL DEF QSpec
=============================================================================

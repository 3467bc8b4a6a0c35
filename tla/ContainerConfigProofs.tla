------------------------ MODULE ContainerConfigProofs ------------------------
(***************************************************************************)
(* Proofs about ContainerConfig: the path rules, what a path leads to, and *)
(* the properties of the mounts and of the environment, for every file     *)
(* system, every list of configurations and paths of any length.           *)
(***************************************************************************)
EXTENDS ContainerConfig, SequenceTheorems, FiniteSetTheorems, TLAPS

-----------------------------------------------------------------------------
(***************************************************************************)
(* Paths.                                                                  *)
(***************************************************************************)
Names == UNION {Range(p) : p \in Path}

\* A path is a sequence of names, and not empty.
LEMMA PathIs ==
  ASSUME NEW p \in Path
  PROVE  p \in Seq(Names) /\ Len(p) \in Nat /\ Len(p) > 0 /\ DOMAIN p = 1..Len(p)
<1>1. p \in Seq(Names)
  BY PathAssumption DEF Names
<1>2. Len(p) \in Nat /\ DOMAIN p = 1..Len(p)
  BY <1>1
<1>3. Len(p) # 0
  BY <1>1, PathAssumption, EmptySeq
<1> QED  BY <1>1, <1>2, <1>3

\* A path that is inside one that is inside a third is inside the third.
LEMMA InsideTrans ==
  ASSUME NEW p \in Seq(Names), NEW q \in Seq(Names), NEW t \in Seq(Names),
         isInsidePath(p, q), isInsidePath(q, t)
  PROVE  isInsidePath(p, t)
<1>1. /\ Len(p) \in Nat /\ Len(q) \in Nat /\ Len(t) \in Nat
      /\ DOMAIN q = 1..Len(q) /\ DOMAIN t = 1..Len(t)
  BY LenProperties
<1>2. Len(t) <= Len(q) /\ Len(q) <= Len(p)
  BY DEF isInsidePath
<1>3. ASSUME NEW i \in DOMAIN t PROVE p[i] = t[i]
  <2>1. i \in DOMAIN q
    BY <1>1, <1>2, <1>3
  <2> QED  BY <1>3, <2>1 DEF isInsidePath
<1> QED  BY <1>1, <1>2, <1>3 DEF isInsidePath

\* Of two paths above one, one is inside the other.
LEMMA InsideBoth ==
  ASSUME NEW p \in Seq(Names), NEW q \in Seq(Names), NEW t \in Seq(Names),
         isInsidePath(p, q), isInsidePath(p, t)
  PROVE  isInsidePath(q, t) \/ isInsidePath(t, q)
<1>1. /\ Len(p) \in Nat /\ Len(q) \in Nat /\ Len(t) \in Nat
      /\ DOMAIN q = 1..Len(q) /\ DOMAIN t = 1..Len(t)
  BY LenProperties
<1>2. (\A i \in DOMAIN q : p[i] = q[i]) /\ (\A i \in DOMAIN t : p[i] = t[i])
  BY DEF isInsidePath
<1>3. CASE Len(t) <= Len(q)
  BY <1>1, <1>2, <1>3 DEF isInsidePath
<1>4. CASE Len(q) <= Len(t)
  BY <1>1, <1>2, <1>4 DEF isInsidePath
<1> QED  BY <1>1, <1>3, <1>4

\* What is above a path is another path, and the path is inside it.
LEMMA PrefixIs ==
  ASSUME NEW p \in Path, NEW q \in properPrefixes(p)
  PROVE  q \in Path /\ isInsidePath(p, q) /\ Len(q) < Len(p) /\ q # p
<1>1. q \in Path
  BY PathAssumption
<1>2. PICK n \in 1..(Len(p) - 1) : q = SubSeq(p, 1, n)
  BY DEF properPrefixes
<1>3. Len(p) \in Nat /\ p \in Seq(Names) /\ DOMAIN p = 1..Len(p)
  BY PathIs
<1>4. \A i \in 1..n : p[i] \in Names
  BY <1>3, ElementOfSeq
<1>5. Len(q) = n /\ \A i \in 1..n : q[i] = p[i]
  BY <1>2, <1>3, <1>4, SubSeqProperties
<1>6. DOMAIN q = 1..n
  BY <1>1, <1>5, PathIs
<1>7. isInsidePath(p, q)
  BY <1>2, <1>3, <1>5, <1>6 DEF isInsidePath
<1>8. Len(q) < Len(p)
  BY <1>2, <1>3, <1>5
<1> QED  BY <1>1, <1>3, <1>7, <1>8

\* What is left of a path after its first names.
LEMMA SuffixIs ==
  ASSUME NEW p \in Path, NEW n \in 1..(Len(p) + 1), NEW rest, rest = SubSeq(p, n, Len(p))
  PROVE  /\ rest \in Seq(Names) /\ Len(rest) \in Nat /\ Len(rest) = Len(p) - n + 1
         /\ \A i \in 1..(Len(p) - n + 1) : rest[i] = p[n + i - 1]
<1>1. PICK k : k = Len(p)
  OBVIOUS
<1>2. p \in Seq(Names) /\ k \in Nat /\ n \in 1..(k + 1)
  BY <1>1, PathIs
<1>3. \A i \in n..k : p[i] \in Names
  BY <1>1, <1>2, ElementOfSeq
<1>4. n \in Int /\ k \in Int
  BY <1>2
<1>5. /\ SubSeq(p, n, k) \in Seq(Names)
      /\ Len(SubSeq(p, n, k)) = IF n <= k THEN k - n + 1 ELSE 0
      /\ \A i \in 1..(k - n + 1) : SubSeq(p, n, k)[i] = p[n + i - 1]
  BY ONLY <1>3, <1>4, SubSeqProperties
<1> QED  BY <1>1, <1>2, <1>5

\* A path is inside another one if and only if it is that or below it.
LEMMA BelowIs ==
  ASSUME NEW p \in Path, NEW t \in Path
  PROVE  isInsidePath(p, t) <=> \E n \in 1..(Len(p) + 1) : p = t \o SubSeq(p, n, Len(p))
<1>1. /\ p \in Seq(Names) /\ Len(p) \in Nat /\ DOMAIN p = 1..Len(p)
      /\ t \in Seq(Names) /\ Len(t) \in Nat /\ DOMAIN t = 1..Len(t)
  BY PathIs
<1>3. ASSUME NEW n \in 1..(Len(p) + 1), p = t \o SubSeq(p, n, Len(p))
      PROVE  isInsidePath(p, t)
  <2>1. PICK rest : rest = SubSeq(p, n, Len(p))
    OBVIOUS
  <2>2. rest \in Seq(Names) /\ Len(rest) \in Nat
    BY <2>1, SuffixIs
  <2>3. Len(t \o rest) = Len(t) + Len(rest) /\ \A i \in 1..Len(t) : (t \o rest)[i] = t[i]
    BY <1>1, <2>2, ConcatProperties
  <2> QED  BY <1>1, <1>3, <2>1, <2>2, <2>3 DEF isInsidePath
<1>4. ASSUME isInsidePath(p, t)
      PROVE  \E n \in 1..(Len(p) + 1) : p = t \o SubSeq(p, n, Len(p))
  <2>1. PICK n : n = Len(t) + 1
    OBVIOUS
  <2>2. n \in 1..(Len(p) + 1)
    BY <1>1, <1>4, <2>1 DEF isInsidePath
  <2>3. PICK rest : rest = SubSeq(p, n, Len(p))
    OBVIOUS
  <2>4. /\ rest \in Seq(Names) /\ Len(rest) = Len(p) - n + 1
        /\ \A i \in 1..(Len(p) - n + 1) : rest[i] = p[n + i - 1]
    BY <2>2, <2>3, SuffixIs
  <2>5. \A i \in 1..Len(t) : p[i] = t[i]
    BY <1>1, <1>4 DEF isInsidePath
  <2>6. /\ t \o rest \in Seq(Names) /\ Len(t \o rest) = Len(t) + Len(rest)
        /\ \A i \in 1..(Len(t) + Len(rest)) :
             (t \o rest)[i] = IF i <= Len(t) THEN t[i] ELSE rest[i - Len(t)]
    BY <1>1, <2>4, ConcatProperties
  <2>7. Len(p) = Len(t) + Len(rest)
    BY <1>1, <2>1, <2>4
  <2>8. ASSUME NEW i \in 1..Len(p) PROVE p[i] = (t \o rest)[i]
    <3>1. CASE i <= Len(t)
      BY <1>1, <2>5, <2>6, <2>7, <3>1
    <3>2. CASE i > Len(t)
      <4>1. PICK k : k = i - Len(t)
        OBVIOUS
      <4>2. k \in 1..(Len(p) - n + 1) /\ n + k - 1 = i
        BY <1>1, <2>1, <3>2, <4>1
      <4>3. (t \o rest)[i] = rest[k]
        BY <1>1, <2>6, <2>7, <3>2, <4>1
      <4> QED  BY <2>4, <4>2, <4>3
    <3>3. i <= Len(t) \/ i > Len(t)
      BY <1>1
    <3> QED  BY <3>1, <3>2, <3>3
  <2>9. p = t \o rest
    BY <1>1, <2>6, <2>7, <2>8, SeqEqual
  <2> QED  BY <2>2, <2>3, <2>9
<1> QED  BY <1>3, <1>4

\* The paths no mount may be at are those isPathAllowed refuses.
LEMMA DisallowedIs ==
  ASSUME NEW p \in Path
  PROVE  p \in Disallowed <=> ~isPathAllowed(p)
<1>1. \A t \in AllowList \cup DisallowList :
        isInsidePath(p, t) <=> \E n \in 1..(Len(p) + 1) : p = t \o SubSeq(p, n, Len(p))
  BY BelowIs, ListsAssumption
<1>2. p \in Below(AllowList) <=> \E t \in AllowList : isInsidePath(p, t)
  BY <1>1 DEF Below
<1>3. p \in Below(DisallowList) <=> \E t \in DisallowList : isInsidePath(p, t)
  BY <1>1 DEF Below
<1> QED  BY <1>2, <1>3 DEF Disallowed, isPathAllowed

\* What is above a path and not all of it is one of its prefixes.
LEMMA PrefixFrom ==
  ASSUME NEW p \in Path, NEW q \in Path, isInsidePath(p, q), Len(q) < Len(p)
  PROVE  q \in properPrefixes(p)
<1>1. /\ p \in Seq(Names) /\ Len(p) \in Nat
      /\ q \in Seq(Names) /\ Len(q) \in Nat /\ Len(q) > 0 /\ DOMAIN q = 1..Len(q)
  BY PathIs
<1>2. PICK n : n = Len(q)
  OBVIOUS
<1>3. PICK t : t = SubSeq(p, 1, n)
  OBVIOUS
<1>4. \A i \in 1..n : p[i] \in Names
  BY <1>1, <1>2, ElementOfSeq
<1>5. t \in Seq(Names) /\ Len(t) = n /\ \A i \in 1..n : t[i] = p[i]
  BY <1>1, <1>2, <1>3, <1>4, SubSeqProperties
<1>6. q = t
  BY <1>1, <1>2, <1>5, SeqEqual DEF isInsidePath
<1>7. n \in 1..(Len(p) - 1)
  BY <1>1, <1>2
<1> QED  BY <1>3, <1>6, <1>7 DEF properPrefixes

\* What a path below a symlink leads to is in the volume.
LEMMA ThroughIs ==
  ASSUME NEW path \in Path, NEW q \in properPrefixes(path), NEW host \in Path,
         NEW t, t = through(path, q, host)
  PROVE  t \in Seq(Names) /\ isInsidePath(t, host)
<1>1. /\ path \in Seq(Names) /\ Len(path) \in Nat
      /\ host \in Seq(Names) /\ Len(host) \in Nat /\ DOMAIN host = 1..Len(host)
  BY PathIs
<1>2. q \in Path /\ Len(q) < Len(path) /\ Len(q) \in Nat
  BY PrefixIs, PathIs
<1>3. PICK rest : rest = SubSeq(path, Len(q) + 1, Len(path))
  OBVIOUS
<1>4. rest \in Seq(Names) /\ Len(rest) \in Nat
  <2>1. PICK n : n = Len(q) + 1
    OBVIOUS
  <2>2. n \in 1..(Len(path) + 1)
    BY <1>1, <1>2, <2>1
  <2> QED  BY <1>3, <2>1, <2>2, SuffixIs
<1>5. t = host \o rest
  BY <1>3 DEF through
<1>6. /\ t \in Seq(Names) /\ Len(t) = Len(host) + Len(rest)
      /\ \A i \in 1..Len(host) : t[i] = host[i]
  BY <1>1, <1>4, <1>5, ConcatProperties
<1> QED  BY <1>1, <1>4, <1>6 DEF isInsidePath

-----------------------------------------------------------------------------
(***************************************************************************)
(* Mounts and volumes.                                                     *)
(***************************************************************************)
\* A mount of a configuration leads from one path to another.
LEMMA MountIs ==
  ASSUME NEW c \in Configs
  PROVE  /\ c.mounts \in Seq([host: Path, path: Path]) /\ Len(c.mounts) \in Nat
         /\ DOMAIN c.mounts = 1..Len(c.mounts)
         /\ \A i \in 1..Len(c.mounts) :
              /\ c.mounts[i] \in [host: Path, path: Path]
              /\ ~passedOver(c.mounts[i]) => c.mounts[i] \in Linking
<1>1. c.mounts \in Seq([host: Path, path: Path])
  BY ConfigsAssumption
<1>2. Len(c.mounts) \in Nat /\ DOMAIN c.mounts = 1..Len(c.mounts)
  BY <1>1, LenProperties
<1>3. ASSUME NEW i \in 1..Len(c.mounts)
      PROVE  /\ c.mounts[i] \in [host: Path, path: Path]
             /\ ~passedOver(c.mounts[i]) => c.mounts[i] \in Linking
  <2>1. c.mounts[i] \in [host: Path, path: Path]
    BY <1>1, <1>3, ElementOfSeq
  <2>2. c.mounts[i] \in Range(c.mounts)
    BY <1>2, <1>3 DEF Range
  <2> QED  BY <2>1, <2>2 DEF Linking
<1> QED  BY <1>1, <1>2, <1>3

\* A mount that makes a symlink is at a path where one is allowed.
LEMMA LinkingIs ==
  ASSUME NEW m \in Linking
  PROVE  m \in [host: Path, path: Path] /\ m.host # m.path /\ isPathAllowed(m.path)
<1>1. PICK c \in Configs : m \in Range(c.mounts)
  BY DEF Linking
<1>2. PICK i \in 1..Len(c.mounts) : m = c.mounts[i]
  BY <1>1, MountIs DEF Range
<1>3. m \in [host: Path, path: Path]
  BY <1>2, MountIs
<1> QED  BY <1>3 DEF Linking, passedOver

\* Nothing in a volume is at a path that is mounted, or above it.
LEMMA VolumeIsApart ==
  ASSUME NEW m \in Linking, NEW o \in Linking, NEW t \in Seq(Names), isInsidePath(t, o.host)
  PROVE  ~isInsidePath(m.path, t)
<1>1. m.path \in Seq(Names) /\ o.host \in Seq(Names)
  BY LinkingIs, PathIs
<1>2. isInsidePath(m.path, t) => isInsidePath(m.path, o.host)
  BY <1>1, InsideTrans
<1>3. ~isInsidePath(m.path, o.host)
  BY VolumesAssumption
<1> QED  BY <1>2, <1>3

\* Nothing in a volume is disallowed.
LEMMA VolumeIsAllowed ==
  ASSUME NEW o \in Linking, NEW t \in Path, isInsidePath(t, o.host)
  PROVE  t \notin Disallowed
<1>1. t \in Seq(Names) /\ o.host \in Seq(Names)
  BY LinkingIs, PathIs
<1>2. ASSUME NEW d \in DisallowList, isInsidePath(t, d) PROVE FALSE
  <2>1. d \in Seq(Names)
    BY ListsAssumption, PathIs
  <2>2. isInsidePath(d, o.host) \/ isInsidePath(o.host, d)
    BY <1>1, <1>2, <2>1, InsideBoth
  <2> QED  BY <2>2, VolumesAssumption
<1>3. isPathAllowed(t)
  BY <1>2 DEF isPathAllowed
<1> QED  BY <1>3, DisallowedIs

-----------------------------------------------------------------------------
(***************************************************************************)
(* Where paths lead.                                                       *)
(***************************************************************************)
\* Every symlink leads to the volume of a mount, and is at the mount's path or
\* in a volume.
LinksLead ==
  \A p \in Path : fs[p].kind = "link" =>
    \E m \in Linking : fs[p].to = m.host /\ (p = m.path \/ p \in Through)

\* A path that is mounted, or is above one, leads to itself or into a volume.
LEMMA ResolveIs ==
  ASSUME LinksLead, NEW m \in Linking, NEW path \in Path,
         path = m.path \/ path \in properPrefixes(m.path)
  PROVE  \/ resolve(path) = path
         \/ \E o \in Linking : /\ o.path \in properPrefixes(path)
                               /\ resolve(path) = through(path, o.path, o.host)
                               /\ resolve(path) \in Seq(Names)
                               /\ isInsidePath(resolve(path), o.host)
<1>1. CASE links(path) = {}
  BY <1>1 DEF resolve
<1>2. CASE links(path) # {}
  <2>1. PICK q \in links(path) : q = first(links(path))
    BY <1>2 DEF first
  <2>2. q \in properPrefixes(path) /\ fs[q].kind = "link"
    BY <2>1 DEF links
  <2>3. q \in Path /\ isInsidePath(path, q)
    BY <2>2, PrefixIs
  <2>4. PICK o \in Linking : fs[q].to = o.host /\ (q = o.path \/ q \in Through)
    BY <2>2, <2>3 DEF LinksLead
  <2>5. m.path \in Path /\ o.host \in Path /\ o.path \in Path
    BY LinkingIs
  <2>6. isInsidePath(m.path, q)
    <3>1. CASE path = m.path
      BY <2>3, <3>1
    <3>2. CASE path \in properPrefixes(m.path)
      <4>1. isInsidePath(m.path, path)
        BY <2>5, <3>2, PrefixIs
      <4> QED  BY <2>3, <2>5, <4>1, InsideTrans, PathIs
    <3> QED  BY <3>1, <3>2
  <2>7. q \notin Through
    <3>1. SUFFICES ASSUME q \in Through PROVE FALSE
      OBVIOUS
    <3>2. PICK a \in Linking, b \in Linking :
            b.path \in properPrefixes(a.path) /\ q = through(a.path, b.path, b.host)
      BY <3>1 DEF Through
    <3>3. q \in Seq(Names) /\ isInsidePath(q, b.host)
      BY <3>2, ThroughIs, LinkingIs
    <3> QED  BY <2>6, <3>3, VolumeIsApart
  <2>8. q = o.path
    BY <2>4, <2>7
  <2>9. resolve(path) = through(path, o.path, o.host)
    BY <1>2, <2>1, <2>4, <2>8 DEF resolve
  <2>10. resolve(path) \in Seq(Names) /\ isInsidePath(resolve(path), o.host)
    <3>1. PICK t : t = through(path, o.path, o.host)
      OBVIOUS
    <3> QED  BY <2>2, <2>5, <2>8, <2>9, <3>1, ThroughIs
  <2> QED  BY <2>2, <2>8, <2>9, <2>10
<1> QED  BY <1>1, <1>2

\* The place a mount is put at is a path, and not one above a mount, except
\* for its own path.
LEMMA PlaceIs ==
  ASSUME LinksLead, NEW m \in Linking
  PROVE  /\ resolve(m.path) \in Path
         /\ resolve(m.path) = m.path \/ resolve(m.path) \in Through
         /\ \A o \in Linking : isInsidePath(o.path, resolve(m.path)) => resolve(m.path) = m.path
         /\ resolve(m.path) \notin Disallowed
<1>1. m.path \in Path /\ m.host \in Path /\ isPathAllowed(m.path)
  BY LinkingIs
<1>2. CASE resolve(m.path) = m.path
  BY <1>1, <1>2, DisallowedIs
<1>3. ASSUME NEW o \in Linking, o.path \in properPrefixes(m.path),
             resolve(m.path) = through(m.path, o.path, o.host),
             resolve(m.path) \in Seq(Names), isInsidePath(resolve(m.path), o.host)
      PROVE  /\ resolve(m.path) \in Path /\ resolve(m.path) \in Through
             /\ \A a \in Linking : ~isInsidePath(a.path, resolve(m.path))
             /\ resolve(m.path) \notin Disallowed
  <2>1. PICK ms \in Linking \X Linking : ms = <<m, o>>
    OBVIOUS
  <2>2. ms[1] = m /\ ms[2] = o
    BY <2>1
  <2>3. resolve(m.path) \in Through
    BY <1>3, <2>2 DEF Through
  <2>4. resolve(m.path) \in Path
    BY <2>3, ThroughAssumption
  <2> QED  BY <1>3, <2>3, <2>4, VolumeIsApart, VolumeIsAllowed
<1> QED  BY <1>1, <1>2, <1>3, ResolveIs

-----------------------------------------------------------------------------
(***************************************************************************)
(* The types, what symlinks lead to and what is disallowed are one         *)
(* inductive invariant.                                                    *)
(***************************************************************************)
CallIsRecord ==
  call = [pc |-> call.pc, config |-> call.config, next |-> call.next, env |-> call.env,
          before |-> call.before, placed |-> call.placed]

\* The mount that is being made is one that makes a symlink.
AtWork ==
  call.pc \in {"mkdir", "link"} =>
    call.next <= Len(call.config.mounts) /\ mount \in Linking

DisallowedIsKept == \A p \in Disallowed : fs[p] = node(World[p])

ConfigInv == TypeOK /\ CallIsRecord /\ AtWork /\ LinksLead /\ DisallowedIsKept

LEMMA ConfigInit == Init => ConfigInv
<1> SUFFICES ASSUME Init PROVE ConfigInv
  OBVIOUS
<1>1. NoCall.config \in Configs
  BY ConfigsAssumption DEF NoCall
<1>2. Len(NoCall.config.mounts) \in Nat
  BY <1>1, MountIs
<1>3. fs \in [Path -> Node] /\ \A p \in Path : fs[p].kind # "link" /\ fs[p] = node(World[p])
  BY WorldAssumption DEF Init, Node, node
<1>4. call.config = NoCall.config /\ call.next = 1 /\ call.pc = "idle" /\ call.placed = <<>>
  BY DEF Init, NoCall
<1>5. <<>> \in Seq(Path \cup {<<>>})
  BY EmptySeq
<1>6. TypeOK
  BY <1>1, <1>2, <1>3, <1>4, <1>5 DEF TypeOK
<1>7. CallIsRecord
  BY DEF Init, NoCall, CallIsRecord
<1>8. DisallowedIsKept
  BY <1>3 DEF DisallowedIsKept, Disallowed, Below
<1> QED  BY <1>3, <1>4, <1>6, <1>7, <1>8 DEF ConfigInv, AtWork, LinksLead

\* The mount a call is at, while it has one, and where it goes.
LEMMA AtMountIs ==
  ASSUME ConfigInv, call.next <= Len(call.config.mounts)
  PROVE  /\ mount \in [host: Path, path: Path]
         /\ ~passedOver(mount) => mount \in Linking
<1>1. call.config \in Configs /\ call.next \in 1..(Len(call.config.mounts) + 1)
  BY DEF ConfigInv, TypeOK
<1>2. Len(call.config.mounts) \in Nat
  BY <1>1, MountIs
<1>3. call.next \in 1..Len(call.config.mounts)
  BY <1>1, <1>2
<1> QED  BY <1>1, <1>3, MountIs DEF mount

\* os.Remove removes the place the mount is put at, and nothing else.
LEMMA RemoveWrites ==
  ASSUME ConfigInv, RemovePath
  PROVE  /\ call.pc = "mount" /\ call.next <= Len(call.config.mounts) /\ mount \in Linking
         /\ \/ UNCHANGED fs /\ call' = [call EXCEPT !.pc = "error"]
            \/ /\ call' = [call EXCEPT !.pc = "mkdir", !.placed = Append(@, resolve(mount.path))]
               /\ fs' = [fs EXCEPT ![resolve(mount.path)] = node("none")]
<1>1. mount \in Linking
  BY AtMountIs DEF RemovePath, AtMount
<1> QED  BY <1>1 DEF RemovePath, AtMount, Fail

\* A path that is missing above a mount leads to none that is disallowed.
LEMMA MissingIsAllowed ==
  ASSUME ConfigInv, NEW m \in Linking, NEW q \in properPrefixes(m.path), ~exists(q),
         resolve(q) \in Path
  PROVE  fs[resolve(q)].kind = "none" /\ resolve(q) \notin Disallowed
<1>1. fs[resolve(q)].kind = "none"
  BY DEF exists
<1>2. m.path \in Path /\ isPathAllowed(m.path)
  BY LinkingIs
<1>3. q \in Path /\ isInsidePath(m.path, q)
  BY <1>2, PrefixIs
<1>4. ASSUME resolve(q) = q, q \in Disallowed PROVE FALSE
  <2>1. PICK d \in DisallowList : isInsidePath(q, d)
    BY <1>3, <1>4, DisallowedIs DEF isPathAllowed
  <2>2. d \in Path /\ d \in Seq(Names) /\ q \in Seq(Names) /\ m.path \in Seq(Names)
    BY <1>2, <1>3, ListsAssumption, PathIs
  <2>3. isInsidePath(m.path, d)
    BY <1>3, <2>1, <2>2, InsideTrans
  <2>4. PICK a \in AllowList : isInsidePath(m.path, a)
    BY <1>2, <2>3 DEF isPathAllowed
  <2>5. a \in Path /\ a \in Seq(Names)
    BY ListsAssumption, PathIs
  <2>6. ~isInsidePath(q, a)
    BY <1>3, <1>4, DisallowedIs DEF isPathAllowed
  <2>7. isInsidePath(a, q)
    BY <1>3, <2>2, <2>4, <2>5, <2>6, InsideBoth
  <2>8. Len(q) < Len(a)
    <3>1. Len(q) \in Nat /\ Len(a) \in Nat /\ Len(q) <= Len(a)
      BY <1>3, <2>5, <2>7, PathIs DEF isInsidePath
    <3>2. Len(q) # Len(a)
      <4>1. DOMAIN a = 1..Len(a) /\ DOMAIN q = 1..Len(q)
        BY <1>3, <2>5, PathIs
      <4> QED  BY <2>6, <2>7, <3>1, <4>1 DEF isInsidePath
    <3> QED  BY <3>1, <3>2
  <2>9. World[q] = "dir"
    <3>1. q \in properPrefixes(a)
      BY <1>3, <2>5, <2>7, <2>8, PrefixFrom
    <3>2. ~isPathAllowed(q)
      BY <1>3, <1>4, DisallowedIs
    <3> QED  BY <3>1, <3>2, ListsAssumption
  <2>10. fs[q] = node(World[q])
    BY <1>4 DEF ConfigInv, DisallowedIsKept
  <2>11. fs[q].kind = "dir"
    BY <2>9, <2>10 DEF node
  <2> QED  BY <1>1, <1>4, <2>11
<1>5. ASSUME NEW o \in Linking, isInsidePath(resolve(q), o.host)
      PROVE  resolve(q) \notin Disallowed
  BY <1>5, VolumeIsAllowed
<1>6. LinksLead
  BY DEF ConfigInv
<1>7. resolve(q) = q \/ \E o \in Linking : isInsidePath(resolve(q), o.host)
  BY <1>2, <1>3, <1>6, ResolveIs
<1> QED  BY <1>1, <1>4, <1>5, <1>7

\* os.MkdirAll makes directories where nothing is, and never at a disallowed path.
LEMMA MkdirWrites ==
  ASSUME ConfigInv, MkdirAll
  PROVE  /\ call.pc = "mkdir"
         /\ call' = [call EXCEPT !.pc = "error"] \/ call' = [call EXCEPT !.pc = "link"]
         /\ fs' \in [Path -> Node]
         /\ \A p \in Path : \/ fs'[p] = fs[p]
                            \/ fs[p].kind = "none" /\ fs'[p] = node("dir") /\ p \notin Disallowed
<1>1. mount \in Linking
  BY DEF ConfigInv, AtWork, MkdirAll
<1>2. PICK prefixes \in SUBSET properPrefixes(mount.path) : fs' = made(prefixes)
  BY DEF MkdirAll
<1>3. PICK dirs : dirs = {resolve(q) : q \in {q \in prefixes : ~exists(q)}}
  OBVIOUS
<1>4. fs' = [p \in Path |-> IF p \in dirs THEN node("dir") ELSE fs[p]]
  BY <1>2, <1>3 DEF made
<1>5. \A p \in dirs \cap Path : fs[p].kind = "none" /\ p \notin Disallowed
  <2>1. \A q \in prefixes : ~exists(q) /\ resolve(q) \in Path
          => fs[resolve(q)].kind = "none" /\ resolve(q) \notin Disallowed
    BY <1>1, MissingIsAllowed
  <2> QED  BY <1>3, <2>1
<1>6. fs \in [Path -> Node] /\ node("dir") \in Node
  BY DEF ConfigInv, TypeOK, Node, node
<1>7. fs' \in [Path -> Node]
  BY <1>4, <1>6
<1>8. \A p \in Path : \/ fs'[p] = fs[p]
                      \/ fs[p].kind = "none" /\ fs'[p] = node("dir") /\ p \notin Disallowed
  BY <1>4, <1>5
<1>9. /\ call.pc = "mkdir"
      /\ call' = [call EXCEPT !.pc = "error"] \/ call' = [call EXCEPT !.pc = "link"]
  BY DEF MkdirAll, Fail
<1> QED  BY <1>7, <1>8, <1>9

\* os.Symlink makes a symlink where nothing is, and where the mount is put.
LEMMA SymlinkWrites ==
  ASSUME ConfigInv, Symlink
  PROVE  /\ call.pc = "link" /\ call.next <= Len(call.config.mounts) /\ mount \in Linking
         /\ \/ UNCHANGED fs /\ call' = [call EXCEPT !.pc = "error"]
            \/ /\ call' = [call EXCEPT !.pc = "mount", !.next = @ + 1]
               /\ fs' = [fs EXCEPT ![resolve(mount.path)] = [kind |-> "link", to |-> mount.host]]
               /\ fs[resolve(mount.path)].kind = "none"
<1>1. call.next <= Len(call.config.mounts) /\ mount \in Linking
  BY DEF ConfigInv, AtWork, Symlink
<1>2. resolve(mount.path) \in Path
  BY <1>1, PlaceIs DEF ConfigInv
<1>3. exists(mount.path) \/ fs[resolve(mount.path)].kind = "none"
  BY <1>2 DEF exists
<1> QED  BY <1>1, <1>3 DEF Symlink, Fail

\* Only the call changes.
LEMMA QuietConfig ==
  ASSUME ConfigInv, UNCHANGED fs, CallIsRecord',
         call'.config \in Configs, call'.next \in 1..(Len(call'.config.mounts) + 1),
         call'.placed \in Seq(Path \cup {<<>>}),
         call'.pc \in {"idle", "mount", "ok", "error"}
  PROVE  ConfigInv'
<1>1. TypeOK'
  BY DEF ConfigInv, TypeOK
<1>2. LinksLead' /\ DisallowedIsKept'
  BY DEF ConfigInv, LinksLead, DisallowedIsKept
<1>3. AtWork'
  BY DEF AtWork
<1> QED  BY <1>1, <1>2, <1>3 DEF ConfigInv

\* Something changes in the file system, and the call is still at its mount or
\* has done with it.
LEMMA BusyConfig ==
  ASSUME ConfigInv, mount \in Linking, call.next <= Len(call.config.mounts),
         fs' \in [Path -> Node],
         \A p \in Path : \/ fs'[p] = fs[p]
                         \/ /\ p \notin Disallowed
                            /\ fs'[p].kind = "link" =>
                                 /\ fs'[p].to = mount.host
                                 /\ p = mount.path \/ p \in Through,
         CallIsRecord', call'.config = call.config,
         call'.placed \in Seq(Path \cup {<<>>}),
         \/ call'.pc \in {"mkdir", "link", "error"} /\ call'.next = call.next
         \/ call'.pc = "mount" /\ call'.next = call.next + 1
  PROVE  ConfigInv'
<1>1. call.config \in Configs /\ call.next \in 1..(Len(call.config.mounts) + 1)
  BY DEF ConfigInv, TypeOK
<1>2. Len(call.config.mounts) \in Nat
  BY <1>1, MountIs
<1>3. call'.next \in 1..(Len(call.config.mounts) + 1)
  BY <1>1, <1>2
<1>4. TypeOK'
  BY <1>1, <1>3 DEF TypeOK
<1>5. AtWork'
  BY <1>1 DEF AtWork, mount
<1>6. LinksLead'
  <2>1. LinksLead
    BY DEF ConfigInv
  <2>2. ASSUME NEW p \in Path, fs'[p].kind = "link"
        PROVE  \E m \in Linking : fs'[p].to = m.host /\ (p = m.path \/ p \in Through)
    <3>1. CASE fs'[p] = fs[p]
      BY <2>1, <2>2, <3>1 DEF LinksLead
    <3>2. CASE fs'[p].to = mount.host /\ (p = mount.path \/ p \in Through)
      BY <3>2
    <3> QED  BY <2>2, <3>1, <3>2
  <2> QED  BY <2>2 DEF LinksLead
<1>7. DisallowedIsKept'
  <2>1. \A p \in Disallowed : p \in Path
    BY DEF Disallowed, Below
  <2>2. \A p \in Disallowed : fs'[p] = node(World[p])
    BY <2>1 DEF ConfigInv, DisallowedIsKept
  <2> QED  BY <2>2 DEF DisallowedIsKept
<1> QED  BY <1>4, <1>5, <1>6, <1>7 DEF ConfigInv

LEMMA ConfigStep == ConfigInv /\ [Next]_vars => ConfigInv'
<1> SUFFICES ASSUME ConfigInv, [Next]_vars PROVE ConfigInv'
  OBVIOUS
<1>0. /\ CallIsRecord /\ LinksLead /\ fs \in [Path -> Node]
      /\ call.config \in Configs /\ call.next \in 1..(Len(call.config.mounts) + 1)
      /\ call.placed \in Seq(Path \cup {<<>>})
  BY DEF ConfigInv, TypeOK
<1>1. Len(call.config.mounts) \in Nat
  BY <1>0, MountIs
<1>2. NoCall.config \in Configs /\ Len(NoCall.config.mounts) \in Nat
  <2>1. NoCall.config \in Configs
    BY ConfigsAssumption DEF NoCall
  <2> QED  BY <2>1, MountIs
<1>3. <<>> \in Seq(Path \cup {<<>>})
  BY EmptySeq
<1>4. ASSUME NEW config \in Configs, CreateContainer(config) PROVE ConfigInv'
  <2>1. Len(config.mounts) \in Nat
    BY MountIs
  <2>2. /\ call'.pc = "mount" /\ call'.config = config /\ call'.next = 1 /\ call'.placed = <<>>
        /\ CallIsRecord'
    BY <1>4 DEF CreateContainer, NoCall, CallIsRecord
  <2>3. UNCHANGED fs
    BY <1>4 DEF CreateContainer
  <2>4. call'.next \in 1..(Len(call'.config.mounts) + 1)
    BY <2>1, <2>2
  <2> QED  BY <1>3, <2>2, <2>3, <2>4, QuietConfig
<1>5. CASE SkipMount
  <2>1. /\ call'.pc = "mount" /\ call'.config = call.config /\ call'.next = call.next + 1
        /\ call'.placed = Append(call.placed, <<>>) /\ CallIsRecord'
    BY <1>0, <1>5 DEF SkipMount, AtMount, CallIsRecord
  <2>2. call'.placed \in Seq(Path \cup {<<>>})
    BY <1>0, <2>1, AppendProperties
  <2>3. call'.next \in 1..(Len(call.config.mounts) + 1)
    BY <1>0, <1>1, <1>5, <2>1 DEF SkipMount, AtMount
  <2> QED  BY <1>0, <1>5, <2>1, <2>2, <2>3, QuietConfig DEF SkipMount
<1>6. CASE RemovePath
  <2>1. call.pc = "mount" /\ call.next <= Len(call.config.mounts) /\ mount \in Linking
    BY <1>6, RemoveWrites
  <2>2. CASE UNCHANGED fs /\ call' = [call EXCEPT !.pc = "error"]
    <3>1. /\ call'.pc = "error" /\ call'.config = call.config /\ call'.next = call.next
          /\ call'.placed = call.placed /\ CallIsRecord'
      BY <1>0, <2>2 DEF CallIsRecord
    <3> QED  BY <1>0, <2>2, <3>1, QuietConfig
  <2>3. CASE /\ call' = [call EXCEPT !.pc = "mkdir", !.placed = Append(@, resolve(mount.path))]
             /\ fs' = [fs EXCEPT ![resolve(mount.path)] = node("none")]
    <3>1. /\ call'.pc = "mkdir" /\ call'.config = call.config /\ call'.next = call.next
          /\ call'.placed = Append(call.placed, resolve(mount.path)) /\ CallIsRecord'
      BY <1>0, <2>3 DEF CallIsRecord
    <3>2. resolve(mount.path) \in Path /\ resolve(mount.path) \notin Disallowed
      BY <1>0, <2>1, PlaceIs
    <3>3. call'.placed \in Seq(Path \cup {<<>>})
      BY <1>0, <3>1, <3>2, AppendProperties
    <3>4. node("none") \in Node /\ node("none").kind = "none"
      BY DEF node, Node
    <3>5. /\ fs' \in [Path -> Node]
          /\ \A p \in Path : \/ fs'[p] = fs[p]
                             \/ p \notin Disallowed /\ fs'[p].kind = "none"
      BY <1>0, <2>3, <3>2, <3>4
    <3> QED  BY <2>1, <3>1, <3>3, <3>5, BusyConfig
  <2> QED  BY <1>6, <2>2, <2>3, RemoveWrites
<1>7. CASE MkdirAll
  <2>1. call.next <= Len(call.config.mounts) /\ mount \in Linking
    BY <1>7, MkdirWrites DEF ConfigInv, AtWork
  <2>2. /\ call'.pc \in {"error", "link"} /\ call'.config = call.config
        /\ call'.next = call.next /\ call'.placed = call.placed /\ CallIsRecord'
    BY <1>0, <1>7, MkdirWrites DEF CallIsRecord
  <2>3. /\ fs' \in [Path -> Node]
        /\ \A p \in Path : fs'[p] = fs[p] \/ (fs'[p] = node("dir") /\ p \notin Disallowed)
    BY <1>7, MkdirWrites
  <2>4. node("dir").kind = "dir"
    BY DEF node
  <2> QED  BY <1>0, <2>1, <2>2, <2>3, <2>4, BusyConfig
<1>8. CASE Symlink
  <2>1. call.pc = "link" /\ call.next <= Len(call.config.mounts) /\ mount \in Linking
    BY <1>8, SymlinkWrites
  <2>2. CASE UNCHANGED fs /\ call' = [call EXCEPT !.pc = "error"]
    <3>1. /\ call'.pc = "error" /\ call'.config = call.config /\ call'.next = call.next
          /\ call'.placed = call.placed /\ CallIsRecord'
      BY <1>0, <2>2 DEF CallIsRecord
    <3> QED  BY <1>0, <2>2, <3>1, QuietConfig
  <2>3. CASE /\ call' = [call EXCEPT !.pc = "mount", !.next = @ + 1]
             /\ fs' = [fs EXCEPT ![resolve(mount.path)] = [kind |-> "link", to |-> mount.host]]
    <3>1. /\ call'.pc = "mount" /\ call'.config = call.config /\ call'.next = call.next + 1
          /\ call'.placed = call.placed /\ CallIsRecord'
      BY <1>0, <2>3 DEF CallIsRecord
    <3>2. /\ resolve(mount.path) \in Path /\ resolve(mount.path) \notin Disallowed
          /\ resolve(mount.path) = mount.path \/ resolve(mount.path) \in Through
      BY <1>0, <2>1, PlaceIs
    <3>3. PICK link : link = [kind |-> "link", to |-> mount.host]
      OBVIOUS
    <3>4. link \in Node /\ link.to = mount.host
      BY <2>1, <3>3, LinkingIs DEF Node
    <3>5. /\ fs' \in [Path -> Node]
          /\ \A p \in Path : fs'[p] = fs[p] \/ (p = resolve(mount.path) /\ fs'[p] = link)
      BY <1>0, <2>3, <3>2, <3>3, <3>4
    <3> QED  BY <1>0, <2>1, <3>1, <3>2, <3>4, <3>5, BusyConfig
  <2> QED  BY <1>8, <2>2, <2>3, SymlinkWrites
<1>9. CASE WriteRecord
  <2>1. /\ call'.pc = "ok" /\ call'.config = call.config /\ call'.next = call.next
        /\ call'.placed = call.placed /\ CallIsRecord'
    BY <1>0, <1>9 DEF WriteRecord, CallIsRecord
  <2> QED  BY <1>0, <1>9, <2>1, QuietConfig DEF WriteRecord
<1>10. CASE Refuse
  <2>1. /\ call'.pc = "error" /\ call'.config = call.config /\ call'.next = call.next
        /\ call'.placed = call.placed /\ CallIsRecord'
    BY <1>0, <1>10 DEF Refuse, Fail, CallIsRecord
  <2> QED  BY <1>0, <1>10, <2>1, QuietConfig DEF Refuse
<1>11. CASE Answer
  <2>1. /\ call'.pc = "idle" /\ call'.config = NoCall.config /\ call'.next = 1
        /\ call'.placed = <<>> /\ CallIsRecord'
    BY <1>11 DEF Answer, NoCall, CallIsRecord
  <2> QED  BY <1>2, <1>3, <1>11, <2>1, QuietConfig DEF Answer
<1>12. CASE UNCHANGED vars
  BY <1>12 DEF vars, ConfigInv, TypeOK, CallIsRecord, AtWork, mount, LinksLead, DisallowedIsKept
<1> QED  BY <1>4, <1>5, <1>6, <1>7, <1>8, <1>9, <1>10, <1>11, <1>12 DEF Next

LEMMA ConfigCorrect == Spec => []ConfigInv
<1> QED  BY ConfigInit, ConfigStep, PTL DEF Spec

\* The file system and the call always hold values of their types: no mount is
\* lost count of, and every symlink is one a path can be looked up in.
THEOREM ConfigTypeCorrect == Spec => []TypeOK
<1>1. ConfigInv => TypeOK
  BY DEF ConfigInv
<1> QED  BY <1>1, ConfigCorrect, PTL

\* A path that is disallowed and not allowed again is what it was when procri
\* began, whatever is mounted in whatever order, through symlinks or not.
THEOREM DisallowedCorrect == Spec => DisallowedIsUntouched
<1>1. ConfigInv /\ ConfigInv' => \A p \in Disallowed : fs'[p] = fs[p]
  BY DEF ConfigInv, DisallowedIsKept
<1> QED  BY <1>1, ConfigCorrect, PTL DEF DisallowedIsUntouched

-----------------------------------------------------------------------------
(***************************************************************************)
(* No path is lost, but the one at which a mount failed.                   *)
(***************************************************************************)
\* A path leads where it led unless a symlink above it comes or goes.
LEMMA ResolveKept ==
  ASSUME NEW path \in Path,
         \A q \in properPrefixes(path) :
           fs'[q] = fs[q] \/ (fs[q].kind # "link" /\ fs'[q].kind # "link")
  PROVE  resolve(path)' = resolve(path)
<1>1. links(path)' = links(path)
  BY DEF links
<1>2. CASE links(path) = {}
  BY <1>1, <1>2 DEF resolve
<1>3. CASE links(path) # {}
  <2>1. PICK q \in links(path) : q = first(links(path))
    BY <1>3 DEF first
  <2>2. fs'[q] = fs[q]
    BY <2>1 DEF links
  <2>3. first(links(path))' = q
    BY <1>1, <2>1 DEF first
  <2>4. resolve(path) = through(path, q, fs[q].to)
    BY <1>3, <2>1 DEF resolve
  <2>5. resolve(path)' = through(path, q, fs'[q].to)
    BY <1>1, <1>3, <2>3 DEF resolve
  <2> QED  BY <2>2, <2>4, <2>5
<1> QED  BY <1>2, <1>3

\* What is written at the place of a mount does not change where another mount's
\* path leads, unless it is that path or one above it.
LEMMA PlaceKept ==
  ASSUME LinksLead, NEW m \in Linking, NEW o \in Linking,
         o = m \/ ~isInsidePath(o.path, m.path),
         \A p \in Path : p # resolve(m.path) => fs'[p] = fs[p]
  PROVE  resolve(o.path)' = resolve(o.path)
<1>1. o.path \in Path
  BY LinkingIs
<1>2. ASSUME NEW q \in properPrefixes(o.path) PROVE q # resolve(m.path)
  <2>1. isInsidePath(o.path, q) /\ q # o.path
    BY <1>1, PrefixIs
  <2> QED  BY <2>1, PlaceIs
<1>3. \A q \in properPrefixes(o.path) : fs'[q] = fs[q]
  BY <1>1, <1>2, PrefixIs
<1> QED  BY <1>1, <1>3, ResolveKept

Lost == {p \in Path : call.before[p].kind # "none" /\ fs[p].kind = "none"}

\* While a mount is being made, only the place it is put at may be lost.
LostInv ==
  /\ call.pc \in {"mount", "ok"} => Lost = {}
  /\ call.pc \in {"mkdir", "link"} => Lost \subseteq {resolve(mount.path)}
  /\ call.pc = "error" =>
       Lost \subseteq IF call.next <= Len(call.config.mounts) THEN {resolve(mount.path)} ELSE {}

LEMMA LostStep == ConfigInv /\ ConfigInv' /\ LostInv /\ [Next]_vars => LostInv'
<1> SUFFICES ASSUME ConfigInv, ConfigInv', LostInv, [Next]_vars PROVE LostInv'
  OBVIOUS
<1>0. CallIsRecord /\ LinksLead /\ fs \in [Path -> Node]
  BY DEF ConfigInv, TypeOK
<1>1. ASSUME NEW config \in Configs, CreateContainer(config) PROVE LostInv'
  <2>1. call'.pc = "mount" /\ call'.before = fs /\ fs' = fs
    BY <1>1 DEF CreateContainer, NoCall
  <2>2. Lost' = {}
    BY <2>1 DEF Lost
  <2> QED  BY <2>1, <2>2 DEF LostInv
<1>2. ASSUME UNCHANGED fs, call'.before = call.before, call.pc = "mount", call'.pc \in {"mount", "ok", "error"}
      PROVE  LostInv'
  <2>1. Lost' = {}
    BY <1>2 DEF Lost, LostInv
  <2> QED  BY <1>2, <2>1 DEF LostInv
<1>3. CASE SkipMount \/ WriteRecord \/ Refuse
  <2>1. /\ UNCHANGED fs /\ call'.before = call.before /\ call.pc = "mount"
        /\ call'.pc \in {"mount", "ok", "error"}
    BY <1>0, <1>3 DEF SkipMount, WriteRecord, Refuse, Fail, AtMount, CallIsRecord
  <2> QED  BY <1>2, <2>1
<1>4. CASE RemovePath
  <2>1. PICK m \in Linking : m = mount
    BY <1>4, RemoveWrites
  <2>2. call.pc = "mount"
    BY <1>4, RemoveWrites
  <2>3. CASE UNCHANGED fs /\ call' = [call EXCEPT !.pc = "error"]
    BY <1>0, <1>2, <2>2, <2>3 DEF CallIsRecord
  <2>4. CASE /\ call' = [call EXCEPT !.pc = "mkdir", !.placed = Append(@, resolve(mount.path))]
             /\ fs' = [fs EXCEPT ![resolve(mount.path)] = node("none")]
    <3>1. /\ call'.pc = "mkdir" /\ call'.config = call.config /\ call'.next = call.next
          /\ call'.before = call.before
      BY <1>0, <2>4 DEF CallIsRecord
    <3>2. mount' = m
      BY <2>1, <3>1 DEF mount
    <3>3. \A p \in Path : p # resolve(m.path) => fs'[p] = fs[p]
      BY <1>0, <2>1, <2>4
    <3>4. resolve(m.path)' = resolve(m.path)
      BY <1>0, <3>3, PlaceKept
    <3>5. Lost' \subseteq {resolve(m.path)}
      BY <2>2, <3>1, <3>3 DEF Lost, LostInv
    <3> QED  BY <3>1, <3>2, <3>4, <3>5 DEF LostInv
  <2> QED  BY <1>4, <2>3, <2>4, RemoveWrites
<1>5. CASE MkdirAll
  <2>1. PICK m \in Linking : m = mount
    BY <1>5, MkdirWrites DEF ConfigInv, AtWork
  <2>2. /\ call'.pc \in {"error", "link"} /\ call'.config = call.config /\ call'.next = call.next
        /\ call'.before = call.before /\ call.pc = "mkdir"
    BY <1>0, <1>5, MkdirWrites DEF CallIsRecord
  <2>3. mount' = m /\ call'.next <= Len(call'.config.mounts)
    BY <2>1, <2>2 DEF mount, ConfigInv, AtWork
  <2>4. \A p \in Path : fs'[p] = fs[p] \/ (fs[p].kind = "none" /\ fs'[p].kind = "dir")
    BY <1>5, MkdirWrites DEF node
  <2>5. resolve(m.path)' = resolve(m.path)
    <3>1. m.path \in Path
      BY LinkingIs
    <3>2. \A q \in properPrefixes(m.path) :
            fs'[q] = fs[q] \/ (fs[q].kind # "link" /\ fs'[q].kind # "link")
      BY <2>4, <3>1, PrefixIs
    <3> QED  BY <3>1, <3>2, ResolveKept
  <2>6. Lost' \subseteq Lost
    BY <2>2, <2>4 DEF Lost
  <2>7. Lost \subseteq {resolve(m.path)}
    BY <2>1, <2>2 DEF LostInv
  <2>8. Lost' \subseteq {resolve(mount.path)'}
    BY <2>3, <2>5, <2>6, <2>7
  <2> QED  BY <2>2, <2>3, <2>8 DEF LostInv
<1>6. CASE Symlink
  <2>1. PICK m \in Linking : m = mount
    BY <1>6, SymlinkWrites
  <2>2. call.pc = "link" /\ call.next <= Len(call.config.mounts)
    BY <1>6, SymlinkWrites
  <2>3. Lost \subseteq {resolve(m.path)}
    BY <2>1, <2>2 DEF LostInv
  <2>4. CASE UNCHANGED fs /\ call' = [call EXCEPT !.pc = "error"]
    <3>1. /\ call'.pc = "error" /\ call'.config = call.config /\ call'.next = call.next
          /\ call'.before = call.before
      BY <1>0, <2>4 DEF CallIsRecord
    <3>2. mount' = m
      BY <2>1, <3>1 DEF mount
    <3>3. resolve(m.path)' = resolve(m.path)
      BY <1>0, <2>4, PlaceKept
    <3>4. Lost' = Lost
      BY <2>4, <3>1 DEF Lost
    <3> QED  BY <2>2, <2>3, <3>1, <3>2, <3>3, <3>4 DEF LostInv
  <2>5. CASE /\ call' = [call EXCEPT !.pc = "mount", !.next = @ + 1]
             /\ fs' = [fs EXCEPT ![resolve(mount.path)] = [kind |-> "link", to |-> mount.host]]
    <3>1. call'.pc = "mount" /\ call'.before = call.before
      BY <1>0, <2>5 DEF CallIsRecord
    <3>2. PICK r \in Path : r = resolve(m.path)
      BY <1>0, PlaceIs
    <3>3. fs'[r].kind = "link" /\ \A p \in Path : p # r => fs'[p] = fs[p]
      BY <1>0, <2>1, <2>5, <3>2
    <3>4. Lost' = {}
      BY <2>3, <3>1, <3>2, <3>3 DEF Lost
    <3> QED  BY <3>1, <3>4 DEF LostInv
  <2> QED  BY <1>6, <2>4, <2>5, SymlinkWrites
<1>7. CASE Answer
  <2>1. call'.pc = "idle"
    BY <1>7 DEF Answer, NoCall
  <2> QED  BY <2>1 DEF LostInv
<1>8. CASE UNCHANGED vars
  BY <1>8 DEF vars, LostInv, Lost, mount, resolve, links
<1> QED  BY <1>1, <1>3, <1>4, <1>5, <1>6, <1>7, <1>8 DEF Next

\* A container that is created, or refused after its mounts, takes away nothing
\* that was there; one that fails at a mount, at most the place of that mount.
THEOREM NothingLostCorrect == Spec => []NothingIsLost
<1>1. Init => LostInv
  BY DEF Init, NoCall, LostInv
<1>2. LostInv => NothingIsLost
  BY DEF LostInv, NothingIsLost, Lost
<1> QED  BY <1>1, <1>2, LostStep, ConfigCorrect, PTL DEF Spec

-----------------------------------------------------------------------------
(***************************************************************************)
(* Every mount that no later one takes is linked.                          *)
(***************************************************************************)
At(i) == call.config.mounts[i]
Kept(i) == ~passedOver(At(i)) /\ \A j \in (i + 1)..Len(call.placed) : ~Takes(j, i)

\* The call has put its mounts so far where their paths lead, one after the
\* other, and they are linked there unless a later one takes the place.
PlacedInv ==
  call.pc \in {"mount", "mkdir", "link", "ok"} =>
    /\ Len(call.placed) = IF call.pc \in {"mkdir", "link"} THEN call.next ELSE call.next - 1
    /\ call.pc \in {"mkdir", "link"} => call.placed[call.next] = resolve(mount.path)
    /\ call.pc = "ok" => call.next > Len(call.config.mounts)
    /\ \A i \in 1..(call.next - 1) : Kept(i) =>
         /\ call.placed[i] = resolve(At(i).path)
         /\ fs[resolve(At(i).path)] = [kind |-> "link", to |-> At(i).host]

\* The mounts so far have places, and those that are kept are mounts that link.
LEMMA KeptIs ==
  ASSUME ConfigInv, NEW i \in 1..(call.next - 1), Kept(i)
  PROVE  At(i) \in Linking
<1>1. call.config \in Configs /\ call.next \in 1..(Len(call.config.mounts) + 1)
  BY DEF ConfigInv, TypeOK
<1>2. Len(call.config.mounts) \in Nat
  BY <1>1, MountIs
<1>3. i \in 1..Len(call.config.mounts)
  BY <1>1, <1>2
<1> QED  BY <1>1, <1>3, MountIs DEF At, Kept

\* What a mount before this one is linked to stays, while this one is being
\* made, unless it takes the place.
LEMMA KeptStays ==
  ASSUME ConfigInv, ConfigInv', NEW m \in Linking, m = mount,
         call.next <= Len(call.config.mounts),
         call'.config = call.config,
         Len(call'.placed) = call.next,
         call'.placed[call.next] = resolve(m.path),
         NEW i \in 1..(call.next - 1), Kept(i)',
         call'.placed[i] = resolve(At(i).path),
         fs[resolve(At(i).path)] = [kind |-> "link", to |-> At(i).host],
         \A p \in Path : \/ fs'[p] = fs[p]
                         \/ p = resolve(m.path)
                         \/ fs[p].kind # "link" /\ fs'[p].kind # "link"
  PROVE  /\ resolve(At(i).path)' = resolve(At(i).path)
         /\ fs'[resolve(At(i).path)] = [kind |-> "link", to |-> At(i).host]
<1>1. /\ LinksLead /\ call.config \in Configs /\ call.next \in 1..(Len(call.config.mounts) + 1)
      /\ Len(call.config.mounts) \in Nat
  BY MountIs DEF ConfigInv, TypeOK
<1>2. PICK k : k = call.next
  OBVIOUS
<1>3. PICK o \in [host: Path, path: Path] : o = At(i) /\ o \in Linking
  <2>1. At(i)' = At(i)
    BY DEF At
  <2>2. i \in 1..Len(call.config.mounts)
    BY <1>1
  <2>3. ~passedOver(At(i))
    BY <2>1 DEF Kept, passedOver
  <2>4. At(i) \in Linking
    BY <1>1, <2>2, <2>3, MountIs DEF At
  <2> QED  BY <2>4, LinkingIs
<1>4. ~Takes(k, i)'
  <2>1. k \in (i + 1)..Len(call'.placed)
    BY <1>1, <1>2
  <2> QED  BY <2>1 DEF Kept
<1>5. resolve(m.path) \in Path /\ resolve(m.path) # <<>>
  BY <1>1, PlaceIs, PathAssumption
<1>6. /\ resolve(m.path) # resolve(o.path)
      /\ ~isInsidePath(o.path, m.path)
  BY <1>2, <1>3, <1>4, <1>5 DEF Takes, At, mount
<1>7. resolve(o.path) \in Path
  BY <1>1, <1>3, PlaceIs
<1>8. fs'[resolve(o.path)] = fs[resolve(o.path)]
  <2>1. fs[resolve(o.path)].kind = "link"
    BY <1>3
  <2> QED  BY <1>6, <1>7, <2>1
<1>9. resolve(o.path)' = resolve(o.path)
  <2>1. ASSUME NEW q \in properPrefixes(o.path) PROVE q # resolve(m.path)
    <3>1. isInsidePath(o.path, q)
      BY <1>3, PrefixIs
    <3> QED  BY <1>1, <1>3, <1>6, <3>1, PlaceIs
  <2>2. \A q \in properPrefixes(o.path) :
          fs'[q] = fs[q] \/ (fs[q].kind # "link" /\ fs'[q].kind # "link")
    BY <1>3, <2>1, PrefixIs
  <2> QED  BY <1>3, <2>2, ResolveKept
<1>10. At(i)' = o
  BY <1>3 DEF At
<1> QED  BY <1>3, <1>8, <1>9, <1>10

\* What is kept now was kept before the last mount.
LEMMA KeptBefore ==
  ASSUME call.placed \in Seq(Path \cup {<<>>}), call'.config = call.config,
         NEW x \in Path \cup {<<>>},
         call'.placed = call.placed \/ call'.placed = Append(call.placed, x),
         NEW i \in 1..Len(call.placed), Kept(i)'
  PROVE  Kept(i) /\ call'.placed[i] = call.placed[i]
<1>1. Len(call.placed) \in Nat
  BY LenProperties
<1>2. /\ Len(call.placed) <= Len(call'.placed) /\ Len(call'.placed) \in Nat
      /\ \A j \in 1..Len(call.placed) : call'.placed[j] = call.placed[j]
  BY <1>1, AppendProperties
<1>3. At(i)' = At(i)
  BY DEF At
<1>4. ~passedOver(At(i))
  BY <1>3 DEF Kept, passedOver
<1>5. ASSUME NEW j \in (i + 1)..Len(call.placed) PROVE ~Takes(j, i)
  <2>1. j \in (i + 1)..Len(call'.placed) /\ j \in 1..Len(call.placed)
    BY <1>1, <1>2
  <2>2. ~Takes(j, i)'
    BY <2>1 DEF Kept
  <2> QED  BY <1>2, <2>1, <2>2 DEF Takes
<1> QED  BY <1>2, <1>4, <1>5 DEF Kept

LEMMA PlacedStep == ConfigInv /\ ConfigInv' /\ PlacedInv /\ [Next]_vars => PlacedInv'
<1> SUFFICES ASSUME ConfigInv, ConfigInv', PlacedInv, [Next]_vars PROVE PlacedInv'
  OBVIOUS
<1>0. /\ CallIsRecord /\ LinksLead /\ fs \in [Path -> Node]
      /\ call.config \in Configs /\ call.next \in 1..(Len(call.config.mounts) + 1)
      /\ call.placed \in Seq(Path \cup {<<>>}) /\ Len(call.placed) \in Nat
      /\ Len(call.config.mounts) \in Nat
  BY LenProperties, MountIs DEF ConfigInv, TypeOK
<1>1. ASSUME call'.pc \in {"idle", "error"} PROVE PlacedInv'
  BY <1>1 DEF PlacedInv
<1>2. ASSUME NEW config \in Configs, CreateContainer(config) PROVE PlacedInv'
  <2>1. call'.pc = "mount" /\ call'.next = 1 /\ call'.placed = <<>>
    BY <1>2 DEF CreateContainer, NoCall
  <2>2. Len(call'.placed) = 0
    BY <2>1, EmptySeq
  <2> QED  BY <2>1, <2>2 DEF PlacedInv
<1>3. CASE SkipMount
  <2>1. /\ call.pc = "mount" /\ call.next <= Len(call.config.mounts) /\ passedOver(mount)
        /\ call'.pc = "mount" /\ call'.config = call.config /\ call'.next = call.next + 1
        /\ call'.placed = Append(call.placed, <<>>) /\ fs' = fs
    BY <1>0, <1>3 DEF SkipMount, AtMount, CallIsRecord
  <2>2. Len(call.placed) = call.next - 1 /\ Len(call'.placed) = call.next
    BY <1>0, <2>1, AppendProperties DEF PlacedInv
  <2>3. ASSUME NEW i \in 1..call.next, Kept(i)'
        PROVE  /\ call'.placed[i] = resolve(At(i).path)'
               /\ fs'[resolve(At(i).path)'] = [kind |-> "link", to |-> At(i)'.host]
    <3>1. At(i)' = At(i)
      BY <2>1 DEF At
    <3>2. i # call.next
      BY <2>1, <2>3, <3>1 DEF Kept, passedOver, At, mount
    <3>3. i \in 1..(call.next - 1)
      BY <1>0, <3>2
    <3>4. Kept(i) /\ call'.placed[i] = call.placed[i]
      BY <1>0, <2>1, <2>2, <2>3, <3>3, KeptBefore
    <3>5. resolve(At(i).path)' = resolve(At(i).path)
      BY <2>1, <3>1 DEF resolve, links
    <3> QED  BY <2>1, <3>1, <3>3, <3>4, <3>5 DEF PlacedInv
  <2>4. call'.next - 1 = call.next
    BY <1>0, <2>1
  <2> QED  BY <2>1, <2>2, <2>3, <2>4 DEF PlacedInv
<1>4. CASE RemovePath
  <2>1. call.pc = "mount" /\ call.next <= Len(call.config.mounts)
    BY <1>4, RemoveWrites
  <2>2. PICK m \in Linking : m = mount
    BY <1>4, RemoveWrites
  <2>3. CASE call' = [call EXCEPT !.pc = "error"]
    BY <1>0, <1>1, <2>3 DEF CallIsRecord
  <2>4. CASE /\ call' = [call EXCEPT !.pc = "mkdir", !.placed = Append(@, resolve(mount.path))]
             /\ fs' = [fs EXCEPT ![resolve(mount.path)] = node("none")]
    <3>1. PICK r \in Path : r = resolve(m.path)
      BY <1>0, PlaceIs
    <3>2. /\ call'.pc = "mkdir" /\ call'.config = call.config /\ call'.next = call.next
          /\ call'.placed = Append(call.placed, r)
      BY <1>0, <2>2, <2>4, <3>1 DEF CallIsRecord
    <3>3. Len(call.placed) = call.next - 1
      BY <2>1 DEF PlacedInv
    <3>4. Len(call'.placed) = call.next /\ call'.placed[call.next] = r
      BY <1>0, <3>2, <3>3, AppendProperties
    <3>5. \A p \in Path : p # r => fs'[p] = fs[p]
      BY <1>0, <2>2, <2>4, <3>1
    <3>6. mount' = m /\ resolve(m.path)' = r
      BY <1>0, <2>2, <3>1, <3>2, <3>5, PlaceKept DEF mount
    <3>7. ASSUME NEW i \in 1..(call.next - 1), Kept(i)'
          PROVE  /\ call'.placed[i] = resolve(At(i).path)'
                 /\ fs'[resolve(At(i).path)'] = [kind |-> "link", to |-> At(i)'.host]
      <4>1. Kept(i) /\ call'.placed[i] = call.placed[i]
        BY <1>0, <3>2, <3>3, <3>7, KeptBefore
      <4>2. /\ call.placed[i] = resolve(At(i).path)
            /\ fs[resolve(At(i).path)] = [kind |-> "link", to |-> At(i).host]
        BY <2>1, <4>1 DEF PlacedInv
      <4>3. At(i)' = At(i)
        BY <3>2 DEF At
      <4>4. /\ resolve(At(i).path)' = resolve(At(i).path)
            /\ fs'[resolve(At(i).path)] = [kind |-> "link", to |-> At(i).host]
        BY <2>1, <2>2, <3>1, <3>2, <3>4, <3>5, <3>7, <4>1, <4>2, KeptStays
      <4> QED  BY <4>1, <4>2, <4>3, <4>4
    <3> QED  BY <3>1, <3>2, <3>4, <3>6, <3>7 DEF PlacedInv
  <2> QED  BY <1>4, <2>3, <2>4, RemoveWrites
<1>5. CASE MkdirAll
  <2>1. PICK m \in Linking : m = mount
    BY <1>5, MkdirWrites DEF ConfigInv, AtWork
  <2>2. CASE call' = [call EXCEPT !.pc = "error"]
    BY <1>0, <1>1, <2>2 DEF CallIsRecord
  <2>3. CASE call' = [call EXCEPT !.pc = "link"]
    <3>1. /\ call'.pc = "link" /\ call'.config = call.config /\ call'.next = call.next
          /\ call'.placed = call.placed /\ call.pc = "mkdir"
          /\ call.next <= Len(call.config.mounts)
      BY <1>0, <1>5, <2>3, MkdirWrites DEF CallIsRecord, ConfigInv, AtWork
    <3>2. Len(call.placed) = call.next /\ call.placed[call.next] = resolve(m.path)
      BY <2>1, <3>1 DEF PlacedInv
    <3>3. \A p \in Path : fs'[p] = fs[p] \/ (fs[p].kind # "link" /\ fs'[p].kind # "link")
      BY <1>5, MkdirWrites DEF node
    <3>4. mount' = m
      BY <2>1, <3>1 DEF mount
    <3>5. resolve(m.path)' = resolve(m.path)
      <4>1. m.path \in Path
        BY LinkingIs
      <4> QED  BY <3>3, <4>1, PrefixIs, ResolveKept
    <3>6. ASSUME NEW i \in 1..(call.next - 1), Kept(i)'
          PROVE  /\ call'.placed[i] = resolve(At(i).path)'
                 /\ fs'[resolve(At(i).path)'] = [kind |-> "link", to |-> At(i)'.host]
      <4>1. Kept(i)
        BY <1>0, <3>1, <3>2, <3>6, KeptBefore
      <4>2. /\ call.placed[i] = resolve(At(i).path)
            /\ fs[resolve(At(i).path)] = [kind |-> "link", to |-> At(i).host]
        BY <3>1, <4>1 DEF PlacedInv
      <4>3. At(i)' = At(i)
        BY <3>1 DEF At
      <4>4. /\ resolve(At(i).path)' = resolve(At(i).path)
            /\ fs'[resolve(At(i).path)] = [kind |-> "link", to |-> At(i).host]
        BY <2>1, <3>1, <3>2, <3>3, <3>6, <4>2, KeptStays
      <4> QED  BY <3>1, <4>2, <4>3, <4>4
    <3> QED  BY <3>1, <3>2, <3>4, <3>5, <3>6 DEF PlacedInv
  <2> QED  BY <1>5, <2>2, <2>3, MkdirWrites
<1>6. CASE Symlink
  <2>1. PICK m \in Linking : m = mount
    BY <1>6, SymlinkWrites
  <2>2. call.pc = "link" /\ call.next <= Len(call.config.mounts)
    BY <1>6, SymlinkWrites
  <2>3. CASE call' = [call EXCEPT !.pc = "error"]
    BY <1>0, <1>1, <2>3 DEF CallIsRecord
  <2>4. CASE /\ call' = [call EXCEPT !.pc = "mount", !.next = @ + 1]
             /\ fs' = [fs EXCEPT ![resolve(mount.path)] = [kind |-> "link", to |-> mount.host]]
    <3>1. PICK r \in Path : r = resolve(m.path)
      BY <1>0, PlaceIs
    <3>2. /\ call'.pc = "mount" /\ call'.config = call.config /\ call'.next = call.next + 1
          /\ call'.placed = call.placed
      BY <1>0, <2>4 DEF CallIsRecord
    <3>3. Len(call.placed) = call.next /\ call.placed[call.next] = r
      BY <2>1, <2>2, <3>1 DEF PlacedInv
    <3>4. /\ \A p \in Path : p # r => fs'[p] = fs[p]
          /\ fs'[r] = [kind |-> "link", to |-> m.host]
      BY <1>0, <2>1, <2>4, <3>1
    <3>5. resolve(m.path)' = r
      BY <1>0, <3>1, <3>4, PlaceKept
    <3>6. ASSUME NEW i \in 1..(call.next - 1), Kept(i)'
          PROVE  /\ call'.placed[i] = resolve(At(i).path)'
                 /\ fs'[resolve(At(i).path)'] = [kind |-> "link", to |-> At(i)'.host]
      <4>1. Kept(i)
        BY <1>0, <3>2, <3>3, <3>6, KeptBefore
      <4>2. /\ call.placed[i] = resolve(At(i).path)
            /\ fs[resolve(At(i).path)] = [kind |-> "link", to |-> At(i).host]
        BY <2>2, <4>1 DEF PlacedInv
      <4>3. At(i)' = At(i)
        BY <3>2 DEF At
      <4>4. /\ resolve(At(i).path)' = resolve(At(i).path)
            /\ fs'[resolve(At(i).path)] = [kind |-> "link", to |-> At(i).host]
        BY <2>1, <2>2, <3>1, <3>2, <3>3, <3>4, <3>6, <4>2, KeptStays
      <4> QED  BY <3>2, <4>2, <4>3, <4>4
    <3>7. ASSUME NEW i \in Nat, i = call.next
          PROVE  /\ call'.placed[i] = resolve(At(i).path)'
                 /\ fs'[resolve(At(i).path)'] = [kind |-> "link", to |-> At(i)'.host]
      <4>1. At(i)' = m
        BY <2>1, <3>2, <3>7 DEF At, mount
      <4> QED  BY <3>2, <3>3, <3>4, <3>5, <3>7, <4>1
    <3>8. ASSUME NEW i \in 1..call.next, Kept(i)'
          PROVE  /\ call'.placed[i] = resolve(At(i).path)'
                 /\ fs'[resolve(At(i).path)'] = [kind |-> "link", to |-> At(i)'.host]
      <4>1. CASE i = call.next
        BY <1>0, <3>7, <4>1
      <4>2. CASE i # call.next
        <5>1. i \in 1..(call.next - 1)
          BY <1>0, <4>2
        <5> QED  BY <3>6, <3>8, <5>1
      <4> QED  BY <4>1, <4>2
    <3>9. call'.next - 1 = call.next
      BY <1>0, <3>2
    <3> QED  BY <3>2, <3>3, <3>8, <3>9 DEF PlacedInv
  <2> QED  BY <1>6, <2>3, <2>4, SymlinkWrites
<1>7. CASE WriteRecord
  <2>1. /\ call.pc = "mount" /\ call.next > Len(call.config.mounts)
        /\ call'.pc = "ok" /\ call'.config = call.config /\ call'.next = call.next
        /\ call'.placed = call.placed /\ fs' = fs
    BY <1>0, <1>7 DEF WriteRecord, CallIsRecord
  <2>2. ASSUME NEW i \in 1..(call.next - 1), Kept(i)'
        PROVE  /\ call'.placed[i] = resolve(At(i).path)'
               /\ fs'[resolve(At(i).path)'] = [kind |-> "link", to |-> At(i)'.host]
    <3>1. At(i)' = At(i) /\ Kept(i)
      BY <2>1, <2>2 DEF At, Kept, Takes, passedOver
    <3>2. resolve(At(i).path)' = resolve(At(i).path)
      BY <2>1, <3>1 DEF resolve, links
    <3> QED  BY <2>1, <3>1, <3>2 DEF PlacedInv
  <2> QED  BY <2>1, <2>2 DEF PlacedInv
<1>8. CASE Refuse \/ Answer
  <2>1. call'.pc \in {"idle", "error"}
    BY <1>0, <1>8 DEF Refuse, Answer, Fail, NoCall, CallIsRecord
  <2> QED  BY <1>1, <2>1
<1>9. CASE UNCHANGED vars
  <2>1. UNCHANGED <<fs, call>>
    BY <1>9 DEF vars
  <2> QED  BY ZenonT(60), <2>1 DEF PlacedInv, Kept, Takes, At, mount, passedOver, resolve, links
<1> QED  BY <1>2, <1>3, <1>4, <1>5, <1>6, <1>7, <1>8, <1>9 DEF Next

\* A container that was created finds every mount it may have, for any number of
\* mounts, volumes and containers before it, unless one after it took the place.
THEOREM MountedCorrect == Spec => []MountedIsLinked
<1>1. Init => PlacedInv
  BY DEF Init, NoCall, PlacedInv
<1>2. ConfigInv /\ PlacedInv => MountedIsLinked
  <2> SUFFICES ASSUME ConfigInv, PlacedInv, call.pc = "ok", NEW i \in DOMAIN call.config.mounts,
                      At(i).host # At(i).path, At(i).path \notin Disallowed,
                      \A j \in (i + 1)..Len(call.placed) : ~Takes(j, i)
               PROVE  fs[resolve(At(i).path)] = [kind |-> "link", to |-> At(i).host]
    BY DEF MountedIsLinked, At
  <2>1. /\ call.config \in Configs /\ Len(call.config.mounts) \in Nat
        /\ call.next \in 1..(Len(call.config.mounts) + 1)
        /\ DOMAIN call.config.mounts = 1..Len(call.config.mounts)
    BY MountIs DEF ConfigInv, TypeOK
  <2>2. i \in 1..(call.next - 1)
    BY <2>1 DEF PlacedInv
  <2>3. At(i).path \in Path
    BY <2>1, MountIs DEF At
  <2>4. Kept(i)
    BY <2>3, DisallowedIs DEF Kept, passedOver
  <2> QED  BY <2>2, <2>4 DEF PlacedInv
<1> QED  BY <1>1, <1>2, PlacedStep, ConfigCorrect, PTL DEF Spec

-----------------------------------------------------------------------------
(***************************************************************************)
(* The environment.                                                        *)
(***************************************************************************)
\* A set of natural numbers has a least one.
LEMMA LeastIs ==
  ASSUME NEW T \in SUBSET Nat, T # {}
  PROVE  \E n \in T : \A k \in T : n <= k
<1>1. PICK R : R = OpToRel(<, Nat)
  OBVIOUS
<1>2. IsWellFoundedOn(R, Nat)
  BY <1>1, NatLessThanWellFounded
<1>3. PICK n \in T : \A k \in T : ~(<<k, n>> \in R)
  BY <1>2, WFMin
<1>4. ASSUME NEW k \in T PROVE n <= k
  <2>1. <<k, n>> \in R <=> k < n
    BY <1>1 DEF OpToRel
  <2> QED  BY <1>3, <2>1
<1> QED  BY <1>4

Pairs == [key: STRING, value: STRING]

\* A variable that is in a list is there for a last time.
LEMMA LastIs ==
  ASSUME NEW s \in Seq(Pairs), NEW key, NEW f \in 1..Len(s), s[f].key = key
  PROVE  \E i \in 1..Len(s) : s[i].key = key /\ \A j \in (i + 1)..Len(s) : s[j].key # key
<1>1. Len(s) \in Nat
  BY LenProperties
<1>2. PICK T \in SUBSET Nat : T = {n \in Nat : n < Len(s) /\ s[Len(s) - n].key = key}
  OBVIOUS
<1>3. Len(s) - f \in T
  BY <1>1, <1>2
<1>4. PICK n \in T : \A k \in T : n <= k
  BY <1>3, LeastIs
<1>5. PICK i : i = Len(s) - n
  OBVIOUS
<1>6. i \in 1..Len(s) /\ s[i].key = key
  BY <1>1, <1>2, <1>4, <1>5
<1>7. ASSUME NEW j \in (i + 1)..Len(s), s[j].key = key PROVE FALSE
  <2>1. PICK k : k = Len(s) - j
    OBVIOUS
  <2>2. k \in Nat /\ k < n /\ k < Len(s) /\ Len(s) - k = j
    BY <1>1, <1>2, <1>5, <1>6, <2>1
  <2>3. k \in T
    BY <1>2, <1>7, <2>2
  <2> QED  BY <1>2, <1>4, <2>2, <2>3
<1> QED  BY <1>6, <1>7

\* What exec takes is the last of the values.
LEMMA EffectiveIs ==
  ASSUME NEW env \in Seq(Pairs), NEW key, NEW l \in 1..Len(env),
         env[l].key = key, \A j \in (l + 1)..Len(env) : env[j].key # key
  PROVE  effective(env, key) = env[l].value
<1>1. Len(env) \in Nat /\ DOMAIN env = 1..Len(env)
  BY LenProperties
<1>2. ASSUME NEW i \in DOMAIN env, env[i].key = key,
             \A j \in (i + 1)..Len(env) : env[j].key # key
      PROVE  i = l
  BY <1>1, <1>2
<1> QED  BY <1>1, <1>2 DEF effective

\* makeEnvList adds every default that was not asked for, once.
LEMMA EnvListIs ==
  ASSUME NEW envs \in Seq(Pairs), NEW env \in envLists(envs)
  PROVE  LET asked == {envs[i].key : i \in DOMAIN envs} IN
         /\ env \in Seq(Pairs)
         /\ \A key \in asked : effective(env, key) = effective(envs, key)
         /\ \A key \in DOMAIN Defaults \ asked : effective(env, key) = Defaults[key]
<1>0. PICK asked : asked = {envs[i].key : i \in DOMAIN envs}
  OBVIOUS
<1>1. Len(envs) \in Nat /\ DOMAIN envs = 1..Len(envs)
  BY LenProperties
<1>2. PICK missing : missing = DOMAIN Defaults \ asked
  OBVIOUS
<1>3. PICK keys \in SetToSeqs(missing) : env = envs \o [i \in DOMAIN keys |-> pair(keys[i])]
  BY <1>0, <1>2 DEF envLists
<1>4. PICK n : n = Cardinality(missing)
  OBVIOUS
<1>5. IsFiniteSet(missing) /\ n \in Nat
  BY <1>2, <1>4, DefaultsAssumption, FS_Difference, FS_CardinalityType
<1>6. keys \in [1..n -> missing] /\ \A i, j \in 1..n : i # j => keys[i] # keys[j]
  BY <1>4 DEF SetToSeqs
<1>7. \A key \in missing : \E k \in 1..n : keys[k] = key
  <2>1. keys \in Injection(1..n, missing)
    BY <1>6 DEF Injection, IsInjective
  <2>2. Cardinality(1..n) = n
    BY <1>5, FS_Interval
  <2>3. keys \in Surjection(1..n, missing)
    BY <1>4, <1>5, <2>1, <2>2, FS_Injection
  <2> QED  BY <2>3 DEF Surjection
<1>8. PICK rest : rest = [i \in 1..n |-> pair(keys[i])]
  OBVIOUS
<1>9. /\ rest \in Seq(Pairs) /\ Len(rest) = n
      /\ \A i \in 1..n : rest[i].key = keys[i] /\ rest[i].value = Defaults[keys[i]]
  <2>1. \A key \in missing : pair(key) \in Pairs /\ pair(key).key = key /\ pair(key).value = Defaults[key]
    BY <1>2, DefaultsAssumption DEF pair, Pairs
  <2>2. rest \in [1..n -> Pairs]
    BY <1>6, <1>8, <2>1
  <2> QED  BY <1>5, <1>6, <1>8, <2>1, <2>2
<1>10. env = envs \o rest
  BY <1>3, <1>6, <1>8
<1>11. /\ env \in Seq(Pairs) /\ Len(env) = Len(envs) + n
       /\ \A i \in 1..(Len(envs) + n) : env[i] = IF i <= Len(envs) THEN envs[i] ELSE rest[i - Len(envs)]
  BY <1>9, <1>10, ConcatProperties
<1>12. \A j \in (Len(envs) + 1)..Len(env) : env[j].key = keys[j - Len(envs)] /\ j - Len(envs) \in 1..n
  BY <1>1, <1>5, <1>9, <1>11
<1>13. ASSUME NEW key \in asked PROVE effective(env, key) = effective(envs, key)
  <2>1. PICK f \in 1..Len(envs) : envs[f].key = key
    BY <1>0, <1>1, <1>13
  <2>2. PICK l \in 1..Len(envs) : envs[l].key = key /\ \A j \in (l + 1)..Len(envs) : envs[j].key # key
    BY <2>1, LastIs
  <2>3. effective(envs, key) = envs[l].value
    BY <2>2, EffectiveIs
  <2>4. l \in 1..Len(env) /\ env[l] = envs[l]
    BY <1>1, <1>5, <1>11
  <2>5. ASSUME NEW j \in (l + 1)..Len(env) PROVE env[j].key # key
    <3>1. CASE j <= Len(envs)
      BY <1>1, <1>5, <1>11, <2>2, <3>1
    <3>2. CASE j > Len(envs)
      <4>1. j \in (Len(envs) + 1)..Len(env)
        BY <1>1, <1>5, <1>11, <3>2
      <4>2. env[j].key \in missing
        BY <1>6, <1>12, <4>1
      <4> QED  BY <1>2, <1>13, <4>2
    <3>3. j <= Len(envs) \/ j > Len(envs)
      BY <1>1
    <3> QED  BY <3>1, <3>2, <3>3
  <2>6. effective(env, key) = env[l].value
    BY <1>11, <2>2, <2>4, <2>5, EffectiveIs
  <2> QED  BY <2>3, <2>4, <2>6
<1>14. ASSUME NEW key \in missing PROVE effective(env, key) = Defaults[key]
  <2>1. PICK k \in 1..n : keys[k] = key
    BY <1>7
  <2>2. PICK l : l = Len(envs) + k
    OBVIOUS
  <2>3. l \in 1..Len(env) /\ env[l] = rest[k]
    <3>1. l \in 1..Len(env) /\ l > Len(envs) /\ l - Len(envs) = k
      BY <1>1, <1>5, <1>11, <2>2
    <3> QED  BY <1>1, <1>11, <3>1
  <2>4. ASSUME NEW j \in (l + 1)..Len(env) PROVE env[j].key # key
    <3>1. j \in (Len(envs) + 1)..Len(env) /\ j - Len(envs) # k
      BY <1>1, <1>5, <1>11, <2>2
    <3> QED  BY <1>6, <1>12, <2>1, <3>1
  <2>5. env[l].key = key
    BY <1>9, <2>1, <2>3
  <2>6. effective(env, key) = env[l].value
    BY <1>11, <2>3, <2>4, <2>5, EffectiveIs
  <2> QED  BY <1>9, <2>1, <2>3, <2>6
<1> QED  BY <1>0, <1>2, <1>11, <1>13, <1>14

\* A container that was created has an environment of makeEnvList.
EnvMade == call.pc = "ok" => call.env \in envLists(call.config.envs)

LEMMA EnvStep == ConfigInv /\ EnvMade /\ [Next]_vars => EnvMade'
<1> SUFFICES ASSUME ConfigInv, EnvMade, [Next]_vars PROVE EnvMade'
  OBVIOUS
<1>0. CallIsRecord
  BY DEF ConfigInv
<1>1. CASE WriteRecord
  <2>1. PICK env \in envLists(call.config.envs) : call' = [call EXCEPT !.pc = "ok", !.env = env]
    BY <1>1 DEF WriteRecord
  <2>2. call'.env = env /\ call'.config = call.config
    BY <1>0, <2>1 DEF CallIsRecord
  <2> QED  BY <2>2 DEF EnvMade, envLists
<1>2. CASE UNCHANGED vars
  BY <1>2 DEF vars, EnvMade
<1>3. ASSUME call'.pc # "ok" PROVE EnvMade'
  BY <1>3 DEF EnvMade
<1>4. ASSUME NEW config \in Configs, CreateContainer(config) PROVE call'.pc # "ok"
  BY <1>4 DEF CreateContainer, NoCall
<1>5. ASSUME SkipMount PROVE call'.pc # "ok"
  BY <1>0, <1>5 DEF SkipMount, AtMount, CallIsRecord
<1>6. ASSUME MkdirAll PROVE call'.pc # "ok"
  BY <1>0, <1>6, MkdirWrites DEF CallIsRecord
<1>7. ASSUME Symlink PROVE call'.pc # "ok"
  BY <1>0, <1>7, SymlinkWrites DEF CallIsRecord
<1>8. ASSUME RemovePath PROVE call'.pc # "ok"
  BY <1>0, <1>8, RemoveWrites DEF CallIsRecord
<1>9. ASSUME Refuse \/ Answer PROVE call'.pc # "ok"
  BY <1>0, <1>9 DEF Refuse, Answer, Fail, NoCall, CallIsRecord
<1> QED  BY <1>1, <1>2, <1>3, <1>4, <1>5, <1>6, <1>7, <1>8, <1>9 DEF Next

\* The program of a container that was created sees the last value the container
\* asked for of every variable, and the default of every other one.
THEOREM EnvCorrect == Spec => []EnvIsAsked
<1>1. Init => EnvMade
  BY DEF Init, NoCall, EnvMade
<1>2. ConfigInv /\ EnvMade => EnvIsAsked
  <2> SUFFICES ASSUME ConfigInv, call.pc = "ok", call.env \in envLists(call.config.envs)
               PROVE  EnvIsAsked
    BY DEF EnvMade, EnvIsAsked
  <2>1. call.config.envs \in Seq(Pairs)
    BY ConfigsAssumption DEF ConfigInv, TypeOK, Pairs
  <2> QED  BY <2>1, EnvListIs DEF EnvIsAsked
<1> QED  BY <1>1, <1>2, EnvStep, ConfigCorrect, PTL DEF Spec

=============================================================================

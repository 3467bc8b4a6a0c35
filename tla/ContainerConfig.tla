-------------------------- MODULE ContainerConfig --------------------------
(***************************************************************************)
(* What CreateContainer does with a container's configuration before it    *)
(* writes a record: it symlinks every mount into the host's file system,   *)
(* one system call at a time, and makes the environment.                   *)
(*                                                                         *)
(* A path is its components, which is what splitPath makes of it.  The     *)
(* containers share the host's file system and nothing ever removes a      *)
(* symlink again, so a later container finds what earlier ones mounted,    *)
(* and a path below a mounted one leads into the volume.                   *)
(*                                                                         *)
(* One CreateContainer at a time; RuntimeService has the rest of it.       *)
(***************************************************************************)
EXTENDS Naturals, SequencesExt

CONSTANTS
  Path,           \* the paths of the file system below the root
  World,          \* the kind of each path at first: "none", "file" or "dir"
  Configs,        \* the configurations clients send: mounts and envs
  AllowList,      \* containerPathAllowList
  DisallowList,   \* containerPathDisallowList
  Defaults        \* defaultEnvMap: the variables every container gets

ASSUME WorldAssumption == World \in [Path -> {"none", "file", "dir"}]

ASSUME ConfigsAssumption ==
  /\ Configs # {}
  /\ Configs \subseteq [mounts: Seq([host: Path, path: Path]),
                       envs: Seq([key: STRING, value: STRING])]

ASSUME DefaultsAssumption ==
  /\ IsFiniteSet(DOMAIN Defaults) /\ DOMAIN Defaults \subseteq STRING
  /\ Defaults \in [DOMAIN Defaults -> STRING]

VARIABLES
  fs,     \* the file system: what is at each path
  call    \* the CreateContainer in progress

vars == <<fs, call>>

Node == [kind: {"none", "file", "dir", "link"}, to: Path \cup {<<>>}]
node(kind) == [kind |-> kind, to |-> <<>>]

\* A call: where it is, its configuration, the mount it is at, its environment.
\* Two ghosts: before is the file system that it found, and placed is where its
\* mounts so far were put, <<>> for one that was passed over.
NoCall == [pc |-> "idle", config |-> CHOOSE c \in Configs : TRUE, next |-> 1, env |-> <<>>,
           before |-> <<>>, placed |-> <<>>]

Init ==
  /\ fs = [p \in Path |-> node(World[p])]
  /\ call = NoCall

\* An operator Wrong_X is no part of the specification: it is X with a plausible
\* bug, and a property that is listed for it fails when it takes X's place.

-----------------------------------------------------------------------------
(***************************************************************************)
(* The path rules.                                                         *)
(***************************************************************************)
Wrong_isInsidePath(p1, p2) == p1 = p2

isInsidePath(p1, p2) ==
  /\ Len(p2) <= Len(p1)
  /\ \A i \in DOMAIN p2 : p1[i] = p2[i]

isPathAllowed(path) ==
  \/ \E allowed \in AllowList : isInsidePath(path, allowed)
  \/ \A disallowed \in DisallowList : ~isInsidePath(path, disallowed)

\* A mount of a path on itself, and one that is not allowed, are passed over.
passedOver(m) == m.host = m.path \/ ~isPathAllowed(m.path)

-----------------------------------------------------------------------------
(***************************************************************************)
(* The file system.  A path of which a proper prefix is a symlink leads    *)
(* elsewhere.                                                              *)
(***************************************************************************)
properPrefixes(path) == {SubSeq(path, 1, n) : n \in 1..(Len(path) - 1)}

\* A path is its components, and the path of every directory above one is there.
ASSUME PathAssumption ==
  /\ Path \subseteq Seq(UNION {Range(p) : p \in Path})
  /\ <<>> \notin Path
  /\ \A p \in Path : properPrefixes(p) \subseteq Path

\* The lists are paths, and what is disallowed above an allowed path is there.
ASSUME ListsAssumption ==
  /\ AllowList \cup DisallowList \subseteq Path
  /\ \A allowed \in AllowList : \A q \in properPrefixes(allowed) :
       isPathAllowed(q) \/ World[q] = "dir"

\* The mounts that make symlinks.
Linking ==
  {m \in UNION {Range(c.mounts) : c \in Configs} : ~passedOver(m)}

\* The path rules look at the names of paths, so they say nothing about a volume
\* with a disallowed path in it; no client mounts one here.  Nor does one mount
\* at a path that is in a volume or above one.
ASSUME VolumesAssumption ==
  \A m \in Linking : \A path \in DisallowList \cup {other.path : other \in Linking} :
    ~isInsidePath(m.host, path) /\ ~isInsidePath(path, m.host)

\* Where a path leads when q above it is a symlink to host, and all that the
\* paths of mounts lead to.
through(path, q, host) == host \o SubSeq(path, Len(q) + 1, Len(path))
Through ==
  {through(ms[1].path, ms[2].path, ms[2].host) :
     ms \in {ms \in Linking \X Linking : ms[2].path \in properPrefixes(ms[1].path)}}

\* A volume has no symlink on the way to where a mount leads, so resolving a
\* path once is enough.
ASSUME ThroughAssumption ==
  Through \subseteq Path /\ \A path \in Through : properPrefixes(path) \cap Through = {}

links(path) == {q \in properPrefixes(path) : fs[q].kind = "link"}
first(qs) == CHOOSE q \in qs : TRUE

resolve(path) ==
  IF links(path) = {} THEN path
  ELSE LET q == first(links(path)) IN through(path, q, fs[q].to)

exists(path) == resolve(path) \in Path /\ fs[resolve(path)].kind # "none"
hasEntries(path) == \E q \in Path : path \in properPrefixes(q) /\ fs[q].kind # "none"

\* os.Stat, which follows a symlink at the end of the path too.
isDirectory(path) ==
  exists(path) /\ LET n == fs[resolve(path)] IN
                  IF n.kind = "link" THEN fs[n.to].kind = "dir" ELSE n.kind = "dir"

-----------------------------------------------------------------------------
mount == call.config.mounts[call.next]

CreateContainer(config) ==
  /\ call.pc = "idle"
  /\ call' = [NoCall EXCEPT !.pc = "mount", !.config = config, !.before = fs]
  /\ UNCHANGED fs

AtMount == call.pc = "mount" /\ call.next <= Len(call.config.mounts)

\* The call fails, because of what it finds or because the system call fails.
Fail == call' = [call EXCEPT !.pc = "error"]

Wrong_SkipMount ==
  /\ AtMount /\ passedOver(mount)
  /\ call' = [call EXCEPT !.next = @ + 2, !.placed = Append(@, <<>>)]
  /\ UNCHANGED fs

SkipMount ==
  /\ AtMount /\ passedOver(mount)
  /\ call' = [call EXCEPT !.next = @ + 1, !.placed = Append(@, <<>>)]
  /\ UNCHANGED fs

\* os.Remove: a file, a symlink or an empty directory; anything else fails.
removable(path) == exists(path) /\ ~hasEntries(resolve(path))

Wrong_RemovePath ==
  /\ AtMount /\ ~passedOver(mount)
  /\ fs' = [p \in Path |-> IF isInsidePath(p, resolve(mount.path)) THEN node("none") ELSE fs[p]]
  /\ call' = [call EXCEPT !.pc = "mkdir", !.placed = Append(@, resolve(mount.path))]

RemovePath ==
  /\ AtMount /\ ~passedOver(mount)
  /\ \/ Fail /\ UNCHANGED fs
     \/ /\ removable(mount.path)
        /\ fs' = [fs EXCEPT ![resolve(mount.path)] = node("none")]
        /\ call' = [call EXCEPT !.pc = "mkdir", !.placed = Append(@, resolve(mount.path))]

\* os.MkdirAll of the parent: a prefix that is missing is made, the shortest
\* first, up to one that is no directory or cannot be made.
made(prefixes) ==
  LET dirs == {resolve(q) : q \in {q \in prefixes : ~exists(q)}}
  IN [p \in Path |-> IF p \in dirs THEN node("dir") ELSE fs[p]]

MkdirAll ==
  LET prefixes == properPrefixes(mount.path) IN
  /\ call.pc = "mkdir"
  /\ \/ /\ Fail
        /\ \E n \in 1..Len(mount.path) :
             LET upto == {q \in prefixes : Len(q) < n} IN
             /\ \A q \in upto : exists(q) => isDirectory(q)
             /\ fs' = made(upto)
     \/ /\ \A q \in prefixes : exists(q) => isDirectory(q)
        /\ fs' = made(prefixes)
        /\ call' = [call EXCEPT !.pc = "link"]

Wrong_Symlink ==
  /\ call.pc = "link"
  /\ fs' = [fs EXCEPT ![resolve(mount.path)] = [kind |-> "link", to |-> mount.host]]
  /\ call' = [call EXCEPT !.pc = "mount", !.next = Len(call.config.mounts) + 1]

Symlink ==
  /\ call.pc = "link"
  /\ \/ Fail /\ UNCHANGED fs
     \/ /\ ~exists(mount.path)
        /\ fs' = [fs EXCEPT ![resolve(mount.path)] = [kind |-> "link", to |-> mount.host]]
        /\ call' = [call EXCEPT !.pc = "mount", !.next = @ + 1]

-----------------------------------------------------------------------------
(***************************************************************************)
(* makeEnvList: the variables that were asked for, in their order, then    *)
(* the defaults that were not, in the random order of a Go map.            *)
(***************************************************************************)
pair(key) == [key |-> key, value |-> Defaults[key]]

Wrong_envLists(envs) ==
  {envs \o [i \in DOMAIN keys |-> pair(keys[i])] : keys \in SetToSeqs(DOMAIN Defaults)}

envLists(envs) ==
  LET missing == DOMAIN Defaults \ {envs[i].key : i \in DOMAIN envs}
  IN {envs \o [i \in DOMAIN keys |-> pair(keys[i])] : keys \in SetToSeqs(missing)}

\* All mounts are done: the record is written, with this environment.
WriteRecord ==
  /\ call.pc = "mount" /\ call.next > Len(call.config.mounts)
  /\ \E env \in envLists(call.config.envs) : call' = [call EXCEPT !.pc = "ok", !.env = env]
  /\ UNCHANGED fs

\* The sandbox does not exist or is not READY, which only comes after the mounts.
Refuse ==
  /\ call.pc = "mount" /\ call.next > Len(call.config.mounts)
  /\ Fail
  /\ UNCHANGED fs

Answer ==
  /\ call.pc \in {"ok", "error"}
  /\ call' = NoCall
  /\ UNCHANGED fs

Next ==
  \/ \E config \in Configs : CreateContainer(config)
  \/ SkipMount \/ RemovePath \/ MkdirAll \/ Symlink
  \/ WriteRecord \/ Refuse \/ Answer

Spec == Init /\ [][Next]_vars

-----------------------------------------------------------------------------
\* The file system and the call hold values of their types.
TypeOK ==
  /\ fs \in [Path -> Node]
  /\ call.pc \in {"idle", "mount", "mkdir", "link", "ok", "error"}
  /\ call.config \in Configs
  /\ call.next \in 1..(Len(call.config.mounts) + 1)
  /\ call.placed \in Seq(Path \cup {<<>>})

\* The paths that are one of tops or below one, and those no mount may be at.
Below(tops) == {p \in Path : \E top \in tops, n \in 1..(Len(p) + 1) : p = top \o SubSeq(p, n, Len(p))}
Disallowed == Below(DisallowList) \ Below(AllowList)

\* A path that is disallowed or below one that is, and is not allowed again, is
\* never touched, whatever volumes are mounted in which order.
DisallowedIsUntouched ==
  [][\A p \in Disallowed : fs'[p] = fs[p]]_vars

\* Mount j was put where mount i was, or above the path of mount i.
Takes(j, i) ==
  /\ call.placed[j] # <<>>
  /\ \/ call.placed[j] = call.placed[i]
     \/ isInsidePath(call.config.mounts[i].path, call.config.mounts[j].path)

\* Once CreateContainer has succeeded, the container finds each mount it may
\* have at its path, unless a later mount of the same container has taken the
\* path or one above it; by its name, or in a volume that is mounted twice.
MountedIsLinked ==
  call.pc = "ok" =>
    \A i \in DOMAIN call.config.mounts :
      LET m == call.config.mounts[i] IN
      /\ m.host # m.path /\ m.path \notin Disallowed
      /\ \A j \in (i + 1)..Len(call.placed) : ~Takes(j, i)
      => fs[resolve(m.path)] = [kind |-> "link", to |-> m.host]

\* CreateContainer replaces what it finds and loses no path, even when it is
\* refused in the end or fails after some of its mounts; except for the path of
\* the mount at which a system call failed, which may have been removed by then.
NothingIsLost ==
  LET lost == {p \in Path : call.before[p].kind # "none" /\ fs[p].kind = "none"} IN
  /\ call.pc = "ok" => lost = {}
  /\ call.pc = "error" =>
       lost \subseteq IF call.next <= Len(call.config.mounts) THEN {resolve(mount.path)} ELSE {}

\* exec takes the last of several values of a variable.
effective(env, key) ==
  env[CHOOSE i \in DOMAIN env : /\ env[i].key = key
                                /\ \A j \in (i + 1)..Len(env) : env[j].key # key].value

\* The program sees the value the container asked for, and else the default.
EnvIsAsked ==
  call.pc = "ok" =>
    LET envs == call.config.envs
        asked == {envs[i].key : i \in DOMAIN envs}
    IN /\ \A key \in asked : effective(call.env, key) = effective(envs, key)
       /\ \A key \in DOMAIN Defaults \ asked : effective(call.env, key) = Defaults[key]

=============================================================================

------------------------- MODULE MCContainerConfig -------------------------
(***************************************************************************)
(* ContainerConfig on a small file system.  /a is an empty directory and   *)
(* /d one with a file /d/b in it; /h and /g are volumes, and /h has a file *)
(* /h/b, so that /a/b is there once /h is mounted at /a.  /e is            *)
(* disallowed, /ex is not, and /e/y is allowed again.                      *)
(***************************************************************************)
EXTENDS ContainerConfig

MCPath == {<<"a">>, <<"a", "b">>, <<"d">>, <<"d", "b">>, <<"e">>, <<"e", "x">>, <<"e", "y">>,
           <<"ex">>, <<"ex", "b">>, <<"h">>, <<"h", "b">>, <<"g">>, <<"g", "b">>}

MCWorld ==
  [p \in MCPath |->
     CASE p \in {<<"d", "b">>, <<"e", "x">>, <<"e", "y">>, <<"ex">>, <<"h", "b">>} -> "file"
       [] p \in {<<"a", "b">>, <<"ex", "b">>, <<"g", "b">>} -> "none"
       [] OTHER -> "dir"]

H == <<"h">>
G == <<"g">>
at(host, path) == [host |-> host, path |-> path]

Mounts ==
  {<<>>, <<at(H, H)>>, <<at(H, <<"a">>)>>, <<at(G, <<"a">>), at(G, <<"a", "b">>)>>,
   <<at(G, <<"a", "b">>)>>,
   <<at(H, <<"a">>), at(H, <<"ex">>), at(G, <<"a", "b">>), at(H, <<"ex", "b">>)>>, <<at(G, <<"d", "b">>), at(H, <<"d">>)>>,
   <<at(G, <<"e">>), at(H, <<"ex">>), at(H, <<"e", "x">>)>>,
   <<at(H, <<"e", "y">>), at(G, <<"e", "y">>)>>}

env(key, value) == [key |-> key, value |-> value]
Envs == {<<>>, <<env("HOME", "x")>>, <<env("A", "1"), env("TERM", "t"), env("A", "2")>>}

MCConfigs == [mounts: Mounts, envs: Envs]
MCAllowList == {<<"e", "y">>}
MCDisallowList == {<<"e">>}
MCDefaults == [HOME |-> "/", TERM |-> "xterm", PATH |-> "/bin"]
=============================================================================

----------------------------- MODULE MCPackages -----------------------------
(***************************************************************************)
(* An app, a lib and a util with versions on both sides of a major         *)
(* boundary.  Their manifests differ in what they depend on and in which   *)
(* order: a chain, a diamond with equal and with different requirements,   *)
(* a requirement nothing matches, and two cycles.                          *)
(***************************************************************************)
EXTENDS Packages

Caret(name, major, minor) ==
    [name |-> name, req |-> [exact |-> FALSE, version |-> <<major, minor>>]]
Exact(name, major, minor) ==
    [name |-> name, req |-> [exact |-> TRUE, version |-> <<major, minor>>]]

Published(name, major, minor, deps, content) ==
    [name |-> name, version |-> <<major, minor>>, deps |-> deps, content |-> content]

MCManifests ==
    {Published("app", 1, 0, deps, "c1") :
        deps \in {<<Caret("lib", 1, 0), Caret("util", 1, 0)>>,
                  <<Caret("util", 2, 0), Caret("lib", 1, 0)>>,
                  <<Exact("lib", 1, 0), Caret("lib", 1, 0)>>,
                  <<Caret("lib", 2, 0)>>}}
    \cup {Published("app", 1, 1, <<Caret("lib", 1, 1)>>, content) :
            content \in {"c1", "c2"}}
    \cup {Published("lib", 1, 0, deps, "c1") :
            deps \in {<<>>, <<Caret("util", 1, 1)>>}}
    \cup {Published("lib", 1, 1, deps, "c1") :
            deps \in {<<Exact("util", 1, 0)>>, <<Caret("app", 1, 0)>>}}
    \cup {Published("lib", 2, 0, <<Caret("util", 2, 0)>>, "c1")}
    \cup {Published("util", 1, 0, <<>>, content) : content \in {"c1", "c2"}}
    \cup {Published("util", 1, 1, <<>>, "c1")}
    \cup {Published("util", 2, 0, deps, "c1") : deps \in {<<>>, <<Caret("lib", 2, 0)>>}}
=============================================================================

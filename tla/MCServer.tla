------------------------------ MODULE MCServer ------------------------------
(***************************************************************************)
(* Instances of Server: two listeners, two connections that can be made    *)
(* again and again, and requests with each way a child can end.            *)
(***************************************************************************)
EXTENDS Server, TLC

CONSTANTS p1, p2, c1, c2, l1, l2, nofile, staticfile, nopath

MCPid == {p1, p2}
OnePid == {p1}
TwoConns == {c1, c2}
MCListener == {l1, l2}
MCListenOrder == <<l1, l2>>
MCListenFd == (l1 :> 3) @@ (l2 :> 4)
\* Room for the listeners and two or one connections in the parent.
MCFdNum == 3 .. 6
TightFdNum == 3 .. 5

MCPath == {"/", "/index.html", "/lol"}
MCPattern == {"/lol", "/*"}
MCHandler == {"lol", "static"}
MCGlob == [q \in MCPattern |-> IF q = "/*" THEN MCPath ELSE {q}]
MCResult == ("lol" :> "payload") @@ ("static" :> "static")
MCFuncs == << [path |-> "/lol", meth |-> <<"GET">>, handler |-> "lol"],
              [path |-> "/*", meth |-> <<"GET">>, handler |-> "static"] >>

Ask(method, path) == [kind |-> "line", method |-> method, path |-> path, kept |-> path,
                      rest |-> << >>, cut |-> FALSE]
\* Served by a handler, and from a file.
OneLine == {Ask("GET", "/lol")}
FileLine == {Ask("GET", "/")}

MCRootish == {"/"}
MCDirective == {}
MCFileKind == [path \in MCPath |-> IF path = "/index.html" THEN "regular" ELSE "missing"]

Children2 == Permutations(MCPid)
=============================================================================

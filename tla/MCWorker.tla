------------------------------ MODULE MCWorker ------------------------------
(***************************************************************************)
(* Instances of Worker: one child, one connection, and the routes of the   *)
(* repository's routes/ and setup.lua next to ones with the other outcomes *)
(* a handler can have.                                                     *)
(***************************************************************************)
EXTENDS Worker, TLC

CONSTANTS p1, c1, l1, l2, nofile, staticfile, nopath

MCPid == {p1}
MCConn == {c1}
MCListener == {l1, l2}
MCListenFd == (l1 :> 3) @@ (l2 :> 4)
MCFdNum == 3 .. 6
\* The table is full when the child is forked.
TightFdNum == 3 .. 5

MCPath == {"/", "/index.html", "/lol", "/l/lom", "/quiet", "/boom",
           "/docs", "/none", "/empty", "/secret", "/page", "/%n", "*",
           "GET", "HTTP/1.1"}
MCPattern == {"/lol", "/l/lom", "/quiet", "/boom", "/*"}
MCHandler == {"lol", "lom", "quiet", "boom", "static"}
MCGlob == [q \in MCPattern |-> IF q = "/*" THEN MCPath \ {"*", "GET", "HTTP/1.1"} ELSE {q}]
MCResult == ("lol" :> "payload") @@ ("lom" :> "redirect") @@ ("quiet" :> "silent")
              @@ ("boom" :> "raises") @@ ("static" :> "static")

Entry(path, meth, handler) == [path |-> path, meth |-> meth, handler |-> handler]
MCFuncs == << Entry("/lol", <<"GET">>, "lol"),
              Entry("/l/lom", <<"GET", "POST">>, "lom"),
              Entry("/quiet", <<"GET">>, "quiet"),
              Entry("/boom", <<"GET">>, "boom"),
              Entry("/*", <<"GET">>, "static") >>

Ask(method, path) == [kind |-> "line", method |-> method, path |-> path, kept |-> path,
                      rest |-> <<"HTTP/1.1">>, cut |-> FALSE]
\* A path too long for the buffer, and one that ends where the buffer does.
Long(path, kept) == [Ask("GET", path) EXCEPT !.kept = kept, !.rest = << >>]
Cut(ask) == [ask EXCEPT !.cut = TRUE]
\* With the first word lost, these ask for another path and by another method.
Spaced == [Ask("POST", "/none") EXCEPT !.rest = <<"/lol">>]
Double == [Ask("POST", "GET") EXCEPT !.rest = <<"/page">>]
MCLine == { Short, Ask("UNKNOWN", "/lol"), Cut(Ask("GET", "/lol")), Cut(Ask("GET", "/page")),
            Long("/none", "/lol"), Cut(Long("/none", "/page")), Spaced, Double }
            \cup { Ask("GET", path) : path \in MCPath \ {"GET", "HTTP/1.1"} }
            \cup { Ask("POST", path) : path \in {"/lol", "/l/lom"} }
\* A line of each kind, where failures multiply the cases.
KeepLine == { Short, Cut(Long("/none", "/page")), Spaced, Double, Ask("GET", "/"),
              Ask("GET", "/lol"), Ask("POST", "/l/lom"), Ask("GET", "/quiet"),
              Ask("GET", "/%n") }
FewLines == { Short, Ask("GET", "/lol"), Ask("GET", "/"), Ask("GET", "/docs"),
              Ask("POST", "/lol") }

MCRootish == {"/", "*"}
MCDirective == {"/%n"}
MCFileKind == [path \in MCPath |->
                 CASE path \in {"/index.html", "/page"} -> "regular"
                   [] path \in {"/docs", "/"} -> "notreg"
                   [] path = "/empty" -> "empty"
                   [] path = "/secret" -> "unreadable"
                   [] OTHER -> "missing"]
\* A server root without an index.html.
NoIndexFileKind == [MCFileKind EXCEPT !["/index.html"] = "missing"]
=============================================================================

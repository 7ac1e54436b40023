------------------------------ MODULE MCRoutes ------------------------------
(***************************************************************************)
(* The scripts of routes/, one whose directory has the name of its method, *)
(* and the defaults of init.lua.                                           *)
(***************************************************************************)
EXTENDS Routes, TLC

MCScript == {"init", "lol.get", "l/empty.get", "l/lom.get", "l/lom.post", "get/x.get"}
MCWords == ("init" :> <<"init">>) @@ ("lol.get" :> <<"lol", "get">>)
        @@ ("l/empty.get" :> <<"l", "empty", "get">>)
        @@ ("l/lom.get" :> <<"l", "lom", "get">>)
        @@ ("l/lom.post" :> <<"l", "lom", "post">>)
        @@ ("get/x.get" :> <<"get", "x", "get">>)
MCUpper == ("get" :> "GET") @@ ("post" :> "POST") @@ ("init" :> "INIT")

Get(path, handler) == [path |-> path, meth |-> "GET", handler |-> handler]

MCCalls == [f \in MCScript |->
              IF f = "init" THEN << Get(<<"hello">>, "hello"), Get(<<"lol">>, "lom") >>
              ELSE << >>]
MCGives == [f \in MCScript |-> IF f \in {"init", "l/empty.get"} THEN "nil" ELSE f]
MCDefaults == << Get(<<"autoindex*">>, "autoindex"), Get(<<"*">>, "static") >>

MCHandler == {"hello", "lom", "lol.get", "l/lom.get", "l/lom.post", "get/x.get",
              "autoindex", "static"}
MCResult == [h \in MCHandler |->
               CASE h = "l/lom.get"  -> "redirect"
                 [] h = "l/lom.post" -> "nonstring"
                 [] h = "get/x.get"  -> "raises"
                 [] h = "static"     -> "static"
                 [] OTHER            -> "payload"]

MCPath == {<<"hello">>, <<"lol">>, <<"l", "lom">>, <<"autoindex">>, <<"x.html">>}
MCPattern == MCPath \cup {<< >>, <<"autoindex*">>, <<"*">>}
MCGlob == [q \in MCPattern |->
             CASE q = <<"*">>          -> MCPath
               [] q = <<"autoindex*">> -> {<<"autoindex">>}
               [] OTHER                -> MCPath \cap {q}]
MCBroken == {"l/empty.get", "lol.get"}

\* The instance meets what DefaultsHideNothingAlways asks of the scripts.
ASSUME MCScriptsAreOwn == OwnHandlers /\ OwnPaths
=============================================================================

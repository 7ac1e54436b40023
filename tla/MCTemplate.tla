----------------------------- MODULE MCTemplate -----------------------------
(***************************************************************************)
(* The shape of autoindex.html, and pages with each thing that can be      *)
(* wrong with the code in them: an error in a loop, a comment that takes   *)
(* its end away, an end without a loop, lines that do not join.            *)
(***************************************************************************)
EXTENDS Template, TLC

CONSTANT nopage

Open   == [mark |-> "open", code |-> "syntax"]
Close  == [mark |-> "close", code |-> "syntax"]
Html   == [mark |-> "none", code |-> "syntax"]
Do(what) == [mark |-> "none", code |-> what]

MCLines ==
  ("index" :> << Html, Open, Do("tag"), Close, Html,
                 Open, Do("for"), Do("tag"), Do("tag"), Do("end"), Do("tag"), Close, Html >>)
  @@ ("comment" :> << Open, Do("tag"), Do("comment"), Do("raises"), Close, Open, Do("fuses"), Close >>)
  @@ ("raises" :> << Html, Open, Do("tag"), Close, Open, Do("each"), Do("raises"), Close, Html >>)
  @@ ("inloop" :> << Open, Do("for"), Do("tag"), Do("raises"), Do("tag"), Do("end"), Do("tag"), Close, Html >>)
  @@ ("swallowed" :> << Open, Do("for"), Do("comment"), Do("end"), Close >>)
  @@ ("noloop" :> << Open, Do("tag"), Do("end"), Close >>)
  @@ ("fuses" :> << Html, Open, Do("fuses"), Do("tag"), Close >>)
  @@ ("percent" :> << Html, Open, Do("tag"), Do("percent"), Do("tag"), Close, Html >>)
  @@ ("last" :> << Open, Do("comment"), Do("percent"), Close, Html >>)
  @@ ("nested" :> << Html, Open, Do("tag"), Open, Close >>)
  @@ ("unclosed" :> << Open, Do("tag") >>)
  @@ ("trace" :> << Open, Do("percent") >>)
  @@ ("stray" :> << Close, Do("tag"), Do("percent") >>)
  @@ ("empty" :> << >>)
  @@ ("gone" :> << >>)
MCPage == DOMAIN MCLines
MCMissing == {"gone"}

\* Bound: any page is rendered first, and behind it those that find out what it leaves.
Again == {"index", "inloop", "raises", nopage}
MCNext == TemplateNext /\ (page = NoPage /\ results # << >> => page' \in Again)
MCSpec == TemplateInit /\ [][MCNext]_templateVars
=============================================================================

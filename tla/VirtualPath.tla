----------------------------- MODULE VirtualPath -----------------------------
(***************************************************************************)
(* virtual_path_resolv (src/lua/virtual_path.c): how the C side looks a    *)
(* request up in the Lua table _Funcs and what the handler it calls does.  *)
(*                                                                         *)
(* The table is a sequence of routes.  Matching is fnmatch(3), which is    *)
(* outside the repository: Glob[pattern] is the set of paths it accepts.   *)
(* Result[handler] is what calling the Lua handler amounts to.             *)
(***************************************************************************)
EXTENDS Naturals, Sequences

CONSTANTS
  Path,      \* request paths and paths below the server root
  Pattern,   \* the "path" fields of the registered routes
  Handler,   \* the registered handlers
  Glob,      \* fnmatch(pattern, path, FNM_NOESCAPE) = 0
  Result     \* what a handler does when it is called

(***************************************************************************)
(* What a handler can do, as the C code sees it:                           *)
(*   payload      returns a string, sent as the body                       *)
(*   redirect     SpecRet._301: writes the response itself ("$!HANDELD")   *)
(*   silent       SpecRet._404: writes nothing, returns "$!HANDELD"        *)
(*   static       traces the path, of which log_log makes a format, and    *)
(*                returns "$!STATIC" if that lets it (Crash in Worker)     *)
(*   nonstring    returns nil or a table                                   *)
(*   raises       raises a Lua error                                       *)
(*   notfunction  is not callable at all                                   *)
(***************************************************************************)
HandlerResult == {"payload", "redirect", "silent", "static",
                  "nonstring", "raises", "notfunction"}

ASSUME RoutesAssumption ==
  /\ Glob \in [Pattern -> SUBSET Path]
  /\ Result \in [Handler -> HandlerResult]

\* An entry of _Funcs: Add_Route always stores at least one method.
Route == [path : Pattern, meth : Seq(STRING) \ {<< >>}, handler : Handler]

Matching(funcs, path) == {i \in DOMAIN funcs : path \in Glob[funcs[i].path]}

\* The loop stops at the first entry that matches.
FirstMatch(funcs, path) ==
  CHOOSE i \in Matching(funcs, path) : \A j \in Matching(funcs, path) : i <= j

(***************************************************************************)
(* What virtual_path_resolv comes to.  NIL is its own return value; SEGV   *)
(* and ABRT kill the process; the rest name what the handler did.          *)
(*                                                                         *)
(* The method loop tests the first stored method only: on a mismatch it    *)
(* continues without popping the value, so the next lua_next(gL, -2) finds *)
(* the integer key where the table should be and dereferences it.          *)
(* strlen(NULL) is the fate of a result that lua_tostring cannot convert,  *)
(* and an error that leaves the unprotected lua_call panics into abort.    *)
(***************************************************************************)
Lookup == {"NIL", "SEGV", "ABRT", "payload", "redirect", "silent", "static"}

CallHandler(h) ==
  CASE Result[h] = "notfunction" -> "NIL"
    [] Result[h] = "nonstring"   -> "SEGV"
    [] Result[h] = "raises"      -> "ABRT"
    [] OTHER                     -> Result[h]

Resolve(funcs, method, path) ==
  IF Matching(funcs, path) = {} THEN "NIL"
  ELSE LET fn == funcs[FirstMatch(funcs, path)]
       IN  IF Head(fn.meth) # method THEN "SEGV" ELSE CallHandler(fn.handler)
==============================================================================

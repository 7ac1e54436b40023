------------------------------- MODULE Routes -------------------------------
(***************************************************************************)
(* How the table of routes comes about (simpleHttpdLua/init.lua): the      *)
(* scripts below the routes root are listed by scan_ (src/lua/scan.c) in   *)
(* the order of the directory, each is run, and its handler is added under *)
(* the path and the method that its name spells; the index of the file     *)
(* tree and the static server come last.  Requests are resolved by         *)
(* VirtualPath in the table that results.                                  *)
(*                                                                         *)
(* A path is the sequence of its words, and so is the name of a script.    *)
(***************************************************************************)
EXTENDS VirtualPath, FiniteSets

CONSTANTS
  Script,      \* the scripts below the routes root
  Words,       \* the words (%a+) of a script's name, the last one its method
  Calls,       \* the calls of Add_Route a script makes itself, as init.lua does
  Gives,       \* what dofile of a script gives: a handler, or NoHandler
  NoHandler,   \* nil
  Upper,       \* string.upper
  Defaults,    \* the routes of CreateAutoIndex and CreateStaticServer
  Broken       \* the scripts that may raise an error

\* A call of Add_Route.
Registration == [path : Pattern, meth : STRING, handler : Handler]

\* The words before the first one that is equal to the last: the loop stops there.
\* So a directory with the name of the method hides what follows it.
PathOf(words) ==
  LET meth == words[Len(words)]
      first == CHOOSE k \in DOMAIN words :
                 words[k] = meth /\ \A j \in 1 .. k - 1 : words[j] # meth
  IN  SubSeq(words, 1, first - 1)

Named(f) == [path    |-> PathOf(Words[f]),
             meth    |-> Upper[Words[f][Len(Words[f])]],
             handler |-> Gives[f]]

\* What running script f registers.
Registers(f) == Calls[f] \o IF Gives[f] = NoHandler THEN << >> ELSE << Named(f) >>

ASSUME ScriptsAssumption ==
  /\ IsFiniteSet(Script) /\ Broken \subseteq Script
  /\ NoHandler \notin Handler
  /\ Gives \in [Script -> Handler \cup {NoHandler}]
  /\ Calls \in [Script -> Seq(Registration)]
  /\ Defaults \in Seq(Registration)
  /\ \A f \in Script : /\ Words[f] # << >>
                       /\ Registers(f) \in Seq(Registration)

VARIABLES
  stage,    \* "scan", "scripts", "defaults", "ready" or "died"
  todo,     \* routes_scan, the scripts still to be run
  pending,  \* the calls of Add_Route still to be made
  funcs,    \* _Funcs
  added     \* history: the calls made

routesVars == <<stage, todo, pending, funcs, added>>

RoutesTypeOK ==
  /\ stage \in {"scan", "scripts", "defaults", "ready", "died"}
  /\ todo \in Seq(Script)
  /\ pending \in Seq(Registration)
  /\ funcs \in Seq(Route)
  /\ added \in Seq(Registration)

\* Mutant: the static server is set up before the routes are looked for.
RoutesInit_DefaultsFirst ==
  /\ stage = "scan" /\ todo = << >> /\ pending = Defaults
  /\ funcs = << >> /\ added = << >>

RoutesInit ==
  /\ stage = "scan" /\ todo = << >> /\ pending = << >>
  /\ funcs = << >> /\ added = << >>

-----------------------------------------------------------------------------
Orders(S) == {s \in [1 .. Cardinality(S) -> S] : \A f \in S : \E i \in DOMAIN s : s[i] = f}

\* nftw lists the directory in no particular order.  If it fails, the table holds
\* what it came to, and that is all the script looks at.
Scan ==
  /\ stage = "scan"
  /\ \E found \in SUBSET Script : todo' \in Orders(found)
  /\ stage' = "scripts"
  /\ UNCHANGED <<pending, funcs, added>>

RunScript ==
  /\ stage = "scripts" /\ pending = << >> /\ todo # << >>
  /\ pending' = Registers(Head(todo))
  /\ todo' = Tail(todo)
  /\ UNCHANGED <<stage, funcs, added>>

\* The chunk of lua_init raises again what xpcall caught, and lua_init raises that
\* where nothing catches it: Lua panics.
ScriptRaises ==
  /\ stage = "scripts" /\ pending = << >> /\ todo # << >>
  /\ Head(todo) \in Broken
  /\ stage' = "died"
  /\ UNCHANGED <<todo, pending, funcs, added>>

AddDefaults ==
  /\ stage = "scripts" /\ pending = << >> /\ todo = << >>
  /\ pending' = Defaults
  /\ stage' = "defaults"
  /\ UNCHANGED <<todo, funcs, added>>

\* The first entry with this path, if there is one.
Index(path) == {i \in DOMAIN funcs : funcs[i].path = path}

\* Mutant: the first method of a path is not stored.
NewEntry_NoMethod(r) == [path |-> r.path, meth |-> << >>, handler |-> r.handler]

NewEntry(r) == [path |-> r.path, meth |-> <<r.meth>>, handler |-> r.handler]

\* Mutant: the index of a new entry is not one behind the last.
Entered_OverLast(r) ==
  IF Index(r.path) = {}
  THEN IF funcs = << >> THEN << NewEntry(r) >>
       ELSE [funcs EXCEPT ![Len(funcs)] = NewEntry(r)]
  ELSE [i \in DOMAIN funcs |->
          IF i \in Index(r.path) THEN [funcs[i] EXCEPT !.meth = Append(@, r.meth)]
          ELSE funcs[i]]

\* Mutant: the newest handler of a path is kept, the oldest method leads.
Entered_Replaces(r) ==
  IF Index(r.path) = {} THEN Append(funcs, NewEntry(r))
  ELSE [i \in DOMAIN funcs |->
          IF i \in Index(r.path)
          THEN [funcs[i] EXCEPT !.meth = Append(@, r.meth), !.handler = r.handler]
          ELSE funcs[i]]

\* A path that is there already gets one more method, and its handler is dropped.
Entered(r) ==
  IF Index(r.path) = {} THEN Append(funcs, NewEntry(r))
  ELSE [i \in DOMAIN funcs |->
          IF i \in Index(r.path) THEN [funcs[i] EXCEPT !.meth = Append(@, r.meth)]
          ELSE funcs[i]]

Add_Route ==
  /\ stage \in {"scripts", "defaults"} /\ pending # << >>
  /\ funcs' = Entered(Head(pending))
  /\ added' = Append(added, Head(pending))
  /\ pending' = Tail(pending)
  /\ UNCHANGED <<stage, todo>>

Ready ==
  /\ stage = "defaults" /\ pending = << >>
  /\ stage' = "ready"
  /\ UNCHANGED <<todo, pending, funcs, added>>

RoutesNext == Scan \/ RunScript \/ ScriptRaises \/ AddDefaults \/ Add_Route \/ Ready

RoutesSpec == RoutesInit /\ [][RoutesNext]_routesVars

-----------------------------------------------------------------------------
\* A request is served as if every call of Add_Route had been kept: by the handler
\* of the first one whose pattern matches, if it asks with that one's method.
Candidates(path) == {k \in DOMAIN added : path \in Glob[added[k].path]}

FirstRegistered(path) ==
  added[CHOOSE k \in Candidates(path) : \A j \in Candidates(path) : k <= j]

ServesFirstRegistered ==
  \A path \in Path :
    IF Candidates(path) = {} THEN Matching(funcs, path) = {}
    ELSE LET r == FirstRegistered(path)
         IN  Resolve(funcs, r.meth, path) = CallHandler(r.handler)

\* Nothing registered is lost or doubled on the way: there is one entry for every
\* path, and its methods are those of the calls for it, each once and in their order.
TableOfRegistrations ==
  /\ {funcs[i].path : i \in DOMAIN funcs} = {added[k].path : k \in DOMAIN added}
  /\ \A i, j \in DOMAIN funcs : funcs[i].path = funcs[j].path => i = j
  /\ \A i \in DOMAIN funcs :
       \E call \in [DOMAIN funcs[i].meth -> DOMAIN added] :
         /\ \A j, k \in DOMAIN call : j < k => call[j] < call[k]
         /\ {call[j] : j \in DOMAIN call} = {k \in DOMAIN added : added[k].path = funcs[i].path}
         /\ \A j \in DOMAIN call : funcs[i].meth[j] = added[call[j]].meth

\* The index and the static server, whose patterns match nearly everything, hide
\* nothing: a path that a script has registered is never served by one of them.
DefaultHandlers == {Defaults[k].handler : k \in DOMAIN Defaults}

DefaultsHideNothing ==
  \A k \in DOMAIN added :
    added[k].handler \notin DefaultHandlers /\ added[k].path \in Path =>
      funcs[FirstMatch(funcs, added[k].path)].handler \notin DefaultHandlers

\* What that takes of the scripts: none has the handlers of the defaults, which are made
\* when all scripts have run; and a pattern that is a path, which scripts have for
\* theirs, matches itself.
OwnHandlers == \A f \in Script : \A k \in DOMAIN Registers(f) :
                 Registers(f)[k].handler \notin DefaultHandlers
OwnPaths == \A f \in Script : \A k \in DOMAIN Registers(f) :
              Registers(f)[k].path \in Path => Registers(f)[k].path \in Glob[Registers(f)[k].path]
=============================================================================

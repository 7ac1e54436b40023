------------------------------- MODULE Process -------------------------------
(***************************************************************************)
(* The life of one process, from main (src/main.c) through the             *)
(* configuration script (src/lua/setup.c), the plugins, the listening      *)
(* sockets (src/socket.c) and the Lua environment (src/lua/lua_.c) to the  *)
(* accept loop, or into a child it forks, and to its end: what it owns,    *)
(* and what ctrl_c_h (src/quit_handler.c) does about that.                 *)
(*                                                                         *)
(* A child begins with a copy of its parent, so the module follows one     *)
(* process, which may turn out to be either side of a fork.                *)
(***************************************************************************)
EXTENDS Plugins

CONSTANTS
  Domain,     \* address families: those createSocket knows, and others
  Inet,       \* AF_INET and AF_INET6
  MaxSockets, \* MAX_OPEN_SOCKETS
  MaxRoots,   \* bound: calls of set_server_root and of set_routes_root
  MaxFound    \* bound: plugins found in all calls of plugin_init together

ASSUME ProcessAssumption ==
  /\ Inet \subseteq Domain
  /\ MaxSockets \in Nat /\ MaxRoots \in Nat /\ MaxFound \in Nat

Root == {"server_root", "routes_root"}

VARIABLES
  stage,    \* where the process is, or was when it ended
  status,   \* how it ended
  sockets,  \* drv->socket, as the domains asked for
  roots,    \* how often each root was set
  plugins,  \* drv->plugins
  opened,   \* open_sockets, as indices of sockets
  tried,    \* i, the loop over drv->socket
  gL,       \* the Lua state of the routes
  sigint,   \* the disposition of SIGINT
  atExit,   \* thread_quit is registered
  quits,    \* history: how often ctrl_c_h has begun
  heap,     \* the blocks of memory the process owns
  heard     \* history: the events plugins were told of

processVars == <<stage, status, sockets, roots, plugins, opened, tried, gL,
                 sigint, atExit, quits, heap, heard>>
allVars == <<pluginVars, processVars>>

Stage  == {"boot", "config", "sockets", "lua", "loop", "forked", "armed", "serving", "served"}
Status == {"running", "1", "quit", "SIGABRT", "SIGSEGV", "SIGINT"}

Block(what, n) == [what |-> what, n |-> n]
Event == {"test_types", "pre_on_incoming_client", "post_on_incoming_client"}

ProcessTypeOK ==
  /\ PluginTypeOK
  /\ stage \in Stage /\ status \in Status
  /\ sockets \in Seq(Domain) /\ Len(sockets) <= MaxSockets
  /\ roots \in [Root -> Nat]
  /\ plugins \in Pointer
  /\ opened \in Seq(Nat) /\ tried \in Nat
  /\ gL \in {"null", "open", "closed"}
  /\ sigint \in {"default", "ctrl_c_h"} /\ atExit \in BOOLEAN
  /\ quits \in Nat
  /\ heap \subseteq [what : Root \cup {"drv", "socket", "conf", "buf"}, n : Nat]
  /\ heard \subseteq Event \X Node

ProcessInit ==
  /\ PluginInit
  /\ stage = "boot" /\ status = "running"
  /\ sockets = << >> /\ roots = [r \in Root |-> 0]
  /\ plugins = NULL /\ opened = << >> /\ tried = 0
  /\ gL = "null" /\ sigint = "default" /\ atExit = FALSE
  /\ quits = 0 /\ heap = {} /\ heard = {}

Running(where) == status = "running" /\ stage = where

\* The process is gone, and the state shows how it was then.
Ends(how) ==
  /\ status' = how
  /\ UNCHANGED <<pluginVars, stage, sockets, roots, plugins, opened, tried, gL,
                 sigint, atExit, quits, heap, heard>>

-----------------------------------------------------------------------------
(* main up to init, and the configuration script *)

Boot ==
  /\ Running("boot")
  /\ sigint' = "ctrl_c_h"
  /\ heap' = {Block("drv", 0), Block("socket", 0)}
  /\ stage' = "config"
  /\ UNCHANGED <<pluginVars, status, sockets, roots, plugins, opened, tried, gL,
                 atExit, quits, heard>>

\* setup.lua is Lua's turn when plugin_system_init is not at work.
Scripting == Running("config") /\ phase \in {"idle", "OK"}

\* Mutant: the number of sockets is compared with >.
create_socket_OneMore(d) ==
  /\ Scripting /\ Len(sockets) <= MaxSockets
  /\ sockets' = Append(sockets, d)
  /\ heap' = heap \cup {Block("conf", Len(sockets) + 1)}
  /\ UNCHANGED <<pluginVars, stage, status, roots, plugins, opened, tried, gL,
                 sigint, atExit, quits, heard>>

create_socket(d) ==
  /\ Scripting /\ Len(sockets) < MaxSockets
  /\ sockets' = Append(sockets, d)
  /\ heap' = heap \cup {Block("conf", Len(sockets) + 1)}
  /\ UNCHANGED <<pluginVars, stage, status, roots, plugins, opened, tried, gL,
                 sigint, atExit, quits, heard>>

\* The root set before, if any, is forgotten.
set_root(r) ==
  /\ Scripting /\ roots[r] < MaxRoots
  /\ roots' = [roots EXCEPT ![r] = @ + 1]
  /\ heap' = heap \cup {Block(r, roots[r] + 1)}
  /\ UNCHANGED <<pluginVars, stage, status, sockets, plugins, opened, tried, gL,
                 sigint, atExit, quits, heard>>

plugin_init ==
  /\ Scripting /\ plugins = NULL
  /\ count_ + Cardinality(Node) <= MaxFound
  /\ \E named \in BOOLEAN : BeginScan(named)
  /\ UNCHANGED processVars

\* drv->plugins is set as soon as the scan is over, before anything is loaded.
InitPlugins ==
  /\ Running("config") /\ PluginStep
  /\ plugins' = IF phase = "scan" /\ phase' \in {"load", "NOT_FOUND"} THEN list.head ELSE plugins
  /\ UNCHANGED <<stage, status, sockets, roots, opened, tried, gL, sigint, atExit,
                 quits, heap, heard>>

\* log_fatal aborts: a failed plugin or a directory without one, plugins set
\* twice, a socket too many; and so does an error that leaves the script.
ConfigAborts ==
  /\ Running("config")
  /\ Scripting \/ phase \in Returned \ {"OK"}
  /\ Ends("SIGABRT")

\* Main gives up without a socket or a root.  The test event is for plugins that
\* have been told nothing of it when trigger_event returns.
Delivered(e) == {}

\* Mutant: one root is enough.
ScriptDone_OneRoot ==
  /\ Scripting
  /\ IF sockets = << >> \/ \A r \in Root : roots[r] = 0
     THEN Ends("1")
     ELSE /\ stage' = "sockets"
          /\ heard' = heard \cup Delivered("test_types")
          /\ UNCHANGED <<pluginVars, status, sockets, roots, plugins, opened, tried,
                         gL, sigint, atExit, quits, heap>>

ScriptDone ==
  /\ Scripting
  /\ IF sockets = << >> \/ \E r \in Root : roots[r] = 0
     THEN Ends("1")
     ELSE /\ stage' = "sockets"
          /\ heard' = heard \cup Delivered("test_types")
          /\ UNCHANGED <<pluginVars, status, sockets, roots, plugins, opened, tried,
                         gL, sigint, atExit, quits, heap>>

-----------------------------------------------------------------------------
(* Sockets and Lua *)

\* A family createSocket does not know is closed again and passed over, unless
\* socket or setsockopt refuse it.
CreateSocket ==
  /\ Running("sockets") /\ tried < Len(sockets)
  /\ tried' = tried + 1
  /\ opened' = IF sockets[tried + 1] \in Inet THEN Append(opened, tried + 1) ELSE opened
  /\ UNCHANGED <<pluginVars, stage, status, sockets, roots, plugins, gL, sigint,
                 atExit, quits, heap, heard>>

\* socket, setsockopt, bind or listen fails: fatal.
CreateSocketFails ==
  /\ Running("sockets") /\ tried < Len(sockets)
  /\ Ends("SIGABRT")

\* gL is set before the libraries and the routes are loaded.
lua_init ==
  /\ Running("sockets") /\ tried = Len(sockets)
  /\ gL' = "open"
  /\ stage' = "lua"
  /\ UNCHANGED <<pluginVars, status, sockets, roots, plugins, opened, tried, sigint,
                 atExit, quits, heap, heard>>

\* An error in the routes panics; without the C functions init.lua exits.
LuaFails ==
  /\ Running("lua")
  /\ \E how \in {"SIGABRT", "1"} : Ends(how)

LuaDone ==
  /\ Running("lua")
  /\ stage' = "loop"
  /\ UNCHANGED <<pluginVars, status, sockets, roots, plugins, opened, tried, gL,
                 sigint, atExit, quits, heap, heard>>

\* Allocations whose failure shows when the null pointer is used.
OutOfMemory ==
  /\ "oom" \in Faults
  /\ Running("boot") \/ Scripting \/ Running("sockets") \/ Running("lua")
  /\ Ends("SIGSEGV")

-----------------------------------------------------------------------------
(* ctrl_c_h *)

\* Mutant: the last of the open sockets is left out.
Freed_NotLast ==
  {b \in heap : b.what = "conf" /\ \E i \in 1 .. Len(opened) - 1 : opened[i] = b.n}
  \cup {b \in heap : b.what \in Root /\ b.n = roots[b.what]}
  \cup {b \in heap : b.what \in {"drv", "socket", "buf"}}

\* The configurations of the open sockets, the roots in force and what was saved
\* with save_ptr.
Freed ==
  {b \in heap : b.what = "conf" /\ \E i \in DOMAIN opened : opened[i] = b.n}
  \cup {b \in heap : b.what \in Root /\ b.n = roots[b.what]}
  \cup {b \in heap : b.what \in {"drv", "socket", "buf"}}

\* lua_close of no state crashes before anything else is done, and a second round
\* does, whose state is closed already.  SIGINT is blocked while its handler runs;
\* in a child that is exiting it merely ends what is ending.
Quits(rounds) ==
  /\ quits' = quits + rounds
  /\ IF gL # "open" \/ UnloadCrashes \/ rounds > 1
     THEN /\ status' = "SIGSEGV"
          /\ UNCHANGED <<pluginVars, gL, heap>>
     ELSE /\ status' = "quit"
          /\ gL' = "closed"
          /\ UnloadAll
          /\ heap' = heap \ Freed
  /\ UNCHANGED <<stage, sockets, roots, plugins, opened, tried, sigint, atExit, heard>>

\* The handler ends in exit(0), which runs thread_quit if it is registered.
Interrupt ==
  /\ "sigint" \in Faults /\ status = "running"
  /\ IF sigint = "default" THEN Ends("SIGINT") ELSE Quits(IF atExit THEN 2 ELSE 1)

-----------------------------------------------------------------------------
(* The loop and a child *)

\* poll fails, or the memory for an address: fatal.
LoopAborts ==
  /\ Running("loop")
  /\ Ends("SIGABRT")

Fork ==
  /\ Running("loop")
  /\ stage' = "forked"
  /\ UNCHANGED <<pluginVars, status, sockets, roots, plugins, opened, tried, gL,
                 sigint, atExit, quits, heap, heard>>

\* Mutant: the child keeps the handler of its parent.
RestoreSigint_Keeps ==
  /\ Running("forked")
  /\ stage' = "armed"
  /\ UNCHANGED <<pluginVars, status, sockets, roots, plugins, opened, tried, gL,
                 sigint, atExit, quits, heap, heard>>

RestoreSigint ==
  /\ Running("forked")
  /\ sigint' = "default"
  /\ stage' = "armed"
  /\ UNCHANGED <<pluginVars, status, sockets, roots, plugins, opened, tried, gL,
                 atExit, quits, heap, heard>>

Register ==
  /\ Running("armed")
  /\ \/ "oom" \in Faults /\ Ends("SIGABRT")
     \/ /\ atExit' = TRUE
        /\ heap' = heap \cup {Block("buf", 0)}
        /\ stage' = "serving"
        /\ heard' = heard \cup Delivered("pre_on_incoming_client")
        /\ UNCHANGED <<pluginVars, status, sockets, roots, plugins, opened, tried, gL,
                       sigint, quits>>

\* What a request does to the child is Worker's subject.
Served ==
  /\ Running("serving")
  /\ stage' = "served"
  /\ heard' = heard \cup Delivered("post_on_incoming_client")
  /\ UNCHANGED <<pluginVars, status, sockets, roots, plugins, opened, tried, gL,
                 sigint, atExit, quits, heap>>

\* exit(3), before or after the request has been served.
ChildExits ==
  /\ Running("serving") \/ Running("served")
  /\ Quits(1)

ProcessStep ==
  \/ Boot \/ \E d \in Domain : create_socket(d)
  \/ \E r \in Root : set_root(r)
  \/ plugin_init \/ InitPlugins \/ ConfigAborts \/ ScriptDone
  \/ CreateSocket \/ CreateSocketFails \/ lua_init \/ LuaFails \/ LuaDone
  \/ OutOfMemory
  \/ LoopAborts \/ Fork \/ RestoreSigint \/ Register \/ Served \/ ChildExits

ProcessNext == ProcessStep \/ Interrupt

ProcessSpec == ProcessInit /\ [][ProcessNext]_allVars

-----------------------------------------------------------------------------
InLoopOrChild == stage \in {"loop", "forked", "armed", "serving", "served"}

\* The list is the files in the order nftw met them, whichever way it is walked,
\* and the loading loop is somewhere on it.
ListAsFound ==
  /\ Walk(list) = found /\ IsDoublyLinked(list)
  /\ current # NULL => \E i \in DOMAIN found : found[i] = current

\* ctrl_c_h, a signal handler that ends in exit and an exit handler at once, runs
\* once in a process, whenever SIGINT comes.
QuitsOnce == quits <= 1

\* No process gets as far as the loop with anything missing: each socket of a known
\* family is open, in the order of the script, both roots are set, the routes are
\* there, and every plugin of the list has been initialised.
ReadyForClients ==
  InLoopOrChild /\ status = "running" =>
    /\ {opened[i] : i \in DOMAIN opened} = {k \in DOMAIN sockets : sockets[k] \in Inet}
    /\ \A i, j \in DOMAIN opened : i < j => opened[i] < opened[j]
    /\ \A r \in Root : Block(r, roots[r]) \in heap
    /\ gL = "open"
    /\ {found[i] : i \in DOMAIN found} = inited
    /\ plugins = list.head

\* From the loop on, quitting crashes only over a plugin without plugin_shutdown.
QuitCrashesOnlyForPlugin ==
  InLoopOrChild /\ status = "SIGSEGV" => \E n \in inited : handle[n] = "bare"

\* Whoever quits in order has shut down what it initialised, each plugin once, and
\* owns no memory but what the script orphaned: roots it set twice, and sockets of
\* a family that could not be opened.
QuitsClean ==
  status = "quit" =>
    /\ shut = [n \in Node |-> IF n \in inited THEN 1 ELSE 0]
    /\ \A b \in heap :
         \/ b.what \in Root /\ b.n < roots[b.what]
         \/ b.what = "conf" /\ sockets[b.n] \notin Inet

=============================================================================

------------------------------- MODULE Plugins -------------------------------
(***************************************************************************)
(* The plugin system of src/plugin/plugin.c: plugin_system_init finds the  *)
(* shared objects of a directory with nftw(3), then loads and initialises  *)
(* them in the order found; unload_all_plugins shuts them down.  What a    *)
(* shared object does when it is opened, initialised or shut down is the   *)
(* plugin's own affair and any of the outcomes below.                      *)
(***************************************************************************)
EXTENDS LinkList, FiniteSets

CONSTANTS
  Other,   \* the other files of the plugin directory
  Faults   \* the failures this instance lets happen

ASSUME PluginsAssumption ==
  /\ Other \cap Node = {}
  /\ IsFiniteSet(Node) /\ IsFiniteSet(Other)
  /\ Faults \subseteq {"oom", "sigint"}

VARIABLES
  phase,    \* where plugin_system_init is, or what it returned last
  unseen,   \* the files nftw has not reached yet
  list,     \* plugins_
  found,    \* history: the plugins that got a node, in order
  count_,   \* the files counted
  current,  \* the node of the loading loop
  failed,   \* a plugin has failed in it
  handle,   \* a plugin's handle, and whether it defines plugin_shutdown
  inited,   \* history: the plugins whose plugin_init returned OK
  shut      \* history: how often plugin_shutdown was called

pluginVars == <<phase, unseen, list, found, count_, current, failed, handle, inited, shut>>

Returned == {"OK", "INVALID", "NOT_FOUND", "ERROR"}
\* Without a plugin_shutdown a handle is bare; a closed one left behind is stale.
HandleState == {"null", "open", "bare", "stale"}

PluginTypeOK ==
  /\ phase \in {"idle", "scan", "load"} \cup Returned
  /\ unseen \subseteq Node \cup Other
  /\ list \in List
  /\ count_ \in Nat
  /\ found \in Seq(Node)
  /\ current \in Pointer
  /\ failed \in BOOLEAN
  /\ handle \in [Node -> HandleState]
  /\ inited \subseteq Node
  /\ shut \in [Node -> Nat]

PluginInit ==
  /\ phase = "idle" /\ unseen = {}
  /\ list = EmptyList /\ found = << >> /\ count_ = 0
  /\ current = NULL /\ failed = FALSE
  /\ handle = [n \in Node |-> "null"]
  /\ inited = {}
  /\ shut = [n \in Node |-> 0]

-----------------------------------------------------------------------------
(* plugin_system_init *)

\* An empty name for the directory is refused.
BeginScan(named) ==
  /\ phase' = IF named THEN "scan" ELSE "INVALID"
  /\ unseen' = IF named THEN Node \cup Other ELSE {}
  /\ UNCHANGED <<list, found, count_, current, failed, handle, inited, shut>>

Ignore(f) ==
  /\ phase = "scan" /\ f \in unseen \cap Other
  /\ unseen' = unseen \ {f}
  /\ UNCHANGED <<phase, list, found, count_, current, failed, handle, inited, shut>>

\* insert_node says nothing when it cannot create a node: the plugin is counted
\* and gone.
Filter(f) ==
  /\ phase = "scan" /\ f \in unseen \cap Node
  /\ unseen' = unseen \ {f}
  /\ \/ list' = InsertNode(list, f) /\ found' = Append(found, f)
     \/ "oom" \in Faults /\ UNCHANGED <<list, found>>
  /\ count_' = count_ + 1
  /\ UNCHANGED <<phase, current, failed, handle, inited, shut>>

\* The directory cannot be read, or filter stops for lack of memory.
ScanFails ==
  /\ phase = "scan"
  /\ \/ unseen = Node \cup Other
     \/ "oom" \in Faults /\ unseen \cap Node # {}
  /\ phase' = "ERROR"
  /\ UNCHANGED <<unseen, list, found, count_, current, failed, handle, inited, shut>>

ScanDone ==
  /\ phase = "scan" /\ unseen = {}
  /\ phase' = IF count_ = 0 THEN "NOT_FOUND" ELSE "load"
  /\ current' = list.head
  /\ failed' = FALSE
  /\ UNCHANGED <<unseen, list, found, count_, handle, inited, shut>>

LoadNext(h) ==
  /\ phase = "load" /\ current # NULL
  /\ handle' = [handle EXCEPT ![current] = h]
  /\ current' = list.next[current]
  /\ UNCHANGED <<phase, unseen, list, found, count_, shut>>

LoadPlugin == /\ \E h \in {"open", "bare"} : LoadNext(h)
              /\ inited' = inited \cup {current}
              /\ UNCHANGED failed

\* Mutant: a plugin that fails is skipped, and forgiven.
LoadFails_Forgiven == /\ \E h \in {"null", "stale"} : LoadNext(h)
                      /\ UNCHANGED <<failed, inited>>

\* dlopen fails; or plugin_init is missing or fails, and the object is closed
\* again, but its handle stays.
LoadFails == /\ \E h \in {"null", "stale"} : LoadNext(h)
             /\ failed' = TRUE
             /\ UNCHANGED inited

LoadDone ==
  /\ phase = "load" /\ current = NULL
  /\ phase' = IF failed THEN "ERROR" ELSE "OK"
  /\ UNCHANGED <<unseen, list, found, count_, current, failed, handle, inited, shut>>

PluginStep ==
  \/ \E f \in unseen : Ignore(f) \/ Filter(f)
  \/ ScanFails \/ ScanDone
  \/ LoadPlugin \/ LoadFails \/ LoadDone

-----------------------------------------------------------------------------
(* unload_all_plugins: free_plugin on every node in turn.  It calls a       *)
(* plugin_shutdown that it did not find, and one in an object no longer     *)
(* there: both are the end of the process.                                  *)

CannotUnload(n) == handle[n] \in {"bare", "stale"}

\* The plugins reached before the first that cannot be unloaded.
Unloadable ==
  LET s == Walk(list)
  IN  {s[i] : i \in {k \in DOMAIN s : \A j \in 1 .. k : ~ CannotUnload(s[j])}}

UnloadCrashes == \E i \in DOMAIN Walk(list) : CannotUnload(Walk(list)[i])

UnloadAll ==
  /\ shut' = [n \in Node |->
                IF n \in Unloadable /\ handle[n] = "open" THEN shut[n] + 1 ELSE shut[n]]
  /\ UNCHANGED <<phase, unseen, list, found, count_, current, failed, handle, inited>>
=============================================================================

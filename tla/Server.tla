------------------------------- MODULE Server -------------------------------
(***************************************************************************)
(* The whole server: the accept loop of main (src/main.c) composed with    *)
(* the children it forks, each of which is a Worker.                       *)
(*                                                                         *)
(* The parent polls its listeners, accepts one connection for every one    *)
(* that was ready, forks a child for it, closes its own copy and waits for *)
(* the child.  Connections come and go: one that is over may be made again.*)
(***************************************************************************)
EXTENDS Worker

CONSTANTS
  ListenOrder,  \* open_sockets, in the order of their creation
  Backlog       \* bound: the backlog given to listen(2)

ASSUME ServerAssumption ==
  /\ ListenOrder \in Seq(Listener)
  /\ \A l \in Listener : \E i \in DOMAIN ListenOrder : ListenOrder[i] = l
  /\ \A i, j \in DOMAIN ListenOrder : ListenOrder[i] = ListenOrder[j] => i = j
  /\ Backlog \in Nat

VARIABLES
  ppc,       \* where the parent's code is
  pfdt,      \* its descriptor table
  ready,     \* the listeners the last poll reported
  idx,       \* i, the scan's position in open_sockets
  newfd,     \* client_sockfd
  queue,     \* the connections the kernel has queued for each listener
  unforked   \* history: connections accepted for which fork failed

parentVars == <<ppc, pfdt, ready, idx, newfd, queue, unforked>>
serverVars == <<workerVars, parentVars>>

ParentTypeOK ==
  /\ ppc \in {"poll", "scan", "fork", "close", "wait", "dead"}
  /\ pfdt \in FdTable
  /\ ready \subseteq Listener
  /\ idx \in 1 .. Len(ListenOrder) + 1
  /\ newfd \in FdNum \cup {BadFd}
  /\ queue \in [Listener -> Seq(Conn)]
  /\ unforked \subseteq Conn

ServerTypeOK == WorkerTypeOK /\ ParentTypeOK

ServerInit ==
  /\ WorkerInit
  /\ peer = [c \in Conn |-> "idle"]
  /\ full = [c \in Conn |-> FALSE]
  /\ pc = [p \in Pid |-> "unborn"]
  /\ task = [p \in Pid |-> Unborn]
  /\ fdt = [p \in Pid |-> Closed]
  /\ ppc = "poll"
  /\ pfdt = ListenTable
  /\ ready = {}
  /\ idx = 1
  /\ newfd = BadFd
  /\ queue = [l \in Listener |-> << >>]
  /\ unforked = {}

-----------------------------------------------------------------------------
(* The kernel's side of a listener *)

Connect(c, l) ==
  /\ peer[c] = "idle"
  /\ ppc # "dead" /\ Len(queue[l]) < Backlog
  /\ peer' = [peer EXCEPT ![c] = "open"]
  /\ queue' = [queue EXCEPT ![l] = Append(@, c)]
  /\ \E filled \in BOOLEAN : full' = [full EXCEPT ![c] = filled]
  /\ UNCHANGED <<line, asked, inq, wire, childVars, ppc, pfdt, ready, idx, newfd, unforked>>

IsQueued(c) == \E l \in Listener : \E i \in DOMAIN queue[l] : queue[l][i] = c
IsHeld(c) ==
  \/ \E fd \in FdNum : pfdt[fd] = c
  \/ \E p \in Pid : \E fd \in FdNum : fdt[p][fd] = c

\* A connection both sides have closed is over.  Its name is free for another one
\* once the child that was forked for it is gone too.
Over(c) ==
  /\ peer[c] \in {"fin", "rst"}
  /\ ~ IsQueued(c) /\ ~ IsHeld(c)
  /\ \A p \in Pid : task[p].conn # c
  /\ peer' = [peer EXCEPT ![c] = "idle"]
  /\ line' = [line EXCEPT ![c] = NoLine]
  /\ asked' = [asked EXCEPT ![c] = << >>]
  /\ inq' = [inq EXCEPT ![c] = << >>]
  /\ wire' = [wire EXCEPT ![c] = << >>]
  /\ full' = [full EXCEPT ![c] = FALSE]
  /\ UNCHANGED <<childVars, parentVars>>

-----------------------------------------------------------------------------
(* The parent's loop *)

\* Mutant: revents is not looked at.
Poll_AllReady ==
  /\ ppc = "poll"
  /\ \E l \in Listener : queue[l] # << >>
  /\ ready' = Listener
  /\ idx' = 1
  /\ ppc' = "scan"
  /\ UNCHANGED <<workerVars, pfdt, newfd, queue, unforked>>

Poll ==
  /\ ppc = "poll"
  /\ \E l \in Listener : queue[l] # << >>
  /\ ready' = {l \in Listener : queue[l] # << >>}
  /\ idx' = 1
  /\ ppc' = "scan"
  /\ UNCHANGED <<workerVars, pfdt, newfd, queue, unforked>>

Skip ==
  /\ ppc = "scan" /\ idx <= Len(ListenOrder)
  /\ ListenOrder[idx] \notin ready
  /\ idx' = idx + 1
  /\ UNCHANGED <<workerVars, ppc, pfdt, ready, newfd, queue, unforked>>

ScanDone ==
  /\ ppc = "scan" /\ idx > Len(ListenOrder)
  /\ ppc' = "poll" /\ idx' = 1 /\ ready' = {}
  /\ UNCHANGED <<workerVars, pfdt, newfd, queue, unforked>>

\* The result of accept is not looked at: when the table is full, -1 goes the
\* way of a descriptor and the connection stays in the queue.
Accept ==
  /\ ppc = "scan" /\ idx <= Len(ListenOrder)
  /\ LET l == ListenOrder[idx]
     IN  /\ l \in ready
         /\ queue[l] # << >>
         /\ \/ \E fd \in FdNum :
                 /\ IsLowestFree(pfdt, fd)
                 /\ pfdt' = [pfdt EXCEPT ![fd] = Head(queue[l])]
                 /\ newfd' = fd
                 /\ queue' = [queue EXCEPT ![l] = Tail(@)]
            \/ /\ IsFull(pfdt)
               /\ newfd' = BadFd
               /\ UNCHANGED <<pfdt, queue>>
  /\ ppc' = "fork"
  /\ UNCHANGED <<workerVars, ready, idx, unforked>>

Accepted == IF newfd = BadFd THEN NoFile ELSE pfdt[newfd]

Fork ==
  /\ ppc = "fork"
  /\ \E p \in Pid :
       /\ pc[p] = "unborn"
       /\ pc' = [pc EXCEPT ![p] = "start"]
       /\ task' = [task EXCEPT ![p] = [conn |-> Accepted, sock |-> newfd]]
       /\ fdt' = [fdt EXCEPT ![p] = pfdt]
  /\ ppc' = "close"
  /\ UNCHANGED <<clientVars, status, fbuf, req, left, reply,
                 pfdt, ready, idx, newfd, queue, unforked>>

\* fork fails: the error is printed, the connection stays open in the parent.
ForkFails ==
  /\ "fork" \in Faults
  /\ ppc = "fork"
  /\ unforked' = unforked \cup ({Accepted} \cap Conn)
  /\ newfd' = BadFd
  /\ ppc' = "wait"
  /\ UNCHANGED <<workerVars, pfdt, ready, idx, queue>>

\* Mutant: the parent keeps its copy of the connection.
CloseAccepted_Leaks ==
  /\ ppc = "close"
  /\ newfd' = BadFd
  /\ ppc' = "wait"
  /\ UNCHANGED <<workerVars, pfdt, ready, idx, queue, unforked>>

CloseAccepted ==
  /\ ppc = "close"
  /\ pfdt' = IF newfd = BadFd THEN pfdt ELSE [pfdt EXCEPT ![newfd] = NoFile]
  /\ newfd' = BadFd
  /\ ppc' = "wait"
  /\ UNCHANGED <<workerVars, ready, idx, queue, unforked>>

NoChildren == \A p \in Pid : pc[p] = "unborn"

\* wait(NULL) returns when a child has ended, or at once if there is none.
Reap(p) ==
  /\ pc' = [pc EXCEPT ![p] = "unborn"]
  /\ status' = [status EXCEPT ![p] = "none"]
  /\ task' = [task EXCEPT ![p] = Unborn]
  /\ req' = [req EXCEPT ![p] = NewRequest(BadFd)]
  /\ left' = [left EXCEPT ![p] = 0]
  /\ UNCHANGED <<clientVars, fdt, fbuf, reply>>

\* Mutant: waitpid with WNOHANG.
Wait_NoHang ==
  /\ ppc = "wait"
  /\ \/ (\A p \in Pid : pc[p] # "exited") /\ UNCHANGED workerVars
     \/ \E p \in Pid : pc[p] = "exited" /\ Reap(p)
  /\ ppc' = "scan" /\ idx' = idx + 1
  /\ UNCHANGED <<pfdt, ready, newfd, queue, unforked>>

\* Mutant: the loop polls again after every connection.
Wait_PollsAgain ==
  /\ ppc = "wait"
  /\ \/ NoChildren /\ UNCHANGED workerVars
     \/ \E p \in Pid : pc[p] = "exited" /\ Reap(p)
  /\ ppc' = "poll" /\ idx' = 1
  /\ UNCHANGED <<pfdt, ready, newfd, queue, unforked>>

Wait ==
  /\ ppc = "wait"
  /\ \/ NoChildren /\ UNCHANGED workerVars
     \/ \E p \in Pid : pc[p] = "exited" /\ Reap(p)
  /\ ppc' = "scan" /\ idx' = idx + 1
  /\ UNCHANGED <<pfdt, ready, newfd, queue, unforked>>

\* SIGINT runs ctrl_c_h and ends in exit(0); a failed calloc before accept is
\* fatal.  With the listeners go the connections still in their queues; children
\* live on.
ParentDies ==
  /\ \/ "sigint" \in Faults /\ ppc # "dead"
     \/ "oom" \in Faults /\ ppc = "scan" /\ idx <= Len(ListenOrder)
          /\ ListenOrder[idx] \in ready
  /\ ppc' = "dead"
  /\ pfdt' = Closed
  /\ queue' = [l \in Listener |-> << >>]
  /\ peer' = [c \in Conn |-> IF IsQueued(c) THEN "rst" ELSE peer[c]]
  /\ inq' = [c \in Conn |-> IF IsQueued(c) THEN << >> ELSE inq[c]]
  /\ ready' = {} /\ idx' = 1 /\ newfd' = BadFd
  /\ UNCHANGED <<line, asked, wire, full, childVars, unforked>>

ParentStep ==
  \/ Poll \/ Skip \/ ScanDone \/ Accept \/ Fork \/ ForkFails
  \/ CloseAccepted \/ Wait

ChildStep(p) == WorkerStep(p) /\ UNCHANGED parentVars

ServerNext ==
  \/ ParentStep
  \/ ParentDies
  \/ \E p \in Pid : ChildStep(p)
  \/ \E p \in Pid : Interrupt(p) /\ UNCHANGED parentVars
  \/ \E c \in Conn : ClientStep(c) /\ UNCHANGED parentVars
  \/ \E c \in Conn, l \in Listener : Connect(c, l)
  \/ \E c \in Conn : Over(c)

ServerSpec == ServerInit /\ [][ServerNext]_serverVars

(***************************************************************************)
(* The kernel schedules the parent and its child.  No client stays         *)
(* connected for ever, and each reads what it is sent or aborts: these are *)
(* assumptions about the clients.  The code gives up on none that has      *)
(* begun a request, and waits in write for one that does not read.         *)
(***************************************************************************)
FairServerSpec ==
  /\ ServerSpec
  /\ WF_serverVars(ParentStep)
  /\ \A p \in Pid : WF_serverVars(ChildStep(p))
  /\ \A c \in Conn : WF_serverVars(Shutdown(c) /\ UNCHANGED parentVars)
  /\ \A c \in Conn : WF_serverVars((Drain(c) \/ (full[c] /\ Reset(c))) /\ UNCHANGED parentVars)

-----------------------------------------------------------------------------
(* Safety *)

Children == {p \in Pid : pc[p] # "unborn"}

\* Whatever set_thread_limit says, there is one child at most, counting the dead
\* ones that have not been waited for: the server serves one client at a time and
\* leaves no zombie behind.
OneChild == \A p, q \in Children : p = q

\* While the parent looks for work it has no child: whoever it forked for the last
\* connection has been reaped.
NoneWhileLooking == ppc \in {"poll", "scan", "fork"} => NoChildren

\* accept, on a blocking listener, finds the connection poll saw: nothing but this
\* loop takes connections out of a queue, and it takes one per listener and pass.
AcceptFindsOne ==
  (ppc = "scan" /\ idx <= Len(ListenOrder) /\ ListenOrder[idx] \in ready)
    => queue[ListenOrder[idx]] # << >>

\* The connections the parent holds while it looks for work are those fork failed
\* for; every other one it ever accepted is closed on both sides of the fork.
HoldsOnlyUnforked ==
  ppc \in {"poll", "scan"} =>
    \A fd \in FdNum : pfdt[fd] \in Conn => pfdt[fd] \in unforked

\* A child holds no connection but its own and those left over from a failed fork.
ChildHoldsOnlyItsOwn ==
  \A p \in Pid : \A fd \in FdNum : pc[p] \notin {"unborn", "start"} =>
    \/ fdt[p][fd] \in {NoFile, task[p].conn} \cup unforked
    \/ fdt[p][fd] = StaticFile /\ pc[p] = "read"

-----------------------------------------------------------------------------
(* The server implements SerialServer: a connection is being served from its  *)
(* accept until its child has ended.                                          *)

Live == {p \in Pid : pc[p] \in Running}
Serving ==
  IF ppc = "fork" THEN Accepted
  ELSE IF Live # {} THEN task[CHOOSE p \in Live : TRUE].conn
  ELSE NoFile

Serial == INSTANCE SerialServer
            WITH Nobody <- NoFile, up <- ppc # "dead", waiting <- queue, serving <- Serving

\* Whatever fails, clients are served one at a time and in the order of their arrival.
ImplementsSerial == Serial!SerialSpec

\* And if nothing fails no listener starves: each keeps its turn.
ImplementsFairSerial == Serial!FairSerialSpec

\* So whoever has connected is served, however many connect to the other listeners,
\* as long as the server is there.
EveryClientServed == Serial!EveryCallerServed
=============================================================================

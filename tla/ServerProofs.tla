---------------------------- MODULE ServerProofs ----------------------------
(***************************************************************************)
(* Proofs about the server for every set of connections, listeners and     *)
(* processes, every backlog and every choice of faults: how many children  *)
(* there are, what parent and children know and hold, what their clients   *)
(* are sent, and that the whole server implements SerialServer.            *)
(***************************************************************************)
EXTENDS Server, AnswerProofs

PcType == pc \in [Pid -> Running \cup {"unborn", "exited"}]

\* One child, and none while the parent looks for work: the second part is what
\* makes the first survive a fork, and the first is what makes the second survive
\* a wait, which reaps one child and goes on.
ChildInv == PcType /\ OneChild /\ NoneWhileLooking

-----------------------------------------------------------------------------
\* No step of a child, whatever it does, makes a process or unmakes one.
LEMMA ChildStaysBorn ==
  ASSUME PcType, NEW p \in Pid, WorkerStep(p) \/ Interrupt(p)
  PROVE  \E where \in Running \cup {"exited"} :
           pc' = [pc EXCEPT ![p] = where] /\ pc[p] \in Running
<1> DEFINE Born == \E where \in Running \cup {"exited"} :
                     pc' = [pc EXCEPT ![p] = where] /\ pc[p] \in Running
<1>1. ASSUME NEW how, Ends(p, how), pc[p] \in Running PROVE Born
  BY <1>1 DEF Ends
<1>2. ASSUME NEW where \in Running, Goto(p, where), pc[p] \in Running PROVE Born
  BY <1>2 DEF Goto
<1>3. ASSUME pc' = pc, pc[p] \in Running PROVE Born
  BY <1>3 DEF PcType
<1>4. \A n : NextRound(n) \in Running
  BY DEF NextRound, Running
<1>5. CASE Start(p) \/ PollGivesUp(p) \/ PollReadable(p) \/ PollOther(p) \/ InitRequest(p)
  BY <1>5, <1>1, <1>2, <1>4
     DEF Start, PollGivesUp, PollReadable, PollOther, InitRequest, Running
<1>6. CASE Fill(p) \/ Write(p)
  BY <1>6, <1>3 DEF Fill, Write, Reading, Running
<1>7. CASE \/ NoRequestLine(p) \/ RequestLine(p) \/ RequestLineOom(p)
           \/ HeadersDone(p) \/ HeadersOom(p)
  BY <1>7, <1>2
     DEF NoRequestLine, RequestLine, RequestLineOom, HeadersDone, HeadersOom,
         HeadersOver, Running
<1>8. CASE RejectMethod(p) \/ RunHandler(p) \/ ServeStatic(p)
  BY <1>8, <1>2
     DEF RejectMethod, RunHandler, ServeStatic, Silent, Answer, Processing, Running
<1>9. CASE ServeOom(p)
  BY <1>9, <1>1, <1>2 DEF ServeOom, Silent, Answer, Processing, Running
<1>10. CASE \/ Crash(p) \/ BrokenPipe(p) \/ LuaWriteFails(p) \/ FreeLiteral(p)
            \/ CloseClient(p) \/ Interrupt(p)
  BY <1>10, <1>1
     DEF Crash, BrokenPipe, LuaWriteFails, AboutToWrite,
         FreeLiteral, CloseClient, Interrupt, Processing, Running
<1>11. CASE OutOfMemory(p)
  BY <1>11, <1>1 DEF OutOfMemory, Processing, Running
<1>12. CASE OpenFile(p) \/ ReadFile(p) \/ Written(p)
  BY <1>12, <1>2 DEF OpenFile, ReadFile, Written, Running
<1>13. CASE FreeRequest(p)
  BY <1>13, <1>2, <1>4 DEF FreeRequest, Running
<1> QED
  BY <1>5, <1>6, <1>7, <1>8, <1>9, <1>10, <1>11, <1>12, <1>13 DEF WorkerStep

\* A step of the one child leaves one child.
LEMMA ChildKeepsChildInv ==
  ASSUME ChildInv, NEW p \in Pid, WorkerStep(p) \/ Interrupt(p), UNCHANGED parentVars
  PROVE  ChildInv'
<1>1. PICK where \in Running \cup {"exited"} :
        pc' = [pc EXCEPT ![p] = where] /\ pc[p] \in Running
  BY ChildStaysBorn DEF ChildInv
<1>2. PcType'
  BY <1>1 DEF ChildInv, PcType
<1>3. \A q \in Pid : pc'[q] = "unborn" <=> pc[q] = "unborn"
  BY <1>1 DEF ChildInv, PcType, Running
<1>4. OneChild'
  BY <1>3 DEF ChildInv, OneChild, Children
<1>5. NoneWhileLooking'
  BY <1>3 DEF ChildInv, NoneWhileLooking, NoChildren, parentVars
<1> QED
  BY <1>2, <1>4, <1>5 DEF ChildInv

\* fork makes the only child.
LEMMA ForkKeepsChildInv ==
  ASSUME ChildInv, Fork
  PROVE  ChildInv'
<1>1. PICK p \in Pid : pc[p] = "unborn" /\ pc' = [pc EXCEPT ![p] = "start"]
  BY DEF Fork
<1>2. \A q \in Pid : q # p => pc'[q] = "unborn"
  BY <1>1 DEF ChildInv, PcType, NoneWhileLooking, NoChildren, Fork
<1>3. OneChild'
  BY <1>2 DEF OneChild, Children
<1>4. PcType'
  BY <1>1 DEF ChildInv, PcType, Running
<1>5. NoneWhileLooking'
  BY DEF Fork, NoneWhileLooking
<1> QED
  BY <1>3, <1>4, <1>5 DEF ChildInv

\* wait reaps the only child.
LEMMA WaitKeepsChildInv ==
  ASSUME ChildInv, Wait
  PROVE  ChildInv'
<1>1. CASE NoChildren /\ UNCHANGED workerVars
  BY <1>1 DEF ChildInv, PcType, OneChild, Children, NoneWhileLooking, NoChildren, workerVars
<1>2. CASE \E p \in Pid : pc[p] = "exited" /\ Reap(p)
  <2>1. PICK p \in Pid : pc[p] = "exited" /\ pc' = [pc EXCEPT ![p] = "unborn"]
    BY <1>2 DEF Reap
  <2>2. \A q \in Pid : pc'[q] = "unborn"
    BY <2>1 DEF ChildInv, PcType, OneChild, Children
  <2>3. PcType'
    BY <2>1 DEF ChildInv, PcType
  <2> QED
    BY <2>2, <2>3 DEF ChildInv, OneChild, Children, NoneWhileLooking, NoChildren
<1> QED
  BY <1>1, <1>2 DEF Wait

\* The rest of the server leaves the children alone, and does not begin to look
\* for work unless it was doing that already.
LEMMA OthersKeepChildInv ==
  ASSUME ChildInv, pc' = pc,
         ppc' \in {"poll", "scan", "fork"} => ppc \in {"poll", "scan", "fork"}
  PROVE  ChildInv'
BY DEF ChildInv, PcType, OneChild, Children, NoneWhileLooking, NoChildren

\* At the start there is no process but the parent.
LEMMA InitChildInv == ServerInit => ChildInv
BY DEF ServerInit, ChildInv, PcType, OneChild, Children, NoneWhileLooking, NoChildren

\* Every step of the server.
LEMMA NextChildInv == ChildInv /\ [ServerNext]_serverVars => ChildInv'
<1> SUFFICES ASSUME ChildInv, [ServerNext]_serverVars
             PROVE  ChildInv'
  OBVIOUS
<1>1. CASE Poll \/ Skip \/ ScanDone \/ Accept \/ ForkFails \/ CloseAccepted
  BY <1>1, OthersKeepChildInv
     DEF Poll, Skip, ScanDone, Accept, ForkFails, CloseAccepted, workerVars
<1>2. CASE Fork
  BY <1>2, ForkKeepsChildInv
<1>3. CASE Wait
  BY <1>3, WaitKeepsChildInv
<1>4. CASE ParentDies
  BY <1>4, OthersKeepChildInv DEF ParentDies, childVars
<1>5. ASSUME NEW p \in Pid, ChildStep(p) \/ (Interrupt(p) /\ UNCHANGED parentVars)
      PROVE  ChildInv'
  BY <1>5, ChildKeepsChildInv DEF ChildStep
<1>6. ASSUME NEW c \in Conn, ClientStep(c) /\ UNCHANGED parentVars
      PROVE  ChildInv'
  BY <1>6, OthersKeepChildInv
     DEF ClientStep, SendLine, SendEnd, Shutdown, Reset, Drain, childVars, parentVars
<1>7. ASSUME NEW c \in Conn, (\E l \in Listener : Connect(c, l)) \/ Over(c)
      PROVE  ChildInv'
  BY <1>7, OthersKeepChildInv DEF Connect, Over, childVars, parentVars
<1>8. CASE UNCHANGED serverVars
  BY <1>8, OthersKeepChildInv DEF serverVars, workerVars, parentVars
<1> QED
  BY <1>1, <1>2, <1>3, <1>4, <1>5, <1>6, <1>7, <1>8 DEF ServerNext, ParentStep

\* The strengthened invariant, for every behaviour of the server.
LEMMA ChildInvariance == ServerSpec => []ChildInv
<1>1. ServerInit => ChildInv
  BY InitChildInv
<1>2. ChildInv /\ [ServerNext]_serverVars => ChildInv'
  BY NextChildInv
<1> QED
  BY <1>1, <1>2, PTL DEF ServerSpec

\* However many processes there are to fork, and whatever the clients do and the
\* system calls return, the server never has two children.
THEOREM OneChildAlways == ServerSpec => []OneChild
<1>1. ChildInv => OneChild
  BY DEF ChildInv
<1> QED
  BY <1>1, ChildInvariance, PTL

\* And none at all while the parent polls, scans its listeners or is about to fork.
THEOREM NoneWhileLookingAlways == ServerSpec => []NoneWhileLooking
<1>1. ChildInv => NoneWhileLooking
  BY DEF ChildInv
<1> QED
  BY <1>1, ChildInvariance, PTL

-----------------------------------------------------------------------------
(* What the parent of the children knows, holds and implements. *)

\* Where the parent is with a connection it has accepted, or failed to accept.
Position ==
  /\ ppc \in {"fork", "close", "wait"} => idx <= Len(ListenOrder)
  /\ ppc = "fork" => Accepted \in Conn \cup {NoFile}

\* A connection that has yet to be made is nowhere: so one that is made is neither
\* waiting nor being served.
IdleFree ==
  \A c \in Conn : peer[c] = "idle" =>
    /\ ~ IsQueued(c)
    /\ \A fd \in FdNum : pfdt[fd] # c
    /\ \A p \in Pid : task[p].conn # c

\* The listeners the scan has still to come to have whom poll saw.
Ahead(j) == j > idx \/ (j = idx /\ ppc = "scan")
StillThere ==
  ppc \in {"scan", "fork", "close", "wait"} =>
    \A j \in DOMAIN ListenOrder :
      Ahead(j) /\ ListenOrder[j] \in ready => queue[ListenOrder[j]] # << >>

\* The connections of the parent: those fork failed for, and the one just accepted.
Holds ==
  \A fd \in FdNum : pfdt[fd] \in Conn =>
    pfdt[fd] \in unforked \/ (ppc \in {"fork", "close"} /\ fd = newfd)

ParentInv == ParentTypeOK /\ Position /\ IdleFree /\ StillThere /\ Holds

ServerInv == TypeInv /\ ChildInv /\ ParentInv

-----------------------------------------------------------------------------
\* No child makes, ends or takes over a connection.
LEMMA ChildLeavesPeers ==
  ASSUME NEW p \in Pid, WorkerStep(p) \/ Interrupt(p)
  PROVE  peer' = peer /\ task' = task
<1>1. ASSUME NEW how, Ends(p, how) PROVE peer' = peer /\ task' = task
  BY <1>1 DEF Ends, clientVars
<1>2. CASE \/ PollGivesUp(p) \/ Crash(p) \/ BrokenPipe(p) \/ LuaWriteFails(p)
           \/ FreeLiteral(p) \/ CloseClient(p) \/ Interrupt(p) \/ OutOfMemory(p)
  BY <1>1, <1>2
     DEF PollGivesUp, Crash, BrokenPipe, LuaWriteFails,
         FreeLiteral, CloseClient, Interrupt, OutOfMemory
<1>3. CASE PollReadable(p) \/ PollOther(p) \/ InitRequest(p) \/ Fill(p) \/ Start(p)
  BY <1>3 DEF PollReadable, PollOther, InitRequest, Fill, Start, clientVars
<1>4. CASE \/ NoRequestLine(p) \/ RequestLine(p) \/ RequestLineOom(p)
           \/ HeadersDone(p) \/ HeadersOom(p)
  BY <1>4 DEF NoRequestLine, RequestLine, RequestLineOom, HeadersDone, HeadersOom, clientVars
<1>5. CASE RejectMethod(p) \/ RunHandler(p) \/ ServeStatic(p)
  BY <1>5 DEF RejectMethod, RunHandler, ServeStatic, Silent, Answer, clientVars
<1>6. CASE ServeOom(p)
  BY <1>1, <1>6 DEF ServeOom, Silent, Answer, clientVars
<1>7. CASE OpenFile(p) \/ ReadFile(p) \/ Write(p) \/ Written(p) \/ FreeRequest(p)
  BY <1>7 DEF OpenFile, ReadFile, Write, Written, FreeRequest, clientVars
<1> QED
  BY <1>2, <1>3, <1>4, <1>5, <1>6, <1>7 DEF WorkerStep

-----------------------------------------------------------------------------
(* Types *)

\* fork gives a child the descriptor it was forked for, open on a connection or on
\* nothing.
LEMMA ForkTypes ==
  ASSUME TypeInv, ParentTypeOK, Position, Fork
  PROVE  TypeInv'
<1>1. PICK p \in Pid :
        /\ pc' = [pc EXCEPT ![p] = "start"]
        /\ task' = [task EXCEPT ![p] = [conn |-> Accepted, sock |-> newfd]]
        /\ fdt' = [fdt EXCEPT ![p] = pfdt]
  BY DEF Fork
<1>2. Accepted \in Conn \cup {NoFile} /\ newfd \in FdNum \cup {BadFd} /\ pfdt \in FdTable
  BY DEF ParentTypeOK, Position, Fork
<1>3. WorkerTypeOK'
  BY <1>1, <1>2 DEF Fork, TypeInv, WorkerTypeOK, clientVars, Running
<1>4. CountsDown'
  BY <1>1 DEF Fork, TypeInv, WorkerTypeOK, CountsDown, InPass
<1> QED
  BY <1>3, <1>4 DEF TypeInv

\* A child that is reaped is as good as new.
LEMMA WaitTypes ==
  ASSUME TypeInv, Wait
  PROVE  TypeInv'
<1>1. CASE UNCHANGED workerVars
  BY <1>1, StutterType
<1>2. ASSUME NEW p \in Pid, Reap(p) PROVE TypeInv'
  <2>1. Unborn \in [conn : Conn \cup {NoFile}, sock : FdNum \cup {BadFd}]
    BY DEF Unborn
  <2>2. NewRequest(BadFd) \in RequestRec
    BY DEF NewRequest, RequestRec
  <2>3. WorkerTypeOK'
    BY <1>2, <2>1, <2>2 DEF Reap, TypeInv, WorkerTypeOK, clientVars, Status
  <2>4. CountsDown'
    BY <1>2 DEF Reap, TypeInv, WorkerTypeOK, CountsDown, InPass
  <2> QED
    BY <2>3, <2>4 DEF TypeInv
<1> QED
  BY <1>1, <1>2 DEF Wait

\* Connections that come, end, or go with the parent.
LEMMA KernelTypes ==
  ASSUME TypeInv,
         \/ \E c \in Conn, l \in Listener : Connect(c, l)
         \/ \E c \in Conn : Over(c)
         \/ ParentDies
  PROVE  TypeInv'
<1>1. UNCHANGED childVars
  BY DEF Connect, Over, ParentDies
<1> DEFINE Types == /\ peer' \in [Conn -> {"idle", "open", "fin", "rst"}]
                    /\ line' \in [Conn -> Line \cup {NoLine}]
                    /\ asked' \in [Conn -> Seq(Line)]
                    /\ inq' \in [Conn -> Seq(Line \cup {End})]
                    /\ wire' \in [Conn -> Seq(Piece)]
                    /\ full' \in [Conn -> BOOLEAN]
<1>2. Types
  <2>1. ASSUME NEW c \in Conn, NEW l \in Listener, Connect(c, l) PROVE Types
    BY <2>1 DEF Connect, TypeInv, WorkerTypeOK
  <2>2. ASSUME NEW c \in Conn, Over(c) PROVE Types
    <3>1. /\ << >> \in Seq(Line) /\ << >> \in Seq(Line \cup {End})
          /\ << >> \in Seq(Piece)
      OBVIOUS
    <3> QED
      BY <2>2, <3>1 DEF Over, TypeInv, WorkerTypeOK
  <2>3. CASE ParentDies
    BY <2>3 DEF ParentDies, TypeInv, WorkerTypeOK
  <2> HIDE DEF Types
  <2> QED
    BY <2>1, <2>2, <2>3
<1>3. WorkerTypeOK'
  BY <1>1, <1>2 DEF TypeInv, WorkerTypeOK, childVars
<1>4. CountsDown'
  BY <1>1 DEF TypeInv, CountsDown, childVars
<1> QED
  BY <1>3, <1>4 DEF TypeInv

-----------------------------------------------------------------------------
(* The parent *)

\* What children and clients do is none of its business.
LEMMA OthersKeepParentInv ==
  ASSUME ParentInv, UNCHANGED parentVars, task' = task,
         \A c \in Conn : peer'[c] = "idle" => peer[c] = "idle"
  PROVE  ParentInv'
<1>1. ParentTypeOK' /\ Position'
  BY DEF ParentInv, ParentTypeOK, Position, Accepted, parentVars
<1>2. IdleFree'
  BY DEF ParentInv, IdleFree, IsQueued, parentVars
<1>3. StillThere' /\ Holds'
  BY DEF ParentInv, StillThere, Ahead, Holds, parentVars
<1> QED
  BY <1>1, <1>2, <1>3 DEF ParentInv

\* A connection is made or its name is free again.
LEMMA ConnectKeepsParentInv ==
  ASSUME TypeInv, ParentInv, NEW c \in Conn, NEW l \in Listener, Connect(c, l)
  PROVE  ParentInv'
<1>1. queue \in [Listener -> Seq(Conn)] /\ queue' = [queue EXCEPT ![l] = Append(@, c)]
  BY DEF Connect, ParentInv, ParentTypeOK
<1>2. peer \in [Conn -> {"idle", "open", "fin", "rst"}]
  BY DEF TypeInv, WorkerTypeOK
<1>3. ParentTypeOK' /\ Position'
  BY <1>1 DEF Connect, ParentInv, ParentTypeOK, Position, Accepted
<1>4. IdleFree'
  <2> SUFFICES ASSUME NEW d \in Conn, peer'[d] = "idle"
               PROVE  /\ ~ IsQueued(d)'
                      /\ \A fd \in FdNum : pfdt'[fd] # d
                      /\ \A p \in Pid : task'[p].conn # d
    BY DEF IdleFree
  <2>1. d # c /\ peer[d] = "idle"
    BY <1>2 DEF Connect
  <2>2. \A k \in Listener : \A i \in DOMAIN queue'[k] : queue'[k][i] # d
    <3>1. \A k \in Listener : \A i \in DOMAIN queue[k] : queue[k][i] # d
      BY <2>1 DEF ParentInv, IdleFree, IsQueued
    <3>2. \A k \in Listener : k # l => queue'[k] = queue[k]
      BY <1>1
    <3>3. queue'[l] = Append(queue[l], c) /\ queue[l] \in Seq(Conn)
      BY <1>1
    <3>4. \A i \in DOMAIN queue'[l] : queue'[l][i] # d
      BY <2>1, <3>1, <3>3
    <3> QED
      BY <3>1, <3>2, <3>4
  <2> QED
    BY <2>1, <2>2 DEF Connect, ParentInv, IdleFree, IsQueued, childVars
<1>5. StillThere'
  <2>1. \A k \in Listener : queue[k] # << >> => queue'[k] # << >>
    BY <1>1
  <2> QED
    BY <2>1 DEF Connect, ParentInv, ParentTypeOK, StillThere, Ahead
<1>6. Holds'
  BY DEF Connect, ParentInv, Holds
<1> QED
  BY <1>3, <1>4, <1>5, <1>6 DEF ParentInv

\* One that is over has left everybody.
LEMMA OverKeepsParentInv ==
  ASSUME TypeInv, ParentInv, NEW c \in Conn, Over(c)
  PROVE  ParentInv'
<1>1. peer \in [Conn -> {"idle", "open", "fin", "rst"}]
  BY DEF TypeInv, WorkerTypeOK
<1>2. ParentTypeOK' /\ Position'
  BY DEF Over, ParentInv, ParentTypeOK, Position, Accepted, parentVars
<1>3. IdleFree'
  BY <1>1 DEF Over, ParentInv, IdleFree, IsQueued, IsHeld, parentVars, childVars
<1>4. StillThere' /\ Holds'
  BY DEF Over, ParentInv, StillThere, Ahead, Holds, parentVars
<1> QED
  BY <1>2, <1>3, <1>4 DEF ParentInv

\* poll, and the scan past a listener nobody waits at.
LEMMA ScanKeepsParentInv ==
  ASSUME ParentInv, Poll \/ Skip \/ ScanDone
  PROVE  ParentInv'
<1>1. ParentTypeOK' /\ Position'
  BY DEF Poll, Skip, ScanDone, ParentInv, ParentTypeOK, Position, ServerAssumption
<1>2. IdleFree' /\ Holds'
  BY DEF Poll, Skip, ScanDone, ParentInv, IdleFree, IsQueued, Holds, workerVars
<1>3. StillThere'
  BY DEF Poll, Skip, ScanDone, ParentInv, ParentTypeOK, StillThere, Ahead
<1> QED
  BY <1>1, <1>2, <1>3 DEF ParentInv

\* accept: whoever is first in the queue has the lowest number free, or stays there.
LEMMA AcceptKeepsParentInv ==
  ASSUME ParentInv, Accept
  PROVE  ParentInv'
<1> DEFINE l == ListenOrder[idx]
<1>1. /\ l \in Listener /\ l \in ready /\ idx \in DOMAIN ListenOrder
      /\ queue \in [Listener -> Seq(Conn)] /\ queue[l] # << >>
  BY DEF Accept, ParentInv, ParentTypeOK, ServerAssumption
<1>2. CASE \E fd \in FdNum :
             /\ pfdt' = [pfdt EXCEPT ![fd] = Head(queue[l])]
             /\ newfd' = fd
             /\ queue' = [queue EXCEPT ![l] = Tail(@)]
  <2>1. PICK fd \in FdNum : /\ pfdt' = [pfdt EXCEPT ![fd] = Head(queue[l])]
                            /\ newfd' = fd
                            /\ queue' = [queue EXCEPT ![l] = Tail(@)]
    BY <1>2
  <2> HIDE DEF l
  <2>2. Head(queue[l]) \in Conn /\ Head(queue[l]) = queue[l][1] /\ 1 \in DOMAIN queue[l]
    BY <1>1
  <2>3. /\ Tail(queue[l]) \in Seq(Conn)
        /\ \A i \in DOMAIN Tail(queue[l]) : \E j \in DOMAIN queue[l] : Tail(queue[l])[i] = queue[l][j]
    <3>1. queue[l] \in Seq(Conn)
      BY <1>1
    <3>2. /\ Tail(queue[l]) \in Seq(Conn) /\ Len(Tail(queue[l])) = Len(queue[l]) - 1
          /\ \A i \in 1 .. Len(Tail(queue[l])) : Tail(queue[l])[i] = queue[l][i + 1]
      BY <1>1, <3>1, HeadTailProperties
    <3>3. \A i \in DOMAIN Tail(queue[l]) : i + 1 \in DOMAIN queue[l]
      BY <3>1, <3>2
    <3> QED
      BY <3>2, <3>3
  <2>4. pfdt \in FdTable /\ Conn \subseteq File
    BY DEF ParentInv, ParentTypeOK, File
  <2>5. ParentTypeOK'
    BY <1>1, <2>1, <2>2, <2>3, <2>4 DEF Accept, ParentInv, ParentTypeOK, FdTable
  <2>6. Position'
    <3>1. newfd' # BadFd /\ pfdt'[newfd'] = Head(queue[l])
      BY <2>1, <2>4, WorkerAssumption DEF BadFd, FdTable
    <3> QED
      BY <3>1, <2>2 DEF Accept, Position, Accepted
  <2>7. IdleFree'
    <3> SUFFICES ASSUME NEW d \in Conn, peer[d] = "idle"
                 PROVE  /\ \A k \in Listener : \A i \in DOMAIN queue'[k] : queue'[k][i] # d
                        /\ \A g \in FdNum : pfdt'[g] # d
                        /\ \A p \in Pid : task[p].conn # d
      BY DEF IdleFree, IsQueued, Accept, workerVars
    <3>1. /\ \A k \in Listener : \A i \in DOMAIN queue[k] : queue[k][i] # d
          /\ \A g \in FdNum : pfdt[g] # d
          /\ \A p \in Pid : task[p].conn # d
      BY DEF ParentInv, IdleFree, IsQueued
    <3>2. \A g \in FdNum : pfdt'[g] # d
      BY <1>1, <2>1, <2>2, <2>4, <3>1 DEF FdTable
    <3>3. queue'[l] = Tail(queue[l]) /\ \A k \in Listener : k # l => queue'[k] = queue[k]
      BY <1>1, <2>1
    <3>4. \A k \in Listener : \A i \in DOMAIN queue'[k] : queue'[k][i] # d
      <4>1. \A i \in DOMAIN queue'[l] : queue'[l][i] # d
        BY <1>1, <2>3, <3>1, <3>3
      <4> QED
        BY <3>1, <3>3, <4>1
    <3> QED
      BY <3>1, <3>2, <3>4
  <2>8. StillThere'
    <3>1. \A k \in Listener : k # l => queue'[k] = queue[k]
      BY <1>1, <2>1
    <3>2. \A j \in DOMAIN ListenOrder : j > idx => ListenOrder[j] # l /\ ListenOrder[j] \in Listener
      BY <1>1, ServerAssumption DEF l, ParentInv, ParentTypeOK
    <3> QED
      BY <3>1, <3>2 DEF Accept, ParentInv, StillThere, Ahead
  <2>9. Holds'
    BY <2>1, <2>4 DEF Accept, ParentInv, Holds, FdTable
  <2> QED
    BY <2>5, <2>6, <2>7, <2>8, <2>9 DEF ParentInv
<1>3. CASE newfd' = BadFd /\ UNCHANGED <<pfdt, queue>>
  <2>1. ParentTypeOK' /\ Position'
    BY <1>1, <1>3 DEF Accept, ParentInv, ParentTypeOK, Position, Accepted
  <2>2. IdleFree' /\ StillThere' /\ Holds'
    BY <1>3 DEF Accept, ParentInv, IdleFree, IsQueued, StillThere, Ahead, Holds, workerVars
  <2> QED
    BY <2>1, <2>2 DEF ParentInv
<1> QED
  BY <1>2, <1>3 DEF Accept

\* fork hands the connection to a child.
LEMMA ForkKeepsParentInv ==
  ASSUME TypeInv, ParentInv, Fork
  PROVE  ParentInv'
<1>1. ParentTypeOK' /\ Position'
  BY DEF Fork, ParentInv, ParentTypeOK, Position
<1>2. IdleFree'
  <2>1. PICK p \in Pid : task' = [task EXCEPT ![p] = [conn |-> Accepted, sock |-> newfd]]
    BY DEF Fork
  <2>2. \A c \in Conn : peer[c] = "idle" => Accepted # c
    BY WorkerAssumption DEF ParentInv, ParentTypeOK, IdleFree, Accepted
  <2>3. \A c \in Conn : peer[c] = "idle" => \A q \in Pid : task'[q].conn # c
    BY <2>1, <2>2 DEF ParentInv, IdleFree, TypeInv, WorkerTypeOK
  <2> QED
    BY <2>3 DEF Fork, ParentInv, IdleFree, IsQueued, clientVars
<1>3. StillThere' /\ Holds'
  BY DEF Fork, ParentInv, StillThere, Ahead, Holds
<1> QED
  BY <1>1, <1>2, <1>3 DEF ParentInv

\* fork fails, and the connection is one of those the parent keeps.
LEMMA ForkFailsKeepsParentInv ==
  ASSUME ParentInv, ForkFails
  PROVE  ParentInv'
<1>1. ParentTypeOK' /\ Position'
  BY DEF ForkFails, ParentInv, ParentTypeOK, Position
<1>2. IdleFree' /\ StillThere'
  BY DEF ForkFails, ParentInv, IdleFree, IsQueued, StillThere, Ahead, workerVars
<1>3. Holds'
  <2>1. newfd \in FdNum => newfd # BadFd
    BY WorkerAssumption DEF BadFd
  <2> QED
    BY <2>1 DEF ForkFails, ParentInv, Holds, Accepted
<1> QED
  BY <1>1, <1>2, <1>3 DEF ParentInv

\* Otherwise it closes its copy,
LEMMA CloseKeepsParentInv ==
  ASSUME ParentInv, CloseAccepted
  PROVE  ParentInv'
<1>0. NoFile \in File /\ NoFile \notin Conn /\ pfdt \in FdTable
      /\ (newfd \in FdNum => newfd # BadFd) /\ newfd \in FdNum \cup {BadFd}
  BY WorkerAssumption DEF ParentInv, ParentTypeOK, File, BadFd
<1>1. ParentTypeOK' /\ Position'
  BY <1>0 DEF CloseAccepted, ParentInv, ParentTypeOK, Position, FdTable
<1>2. IdleFree' /\ StillThere' /\ Holds'
  BY <1>0 DEF CloseAccepted, ParentInv, IdleFree, IsQueued, StillThere, Ahead, Holds, workerVars, FdTable
<1> QED
  BY <1>1, <1>2 DEF ParentInv

\* and waits for the child.
LEMMA WaitKeepsParentInv ==
  ASSUME TypeInv, ParentInv, Wait
  PROVE  ParentInv'
<1>1. ParentTypeOK' /\ Position'
  BY DEF Wait, ParentInv, ParentTypeOK, Position
<1>2. peer' = peer /\ \A p \in Pid : task'[p].conn \in {task[p].conn, NoFile}
  <2>1. CASE UNCHANGED workerVars
    BY <2>1 DEF workerVars
  <2>2. ASSUME NEW q \in Pid, Reap(q)
        PROVE  peer' = peer /\ \A p \in Pid : task'[p].conn \in {task[p].conn, NoFile}
    <3>1. peer' = peer /\ task' = [task EXCEPT ![q] = Unborn] /\ Unborn.conn = NoFile
      BY <2>2 DEF Reap, clientVars, Unborn
    <3>2. task \in [Pid -> [conn : Conn \cup {NoFile}, sock : FdNum \cup {BadFd}]]
      BY DEF TypeInv, WorkerTypeOK
    <3> QED
      BY <3>1, <3>2
  <2> QED
    BY <2>1, <2>2 DEF Wait
<1>3. IdleFree'
  BY <1>2, WorkerAssumption DEF Wait, ParentInv, IdleFree, IsQueued
<1>4. StillThere'
  <2>1. \A j \in DOMAIN ListenOrder : Ahead(j)' => j > idx
    BY ServerAssumption DEF Wait, ParentInv, ParentTypeOK, Ahead
  <2> QED
    BY <2>1 DEF Wait, ParentInv, StillThere, Ahead
<1>5. Holds'
  BY DEF Wait, ParentInv, Holds
<1> QED
  BY <1>1, <1>3, <1>4, <1>5 DEF ParentInv

\* With the parent everything it had open goes.
LEMMA DeathKeepsParentInv ==
  ASSUME TypeInv, ParentInv, ParentDies
  PROVE  ParentInv'
<1>0. NoFile \in File /\ NoFile \notin Conn
  BY WorkerAssumption DEF File
<1>1. ParentTypeOK' /\ Position'
  BY <1>0, ServerAssumption DEF ParentDies, ParentInv, ParentTypeOK, Position, Closed, FdTable
<1>2. IdleFree'
  BY <1>0 DEF ParentDies, ParentInv, IdleFree, IsQueued, Closed, childVars
<1>3. StillThere' /\ Holds'
  BY <1>0 DEF ParentDies, StillThere, Holds, Closed
<1> QED
  BY <1>1, <1>2, <1>3 DEF ParentInv

-----------------------------------------------------------------------------
(* The invariant of the server *)

\* Nobody has connected yet and nobody has been forked.
LEMMA InitServerInv == ServerInit => ServerInv
<1> SUFFICES ASSUME ServerInit PROVE ServerInv
  OBVIOUS
<1>1. ListenTable \in FdTable /\ Closed \in FdTable
  BY DEF ListenTable, Closed, FdTable, File
<1>2. NewRequest(BadFd) \in RequestRec
  BY DEF NewRequest, RequestRec
<1>3. TypeInv
  <2>1. WorkerTypeOK
    BY <1>1, <1>2 DEF ServerInit, WorkerInit, WorkerTypeOK, Unborn, Running, Status
  <2> QED
    BY <2>1 DEF TypeInv, CountsDown, InPass, ServerInit
<1>4. ParentTypeOK /\ Position
  BY <1>1, ServerAssumption DEF ServerInit, ParentTypeOK, Position
<1>5. \A fd \in FdNum : pfdt[fd] \notin Conn
  BY WorkerAssumption DEF ServerInit, ListenTable
<1>6. IdleFree /\ StillThere /\ Holds
  <2>1. ~ \E c \in Conn : IsQueued(c)
    BY DEF ServerInit, IsQueued
  <2>2. \A p \in Pid : task[p].conn \notin Conn
    BY WorkerAssumption DEF ServerInit, Unborn
  <2> QED
    BY <1>5, <2>1, <2>2 DEF ServerInit, IdleFree, StillThere, Holds
<1> QED
  BY <1>3, <1>4, <1>6, InitChildInv DEF ServerInv, ParentInv

\* Every step of the server keeps it.
LEMMA NextServerInv == ServerInv /\ [ServerNext]_serverVars => ServerInv'
<1> SUFFICES ASSUME ServerInv, [ServerNext]_serverVars
             PROVE  TypeInv' /\ ParentInv'
  BY NextChildInv DEF ServerInv
<1> USE DEF ServerInv
<1>1. CASE Poll \/ Skip \/ ScanDone
  BY <1>1, ScanKeepsParentInv, StutterType DEF Poll, Skip, ScanDone
<1>2. CASE Accept
  BY <1>2, AcceptKeepsParentInv, StutterType DEF Accept
<1>3. CASE Fork
  BY <1>3, ForkTypes, ForkKeepsParentInv DEF ParentInv
<1>4. CASE ForkFails
  BY <1>4, ForkFailsKeepsParentInv, StutterType DEF ForkFails
<1>5. CASE CloseAccepted
  BY <1>5, CloseKeepsParentInv, StutterType DEF CloseAccepted
<1>6. CASE Wait
  BY <1>6, WaitTypes, WaitKeepsParentInv
<1>7. CASE ParentDies
  BY <1>7, KernelTypes, DeathKeepsParentInv
<1>8. ASSUME NEW p \in Pid, ChildStep(p) \/ (Interrupt(p) /\ UNCHANGED parentVars)
      PROVE  TypeInv' /\ ParentInv'
  BY <1>8, StepType, ChildLeavesPeers, OthersKeepParentInv DEF ChildStep
<1>9. ASSUME NEW c \in Conn, ClientStep(c) /\ UNCHANGED parentVars
      PROVE  TypeInv' /\ ParentInv'
  <2>1. TypeInv'
    BY <1>9, ClientType
  <2>2. task' = task /\ \A d \in Conn : peer'[d] = "idle" => peer[d] = "idle"
    BY <1>9 DEF ClientStep, SendLine, SendEnd, Shutdown, Reset, Drain, childVars,
                TypeInv, WorkerTypeOK
  <2> QED
    BY <1>9, <2>1, <2>2, OthersKeepParentInv
<1>10. ASSUME NEW c \in Conn, NEW l \in Listener, Connect(c, l)
       PROVE  TypeInv' /\ ParentInv'
  BY <1>10, KernelTypes, ConnectKeepsParentInv
<1>11. ASSUME NEW c \in Conn, Over(c) PROVE TypeInv' /\ ParentInv'
  BY <1>11, KernelTypes, OverKeepsParentInv
<1>12. CASE UNCHANGED serverVars
  BY <1>12, StutterType, OthersKeepParentInv DEF serverVars, workerVars
<1> QED
  BY <1>1, <1>2, <1>3, <1>4, <1>5, <1>6, <1>7, <1>8, <1>9, <1>10, <1>11, <1>12
     DEF ServerNext, ParentStep

\* So it holds for ever.
LEMMA ServerInvariance == ServerSpec => []ServerInv
<1>1. ServerInit => ServerInv
  BY InitServerInv
<1>2. ServerInv /\ [ServerNext]_serverVars => ServerInv'
  BY NextServerInv
<1> QED
  BY <1>1, <1>2, PTL DEF ServerSpec

\* The variables of the parent, of every child and of every connection have their
\* types, whatever fails.
THEOREM ServerTypeCorrect == ServerSpec => []ServerTypeOK
<1>1. ServerInv => ServerTypeOK
  BY DEF ServerInv, TypeInv, ParentInv, ServerTypeOK
<1> QED
  BY <1>1, ServerInvariance, PTL

\* accept never blocks: the scan takes one connection per listener, no listener
\* comes twice in a scan, and nothing else takes connections out of a queue.
THEOREM AcceptFindsOneAlways == ServerSpec => []AcceptFindsOne
<1>1. ServerInv => AcceptFindsOne
  BY DEF ServerInv, ParentInv, ParentTypeOK, StillThere, Ahead, AcceptFindsOne
<1> QED
  BY <1>1, ServerInvariance, PTL

\* The parent keeps no connection open but those fork failed for.
THEOREM HoldsOnlyUnforkedAlways == ServerSpec => []HoldsOnlyUnforked
<1>1. ServerInv => HoldsOnlyUnforked
  BY DEF ServerInv, ParentInv, Holds, HoldsOnlyUnforked
<1> QED
  BY <1>1, ServerInvariance, PTL

-----------------------------------------------------------------------------
(* What a child of the server has open.  Unlike a child on its own it may  *)
(* have been forked for nothing, and it inherits what fork failed for.     *)

ListenFds == {ListenFd[l] : l \in Listener}

\* Only the numbers of the listeners, which a child closes first, may be anything else.
ParentFiles == \A fd \in FdNum : fd \in ListenFds \/ pfdt[fd] \in Conn \cup {NoFile}

Mine(p) == {NoFile, task[p].conn} \cup unforked

HandedDown(p) == \A fd \in FdNum : fd \in ListenFds \/ fdt[p][fd] \in Mine(p)

MyFiles(p) ==
  \A fd \in FdNum : fdt[p][fd] \in Mine(p) \/ (fdt[p][fd] = StaticFile /\ pc[p] = "read")

FilesInv(p) ==
  /\ pc[p] = "start" => HandedDown(p)
  /\ Forked(p) => MyFiles(p)

HeldInv == ParentFiles /\ \A p \in Pid : FilesInv(p)

\* The parent's table, whatever the parent does.
LEMMA ParentKeepsFiles ==
  ASSUME ParentInv, ParentFiles, ParentStep \/ ParentDies \/ pfdt' = pfdt
  PROVE  ParentFiles'
<1>1. pfdt \in FdTable /\ queue \in [Listener -> Seq(Conn)]
  BY DEF ParentInv, ParentTypeOK
<1>2. CASE Accept
  <2>1. ListenOrder[idx] \in Listener /\ queue[ListenOrder[idx]] # << >>
    BY <1>2, ServerAssumption DEF Accept, ParentInv, ParentTypeOK
  <2>2. PICK c : c = Head(queue[ListenOrder[idx]])
    OBVIOUS
  <2>3. c \in Conn
    BY <1>1, <2>1, <2>2
  <2>4. pfdt' = pfdt \/ \E fd \in FdNum : pfdt' = [pfdt EXCEPT ![fd] = c]
    BY <1>2, <2>2 DEF Accept
  <2> QED
    BY <1>1, <2>3, <2>4 DEF ParentFiles, FdTable
<1>3. CASE CloseAccepted \/ ParentDies
  BY <1>1, <1>3 DEF CloseAccepted, ParentDies, ParentFiles, Closed, FdTable
<1>4. CASE Poll \/ Skip \/ ScanDone \/ Fork \/ ForkFails \/ Wait \/ pfdt' = pfdt
  BY <1>4 DEF Poll, Skip, ScanDone, Fork, ForkFails, Wait, ParentFiles
<1> QED
  BY <1>2, <1>3, <1>4 DEF ParentStep

\* A process of which nothing moves, while the failures of fork add up.
LEMMA StillFiles ==
  ASSUME NEW q \in Pid, FilesInv(q), pc'[q] = pc[q], fdt'[q] = fdt[q], task'[q] = task[q],
         unforked \subseteq unforked'
  PROVE  FilesInv(q)'
BY DEF FilesInv, HandedDown, MyFiles, Mine, Forked

\* fork: the child's table is the parent's.
LEMMA ForkFiles ==
  ASSUME TypeInv, ParentInv, HeldInv, Fork, NEW q \in Pid
  PROVE  FilesInv(q)'
<1>1. PICK p \in Pid : /\ pc' = [pc EXCEPT ![p] = "start"]
                       /\ task' = [task EXCEPT ![p] = [conn |-> Accepted, sock |-> newfd]]
                       /\ fdt' = [fdt EXCEPT ![p] = pfdt]
  BY DEF Fork
<1>2. FilesInv(q)
  BY DEF HeldInv
<1>3. CASE q # p
  BY <1>1, <1>2, <1>3, StillFiles DEF Fork, TypeInv, WorkerTypeOK
<1>4. CASE q = p
  <2>1. /\ pc'[q] = "start" /\ fdt'[q] = pfdt /\ task'[q].conn = Accepted
        /\ unforked' = unforked
    BY <1>1, <1>4 DEF Fork, TypeInv, WorkerTypeOK
  <2>2. \A fd \in FdNum : fd \in ListenFds \/ pfdt[fd] \in {NoFile, Accepted} \cup unforked
    <3> SUFFICES ASSUME NEW fd \in FdNum, fd \notin ListenFds, pfdt[fd] # NoFile,
                        pfdt[fd] \notin unforked
                 PROVE  pfdt[fd] = Accepted
      OBVIOUS
    <3>1. fd = newfd
      BY DEF HeldInv, ParentFiles, ParentInv, Holds
    <3>2. newfd # BadFd
      BY <3>1, WorkerAssumption DEF BadFd
    <3> QED
      BY <3>1, <3>2 DEF Accepted
  <2> QED
    BY <2>1, <2>2 DEF FilesInv, Forked, HandedDown, Mine
<1> QED
  BY <1>3, <1>4

\* Every step of a child.
LEMMA StepFiles ==
  ASSUME TypeInv, NEW p \in Pid, FilesInv(p), WorkerStep(p) \/ Interrupt(p),
         unforked' = unforked
  PROVE  FilesInv(p)'
<1>1. pc \in [Pid -> Running \cup {"unborn", "exited"}] /\ fdt \in [Pid -> FdTable]
  BY DEF TypeInv, WorkerTypeOK
<1>2. task' = task /\ Mine(p)' = Mine(p) /\ NoFile \in Mine(p)
  BY ChildLeavesPeers DEF Mine
<1> DEFINE Fewer == \A fd \in FdNum : fdt'[p][fd] \in {fdt[p][fd], NoFile}
<1>3. ASSUME NEW where \in Running \ {"start"}, Goto(p, where), Forked(p), pc[p] # "read",
             Fewer
      PROVE  FilesInv(p)'
  <2>1. pc'[p] = where
    BY <1>1, <1>3 DEF Goto
  <2>2. \A fd \in FdNum : fdt[p][fd] \in Mine(p)
    BY <1>3 DEF FilesInv, MyFiles
  <2>3. \A fd \in FdNum : fdt'[p][fd] \in Mine(p)'
    BY <1>2, <1>3, <2>2
  <2> QED
    BY <2>1, <2>3 DEF FilesInv, MyFiles, Running
<1>4. ASSUME NEW how, Ends(p, how) PROVE FilesInv(p)'
  <2>1. pc'[p] = "exited" /\ fdt'[p] = Closed
    BY <1>1, <1>4 DEF Ends
  <2> QED
    BY <1>2, <2>1 DEF FilesInv, MyFiles, Closed
<1>5. fdt' = fdt => Fewer
  OBVIOUS
<1>6. Fclose(p) => Fewer
  BY <1>1 DEF Fclose, FdTable
<1> HIDE DEF Fewer
<1>7. \A n : NextRound(n) \in Running \ {"start"}
  BY DEF NextRound, Running
<1>8. CASE Start(p)
  <2>1. fdt'[p] = WithoutListeners(fdt[p]) /\ pc'[p] \in {"poll", "init", "close"}
        /\ HandedDown(p)
    BY <1>1, <1>8 DEF Start, Goto, NextRound, FilesInv
  <2>2. \A fd \in FdNum : fdt'[p][fd] \in Mine(p)'
    BY <1>2, <2>1 DEF WithoutListeners, HandedDown, ListenFds
  <2> QED
    BY <2>1, <2>2 DEF FilesInv, MyFiles
<1>9. CASE \/ PollGivesUp(p) \/ Crash(p) \/ BrokenPipe(p) \/ LuaWriteFails(p)
           \/ FreeLiteral(p) \/ CloseClient(p) \/ Interrupt(p) \/ OutOfMemory(p)
  BY <1>4, <1>9
     DEF PollGivesUp, Crash, BrokenPipe, LuaWriteFails,
         FreeLiteral, CloseClient, Interrupt, OutOfMemory
<1>10. CASE PollReadable(p) \/ PollOther(p) \/ InitRequest(p) \/ RequestLine(p)
  BY <1>3, <1>5, <1>7, <1>10
     DEF PollReadable, PollOther, InitRequest, RequestLine, Forked, Running
<1>11. CASE Fill(p) \/ Write(p)
  BY <1>2, <1>11 DEF Fill, Write, Reading, FilesInv, MyFiles, HandedDown, Forked
<1>12. CASE NoRequestLine(p) \/ RequestLineOom(p) \/ HeadersOom(p)
  BY <1>3, <1>6, <1>12
     DEF NoRequestLine, RequestLineOom, HeadersOom, HeadersOver, Forked, Running
<1>13. CASE HeadersDone(p)
  <2>1. PICK new \in FdNum :
          fdt' = [fdt EXCEPT ![p][new] = Source(p), ![p][req[p].cfd] = NoFile]
    BY <1>13 DEF HeadersDone
  <2>2. PICK old : old = req[p].cfd
    OBVIOUS
  <2>3. pc[p] = "headers" /\ pc'[p] = "process"
    BY <1>1, <1>13 DEF HeadersDone, HeadersOver, Goto
  <2>4. \A fd \in FdNum : fdt[p][fd] \in Mine(p)
    BY <2>3 DEF FilesInv, Forked, MyFiles
  <2>5. Source(p) \in Mine(p)
    BY <1>2, <2>4 DEF Source, At
  <2>6. \A fd \in FdNum : fdt'[p][fd] = IF fd = old THEN NoFile
                                       ELSE IF fd = new THEN Source(p) ELSE fdt[p][fd]
    BY <1>1, <2>1, <2>2 DEF FdTable
  <2>7. \A fd \in FdNum : fdt'[p][fd] \in Mine(p)'
    BY <1>2, <2>4, <2>5, <2>6
  <2> QED
    BY <2>3, <2>7 DEF FilesInv, MyFiles
<1>14. CASE RejectMethod(p) \/ RunHandler(p) \/ Written(p) \/ FreeRequest(p)
  BY <1>3, <1>5, <1>7, <1>14
     DEF RejectMethod, RunHandler, Written, FreeRequest, Silent, Answer, Processing,
         Forked, Running
<1>15. CASE ServeStatic(p)
  BY <1>3, <1>5, <1>15 DEF ServeStatic, Silent, Answer, Processing, Forked, Running
<1>16. CASE ServeOom(p)
  BY <1>3, <1>4, <1>5, <1>16 DEF ServeOom, Silent, Answer, Processing, Forked, Running
<1>17. CASE OpenFile(p)
  <2>1. PICK new \in FdNum : fdt' = [fdt EXCEPT ![p][new] = StaticFile]
    BY <1>17 DEF OpenFile
  <2>2. pc[p] = "file" /\ pc'[p] = "read"
    BY <1>1, <1>17 DEF OpenFile, Goto
  <2>3. \A fd \in FdNum : fdt'[p][fd] = IF fd = new THEN StaticFile ELSE fdt[p][fd]
    BY <1>1, <2>1 DEF FdTable
  <2>4. \A fd \in FdNum : fdt[p][fd] \in Mine(p)
    BY <2>2 DEF FilesInv, Forked, MyFiles
  <2> QED
    BY <1>2, <2>2, <2>3, <2>4 DEF FilesInv, MyFiles
<1>18. CASE ReadFile(p)
  <2>1. pc[p] = "read" /\ pc'[p] = "write"
    BY <1>1, <1>18 DEF ReadFile, Goto
  <2>2. \A fd \in FdNum : fdt'[p][fd] = IF fdt[p][fd] = StaticFile THEN NoFile ELSE fdt[p][fd]
    BY <1>1, <1>18 DEF ReadFile
  <2>3. MyFiles(p)
    BY <2>1 DEF FilesInv, Forked
  <2>4. \A fd \in FdNum : fdt'[p][fd] \in Mine(p)'
    BY <1>2, <2>2, <2>3 DEF MyFiles
  <2> QED
    BY <2>1, <2>4 DEF FilesInv, MyFiles
<1> QED
  BY <1>8, <1>9, <1>10, <1>11, <1>12, <1>13, <1>14, <1>15, <1>16, <1>17, <1>18
     DEF WorkerStep

\* The listeners are all there is to begin with.
LEMMA InitHeld == ServerInit => HeldInv
BY DEF ServerInit, HeldInv, ParentFiles, FilesInv, Forked, ListenTable, ListenFds

\* A child is left alone by every step of the server but its own, its fork and its
\* reaping.
LEMMA NextFiles ==
  ASSUME ServerInv, HeldInv, [ServerNext]_serverVars, NEW q \in Pid
  PROVE  FilesInv(q)'
<1>1. TypeInv /\ ParentInv /\ ParentFiles /\ FilesInv(q)
  BY DEF ServerInv, HeldInv
<1> DEFINE Same == /\ pc'[q] = pc[q] /\ fdt'[q] = fdt[q] /\ task'[q] = task[q]
                    /\ unforked \subseteq unforked'
<1>2. ASSUME Same PROVE FilesInv(q)'
  BY <1>1, <1>2, StillFiles
<1>3. CASE Poll \/ Skip \/ ScanDone \/ Accept \/ ForkFails \/ CloseAccepted
  BY <1>2, <1>3 DEF Poll, Skip, ScanDone, Accept, ForkFails, CloseAccepted, workerVars
<1>4. CASE Fork
  BY <1>1, <1>4, ForkFiles
<1>5. CASE Wait
  <2>1. CASE UNCHANGED workerVars
    BY <1>2, <1>5, <2>1 DEF Wait, workerVars
  <2>2. ASSUME NEW p \in Pid, Reap(p) PROVE FilesInv(q)'
    <3>1. CASE p = q
      BY <1>1, <2>2, <3>1 DEF Reap, FilesInv, Forked, TypeInv, WorkerTypeOK
    <3>2. CASE p # q
      BY <1>1, <1>2, <1>5, <2>2, <3>2 DEF Wait, Reap, TypeInv, WorkerTypeOK
    <3> QED
      BY <3>1, <3>2
  <2> QED
    BY <1>5, <2>1, <2>2 DEF Wait
<1>6. ASSUME NEW p \in Pid, ChildStep(p) \/ (Interrupt(p) /\ UNCHANGED parentVars)
      PROVE  FilesInv(q)'
  <2>1. (WorkerStep(p) \/ Interrupt(p)) /\ unforked' = unforked
    BY <1>6 DEF ChildStep, parentVars
  <2>2. CASE p = q
    BY <1>1, <2>1, <2>2, StepFiles
  <2>3. CASE p # q
    BY <1>1, <1>2, <2>1, <2>3, StepLeavesOthers
  <2> QED
    BY <2>2, <2>3
<1>7. CASE \/ ParentDies \/ UNCHANGED serverVars
           \/ \E c \in Conn : ClientStep(c) /\ UNCHANGED parentVars
           \/ \E c \in Conn : Over(c) \/ \E l \in Listener : Connect(c, l)
  BY <1>2, <1>7
     DEF ParentDies, ClientStep, SendLine, SendEnd, Shutdown, Reset, Drain, Over, Connect,
         childVars, workerVars, parentVars, serverVars
<1> QED
  BY <1>3, <1>4, <1>5, <1>6, <1>7 DEF ServerNext, ParentStep

\* Every step of the server.
LEMMA NextHeld == ServerInv /\ HeldInv /\ [ServerNext]_serverVars => HeldInv'
<1> SUFFICES ASSUME ServerInv, HeldInv, [ServerNext]_serverVars
             PROVE  HeldInv'
  OBVIOUS
<1>1. ParentStep \/ ParentDies \/ pfdt' = pfdt
  BY DEF ServerNext, ChildStep, Connect, Over, parentVars, serverVars
<1>2. ParentFiles'
  BY <1>1, ParentKeepsFiles DEF ServerInv, HeldInv
<1>3. \A q \in Pid : FilesInv(q)'
  BY NextFiles
<1> QED
  BY <1>2, <1>3 DEF HeldInv

\* Whatever fails, and whatever the parent could not close: a child can reach no other
\* client's connection but those nobody was forked for.
THEOREM ChildHoldsOnlyItsOwnAlways == ServerSpec => []ChildHoldsOnlyItsOwn
<1>1. ServerSpec => []HeldInv
  <2>1. ServerInit => HeldInv
    BY InitHeld
  <2>2. ServerInv /\ HeldInv /\ [ServerNext]_serverVars => HeldInv'
    BY NextHeld
  <2> QED
    BY <2>1, <2>2, ServerInvariance, PTL DEF ServerSpec
<1>2. HeldInv => ChildHoldsOnlyItsOwn
  BY DEF HeldInv, FilesInv, Forked, MyFiles, Mine, ChildHoldsOnlyItsOwn
<1> QED
  BY <1>1, <1>2, PTL

-----------------------------------------------------------------------------
(* What clients get from the whole server: the children of AnswerProofs,   *)
(* with the connections the parent accepts for them and the tables it      *)
(* hands down.                                                             *)

\* What somebody may be sent over connection c, and has been.
OwedTo(c)  == Answers(FirstLine(c))
Promise(c) == \E r \in OwedTo(c) : Begins(wire[c], r)

\* A connection nobody has read from: the first thing in it is the first the client
\* sent, unless it has aborted.
Untouched(c) ==
  /\ wire[c] = << >>
  /\ inq[c] # << >> => inq[c][1] = FirstLine(c)
  /\ inq[c] = << >> /\ peer[c] # "rst" => asked[c] = << >> /\ line[c] = NoLine
  /\ \A i \in DOMAIN inq[c] : inq[c][i] = End => asked[c] # << >>

Blank(c) ==
  line[c] = NoLine /\ asked[c] = << >> /\ inq[c] = << >> /\ wire[c] = << >>

\* It waits in a queue, or has been accepted and not been handed to a child yet.
AtHand(c)  == ppc = "fork" /\ Accepted = c
Waiting(c) == IsQueued(c) \/ AtHand(c)

\* Nobody waits twice, nor while being served.
OnePlace ==
  /\ \A l, m \in Listener : \A i \in DOMAIN queue[l], j \in DOMAIN queue[m] :
       queue[l][i] = queue[m][j] => l = m /\ i = j
  /\ \A c \in Conn : IsQueued(c) => ~ AtHand(c) /\ \A p \in Pid : task[p].conn # c

\* The number of a connection that was accepted is not a listener's, as those are open.
Listening ==
  /\ ppc # "dead" => \A l \in Listener : pfdt[ListenFd[l]] # NoFile
  /\ newfd # BadFd => newfd \notin ListenFds
  /\ newfd # BadFd /\ ppc = "fork" => pfdt[newfd] \in Conn

PlacesInv == OnePlace /\ Listening

\* A child begins with its connection under its number and nothing read; one that was
\* forked for nothing never has a descriptor to read from.
NumbersInv(p) ==
  /\ OwnNumbers(p)
  /\ pc[p] = "unborn" => task[p] = Unborn
  /\ pc[p] \in {"unborn", "start", "exited"} => fbuf[p] = << >>
  /\ pc[p] \in {"unborn", "start"} => req[p].cfd = BadFd
  /\ task[p].conn = NoFile =>
       task[p].sock = BadFd /\ req[p].cfd = BadFd /\ fbuf[p] = << >>
  /\ pc[p] = "start" /\ task[p].conn \in Conn => fdt[p][task[p].sock] = task[p].conn

TalkInv ==
  /\ \A p \in Pid : task[p].conn \in Conn => AnswerInv(p)
  /\ \A c \in Conn :
       /\ Promise(c)
       /\ peer[c] = "idle" => Blank(c)
       /\ Waiting(c) => Untouched(c)

ClientsInv == PlacesInv /\ (\A p \in Pid : NumbersInv(p)) /\ TalkInv

\* Every step of a child keeps its numbers.
LEMMA StepNumbers ==
  ASSUME TypeInv, NEW p \in Pid, NumbersInv(p), task[p].conn \in Conn => AnswerInv(p),
         WorkerStep(p) \/ Interrupt(p)
  PROVE  NumbersInv(p)'
<1>1. /\ pc \in [Pid -> Running \cup {"unborn", "exited"}] /\ fdt \in [Pid -> FdTable]
      /\ req \in [Pid -> RequestRec] /\ DOMAIN fbuf = Pid
      /\ task[p].conn \in Conn \cup {NoFile}
  BY DEF TypeInv, WorkerTypeOK
<1>2. task' = task /\ (NotAListener(p) => NotAListener(p)')
  BY ChildLeavesPeers DEF NotAListener
<1>3. NoFile \notin Conn /\ At(p, BadFd) = NoFile /\ At(p, BadFd)' = NoFile
  BY WorkerAssumption DEF At, BadFd
<1> DEFINE Mean(fd) == At(p, fd) \in {NoFile, task[p].conn}
<1>0. PICK s, n : s = task[p].sock /\ n = req'[p].cfd
  OBVIOUS
<1> DEFINE Kept == task[p].conn = NoFile => req'[p].cfd = BadFd /\ fbuf'[p] = << >>
<1>4. ASSUME NEW how, Ends(p, how) PROVE NumbersInv(p)'
  <2>1. /\ pc'[p] = "exited" /\ fdt'[p] = Closed /\ fbuf'[p] = << >> /\ req' = req
    BY <1>1, <1>4 DEF Ends
  <2>2. \A fd : At(p, fd)' = NoFile
    BY <2>1 DEF At, Closed
  <2>3. pc[p] # "unborn"
    BY DEF WorkerStep, Interrupt, OutOfMemory, Processing, Start, PollGivesUp, PollReadable,
           PollOther, InitRequest, Fill, Reading, NoRequestLine, RequestLine, RequestLineOom,
           HeadersDone, HeadersOom, HeadersOver, RejectMethod, Crash, RunHandler, ServeStatic,
           ServeOom, OpenFile, ReadFile, Write, LuaWriteFails, AboutToWrite, BrokenPipe,
           Written, FreeLiteral, FreeRequest, CloseClient, Running
  <2> QED
    BY <1>1, <1>2, <2>1, <2>2, <2>3 DEF NumbersInv, OwnNumbers
<1>5. ASSUME pc'[p] \in Running \ {"start"}, pc[p] # "unborn", Kept,
             \A fd \in {s, n} :
               Mean(fd)' \/ (At(p, fd)' = StaticFile /\ pc'[p] = "read")
      PROVE  NumbersInv(p)'
  <2>1. OwnNumbers(p)'
    BY <1>0, <1>1, <1>2, <1>5 DEF NumbersInv, OwnNumbers
  <2>2. pc'[p] \notin {"unborn", "start", "exited"}
    BY <1>5 DEF Running
  <2> QED
    BY <1>1, <1>2, <1>3, <1>5, <2>1, <2>2 DEF NumbersInv
<1>6. Forked(p) /\ pc[p] # "read" => Mean(s) /\ Mean(req[p].cfd)
  BY <1>0 DEF NumbersInv, OwnNumbers
<1> DEFINE Fewer == \A fd \in FdNum : fdt'[p][fd] \in {fdt[p][fd], NoFile}
<1>7. Fewer => \A fd : Mean(fd) => Mean(fd)'
  BY <1>2 DEF At
<1>8. fdt' = fdt => Fewer
  OBVIOUS
<1>9. Fclose(p) => Fewer
  BY <1>1 DEF Fclose, FdTable
<1>10. ASSUME NEW where \in Running \ {"start"}, Goto(p, where), Forked(p), pc[p] # "read",
              Fewer, req'[p].cfd \in {req[p].cfd, task[p].sock},
              fbuf'[p] = fbuf[p] \/ fbuf'[p] = << >> \/ task[p].conn # NoFile
       PROVE  NumbersInv(p)'
  <2>1. pc'[p] = where /\ pc[p] # "unborn"
    BY <1>1, <1>10 DEF Goto, Forked
  <2>2. Kept
    BY <1>10 DEF NumbersInv
  <2>3. Mean(s)' /\ Mean(n)'
    BY <1>0, <1>6, <1>7, <1>10
  <2> HIDE DEF Mean, Kept
  <2> QED
    BY <1>5, <1>10, <2>1, <2>2, <2>3
<1> HIDE DEF Fewer
<1>11. \A k : NextRound(k) \in Running \ {"start"}
  BY DEF NextRound, Running
<1>12. CASE Start(p)
  <2>1. /\ pc[p] = "start" /\ pc'[p] \in {"poll", "init", "close"}
        /\ fdt'[p] = WithoutListeners(fdt[p]) /\ req' = req /\ fbuf' = fbuf
    BY <1>1, <1>12 DEF Start, Goto, NextRound
  <2>2. req'[p].cfd = BadFd /\ fbuf'[p] = << >>
    BY <2>1 DEF NumbersInv
  <2>3. Mean(s)'
    <3>1. CASE task[p].conn = NoFile
      BY <1>0, <1>2, <1>3, <3>1 DEF NumbersInv
    <3>2. CASE task[p].conn \in Conn
      <4>1. task[p].sock \in FdNum /\ fdt[p][task[p].sock] = task[p].conn
        BY <2>1, <3>2 DEF NumbersInv, OwnNumbers, NotAListener
      <4>2. fdt'[p][task[p].sock] \in {NoFile, fdt[p][task[p].sock]}
        BY <2>1, <4>1 DEF WithoutListeners
      <4> QED
        BY <1>0, <1>2, <4>1, <4>2 DEF At
    <3> QED
      BY <1>1, <3>1, <3>2
  <2>4. Mean(n)'
    BY <1>0, <1>3, <2>2
  <2>5. Kept /\ pc'[p] \in Running \ {"start"} /\ pc[p] # "unborn"
    BY <2>1, <2>2 DEF Running
  <2> HIDE DEF Mean, Kept
  <2> QED
    BY <1>5, <2>3, <2>4, <2>5
<1>13. CASE \/ PollGivesUp(p) \/ Crash(p) \/ BrokenPipe(p) \/ LuaWriteFails(p)
            \/ FreeLiteral(p) \/ CloseClient(p) \/ Interrupt(p) \/ OutOfMemory(p)
  BY <1>4, <1>13
     DEF PollGivesUp, Crash, BrokenPipe, LuaWriteFails,
         FreeLiteral, CloseClient, Interrupt, OutOfMemory
<1>14. CASE PollReadable(p) \/ PollOther(p)
  BY <1>8, <1>10, <1>11, <1>14 DEF PollReadable, PollOther, Forked, Running
<1>15. CASE InitRequest(p)
  <2>1. req'[p].cfd = task[p].sock /\ fdt' = fdt /\ fbuf' = fbuf /\ pc[p] = "init"
    BY <1>1, <1>15 DEF InitRequest, NewRequest
  <2> QED
    BY <1>8, <1>10, <1>15, <2>1 DEF InitRequest, Forked, Running
<1>16. CASE Fill(p)
  <2>1. /\ pc[p] \in {"line", "headers"} /\ pc' = pc /\ fdt' = fdt /\ req' = req
        /\ Source(p) \in Conn
    BY <1>16 DEF Fill, Reading
  <2>2. task[p].conn # NoFile
    BY <1>3, <2>1 DEF NumbersInv, Source
  <2>3. Mean(s)' /\ Mean(n)'
    BY <1>0, <1>6, <1>7, <1>8, <2>1 DEF Forked
  <2>4. Kept /\ pc'[p] \in Running \ {"start"} /\ pc[p] # "unborn"
    BY <2>1, <2>2 DEF Running
  <2> HIDE DEF Mean, Kept
  <2> QED
    BY <1>5, <2>3, <2>4
<1>17. CASE NoRequestLine(p) \/ RequestLineOom(p) \/ HeadersOom(p)
  <2>1. Fclose(p) /\ Goto(p, "process") /\ Forked(p) /\ pc[p] # "read"
    BY <1>17
       DEF NoRequestLine, RequestLineOom, HeadersOom, HeadersOver, Forked
  <2>2. req'[p].cfd = req[p].cfd /\ fbuf'[p] = << >>
    BY <1>1, <1>17, <2>1 DEF NoRequestLine, RequestLineOom, HeadersOom, Fclose, RequestRec
  <2> QED
    BY <1>9, <1>10, <2>1, <2>2 DEF Running
<1>18. CASE RequestLine(p)
  <2>1. Goto(p, "headers") /\ fdt' = fdt /\ Forked(p) /\ pc[p] # "read" /\ fbuf[p] # << >>
    BY <1>18 DEF RequestLine, Forked
  <2>2. req'[p].cfd = req[p].cfd
    BY <1>1, <1>18 DEF RequestLine, RequestRec
  <2>3. task[p].conn # NoFile
    BY <2>1 DEF NumbersInv
  <2> QED
    BY <1>8, <1>10, <2>1, <2>2, <2>3 DEF Running
<1>19. CASE HeadersDone(p)
  <2>1. pc[p] = "headers" /\ pc'[p] = "process" /\ Reading(p)
    BY <1>1, <1>19 DEF HeadersDone, HeadersOver, Goto, Reading
  <2>2. task[p].conn # NoFile
    BY <1>3, <1>19 DEF HeadersDone, HeadersOver, AtEof, Source, NumbersInv
  <2>3. AnswerInv(p) /\ HoldsAndAnswers(p)
    BY <1>1, <2>2 DEF HoldsAndAnswers, NumbersInv
  <2>4. req[p].cfd = task[p].sock /\ Source(p) = task[p].conn /\ task[p].sock \in FdNum
    BY <2>1, <2>3, ReadsConnection, SockFacts
  <2>5. PICK new \in FdNum :
          /\ fdt' = [fdt EXCEPT ![p][new] = Source(p), ![p][req[p].cfd] = NoFile]
          /\ req' = [req EXCEPT ![p].cfd = new]
    BY <1>19 DEF HeadersDone
  <2>6. req'[p].cfd = new
    BY <1>1, <2>5 DEF RequestRec
  <2>7. \A fd \in FdNum : fdt'[p][fd] = IF fd = task[p].sock THEN NoFile
                                       ELSE IF fd = new THEN task[p].conn ELSE fdt[p][fd]
    BY <1>1, <2>4, <2>5 DEF FdTable
  <2>8. Mean(s)' /\ Mean(n)'
    BY <1>0, <1>2, <2>4, <2>6, <2>7 DEF At
  <2>9. Kept /\ pc'[p] \in Running \ {"start"} /\ pc[p] # "unborn"
    BY <2>1, <2>2 DEF Running
  <2> HIDE DEF Mean, Kept
  <2> QED
    BY <1>5, <2>8, <2>9
<1>20. CASE RejectMethod(p) \/ RunHandler(p) \/ Written(p) \/ FreeRequest(p)
  BY <1>8, <1>10, <1>11, <1>20
     DEF RejectMethod, RunHandler, Written, FreeRequest, Silent, Answer, Processing,
         Forked, Running
<1>21. ASSUME SwapsPath(p) \/ req' = req PROVE req'[p].cfd = req[p].cfd
  BY <1>1, <1>21 DEF SwapsPath, RequestRec
<1>22. CASE ServeStatic(p)
  <2>1. /\ fdt' = fdt /\ fbuf' = fbuf /\ pc[p] = "process" /\ (SwapsPath(p) \/ req' = req)
        /\ \E where \in {"write", "free", "file"} : Goto(p, where)
    BY <1>22 DEF ServeStatic, Silent, Answer, Processing
  <2> QED
    BY <1>8, <1>10, <1>21, <2>1 DEF Forked, Running
<1>23. CASE ServeOom(p)
  <2>1. CASE Ends(p, "SIGSEGV")
    BY <1>4, <2>1
  <2>2. CASE ~ Ends(p, "SIGSEGV")
    <3>1. /\ fdt' = fdt /\ fbuf' = fbuf /\ pc[p] = "process" /\ (SwapsPath(p) \/ req' = req)
          /\ \E where \in {"write", "free"} : Goto(p, where)
      BY <1>23, <2>2 DEF ServeOom, Silent, Answer, Processing
    <3> QED
      BY <1>8, <1>10, <1>21, <3>1 DEF Forked, Running
  <2> QED
    BY <2>1, <2>2
<1>24. CASE OpenFile(p)
  <2>1. PICK new \in FdNum : fdt' = [fdt EXCEPT ![p][new] = StaticFile]
    BY <1>24 DEF OpenFile
  <2>2. pc[p] = "file" /\ pc'[p] = "read" /\ req' = req /\ fbuf' = fbuf
    BY <1>1, <1>24 DEF OpenFile, Goto
  <2>3. \A fd \in FdNum : fdt'[p][fd] = IF fd = new THEN StaticFile ELSE fdt[p][fd]
    BY <1>1, <2>1 DEF FdTable
  <2>4. \A fd \in {s, n} : Mean(fd)' \/ At(p, fd)' = StaticFile
    BY <1>0, <1>2, <1>6, <2>2, <2>3 DEF At, Forked
  <2>5. Kept /\ pc'[p] \in Running \ {"start"} /\ pc[p] # "unborn"
    BY <2>2 DEF Running, NumbersInv
  <2> HIDE DEF Mean, Kept
  <2> QED
    BY <1>5, <2>2, <2>4, <2>5
<1>25. CASE ReadFile(p)
  <2>1. pc[p] = "read" /\ pc'[p] = "write" /\ req' = req /\ fbuf' = fbuf
    BY <1>1, <1>25 DEF ReadFile, Goto
  <2>2. \A fd \in FdNum : fdt'[p][fd] = IF fdt[p][fd] = StaticFile THEN NoFile ELSE fdt[p][fd]
    BY <1>1, <1>25 DEF ReadFile
  <2>3. \A fd \in {s, n} : Mean(fd) \/ At(p, fd) = StaticFile
    BY <1>0, <2>1 DEF NumbersInv, OwnNumbers, Forked
  <2>4. Mean(s)' /\ Mean(n)'
    BY <1>2, <2>2, <2>3 DEF At
  <2>5. Kept /\ pc'[p] \in Running \ {"start"} /\ pc[p] # "unborn"
    BY <2>1 DEF Running, NumbersInv
  <2> HIDE DEF Mean, Kept
  <2> QED
    BY <1>5, <2>4, <2>5
<1>26. CASE Write(p)
  <2>1. pc[p] = "write" /\ pc' = pc /\ fdt' = fdt /\ req' = req /\ fbuf' = fbuf
    BY <1>26 DEF Write
  <2>2. Mean(s)' /\ Mean(n)'
    BY <1>0, <1>6, <1>7, <1>8, <2>1 DEF Forked
  <2>3. Kept /\ pc'[p] \in Running \ {"start"} /\ pc[p] # "unborn"
    BY <2>1 DEF Running, NumbersInv
  <2> HIDE DEF Mean, Kept
  <2> QED
    BY <1>5, <2>2, <2>3
<1> QED
  BY <1>12, <1>13, <1>14, <1>15, <1>16, <1>17, <1>18, <1>19, <1>20, <1>22, <1>23, <1>24,
     <1>25, <1>26
     DEF WorkerStep

\* What does not reach a child leaves its numbers alone.
LEMMA SameNumbers ==
  ASSUME NEW p \in Pid, NumbersInv(p),
         pc'[p] = pc[p], task'[p] = task[p], fdt'[p] = fdt[p], fbuf'[p] = fbuf[p],
         req'[p] = req[p]
  PROVE  NumbersInv(p)'
<1>1. OwnNumbers(p)'
  BY DEF NumbersInv, OwnNumbers, NotAListener, Forked, At
<1> QED
  BY <1>1 DEF NumbersInv

\* fork gives a child the number of its connection, and wait takes it back.
LEMMA NextNumbers ==
  ASSUME ServerInv, Listening, \A p \in Pid : NumbersInv(p),
         \A p \in Pid : task[p].conn \in Conn => AnswerInv(p),
         [ServerNext]_serverVars, NEW p \in Pid
  PROVE  NumbersInv(p)'
<1>0. TypeInv /\ ParentTypeOK
  BY DEF ServerInv, ParentInv
<1>1. /\ DOMAIN pc = Pid /\ DOMAIN task = Pid /\ DOMAIN fdt = Pid /\ DOMAIN req = Pid
      /\ DOMAIN fbuf = Pid
  BY <1>0 DEF TypeInv, WorkerTypeOK
<1>2. CASE UNCHANGED <<pc, task, fdt, fbuf, req>>
  BY <1>2, SameNumbers
<1>3. ASSUME NEW q \in Pid, WorkerStep(q) \/ Interrupt(q) PROVE NumbersInv(p)'
  <2>1. CASE q = p
    BY <1>0, <1>3, <2>1, StepNumbers
  <2>2. CASE q # p
    <3>1. OwnNumbers(q)
      BY DEF NumbersInv
    <3> QED
      BY <1>0, <1>3, <2>2, <3>1, StepReach, SameNumbers
  <2> QED
    BY <2>1, <2>2
<1>4. CASE Fork
  <2>1. PICK q \in Pid :
          /\ pc[q] = "unborn"
          /\ pc' = [pc EXCEPT ![q] = "start"]
          /\ task' = [task EXCEPT ![q] = [conn |-> Accepted, sock |-> newfd]]
          /\ fdt' = [fdt EXCEPT ![q] = pfdt]
    BY <1>4 DEF Fork
  <2>2. fbuf' = fbuf /\ req' = req /\ ppc = "fork"
    BY <1>4 DEF Fork
  <2>3. CASE q = p
    <3>1. /\ pc'[p] = "start" /\ task'[p].conn = Accepted /\ task'[p].sock = newfd
          /\ fdt'[p] = pfdt
      BY <1>1, <2>1, <2>3
    <3>2. fbuf'[p] = << >> /\ req'[p].cfd = BadFd
      BY <2>1, <2>2, <2>3 DEF NumbersInv
    <3>3. CASE newfd = BadFd
      <4>1. Accepted = NoFile /\ NoFile \notin Conn
        BY <3>3, WorkerAssumption DEF Accepted
      <4>2. OwnNumbers(p)'
        BY <3>1, <4>1 DEF OwnNumbers, Forked
      <4> QED
        BY <3>1, <3>2, <3>3, <4>1, <4>2 DEF NumbersInv
    <3>4. CASE newfd # BadFd
      <4>1. Accepted = pfdt[newfd] /\ Accepted \in Conn /\ NoFile \notin Conn
        BY <2>2, <3>4, WorkerAssumption DEF Accepted, Listening
      <4>2. newfd \in FdNum /\ newfd \notin ListenFds
        BY <1>0, <3>4 DEF Listening, ParentTypeOK
      <4>3. OwnNumbers(p)'
        BY <3>1, <4>2 DEF OwnNumbers, Forked, NotAListener, ListenFds
      <4> QED
        BY <3>1, <3>2, <4>1, <4>3 DEF NumbersInv
    <3> QED
      BY <3>3, <3>4
  <2>4. CASE q # p
    BY <1>1, <2>1, <2>2, <2>4, SameNumbers
  <2> QED
    BY <2>3, <2>4
<1>5. ASSUME NEW q \in Pid, pc[q] = "exited", Reap(q) PROVE NumbersInv(p)'
  <2>1. CASE q = p
    <3>1. /\ pc'[p] = "unborn" /\ task'[p] = Unborn /\ req'[p] = NewRequest(BadFd)
          /\ fbuf' = fbuf
      BY <1>1, <1>5, <2>1 DEF Reap
    <3>2. fbuf'[p] = << >> /\ req'[p].cfd = BadFd
      BY <1>5, <2>1, <3>1 DEF NumbersInv, NewRequest
    <3>3. Unborn.conn = NoFile /\ Unborn.sock = BadFd /\ NoFile \notin Conn
      BY WorkerAssumption DEF Unborn
    <3>4. OwnNumbers(p)'
      BY <3>1, <3>3 DEF OwnNumbers, Forked
    <3> QED
      BY <3>1, <3>2, <3>3, <3>4 DEF NumbersInv
  <2>2. CASE q # p
    BY <1>1, <1>5, <2>2, SameNumbers DEF Reap
  <2> QED
    BY <2>1, <2>2
<1>6. CASE Wait
  BY <1>2, <1>5, <1>6 DEF Wait, workerVars
<1>7. CASE \/ Poll \/ Skip \/ ScanDone \/ Accept \/ ForkFails \/ CloseAccepted
           \/ ParentDies \/ UNCHANGED serverVars
  BY <1>2, <1>7
     DEF Poll, Skip, ScanDone, Accept, ForkFails, CloseAccepted, ParentDies, serverVars,
         workerVars, childVars
<1>8. ASSUME NEW c \in Conn, \/ ClientStep(c) \/ Over(c) \/ \E l \in Listener : Connect(c, l)
      PROVE  NumbersInv(p)'
  BY <1>2, <1>8
     DEF ClientStep, SendLine, SendEnd, Shutdown, Reset, Drain, Over, Connect, childVars
<1> QED
  BY <1>3, <1>4, <1>6, <1>7, <1>8 DEF ServerNext, ParentStep, ChildStep

\* A connection joins a queue and leaves it at the other end; the parent has at most
\* one in its hands, and that one has left its queue.
LEMMA NextPlaces ==
  ASSUME ServerInv, PlacesInv, [ServerNext]_serverVars
  PROVE  PlacesInv'
<1>0. TypeInv /\ ParentTypeOK /\ IdleFree /\ OnePlace /\ Listening
  BY DEF ServerInv, ParentInv, PlacesInv
<1>1. /\ queue \in [Listener -> Seq(Conn)] /\ pfdt \in FdTable /\ newfd \in FdNum \cup {BadFd}
      /\ NoFile \notin Conn /\ BadFd \notin FdNum
      /\ task \in [Pid -> [conn : Conn \cup {NoFile}, sock : FdNum \cup {BadFd}]]
  BY <1>0, WorkerAssumption DEF ParentTypeOK, TypeInv, WorkerTypeOK, BadFd
<1>2. ASSUME queue' = queue, pfdt' = pfdt, newfd' \in {newfd, BadFd}, ppc' # "fork",
             ppc = "dead" => ppc' = "dead",
             \A p \in Pid : task'[p].conn \in {task[p].conn, NoFile, Accepted},
             (\E p \in Pid : task'[p].conn \notin {task[p].conn, NoFile}) => ppc = "fork"
      PROVE  PlacesInv'
  <2>1. OnePlace'
    BY <1>0, <1>1, <1>2 DEF OnePlace, IsQueued, AtHand
  <2>2. Listening'
    BY <1>0, <1>2 DEF Listening
  <2> QED
    BY <2>1, <2>2 DEF PlacesInv
<1>3. ASSUME UNCHANGED parentVars, task' = task PROVE PlacesInv'
  BY <1>0, <1>3
     DEF PlacesInv, OnePlace, IsQueued, AtHand, Accepted, Listening, parentVars
<1>4. CASE Poll \/ Skip \/ ScanDone \/ ForkFails
  BY <1>2, <1>4 DEF Poll, Skip, ScanDone, ForkFails, workerVars
<1>5. CASE Fork
  <2>1. PICK p \in Pid : task' = [task EXCEPT ![p] = [conn |-> Accepted, sock |-> newfd]]
    BY <1>5 DEF Fork
  <2>2. \A q \in Pid : task'[q].conn = IF q = p THEN Accepted ELSE task[q].conn
    BY <1>1, <2>1
  <2> QED
    BY <1>2, <1>5, <2>2 DEF Fork
<1>6. CASE Wait
  <2>1. \A q \in Pid : task'[q].conn \in {task[q].conn, NoFile}
    <3>1. ASSUME NEW p \in Pid, Reap(p)
          PROVE  \A q \in Pid : task'[q].conn \in {task[q].conn, NoFile}
      <4>1. task' = [task EXCEPT ![p] = Unborn] /\ Unborn.conn = NoFile
        BY <3>1 DEF Reap, Unborn
      <4> QED
        BY <1>1, <4>1
    <3> QED
      BY <1>6, <3>1 DEF Wait, workerVars
  <2> QED
    BY <1>2, <1>6, <2>1 DEF Wait
<1>7. CASE CloseAccepted
  <2>1. /\ ppc = "close" /\ ppc' = "wait" /\ newfd' = BadFd /\ queue' = queue /\ task' = task
        /\ pfdt' = IF newfd = BadFd THEN pfdt ELSE [pfdt EXCEPT ![newfd] = NoFile]
    BY <1>7 DEF CloseAccepted, workerVars
  <2>2. OnePlace'
    BY <1>0, <2>1 DEF OnePlace, IsQueued, AtHand
  <2>3. \A l \in Listener : pfdt'[ListenFd[l]] # NoFile
    <3>1. \A l \in Listener : ListenFd[l] \in FdNum /\ pfdt[ListenFd[l]] # NoFile
                              /\ (newfd = BadFd \/ ListenFd[l] # newfd)
      BY <1>0, <2>1, WorkerAssumption DEF Listening, ListenFds
    <3> QED
      BY <1>1, <2>1, <3>1 DEF FdTable
  <2> QED
    BY <2>1, <2>2, <2>3 DEF PlacesInv, Listening
<1>8. CASE Accept
  <2>1. PICK l \in Listener : l = ListenOrder[idx]
    BY <1>0, <1>8, ServerAssumption DEF Accept, ParentTypeOK
  <2>2. /\ ppc = "scan" /\ ppc' = "fork" /\ queue[l] # << >> /\ task' = task
        /\ \/ \E fd \in FdNum :
                /\ IsLowestFree(pfdt, fd)
                /\ pfdt' = [pfdt EXCEPT ![fd] = Head(queue[l])]
                /\ newfd' = fd
                /\ queue' = [queue EXCEPT ![l] = Tail(@)]
           \/ newfd' = BadFd /\ pfdt' = pfdt /\ queue' = queue
    BY <1>8, <2>1 DEF Accept, workerVars
  <2>3. CASE newfd' = BadFd /\ pfdt' = pfdt /\ queue' = queue
    <3>1. \A c \in Conn : ~ AtHand(c)'
      BY <1>1, <2>3 DEF AtHand, Accepted
    <3>2. OnePlace'
      BY <1>0, <2>2, <2>3, <3>1 DEF OnePlace, IsQueued
    <3> QED
      BY <1>0, <2>2, <2>3, <3>2 DEF PlacesInv, Listening
  <2>4. ASSUME NEW fd \in FdNum,
               IsLowestFree(pfdt, fd), pfdt' = [pfdt EXCEPT ![fd] = Head(queue[l])],
               newfd' = fd, queue' = [queue EXCEPT ![l] = Tail(@)]
        PROVE  PlacesInv'
    <3>1. PICK q \in Seq(Conn) : q = queue[l]
      BY <1>1
    <3>2. PICK h \in Conn : h = Head(q) /\ h = q[1] /\ 1 \in DOMAIN q
      BY <2>2, <3>1
    <3>3. /\ Tail(q) \in Seq(Conn) /\ Len(Tail(q)) = Len(q) - 1
          /\ \A i \in 1 .. Len(Tail(q)) : Tail(q)[i] = q[i + 1]
      BY <2>2, <3>1, HeadTailProperties
    <3>4. \A i \in DOMAIN Tail(q) : i + 1 \in DOMAIN q /\ i + 1 # 1 /\ Tail(q)[i] = q[i + 1]
      BY <3>1, <3>3
    <3>5. /\ \A k \in Listener : k # l => queue'[k] = queue[k]
          /\ \A i \in DOMAIN queue'[l] :
               i \in Nat /\ i + 1 \in DOMAIN queue[l] /\ i + 1 # 1 /\ queue'[l][i] = queue[l][i + 1]
          /\ 1 \in DOMAIN queue[l] /\ queue[l][1] = h
      <4>1. queue'[l] = Tail(q) /\ \A k \in Listener : k # l => queue'[k] = queue[k]
        BY <1>1, <2>4, <3>1
      <4> QED
        BY <3>1, <3>2, <3>3, <3>4, <4>1
    <3>6. \A k, m \in Listener : \A i \in DOMAIN queue[k], j \in DOMAIN queue[m] :
            queue[k][i] = queue[m][j] => k = m /\ i = j
      BY <1>0 DEF OnePlace
    <3>7. ASSUME NEW k \in Listener, NEW m \in Listener,
                 NEW i \in DOMAIN queue'[k], NEW j \in DOMAIN queue'[m],
                 queue'[k][i] = queue'[m][j]
          PROVE  k = m /\ i = j
      <4>1. CASE k = l /\ m = l
        <5>1. i \in Nat /\ j \in Nat
          BY <3>5, <4>1
        <5>2. PICK a \in DOMAIN queue[l], b \in DOMAIN queue[l] :
                a = i + 1 /\ b = j + 1 /\ queue[l][a] = queue[l][b]
          BY <3>5, <3>7, <4>1
        <5>3. a = b
          BY <3>6, <5>2
        <5> QED
          BY <4>1, <5>1, <5>2, <5>3
      <4>2. CASE k # l \/ m # l
        <5>1. /\ \E a \in DOMAIN queue[k] : queue[k][a] = queue'[k][i] /\ (k # l => a = i)
              /\ \E b \in DOMAIN queue[m] : queue[m][b] = queue'[m][j] /\ (m # l => b = j)
          BY <3>5
        <5> QED
          BY <3>6, <3>7, <4>2, <5>1
      <4> QED
        BY <4>1, <4>2
    <3>8. \A c \in Conn : IsQueued(c)' => IsQueued(c) /\ c # h
      <4> SUFFICES ASSUME NEW c \in Conn, NEW k \in Listener, NEW i \in DOMAIN queue'[k],
                          queue'[k][i] = c
                   PROVE  IsQueued(c) /\ c # h
        BY DEF IsQueued
      <4>1. CASE k = l
        <5>1. PICK a \in DOMAIN queue[l] : a # 1 /\ queue[l][a] = c
          BY <3>5, <4>1
        <5> QED
          BY <3>5, <3>6, <5>1 DEF IsQueued
      <4>2. CASE k # l
        BY <3>5, <3>6, <4>2 DEF IsQueued
      <4> QED
        BY <4>1, <4>2
    <3>9. pfdt'[fd] = h /\ fd # BadFd /\ \A g \in FdNum : g # fd => pfdt'[g] = pfdt[g]
      BY <1>1, <2>4, <3>1, <3>2 DEF FdTable
    <3>10. \A c \in Conn : AtHand(c)' => c = h
      BY <2>4, <3>9 DEF AtHand, Accepted
    <3>11. OnePlace'
      BY <1>0, <2>2, <3>7, <3>8, <3>10 DEF OnePlace
    <3>12. Listening'
      <4>1. \A k \in Listener : ListenFd[k] \in FdNum /\ pfdt[ListenFd[k]] # NoFile
        BY <1>0, <2>2, WorkerAssumption DEF Listening
      <4>2. pfdt[fd] = NoFile
        BY <2>4 DEF IsLowestFree, IsFree
      <4>3. fd \notin ListenFds
        BY <4>1, <4>2 DEF ListenFds
      <4> QED
        BY <1>1, <2>2, <2>4, <3>9, <4>1, <4>3 DEF Listening
    <3> QED
      BY <3>11, <3>12 DEF PlacesInv
  <2> QED
    BY <2>2, <2>3, <2>4
<1>9. ASSUME NEW c \in Conn, NEW l \in Listener, Connect(c, l) PROVE PlacesInv'
  <2>1. /\ peer[c] = "idle" /\ queue' = [queue EXCEPT ![l] = Append(@, c)]
        /\ task' = task /\ ppc' = ppc /\ pfdt' = pfdt /\ newfd' = newfd
    BY <1>9 DEF Connect, childVars
  <2>2. /\ \A k \in Listener : \A i \in DOMAIN queue[k] : queue[k][i] # c
        /\ \A fd \in FdNum : pfdt[fd] # c
        /\ \A p \in Pid : task[p].conn # c
    BY <1>0, <2>1 DEF IdleFree, IsQueued
  <2>3. ~ AtHand(c)
    BY <1>1, <2>2 DEF AtHand, Accepted
  <2>4. PICK q \in Seq(Conn) : q = queue[l]
    BY <1>1
  <2>5. /\ queue'[l] = Append(q, c) /\ \A k \in Listener : k # l => queue'[k] = queue[k]
        /\ \A i \in DOMAIN Append(q, c) :
             \/ i \in DOMAIN q /\ Append(q, c)[i] = q[i]
             \/ i = Len(q) + 1 /\ Append(q, c)[i] = c
    BY <1>1, <2>1, <2>4
  <2>6. \A k \in Listener : \A i \in DOMAIN queue'[k] :
          \/ i \in DOMAIN queue[k] /\ queue'[k][i] = queue[k][i]
          \/ k = l /\ i = Len(q) + 1 /\ queue'[k][i] = c
    BY <2>4, <2>5
  <2>7. \A k, m \in Listener : \A i \in DOMAIN queue'[k], j \in DOMAIN queue'[m] :
          queue'[k][i] = queue'[m][j] => k = m /\ i = j
    BY <1>0, <2>2, <2>6 DEF OnePlace
  <2>8. \A d \in Conn : IsQueued(d)' => IsQueued(d) \/ d = c
    BY <2>6 DEF IsQueued
  <2>9. \A d \in Conn : AtHand(d)' => AtHand(d)
    BY <2>1 DEF AtHand, Accepted
  <2> QED
    BY <1>0, <2>1, <2>2, <2>3, <2>7, <2>8, <2>9 DEF PlacesInv, OnePlace, Listening
<1>10. CASE ParentDies
  <2>1. ppc' = "dead" /\ newfd' = BadFd /\ \A l \in Listener : queue'[l] = << >>
    BY <1>10 DEF ParentDies
  <2> QED
    BY <2>1 DEF PlacesInv, OnePlace, IsQueued, Listening
<1>11. ASSUME NEW c \in Conn, Over(c) \/ (ClientStep(c) /\ UNCHANGED parentVars)
       PROVE  PlacesInv'
  BY <1>3, <1>11 DEF Over, ClientStep, SendLine, SendEnd, Shutdown, Reset, Drain, childVars
<1>12. ASSUME NEW p \in Pid, WorkerStep(p) \/ Interrupt(p), UNCHANGED parentVars
       PROVE  PlacesInv'
  BY <1>3, <1>12, ChildLeavesPeers
<1>13. CASE UNCHANGED serverVars
  BY <1>3, <1>13 DEF serverVars, workerVars
<1> QED
  BY <1>4, <1>5, <1>6, <1>7, <1>8, <1>9, <1>10, <1>11, <1>12, <1>13
     DEF ServerNext, ParentStep, ChildStep

\* What nobody has touched says what it said.
LEMMA SameTalk ==
  ASSUME NEW c \in Conn,
         peer'[c] = peer[c], line'[c] = line[c], asked'[c] = asked[c], inq'[c] = inq[c],
         wire'[c] = wire[c]
  PROVE  /\ Promise(c) => Promise(c)'
         /\ Blank(c) => Blank(c)'
         /\ Untouched(c) => Untouched(c)'
<1>1. FirstLine(c)' = FirstLine(c)
  BY DEF FirstLine
<1>2. OwedTo(c)' = OwedTo(c)
  BY <1>1 DEF OwedTo
<1> QED
  BY <1>1, <1>2 DEF Promise, Blank, Untouched

\* The first thing a client has sent is a line, and there is always something to begin.
LEMMA FirstLineType ==
  ASSUME WorkerTypeOK, NEW c \in Conn
  PROVE  /\ FirstLine(c) \in Line \cup {NoLine}
         /\ OwedTo(c) \subseteq Seq(Piece)
         /\ NoLine \notin Line \cup {End} /\ End \notin Line
         /\ wire[c] = << >> => Promise(c)
<1>1. asked[c] \in Seq(Line) /\ line[c] \in Line \cup {NoLine} /\ wire[c] \in Seq(Piece)
  BY DEF WorkerTypeOK
<1>2. FirstLine(c) \in Line \cup {NoLine}
  BY <1>1 DEF FirstLine
<1>3. OwedTo(c) \subseteq Seq(Piece) /\ OwedTo(c) # {}
  BY <1>2, AnswersFacts DEF OwedTo
<1>4. NoLine.kind = "none" /\ End.kind = "end" /\ Short.kind = "short"
  BY DEF NoLine, End, Short
<1>5. \A l \in Line : l.kind \in {"line", "short"}
  BY <1>4, LineAssumption DEF Request
<1>6. NoLine \notin Line \cup {End} /\ End \notin Line
  BY <1>4, <1>5
<1>7. ASSUME wire[c] = << >> PROVE Promise(c)
  <2>1. PICK r \in OwedTo(c) : r \in Seq(Piece)
    BY <1>3
  <2>2. Begins(wire[c], r)
    BY <1>7, <2>1 DEF Begins
  <2> QED
    BY <2>1, <2>2 DEF Promise
<1> QED
  BY <1>2, <1>3, <1>6, <1>7

\* What a client does next takes nothing back of what it is owed, and comes behind
\* what it has sent.
LEMMA ClientTalks ==
  ASSUME WorkerTypeOK, WorkerTypeOK', NEW c \in Conn, ClientStep(c)
  PROVE  /\ Promise(c) => Promise(c)'
         /\ Untouched(c) => Untouched(c)'
         /\ peer'[c] # "idle"
<1>1. /\ asked[c] \in Seq(Line) /\ inq[c] \in Seq(Line \cup {End})
      /\ line[c] \in Line \cup {NoLine}
      /\ DOMAIN asked = Conn /\ DOMAIN inq = Conn /\ DOMAIN line = Conn /\ DOMAIN peer = Conn
  BY DEF WorkerTypeOK
<1>2. wire' = wire
  BY DEF ClientStep, SendLine, SendEnd, Shutdown, Reset, Drain
<1>3. NoLine \notin Line \cup {End} /\ End \notin Line
  BY FirstLineType
<1> DEFINE Keeps == /\ FirstLine(c)' = FirstLine(c) \/ FirstLine(c) = NoLine
                    /\ Untouched(c) => Untouched(c)'
                    /\ peer'[c] # "idle"
<1>4. ASSUME SendLine(c) PROVE Keeps
  <2>1. PICK l \in Line : line' = [line EXCEPT ![c] = l] /\ inq' = [inq EXCEPT ![c] = Append(@, l)]
    BY <1>4 DEF SendLine
  <2>2. /\ inq'[c] = Append(inq[c], l) /\ line'[c] = l /\ line[c] = NoLine
        /\ asked' = asked /\ peer' = peer /\ peer[c] = "open"
    BY <1>1, <1>4, <2>1 DEF SendLine
  <2>3. FirstLine(c)' = FirstLine(c) \/ FirstLine(c) = NoLine
    BY <2>2 DEF FirstLine
  <2>4. /\ inq'[c] # << >> /\ inq'[c][1] = IF inq[c] = << >> THEN l ELSE inq[c][1]
        /\ \A i \in DOMAIN inq'[c] : inq'[c][i] = End => i \in DOMAIN inq[c] /\ inq[c][i] = End
    BY <1>1, <1>3, <2>2
  <2>5. ASSUME Untouched(c) PROVE Untouched(c)'
    <3>1. inq'[c][1] = FirstLine(c)'
      <4>1. CASE inq[c] = << >>
        BY <2>2, <2>4, <2>5, <4>1 DEF Untouched, FirstLine
      <4>2. CASE inq[c] # << >>
        <5>1. inq[c][1] \in Line \cup {End} /\ inq[c][1] = FirstLine(c)
          BY <1>1, <2>5, <4>2 DEF Untouched
        <5> QED
          BY <1>3, <2>3, <2>4, <4>2, <5>1
      <4> QED
        BY <4>1, <4>2
    <3> QED
      BY <1>2, <2>2, <2>4, <2>5, <3>1 DEF Untouched
  <2> QED
    BY <2>2, <2>3, <2>5
<1>5. ASSUME SendEnd(c) PROVE Keeps
  <2>1. PICK l \in Line : l = line[c]
    BY <1>1, <1>5 DEF SendEnd
  <2>2. /\ asked'[c] = Append(asked[c], l) /\ inq'[c] = Append(inq[c], End)
        /\ peer' = peer /\ peer[c] = "open"
    BY <1>1, <1>5, <2>1 DEF SendEnd
  <2>3. asked'[c] # << >> /\ asked'[c][1] = IF asked[c] # << >> THEN asked[c][1] ELSE l
    BY <1>1, <2>2
  <2>4. FirstLine(c)' = FirstLine(c)
    BY <2>1, <2>3 DEF FirstLine
  <2>5. inq[c] # << >> => inq'[c][1] = inq[c][1]
    BY <1>1, <2>2
  <2>6. Untouched(c) => inq[c] # << >>
    BY <1>3, <2>1, <2>2 DEF Untouched
  <2>7. inq'[c] # << >>
    BY <1>1, <2>2
  <2> QED
    BY <1>2, <2>2, <2>3, <2>4, <2>5, <2>6, <2>7 DEF Untouched
<1>6. ASSUME Shutdown(c) PROVE Keeps
  <2>1. asked' = asked /\ line' = line /\ inq' = inq /\ peer'[c] = "fin" /\ peer[c] = "open"
    BY <1>1, <1>6 DEF Shutdown
  <2> QED
    BY <1>2, <2>1 DEF Untouched, FirstLine
<1>7. ASSUME Reset(c) PROVE Keeps
  <2>1. PICK n \in 0 .. Len(inq[c]) : inq' = [inq EXCEPT ![c] = SubSeq(@, 1, n)]
    BY <1>7 DEF Reset
  <2>2. inq'[c] = SubSeq(inq[c], 1, n) /\ asked' = asked /\ line' = line /\ peer'[c] = "rst"
    BY <1>1, <1>7, <2>1 DEF Reset
  <2>3. /\ inq'[c] # << >> => inq[c] # << >> /\ inq'[c][1] = inq[c][1]
        /\ \A i \in DOMAIN inq'[c] : i \in DOMAIN inq[c] /\ inq'[c][i] = inq[c][i]
    BY <1>1, <2>1, <2>2
  <2>4. FirstLine(c)' = FirstLine(c)
    BY <2>2 DEF FirstLine
  <2> QED
    BY <1>2, <2>2, <2>3, <2>4 DEF Untouched
<1>d. ASSUME Drain(c) PROVE Keeps
  <2>1. asked' = asked /\ line' = line /\ inq' = inq /\ peer' = peer /\ peer[c] # "idle"
    BY <1>d DEF Drain
  <2> QED
    BY <1>2, <2>1 DEF Untouched, FirstLine
<1>8. Keeps
  BY <1>4, <1>5, <1>6, <1>7, <1>d DEF ClientStep
<1>9. ASSUME Promise(c) PROVE Promise(c)'
  <2>1. CASE FirstLine(c)' = FirstLine(c)
    BY <1>2, <1>9, <2>1 DEF Promise, OwedTo
  <2>2. CASE FirstLine(c) = NoLine
    <3>1. PICK r \in OwedTo(c) : Begins(wire[c], r)
      BY <1>9 DEF Promise
    <3>2. PICK f \in Line \cup {NoLine} : f = FirstLine(c)' /\ OwedTo(c)' = Answers(f)
      <4>1. asked'[c] \in Seq(Line) /\ line'[c] \in Line \cup {NoLine}
        BY DEF WorkerTypeOK
      <4> QED
        BY <4>1 DEF FirstLine, OwedTo
    <3>3. CASE "oom" \in Faults /\ r = Reply(500)
      BY <1>2, <3>1, <3>2, <3>3, AnswersFacts DEF Promise
    <3>4. CASE ~ ("oom" \in Faults /\ r = Reply(500))
      <4>1. NoLine.kind # "line"
        BY DEF NoLine
      <4>2. r = << >> /\ wire[c] \in Seq(Piece)
        BY <2>2, <3>1, <3>4, <4>1, AnswersFacts, ResponseFacts DEF OwedTo, WorkerTypeOK
      <4>3. wire[c] = << >>
        BY <3>1, <4>2 DEF Begins
      <4>4. PICK a \in Answers(f) : a \in Seq(Piece)
        BY AnswersFacts
      <4>5. Begins(<< >>, a)
        BY <4>4 DEF Begins
      <4> QED
        BY <1>2, <3>2, <4>3, <4>4, <4>5 DEF Promise
    <3> QED
      BY <3>3, <3>4
  <2> QED
    BY <1>8, <2>1, <2>2
<1> QED
  BY <1>8, <1>9

\* A child of the server begins where nobody has read.
LEMMA ForkAnswers ==
  ASSUME ServerInv, TalkInv, Fork, NEW p \in Pid, NumbersInv(p)',
         pc'[p] = "start", task'[p].conn \in Conn, task'[p].conn = Accepted
  PROVE  AnswerInv(p)'
<1>0. UNCHANGED <<clientVars, fbuf>>
  BY DEF Fork
<1>1. PICK c \in Conn : c = Accepted /\ c = task'[p].conn
  OBVIOUS
<1>2. Untouched(c) /\ WorkerTypeOK
  BY <1>1 DEF TalkInv, Waiting, AtHand, Fork, ServerInv, TypeInv
<1>3. fbuf'[p] = << >> /\ fdt'[p][task'[p].sock] = c
  BY <1>1 DEF NumbersInv
<1>4. First(p)' = FirstLine(c)
  BY <1>0, <1>1 DEF First, FirstLine, clientVars
<1>5. EndsSent(p)'
  BY <1>0, <1>1, <1>2, <1>3 DEF EndsSent, Untouched, clientVars
<1>6. NextIsFirst(p)' /\ Unread(p)'
  BY <1>0, <1>1, <1>2, <1>3, <1>4 DEF NextIsFirst, Unread, Untouched, clientVars
<1>7. UnreadInv(p)'
  BY <1>0, <1>1, <1>2, <1>3, <1>6 DEF UnreadInv, Untouched, clientVars
<1>8. AskedInv(p)'
  BY DEF AskedInv, Served
<1>9. WireInv(p)'
  <2>1. PICK r \in OwedTo(c) : Begins(wire[c], r)
    BY <1>2, FirstLineType DEF Untouched, Promise
  <2>2. r \in Owed(p)'
    BY <1>4, <2>1 DEF Owed, OwedTo
  <2> QED
    BY <1>0, <1>1, <1>2, <2>1, <2>2 DEF WireInv, Untouched, clientVars
<1> QED
  BY <1>5, <1>7, <1>8, <1>9 DEF AnswerInv

\* A connection has one child at most.
LEMMA OneOwns ==
  ASSUME ChildInv, \A p \in Pid : NumbersInv(p), NEW p \in Pid, NEW q \in Pid,
         task[p].conn = task[q].conn, task[q].conn \in Conn
  PROVE  p = q
<1>1. Unborn.conn \notin Conn
  BY WorkerAssumption DEF Unborn
<1>2. pc[p] # "unborn" /\ pc[q] # "unborn"
  BY <1>1 DEF NumbersInv
<1> QED
  BY <1>2 DEF ChildInv, OneChild, Children

\* What becomes of a child that has a connection: it takes a step, its client does, it
\* has just been forked, or nothing has changed for it.
LEMMA ServerChildMoves ==
  ASSUME ServerInv, OnePlace, \A p \in Pid : NumbersInv(p), ServerNext,
         NEW q \in Pid, task'[q].conn \in Conn
  PROVE  \/ /\ task'[q] = task[q]
            /\ Still(q) \/ WorkerStep(q) \/ Interrupt(q) \/ ClientStep(task[q].conn)
         \/ Fork /\ pc'[q] = "start" /\ task'[q].conn = Accepted /\ pc[q] = "unborn"
<1> DEFINE c == task[q].conn
<1> DEFINE Quiet(d) == /\ peer'[d] = peer[d] /\ line'[d] = line[d] /\ asked'[d] = asked[d]
                       /\ inq'[d] = inq[d] /\ wire'[d] = wire[d]
<1> DEFINE Moves == \/ /\ task'[q] = task[q]
                       /\ Still(q) \/ WorkerStep(q) \/ Interrupt(q) \/ ClientStep(c)
                    \/ Fork /\ pc'[q] = "start" /\ task'[q].conn = Accepted /\ pc[q] = "unborn"
<1>0. TypeInv /\ WorkerTypeOK /\ IdleFree /\ ChildInv
  BY DEF ServerInv, TypeInv, ParentInv
<1>1. /\ DOMAIN peer = Conn /\ DOMAIN line = Conn /\ DOMAIN asked = Conn /\ DOMAIN inq = Conn
      /\ DOMAIN wire = Conn /\ DOMAIN pc = Pid /\ DOMAIN task = Pid /\ DOMAIN fdt = Pid
      /\ DOMAIN req = Pid /\ DOMAIN status = Pid /\ NoFile \notin Conn
  BY <1>0, WorkerAssumption DEF WorkerTypeOK
<1>2. ASSUME UNCHANGED childVars, c \in Conn => Quiet(c) PROVE Moves
  BY <1>2 DEF Still, childVars
<1>3. CASE Fork
  <2>1. PICK p \in Pid :
          /\ pc[p] = "unborn"
          /\ pc' = [pc EXCEPT ![p] = "start"]
          /\ task' = [task EXCEPT ![p] = [conn |-> Accepted, sock |-> newfd]]
          /\ fdt' = [fdt EXCEPT ![p] = pfdt]
    BY <1>3 DEF Fork
  <2>2. UNCHANGED <<clientVars, status, fbuf, req, left, reply>>
    BY <1>3 DEF Fork
  <2>3. CASE q = p
    BY <1>1, <1>3, <2>1, <2>3
  <2>4. CASE q # p
    BY <1>1, <2>1, <2>2, <2>4 DEF Still, clientVars
  <2> QED
    BY <2>3, <2>4
<1>4. ASSUME NEW p \in Pid, Reap(p) PROVE Moves
  <2>1. q # p
    BY <1>1, <1>4 DEF Reap, Unborn
  <2> QED
    BY <1>1, <1>4, <2>1 DEF Reap, Still, clientVars
<1>5. ASSUME NEW p \in Pid, WorkerStep(p) \/ Interrupt(p) PROVE Moves
  <2>1. task' = task
    BY <1>5, ChildLeavesPeers
  <2>2. CASE p # q
    <3>1. c # task[p].conn
      BY <1>0, <2>1, <2>2, OneOwns
    <3>2. OwnNumbers(p)
      BY DEF NumbersInv
    <3>3. /\ peer' = peer /\ line' = line /\ asked' = asked
          /\ \A x \in Pid : x # p =>
               /\ pc'[x] = pc[x] /\ fdt'[x] = fdt[x] /\ fbuf'[x] = fbuf[x]
               /\ req'[x] = req[x] /\ reply'[x] = reply[x] /\ status'[x] = status[x]
          /\ \A d \in Conn : d # task[p].conn => inq'[d] = inq[d] /\ wire'[d] = wire[d]
      BY <1>0, <1>5, <3>2, StepReach
    <3> QED
      BY <2>1, <2>2, <3>1, <3>3 DEF Still
  <2> QED
    BY <1>5, <2>1, <2>2
<1>6. ASSUME NEW d \in Conn, ClientStep(d) PROVE Moves
  <2>1. UNCHANGED childVars /\ \A x \in Conn : x # d => Quiet(x)
    BY <1>1, <1>6 DEF ClientStep, SendLine, SendEnd, Shutdown, Reset, Drain, childVars
  <2>2. task' = task
    BY <2>1 DEF childVars
  <2> QED
    BY <1>2, <1>6, <2>1, <2>2
<1>7. ASSUME NEW d \in Conn, Over(d) \/ \E l \in Listener : Connect(d, l) PROVE Moves
  <2>1. UNCHANGED childVars /\ \A x \in Conn : x # d => Quiet(x)
    BY <1>1, <1>7 DEF Over, Connect
  <2>2. c # d
    BY <1>7 DEF Over, Connect, ServerInv, ParentInv, IdleFree
  <2> QED
    BY <1>2, <2>1, <2>2
<1>8. CASE ParentDies
  <2>1. c \in Conn => ~ IsQueued(c)
    BY DEF OnePlace
  <2> QED
    BY <1>2, <1>8, <2>1 DEF ParentDies
<1>9. CASE \/ Poll \/ Skip \/ ScanDone \/ Accept \/ ForkFails \/ CloseAccepted
           \/ UNCHANGED workerVars
  <2>1. UNCHANGED workerVars
    BY <1>9 DEF Poll, Skip, ScanDone, Accept, ForkFails, CloseAccepted
  <2> QED
    BY <1>2, <2>1 DEF workerVars, childVars
<1>10. CASE Wait
  BY <1>4, <1>9, <1>10 DEF Wait
<1> QED
  BY <1>3, <1>5, <1>6, <1>7, <1>8, <1>9, <1>10 DEF ServerNext, ParentStep, ChildStep

\* A child answers what its client has sent, from its birth on.
LEMMA NextServed ==
  ASSUME ServerInv, ServerInv', ClientsInv, (\A p \in Pid : NumbersInv(p))',
         [ServerNext]_serverVars, NEW q \in Pid, task'[q].conn \in Conn
  PROVE  AnswerInv(q)'
<1>1. /\ TypeInv /\ WorkerTypeOK /\ WorkerTypeOK' /\ OnePlace /\ TalkInv
      /\ \A p \in Pid : NumbersInv(p)
  BY DEF ServerInv, TypeInv, ClientsInv, PlacesInv
<1>2. ASSUME task'[q] = task[q], Still(q) \/ WorkerStep(q) \/ Interrupt(q)
                                 \/ ClientStep(task[q].conn)
      PROVE  AnswerInv(q)'
  <2>1. HoldsAndAnswers(q) /\ AnswerInv(q)
    BY <1>1, <1>2 DEF NumbersInv, TalkInv, HoldsAndAnswers
  <2> QED
    BY <1>1, <1>2, <2>1, StillAnswers, StepAnswers, ClientAnswers
<1>3. CASE UNCHANGED serverVars
  <2>1. task'[q] = task[q] /\ Still(q)
    BY <1>3 DEF Still, serverVars, workerVars
  <2> QED
    BY <1>2, <2>1
<1>4. CASE Fork /\ pc'[q] = "start" /\ task'[q].conn = Accepted
  BY <1>1, <1>4, ForkAnswers
<1>5. CASE ServerNext
  BY <1>1, <1>2, <1>4, <1>5, ServerChildMoves
<1> QED
  BY <1>3, <1>5

\* What the parent accepts, hands to a child and reaps is what its client sent.
LEMMA NextTalk ==
  ASSUME ServerInv, ServerInv', ClientsInv, (\A p \in Pid : NumbersInv(p))',
         [ServerNext]_serverVars
  PROVE  TalkInv'
<1>0. /\ TypeInv /\ WorkerTypeOK /\ WorkerTypeOK' /\ ParentTypeOK /\ IdleFree /\ ChildInv
      /\ OnePlace /\ TalkInv /\ \A p \in Pid : NumbersInv(p)
  BY DEF ServerInv, TypeInv, ParentInv, ClientsInv, PlacesInv
<1>1. /\ DOMAIN peer = Conn /\ DOMAIN line = Conn /\ DOMAIN asked = Conn /\ DOMAIN inq = Conn
      /\ DOMAIN wire = Conn /\ DOMAIN pc = Pid /\ DOMAIN task = Pid /\ DOMAIN fdt = Pid
      /\ NoFile \notin Conn /\ BadFd \notin FdNum
  BY <1>0, WorkerAssumption DEF WorkerTypeOK, BadFd
<1> DEFINE Says(c) == /\ Promise(c)
                      /\ peer[c] = "idle" => Blank(c)
                      /\ Waiting(c) => Untouched(c)
<1> DEFINE Quiet(c) == /\ peer'[c] = peer[c] /\ line'[c] = line[c] /\ asked'[c] = asked[c]
                       /\ inq'[c] = inq[c] /\ wire'[c] = wire[c]
<1>2. \A c \in Conn : Says(c)
  BY <1>0 DEF TalkInv
<1>3. ASSUME \A c \in Conn : Says(c)' PROVE TalkInv'
  <2>1. \A p \in Pid : task'[p].conn \in Conn => AnswerInv(p)'
    BY NextServed
  <2> QED
    BY <1>3, <2>1 DEF TalkInv
<1>4. ASSUME NEW c \in Conn, Quiet(c), Waiting(c)' => Waiting(c) PROVE Says(c)'
  BY <1>2, <1>4, SameTalk
<1> HIDE DEF Says
<1>5. ASSUME UNCHANGED workerVars, \A c \in Conn : Waiting(c)' => Waiting(c) PROVE TalkInv'
  <2>1. \A c \in Conn : Quiet(c)
    BY <1>5 DEF workerVars
  <2> QED
    BY <1>3, <1>4, <1>5, <2>1
<1>6. UNCHANGED parentVars => \A c \in Conn : Waiting(c)' = Waiting(c)
  BY DEF parentVars, Waiting, IsQueued, AtHand, Accepted
<1>7. queue' = queue /\ ppc' # "fork" => \A c \in Conn : Waiting(c)' => Waiting(c)
  BY DEF Waiting, IsQueued, AtHand
<1>8. CASE Poll \/ Skip \/ ScanDone \/ ForkFails \/ CloseAccepted
  <2>1. UNCHANGED workerVars /\ queue' = queue /\ ppc' # "fork"
    BY <1>8 DEF Poll, Skip, ScanDone, ForkFails, CloseAccepted
  <2> QED
    BY <1>5, <1>7, <2>1
<1>9. CASE Accept
  <2>1. PICK l \in Listener : l = ListenOrder[idx]
    BY <1>0, <1>9, ServerAssumption DEF Accept, ParentTypeOK
  <2>2. /\ UNCHANGED workerVars /\ queue[l] # << >> /\ queue[l] \in Seq(Conn) /\ ppc = "scan"
        /\ \/ \E fd \in FdNum :
                /\ pfdt' = [pfdt EXCEPT ![fd] = Head(queue[l])] /\ newfd' = fd
                /\ queue' = [queue EXCEPT ![l] = Tail(@)]
           \/ newfd' = BadFd /\ queue' = queue
    BY <1>0, <1>9, <2>1 DEF Accept, ParentTypeOK
  <2>3. PICK q \in Seq(Conn) : q = queue[l]
    BY <2>2
  <2>4. Head(q) = q[1] /\ 1 \in DOMAIN q
    BY <2>2, <2>3
  <2>5. \A i \in DOMAIN Tail(q) : \E j \in DOMAIN q : Tail(q)[i] = q[j]
    <3>1. /\ Len(Tail(q)) = Len(q) - 1 /\ Tail(q) \in Seq(Conn)
          /\ \A i \in 1 .. Len(Tail(q)) : Tail(q)[i] = q[i + 1]
      BY <2>2, <2>3, HeadTailProperties
    <3>2. \A i \in DOMAIN Tail(q) : i + 1 \in DOMAIN q
      BY <3>1
    <3> QED
      BY <3>1, <3>2
  <2>6. \A c \in Conn : IsQueued(c)' => IsQueued(c)
    <3>1. CASE queue' = queue
      BY <3>1 DEF IsQueued
    <3>2. CASE queue' = [queue EXCEPT ![l] = Tail(@)]
      <4>1. queue'[l] = Tail(q) /\ \A k \in Listener : k # l => queue'[k] = queue[k]
        BY <1>0, <2>3, <3>2 DEF ParentTypeOK
      <4>2. \A i \in DOMAIN queue'[l] : \E j \in DOMAIN queue[l] : queue'[l][i] = queue[l][j]
        BY <2>3, <2>5, <4>1
      <4> QED
        BY <4>1, <4>2 DEF IsQueued
    <3> QED
      BY <2>2, <3>1, <3>2
  <2>7. \A c \in Conn : AtHand(c)' => IsQueued(c)
    <3> SUFFICES ASSUME NEW c \in Conn, AtHand(c)' PROVE IsQueued(c)
      OBVIOUS
    <3>1. newfd' # BadFd /\ pfdt'[newfd'] = c
      BY <1>1 DEF AtHand, Accepted
    <3>2. PICK fd \in FdNum : pfdt' = [pfdt EXCEPT ![fd] = Head(queue[l])] /\ newfd' = fd
      BY <2>2, <3>1
    <3>3. c = q[1]
      BY <1>0, <2>3, <2>4, <3>1, <3>2 DEF ParentTypeOK, FdTable
    <3> QED
      BY <2>3, <2>4, <3>3 DEF IsQueued
  <2> QED
    BY <1>5, <2>2, <2>6, <2>7 DEF Waiting
<1>10. CASE Fork
  <2>1. /\ queue' = queue /\ ppc' # "fork"
        /\ \A c \in Conn : Quiet(c)
    BY <1>10 DEF Fork, clientVars
  <2> QED
    BY <1>3, <1>4, <1>7, <2>1
<1>11. CASE Wait
  <2>1. /\ queue' = queue /\ ppc' # "fork"
        /\ \A c \in Conn : Quiet(c)
    BY <1>11 DEF Wait, Reap, workerVars, clientVars
  <2> QED
    BY <1>3, <1>4, <1>7, <2>1
<1>12. ASSUME NEW p \in Pid, WorkerStep(p) \/ Interrupt(p), UNCHANGED parentVars PROVE TalkInv'
  <2>1. OwnNumbers(p)
    BY <1>0 DEF NumbersInv
  <2>2. /\ peer' = peer /\ line' = line /\ asked' = asked /\ task' = task
        /\ \A q \in Pid : q # p =>
             /\ pc'[q] = pc[q] /\ fdt'[q] = fdt[q] /\ fbuf'[q] = fbuf[q]
             /\ req'[q] = req[q] /\ reply'[q] = reply[q] /\ status'[q] = status[q]
        /\ \A d \in Conn : d # task[p].conn => inq'[d] = inq[d] /\ wire'[d] = wire[d]
    BY <1>0, <1>12, <2>1, StepReach
  <2>3. ASSUME NEW c \in Conn PROVE Says(c)'
    <3>1. CASE c # task[p].conn
      BY <1>4, <1>6, <1>12, <2>2, <3>1
    <3>2. CASE c = task[p].conn
      <4>1. AnswerInv(p)'
        BY <2>2, <3>2, NextServed
      <4>2. Promise(c)'
        BY <2>2, <3>2, <4>1 DEF AnswerInv, WireInv, Owed, First, Promise, OwedTo
      <4>3. peer'[c] # "idle"
        BY <1>0, <2>2, <3>2 DEF IdleFree
      <4>4. ~ Waiting(c)
        <5>1. ~ IsQueued(c)
          BY <1>0, <3>2 DEF OnePlace
        <5>2. ppc # "fork"
          <6>1. Unborn.conn # c
            BY <1>1 DEF Unborn
          <6>2. pc[p] # "unborn"
            BY <1>0, <3>2, <6>1 DEF NumbersInv
          <6> QED
            BY <1>0, <6>2 DEF ChildInv, NoneWhileLooking, NoChildren
        <5> QED
          BY <5>1, <5>2 DEF Waiting, AtHand
      <4> QED
        BY <1>6, <1>12, <4>2, <4>3, <4>4 DEF Says
    <3> QED
      BY <3>1, <3>2
  <2> QED
    BY <1>3, <2>3
<1>13. ASSUME NEW c \in Conn, ClientStep(c), UNCHANGED parentVars PROVE TalkInv'
  <2>1. \A d \in Conn \ {c} : Quiet(d)
    BY <1>1, <1>13 DEF ClientStep, SendLine, SendEnd, Shutdown, Reset, Drain
  <2>2. Says(c)'
    BY <1>0, <1>2, <1>6, <1>13, ClientTalks DEF Says
  <2>3. \A d \in Conn \ {c} : Says(d)'
    BY <1>4, <1>6, <1>13, <2>1
  <2> QED
    BY <1>3, <2>2, <2>3
<1>14. ASSUME NEW c \in Conn, NEW l \in Listener, Connect(c, l) PROVE TalkInv'
  <2>1. /\ peer[c] = "idle" /\ queue' = [queue EXCEPT ![l] = Append(@, c)]
        /\ peer' = [peer EXCEPT ![c] = "open"]
        /\ UNCHANGED <<line, asked, inq, wire, childVars, ppc, pfdt, newfd>>
    BY <1>14 DEF Connect
  <2>2. \A d \in Conn \ {c} : Quiet(d)
    BY <1>1, <2>1
  <2>3. ASSUME NEW d \in Conn \ {c} PROVE Says(d)'
    <3>1. IsQueued(d)' => IsQueued(d)
      <4>1. queue[l] \in Seq(Conn) /\ queue'[l] = Append(queue[l], c)
            /\ \A k \in Listener : k # l => queue'[k] = queue[k]
        BY <1>0, <2>1 DEF ParentTypeOK
      <4>2. \A i \in DOMAIN queue'[l] : queue'[l][i] = d => i \in DOMAIN queue[l] /\ queue[l][i] = d
        BY <2>3, <4>1
      <4> QED
        BY <4>1, <4>2 DEF IsQueued
    <3>2. AtHand(d)' => AtHand(d)
      BY <2>1 DEF AtHand, Accepted
    <3> QED
      BY <1>4, <2>2, <3>1, <3>2 DEF Waiting
  <2>4. Says(c)'
    <3>1. Blank(c) /\ Promise(c)
      BY <1>2, <2>1 DEF Says
    <3>2. Untouched(c)'
      BY <2>1, <3>1 DEF Blank, Untouched
    <3>3. Promise(c)' /\ peer'[c] # "idle"
      BY <1>1, <2>1, <3>1 DEF Promise, OwedTo, FirstLine
    <3> QED
      BY <3>2, <3>3 DEF Says
  <2> QED
    BY <1>3, <2>3, <2>4
<1>15. ASSUME NEW c \in Conn, Over(c) PROVE TalkInv'
  <2>1. /\ UNCHANGED parentVars /\ ~ IsQueued(c) /\ ~ IsHeld(c)
        /\ \A d \in Conn \ {c} : Quiet(d)
    BY <1>1, <1>15 DEF Over
  <2>2. ~ Waiting(c)
    <3>1. AtHand(c) => newfd \in FdNum /\ pfdt[newfd] = c
      BY <1>0, <1>1 DEF AtHand, Accepted, ParentTypeOK
    <3> QED
      BY <2>1, <3>1 DEF Waiting, IsHeld
  <2>3. Blank(c)'
    BY <1>1, <1>15 DEF Over, Blank
  <2>4. Promise(c)'
    <3>1. FirstLine(c)' = NoLine /\ wire'[c] = << >>
      BY <2>3 DEF Blank, FirstLine
    <3>2. PICK a \in Answers(NoLine) : a \in Seq(Piece)
      BY AnswersFacts
    <3>3. Begins(<< >>, a)
      BY <3>2 DEF Begins
    <3> QED
      BY <3>1, <3>2, <3>3 DEF Promise, OwedTo
  <2>5. Says(c)'
    BY <1>6, <2>1, <2>2, <2>3, <2>4 DEF Says
  <2>6. \A d \in Conn \ {c} : Says(d)'
    BY <1>4, <1>6, <2>1
  <2> QED
    BY <1>3, <2>5, <2>6
<1>16. CASE ParentDies
  <2>1. /\ UNCHANGED <<line, asked, wire>> /\ ppc' = "dead"
        /\ queue' = [l \in Listener |-> << >>]
        /\ \A c \in Conn : peer'[c] = IF IsQueued(c) THEN "rst" ELSE peer[c]
        /\ \A c \in Conn : ~ IsQueued(c) => inq'[c] = inq[c]
    BY <1>16 DEF ParentDies
  <2>2. PICK S \in SUBSET Conn : S = {c \in Conn : IsQueued(c)}
    OBVIOUS
  <2>3. \A c \in Conn \ S : Quiet(c)
    BY <2>1, <2>2
  <2>4. \A c \in Conn : ~ Waiting(c)'
    BY <2>1 DEF Waiting, IsQueued, AtHand
  <2>5. \A c \in Conn \ S : Says(c)'
    BY <1>4, <2>3, <2>4
  <2>6. ASSUME NEW c \in S PROVE Says(c)'
    <3>1. Promise(c)'
      <4>1. Promise(c)
        BY <1>2, <2>2 DEF Says
      <4> QED
        BY <2>1, <4>1 DEF Promise, OwedTo, FirstLine
    <3>2. peer'[c] # "idle"
      BY <2>1, <2>2
    <3> QED
      BY <2>4, <3>1, <3>2 DEF Says
  <2> QED
    BY <1>3, <2>5, <2>6
<1>17. CASE UNCHANGED serverVars
  BY <1>5, <1>6, <1>17 DEF serverVars
<1> QED
  BY <1>8, <1>9, <1>10, <1>11, <1>12, <1>13, <1>14, <1>15, <1>16, <1>17
     DEF ServerNext, ParentStep, ChildStep

\* Nobody has connected and nobody has been forked.
LEMMA InitClients == ServerInit => ClientsInv
<1> SUFFICES ASSUME ServerInit PROVE ClientsInv
  OBVIOUS
<1>1. WorkerTypeOK /\ NoFile \notin Conn \cup Listener
  BY InitServerInv, WorkerAssumption DEF ServerInv, TypeInv
<1>2. \A l \in Listener : pfdt[ListenFd[l]] # NoFile
  <2> SUFFICES ASSUME NEW l \in Listener PROVE pfdt[ListenFd[l]] # NoFile
    OBVIOUS
  <2>1. ListenFd[l] \in FdNum
    BY WorkerAssumption
  <2>2. pfdt[ListenFd[l]] = CHOOSE k \in Listener : ListenFd[k] = ListenFd[l]
    BY <2>1 DEF ServerInit, ListenTable
  <2>3. pfdt[ListenFd[l]] \in Listener
    BY <2>2
  <2> QED
    BY <1>1, <2>3
<1>3. PlacesInv
  BY <1>2 DEF ServerInit, PlacesInv, OnePlace, Listening, IsQueued, AtHand
<1>4. ASSUME NEW p \in Pid PROVE NumbersInv(p)
  <2>1. /\ pc[p] = "unborn" /\ task[p] = Unborn /\ fbuf[p] = << >> /\ req[p] = NewRequest(BadFd)
        /\ Unborn.conn = NoFile /\ Unborn.sock = BadFd
    BY DEF ServerInit, WorkerInit, Unborn
  <2>2. OwnNumbers(p)
    BY <1>1, <2>1 DEF OwnNumbers, Forked
  <2> QED
    BY <1>1, <2>1, <2>2 DEF NumbersInv, NewRequest
<1>5. TalkInv
  <2>1. \A p \in Pid : task[p].conn \notin Conn
    BY <1>1 DEF ServerInit, Unborn
  <2>2. \A c \in Conn : Blank(c) /\ ~ Waiting(c)
    BY DEF ServerInit, WorkerInit, Blank, Waiting, IsQueued, AtHand
  <2>3. \A c \in Conn : Promise(c)
    BY <1>1, <2>2, FirstLineType DEF Blank
  <2> QED
    BY <2>1, <2>2, <2>3 DEF TalkInv
<1> QED
  BY <1>3, <1>4, <1>5 DEF ClientsInv

\* So what the children of one connection each were shown to do holds of the server.
LEMMA ClientsInvariance == ServerSpec => []ClientsInv
<1>1. ServerInit => ClientsInv
  BY InitClients
<1>2. ServerInv /\ ServerInv' /\ ClientsInv /\ [ServerNext]_serverVars => ClientsInv'
  <2> SUFFICES ASSUME ServerInv, ServerInv', ClientsInv, [ServerNext]_serverVars
               PROVE  ClientsInv'
    OBVIOUS
  <2>1. PlacesInv'
    BY NextPlaces DEF ClientsInv
  <2>2. (\A p \in Pid : NumbersInv(p))'
    BY NextNumbers DEF ClientsInv, PlacesInv, TalkInv
  <2>3. TalkInv'
    BY <2>2, NextTalk
  <2> QED
    BY <2>1, <2>2, <2>3 DEF ClientsInv
<1> QED
  BY <1>1, <1>2, ServerInvariance, PTL DEF ServerSpec

\* Over every connection the whole server sends the beginning of the response to the
\* first request, or where memory runs out to what is left of it, or of a 500: however connections come and go, their
\* names are used again, forks fail and parents die, no client gets the answer to
\* another's request.
THEOREM ServerAnswersFirstRequest == ServerSpec => []AnswersFirstRequest
<1>1. ServerInv /\ ClientsInv => AnswersFirstRequest
  <2> SUFFICES ASSUME ServerInv, ClientsInv, NEW c \in Conn
               PROVE  \E r \in OwedTo(c) :
                        Len(wire[c]) <= Len(r) /\ wire[c] = SubSeq(r, 1, Len(wire[c]))
    BY DEF AnswersFirstRequest, OwedTo
  <2>1. PICK r \in OwedTo(c) : Begins(wire[c], r)
    BY DEF ClientsInv, TalkInv, Promise
  <2>2. r \in Seq(Piece) /\ wire[c] \in Seq(Piece)
    BY <2>1, FirstLineType DEF ServerInv, TypeInv, WorkerTypeOK
  <2> QED
    BY <2>1, <2>2, BeginsIsPrefix
<1> QED
  BY <1>1, ServerInvariance, ClientsInvariance, PTL

\* And it sends nothing before the answer is due.
THEOREM ServerNoEarlyAnswer == ServerSpec => NoEarlyAnswer
<1> DEFINE Early == \A c \in Conn : wire'[c] # wire[c] =>
                      \/ asked[c] # << >> \/ peer[c] # "open"
                      \/ line[c].kind = "line" /\ line[c].cut
<1>1. ServerInv /\ ClientsInv /\ [ServerNext]_serverVars => [Early]_workerVars
  <2> SUFFICES ASSUME ServerInv, ClientsInv, [ServerNext]_serverVars, NEW c \in Conn,
                      wire'[c] # wire[c]
               PROVE  \/ asked[c] # << >> \/ peer[c] # "open"
                      \/ line[c].kind = "line" /\ line[c].cut
    OBVIOUS
  <2>1. ASSUME NEW p \in Pid, WorkerStep(p) \/ Interrupt(p)
        PROVE  \/ asked[c] # << >> \/ peer[c] # "open"
               \/ line[c].kind = "line" /\ line[c].cut
    <3>1. TypeInv /\ OwnNumbers(p)
      BY DEF ServerInv, ClientsInv, NumbersInv
    <3>2. c = task[p].conn
      BY <2>1, <3>1, StepReach
    <3>3. HoldsAndAnswers(p)
      BY <3>1, <3>2 DEF ClientsInv, TalkInv, HoldsAndAnswers
    <3> QED
      BY <2>1, <3>1, <3>3, WritesWhenDue
  <2>2. ASSUME NEW d \in Conn, Over(d)
        PROVE  peer[c] # "open"
    <3>1. c = d
      BY <2>2 DEF Over
    <3> QED
      BY <2>2, <3>1 DEF Over
  <2>3. \/ \E p \in Pid : WorkerStep(p) \/ Interrupt(p)
        \/ \E d \in Conn : Over(d)
    BY DEF ServerNext, ParentStep, ChildStep, Poll, Skip, ScanDone, Accept, Fork, ForkFails,
           CloseAccepted, Wait, Reap, ParentDies, Connect, ClientStep, SendLine, SendEnd,
           Shutdown, Reset, Drain, workerVars, clientVars, serverVars
  <2> QED
    BY <2>1, <2>2, <2>3
<1> QED
  BY <1>1, ServerInvariance, ClientsInvariance, PTL DEF ServerSpec, NoEarlyAnswer

\* Nor does its end come without a cause; a child that was forked for no connection
\* reads nothing and serves nobody.
Idler(p) ==
  /\ pc[p] \in {"unborn", "start", "poll", "init", "process", "free", "close", "exited"}
  /\ status[p] \notin {"SIGSEGV", "SIGABRT"}
  /\ req[p].method = OtherMethod /\ ~ req[p].literal

ServerCauseInv(p) == IF task[p].conn = NoFile THEN Idler(p) ELSE CauseInv(p)

\* It only turns around.
LEMMA StepIdles ==
  ASSUME "oom" \notin Faults, TypeInv, NEW p \in Pid, NumbersInv(p), task[p].conn = NoFile,
         Idler(p), WorkerStep(p) \/ Interrupt(p)
  PROVE  Idler(p)'
<1>1. /\ task[p].sock = BadFd /\ req[p].cfd = BadFd /\ fbuf[p] = << >> /\ At(p, BadFd) = NoFile
      /\ DOMAIN status = Pid /\ DOMAIN req = Pid /\ DOMAIN pc = Pid /\ NoFile \notin Conn
  BY WorkerAssumption DEF NumbersInv, At, BadFd, TypeInv, WorkerTypeOK
<1>2. ASSUME NEW how, how \notin {"SIGSEGV", "SIGABRT"}, Ends(p, how) PROVE Idler(p)'
  BY <1>1, <1>2 DEF Ends, Idler
<1>3. CASE PollGivesUp(p) \/ BrokenPipe(p) \/ CloseClient(p) \/ Interrupt(p)
  BY <1>2, <1>3 DEF PollGivesUp, BrokenPipe, CloseClient, Interrupt
<1>4. ~ (Crash(p) \/ FreeLiteral(p) \/ RunHandler(p) \/ ServeStatic(p) \/ ServeOom(p)
         \/ OutOfMemory(p) \/ RequestLineOom(p) \/ HeadersOom(p) \/ LuaWriteFails(p))
  BY DEF Idler, Crash, FreeLiteral, RunHandler, ServeStatic, ServeOom, Processing,
         OutOfMemory, RequestLineOom, HeadersOom, LuaWriteFails, AboutToWrite
<1>5. ~ (RequestLine(p) \/ HeadersDone(p) \/ NoRequestLine(p) \/ Fill(p)
         \/ OpenFile(p) \/ ReadFile(p) \/ Write(p) \/ Written(p))
  BY <1>1 DEF Idler, RequestLine, HeadersDone, HeadersOver, NoRequestLine, Fill, Reading,
              OpenFile, ReadFile, Write, Written
<1>6. CASE InitRequest(p)
  <2>1. /\ req'[p] = NewRequest(task[p].sock) /\ status' = status /\ pc'[p] = "process"
    BY <1>1, <1>6 DEF InitRequest, Goto
  <2> QED
    BY <2>1 DEF Idler, NewRequest
<1>7. CASE Start(p) \/ PollReadable(p) \/ PollOther(p) \/ RejectMethod(p) \/ FreeRequest(p)
  <2>1. req' = req /\ status' = status /\ pc'[p] \in {"poll", "init", "close", "free"}
    BY <1>1, <1>7
       DEF Start, PollReadable, PollOther, RejectMethod, Silent, FreeRequest, Goto, NextRound
  <2> QED
    BY <2>1 DEF Idler
<1> QED
  BY <1>3, <1>4, <1>5, <1>6, <1>7, <1>2 DEF WorkerStep

\* Every step of anyone.
LEMMA NextServerCause ==
  ASSUME "oom" \notin Faults, ServerInv, ServerInv', ClientsInv,
         \A p \in Pid : ServerCauseInv(p), [ServerNext]_serverVars, NEW q \in Pid
  PROVE  ServerCauseInv(q)'
<1>1. /\ TypeInv /\ WorkerTypeOK /\ OnePlace /\ TalkInv /\ NoFile \notin Conn
      /\ \A p \in Pid : NumbersInv(p) /\ OwnNumbers(p)
  BY WorkerAssumption DEF ServerInv, TypeInv, ClientsInv, PlacesInv, NumbersInv
<1>2. task[q].conn \in Conn \cup {NoFile} /\ task'[q].conn \in Conn \cup {NoFile}
  BY DEF ServerInv, TypeInv, WorkerTypeOK
<1>3. ASSUME task[q].conn \in Conn, task'[q] = task[q],
             Still(q) \/ WorkerStep(q) \/ Interrupt(q) \/ ClientStep(task[q].conn)
      PROVE  ServerCauseInv(q)'
  <2>1. HoldsAndAnswers(q) /\ AnswerInv(q) /\ CauseInv(q)
    BY <1>1, <1>3 DEF TalkInv, HoldsAndAnswers, ServerCauseInv
  <2>2. CauseInv(q)'
    BY <1>1, <1>3, <2>1, StillCause, StepCause, ClientCause
  <2> QED
    BY <1>1, <1>3, <2>2 DEF ServerCauseInv
<1>4. CASE UNCHANGED serverVars
  <2>1. ASSUME task[q].conn = NoFile PROVE ServerCauseInv(q)'
    BY <1>4, <2>1 DEF ServerCauseInv, Idler, serverVars, workerVars
  <2>2. task'[q] = task[q] /\ Still(q)
    BY <1>4 DEF Still, serverVars, workerVars
  <2> QED
    BY <1>2, <1>3, <2>1, <2>2
<1>5. CASE ServerNext /\ task'[q].conn \in Conn
  <2>1. CASE Fork /\ pc'[q] = "start" /\ task'[q].conn = Accepted /\ pc[q] = "unborn"
    <3>1. task[q].conn = NoFile /\ status' = status /\ req' = req
      BY <1>1, <2>1 DEF NumbersInv, Unborn, Fork
    <3>2. CauseInv(q)'
      BY <2>1, <3>1 DEF ServerCauseInv, Idler, CauseInv, Served
    <3> QED
      BY <1>1, <1>5, <3>2 DEF ServerCauseInv
  <2> QED
    BY <1>1, <1>3, <1>5, <2>1, ServerChildMoves DEF ServerInv
<1>6. CASE ServerNext /\ task'[q].conn = NoFile
  <2>1. ASSUME NEW p \in Pid, WorkerStep(p) \/ Interrupt(p) PROVE Idler(q)'
    <3>1. task' = task
      BY <2>1, ChildLeavesPeers
    <3>2. Idler(q)
      BY <1>6, <3>1 DEF ServerCauseInv
    <3>3. CASE p = q
      <4>1. task[q].conn = NoFile /\ NumbersInv(q)
        BY <1>1, <1>6, <3>1
      <4> QED
        BY <1>1, <2>1, <3>2, <3>3, <4>1, StepIdles
    <3>4. CASE p # q
      BY <1>1, <2>1, <3>2, <3>4, StepReach DEF Idler
    <3> QED
      BY <3>3, <3>4
  <2>2. ASSUME NEW p \in Pid, Reap(p) PROVE Idler(q)'
    <3>1. /\ DOMAIN pc = Pid /\ DOMAIN status = Pid /\ DOMAIN task = Pid /\ DOMAIN req = Pid
      BY <1>1 DEF WorkerTypeOK
    <3>2. CASE p = q
      <4>1. pc'[q] = "unborn" /\ status'[q] = "none" /\ req'[q] = NewRequest(BadFd)
        BY <2>2, <3>1, <3>2 DEF Reap
      <4> QED
        BY <4>1 DEF Idler, NewRequest
    <3>3. CASE p # q
      <4>1. /\ pc'[q] = pc[q] /\ status'[q] = status[q] /\ task'[q] = task[q]
            /\ req'[q] = req[q]
        BY <2>2, <3>1, <3>3 DEF Reap
      <4> QED
        BY <1>6, <4>1 DEF ServerCauseInv, Idler
    <3> QED
      BY <3>2, <3>3
  <2>3. ASSUME Fork PROVE Idler(q)'
    <3>1. PICK p \in Pid :
            /\ pc[p] = "unborn" /\ pc' = [pc EXCEPT ![p] = "start"]
            /\ task' = [task EXCEPT ![p] = [conn |-> Accepted, sock |-> newfd]]
      BY <2>3 DEF Fork
    <3>2. /\ DOMAIN pc = Pid /\ DOMAIN task = Pid /\ status' = status /\ req' = req
      BY <1>1, <2>3 DEF WorkerTypeOK, Fork
    <3>3. task[q].conn = NoFile /\ pc'[q] \in {pc[q], "start"}
      BY <1>1, <1>6, <3>1, <3>2 DEF NumbersInv, Unborn
    <3> QED
      BY <3>2, <3>3 DEF ServerCauseInv, Idler
  <2>4. ASSUME UNCHANGED childVars PROVE Idler(q)'
    BY <1>6, <2>4 DEF ServerCauseInv, Idler, childVars
  <2>5. \/ \E p \in Pid : WorkerStep(p) \/ Interrupt(p) \/ Reap(p)
        \/ Fork \/ UNCHANGED childVars
    BY <1>6
       DEF ServerNext, ParentStep, ChildStep, Poll, Skip, ScanDone, Accept, ForkFails,
           CloseAccepted, Wait, ParentDies, Connect, Over, ClientStep, SendLine, SendEnd,
           Shutdown, Reset, Drain, workerVars, childVars
  <2>6. Idler(q)'
    BY <2>1, <2>2, <2>3, <2>4, <2>5
  <2> QED
    BY <1>6, <2>6 DEF ServerCauseInv
<1> QED
  BY <1>2, <1>4, <1>5, <1>6

\* So the causes hold for ever, of the idlers too.
LEMMA ServerCauseInvariance ==
  ASSUME "oom" \notin Faults
  PROVE  ServerSpec => [](\A p \in Pid : ServerCauseInv(p))
<1> DEFINE Causes == \A p \in Pid : ServerCauseInv(p)
<1>1. ServerInit => Causes
  <2> SUFFICES ASSUME ServerInit, NEW p \in Pid PROVE ServerCauseInv(p)
    OBVIOUS
  <2>1. /\ pc[p] = "unborn" /\ status[p] = "none" /\ req[p] = NewRequest(BadFd)
        /\ task[p].conn = NoFile
    BY DEF ServerInit, WorkerInit, Unborn
  <2> QED
    BY <2>1 DEF ServerCauseInv, Idler, NewRequest
<1>2. ServerInv /\ ServerInv' /\ ClientsInv /\ Causes /\ [ServerNext]_serverVars => Causes'
  BY NextServerCause
<1> HIDE DEF Causes
<1>3. ServerSpec => []Causes
  BY <1>1, <1>2, ServerInvariance, ClientsInvariance, PTL DEF ServerSpec
<1> QED
  BY <1>3 DEF Causes

\* No child of the server, whatever its parent hands down to it, dies of SIGSEGV or
\* SIGABRT while memory lasts but for a deadly request or a handler that writes to a
\* client that has aborted.
THEOREM ServerDiesOnlyForCause ==
  ASSUME "oom" \notin Faults
  PROVE  ServerSpec => []DiesOnlyForCause
<1>1. (\A p \in Pid : ServerCauseInv(p)) => DiesOnlyForCause
  BY DEF ServerCauseInv, Idler, CauseInv, Cause, DiesOnlyForCause, First
<1> QED
  BY <1>1, ServerCauseInvariance, PTL

\* CleanExitAnswered, of the children of the server that got a connection: one that was
\* forked for none, because accept had failed, has nobody to answer.
CleanExitServed ==
  \A p \in Pid :
    (/\ task[p].conn \in Conn
     /\ pc[p] = "exited" /\ status[p] = "OK" /\ peer[task[p].conn] # "rst")
      => wire[task[p].conn] = Response(FirstLine(task[p].conn))

\* While nothing but forks fails, a child that exits in good order with its client still
\* there has sent it the whole response to its first request.
THEOREM ServerCleanExit ==
  ASSUME {"oom", "sigint"} \cap Faults = {}, KeepAlive => MaxRequests > 0
  PROVE  ServerSpec => []CleanExitServed
<1> DEFINE Causes == \A p \in Pid : ServerCauseInv(p)
<1> DEFINE Clean == \A p \in Pid : task[p].conn \in Conn => CleanInv(p)
<1>1. ServerInit => Clean
  BY WorkerAssumption DEF ServerInit, Unborn
<1>2. ServerInv /\ ClientsInv /\ Causes /\ Clean /\ [ServerNext]_serverVars => Clean'
  <2> SUFFICES ASSUME ServerInv, ClientsInv, Causes, Clean, [ServerNext]_serverVars,
                      NEW q \in Pid, task'[q].conn \in Conn
               PROVE  CleanInv(q)'
    OBVIOUS
  <2>1. /\ TypeInv /\ WorkerTypeOK /\ OnePlace /\ TalkInv /\ NoFile \notin Conn
        /\ \A p \in Pid : NumbersInv(p) /\ OwnNumbers(p)
    BY WorkerAssumption DEF ServerInv, TypeInv, ClientsInv, PlacesInv, NumbersInv
  <2>2. ASSUME task'[q] = task[q],
               Still(q) \/ WorkerStep(q) \/ Interrupt(q) \/ ClientStep(task[q].conn)
        PROVE  CleanInv(q)'
    <3>1. HoldsAndAnswers(q) /\ AnswerInv(q) /\ CauseInv(q) /\ CleanInv(q)
      BY <2>1, <2>2 DEF TalkInv, HoldsAndAnswers, ServerCauseInv
    <3> QED
      BY <2>1, <2>2, <3>1, StillClean, StepClean, ClientClean
  <2>3. CASE UNCHANGED serverVars
    <3>1. task'[q] = task[q] /\ Still(q)
      BY <2>3 DEF Still, serverVars, workerVars
    <3> QED
      BY <2>2, <3>1
  <2>4. CASE ServerNext
    <3>1. CASE pc'[q] = "start"
      BY <3>1, NothingDone DEF Done
    <3> QED
      BY <2>1, <2>2, <2>4, <3>1, ServerChildMoves
  <2> QED
    BY <2>3, <2>4
<1>3. Clean => CleanExitServed
  BY DEF CleanInv, Done, Here, First, CleanExitServed
<1>4. "oom" \notin Faults
  OBVIOUS
<1>5. ServerSpec => []Causes
  BY <1>4, ServerCauseInvariance
<1> HIDE DEF Clean, Causes
<1> QED
  BY <1>1, <1>2, <1>3, <1>5, ServerInvariance, ClientsInvariance, PTL DEF ServerSpec

-----------------------------------------------------------------------------
(* The refinement *)

\* Who is being served: the one accepted, before the fork, and after it the one the
\* only child was forked for.
LEMMA ServedByChild ==
  ASSUME OneChild
  PROVE  /\ ppc # "fork" /\ Live = {} => Serving = NoFile
         /\ \A p \in Live : ppc # "fork" => Serving = task[p].conn
<1>1. ASSUME NEW p \in Live PROVE Live = {p} /\ (CHOOSE q \in Live : TRUE) = p
  <2>1. \A q \in Live : q = p
    BY <1>1 DEF OneChild, Children, Live, Running
  <2>2. (CHOOSE q \in Live : TRUE) \in Live
    BY <1>1
  <2> QED
    BY <1>1, <2>1, <2>2
<1> QED
  BY <1>1 DEF Serving

\* The same after a step.
LEMMA ServedByChildNext ==
  ASSUME OneChild'
  PROVE  /\ ppc' # "fork" /\ Live' = {} => Serving' = NoFile
         /\ \A p \in Live' : ppc' # "fork" => Serving' = task'[p].conn
<1>1. ASSUME NEW p \in Live' PROVE Live' = {p} /\ (CHOOSE q \in Live' : TRUE) = p
  <2>1. \A q \in Live' : q = p
    BY <1>1 DEF OneChild, Children, Live, Running
  <2>2. (CHOOSE q \in Live' : TRUE) \in Live'
    BY <1>1
  <2> QED
    BY <1>1, <2>1, <2>2
<1> QED
  BY <1>1 DEF Serving

\* While the parent looks for work no child is alive.
LEMMA NoneLive == NoChildren => Live = {}
BY DEF NoChildren, Live, Running

\* A step that leaves the parent where it is, other than about to fork, and every
\* child alive or not as it was, is nothing to the callers.
LEMMA SameServed ==
  ASSUME OneChild, OneChild', ppc # "fork", ppc' # "fork",
         Live' = Live, \A p \in Live : task'[p] = task[p]
  PROVE  Serving' = Serving
<1>1. CASE Live = {}
  BY <1>1, ServedByChild, ServedByChildNext
<1>2. ASSUME NEW p \in Live PROVE Serving' = Serving
  BY <1>2, ServedByChild, ServedByChildNext
<1> QED
  BY <1>1, <1>2

\* A connection that is made joins a line: it was nowhere.
LEMMA ConnectArrives ==
  ASSUME ServerInv, ServerInv', NEW c \in Conn, NEW l \in Listener, Connect(c, l)
  PROVE  Serial!Arrive(c, l)
<1>1. ~ Serial!IsWaiting(c)
  BY DEF Connect, ServerInv, ParentInv, IdleFree, IsQueued, Serial!IsWaiting
<1>2. Serving # c
  <2>1. CASE ppc = "fork"
    BY <2>1, WorkerAssumption
       DEF Connect, ServerInv, ParentInv, ParentTypeOK, IdleFree, Serving, Accepted
  <2>2. CASE ppc # "fork" /\ Live = {}
    BY <2>2, ServedByChild, WorkerAssumption DEF ServerInv, ChildInv
  <2>3. ASSUME ppc # "fork", NEW p \in Live PROVE Serving # c
    <3>1. Serving = task[p].conn
      BY <2>3, ServedByChild DEF ServerInv, ChildInv
    <3> QED
      BY <3>1 DEF Connect, ServerInv, ParentInv, IdleFree, Live
  <2> QED
    BY <2>1, <2>2, <2>3
<1>3. Serving' = Serving
  <2>1. UNCHANGED <<pc, task, ppc, pfdt, newfd>>
    BY DEF Connect, childVars
  <2> QED
    BY <2>1 DEF Serving, Live, Accepted
<1> QED
  BY <1>1, <1>2, <1>3 DEF Connect, Serial!Arrive

\* accept takes the first of a line, or nobody.
LEMMA AcceptTakes ==
  ASSUME ServerInv, Accept
  PROVE  (\E l \in Listener : Serial!Take(l)) \/ UNCHANGED Serial!serialVars
<1> DEFINE l == ListenOrder[idx]
<1>1. l \in Listener /\ queue[l] # << >> /\ ppc = "scan" /\ ppc' = "fork"
  BY DEF Accept, ServerInv, ParentInv, ParentTypeOK
<1>2. Serving = NoFile
  BY <1>1, NoneLive, ServedByChild DEF ServerInv, ChildInv, NoneWhileLooking
<1>3. CASE \E fd \in FdNum :
             /\ pfdt' = [pfdt EXCEPT ![fd] = Head(queue[l])]
             /\ newfd' = fd
             /\ queue' = [queue EXCEPT ![l] = Tail(@)]
  <2>1. newfd' # BadFd /\ pfdt'[newfd'] = Head(queue[l])
    BY <1>3, WorkerAssumption DEF BadFd, ServerInv, ParentInv, ParentTypeOK, FdTable
  <2>2. Serving' = Head(queue[l])
    BY <1>1, <2>1 DEF Serving, Accepted
  <2> QED
    BY <1>1, <1>2, <1>3, <2>2 DEF Serial!Take
<1>4. CASE newfd' = BadFd /\ UNCHANGED <<pfdt, queue>>
  <2>1. Serving' = NoFile
    BY <1>1, <1>4 DEF Serving, Accepted
  <2> QED
    BY <1>1, <1>2, <1>4, <2>1 DEF Serial!serialVars
<1> QED
  BY <1>3, <1>4 DEF Accept

\* fork hands over who is being served.
LEMMA ForkHandsOver ==
  ASSUME ServerInv, ServerInv', Fork
  PROVE  UNCHANGED Serial!serialVars
<1>1. PICK p \in Pid :
        /\ pc' = [pc EXCEPT ![p] = "start"]
        /\ task' = [task EXCEPT ![p] = [conn |-> Accepted, sock |-> newfd]]
  BY DEF Fork
<1>2. p \in Live' /\ task'[p].conn = Accepted
  BY <1>1 DEF ServerInv, TypeInv, WorkerTypeOK, Live, Running
<1>3. Serving' = Accepted
  BY <1>2, ServedByChildNext DEF Fork, ServerInv, ChildInv
<1> QED
  BY <1>3 DEF Fork, Serving, Serial!serialVars

\* A fork that fails releases it.
LEMMA ForkFailsReleases ==
  ASSUME ServerInv, ServerInv', ForkFails
  PROVE  Serial!Release \/ UNCHANGED Serial!serialVars
<1>1. Live' = {}
  BY NoneLive DEF ForkFails, ServerInv, ChildInv, NoneWhileLooking, workerVars, Live
<1>2. Serving' = NoFile
  BY <1>1, ServedByChildNext DEF ForkFails, ServerInv, ChildInv
<1> QED
  BY <1>2 DEF ForkFails, Serial!Release, Serial!serialVars

\* So does the end of a child; what it does before is nothing to the callers.
LEMMA ChildReleases ==
  ASSUME ServerInv, ServerInv', NEW p \in Pid, WorkerStep(p) \/ Interrupt(p),
         UNCHANGED parentVars
  PROVE  Serial!Release \/ UNCHANGED Serial!serialVars
<1>1. PICK where \in Running \cup {"exited"} :
        pc' = [pc EXCEPT ![p] = where] /\ pc[p] \in Running
  BY ChildStaysBorn DEF ServerInv, ChildInv
<1>2. ppc # "fork" /\ ppc' = ppc /\ queue' = queue /\ task' = task
  BY <1>1, ChildLeavesPeers
     DEF ServerInv, ChildInv, NoneWhileLooking, NoChildren, Running, parentVars
<1>3. CASE where \in Running
  <2>1. Live' = Live
    BY <1>1, <1>3 DEF Live, ServerInv, TypeInv, WorkerTypeOK
  <2>2. Serving' = Serving
    BY <1>2, <2>1, SameServed DEF ServerInv, ChildInv
  <2> QED
    BY <1>2, <2>2 DEF Serial!serialVars
<1>4. CASE where = "exited"
  <2>1. Live' = {}
    BY <1>1, <1>4 DEF ServerInv, ChildInv, OneChild, Children, TypeInv, WorkerTypeOK, Live, Running
  <2>2. Serving' = NoFile
    BY <1>2, <2>1, ServedByChildNext DEF ServerInv, ChildInv
  <2> QED
    BY <1>2, <2>2 DEF Serial!Release, Serial!serialVars
<1> QED
  BY <1>1, <1>3, <1>4

\* wait reaps a child that no longer serves anybody.
LEMMA WaitIsSilent ==
  ASSUME ServerInv, ServerInv', Wait
  PROVE  UNCHANGED Serial!serialVars
<1>1. ppc = "wait" /\ ppc' = "scan" /\ queue' = queue
  BY DEF Wait
<1>2. Live' = {} /\ Live = {}
  <2>1. Live' = {}
    BY <1>1 DEF ServerInv, ChildInv, NoneWhileLooking, NoChildren, Live, Running
  <2>2. CASE NoChildren
    BY <2>1, <2>2, NoneLive
  <2>3. ASSUME NEW p \in Pid, pc[p] = "exited" PROVE Live = {}
    BY <2>3 DEF ServerInv, ChildInv, OneChild, Children, Live, Running
  <2> QED
    BY <2>1, <2>2, <2>3 DEF Wait
<1>3. Serving' = Serving
  BY <1>1, <1>2, ServedByChild, ServedByChildNext DEF ServerInv, ChildInv
<1> QED
  BY <1>1, <1>3 DEF Serial!serialVars

\* The server goes, and the queues with it.
LEMMA DeathAbandons ==
  ASSUME ServerInv, ServerInv', ParentDies
  PROVE  Serial!Abandon
<1>1. /\ ppc # "dead" /\ ppc' = "dead" /\ queue' = [l \in Listener |-> << >>]
      /\ pc' = pc /\ task' = task
  BY DEF ParentDies, childVars
<1>2. Serving' \in {Serving, NoFile}
  <2>1. CASE ppc = "fork"
    BY <1>1, <2>1, NoneLive, ServedByChildNext DEF ServerInv, ChildInv, NoneWhileLooking, Live
  <2>2. CASE ppc # "fork"
    BY <1>1, <2>2, SameServed DEF ServerInv, ChildInv, Live
  <2> QED
    BY <2>1, <2>2
<1> QED
  BY <1>1, <1>2 DEF Serial!Abandon

\* The rest the callers do not notice.
LEMMA RestIsSilent ==
  ASSUME ServerInv, ServerInv',
         \/ Poll \/ Skip \/ ScanDone \/ CloseAccepted
         \/ \E c \in Conn : ClientStep(c) /\ UNCHANGED parentVars
         \/ \E c \in Conn : Over(c)
         \/ UNCHANGED serverVars
  PROVE  UNCHANGED Serial!serialVars
<1>1. pc' = pc /\ task' = task /\ queue' = queue
  BY DEF Poll, Skip, ScanDone, CloseAccepted, Over, ClientStep, SendLine, SendEnd,
         Shutdown, Reset, Drain, workerVars, childVars, parentVars, serverVars
<1>2. CASE Poll \/ Skip \/ ScanDone \/ CloseAccepted
  <2>1. ppc # "fork" /\ ppc' # "fork" /\ (ppc' = "dead" <=> ppc = "dead")
    BY <1>2 DEF Poll, Skip, ScanDone, CloseAccepted
  <2>2. Serving' = Serving
    BY <1>1, <2>1, SameServed DEF ServerInv, ChildInv, Live
  <2> QED
    BY <1>1, <2>1, <2>2 DEF Serial!serialVars
<1>3. CASE UNCHANGED parentVars
  <2>1. Serving' = Serving
    BY <1>1, <1>3 DEF Serving, Live, Accepted, parentVars
  <2> QED
    BY <1>1, <1>3, <2>1 DEF Serial!serialVars, parentVars
<1> QED
  BY <1>2, <1>3 DEF Over, serverVars

\* Whatever the clients do and whatever fails, clients are served one at a time and
\* in the order in which they have come to their listener.
THEOREM ServerIsSerial == ServerSpec => ImplementsSerial
<1>1. ServerInit => Serial!SerialInit
  <2> SUFFICES ASSUME ServerInit PROVE Serial!SerialInit
    OBVIOUS
  <2>1. Live = {} /\ ppc = "poll"
    BY DEF ServerInit, Live, Running
  <2> QED
    BY <2>1 DEF ServerInit, Serving, Serial!SerialInit
<1>2. ServerInv /\ ServerInv' /\ [ServerNext]_serverVars
      => [Serial!SerialNext]_Serial!serialVars
  <2> SUFFICES ASSUME ServerInv, ServerInv', [ServerNext]_serverVars
               PROVE  Serial!SerialNext \/ UNCHANGED Serial!serialVars
    OBVIOUS
  <2>1. CASE \/ Poll \/ Skip \/ ScanDone \/ CloseAccepted
             \/ \E c \in Conn : ClientStep(c) /\ UNCHANGED parentVars
             \/ \E c \in Conn : Over(c)
             \/ UNCHANGED serverVars
    BY <2>1, RestIsSilent
  <2>2. CASE Accept
    BY <2>2, AcceptTakes DEF Serial!SerialNext
  <2>3. CASE Fork \/ Wait
    BY <2>3, ForkHandsOver, WaitIsSilent
  <2>4. CASE ForkFails
    BY <2>4, ForkFailsReleases DEF Serial!SerialNext
  <2>5. CASE ParentDies
    BY <2>5, DeathAbandons DEF Serial!SerialNext
  <2>6. ASSUME NEW p \in Pid, ChildStep(p) \/ (Interrupt(p) /\ UNCHANGED parentVars)
        PROVE  Serial!SerialNext \/ UNCHANGED Serial!serialVars
    BY <2>6, ChildReleases DEF ChildStep, Serial!SerialNext
  <2>7. ASSUME NEW c \in Conn, NEW l \in Listener, Connect(c, l) PROVE Serial!SerialNext
    BY <2>7, ConnectArrives DEF Serial!SerialNext
  <2> QED
    BY <2>1, <2>2, <2>3, <2>4, <2>5, <2>6, <2>7 DEF ServerNext, ParentStep
<1> QED
  BY <1>1, <1>2, ServerInvariance, PTL DEF ServerSpec, ImplementsSerial, Serial!SerialSpec
=============================================================================

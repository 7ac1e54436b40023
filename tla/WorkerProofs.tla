---------------------------- MODULE WorkerProofs ----------------------------
(***************************************************************************)
(* Proofs about the child for every set of connections, listeners, routes  *)
(* and files, every descriptor table and every choice of faults.           *)
(***************************************************************************)
EXTENDS Worker, SequenceTheorems, TLAPS

\* Where the keep-alive loop may be with its counter used up: nowhere, which is
\* why it can be decremented at the end of a pass.
InPass == {"poll", "init", "line", "headers", "process", "file", "read", "write", "free"}
CountsDown ==
  \A p \in Pid : pc[p] \in InPass => (KeepAlive \/ pc[p] = "poll" => left[p] > 0)

TypeInv == WorkerTypeOK /\ CountsDown

\* What a handler or a code is answered with is a sequence of pieces.
LEMMA ReplyTypes ==
  /\ \A code \in Code : Reply(code) \in Seq(Piece) /\ Head1(code) \in Seq(Piece)
  /\ \A result : Dynamic(result) \in Seq(Piece)
<1>1. ASSUME NEW code \in Code
      PROVE  Head1(code) \in Seq(Piece) /\ Reply(code) \in Seq(Piece)
  <2>1. /\ [part |-> "head", code |-> code] \in Piece
        /\ [part |-> "blank", code |-> code] \in Piece
        /\ [part |-> "body", code |-> code] \in Piece
    BY DEF Piece
  <2>2. << [part |-> "blank", code |-> code], [part |-> "body", code |-> code] >> \in Seq(Piece)
    BY <2>1
  <2> QED
    BY <2>1, <2>2, ConcatProperties DEF Head1, Reply
<1>2. ASSUME NEW result PROVE Dynamic(result) \in Seq(Piece)
  <2>1. 404 \in Code /\ 200 \in Code /\ 301 \in Code
    BY DEF Code
  <2>2. /\ Reply(404) \in Seq(Piece) /\ Reply(200) \in Seq(Piece)
        /\ Head1(301) \in Seq(Piece) /\ << >> \in Seq(Piece)
    BY <2>1, <1>1
  <2> HIDE <1>1
  <2> QED
    BY <2>2 DEF Dynamic
<1> QED
  BY <1>1, <1>2

\* A child that ends keeps the types, whatever state it is in.
LEMMA EndsType ==
  ASSUME TypeInv, NEW p \in Pid, NEW how \in Status, Ends(p, how)
  PROVE  TypeInv'
<1>1. Closed \in FdTable
  BY DEF Closed, FdTable, File
<1>2. WorkerTypeOK'
  BY <1>1 DEF TypeInv, WorkerTypeOK, Ends, clientVars
<1>3. CountsDown'
  BY DEF TypeInv, WorkerTypeOK, CountsDown, InPass, Ends
<1> QED
  BY <1>2, <1>3 DEF TypeInv

\* And so does one that only moves on within its pass.
LEMMA GotoType ==
  ASSUME TypeInv, NEW p \in Pid, NEW where \in Running,
         pc' = [pc EXCEPT ![p] = where],
         UNCHANGED <<clientVars, status, task, fdt, fbuf, req, left, reply>>,
         where \in InPass => (KeepAlive \/ where = "poll" => left[p] > 0)
  PROVE  TypeInv'
<1>1. WorkerTypeOK'
  BY DEF TypeInv, WorkerTypeOK, clientVars, Running
<1>2. CountsDown'
  BY DEF TypeInv, WorkerTypeOK, CountsDown, InPass
<1> QED
  BY <1>1, <1>2 DEF TypeInv

-----------------------------------------------------------------------------
(* One lemma per group of actions of the child. *)

\* The table of a descriptor that is opened, duplicated or closed.
LEMMA TableTypes ==
  ASSUME WorkerTypeOK, NEW p \in Pid
  PROVE  /\ \A fd : \A f \in File : [fdt EXCEPT ![p][fd] = f] \in [Pid -> FdTable]
         /\ \A t \in FdTable : [fdt EXCEPT ![p] = t] \in [Pid -> FdTable]
         /\ \A fd : At(p, fd) \in File
         /\ NoFile \in File /\ StaticFile \in File
<1>1. fdt \in [Pid -> FdTable] /\ NoFile \in File /\ StaticFile \in File
  BY DEF WorkerTypeOK, File
<1>2. ASSUME NEW fd, NEW f \in File PROVE [fdt EXCEPT ![p][fd] = f] \in [Pid -> FdTable]
  BY <1>1 DEF FdTable
<1>3. ASSUME NEW fd PROVE At(p, fd) \in File
  BY <1>1 DEF At, FdTable
<1> QED
  BY <1>1, <1>2, <1>3

\* Closing the listeners keeps the types, and begins the count at MaxRequests.
LEMMA StartType ==
  ASSUME TypeInv, NEW p \in Pid, Start(p)
  PROVE  TypeInv'
<1>1. WithoutListeners(fdt[p]) \in FdTable
  BY DEF TypeInv, WorkerTypeOK, WithoutListeners, FdTable, File
<1>2. fdt' \in [Pid -> FdTable]
  BY <1>1 DEF TypeInv, WorkerTypeOK, Start
<1>3. MaxRequests \in Nat
  BY WorkerAssumption
<1>4. WorkerTypeOK'
  BY <1>2, <1>3 DEF TypeInv, WorkerTypeOK, Start, Goto, clientVars, Running, NextRound
<1>5. CountsDown'
  BY <1>3 DEF TypeInv, WorkerTypeOK, CountsDown, InPass, Start, Goto, NextRound
<1> QED
  BY <1>4, <1>5 DEF TypeInv

\* Each verdict of poll: the one that serves nothing counts down from above zero.
LEMMA PollType ==
  ASSUME TypeInv, NEW p \in Pid, PollGivesUp(p) \/ PollReadable(p) \/ PollOther(p)
  PROVE  TypeInv'
<1>1. CASE PollGivesUp(p)
  <2>1. PollVerdict(Revents(p)) \in Status
    BY <1>1 DEF PollGivesUp, Status
  <2> QED
    BY <1>1, <2>1, EndsType DEF PollGivesUp
<1>2. CASE PollReadable(p)
  BY <1>2, GotoType DEF PollReadable, Goto, Running, TypeInv, CountsDown, InPass
<1>3. CASE PollOther(p)
  <2>1. left[p] \in Nat /\ left[p] > 0
    BY <1>3 DEF PollOther, TypeInv, WorkerTypeOK, CountsDown, InPass
  <2>2. WorkerTypeOK'
    BY <1>3, <2>1 DEF PollOther, Goto, NextRound, TypeInv, WorkerTypeOK, clientVars, Running
  <2>3. CountsDown'
    BY <1>3, <2>1 DEF PollOther, Goto, NextRound, TypeInv, WorkerTypeOK, CountsDown, InPass
  <2> QED
    BY <2>2, <2>3 DEF TypeInv
<1> QED
  BY <1>1, <1>2, <1>3

\* init_request makes a request, and fdopen moves on.
LEMMA InitRequestType ==
  ASSUME TypeInv, NEW p \in Pid, InitRequest(p)
  PROVE  TypeInv'
<1>1. NewRequest(task[p].sock) \in RequestRec
  BY DEF TypeInv, WorkerTypeOK, NewRequest, RequestRec
<1>2. pc' \in [Pid -> Running \cup {"unborn", "exited"}]
  BY DEF InitRequest, Goto, TypeInv, WorkerTypeOK, Running
<1>3. req' \in [Pid -> RequestRec]
  BY <1>1 DEF InitRequest, TypeInv, WorkerTypeOK
<1>4. WorkerTypeOK'
  BY <1>2, <1>3 DEF InitRequest, TypeInv, WorkerTypeOK, clientVars
<1>5. CountsDown'
  BY DEF InitRequest, Goto, TypeInv, WorkerTypeOK, CountsDown, InPass
<1> QED
  BY <1>4, <1>5 DEF TypeInv

\* read(2) splits what the client sent, and adds nothing to it.
LEMMA FillType ==
  ASSUME TypeInv, NEW p \in Pid, Fill(p)
  PROVE  TypeInv'
<1> DEFINE c == Source(p)
<1>1. c \in Conn /\ inq[c] \in Seq(Line \cup {End})
  BY DEF Fill, TypeInv, WorkerTypeOK
<1>2. PICK n \in 1 .. Len(inq[c]) :
        /\ fbuf' = [fbuf EXCEPT ![p] = SubSeq(inq[c], 1, n)]
        /\ inq' = [inq EXCEPT ![c] = SubSeq(@, n + 1, Len(@))]
  BY DEF Fill
<1> HIDE DEF c
<1>3. /\ SubSeq(inq[c], 1, n) \in Seq(Line \cup {End})
      /\ SubSeq(inq[c], n + 1, Len(inq[c])) \in Seq(Line \cup {End})
  <2>1. \A k \in 1 .. Len(inq[c]) : inq[c][k] \in Line \cup {End}
    BY <1>1
  <2>2. Len(inq[c]) \in Nat
    BY <1>1
  <2> QED
    BY <2>1, <2>2, SubSeqProperties
<1>4. fbuf' \in [Pid -> Seq(Line \cup {End})] /\ inq' \in [Conn -> Seq(Line \cup {End})]
  BY <1>1, <1>2, <1>3 DEF TypeInv, WorkerTypeOK
<1>5. WorkerTypeOK'
  BY <1>4 DEF Fill, TypeInv, WorkerTypeOK
<1>6. CountsDown'
  BY DEF Fill, TypeInv, CountsDown
<1> QED
  BY <1>5, <1>6 DEF TypeInv

\* parse_request gives up or goes on with the descriptor closed.
LEMMA FcloseType ==
  ASSUME TypeInv, NEW p \in Pid, Fclose(p), Goto(p, "process"), pc[p] \in InPass \ {"poll"},
         req' \in [Pid -> RequestRec],
         UNCHANGED <<clientVars, status, task, left, reply>>
  PROVE  TypeInv'
<1>1. fdt' \in [Pid -> FdTable]
  BY TableTypes DEF Fclose, TypeInv
<1>2. WorkerTypeOK'
  BY <1>1 DEF Fclose, Goto, TypeInv, WorkerTypeOK, clientVars, Running
<1>3. CountsDown'
  BY DEF Goto, TypeInv, WorkerTypeOK, CountsDown, InPass
<1> QED
  BY <1>2, <1>3 DEF TypeInv

\* What is made of a request line is a request; while memory lasts it is the line itself.
LEMMA HeardFacts ==
  ASSUME NEW l \in Request, NEW h \in Heard(l)
  PROVE  h \in Request /\ ("oom" \notin Faults => h = l)
<1>0. l.kind = "line" /\ l.method \in KnownMethod \cup {OtherMethod} /\ l.kept \in Path
      /\ l.rest \in Seq(Path)
  BY DEF Request
<1>1. CASE "oom" \notin Faults
  BY <1>1 DEF Heard
<1>2. CASE "oom" \in Faults
  <2> DEFINE Word == KnownMethod \cup {OtherMethod} \cup Path
  <2>1. PICK words : words = << l.method, l.kept >> \o l.rest
    OBVIOUS
  <2>2. PICK k \in (DOMAIN words) \X (DOMAIN words) :
          k[1] < k[2] /\ h = [l EXCEPT !.method = MethodOf(words[k[1]]), !.kept = words[k[2]]]
    BY <1>0, <1>2, <2>1 DEF Heard
  <2>3. << l.method, l.kept >> \in Seq(Word) /\ l.rest \in Seq(Word)
        /\ Len(<< l.method, l.kept >>) = 2 /\ Len(l.rest) \in Nat
    BY <1>0
  <2>4. /\ words \in Seq(Word) /\ Len(words) = 2 + Len(l.rest)
        /\ \A i \in 1 .. Len(words) :
             words[i] = IF i <= 2 THEN << l.method, l.kept >>[i] ELSE l.rest[i - 2]
    BY <2>1, <2>3, ConcatProperties
  <2>5. k[2] \in 1 .. Len(words) /\ k[1] \in 1 .. Len(words) /\ k[2] >= 2
    BY <2>2, <2>4
  <2>6. words[k[2]] \in Path
    <3>1. CASE k[2] = 2
      BY <1>0, <2>4, <2>5, <3>1
    <3>2. CASE k[2] > 2
      <4>1. k[2] - 2 \in 1 .. Len(l.rest)
        BY <2>3, <2>4, <2>5, <3>2
      <4> QED
        BY <1>0, <2>4, <2>5, <3>2, <4>1
    <3> QED
      BY <2>5, <3>1, <3>2
  <2>7. PICK m, q : m = MethodOf(words[k[1]]) /\ q = words[k[2]]
    OBVIOUS
  <2>8. m \in KnownMethod \cup {OtherMethod} /\ q \in Path
    BY <2>6, <2>7 DEF MethodOf
  <2>9. h = [l EXCEPT !.method = m, !.kept = q]
    BY <2>2, <2>7
  <2> QED
    BY <1>2, <2>8, <2>9 DEF Request
<1> QED
  BY <1>1, <1>2

\* The ways through parse_request.
LEMMA ParseType ==
  ASSUME TypeInv, NEW p \in Pid,
         \/ NoRequestLine(p) \/ RequestLine(p) \/ RequestLineOom(p)
         \/ HeadersDone(p) \/ HeadersOom(p)
  PROVE  TypeInv'
<1>r. req \in [Pid -> RequestRec] /\ fbuf \in [Pid -> Seq(Line \cup {End})]
  BY DEF TypeInv, WorkerTypeOK
<1>l. ASSUME fbuf[p] # << >>, Head(fbuf[p]).kind = "line"
      PROVE  /\ \A h \in Heard(Head(fbuf[p])) :
                  h.method \in KnownMethod \cup {OtherMethod} /\ h.kept \in Path
             /\ Tail(fbuf[p]) \in Seq(Line \cup {End})
  <2>1. /\ Head(fbuf[p]) \in Line \cup {End}
        /\ Tail(fbuf[p]) \in Seq(Line \cup {End})
    BY <1>r, <1>l, HeadTailProperties
  <2>2. Head(fbuf[p]) \in Request
    BY <1>l, <2>1, LineAssumption DEF End, Short
  <2> QED
    BY <2>1, <2>2, HeardFacts DEF Request
<1>1. CASE NoRequestLine(p)
  BY <1>1, <1>r, FcloseType DEF NoRequestLine, InPass
<1>2. CASE RequestLine(p)
  <2>1. req' \in [Pid -> RequestRec]
    <3>1. PICK h \in Heard(Head(fbuf[p])) :
            req' = [req EXCEPT ![p].method = h.method, ![p].path = h.kept]
      BY <1>2 DEF RequestLine
    <3>2. PICK m, q : m = h.method /\ q = h.kept
      OBVIOUS
    <3>3. m \in KnownMethod \cup {OtherMethod} /\ q \in Path
      BY <1>2, <1>l, <3>2 DEF RequestLine
    <3>4. req' = [req EXCEPT ![p].method = m, ![p].path = q]
      BY <3>1, <3>2
    <3> QED
      BY <1>r, <3>3, <3>4 DEF RequestRec
  <2>2. fbuf' \in [Pid -> Seq(Line \cup {End})]
    <3>1. PICK rest \in Seq(Line \cup {End}) : rest = Tail(fbuf[p])
      BY <1>2, <1>l DEF RequestLine
    <3>2. PICK left_over \in Seq(Line \cup {End}) : left_over = Leftover(Head(fbuf[p]))
      <4>1. << >> \in Seq(Line \cup {End}) /\ << End >> \in Seq(Line \cup {End})
        OBVIOUS
      <4> QED
        BY <4>1 DEF Leftover
    <3>3. left_over \o rest \in Seq(Line \cup {End})
      BY <3>1, <3>2, ConcatProperties
    <3>4. fbuf' = [fbuf EXCEPT ![p] = left_over \o rest]
      BY <1>2, <3>1, <3>2 DEF RequestLine
    <3> QED
      BY <1>r, <3>3, <3>4
  <2>3. WorkerTypeOK'
    BY <1>2, <2>1, <2>2 DEF RequestLine, Goto, TypeInv, WorkerTypeOK, clientVars, Running
  <2>4. CountsDown'
    BY <1>2 DEF RequestLine, Goto, TypeInv, WorkerTypeOK, CountsDown, InPass
  <2> QED
    BY <2>3, <2>4 DEF TypeInv
<1>3. CASE RequestLineOom(p)
  <2>1. req' \in [Pid -> RequestRec]
    <3>1. PICK h \in Heard(Head(fbuf[p])) : req' = [req EXCEPT ![p].method = h.method]
      BY <1>3 DEF RequestLineOom
    <3>2. PICK m : m = h.method
      OBVIOUS
    <3>3. m \in KnownMethod \cup {OtherMethod}
      BY <1>3, <1>l, <3>2 DEF RequestLineOom
    <3>4. req' = [req EXCEPT ![p].method = m]
      BY <3>1, <3>2
    <3> QED
      BY <1>r, <3>3, <3>4 DEF RequestRec
  <2> QED
    BY <1>3, <2>1, FcloseType DEF RequestLineOom, InPass
<1>4. CASE HeadersDone(p)
  <2>1. PICK fd \in FdNum :
          /\ fdt' = [fdt EXCEPT ![p][fd] = Source(p), ![p][req[p].cfd] = NoFile]
          /\ req' = [req EXCEPT ![p].cfd = fd]
    BY <1>4 DEF HeadersDone
  <2>2. Source(p) \in File /\ NoFile \in File
    BY TableTypes DEF Source, TypeInv
  <2>3. fdt' \in [Pid -> FdTable]
    BY <2>1, <2>2 DEF TypeInv, WorkerTypeOK, FdTable
  <2>4. req' \in [Pid -> RequestRec]
    BY <2>1, <1>r DEF RequestRec
  <2>5. WorkerTypeOK'
    BY <1>4, <2>3, <2>4 DEF HeadersDone, Goto, TypeInv, WorkerTypeOK, clientVars, Running
  <2>6. CountsDown'
    BY <1>4 DEF HeadersDone, HeadersOver, Goto, TypeInv, WorkerTypeOK, CountsDown, InPass
  <2> QED
    BY <2>5, <2>6 DEF TypeInv
<1>5. CASE HeadersOom(p)
  BY <1>5, <1>r, FcloseType DEF HeadersOom, HeadersOver, InPass
<1> QED
  BY <1>1, <1>2, <1>3, <1>4, <1>5

-----------------------------------------------------------------------------
\* process_request picks an answer, or none.
LEMMA AnswerType ==
  ASSUME TypeInv, NEW p \in Pid, NEW pieces \in Seq(Piece), pc[p] = "process",
         req' \in [Pid -> RequestRec], Answer(p, pieces)
  PROVE  TypeInv'
<1>1. WorkerTypeOK'
  BY DEF Answer, Goto, TypeInv, WorkerTypeOK, clientVars, Running
<1>2. CountsDown'
  BY DEF Answer, Goto, TypeInv, WorkerTypeOK, CountsDown, InPass
<1> QED
  BY <1>1, <1>2 DEF TypeInv

\* A way out of process_request that answers nothing.
LEMMA SilentType ==
  ASSUME TypeInv, NEW p \in Pid, pc[p] = "process",
         req' \in [Pid -> RequestRec], Silent(p)
  PROVE  TypeInv'
<1>1. WorkerTypeOK'
  BY DEF Silent, Goto, TypeInv, WorkerTypeOK, clientVars, Running
<1>2. CountsDown'
  BY DEF Silent, Goto, TypeInv, WorkerTypeOK, CountsDown, InPass
<1> QED
  BY <1>1, <1>2 DEF TypeInv

\* The path that is served is a path, the literal among them.
LEMMA SwapsPathType ==
  ASSUME WorkerTypeOK, NEW p \in Pid, SwapsPath(p)
  PROVE  req' \in [Pid -> RequestRec]
<1>1. req \in [Pid -> RequestRec] /\ Index \in Path
  BY WorkerAssumption DEF WorkerTypeOK
<1>2. ServedPath(p) \in Path \cup {NoPath}
  BY <1>1 DEF ServedPath, RequestRec
<1>3. (req[p].path \in Rootish) \in BOOLEAN
  OBVIOUS
<1> HIDE DEF ServedPath
<1> QED
  BY <1>1, <1>2, <1>3 DEF SwapsPath, RequestRec

\* The ways through process_request up to a write.
LEMMA ProcessType ==
  ASSUME TypeInv, NEW p \in Pid,
         \/ RejectMethod(p) \/ Crash(p) \/ RunHandler(p)
         \/ ServeStatic(p) \/ ServeOom(p)
  PROVE  TypeInv'
<1>r. req \in [Pid -> RequestRec] /\ WorkerTypeOK
  BY DEF TypeInv, WorkerTypeOK
<1>p. pc[p] = "process"
  BY DEF RejectMethod, Crash, RunHandler, ServeStatic, ServeOom, Processing
<1>s. "SIGSEGV" \in Status /\ "SIGABRT" \in Status
  BY DEF Status
<1>c. Reply(404) \in Seq(Piece) /\ Reply(204) \in Seq(Piece) /\ Reply(500) \in Seq(Piece)
      /\ Head1(200) \in Seq(Piece)
  BY ReplyTypes DEF Code
<1>1. CASE RejectMethod(p)
  BY <1>1, <1>r, <1>p, SilentType DEF RejectMethod
<1>2. CASE Crash(p)
  BY <1>2, <1>s, EndsType DEF Crash
<1>3. CASE RunHandler(p)
  BY <1>3, <1>r, <1>p, ReplyTypes, AnswerType DEF RunHandler
<1>4. CASE ServeStatic(p)
  <2>1. CASE SwapsPath(p) /\ (Answer(p, Reply(404)) \/ Answer(p, Reply(204)) \/ Silent(p))
    BY <2>1, <1>r, <1>p, <1>c, SwapsPathType, AnswerType, SilentType
  <2>2. CASE UNCHANGED req /\ Answer(p, Head1(200))
    BY <2>2, <1>r, <1>p, <1>c, AnswerType
  <2>3. CASE /\ UNCHANGED req /\ Goto(p, "file")
             /\ UNCHANGED <<clientVars, status, task, fdt, fbuf, left, reply>>
    BY <2>3, <1>p, GotoType DEF Goto, Running, InPass, TypeInv, CountsDown
  <2> QED
    BY <1>4, <2>1, <2>2, <2>3 DEF ServeStatic
<1>5. CASE ServeOom(p)
  <2>1. CASE UNCHANGED req /\ Silent(p)
    BY <2>1, <1>r, <1>p, SilentType
  <2>2. CASE SwapsPath(p) /\ (Answer(p, Reply(500)) \/ Silent(p))
    BY <2>2, <1>r, <1>p, <1>c, SwapsPathType, AnswerType, SilentType
  <2>3. CASE Ends(p, "SIGSEGV")
    BY <2>3, <1>s, EndsType
  <2> QED
    BY <1>5, <2>1, <2>2, <2>3 DEF ServeOom
<1> QED
  BY <1>1, <1>2, <1>3, <1>4, <1>5

\* Opening and reading a static file.
LEMMA FileType ==
  ASSUME TypeInv, NEW p \in Pid, OpenFile(p) \/ ReadFile(p)
  PROVE  TypeInv'
<1>t. WorkerTypeOK /\ fdt[p] \in FdTable
  BY DEF TypeInv, WorkerTypeOK
<1>1. CASE OpenFile(p)
  <2>1. fdt' \in [Pid -> FdTable]
    <3>1. PICK fd \in FdNum : fdt' = [fdt EXCEPT ![p][fd] = StaticFile]
      BY <1>1 DEF OpenFile
    <3> QED
      BY <1>t, <3>1, TableTypes
  <2>2. WorkerTypeOK'
    BY <1>1, <2>1 DEF OpenFile, Goto, TypeInv, WorkerTypeOK, clientVars, Running
  <2>3. CountsDown'
    BY <1>1 DEF OpenFile, Goto, TypeInv, WorkerTypeOK, CountsDown, InPass
  <2> QED
    BY <2>2, <2>3 DEF TypeInv
<1>2. CASE ReadFile(p)
  <2>1. fdt' \in [Pid -> FdTable]
    <3> DEFINE t == [fd \in FdNum |-> IF fdt[p][fd] = StaticFile THEN NoFile ELSE fdt[p][fd]]
    <3>1. t \in FdTable
      BY <1>t, TableTypes DEF FdTable
    <3>2. fdt' = [fdt EXCEPT ![p] = t]
      BY <1>2 DEF ReadFile
    <3> HIDE DEF t
    <3> QED
      BY <3>1, <3>2, <1>t, TableTypes
  <2>2. reply' \in [Pid -> Seq(Piece)]
    <3>1. Reply(200) \in Seq(Piece) /\ Head1(200) \in Seq(Piece)
      BY ReplyTypes DEF Code
    <3> QED
      BY <1>2, <1>t, <3>1 DEF ReadFile, WorkerTypeOK
  <2>3. WorkerTypeOK'
    BY <1>2, <2>1, <2>2 DEF ReadFile, Goto, TypeInv, WorkerTypeOK, clientVars, Running
  <2>4. CountsDown'
    BY <1>2 DEF ReadFile, Goto, TypeInv, WorkerTypeOK, CountsDown, InPass
  <2> QED
    BY <2>3, <2>4 DEF TypeInv
<1> QED
  BY <1>1, <1>2

\* A write(2) appends one piece at most.
LEMMA WriteType ==
  ASSUME TypeInv, NEW p \in Pid,
         Write(p) \/ LuaWriteFails(p) \/ BrokenPipe(p) \/ Written(p) \/ OutOfMemory(p)
  PROVE  TypeInv'
<1>s. "SIGPIPE" \in Status /\ "SIGABRT" \in Status
  BY DEF Status
<1>1. CASE Write(p)
  <2>1. Head(reply[p]) \in Piece /\ Tail(reply[p]) \in Seq(Piece)
    BY <1>1, HeadTailProperties DEF Write, TypeInv, WorkerTypeOK
  <2>2. wire' \in [Conn -> Seq(Piece)] /\ full' \in [Conn -> BOOLEAN]
    <3>1. wire \in [Conn -> Seq(Piece)] /\ full \in [Conn -> BOOLEAN]
      BY DEF TypeInv, WorkerTypeOK
    <3>2. CASE UNCHANGED <<wire, full>>
      BY <3>1, <3>2
    <3>3. CASE /\ Source(p) \in Conn
               /\ wire' = [wire EXCEPT ![Source(p)] = Append(@, Head(reply[p]))]
               /\ \E filled \in BOOLEAN : full' = [full EXCEPT ![Source(p)] = filled]
      <4>1. Append(wire[Source(p)], Head(reply[p])) \in Seq(Piece)
        BY <2>1, <3>1, <3>3
      <4> QED
        BY <3>1, <3>3, <4>1
    <3> QED
      BY <1>1, <3>2, <3>3 DEF Write, CannotWrite
  <2>3. reply' \in [Pid -> Seq(Piece)]
    BY <1>1, <2>1 DEF Write, TypeInv, WorkerTypeOK
  <2>4. WorkerTypeOK'
    BY <1>1, <2>2, <2>3 DEF Write, TypeInv, WorkerTypeOK
  <2>5. CountsDown'
    BY <1>1 DEF Write, TypeInv, CountsDown
  <2> QED
    BY <2>4, <2>5 DEF TypeInv
<1>2. CASE LuaWriteFails(p) \/ BrokenPipe(p)
  BY <1>2, <1>s, EndsType DEF LuaWriteFails, BrokenPipe
<1>3. CASE Written(p)
  BY <1>3, GotoType DEF Written, Goto, Running, InPass, TypeInv, CountsDown
<1>4. CASE OutOfMemory(p)
  BY <1>4, <1>s, EndsType DEF OutOfMemory
<1> QED
  BY <1>1, <1>2, <1>3, <1>4

\* The end of a pass, the end of the child, and SIGINT.
LEMMA PassEndType ==
  ASSUME TypeInv, NEW p \in Pid,
         FreeLiteral(p) \/ FreeRequest(p) \/ CloseClient(p) \/ Interrupt(p)
  PROVE  TypeInv'
<1>s. {"SIGABRT", "OK", "SIGINT"} \subseteq Status
  BY DEF Status
<1>1. CASE FreeLiteral(p)
  BY <1>1, <1>s, EndsType DEF FreeLiteral
<1>2. CASE FreeRequest(p)
  <2>1. KeepAlive => left[p] \in Nat /\ left[p] > 0
    BY <1>2 DEF FreeRequest, TypeInv, WorkerTypeOK, CountsDown, InPass
  <2>2. left' \in [Pid -> Nat] /\ pc' \in [Pid -> Running \cup {"unborn", "exited"}]
    <3>1. left \in [Pid -> Nat] /\ pc \in [Pid -> Running \cup {"unborn", "exited"}]
      BY DEF TypeInv, WorkerTypeOK
    <3>2. CASE KeepAlive
      <4>1. left[p] - 1 \in Nat
        BY <2>1, <3>2
      <4>2. left' = [left EXCEPT ![p] = left[p] - 1] /\ pc' = [pc EXCEPT ![p] = NextRound(left[p] - 1)]
        BY <1>2, <3>2 DEF FreeRequest, Goto
      <4>3. NextRound(left[p] - 1) \in Running
        BY DEF NextRound, Running
      <4> QED
        BY <3>1, <4>1, <4>2, <4>3
    <3>3. CASE ~ KeepAlive
      BY <1>2, <3>1, <3>3 DEF FreeRequest, Goto, Running
    <3> QED
      BY <3>2, <3>3
  <2>4. WorkerTypeOK'
    BY <1>2, <2>2 DEF FreeRequest, TypeInv, WorkerTypeOK, clientVars
  <2>3. CountsDown'
    BY <1>2, <2>1 DEF FreeRequest, Goto, NextRound, TypeInv, WorkerTypeOK, CountsDown, InPass
  <2> QED
    BY <2>3, <2>4 DEF TypeInv
<1>3. CASE CloseClient(p)
  BY <1>3, <1>s, EndsType DEF CloseClient
<1>4. CASE Interrupt(p)
  <2>1. (IF pc[p] = "start" THEN "OK" ELSE "SIGINT") \in Status
    BY <1>s
  <2> QED
    BY <1>4, <2>1, EndsType DEF Interrupt
<1> QED
  BY <1>1, <1>2, <1>3, <1>4

\* The client adds lines and ends, or takes some of them away.
LEMMA ClientType ==
  ASSUME TypeInv, NEW c \in Conn, ClientStep(c)
  PROVE  TypeInv'
<1>u. UNCHANGED childVars
  BY DEF ClientStep, SendLine, SendEnd, Shutdown, Reset, Drain
<1>1. /\ peer' \in [Conn -> {"idle", "open", "fin", "rst"}]
      /\ line' \in [Conn -> Line \cup {NoLine}]
      /\ asked' \in [Conn -> Seq(Line)]
      /\ inq' \in [Conn -> Seq(Line \cup {End})]
      /\ wire' \in [Conn -> Seq(Piece)]
      /\ full' \in [Conn -> BOOLEAN]
  <2>1. CASE SendLine(c)
    BY <2>1 DEF SendLine, TypeInv, WorkerTypeOK
  <2>2. CASE SendEnd(c)
    <3>1. line[c] \in Line
      BY <2>2 DEF SendEnd, TypeInv, WorkerTypeOK
    <3> QED
      BY <2>2, <3>1 DEF SendEnd, TypeInv, WorkerTypeOK
  <2>3. CASE Shutdown(c)
    BY <2>3 DEF Shutdown, TypeInv, WorkerTypeOK
  <2>4. CASE Reset(c)
    <3>1. PICK n \in 0 .. Len(inq[c]) : inq' = [inq EXCEPT ![c] = SubSeq(@, 1, n)]
      BY <2>4 DEF Reset
    <3>2. inq[c] \in Seq(Line \cup {End})
      BY DEF TypeInv, WorkerTypeOK
    <3>3. SubSeq(inq[c], 1, n) \in Seq(Line \cup {End})
      <4>1. Len(inq[c]) \in Nat /\ \A k \in 1 .. n : inq[c][k] \in Line \cup {End}
        BY <3>2
      <4> QED
        BY <4>1, SubSeqProperties
    <3> QED
      BY <2>4, <3>1, <3>3 DEF Reset, TypeInv, WorkerTypeOK
  <2>5. CASE Drain(c)
    BY <2>5 DEF Drain, TypeInv, WorkerTypeOK
  <2> QED
    BY <2>1, <2>2, <2>3, <2>4, <2>5 DEF ClientStep
<1>2. WorkerTypeOK'
  BY <1>u, <1>1 DEF TypeInv, WorkerTypeOK, childVars
<1>3. CountsDown'
  BY <1>u DEF TypeInv, CountsDown, childVars
<1> QED
  BY <1>2, <1>3 DEF TypeInv

-----------------------------------------------------------------------------
\* Every step of a child.
LEMMA StepType ==
  ASSUME TypeInv, NEW p \in Pid, WorkerStep(p) \/ Interrupt(p)
  PROVE  TypeInv'
BY StartType, PollType, InitRequestType, FillType, ParseType, ProcessType,
   FileType, WriteType, PassEndType DEF WorkerStep

\* A step that changes nothing.
LEMMA StutterType == TypeInv /\ UNCHANGED workerVars => TypeInv'
BY DEF TypeInv, WorkerTypeOK, CountsDown, workerVars

\* The strengthened invariant, for every behaviour of the child and its client.
LEMMA TypeInvariance == WorkerSpec => []TypeInv
<1>1. ForkedInit => TypeInv
  <2> SUFFICES ASSUME ForkedInit PROVE TypeInv
    OBVIOUS
  <2>1. ListenTable \in FdTable
    BY DEF ListenTable, FdTable, File
  <2>2. fdt \in [Pid -> FdTable]
    <3>1. PICK owner \in [Pid -> Conn], fd \in FdNum :
            fdt = [p \in Pid |-> [ListenTable EXCEPT ![fd] = owner[p]]]
      BY DEF ForkedInit
    <3>2. \A p \in Pid : [ListenTable EXCEPT ![fd] = owner[p]] \in FdTable
      BY <2>1 DEF FdTable, File
    <3> QED
      BY <3>1, <3>2
  <2>3. task \in [Pid -> [conn : Conn \cup {NoFile}, sock : FdNum \cup {BadFd}]]
    BY DEF ForkedInit
  <2>4. NewRequest(BadFd) \in RequestRec
    BY DEF NewRequest, RequestRec
  <2>5. WorkerTypeOK
    BY <2>2, <2>3, <2>4 DEF ForkedInit, WorkerInit, WorkerTypeOK, Running, Status
  <2>6. CountsDown
    BY DEF ForkedInit, CountsDown, InPass
  <2> QED
    BY <2>5, <2>6 DEF TypeInv
<1>2. TypeInv /\ [WorkerNext]_workerVars => TypeInv'
  BY StepType, ClientType, StutterType DEF WorkerNext
<1> QED
  BY <1>1, <1>2, PTL DEF WorkerSpec

\* The variables of every child and every connection have their types for ever;
\* among them left, which the loop never takes below zero.
THEOREM WorkerTypeCorrect == WorkerSpec => []WorkerTypeOK
<1>1. TypeInv => WorkerTypeOK
  BY DEF TypeInv
<1> QED
  BY <1>1, TypeInvariance, PTL

-----------------------------------------------------------------------------
(* What a child has open: its connection under one number, a static file *)
(* while it reads one, and nothing else.                                 *)

\* The table the parent hands down: its listeners, and the connection.
Inherited(p) ==
  \A fd \in FdNum :
    \/ fdt[p][fd] = NoFile
    \/ fd = task[p].sock /\ fdt[p][fd] = task[p].conn
    \/ \E l \in Listener : fd = ListenFd[l]

OnlyItsConnection(p) ==
  \A fd \in FdNum :
    \/ fdt[p][fd] \in {NoFile, task[p].conn}
    \/ fdt[p][fd] = StaticFile /\ pc[p] = "read"

\* The connection is open under one number: HeadersDone opens a second one and
\* closes the first in the same step.
OneNumber(p) ==
  \A fd, g \in FdNum :
    fdt[p][fd] \notin {NoFile, StaticFile} /\ fdt[p][g] \notin {NoFile, StaticFile} => fd = g

\* client_sockfd was given out while the listeners were open.
NotAListener(p) == task[p].sock \in FdNum /\ \A l \in Listener : task[p].sock # ListenFd[l]

Forked(p) == pc[p] \notin {"unborn", "start"}

FdInv(p) ==
  /\ pc[p] = "start" => Inherited(p)
  /\ Forked(p) => OnlyItsConnection(p) /\ OneNumber(p)
  /\ pc[p] # "unborn" => NotAListener(p)

DescriptorInv == TypeInv /\ \A p \in Pid : FdInv(p)

-----------------------------------------------------------------------------
\* A process of which nothing moves.
LEMMA OtherFd ==
  ASSUME NEW q \in Pid, FdInv(q), pc'[q] = pc[q], fdt'[q] = fdt[q], task'[q] = task[q]
  PROVE  FdInv(q)'
BY DEF FdInv, Inherited, Forked, OnlyItsConnection, OneNumber, NotAListener

\* A child that moves on with its table as it is, neither into nor out of the
\* reading of a file.
LEMMA SameTableFd ==
  ASSUME NEW p \in Pid, FdInv(p), fdt'[p] = fdt[p], task'[p] = task[p],
         Forked(p), Forked(p)', pc[p] # "read"
  PROVE  FdInv(p)'
BY DEF FdInv, Inherited, Forked, OnlyItsConnection, OneNumber, NotAListener

\* A child that ends.
LEMMA EndsFd ==
  ASSUME TypeInv, NEW p \in Pid, FdInv(p), pc[p] \in Running, NEW how, Ends(p, how)
  PROVE  FdInv(p)'
<1>1. fdt'[p] = Closed /\ pc'[p] = "exited" /\ task'[p] = task[p]
  BY DEF TypeInv, WorkerTypeOK, Ends
<1>2. pc[p] # "unborn"
  BY DEF Running
<1> QED
  BY <1>1, <1>2
     DEF FdInv, Inherited, Forked, OnlyItsConnection, OneNumber, NotAListener, Closed

\* A child that has closed the listeners.
LEMMA StartFd ==
  ASSUME TypeInv, NEW p \in Pid, FdInv(p), Start(p)
  PROVE  FdInv(p)'
<1>1. fdt'[p] = WithoutListeners(fdt[p]) /\ task'[p] = task[p]
  BY DEF TypeInv, WorkerTypeOK, Start
<1>2. pc'[p] \in Running /\ pc'[p] # "start"
  BY DEF TypeInv, WorkerTypeOK, Start, Goto, NextRound, Running
<1>3. \A fd \in FdNum :
        fdt'[p][fd] = NoFile \/ (fd = task[p].sock /\ fdt'[p][fd] = task[p].conn)
  BY <1>1 DEF FdInv, Inherited, Start, WithoutListeners
<1>4. NotAListener(p)
  BY DEF FdInv, Start
<1> QED
  BY <1>1, <1>2, <1>3, <1>4
     DEF FdInv, Forked, OnlyItsConnection, OneNumber, NotAListener, Running

-----------------------------------------------------------------------------
\* A child that closes one of its descriptors.
LEMMA FcloseFd ==
  ASSUME TypeInv, NEW p \in Pid, FdInv(p), Fclose(p),
         Forked(p), Forked(p)', pc[p] # "read", task'[p] = task[p]
  PROVE  FdInv(p)'
<1>1. \A fd \in FdNum : fdt'[p][fd] \in {fdt[p][fd], NoFile}
  BY DEF TypeInv, WorkerTypeOK, Fclose, FdTable
<1> QED
  BY <1>1 DEF FdInv, Forked, OnlyItsConnection, OneNumber, NotAListener

\* The connection moves from the number fclose frees to the one dup returns.
LEMMA HeadersDoneFd ==
  ASSUME TypeInv, NEW p \in Pid, FdInv(p), HeadersDone(p)
  PROVE  FdInv(p)'
<1>1. pc[p] = "headers" /\ pc'[p] = "process" /\ task'[p] = task[p]
  BY DEF TypeInv, WorkerTypeOK, HeadersDone, HeadersOver, Goto
<1>2. PICK new \in FdNum :
        /\ IsLowestFree(fdt[p], new)
        /\ fdt' = [fdt EXCEPT ![p][new] = Source(p), ![p][req[p].cfd] = NoFile]
  BY DEF HeadersDone
<1>3. PICK old : old = req[p].cfd
  OBVIOUS
<1>4. fdt[p] \in FdTable /\ fdt \in [Pid -> FdTable]
  BY DEF TypeInv, WorkerTypeOK
<1>5. \A fd \in FdNum : fdt'[p][fd] = IF fd = old THEN NoFile
                                     ELSE IF fd = new THEN Source(p) ELSE fdt[p][fd]
  BY <1>2, <1>3, <1>4 DEF FdTable
<1>6. Source(p) = IF old \in FdNum THEN fdt[p][old] ELSE NoFile
  BY <1>3 DEF Source, At
<1>7. OnlyItsConnection(p) /\ OneNumber(p) /\ NotAListener(p)
  BY <1>1 DEF FdInv, Forked
<1>8. \A fd \in FdNum : fdt'[p][fd] \in {NoFile, task[p].conn}
  BY <1>1, <1>5, <1>6, <1>7 DEF OnlyItsConnection
<1>9. Source(p) \in {NoFile, task[p].conn} /\ task[p].conn # StaticFile
  <2>1. task[p].conn \in Conn \cup {NoFile}
    BY DEF TypeInv, WorkerTypeOK
  <2> QED
    BY <2>1, <1>1, <1>6, <1>7, WorkerAssumption DEF OnlyItsConnection
<1>10. OneNumber(p)'
  <2>1. CASE Source(p) = NoFile
    <3>1. \A fd \in FdNum : fdt'[p][fd] \in {NoFile, fdt[p][fd]}
      BY <2>1, <1>5
    <3> QED
      BY <3>1, <1>7 DEF OneNumber
  <2>2. CASE Source(p) # NoFile
    <3>1. old \in FdNum /\ fdt[p][old] \notin {NoFile, StaticFile}
      BY <2>2, <1>6, <1>9
    <3>2. \A fd \in FdNum : fdt[p][fd] \notin {NoFile, StaticFile} => fd = old
      BY <3>1, <1>7 DEF OneNumber
    <3>3. \A fd \in FdNum : fdt'[p][fd] \notin {NoFile, StaticFile} => fd = new
      BY <3>2, <1>5
    <3> QED
      BY <3>3 DEF OneNumber
  <2> QED
    BY <2>1, <2>2
<1> QED
  BY <1>1, <1>7, <1>8, <1>10 DEF FdInv, Forked, OnlyItsConnection, NotAListener

\* A static file is opened and closed again.
LEMMA FileFd ==
  ASSUME TypeInv, NEW p \in Pid, FdInv(p), OpenFile(p) \/ ReadFile(p)
  PROVE  FdInv(p)'
<1>1. fdt \in [Pid -> FdTable] /\ task'[p] = task[p]
  BY DEF TypeInv, WorkerTypeOK, OpenFile, ReadFile
<1>2. OnlyItsConnection(p) /\ OneNumber(p) /\ NotAListener(p)
  BY DEF FdInv, Forked, OpenFile, ReadFile
<1>3. CASE OpenFile(p)
  <2>1. pc'[p] = "read" /\ pc[p] = "file"
    BY <1>3 DEF OpenFile, Goto, TypeInv, WorkerTypeOK
  <2>2. PICK new \in FdNum : fdt' = [fdt EXCEPT ![p][new] = StaticFile]
    BY <1>3 DEF OpenFile
  <2>3. \A fd \in FdNum : fdt'[p][fd] = IF fd = new THEN StaticFile ELSE fdt[p][fd]
    BY <2>2, <1>1 DEF FdTable
  <2> QED
    BY <1>1, <1>2, <2>1, <2>3
       DEF FdInv, Forked, OnlyItsConnection, OneNumber, NotAListener
<1>4. CASE ReadFile(p)
  <2>1. pc'[p] = "write" /\ pc[p] = "read"
    BY <1>4 DEF ReadFile, Goto, TypeInv, WorkerTypeOK
  <2>2. \A fd \in FdNum : fdt'[p][fd] = IF fdt[p][fd] = StaticFile THEN NoFile ELSE fdt[p][fd]
    BY <1>4, <1>1 DEF ReadFile
  <2> QED
    BY <1>1, <1>2, <2>1, <2>2
       DEF FdInv, Forked, OnlyItsConnection, OneNumber, NotAListener
<1> QED
  BY <1>3, <1>4

-----------------------------------------------------------------------------
\* Every step of a child.
LEMMA StepFd ==
  ASSUME TypeInv, NEW p \in Pid, FdInv(p), WorkerStep(p) \/ Interrupt(p)
  PROVE  FdInv(p)'
<1>1. pc \in [Pid -> Running \cup {"unborn", "exited"}] /\ fdt \in [Pid -> FdTable]
  BY DEF TypeInv, WorkerTypeOK
<1> DEFINE Moves == /\ Forked(p) /\ pc[p] # "read"
                    /\ Forked(p)' /\ fdt' = fdt /\ task' = task
<1>2. ASSUME Moves PROVE FdInv(p)'
  BY <1>2, SameTableFd
<1>3. ASSUME NEW where \in Running \ {"start"}, Goto(p, where), Forked(p), pc[p] # "read",
             fdt' = fdt, task' = task
      PROVE  FdInv(p)'
  <2>1. Forked(p)'
    BY <1>1, <1>3 DEF Goto, Forked, Running
  <2> QED
    BY <1>2, <1>3, <2>1
<1>4. ASSUME NEW where \in Running \ {"start"}, Goto(p, where), Forked(p), pc[p] # "read",
             Fclose(p), task' = task
      PROVE  FdInv(p)'
  <2>1. Forked(p)'
    BY <1>1, <1>4 DEF Goto, Forked, Running
  <2> QED
    BY <1>4, <2>1, FcloseFd
<1>5. \A n : NextRound(n) \in Running \ {"start"}
  BY DEF NextRound, Running
<1>6. CASE Start(p)
  BY <1>6, StartFd
<1>7. CASE \/ PollGivesUp(p) \/ Crash(p) \/ BrokenPipe(p) \/ LuaWriteFails(p)
           \/ FreeLiteral(p) \/ CloseClient(p) \/ Interrupt(p)
  BY <1>7, EndsFd
     DEF PollGivesUp, Crash, BrokenPipe, LuaWriteFails, AboutToWrite,
         FreeLiteral, CloseClient, Interrupt,
         Processing, Running
<1>8. CASE OutOfMemory(p)
  <2>1. pc[p] \in Running
    BY <1>8 DEF OutOfMemory, Processing, Running
  <2> QED
    BY <1>8, <2>1, EndsFd DEF OutOfMemory
<1>9. CASE PollReadable(p) \/ PollOther(p) \/ InitRequest(p)
  BY <1>9, <1>3, <1>5 DEF PollReadable, PollOther, InitRequest, Forked, Running
<1>10. CASE Fill(p) \/ Write(p)
  BY <1>10, <1>2 DEF Fill, Write, Reading, Forked
<1>11. CASE RequestLine(p)
  BY <1>11, <1>3 DEF RequestLine, Forked, Running
<1>12. CASE NoRequestLine(p) \/ RequestLineOom(p) \/ HeadersOom(p)
  BY <1>12, <1>4
     DEF NoRequestLine, RequestLineOom, HeadersOom, HeadersOver, Forked, Running
<1>13. CASE HeadersDone(p)
  BY <1>13, HeadersDoneFd
<1>14. CASE RejectMethod(p) \/ RunHandler(p)
  BY <1>14, <1>3 DEF RejectMethod, RunHandler, Silent, Answer, Processing, Forked, Running
<1>15. CASE ServeStatic(p)
  BY <1>15, <1>3 DEF ServeStatic, Silent, Answer, Processing, Forked, Running
<1>16. CASE ServeOom(p)
  <2>1. ASSUME Ends(p, "SIGSEGV"), Processing(p) PROVE FdInv(p)'
    BY <2>1, EndsFd DEF Processing, Running
  <2> QED
    BY <1>16, <1>3, <2>1 DEF ServeOom, Silent, Answer, Processing, Forked, Running
<1>17. CASE OpenFile(p) \/ ReadFile(p)
  BY <1>17, FileFd
<1>18. CASE Written(p)
  BY <1>18, <1>3 DEF Written, Forked, Running
<1>19. CASE FreeRequest(p)
  BY <1>19, <1>3, <1>5 DEF FreeRequest, Forked, Running
<1> QED
  BY <1>6, <1>7, <1>8, <1>9, <1>10, <1>11, <1>12, <1>13, <1>14, <1>15, <1>16, <1>17,
     <1>18, <1>19 DEF WorkerStep

\* A step of one child leaves what the others are and have open.
LEMMA StepLeavesOthers ==
  ASSUME TypeInv, NEW p \in Pid, WorkerStep(p) \/ Interrupt(p), NEW q \in Pid, q # p
  PROVE  pc'[q] = pc[q] /\ fdt'[q] = fdt[q] /\ task'[q] = task[q]
<1>1. pc \in [Pid -> Running \cup {"unborn", "exited"}] /\ fdt \in [Pid -> FdTable]
  BY DEF TypeInv, WorkerTypeOK
<1>2. ASSUME NEW how, Ends(p, how)
      PROVE  pc'[q] = pc[q] /\ fdt'[q] = fdt[q] /\ task'[q] = task[q]
  BY <1>1, <1>2 DEF Ends
<1>3. ASSUME NEW where, Goto(p, where) PROVE pc'[q] = pc[q]
  BY <1>1, <1>3 DEF Goto
<1>4. ASSUME Fclose(p) PROVE fdt'[q] = fdt[q]
  BY <1>1, <1>4 DEF Fclose
<1>5. CASE \/ PollGivesUp(p) \/ Crash(p) \/ BrokenPipe(p) \/ LuaWriteFails(p)
           \/ FreeLiteral(p) \/ CloseClient(p) \/ Interrupt(p) \/ OutOfMemory(p)
  BY <1>5, <1>2
     DEF PollGivesUp, Crash, BrokenPipe, LuaWriteFails, AboutToWrite,
         FreeLiteral, CloseClient, Interrupt, OutOfMemory
<1>6. CASE PollReadable(p) \/ PollOther(p) \/ InitRequest(p) \/ Fill(p) \/ RequestLine(p)
  BY <1>6, <1>3 DEF PollReadable, PollOther, InitRequest, Fill, RequestLine
<1>7. CASE NoRequestLine(p) \/ RequestLineOom(p) \/ HeadersOom(p)
  BY <1>7, <1>3, <1>4 DEF NoRequestLine, RequestLineOom, HeadersOom
<1>8. CASE Start(p) \/ HeadersDone(p) \/ OpenFile(p) \/ ReadFile(p)
  BY <1>8, <1>1, <1>3 DEF Start, HeadersDone, OpenFile, ReadFile
<1>9. CASE RejectMethod(p) \/ RunHandler(p) \/ ServeStatic(p)
  BY <1>9, <1>3 DEF RejectMethod, RunHandler, ServeStatic, Silent, Answer
<1>10. CASE ServeOom(p)
  BY <1>10, <1>2, <1>3 DEF ServeOom, Silent, Answer
<1>11. CASE Write(p) \/ Written(p) \/ FreeRequest(p)
  BY <1>11, <1>3 DEF Write, Written, FreeRequest
<1> QED
  BY <1>5, <1>6, <1>7, <1>8, <1>9, <1>10, <1>11 DEF WorkerStep

\* The table a child is forked with: the listeners, and the connection at a free number.
LEMMA InitDescriptorInv == ForkedInit => \A p \in Pid : FdInv(p)
<1> SUFFICES ASSUME ForkedInit, NEW p \in Pid
             PROVE  FdInv(p)
  OBVIOUS
<1>1. PICK owner \in [Pid -> Conn], sock \in FdNum :
        /\ IsLowestFree(ListenTable, sock)
        /\ task = [q \in Pid |-> [conn |-> owner[q], sock |-> sock]]
        /\ fdt = [q \in Pid |-> [ListenTable EXCEPT ![sock] = owner[q]]]
  BY DEF ForkedInit
<1>2. task[p].sock = sock /\ task[p].conn = owner[p] /\ pc[p] = "start"
  BY <1>1 DEF ForkedInit
<1>3. \A fd \in FdNum : fdt[p][fd] = IF fd = sock THEN owner[p] ELSE ListenTable[fd]
  BY <1>1 DEF ListenTable
<1>4. Inherited(p)
  BY <1>2, <1>3 DEF Inherited, ListenTable
<1>5. \A l \in Listener : sock # ListenFd[l]
  <2>1. ListenTable[sock] = NoFile
    BY <1>1 DEF IsLowestFree, IsFree
  <2>2. ASSUME NEW l \in Listener, ListenFd[l] = sock PROVE FALSE
    <3>1. ListenTable[sock] \in Listener
      BY <2>2 DEF ListenTable
    <3> QED
      BY <2>1, <3>1, WorkerAssumption
  <2> QED
    BY <2>2
<1> QED
  BY <1>1, <1>2, <1>4, <1>5 DEF FdInv, Forked, NotAListener

\* A child holds its connection, under one number, and no other file.
LEMMA DescriptorInvariance == WorkerSpec => []DescriptorInv
<1>1. WorkerSpec => [](\A p \in Pid : FdInv(p)) /\ []TypeInv
  <2>1. ForkedInit => \A p \in Pid : FdInv(p)
    BY InitDescriptorInv
  <2>2. TypeInv /\ (\A p \in Pid : FdInv(p)) /\ [WorkerNext]_workerVars
          => (\A p \in Pid : FdInv(p))'
    <3> SUFFICES ASSUME TypeInv, \A p \in Pid : FdInv(p), [WorkerNext]_workerVars,
                        NEW q \in Pid
                 PROVE  FdInv(q)'
      OBVIOUS
    <3>1. ASSUME NEW p \in Pid, WorkerStep(p) \/ Interrupt(p) PROVE FdInv(q)'
      BY <3>1, StepFd, StepLeavesOthers, OtherFd
    <3>2. ASSUME NEW c \in Conn, ClientStep(c) PROVE FdInv(q)'
      BY <3>2, OtherFd DEF ClientStep, SendLine, SendEnd, Shutdown, Reset, Drain, childVars
    <3>3. CASE UNCHANGED workerVars
      BY <3>3, OtherFd DEF workerVars
    <3> QED
      BY <3>1, <3>2, <3>3 DEF WorkerNext
  <2>3. WorkerSpec => []TypeInv
    BY TypeInvariance
  <2> QED
    BY <2>1, <2>2, <2>3, PTL DEF WorkerSpec
<1> QED
  BY <1>1, PTL DEF DescriptorInv

\* However many descriptors and listeners there are, and whatever fails: client_sockfd,
\* which the keep-alive loop goes on using after fclose has freed the number, never
\* comes to mean anything but the child's own connection.
THEOREM HoldsOnlyItsConnectionAlways == WorkerSpec => []HoldsOnlyItsConnection
<1>1. DescriptorInv => HoldsOnlyItsConnection
  BY DEF DescriptorInv, FdInv, Forked, OnlyItsConnection, HoldsOnlyItsConnection
<1> QED
  BY <1>1, DescriptorInvariance, PTL

\* With at least one listener, the number it leaves is enough for the one more that
\* dup and fopen need, even if the limit left the parent no other.
THEOREM RoomForDescriptorsAlways ==
  ASSUME Listener # {}
  PROVE  WorkerSpec => []RoomForDescriptors
<1>1. DescriptorInv => RoomForDescriptors
  <2> SUFFICES ASSUME DescriptorInv, NEW p \in Pid, pc[p] \in {"headers", "file"}
               PROVE  ~ IsFull(fdt[p])
    BY DEF RoomForDescriptors
  <2>1. PICK l \in Listener : TRUE
    OBVIOUS
  <2>2. /\ task[p].sock \in FdNum /\ ListenFd[l] \in FdNum
        /\ task[p].sock # ListenFd[l]
    BY WorkerAssumption DEF DescriptorInv, FdInv, NotAListener
  <2>3. OneNumber(p) /\ OnlyItsConnection(p)
    BY DEF DescriptorInv, FdInv, Forked
  <2>4. task[p].conn # StaticFile
    BY WorkerAssumption DEF DescriptorInv, TypeInv, WorkerTypeOK
  <2>5. fdt[p][task[p].sock] = NoFile \/ fdt[p][ListenFd[l]] = NoFile
    BY <2>2, <2>3, <2>4 DEF OneNumber, OnlyItsConnection
  <2> QED
    BY <2>2, <2>5 DEF IsFull, IsFree
<1> QED
  BY <1>1, DescriptorInvariance, PTL
=============================================================================

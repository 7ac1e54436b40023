---------------------------- MODULE AnswerProofs ----------------------------
(***************************************************************************)
(* What a child answers: for every set of connections, routes and files,   *)
(* every choice of faults and every length of a pipeline, the beginning of *)
(* the response to the first request its client sent, and nothing else;    *)
(* not before it is due; whole, if it ends in good order; and what it dies *)
(* of.                                                                     *)
(***************************************************************************)
EXTENDS WorkerProofs

\* The numbers a child works with, client_sockfd and the one of its request, mean its
\* connection, or the file it is reading, or nothing: never another connection, though
\* its parent may have handed some down.
OwnNumbers(p) ==
  /\ task[p].conn \in Conn /\ pc[p] # "unborn" => NotAListener(p)
  /\ Forked(p) =>
       \A fd \in {task[p].sock, req[p].cfd} :
         \/ At(p, fd) \in {NoFile, task[p].conn}
         \/ At(p, fd) = StaticFile /\ pc[p] = "read"

\* The first request line that the client of child p has sent.
First(p) == FirstLine(task[p].conn)

IsCut(l) == l.kind = "line" /\ l.cut

\* The child may write: its client has ended the header block of its first
\* request, or has gone, or the server takes the rest of a cut line for the end.
Due(p) ==
  \/ asked[task[p].conn] # << >>
  \/ peer[task[p].conn] # "open"
  \/ IsCut(First(p))

\* The empty lines on their way to the child are the ones its client has sent, but
\* for what fgets makes of a cut line.
EndsSent(p) ==
  /\ \A i \in DOMAIN inq[task[p].conn] :
       inq[task[p].conn][i] = End => asked[task[p].conn] # << >>
  /\ \A i \in DOMAIN fbuf[p] :
       fbuf[p][i] = End => asked[task[p].conn] # << >> \/ IsCut(First(p))

\* Nothing of the connection has been returned by fgets: the child still has it
\* under the number it was accepted with.
Unread(p) == fdt[p][task[p].sock] = task[p].conn /\ pc[p] # "headers"

\* The next thing fgets returns is the first thing the client sent.
NextIsFirst(p) ==
  LET c == task[p].conn IN
  /\ fbuf[p] # << >> => fbuf[p][1] = First(p)
  /\ fbuf[p] = << >> /\ inq[c] # << >> => inq[c][1] = First(p)
  /\ fbuf[p] = << >> /\ inq[c] = << >> /\ peer[c] # "rst" =>
       asked[c] = << >> /\ line[c] = NoLine

UnreadInv(p) ==
  /\ Unread(p) =>
       /\ pc[p] \in {"start", "poll", "init", "line", "process", "free", "close"}
       /\ NextIsFirst(p)
       /\ pc[p] # "line" => fbuf[p] = << >>
       /\ pc[p] \in {"process", "free"} => req[p].method = OtherMethod
       /\ wire[task[p].conn] = << >>
  /\ pc[p] \in {"start", "init", "line"} => Unread(p)
  /\ pc[p] = "line" => req[p] = NewRequest(task[p].sock)

\* The request line that has been read is the first one, or what is left of it where
\* memory runs out: its method, and its path as well.
Asks(p) ==
  /\ First(p).kind = "line"
  /\ \E h \in Heard(First(p)) : req[p].method = h.method

AsksAll(p) ==
  /\ First(p).kind = "line"
  /\ \E h \in Heard(First(p)) : req[p].method = h.method /\ req[p].path = h.kept

\* process_request has a request, and the path it was made for.
Served(p) == pc[p] \in {"process", "file", "read", "write"} /\ req[p].method # OtherMethod
Sends(p)  == Source(p) = task[p].conn

\* What a client may be sent.
Owed(p) == Answers(First(p))

AskedInv(p) ==
  /\ pc[p] = "headers" =>
       /\ AsksAll(p) /\ ~ req[p].literal
       /\ req[p].cfd = task[p].sock /\ fdt[p][task[p].sock] = task[p].conn
  /\ Served(p) => Asks(p) /\ (Sends(p) => Due(p))
  /\ Served(p) /\ pc[p] # "write" =>
       /\ ~ req[p].literal
       /\ AsksAll(p) \/ (req[p].path = NoPath /\ ~ Sends(p))
  /\ pc[p] \in {"file", "read"} => Reply(200) \in Owed(p)
  /\ pc[p] \in {"file", "read", "write"} => req[p].method # OtherMethod

Begins(w, r) == Len(w) <= Len(r) /\ \A i \in 1 .. Len(w) : w[i] = r[i]

\* What was written and what is still to be written is the beginning of an answer.
WireInv(p) ==
  LET c == task[p].conn IN
  /\ \E r \in Owed(p) :
       /\ Begins(wire[c], r)
       /\ pc[p] = "write" /\ Sends(p) /\ peer[c] # "rst" => Begins(wire[c] \o reply[p], r)
  /\ pc[p] \in {"start", "init", "line", "headers", "process", "file", "read"} =>
       wire[c] = << >>

AnswerInv(p) ==
  /\ task[p].conn \in Conn /\ pc[p] # "unborn"
  /\ EndsSent(p) /\ UnreadInv(p) /\ AskedInv(p) /\ WireInv(p)

-----------------------------------------------------------------------------
(* Facts about responses *)

\* A write moves a piece from what is left to what has been sent.
LEMMA WriteMoves ==
  ASSUME NEW w \in Seq(Piece), NEW q \in Seq(Piece), q # << >>
  PROVE  Append(w, Head(q)) \o Tail(q) = w \o q
<1>1. Head(q) \in Piece /\ Tail(q) \in Seq(Piece)
  BY HeadTailProperties
<1>2. PICK h \in Piece, t \in Seq(Piece) : h = Head(q) /\ t = Tail(q)
  BY <1>1
<1>3. << h >> \in Seq(Piece) /\ Append(w, h) = w \o << h >>
  BY AppendIsConcat
<1>4. << h >> \o t = q
  <2>1. << h >> \o t \in Seq(Piece) /\ Len(q) \in Nat /\ Len(q) # 0
    BY <1>3
  <2>2. Len(t) = Len(q) - 1 /\ \A i \in 1 .. Len(q) - 1 : t[i] = q[i + 1]
    BY <1>2, HeadTailProperties
  <2>3. h = q[1]
    BY <1>2
  <2>4. Len(<< h >> \o t) = Len(q)
    BY <1>3, <2>1, <2>2, ConcatProperties
  <2>5. ASSUME NEW i \in 1 .. Len(q) PROVE (<< h >> \o t)[i] = q[i]
    <3>1. (<< h >> \o t)[i] = IF i <= 1 THEN h ELSE t[i - 1]
      BY <1>3, <2>1, <2>2, ConcatProperties
    <3>2. i = 1 \/ i - 1 \in 1 .. Len(q) - 1
      BY <2>1
    <3> QED
      BY <2>1, <2>2, <2>3, <3>1, <3>2
  <2> QED
    BY <2>1, <2>4, <2>5, SeqEqual
<1>5. (w \o << h >>) \o t = w \o (<< h >> \o t)
  BY <1>3, ConcatAssociative
<1> QED
  BY <1>2, <1>3, <1>4, <1>5

\* What a client has sent first, if anything.
LEMMA FirstType ==
  ASSUME WorkerTypeOK, NEW p \in Pid, task[p].conn \in Conn
  PROVE  /\ First(p) \in Line \cup {NoLine}
         /\ First(p).kind = "line" => First(p) \in Request /\ First(p) # NoLine
         /\ NoLine \notin Line /\ End \notin Line /\ NoLine # End
         /\ NoLine.kind # "line" /\ End.kind # "line"
<1>1. asked[task[p].conn] \in Seq(Line) /\ line[task[p].conn] \in Line \cup {NoLine}
  BY DEF WorkerTypeOK
<1>2. First(p) \in Line \cup {NoLine}
  BY <1>1 DEF First, FirstLine
<1>3. \A l \in Line : l \in Request \/ l = Short
  BY LineAssumption
<1>4. \A l \in Line : l # NoLine /\ l # End
  BY <1>3 DEF Request, Short, NoLine, End
<1>5. /\ NoLine.kind # "line" /\ End.kind # "line" /\ Short.kind # "line"
      /\ NoLine.kind # End.kind
  BY DEF NoLine, End, Short
<1> QED
  BY <1>2, <1>3, <1>4, <1>5

\* The response to whatever it is.
LEMMA ResponseFacts ==
  /\ \A l \in Request \cup Line \cup {NoLine} : Response(l) \in Seq(Piece)
  /\ \A l : l.kind # "line" => Response(l) = << >>
  /\ \A l : l.method = OtherMethod => Response(l) = << >>
  /\ \A l \in Request : l.method \in KnownMethod =>
       /\ Outcome(l) \in {"SEGV", "ABRT"} => Response(l) = << >>
       /\ Outcome(l) = "static" =>
            Response(l) = StaticResponse(IF l.kept \in Rootish THEN Index ELSE l.kept)
       /\ Outcome(l) \notin {"SEGV", "ABRT", "static"} => Response(l) = Dynamic(Outcome(l))
<1>0. OtherMethod \notin KnownMethod
  BY DEF OtherMethod, KnownMethod
<1>1. ASSUME NEW l PROVE /\ l.kind # "line" => Response(l) = << >>
                         /\ l.method = OtherMethod => Response(l) = << >>
  BY <1>0 DEF Response
<1>2. ASSUME NEW l \in Request, l.method \in KnownMethod
      PROVE  /\ Outcome(l) \in {"SEGV", "ABRT"} => Response(l) = << >>
             /\ Outcome(l) = "static" =>
                  Response(l) = StaticResponse(IF l.kept \in Rootish THEN Index ELSE l.kept)
             /\ Outcome(l) \notin {"SEGV", "ABRT", "static"} => Response(l) = Dynamic(Outcome(l))
  <2>1. l.kind = "line" /\ l.method # OtherMethod
    BY <1>0, <1>2 DEF Request
  <2> QED
    BY <1>0, <1>2, <2>1 DEF Response
<1>3. ASSUME NEW path \in Path PROVE StaticResponse(path) \in Seq(Piece)
  <2>1. FileKind[path] \in {"missing", "notreg", "empty", "unreadable", "regular"}
    BY WorkerAssumption
  <2>2. {Reply(404), Reply(204), Reply(200), Head1(200), << >>} \subseteq Seq(Piece)
    BY ReplyTypes DEF Code
  <2> QED
    BY <2>1, <2>2 DEF StaticResponse
<1>4. ASSUME NEW l \in Request \cup Line \cup {NoLine} PROVE Response(l) \in Seq(Piece)
  <2>0. << >> \in Seq(Piece)
    OBVIOUS
  <2>1. CASE l.kind # "line" \/ l.method = OtherMethod
    BY <2>0, <2>1, <1>1, Zenon
  <2>2. CASE l.kind = "line" /\ l.method # OtherMethod
    <3>1. l \in Request /\ l.method \in KnownMethod
      BY <2>2, LineAssumption DEF Short, NoLine, Request
    <3>2. l.kept \in Path /\ Index \in Path
      BY <3>1, WorkerAssumption DEF Request
    <3>3. CASE Outcome(l) = "static"
      BY <3>1, <3>2, <3>3, <1>2, <1>3
    <3>4. CASE Outcome(l) # "static"
      BY <2>0, <3>1, <3>4, <1>2, ReplyTypes, Zenon
    <3> QED
      BY <3>3, <3>4
  <2> QED
    BY <2>1, <2>2
<1> QED
  BY <1>1, <1>2, <1>4

\* There is always one a line may get, each is a sequence of pieces, and where memory
\* lasts it is the response to the line itself.
LEMMA AnswersFacts ==
  ASSUME NEW l \in Line \cup {NoLine}
  PROVE  /\ Answers(l) \subseteq Seq(Piece) /\ Answers(l) # {}
         /\ \A h \in Heard(l) : Response(h) \in Answers(l)
         /\ "oom" \in Faults => Reply(500) \in Answers(l)
         /\ "oom" \notin Faults => Answers(l) = {Response(l)}
         /\ l.kind # "line" /\ "oom" \in Faults => Answers(l) = {<< >>, Reply(500)}
<1>1. Reply(500) \in Seq(Piece) /\ Response(l) \in Seq(Piece)
  BY ReplyTypes, ResponseFacts DEF Code
<1>2. ASSUME NEW h \in Heard(l) PROVE Response(h) \in Seq(Piece)
  <2>1. CASE l \in Request
    BY <2>1, HeardFacts, ResponseFacts
  <2>2. CASE l \notin Request
    <3>1. l.kind # "line"
      BY <2>2, LineAssumption DEF NoLine, Short
    <3> QED
      BY <1>1, <3>1 DEF Heard
  <2> QED
    BY <2>1, <2>2
<1>3. "oom" \notin Faults \/ l.kind # "line" => Heard(l) = {l}
  BY DEF Heard
<1>4. l.kind # "line" => Response(l) = << >>
  BY ResponseFacts
<1>5. \A h \in Heard(l) : Response(h) \in Answers(l)
  BY DEF Answers
<1>6. CASE "oom" \in Faults
  <2>1. Answers(l) = {Response(h) : h \in Heard(l)} \cup {Reply(500)}
    BY <1>6 DEF Answers
  <2>2. Answers(l) \subseteq Seq(Piece)
    BY <1>1, <1>2, <2>1
  <2>3. l.kind # "line" => Answers(l) = {<< >>, Reply(500)}
    BY <1>3, <1>4, <2>1
  <2> QED
    BY <1>5, <1>6, <2>1, <2>2, <2>3
<1>7. CASE "oom" \notin Faults
  <2>1. Answers(l) = {Response(l)}
    BY <1>3, <1>7 DEF Answers
  <2> QED
    BY <1>1, <1>5, <1>7, <2>1
<1> QED
  BY <1>6, <1>7

-----------------------------------------------------------------------------
(* What a step leaves alone *)

\* Nothing of child q has moved, nor of its connection.
Still(q) ==
  /\ pc'[q] = pc[q] /\ task'[q] = task[q] /\ fdt'[q] = fdt[q] /\ fbuf'[q] = fbuf[q]
  /\ req'[q] = req[q] /\ reply'[q] = reply[q] /\ status'[q] = status[q]
  /\ peer'[task[q].conn] = peer[task[q].conn] /\ line'[task[q].conn] = line[task[q].conn]
  /\ asked'[task[q].conn] = asked[task[q].conn] /\ inq'[task[q].conn] = inq[task[q].conn]
  /\ wire'[task[q].conn] = wire[task[q].conn]

\* Then all that was true of it still is.
LEMMA StillAnswers ==
  ASSUME NEW q \in Pid, AnswerInv(q), Still(q)
  PROVE  AnswerInv(q)'
<1>1. First(q)' = First(q)
  BY DEF Still, First, FirstLine
<1>2. Due(q)' = Due(q) /\ Sends(q)' = Sends(q) /\ Served(q)' = Served(q) /\ Unread(q)' = Unread(q)
  BY <1>1 DEF Still, Due, Sends, Source, At, Served, Unread
<1>3. NextIsFirst(q)' = NextIsFirst(q) /\ Asks(q)' = Asks(q) /\ AsksAll(q)' = AsksAll(q)
      /\ Owed(q)' = Owed(q)
  BY <1>1 DEF Still, NextIsFirst, Asks, AsksAll, Owed
<1>4. EndsSent(q)'
  BY <1>1 DEF Still, AnswerInv, EndsSent
<1>5. UnreadInv(q)'
  BY <1>2, <1>3 DEF Still, AnswerInv, UnreadInv
<1>6. AskedInv(q)'
  BY <1>1, <1>2, <1>3 DEF Still, AnswerInv, AskedInv
<1>7. WireInv(q)'
  BY <1>2, <1>3 DEF Still, AnswerInv, WireInv
<1> QED
  BY <1>4, <1>5, <1>6, <1>7 DEF Still, AnswerInv

\* A child on its own has nothing else.
LEMMA OwnNumbersOnly ==
  ASSUME NEW p \in Pid, FdInv(p)
  PROVE  OwnNumbers(p)
BY DEF FdInv, OwnNumbers, OnlyItsConnection, At

\* A step of a child reaches its own connection and no other: not what a client
\* does, and nothing of another child.
LEMMA StepReach ==
  ASSUME TypeInv, NEW p \in Pid, OwnNumbers(p), WorkerStep(p) \/ Interrupt(p)
  PROVE  /\ peer' = peer /\ line' = line /\ asked' = asked /\ task' = task
         /\ \A q \in Pid : q # p =>
              /\ pc'[q] = pc[q] /\ fdt'[q] = fdt[q] /\ fbuf'[q] = fbuf[q]
              /\ req'[q] = req[q] /\ reply'[q] = reply[q] /\ status'[q] = status[q]
         /\ \A d \in Conn : d # task[p].conn => inq'[d] = inq[d] /\ wire'[d] = wire[d]
<1> DEFINE c == task[p].conn
<1> DEFINE Reach ==
      /\ peer' = peer /\ line' = line /\ asked' = asked /\ task' = task
      /\ \A q \in Pid : q # p =>
           /\ pc'[q] = pc[q] /\ fdt'[q] = fdt[q] /\ fbuf'[q] = fbuf[q]
           /\ req'[q] = req[q] /\ reply'[q] = reply[q] /\ status'[q] = status[q]
      /\ \A d \in Conn : d # c => inq'[d] = inq[d] /\ wire'[d] = wire[d]
<1> SUFFICES Reach
  OBVIOUS
<1>1. /\ pc \in [Pid -> Running \cup {"unborn", "exited"}] /\ fdt \in [Pid -> FdTable]
      /\ req \in [Pid -> RequestRec]
      /\ DOMAIN fbuf = Pid /\ DOMAIN reply = Pid /\ DOMAIN status = Pid
      /\ DOMAIN inq = Conn /\ DOMAIN wire = Conn
  BY DEF TypeInv, WorkerTypeOK
<1>2. ASSUME NEW how, Ends(p, how) PROVE Reach
  BY <1>1, <1>2 DEF Ends, clientVars
<1>3. ASSUME NEW where, Goto(p, where) PROVE \A q \in Pid : q # p => pc'[q] = pc[q]
  BY <1>1, <1>3 DEF Goto
<1>4. ASSUME Fclose(p)
      PROVE  \A q \in Pid : q # p => fdt'[q] = fdt[q] /\ fbuf'[q] = fbuf[q]
  BY <1>1, <1>4 DEF Fclose
<1>5. CASE \/ PollGivesUp(p) \/ Crash(p) \/ BrokenPipe(p) \/ LuaWriteFails(p)
           \/ FreeLiteral(p) \/ CloseClient(p) \/ Interrupt(p) \/ OutOfMemory(p)
  <2>1. PICK how : Ends(p, how)
    BY <1>5
       DEF PollGivesUp, Crash, BrokenPipe, LuaWriteFails, FreeLiteral, CloseClient,
           Interrupt, OutOfMemory
  <2> QED
    BY <1>2, <2>1
<1>6. CASE PollReadable(p) \/ PollOther(p) \/ InitRequest(p) \/ RequestLine(p)
  BY <1>1, <1>6, <1>3 DEF PollReadable, PollOther, InitRequest, RequestLine, clientVars
<1>7. CASE NoRequestLine(p) \/ RequestLineOom(p) \/ HeadersOom(p)
  BY <1>1, <1>7, <1>3, <1>4 DEF NoRequestLine, RequestLineOom, HeadersOom, clientVars
<1>8. CASE Start(p) \/ HeadersDone(p) \/ OpenFile(p) \/ ReadFile(p)
  BY <1>8, <1>1, <1>3 DEF Start, HeadersDone, OpenFile, ReadFile, clientVars
<1>9. CASE RejectMethod(p) \/ RunHandler(p)
  BY <1>1, <1>9, <1>3 DEF RejectMethod, RunHandler, Silent, Answer, clientVars
<1>10. CASE ServeStatic(p)
  BY <1>1, <1>10, <1>3 DEF ServeStatic, SwapsPath, Silent, Answer, clientVars
<1>11. CASE ServeOom(p)
  BY <1>1, <1>11, <1>2, <1>3 DEF ServeOom, SwapsPath, Silent, Answer, clientVars
<1>12. CASE Written(p) \/ FreeRequest(p)
  BY <1>12, <1>3 DEF Written, FreeRequest, clientVars
<1>13. CASE Fill(p) \/ Write(p)
  <2>1. Source(p) \in Conn => Source(p) = c
    BY <1>1, <1>13, WorkerAssumption
       DEF Fill, Write, Reading, Source, OwnNumbers, Forked
  <2>2. CASE Fill(p)
    BY <1>1, <2>1, <2>2 DEF Fill
  <2>3. CASE Write(p)
    <3>1. wire' = wire \/ (Source(p) \in Conn /\ wire' = [wire EXCEPT ![c] = Append(@, Head(reply[p]))])
      BY <2>1, <2>3 DEF Write, CannotWrite
    <3>2. \A d \in Conn : d # c => wire'[d] = wire[d]
      BY <1>1, <3>1
    <3> QED
      BY <1>1, <2>3, <3>2 DEF Write
  <2> QED
    BY <1>13, <2>2, <2>3
<1> QED
  BY <1>5, <1>6, <1>7, <1>8, <1>9, <1>10, <1>11, <1>12, <1>13 DEF WorkerStep

-----------------------------------------------------------------------------
(* The client of a child *)

\* What the client sends next does not change what it has sent first, and what has
\* become of the connection stays so.
LEMMA ClientStable ==
  ASSUME WorkerTypeOK, NEW p \in Pid, task[p].conn \in Conn, ClientStep(task[p].conn)
  PROVE  /\ First(p)' = First(p) \/ (First(p) = NoLine /\ peer[task[p].conn] = "open")
         /\ asked[task[p].conn] # << >> => asked'[task[p].conn] # << >>
         /\ peer[task[p].conn] # "open" => peer'[task[p].conn] # "open"
         /\ peer[task[p].conn] = "rst" => peer'[task[p].conn] = "rst"
         /\ wire' = wire /\ childVars' = childVars
         /\ IsCut(First(p)) => IsCut(First(p))'
         /\ Due(p) => Due(p)'
<1> DEFINE c == task[p].conn
<1>1. /\ asked \in [Conn -> Seq(Line)] /\ DOMAIN peer = Conn /\ DOMAIN line = Conn
      /\ line[c] \in Line \cup {NoLine}
  BY DEF WorkerTypeOK
<1>2. wire' = wire /\ childVars' = childVars /\ task' = task
  BY DEF ClientStep, SendLine, SendEnd, Shutdown, Reset, Drain, childVars
<1>3. CASE SendLine(c)
  <2>1. asked' = asked /\ peer' = peer /\ line[c] = NoLine /\ peer[c] = "open"
    BY <1>3 DEF SendLine
  <2>2. First(p)' = First(p) \/ First(p) = NoLine
    BY <1>2, <2>1 DEF First, FirstLine
  <2>3. IsCut(First(p)) => IsCut(First(p))'
    BY <2>2, FirstType DEF IsCut
  <2> QED
    BY <1>2, <2>1, <2>2, <2>3 DEF Due
<1>4. CASE SendEnd(c)
  <2>1. PICK l \in Line : l = line[c]
    BY <1>1, <1>4 DEF SendEnd
  <2>2. asked'[c] = Append(asked[c], l) /\ peer' = peer /\ asked[c] \in Seq(Line)
    BY <1>1, <1>4, <2>1 DEF SendEnd
  <2>3. asked'[c] # << >> /\ asked'[c][1] = IF asked[c] # << >> THEN asked[c][1] ELSE l
    BY <2>2
  <2>4. First(p)' = First(p)
    BY <1>2, <2>1, <2>3 DEF First, FirstLine
  <2> QED
    BY <1>2, <2>2, <2>3, <2>4 DEF Due, IsCut
<1>5. CASE Shutdown(c) \/ Reset(c)
  <2>1. asked' = asked /\ line' = line /\ peer'[c] \in {"fin", "rst"} /\ peer[c] # "rst"
    BY <1>1, <1>5 DEF Shutdown, Reset
  <2>2. First(p)' = First(p)
    BY <1>2, <2>1 DEF First, FirstLine
  <2> QED
    BY <1>2, <2>1, <2>2 DEF Due, IsCut
<1>6. CASE Drain(c)
  <2>1. asked' = asked /\ line' = line /\ peer' = peer
    BY <1>6 DEF Drain
  <2>2. First(p)' = First(p)
    BY <1>2, <2>1 DEF First, FirstLine
  <2> QED
    BY <1>2, <2>1, <2>2 DEF Due, IsCut
<1> QED
  BY <1>3, <1>4, <1>5, <1>6 DEF ClientStep

\* What is first in a sequence that grows at its end.
LEMMA FirstOfAppend ==
  ASSUME NEW S, NEW s \in Seq(S), NEW x \in S
  PROVE  Append(s, x) # << >> /\ Append(s, x)[1] = IF s = << >> THEN x ELSE s[1]
<1>1. /\ Append(s, x) # << >> /\ Append(s, x)[Len(s) + 1] = x
      /\ \A i \in 1 .. Len(s) : Append(s, x)[i] = s[i]
  BY AppendProperties
<1>2. CASE s = << >>
  BY <1>1, <1>2
<1>3. CASE s # << >>
  <2>1. Len(s) \in Nat /\ Len(s) # 0
    BY <1>3, EmptySeq
  <2>2. 1 \in 1 .. Len(s)
    BY <2>1
  <2> QED
    BY <1>1, <1>3, <2>2
<1> QED
  BY <1>2, <1>3

\* What a client sends arrives behind what it sent before.
LEMMA ClientArrives ==
  ASSUME WorkerTypeOK, NEW p \in Pid, task[p].conn \in Conn, ClientStep(task[p].conn),
         EndsSent(p), NextIsFirst(p)
  PROVE  NextIsFirst(p)'
<1> DEFINE c == task[p].conn
<1>1. /\ inq \in [Conn -> Seq(Line \cup {End})] /\ DOMAIN asked = Conn
      /\ DOMAIN peer = Conn /\ DOMAIN line = Conn /\ line[c] \in Line \cup {NoLine}
      /\ fbuf[p] \in Seq(Line \cup {End})
  BY DEF WorkerTypeOK
<1>2. inq[c] \in Seq(Line \cup {End})
  BY <1>1
<1>3. fbuf' = fbuf /\ task' = task
  BY DEF ClientStep, SendLine, SendEnd, Shutdown, Reset, Drain, childVars
<1>4. First(p)' = First(p) \/ (First(p) = NoLine /\ peer[c] = "open")
  BY ClientStable
<1>5. /\ fbuf[p] # << >> => fbuf[p][1] \in Line \cup {End}
      /\ inq[c] # << >> => inq[c][1] \in Line \cup {End}
  BY <1>1, <1>2
<1>6. fbuf[p] # << >> \/ inq[c] # << >> => First(p) # NoLine
  BY <1>5, FirstType DEF NextIsFirst
<1>7. CASE SendLine(c)
  <2>1. PICK l \in Line : line' = [line EXCEPT ![c] = l] /\ inq' = [inq EXCEPT ![c] = Append(@, l)]
    BY <1>7 DEF SendLine
  <2>2. inq'[c] = Append(inq[c], l) /\ line'[c] = l /\ asked' = asked /\ peer' = peer
        /\ peer[c] = "open"
    BY <1>1, <1>7, <2>1 DEF SendLine
  <2>3. inq'[c] # << >> /\ inq'[c][1] = IF inq[c] = << >> THEN l ELSE inq[c][1]
    <3>1. l \in Line \cup {End}
      OBVIOUS
    <3> HIDE DEF c
    <3> QED
      BY <1>2, <2>2, <3>1, FirstOfAppend
  <2>4. inq[c] = << >> /\ fbuf[p] = << >> => First(p)' = l
    BY <1>3, <2>2 DEF NextIsFirst, First, FirstLine
  <2> HIDE DEF c
  <2> QED
    BY <1>3, <1>4, <1>6, <2>3, <2>4 DEF NextIsFirst, c
<1>8. CASE SendEnd(c)
  <2>1. inq'[c] = Append(inq[c], End) /\ line[c] # NoLine /\ peer[c] = "open"
    BY <1>1, <1>8 DEF SendEnd
  <2>2. inq'[c] # << >> /\ (inq[c] # << >> => inq'[c][1] = inq[c][1])
    <3>1. End \in Line \cup {End}
      OBVIOUS
    <3> HIDE DEF c
    <3> QED
      BY <1>2, <2>1, <3>1, FirstOfAppend
  <2>3. fbuf[p] # << >> \/ inq[c] # << >>
    BY <2>1 DEF NextIsFirst
  <2> QED
    BY <1>3, <1>4, <1>6, <2>2, <2>3 DEF NextIsFirst
<1>9. CASE Shutdown(c)
  BY <1>1, <1>3, <1>9 DEF Shutdown, NextIsFirst, First, FirstLine
<1>10. CASE Reset(c)
  <2>1. PICK n \in 0 .. Len(inq[c]) : inq' = [inq EXCEPT ![c] = SubSeq(@, 1, n)]
    BY <1>10 DEF Reset
  <2>2. inq'[c] = SubSeq(inq[c], 1, n) /\ peer'[c] = "rst" /\ asked' = asked /\ line' = line
    BY <1>1, <1>10, <2>1 DEF Reset
  <2>3. inq'[c] # << >> => inq[c] # << >> /\ inq'[c][1] = inq[c][1]
    BY <1>2, <2>1, <2>2
  <2>4. First(p)' = First(p)
    BY <1>3, <2>2 DEF First, FirstLine
  <2> QED
    BY <1>3, <2>2, <2>3, <2>4 DEF NextIsFirst
<1>11. CASE Drain(c)
  BY <1>3, <1>11 DEF Drain, NextIsFirst, First, FirstLine
<1> QED
  BY <1>7, <1>8, <1>9, <1>10, <1>11 DEF ClientStep

\* An empty line that a client sends ends a header block.
LEMMA ClientEnds ==
  ASSUME WorkerTypeOK, NEW p \in Pid, task[p].conn \in Conn, ClientStep(task[p].conn),
         EndsSent(p)
  PROVE  EndsSent(p)'
<1> DEFINE c == task[p].conn
<1>1. DOMAIN inq = Conn /\ DOMAIN asked = Conn /\ inq[c] \in Seq(Line \cup {End})
      /\ asked[c] \in Seq(Line)
  BY DEF WorkerTypeOK
<1>2. /\ asked[c] # << >> => asked'[c] # << >>
      /\ IsCut(First(p)) => IsCut(First(p))'
      /\ fbuf' = fbuf /\ task' = task
  BY ClientStable DEF childVars
<1>3. ASSUME NEW i \in DOMAIN inq'[c], inq'[c][i] = End PROVE asked'[c] # << >>
  <2>1. CASE SendLine(c)
    <3>1. PICK l \in Line : inq' = [inq EXCEPT ![c] = Append(@, l)]
      BY <2>1 DEF SendLine
    <3>2. inq'[c] = Append(inq[c], l) /\ l # End /\ asked' = asked
      BY <1>1, <2>1, <3>1, FirstType DEF SendLine
    <3>3. i \in DOMAIN inq[c] /\ inq[c][i] = End
      BY <1>1, <1>3, <3>2
    <3> QED
      BY <1>2, <3>2, <3>3 DEF EndsSent
  <2>2. CASE SendEnd(c)
    <3>1. PICK l \in Line : l = line[c]
      BY <2>2 DEF SendEnd, WorkerTypeOK
    <3>2. asked'[c] = Append(asked[c], l)
      BY <1>1, <2>2, <3>1 DEF SendEnd
    <3> QED
      BY <1>1, <3>2
  <2>3. CASE Shutdown(c)
    BY <1>2, <1>3, <2>3 DEF Shutdown, EndsSent
  <2>4. CASE Reset(c)
    <3>1. PICK n \in 0 .. Len(inq[c]) : inq' = [inq EXCEPT ![c] = SubSeq(@, 1, n)]
      BY <2>4 DEF Reset
    <3>2. inq'[c] = SubSeq(inq[c], 1, n) /\ asked' = asked
      BY <1>1, <2>4, <3>1 DEF Reset
    <3>3. i \in DOMAIN inq[c] /\ inq[c][i] = End
      BY <1>1, <1>3, <3>1, <3>2
    <3> QED
      BY <1>2, <3>2, <3>3 DEF EndsSent
  <2>5. CASE Drain(c)
    BY <1>2, <1>3, <2>5 DEF Drain, EndsSent
  <2> QED
    BY <2>1, <2>2, <2>3, <2>4, <2>5 DEF ClientStep
<1> QED
  BY <1>2, <1>3 DEF EndsSent

\* What a client does leaves the child where it was: it answers the same request.
LEMMA ClientAnswers ==
  ASSUME WorkerTypeOK, WorkerTypeOK', NEW p \in Pid, AnswerInv(p), ClientStep(task[p].conn)
  PROVE  AnswerInv(p)'
<1> DEFINE c == task[p].conn
<1>1. c \in Conn /\ pc[p] # "unborn" /\ EndsSent(p)
  BY DEF AnswerInv
<1>2. /\ First(p)' = First(p) \/ (First(p) = NoLine /\ peer[c] = "open")
      /\ peer[c] = "rst" => peer'[c] = "rst"
      /\ Due(p) => Due(p)'
      /\ wire' = wire
  BY <1>1, ClientStable
<1>3. /\ pc' = pc /\ status' = status /\ task' = task /\ fdt' = fdt /\ fbuf' = fbuf
      /\ req' = req /\ reply' = reply
  BY <1>1, ClientStable DEF childVars
<1>4. First(p).kind = "line" => First(p)' = First(p)
  BY <1>1, <1>2, FirstType
<1>5. EndsSent(p)'
  BY <1>1, ClientEnds
<1>6. UnreadInv(p)'
  <2>1. NextIsFirst(p) => NextIsFirst(p)'
    BY <1>1, ClientArrives
  <2>2. Unread(p)' = Unread(p)
    BY <1>3 DEF Unread
  <2> QED
    BY <1>2, <1>3, <2>1, <2>2 DEF AnswerInv, UnreadInv
<1>7. Sends(p)' = Sends(p) /\ Served(p)' = Served(p)
  BY <1>3 DEF Sends, Source, At, Served
<1>8. AskedInv(p)'
  <2>1. /\ Asks(p) => Asks(p)' /\ First(p)' = First(p) /\ Owed(p)' = Owed(p)
        /\ AsksAll(p) => AsksAll(p)'
    BY <1>3, <1>4 DEF Asks, AsksAll, Owed
  <2>2. pc[p] \in {"file", "read"} => Asks(p)
    BY DEF AnswerInv, AskedInv, Served
  <2> QED
    BY <1>2, <1>3, <1>7, <2>1, <2>2 DEF AnswerInv, AskedInv
<1>9. WireInv(p)'
  <2>1. CASE First(p)' = First(p)
    <3>1. Owed(p)' = Owed(p)
      BY <2>1 DEF Owed
    <3> QED
      BY <1>2, <1>3, <1>7, <3>1 DEF AnswerInv, WireInv
  <2>2. CASE First(p)' # First(p)
    <3>1. First(p) = NoLine /\ First(p).kind # "line"
      BY <1>1, <1>2, <2>2, FirstType
    <3>2. pc[p] # "write"
      BY <3>1 DEF AnswerInv, AskedInv, Served, Asks
    <3>3. PICK r \in Owed(p) : Begins(wire[c], r)
      BY DEF AnswerInv, WireInv
    <3>4. PICK f : f = First(p)'
      OBVIOUS
    <3>5. f \in Line \cup {NoLine} /\ Owed(p)' = Answers(f)
      <4>1. asked'[c] \in Seq(Line) /\ line'[c] \in Line \cup {NoLine}
        BY <1>1 DEF WorkerTypeOK
      <4> QED
        BY <1>3, <3>4, <4>1 DEF First, FirstLine, Owed
    <3>6. \E a \in Answers(f) : Begins(wire[c], a)
      <4>1. CASE "oom" \in Faults /\ r = Reply(500)
        BY <3>3, <3>5, <4>1, AnswersFacts
      <4>2. CASE ~ ("oom" \in Faults /\ r = Reply(500))
        <5>1. r = << >>
          BY <1>1, <3>1, <3>3, <4>2, FirstType, AnswersFacts, ResponseFacts DEF Owed
        <5>2. wire[c] = << >>
          BY <1>1, <3>3, <5>1 DEF Begins, WorkerTypeOK
        <5>3. PICK a \in Answers(f) : a \in Seq(Piece)
          BY <3>5, AnswersFacts
        <5> QED
          BY <5>2, <5>3 DEF Begins
      <4> QED
        BY <4>1, <4>2
    <3> QED
      BY <1>2, <1>3, <3>2, <3>5, <3>6 DEF AnswerInv, WireInv
  <2> QED
    BY <2>1, <2>2
<1> QED
  BY <1>1, <1>3, <1>5, <1>6, <1>8, <1>9 DEF AnswerInv

-----------------------------------------------------------------------------
(* The child *)

HoldsAndAnswers(p) == OwnNumbers(p) /\ AnswerInv(p)

\* A child has no part in what its client has asked for, and so none in what the
\* client is owed.
LEMMA SameRequest ==
  ASSUME TypeInv, NEW p \in Pid, OwnNumbers(p), WorkerStep(p) \/ Interrupt(p)
  PROVE  /\ task' = task /\ peer' = peer /\ asked' = asked /\ line' = line
         /\ First(p)' = First(p) /\ Due(p)' = Due(p) /\ Owed(p)' = Owed(p)
<1>1. task' = task /\ peer' = peer /\ asked' = asked /\ line' = line
  BY StepReach
<1>2. First(p)' = First(p)
  BY <1>1 DEF First, FirstLine
<1> QED
  BY <1>1, <1>2 DEF Due, Owed

\* Where the connection is: client_sockfd is a descriptor, and never a listener's.
LEMMA SockFacts ==
  ASSUME TypeInv, NEW p \in Pid, HoldsAndAnswers(p)
  PROVE  /\ task[p].sock \in FdNum /\ task[p].sock # BadFd
         /\ task[p].conn \in Conn
         /\ task[p].conn \notin {NoFile, StaticFile} \cup Listener
         /\ \A l \in Listener : task[p].sock # ListenFd[l]
         /\ Forked(p) =>
              \A fd \in {task[p].sock, req[p].cfd} :
                \/ At(p, fd) \in {NoFile, task[p].conn}
                \/ At(p, fd) = StaticFile /\ pc[p] = "read"
<1>1. task[p].conn \in Conn /\ pc[p] # "unborn"
  BY DEF HoldsAndAnswers, AnswerInv
<1>2. NotAListener(p)
  BY <1>1 DEF HoldsAndAnswers, OwnNumbers
<1>3. task[p].conn \notin {NoFile, StaticFile} \cup Listener
  BY <1>1, WorkerAssumption
<1>4. task[p].sock # BadFd
  BY <1>2, WorkerAssumption DEF NotAListener, BadFd
<1> QED
  BY <1>1, <1>2, <1>3, <1>4 DEF NotAListener, HoldsAndAnswers, OwnNumbers

\* A child that ends.
LEMMA EndsAnswers ==
  ASSUME TypeInv, NEW p \in Pid, HoldsAndAnswers(p), NEW how, Ends(p, how)
  PROVE  AnswerInv(p)'
<1>1. /\ pc'[p] = "exited" /\ fdt'[p] = Closed /\ fbuf'[p] = << >> /\ reply'[p] = << >>
      /\ task' = task /\ req' = req /\ peer' = peer /\ line' = line /\ asked' = asked
      /\ inq' = inq /\ wire' = wire
  BY DEF TypeInv, WorkerTypeOK, Ends, clientVars
<1>2. ~ Unread(p)'
  <2>1. Closed[task[p].sock] = NoFile
    BY SockFacts DEF Closed
  <2> QED
    BY <1>1, <2>1, SockFacts DEF Unread
<1>3. First(p)' = First(p) /\ Owed(p)' = Owed(p)
  BY <1>1 DEF First, FirstLine, Owed
<1>4. EndsSent(p)'
  BY <1>1, <1>3 DEF HoldsAndAnswers, AnswerInv, EndsSent
<1>5. UnreadInv(p)' /\ AskedInv(p)'
  BY <1>1, <1>2 DEF UnreadInv, AskedInv, Served
<1>6. WireInv(p)'
  BY <1>1, <1>3 DEF HoldsAndAnswers, AnswerInv, WireInv
<1> QED
  BY <1>1, <1>4, <1>5, <1>6 DEF HoldsAndAnswers, AnswerInv

\* A child that has closed the listeners has its connection where it was.
LEMMA StartAnswers ==
  ASSUME TypeInv, NEW p \in Pid, HoldsAndAnswers(p), Start(p)
  PROVE  AnswerInv(p)' /\ Unread(p)'
<1>1. /\ pc[p] = "start" /\ pc'[p] \in {"poll", "init", "close"}
      /\ fdt'[p] = WithoutListeners(fdt[p])
      /\ fbuf' = fbuf /\ req' = req /\ inq' = inq /\ wire' = wire
  BY DEF TypeInv, WorkerTypeOK, Start, Goto, NextRound, clientVars
<1>2. /\ task' = task /\ peer' = peer /\ asked' = asked /\ line' = line
      /\ First(p)' = First(p) /\ Owed(p)' = Owed(p)
  BY SameRequest DEF HoldsAndAnswers, WorkerStep
<1>3. Unread(p) /\ Unread(p)'
  <2>1. Unread(p)
    BY <1>1 DEF HoldsAndAnswers, AnswerInv, UnreadInv
  <2>2. WithoutListeners(fdt[p])[task[p].sock] = fdt[p][task[p].sock]
    BY SockFacts DEF WithoutListeners
  <2> QED
    BY <1>1, <1>2, <2>1, <2>2 DEF Unread
<1>4. NextIsFirst(p)' = NextIsFirst(p)
  BY <1>1, <1>2 DEF NextIsFirst
<1>5. EndsSent(p)'
  BY <1>1, <1>2 DEF HoldsAndAnswers, AnswerInv, EndsSent
<1>6. UnreadInv(p)'
  BY <1>1, <1>2, <1>3, <1>4 DEF HoldsAndAnswers, AnswerInv, UnreadInv
<1>7. AskedInv(p)'
  BY <1>1 DEF AskedInv, Served
<1>8. WireInv(p)'
  BY <1>1, <1>2 DEF HoldsAndAnswers, AnswerInv, WireInv
<1> QED
  BY <1>1, <1>2, <1>3, <1>5, <1>6, <1>7, <1>8 DEF HoldsAndAnswers, AnswerInv

\* poll lets a child serve only while it has its connection under client_sockfd.
LEMMA PollServes ==
  ASSUME TypeInv, NEW p \in Pid, HoldsAndAnswers(p), PollReadable(p)
  PROVE  Unread(p)
<1>1. pc[p] = "poll" /\ PollVerdict(Revents(p)) = "serve"
  BY DEF PollReadable
<1>2. At(p, task[p].sock) = fdt[p][task[p].sock] /\ fdt[p][task[p].sock] \in {NoFile, task[p].conn}
  BY <1>1, SockFacts DEF At, Forked
<1>3. ASSUME At(p, task[p].sock) = NoFile PROVE FALSE
  <2>1. Revents(p) = {"NVAL"}
    BY <1>3, SockFacts, WorkerAssumption DEF Revents
  <2>2. PollVerdict({"NVAL"}) = "pass"
    BY DEF PollVerdict, POLL_HUP, POLL_PRI, POLLRDBAND
  <2> QED
    BY <1>1, <2>1, <2>2
<1> QED
  BY <1>1, <1>2, <1>3 DEF Unread

\* The ways around the keep-alive loop.
LEMMA PassAnswers ==
  ASSUME TypeInv, NEW p \in Pid, HoldsAndAnswers(p),
         PollReadable(p) \/ PollOther(p) \/ FreeRequest(p) \/ Written(p)
  PROVE  AnswerInv(p)'
<1>1. /\ fdt' = fdt /\ fbuf' = fbuf /\ req' = req /\ inq' = inq /\ wire' = wire
      /\ \/ pc[p] = "poll" /\ pc'[p] = "init" /\ Unread(p)
         \/ pc[p] = "poll" /\ pc'[p] \in {"poll", "close"}
         \/ pc[p] = "free" /\ pc'[p] \in {"poll", "close"}
         \/ pc[p] = "write" /\ pc'[p] = "free"
  BY PollServes
     DEF TypeInv, WorkerTypeOK, PollReadable, PollOther, FreeRequest, Written, Goto,
         NextRound, clientVars
<1>2. /\ task' = task /\ peer' = peer /\ asked' = asked /\ line' = line
      /\ First(p)' = First(p) /\ Owed(p)' = Owed(p)
  BY SameRequest DEF HoldsAndAnswers, WorkerStep
<1>3. Unread(p)' = Unread(p) /\ NextIsFirst(p)' = NextIsFirst(p)
  BY <1>1, <1>2 DEF Unread, NextIsFirst
<1>4. EndsSent(p)'
  BY <1>1, <1>2 DEF HoldsAndAnswers, AnswerInv, EndsSent
<1>5. UnreadInv(p)'
  BY <1>1, <1>2, <1>3 DEF HoldsAndAnswers, AnswerInv, UnreadInv
<1>6. AskedInv(p)'
  BY <1>1 DEF AskedInv, Served
<1>7. WireInv(p)'
  BY <1>1, <1>2, <1>3 DEF HoldsAndAnswers, AnswerInv, WireInv, UnreadInv
<1> QED
  BY <1>1, <1>2, <1>4, <1>5, <1>6, <1>7 DEF HoldsAndAnswers, AnswerInv

\* A new request is about the connection the child was forked for.
LEMMA InitRequestAnswers ==
  ASSUME TypeInv, NEW p \in Pid, HoldsAndAnswers(p), InitRequest(p)
  PROVE  AnswerInv(p)'
<1>1. /\ fdt' = fdt /\ fbuf' = fbuf /\ inq' = inq /\ wire' = wire
      /\ pc[p] = "init" /\ pc'[p] \in {"line", "process"}
      /\ req'[p] = NewRequest(task[p].sock)
  BY DEF TypeInv, WorkerTypeOK, InitRequest, Goto, clientVars
<1>2. /\ task' = task /\ peer' = peer /\ asked' = asked /\ line' = line
      /\ First(p)' = First(p) /\ Owed(p)' = Owed(p)
  BY SameRequest DEF HoldsAndAnswers, WorkerStep
<1>3. Unread(p) /\ Unread(p)' /\ NextIsFirst(p)' = NextIsFirst(p)
  BY <1>1, <1>2 DEF HoldsAndAnswers, AnswerInv, UnreadInv, Unread, NextIsFirst
<1>4. EndsSent(p)'
  BY <1>1, <1>2 DEF HoldsAndAnswers, AnswerInv, EndsSent
<1>5. req'[p].method = OtherMethod
  BY <1>1 DEF NewRequest
<1>6. UnreadInv(p)'
  BY <1>1, <1>2, <1>3, <1>5 DEF HoldsAndAnswers, AnswerInv, UnreadInv
<1>7. AskedInv(p)'
  BY <1>1, <1>5 DEF AskedInv, Served
<1>8. WireInv(p)'
  BY <1>1, <1>2 DEF HoldsAndAnswers, AnswerInv, WireInv
<1> QED
  BY <1>1, <1>2, <1>4, <1>6, <1>7, <1>8 DEF HoldsAndAnswers, AnswerInv

\* Where a child reads, it reads its connection.
LEMMA ReadsConnection ==
  ASSUME TypeInv, NEW p \in Pid, HoldsAndAnswers(p), Reading(p)
  PROVE  /\ req[p].cfd = task[p].sock /\ fdt[p][task[p].sock] = task[p].conn
         /\ Source(p) = task[p].conn
<1>1. req[p].cfd = task[p].sock /\ fdt[p][task[p].sock] = task[p].conn
  BY DEF HoldsAndAnswers, AnswerInv, UnreadInv, AskedInv, Unread, Reading, NewRequest
<1> QED
  BY <1>1, SockFacts DEF Source, At

\* read(2) hands on what came first, first.
LEMMA FillAnswers ==
  ASSUME TypeInv, NEW p \in Pid, HoldsAndAnswers(p), Fill(p)
  PROVE  AnswerInv(p)'
<1> DEFINE c == task[p].conn
<1>0. pc[p] \in {"line", "headers"} /\ Source(p) = c /\ c \in Conn /\ fbuf[p] = << >>
  BY ReadsConnection, SockFacts DEF Fill, Reading
<1>1. PICK n \in 1 .. Len(inq[c]) :
        /\ fbuf' = [fbuf EXCEPT ![p] = SubSeq(inq[c], 1, n)]
        /\ inq' = [inq EXCEPT ![c] = SubSeq(@, n + 1, Len(@))]
  BY <1>0 DEF Fill
<1>2. /\ pc' = pc /\ fdt' = fdt /\ req' = req /\ wire' = wire /\ reply' = reply
  BY DEF Fill
<1>3. /\ task' = task /\ peer' = peer /\ asked' = asked /\ line' = line
      /\ First(p)' = First(p) /\ Owed(p)' = Owed(p) /\ Due(p)' = Due(p)
  BY SameRequest DEF HoldsAndAnswers, WorkerStep
<1>4. inq[c] \in Seq(Line \cup {End}) /\ DOMAIN inq = Conn /\ DOMAIN fbuf = Pid
  BY <1>0 DEF TypeInv, WorkerTypeOK
<1>5. fbuf'[p] = SubSeq(inq[c], 1, n) /\ inq'[c] = SubSeq(inq[c], n + 1, Len(inq[c]))
  BY <1>0, <1>1, <1>4
<1>6. /\ fbuf'[p] # << >> /\ fbuf'[p][1] = inq[c][1] /\ inq[c] # << >>
      /\ \A i \in DOMAIN fbuf'[p] : i \in DOMAIN inq[c] /\ fbuf'[p][i] = inq[c][i]
      /\ \A i \in DOMAIN inq'[c] : i + n \in DOMAIN inq[c] /\ inq'[c][i] = inq[c][i + n]
  <2>1. PICK b \in Seq(Line \cup {End}) : b = inq[c]
    BY <1>4
  <2>2. n \in 1 .. Len(b) /\ fbuf'[p] = SubSeq(b, 1, n) /\ inq'[c] = SubSeq(b, n + 1, Len(b))
    BY <1>1, <1>5, <2>1
  <2>3. PICK f, g : f = fbuf'[p] /\ g = inq'[c]
    OBVIOUS
  <2>4. f = SubSeq(b, 1, n) /\ g = SubSeq(b, n + 1, Len(b))
    BY <2>2, <2>3
  <2>5. /\ f # << >> /\ f[1] = b[1] /\ b # << >>
        /\ \A i \in DOMAIN f : i \in DOMAIN b /\ f[i] = b[i]
        /\ \A i \in DOMAIN g : i + n \in DOMAIN b /\ g[i] = b[i + n]
    <3>1. Len(b) \in Nat /\ DOMAIN b = 1 .. Len(b) /\ n \in Nat /\ 1 <= n /\ n <= Len(b)
      BY <2>1, <2>2
    <3>2. /\ Len(f) = n /\ DOMAIN f = 1 .. n
          /\ \A i \in 1 .. n : f[i] = b[i]
      BY <2>1, <2>2, <2>4
    <3>3. /\ DOMAIN g = 1 .. Len(b) - n
          /\ \A i \in 1 .. Len(b) - n : g[i] = b[i + n]
      BY <2>1, <2>2, <2>4
    <3> QED
      BY <3>1, <3>2, <3>3
  <2> QED
    BY <2>1, <2>3, <2>5
<1>7. EndsSent(p)'
  BY <1>3, <1>6 DEF HoldsAndAnswers, AnswerInv, EndsSent
<1>8. UnreadInv(p)'
  <2>1. Unread(p)' = Unread(p) /\ (pc[p] = "headers" => ~ Unread(p))
    BY <1>2, <1>3 DEF Unread
  <2>2. NextIsFirst(p) => NextIsFirst(p)'
    BY <1>0, <1>3, <1>6 DEF NextIsFirst
  <2> QED
    BY <1>0, <1>2, <1>3, <2>1, <2>2 DEF HoldsAndAnswers, AnswerInv, UnreadInv
<1>9. Served(p)' = Served(p) /\ Sends(p)' = Sends(p) /\ Asks(p)' = Asks(p)
      /\ AsksAll(p)' = AsksAll(p)
  BY <1>2, <1>3 DEF Served, Sends, Source, At, Asks, AsksAll
<1>10. AskedInv(p)'
  BY <1>2, <1>3, <1>9 DEF HoldsAndAnswers, AnswerInv, AskedInv
<1>11. WireInv(p)'
  BY <1>2, <1>3, <1>9 DEF HoldsAndAnswers, AnswerInv, WireInv
<1> QED
  BY <1>2, <1>3, <1>7, <1>8, <1>10, <1>11 DEF HoldsAndAnswers, AnswerInv

-----------------------------------------------------------------------------
\* parse_request leaves with the connection closed: what it has read is answered,
\* if at all, to nobody.
LEMMA FcloseAnswers ==
  ASSUME TypeInv, NEW p \in Pid, HoldsAndAnswers(p), WorkerStep(p), Reading(p),
         Fclose(p), Goto(p, "process"), inq' = inq, wire' = wire,
         req'[p].cfd = req[p].cfd, ~ req'[p].literal,
         req'[p].method # OtherMethod =>
           Asks(p)' /\ (AsksAll(p)' \/ req'[p].path = NoPath)
  PROVE  AnswerInv(p)'
<1>1. /\ fbuf'[p] = << >> /\ fdt'[p][task[p].sock] = NoFile
      /\ pc[p] \in {"line", "headers"} /\ pc'[p] = "process"
  <2>1. /\ pc'[p] = "process" /\ fbuf'[p] = << >>
        /\ fdt' = [fdt EXCEPT ![p][req[p].cfd] = NoFile] /\ fdt \in [Pid -> FdTable]
    BY DEF TypeInv, WorkerTypeOK, Goto, Fclose
  <2>2. req[p].cfd = task[p].sock /\ task[p].sock \in FdNum
    BY ReadsConnection, SockFacts
  <2> QED
    BY <2>1, <2>2 DEF Reading, FdTable
<1>2. /\ task' = task /\ peer' = peer /\ asked' = asked /\ line' = line
      /\ First(p)' = First(p) /\ Owed(p)' = Owed(p)
  BY SameRequest DEF HoldsAndAnswers
<1>3. task[p].conn # NoFile
  BY SockFacts
<1>4. ~ Unread(p)'
  BY <1>1, <1>2, <1>3 DEF Unread
<1>5. ~ Sends(p)'
  BY <1>1, <1>2, <1>3, ReadsConnection DEF Sends, Source, At
<1>6. EndsSent(p)'
  BY <1>1, <1>2 DEF HoldsAndAnswers, AnswerInv, EndsSent
<1>7. UnreadInv(p)'
  BY <1>1, <1>4 DEF UnreadInv
<1>8. AskedInv(p)'
  BY <1>1, <1>2, <1>5 DEF AskedInv, Served
<1>9. WireInv(p)'
  BY <1>1, <1>2 DEF HoldsAndAnswers, AnswerInv, WireInv
<1> QED
  BY <1>1, <1>2, <1>6, <1>7, <1>8, <1>9 DEF HoldsAndAnswers, AnswerInv

\* The line that parse_request splits is the first one the client sent.
LEMMA ReadsFirst ==
  ASSUME TypeInv, NEW p \in Pid, HoldsAndAnswers(p), pc[p] = "line", fbuf[p] # << >>
  PROVE  Head(fbuf[p]) = First(p) /\ req[p] = NewRequest(task[p].sock)
<1>1. NextIsFirst(p) /\ req[p] = NewRequest(task[p].sock)
  BY DEF HoldsAndAnswers, AnswerInv, UnreadInv
<1>2. fbuf[p] \in Seq(Line \cup {End})
  BY DEF TypeInv, WorkerTypeOK
<1> QED
  BY <1>1, <1>2 DEF NextIsFirst

\* The ways out of parse_request that close the connection.
LEMMA GivesUpAnswers ==
  ASSUME TypeInv, NEW p \in Pid, HoldsAndAnswers(p),
         NoRequestLine(p) \/ RequestLineOom(p) \/ HeadersOom(p)
  PROVE  AnswerInv(p)'
<1>1. /\ Reading(p) /\ Fclose(p) /\ Goto(p, "process") /\ inq' = inq /\ wire' = wire
      /\ WorkerStep(p)
  BY DEF NoRequestLine, RequestLineOom, HeadersOom, HeadersOver, Reading, clientVars, WorkerStep
<1>2. First(p)' = First(p)
  BY <1>1, SameRequest DEF HoldsAndAnswers
<1>3. req[p] \in RequestRec /\ DOMAIN req = Pid
  BY DEF TypeInv, WorkerTypeOK
<1>4. CASE NoRequestLine(p)
  <2>1. req' = req /\ req[p] = NewRequest(task[p].sock)
    BY <1>4 DEF NoRequestLine, HoldsAndAnswers, AnswerInv, UnreadInv
  <2>2. req[p].method = OtherMethod /\ ~ req[p].literal
    BY <2>1 DEF NewRequest
  <2> QED
    BY <1>1, <2>1, <2>2, FcloseAnswers
<1>5. CASE RequestLineOom(p)
  <2>1. Head(fbuf[p]) = First(p) /\ First(p).kind = "line" /\ req[p] = NewRequest(task[p].sock)
    BY <1>5, ReadsFirst DEF RequestLineOom
  <2>2. req[p].path = NoPath /\ ~ req[p].literal
    BY <2>1 DEF NewRequest
  <2>3. PICK h \in Heard(First(p)) : req' = [req EXCEPT ![p].method = h.method]
    BY <1>5, <2>1 DEF RequestLineOom
  <2>4. PICK m : m = h.method
    OBVIOUS
  <2>5. /\ req'[p].cfd = req[p].cfd /\ req'[p].path = NoPath /\ ~ req'[p].literal
        /\ req'[p].method = m
    <3>1. req' = [req EXCEPT ![p].method = m]
      BY <2>3, <2>4
    <3> QED
      BY <1>3, <2>2, <3>1 DEF RequestRec
  <2>6. Asks(p)'
    BY <1>2, <2>1, <2>4, <2>5 DEF Asks
  <2> QED
    BY <1>1, <2>5, <2>6, FcloseAnswers
<1>6. CASE HeadersOom(p)
  <2>1. AsksAll(p) /\ ~ req[p].literal /\ req' = req
    BY <1>6 DEF HeadersOom, HeadersOver, HoldsAndAnswers, AnswerInv, AskedInv
  <2>2. Asks(p)' /\ AsksAll(p)'
    BY <1>2, <2>1 DEF Asks, AsksAll
  <2> QED
    BY <1>1, <1>2, <2>1, <2>2, FcloseAnswers
<1> QED
  BY <1>4, <1>5, <1>6

\* A request line is followed by its headers, or by what is left of it.
LEMMA RequestLineAnswers ==
  ASSUME TypeInv, NEW p \in Pid, HoldsAndAnswers(p), RequestLine(p)
  PROVE  AnswerInv(p)'
<1> DEFINE l == Head(fbuf[p])
<1>1. /\ fdt' = fdt /\ inq' = inq /\ wire' = wire /\ fbuf[p] # << >>
      /\ pc[p] = "line" /\ pc'[p] = "headers"
  BY DEF TypeInv, WorkerTypeOK, RequestLine, Goto, clientVars
<1>2. /\ task' = task /\ peer' = peer /\ asked' = asked /\ line' = line
      /\ First(p)' = First(p) /\ Owed(p)' = Owed(p)
  BY SameRequest DEF HoldsAndAnswers, WorkerStep
<1>3. First(p) = l /\ l.kind = "line" /\ req[p] = NewRequest(task[p].sock)
  BY <1>1, ReadsFirst DEF RequestLine
<1>4. AsksAll(p)' /\ req'[p].cfd = task[p].sock /\ ~ req'[p].literal
  <2>1. req[p] \in RequestRec /\ DOMAIN req = Pid
    BY DEF TypeInv, WorkerTypeOK
  <2>2. PICK h \in Heard(First(p)) :
          req' = [req EXCEPT ![p].method = h.method, ![p].path = h.kept]
    BY <1>3 DEF RequestLine
  <2>3. PICK m, q : m = h.method /\ q = h.kept
    OBVIOUS
  <2>4. req[p].cfd = task[p].sock /\ ~ req[p].literal
    BY <1>3 DEF NewRequest
  <2>5. /\ req'[p].method = m /\ req'[p].path = q
        /\ req'[p].cfd = task[p].sock /\ ~ req'[p].literal
    <3>1. req' = [req EXCEPT ![p].method = m, ![p].path = q]
      BY <2>2, <2>3
    <3> QED
      BY <2>1, <2>4, <3>1 DEF RequestRec
  <2>6. AsksAll(p)'
    BY <1>2, <1>3, <2>3, <2>5 DEF AsksAll
  <2> QED
    BY <2>5, <2>6
<1>5. Unread(p) /\ ~ Unread(p)'
  BY <1>1, <1>2 DEF HoldsAndAnswers, AnswerInv, UnreadInv, Unread
<1>6. EndsSent(p)'
  <2>1. PICK b \in Seq(Line \cup {End}) : b = fbuf[p]
    BY DEF TypeInv, WorkerTypeOK
  <2>2. PICK o : o = Leftover(l)
    OBVIOUS
  <2>3. fbuf'[p] = o \o Tail(b)
    BY <2>1, <2>2 DEF RequestLine, TypeInv, WorkerTypeOK
  <2>4. ASSUME NEW i \in DOMAIN fbuf'[p], fbuf'[p][i] = End
        PROVE  asked[task[p].conn] # << >> \/ IsCut(First(p))
    <3>1. CASE l.cut
      BY <3>1, <1>3 DEF IsCut
    <3>2. CASE ~ l.cut
      <4>1. fbuf'[p] = Tail(b)
        BY <2>1, <2>2, <2>3, <3>2 DEF Leftover
      <4>2. i + 1 \in DOMAIN b /\ b[i + 1] = End
        BY <2>1, <2>4, <4>1, <1>1
      <4> QED
        BY <2>1, <4>2 DEF HoldsAndAnswers, AnswerInv, EndsSent
    <3> QED
      BY <3>1, <3>2
  <2> QED
    BY <1>1, <1>2, <2>4 DEF HoldsAndAnswers, AnswerInv, EndsSent
<1>7. UnreadInv(p)'
  BY <1>1, <1>5 DEF UnreadInv
<1>8. AskedInv(p)'
  BY <1>1, <1>2, <1>3, <1>4, <1>5 DEF AskedInv, Served, Unread
<1>9. WireInv(p)'
  BY <1>1, <1>2 DEF HoldsAndAnswers, AnswerInv, WireInv
<1> QED
  BY <1>1, <1>2, <1>6, <1>7, <1>8, <1>9 DEF HoldsAndAnswers, AnswerInv

\* The headers are over when the client has ended them, or is gone, or the rest of a
\* cut line has been read.
LEMMA OverWhenDue ==
  ASSUME TypeInv, NEW p \in Pid, HoldsAndAnswers(p), HeadersOver(p)
  PROVE  Due(p)
<1>1. Source(p) = task[p].conn
  BY ReadsConnection DEF HeadersOver, Reading
<1>2. CASE AtEof(p)
  BY <1>1, <1>2 DEF AtEof, Due
<1>3. CASE fbuf[p] # << >> /\ Head(fbuf[p]) = End
  <2>1. 1 \in DOMAIN fbuf[p] /\ fbuf[p][1] = End
    BY <1>3 DEF TypeInv, WorkerTypeOK
  <2> QED
    BY <2>1 DEF HoldsAndAnswers, AnswerInv, EndsSent, Due
<1> QED
  BY <1>2, <1>3 DEF HeadersOver

\* The response goes to the duplicate: of the connection.
LEMMA HeadersDoneAnswers ==
  ASSUME TypeInv, NEW p \in Pid, HoldsAndAnswers(p), HeadersDone(p)
  PROVE  AnswerInv(p)' /\ Sends(p)'
<1> DEFINE s == task[p].sock
<1> DEFINE c == task[p].conn
<1>1. /\ inq' = inq /\ wire' = wire /\ fbuf'[p] = << >>
      /\ pc[p] = "headers" /\ pc'[p] = "process" /\ HeadersOver(p)
  BY DEF TypeInv, WorkerTypeOK, HeadersDone, HeadersOver, Goto, clientVars
<1>2. /\ task' = task /\ peer' = peer /\ asked' = asked /\ line' = line
      /\ First(p)' = First(p) /\ Owed(p)' = Owed(p) /\ Due(p)' = Due(p)
  BY SameRequest DEF HoldsAndAnswers, WorkerStep
<1>3. /\ AsksAll(p) /\ ~ req[p].literal
      /\ req[p].cfd = s /\ fdt[p][s] = c
  BY <1>1 DEF HoldsAndAnswers, AnswerInv, AskedInv
<1>4. PICK new \in FdNum :
        /\ IsLowestFree(fdt[p], new)
        /\ fdt' = [fdt EXCEPT ![p][new] = Source(p), ![p][req[p].cfd] = NoFile]
        /\ req' = [req EXCEPT ![p].cfd = new]
  BY DEF HeadersDone
<1>5. /\ req'[p].method = req[p].method /\ req'[p].path = req[p].path
      /\ req'[p].literal = req[p].literal /\ req'[p].cfd = new
  BY <1>4 DEF TypeInv, WorkerTypeOK, RequestRec
<1>6. c # NoFile /\ s \in FdNum
  BY SockFacts
<1>7. fdt'[p][s] = NoFile
  BY <1>3, <1>4, <1>6 DEF TypeInv, WorkerTypeOK, FdTable
<1>8. EndsSent(p)'
  BY <1>1, <1>2 DEF HoldsAndAnswers, AnswerInv, EndsSent
<1>9. UnreadInv(p)'
  BY <1>1, <1>2, <1>6, <1>7 DEF UnreadInv, Unread
<1>10. Asks(p)' /\ AsksAll(p)' /\ Due(p)'
  BY <1>1, <1>2, <1>3, <1>5, OverWhenDue DEF Asks, AsksAll
<1>11. Sends(p)'
  <2>1. new # s
    BY <1>3, <1>4, <1>6 DEF IsLowestFree, IsFree
  <2>2. Source(p) = c
    BY <1>1, ReadsConnection DEF Reading
  <2>3. fdt'[p][new] = c
    BY <1>3, <1>4, <2>1, <2>2 DEF TypeInv, WorkerTypeOK, FdTable
  <2> QED
    BY <1>2, <1>5, <2>3 DEF Sends, Source, At
<1>12. AskedInv(p)'
  BY <1>1, <1>2, <1>3, <1>5, <1>10, <1>11 DEF AskedInv, Served
<1>13. WireInv(p)'
  BY <1>1, <1>2 DEF HoldsAndAnswers, AnswerInv, WireInv
<1> QED
  BY <1>1, <1>2, <1>8, <1>9, <1>11, <1>12, <1>13 DEF HoldsAndAnswers, AnswerInv

-----------------------------------------------------------------------------
(* process_request *)

\* What process_request looks up is what was asked for; without a path, or with the
\* connection closed, it answers nobody.
LEMMA LooksUpFirst ==
  ASSUME TypeInv, NEW p \in Pid, HoldsAndAnswers(p), Processing(p)
  PROVE  /\ First(p) \in Request /\ First(p).kind = "line" /\ Asks(p)
         /\ req[p].method \in KnownMethod /\ ~ req[p].literal /\ ~ Unread(p)
         /\ Sends(p) => Due(p) /\ AsksAll(p)
         /\ Found(p) = "static" => AsksAll(p)
         /\ AsksAll(p) => \E h \in Heard(First(p)) :
              /\ h \in Request /\ h.method \in KnownMethod
              /\ req[p].path = h.kept /\ Found(p) = Outcome(h)
<1>1. Asks(p) /\ ~ req[p].literal /\ (Sends(p) => Due(p))
      /\ (AsksAll(p) \/ (req[p].path = NoPath /\ ~ Sends(p)))
  BY DEF Processing, HoldsAndAnswers, AnswerInv, AskedInv, Served
<1>2. ~ Unread(p)
  BY DEF Processing, HoldsAndAnswers, AnswerInv, UnreadInv
<1>3. First(p) \in Request /\ First(p).kind = "line"
  BY <1>1, FirstType, SockFacts DEF Asks, TypeInv
<1>4. req[p].method \in KnownMethod
  BY DEF Processing, TypeInv, WorkerTypeOK, RequestRec
<1>5. ASSUME AsksAll(p)
      PROVE  \E h \in Heard(First(p)) :
               /\ h \in Request /\ h.method \in KnownMethod
               /\ req[p].path = h.kept /\ Found(p) = Outcome(h)
  <2>1. PICK h \in Heard(First(p)) : req[p].method = h.method /\ req[p].path = h.kept
    BY <1>5 DEF AsksAll
  <2>2. h \in Request /\ h.kept \in Path
    BY <1>3, HeardFacts DEF Request
  <2>3. Found(p) = Outcome(h)
    BY <2>1, <2>2, WorkerAssumption DEF Found, Outcome
  <2> QED
    BY <1>4, <2>1, <2>2, <2>3
<1>6. req[p].path = NoPath => Found(p) # "static"
  BY DEF Found
<1> QED
  BY <1>1, <1>2, <1>3, <1>4, <1>5, <1>6

\* It decides on an answer, the beginning of one that is owed if it goes to the client.
LEMMA AnswerAnswers ==
  ASSUME TypeInv, NEW p \in Pid, HoldsAndAnswers(p), WorkerStep(p), Processing(p),
         NEW pieces \in Seq(Piece), Answer(p, pieces),
         req'[p].cfd = req[p].cfd, req'[p].method = req[p].method,
         Sends(p) => \E r \in Owed(p) : r \in Seq(Piece) /\ Begins(pieces, r)
  PROVE  AnswerInv(p)'
<1> DEFINE c == task[p].conn
<1>1. /\ fdt' = fdt /\ fbuf' = fbuf /\ inq' = inq /\ wire' = wire
      /\ pc[p] = "process" /\ pc'[p] = "write" /\ reply'[p] = pieces
  BY DEF TypeInv, WorkerTypeOK, Answer, Goto, Processing, clientVars
<1>2. /\ task' = task /\ peer' = peer /\ asked' = asked /\ line' = line
      /\ First(p)' = First(p) /\ Owed(p)' = Owed(p) /\ Due(p)' = Due(p)
  BY SameRequest DEF HoldsAndAnswers
<1>3. Sends(p)' = Sends(p) /\ Unread(p)' = Unread(p)
  BY <1>1, <1>2 DEF Sends, Source, At, Unread
<1>4. EndsSent(p)'
  BY <1>1, <1>2 DEF HoldsAndAnswers, AnswerInv, EndsSent
<1>5. UnreadInv(p)'
  BY <1>1, <1>3, LooksUpFirst DEF UnreadInv
<1>6. AskedInv(p)'
  <2>1. Asks(p)'
    BY <1>2, LooksUpFirst DEF Asks
  <2> QED
    BY <1>1, <1>2, <1>3, <2>1, LooksUpFirst DEF AskedInv, Served, Processing
<1>7. WireInv(p)'
  <2>1. wire[c] = << >>
    BY <1>1 DEF HoldsAndAnswers, AnswerInv, WireInv
  <2>2. << >> \o pieces = pieces
    OBVIOUS
  <2>3. CASE Sends(p)
    <3>1. PICK r \in Owed(p) : r \in Seq(Piece) /\ Begins(pieces, r)
      BY <2>3
    <3>2. Begins(<< >>, r)
      BY <3>1 DEF Begins
    <3> QED
      BY <1>1, <1>2, <2>1, <2>2, <3>1, <3>2 DEF WireInv
  <2>4. CASE ~ Sends(p)
    BY <1>1, <1>2, <1>3, <2>4 DEF HoldsAndAnswers, AnswerInv, WireInv
  <2> QED
    BY <2>3, <2>4
<1> QED
  BY <1>1, <1>2, <1>4, <1>5, <1>6, <1>7 DEF HoldsAndAnswers, AnswerInv

\* It returns without one.
LEMMA SilentAnswers ==
  ASSUME TypeInv, NEW p \in Pid, HoldsAndAnswers(p), WorkerStep(p), pc[p] = "process",
         Silent(p), Processing(p) \/ req' = req
  PROVE  AnswerInv(p)'
<1>1. /\ fdt' = fdt /\ fbuf' = fbuf /\ inq' = inq /\ wire' = wire /\ pc'[p] = "free"
  BY DEF TypeInv, WorkerTypeOK, Silent, Goto, clientVars
<1>2. /\ task' = task /\ peer' = peer /\ asked' = asked /\ line' = line
      /\ First(p)' = First(p) /\ Owed(p)' = Owed(p)
  BY SameRequest DEF HoldsAndAnswers
<1>3. Unread(p)' = Unread(p) /\ NextIsFirst(p)' = NextIsFirst(p)
  BY <1>1, <1>2 DEF Unread, NextIsFirst
<1>4. EndsSent(p)'
  BY <1>1, <1>2 DEF HoldsAndAnswers, AnswerInv, EndsSent
<1>5. UnreadInv(p)'
  BY <1>1, <1>2, <1>3, LooksUpFirst DEF HoldsAndAnswers, AnswerInv, UnreadInv
<1>6. AskedInv(p)'
  BY <1>1 DEF AskedInv, Served
<1>7. WireInv(p)'
  BY <1>1, <1>2 DEF HoldsAndAnswers, AnswerInv, WireInv
<1> QED
  BY <1>1, <1>2, <1>4, <1>5, <1>6, <1>7 DEF HoldsAndAnswers, AnswerInv

\* What was looked up is among what is owed, and so is the 500 where memory may run out.
LEMMA OwedFacts ==
  ASSUME TypeInv, NEW p \in Pid, HoldsAndAnswers(p), Processing(p)
  PROVE  /\ "oom" \in Faults => Reply(500) \in Owed(p)
         /\ "oom" \notin Faults => Owed(p) = {Response(First(p))}
         /\ Sends(p) /\ Found(p) \in {"NIL", "payload", "redirect", "silent"} =>
              Dynamic(Found(p)) \in Owed(p)
         /\ Found(p) = "static" => StaticResponse(ServedPath(p)) \in Owed(p)
<1>1. First(p) \in Line \cup {NoLine}
  BY FirstType, SockFacts DEF TypeInv
<1>2. ASSUME AsksAll(p)
      PROVE  /\ Found(p) \in {"NIL", "payload", "redirect", "silent"} =>
                  Dynamic(Found(p)) \in Owed(p)
             /\ Found(p) = "static" => StaticResponse(ServedPath(p)) \in Owed(p)
  <2>1. PICK h \in Heard(First(p)) : /\ h \in Request /\ h.method \in KnownMethod
                                      /\ req[p].path = h.kept /\ Found(p) = Outcome(h)
    BY <1>2, LooksUpFirst
  <2>2. Response(h) \in Owed(p)
    BY <1>1, <2>1, AnswersFacts DEF Owed
  <2> QED
    BY <2>1, <2>2, ResponseFacts DEF ServedPath
<1> QED
  BY <1>1, <1>2, LooksUpFirst, AnswersFacts DEF Owed

\* Beginnings of the responses.
LEMMA ReplyBegins ==
  /\ \A code \in Code : Begins(Reply(code), Reply(code)) /\ Begins(Head1(code), Reply(code))
  /\ \A code \in Code : Begins(Head1(code), Head1(code))
<1> SUFFICES ASSUME NEW code \in Code
             PROVE  /\ Begins(Reply(code), Reply(code)) /\ Begins(Head1(code), Reply(code))
                    /\ Begins(Head1(code), Head1(code))
  OBVIOUS
<1>1. Reply(code) \in Seq(Piece) /\ Head1(code) \in Seq(Piece)
  BY ReplyTypes
<1>2. Len(Head1(code)) = 1 /\ Len(Reply(code)) = 3 /\ Reply(code)[1] = Head1(code)[1]
  BY DEF Head1, Reply
<1> QED
  BY <1>1, <1>2 DEF Begins

\* process_request, with a request or without one.
LEMMA ProcessAnswers ==
  ASSUME TypeInv, NEW p \in Pid, HoldsAndAnswers(p),
         RejectMethod(p) \/ RunHandler(p) \/ ServeStatic(p) \/ ServeOom(p)
  PROVE  AnswerInv(p)'
<1>0. WorkerStep(p)
  BY DEF WorkerStep
<1>1. req[p] \in RequestRec /\ DOMAIN req = Pid
  BY DEF TypeInv, WorkerTypeOK
<1>2. ASSUME SwapsPath(p)
      PROVE  req'[p].cfd = req[p].cfd /\ req'[p].method = req[p].method
  BY <1>1, <1>2 DEF SwapsPath, RequestRec
<1>3. ASSUME Processing(p), NEW pieces \in Seq(Piece), Answer(p, pieces),
             UNCHANGED req \/ SwapsPath(p),
             Sends(p) => \E r \in Owed(p) : r \in Seq(Piece) /\ Begins(pieces, r)
      PROVE  AnswerInv(p)'
  BY <1>0, <1>2, <1>3, AnswerAnswers
<1>4. ASSUME Processing(p), Silent(p) PROVE AnswerInv(p)'
  BY <1>0, <1>4, SilentAnswers DEF Processing
<1>c. {200, 204, 404, 500} \subseteq Code
  BY DEF Code
<1>5. CASE RejectMethod(p)
  BY <1>0, <1>5, SilentAnswers DEF RejectMethod
<1>6. CASE RunHandler(p)
  <2>1. /\ Processing(p) /\ Found(p) \in {"NIL", "payload", "redirect", "silent"}
        /\ Answer(p, Dynamic(Found(p))) /\ UNCHANGED req
    BY <1>6 DEF RunHandler
  <2>2. PICK d \in Seq(Piece) : d = Dynamic(Found(p))
    BY ReplyTypes
  <2>3. Begins(d, d)
    BY <2>2 DEF Begins
  <2>4. Sends(p) => \E r \in Owed(p) : r \in Seq(Piece) /\ Begins(d, r)
    BY <2>1, <2>2, <2>3, OwedFacts
  <2> QED
    BY <2>1, <2>2, <2>4, <1>3
<1>7. CASE ServeStatic(p)
  <2>1. Processing(p) /\ Found(p) = "static"
    BY <1>7 DEF ServeStatic
  <2>2. StaticResponse(ServedPath(p)) \in Owed(p)
    BY <2>1, OwedFacts
  <2>3. CASE /\ FileKind[ServedPath(p)] = "missing" /\ SwapsPath(p)
             /\ Answer(p, Reply(404))
    <3>1. Reply(404) \in Owed(p) /\ Reply(404) \in Seq(Piece)
      BY <2>2, <2>3, <1>c, ReplyTypes DEF StaticResponse
    <3> QED
      BY <1>c, <1>3, <2>1, <2>2, <2>3, <3>1, ReplyBegins
  <2>4. CASE Silent(p)
    BY <1>4, <2>1, <2>4
  <2>5. CASE /\ FileKind[ServedPath(p)] = "empty" /\ SwapsPath(p)
             /\ Answer(p, Reply(204))
    <3>1. Reply(204) \in Owed(p) /\ Reply(204) \in Seq(Piece)
      BY <2>2, <2>5, <1>c, ReplyTypes DEF StaticResponse
    <3> QED
      BY <1>c, <1>3, <2>1, <2>2, <2>5, <3>1, ReplyBegins
  <2>6. CASE /\ FileKind[ServedPath(p)] = "unreadable" /\ UNCHANGED req
             /\ Answer(p, Head1(200))
    <3>1. Head1(200) \in Owed(p) /\ Head1(200) \in Seq(Piece)
      BY <2>2, <2>6, <1>c, ReplyTypes DEF StaticResponse
    <3> QED
      BY <1>c, <1>3, <2>1, <2>2, <2>6, <3>1, ReplyBegins
  <2>7. CASE /\ FileKind[ServedPath(p)] = "regular" /\ UNCHANGED req
             /\ Goto(p, "file")
             /\ UNCHANGED <<clientVars, status, task, fdt, fbuf, left, reply>>
    <3>1. Reply(200) \in Owed(p)
      BY <2>2, <2>7 DEF StaticResponse
    <3>2. /\ fdt' = fdt /\ fbuf' = fbuf /\ inq' = inq /\ wire' = wire /\ req' = req
          /\ pc[p] = "process" /\ pc'[p] = "file"
      BY <2>1, <2>7 DEF TypeInv, WorkerTypeOK, Goto, Processing, clientVars
    <3>3. /\ task' = task /\ peer' = peer /\ asked' = asked /\ line' = line
          /\ First(p)' = First(p) /\ Owed(p)' = Owed(p) /\ Due(p)' = Due(p)
      BY <1>0, SameRequest DEF HoldsAndAnswers
    <3>4. /\ Sends(p)' = Sends(p) /\ Unread(p)' = Unread(p) /\ Asks(p)' = Asks(p)
          /\ AsksAll(p)' = AsksAll(p)
      BY <3>2, <3>3 DEF Sends, Source, At, Unread, Asks, AsksAll
    <3>5. EndsSent(p)'
      BY <3>2, <3>3 DEF HoldsAndAnswers, AnswerInv, EndsSent
    <3>6. UnreadInv(p)'
      BY <2>1, <3>2, <3>4, LooksUpFirst DEF UnreadInv
    <3>7. AskedInv(p)'
      BY <2>1, <3>1, <3>2, <3>3, <3>4
         DEF AskedInv, Served, Processing, HoldsAndAnswers, AnswerInv
    <3>8. WireInv(p)'
      BY <3>2, <3>3 DEF HoldsAndAnswers, AnswerInv, WireInv
    <3> QED
      BY <3>2, <3>3, <3>5, <3>6, <3>7, <3>8 DEF HoldsAndAnswers, AnswerInv
  <2> QED
    BY <1>7, <2>3, <2>4, <2>5, <2>6, <2>7 DEF ServeStatic
<1>8. CASE ServeOom(p)
  <2>1. "oom" \in Faults /\ Processing(p)
    BY <1>8 DEF ServeOom
  <2>2. CASE Silent(p)
    BY <1>4, <2>1, <2>2
  <2>3. CASE SwapsPath(p) /\ Answer(p, Reply(500))
    <3>1. Reply(500) \in Owed(p) /\ Reply(500) \in Seq(Piece)
      BY <1>c, <2>1, OwedFacts, ReplyTypes
    <3> QED
      BY <1>c, <1>3, <2>1, <2>3, <3>1, ReplyBegins
  <2>4. CASE Ends(p, "SIGSEGV")
    BY <2>4, EndsAnswers
  <2> QED
    BY <1>8, <2>2, <2>3, <2>4 DEF ServeOom
<1> QED
  BY <1>5, <1>6, <1>7, <1>8

-----------------------------------------------------------------------------
(* The file and the writes *)

\* A static file is opened and closed next to the connection.
LEMMA FileAnswers ==
  ASSUME TypeInv, NEW p \in Pid, HoldsAndAnswers(p), OpenFile(p) \/ ReadFile(p)
  PROVE  AnswerInv(p)'
<1> DEFINE c == task[p].conn
<1>1. /\ fbuf' = fbuf /\ inq' = inq /\ wire' = wire /\ req' = req
      /\ \/ pc[p] = "file" /\ pc'[p] = "read"
         \/ pc[p] = "read" /\ pc'[p] = "write"
  BY DEF TypeInv, WorkerTypeOK, OpenFile, ReadFile, Goto, clientVars
<1>2. /\ task' = task /\ peer' = peer /\ asked' = asked /\ line' = line
      /\ First(p)' = First(p) /\ Owed(p)' = Owed(p) /\ Due(p)' = Due(p)
  BY SameRequest DEF HoldsAndAnswers, WorkerStep
<1>3. \A fd \in FdNum : fdt'[p][fd] = fdt[p][fd] \/ fdt'[p][fd] \in {StaticFile, NoFile}
  <2>1. fdt \in [Pid -> FdTable]
    BY DEF TypeInv, WorkerTypeOK
  <2>2. CASE OpenFile(p)
    <3>1. PICK new \in FdNum : fdt' = [fdt EXCEPT ![p][new] = StaticFile]
      BY <2>2 DEF OpenFile
    <3> QED
      BY <2>1, <3>1 DEF FdTable
  <2>3. CASE ReadFile(p)
    BY <2>1, <2>3 DEF ReadFile, FdTable
  <2> QED
    BY <2>2, <2>3
<1>4. c \notin {NoFile, StaticFile} /\ task[p].sock \in FdNum
  BY SockFacts
<1>5. Sends(p)' => Sends(p)
  BY <1>1, <1>2, <1>3, <1>4 DEF Sends, Source, At
<1>6. ~ Unread(p)'
  <2>1. ~ Unread(p)
    BY <1>1 DEF HoldsAndAnswers, AnswerInv, UnreadInv
  <2> QED
    BY <1>1, <1>2, <1>3, <1>4, <2>1 DEF Unread
<1>7. EndsSent(p)'
  BY <1>1, <1>2 DEF HoldsAndAnswers, AnswerInv, EndsSent
<1>8. UnreadInv(p)'
  BY <1>1, <1>6 DEF UnreadInv
<1>9. Asks(p)' = Asks(p) /\ AsksAll(p)' = AsksAll(p)
  BY <1>1, <1>2 DEF Asks, AsksAll
<1>10. AskedInv(p)'
  BY <1>1, <1>2, <1>5, <1>9 DEF AskedInv, Served, HoldsAndAnswers, AnswerInv
<1>11. WireInv(p)'
  <2>1. wire[c] = << >> /\ \E r \in Owed(p) : Begins(wire[c], r)
    BY <1>1 DEF HoldsAndAnswers, AnswerInv, WireInv
  <2>2. CASE pc[p] = "file"
    BY <1>1, <1>2, <2>1, <2>2 DEF WireInv
  <2>3. CASE pc[p] = "read"
    <3>1. ReadFile(p) /\ 200 \in Code
      BY <2>3 DEF OpenFile, Code
    <3>2. PICK d : d = reply'[p]
      OBVIOUS
    <3>3. d \in {Reply(200), Head1(200)}
      BY <3>1, <3>2 DEF ReadFile, TypeInv, WorkerTypeOK
    <3>4. Reply(200) \in Seq(Piece) /\ Head1(200) \in Seq(Piece)
      BY <3>1, ReplyTypes
    <3>5. Begins(d, Reply(200)) /\ Begins(<< >>, Reply(200)) /\ << >> \o d = d
      BY <3>1, <3>3, <3>4, ReplyBegins DEF Begins
    <3>6. Reply(200) \in Owed(p)
      BY <1>1, <2>3 DEF HoldsAndAnswers, AnswerInv, AskedInv
    <3> QED
      BY <1>1, <1>2, <2>1, <2>3, <3>2, <3>5, <3>6 DEF WireInv
  <2> QED
    BY <1>1, <2>2, <2>3
<1> QED
  BY <1>1, <1>2, <1>7, <1>8, <1>10, <1>11 DEF HoldsAndAnswers, AnswerInv

\* A piece that is written was the next of those to be written; if it goes out, the
\* child may answer.
LEMMA WriteReaches ==
  ASSUME TypeInv, NEW p \in Pid, HoldsAndAnswers(p), Write(p)
  PROVE  \/ wire' = wire
         \/ /\ Sends(p) /\ peer[task[p].conn] # "rst" /\ Due(p)
            /\ wire' = [wire EXCEPT ![task[p].conn] = Append(@, Head(reply[p]))]
<1>1. pc[p] = "write" /\ Source(p) \in {NoFile, StaticFile, task[p].conn}
  BY SockFacts DEF Write, Forked, Source
<1>2. Source(p) \in Conn => Source(p) = task[p].conn
  BY <1>1, WorkerAssumption
<1>3. Sends(p) => Due(p)
  BY <1>1 DEF HoldsAndAnswers, AnswerInv, AskedInv, Served
<1> QED
  BY <1>2, <1>3 DEF Write, CannotWrite, Sends

\* So what has been written and what is still to be written are together what they were.
LEMMA WriteAnswers ==
  ASSUME TypeInv, NEW p \in Pid, HoldsAndAnswers(p), Write(p)
  PROVE  AnswerInv(p)'
<1> DEFINE c == task[p].conn
<1>1. /\ pc' = pc /\ fdt' = fdt /\ fbuf' = fbuf /\ inq' = inq /\ req' = req
      /\ pc[p] = "write" /\ reply[p] # << >>
  BY DEF Write
<1>2. /\ task' = task /\ peer' = peer /\ asked' = asked /\ line' = line
      /\ First(p)' = First(p) /\ Owed(p)' = Owed(p) /\ Due(p)' = Due(p)
  BY SameRequest DEF HoldsAndAnswers, WorkerStep
<1>3. Sends(p)' = Sends(p) /\ Unread(p)' = Unread(p) /\ Asks(p)' = Asks(p)
  BY <1>1, <1>2 DEF Sends, Source, At, Unread, Asks
<1>4. EndsSent(p)'
  BY <1>1, <1>2 DEF HoldsAndAnswers, AnswerInv, EndsSent
<1>5. UnreadInv(p)'
  BY <1>1, <1>3 DEF HoldsAndAnswers, AnswerInv, UnreadInv
<1>6. AskedInv(p)'
  BY <1>1, <1>2, <1>3 DEF HoldsAndAnswers, AnswerInv, AskedInv, Served
<1>7. WireInv(p)'
  <2>1. PICK r \in Owed(p) :
          /\ Begins(wire[c], r)
          /\ Sends(p) /\ peer[c] # "rst" => Begins(wire[c] \o reply[p], r)
    BY <1>1 DEF HoldsAndAnswers, AnswerInv, WireInv
  <2>2. PICK w, q : w = wire[c] /\ q = reply[p]
    OBVIOUS
  <2>3. /\ w \in Seq(Piece) /\ q \in Seq(Piece) /\ q # << >>
        /\ reply'[p] = Tail(q)
    BY <1>1, <2>2, SockFacts DEF TypeInv, WorkerTypeOK, Write
  <2>4. CASE Sends(p) /\ peer[c] # "rst"
    <3>1. wire' = [wire EXCEPT ![c] = Append(@, Head(reply[p]))]
      BY <2>4, SockFacts DEF Write, CannotWrite, CutShort, Sends
    <3>2. wire'[c] = Append(w, Head(q))
      BY <2>2, <3>1, SockFacts DEF TypeInv, WorkerTypeOK
    <3>3. Begins(w \o q, r)
      BY <2>1, <2>2, <2>4
    <3>4. Append(w, Head(q)) \o Tail(q) = w \o q
      BY <2>3, WriteMoves
    <3>5. Begins(wire'[c] \o reply'[p], r)
      BY <2>3, <3>2, <3>3, <3>4
    <3>6. Begins(wire'[c], r)
      <4>1. Len(Append(w, Head(q))) <= Len(w \o q)
            /\ \A i \in 1 .. Len(Append(w, Head(q))) : Append(w, Head(q))[i] = (w \o q)[i]
        BY <2>3
      <4>2. Len(Append(w, Head(q))) \in Nat /\ Len(w \o q) \in Nat
        BY <2>3
      <4> QED
        BY <3>2, <3>3, <4>1, <4>2 DEF Begins
    <3> QED
      BY <1>1, <1>2, <2>1, <3>5, <3>6 DEF WireInv
  <2>5. CASE ~ (Sends(p) /\ peer[c] # "rst")
    <3>1. wire' = wire
      BY <2>5, WriteReaches
    <3> QED
      BY <1>1, <1>2, <1>3, <2>1, <2>5, <3>1 DEF WireInv
  <2> QED
    BY <2>4, <2>5
<1> QED
  BY <1>1, <1>2, <1>4, <1>5, <1>6, <1>7 DEF HoldsAndAnswers, AnswerInv

-----------------------------------------------------------------------------
\* Every step of a child.
LEMMA StepAnswers ==
  ASSUME TypeInv, NEW p \in Pid, HoldsAndAnswers(p), WorkerStep(p) \/ Interrupt(p)
  PROVE  AnswerInv(p)'
<1>1. ASSUME NEW how, Ends(p, how) PROVE AnswerInv(p)'
  BY <1>1, EndsAnswers
<1>2. CASE \/ PollGivesUp(p) \/ Crash(p) \/ BrokenPipe(p) \/ LuaWriteFails(p)
           \/ FreeLiteral(p) \/ CloseClient(p) \/ Interrupt(p) \/ OutOfMemory(p)
  BY <1>1, <1>2
     DEF PollGivesUp, Crash, BrokenPipe, LuaWriteFails, FreeLiteral, CloseClient,
         Interrupt, OutOfMemory
<1> QED
  BY <1>2, StartAnswers, PassAnswers, InitRequestAnswers, FillAnswers, GivesUpAnswers,
     RequestLineAnswers, HeadersDoneAnswers, ProcessAnswers, FileAnswers, WriteAnswers
     DEF WorkerStep

-----------------------------------------------------------------------------
\* A connection that no child was forked for hears nothing, and one that a child was
\* forked for has no other.
Unowned  == \A c \in Conn : (\A p \in Pid : task[p].conn # c) => wire[c] = << >>
OneOwner == \A p, q \in Pid : task[p].conn = task[q].conn => p = q

AnswersInv ==
  /\ DescriptorInv
  /\ \A p \in Pid : AnswerInv(p)
  /\ Unowned /\ OneOwner

\* A child begins with everything unread.
LEMMA InitAnswers == ForkedInit => (\A p \in Pid : AnswerInv(p)) /\ Unowned /\ OneOwner
<1> SUFFICES ASSUME ForkedInit
             PROVE  (\A p \in Pid : AnswerInv(p)) /\ Unowned /\ OneOwner
  OBVIOUS
<1>1. PICK owner \in [Pid -> Conn], sock \in FdNum :
        /\ \A p, q \in Pid : owner[p] = owner[q] => p = q
        /\ task = [p \in Pid |-> [conn |-> owner[p], sock |-> sock]]
        /\ fdt = [p \in Pid |-> [ListenTable EXCEPT ![sock] = owner[p]]]
  BY DEF ForkedInit
<1>2. ASSUME NEW p \in Pid PROVE AnswerInv(p)
  <2>1. /\ task[p].conn = owner[p] /\ task[p].sock = sock /\ owner[p] \in Conn
        /\ fdt[p][sock] = owner[p]
    BY <1>1 DEF ListenTable
  <2>2. /\ pc[p] = "start" /\ fbuf[p] = << >> /\ inq[owner[p]] = << >>
        /\ asked[owner[p]] = << >> /\ line[owner[p]] = NoLine /\ wire[owner[p]] = << >>
    BY <2>1 DEF ForkedInit, WorkerInit
  <2>3. Unread(p) /\ NextIsFirst(p) /\ EndsSent(p)
    BY <2>1, <2>2 DEF Unread, NextIsFirst, EndsSent
  <2>4. UnreadInv(p) /\ AskedInv(p)
    BY <2>1, <2>2, <2>3 DEF UnreadInv, AskedInv, Served
  <2>5. WireInv(p)
    <3>1. First(p) = NoLine
      BY <2>1, <2>2 DEF First, FirstLine
    <3>2. PICK r \in Owed(p) : r \in Seq(Piece)
      BY <3>1, AnswersFacts DEF Owed
    <3>3. Begins(<< >>, r)
      BY <3>2 DEF Begins
    <3> QED
      BY <2>1, <2>2, <3>3 DEF WireInv
  <2> QED
    BY <2>1, <2>2, <2>3, <2>4, <2>5 DEF AnswerInv
<1>3. Unowned /\ OneOwner
  BY <1>1 DEF ForkedInit, WorkerInit, Unowned, OneOwner
<1> QED
  BY <1>2, <1>3

\* Children, clients and stuttering: a step of one child leaves the others as they were,
\* because each has a connection to itself.
LEMMA NextAnswers ==
  ASSUME AnswersInv, DescriptorInv', [WorkerNext]_workerVars
  PROVE  (\A p \in Pid : AnswerInv(p))' /\ Unowned' /\ OneOwner'
<1>1. TypeInv /\ WorkerTypeOK' /\ \A p \in Pid : HoldsAndAnswers(p)
  BY OwnNumbersOnly DEF AnswersInv, DescriptorInv, TypeInv, HoldsAndAnswers
<1>2. ASSUME NEW p \in Pid, WorkerStep(p) \/ Interrupt(p)
      PROVE  (\A q \in Pid : AnswerInv(q)') /\ Unowned' /\ OneOwner'
  <2>1. /\ peer' = peer /\ line' = line /\ asked' = asked /\ task' = task
        /\ \A q \in Pid : q # p =>
             /\ pc'[q] = pc[q] /\ fdt'[q] = fdt[q] /\ fbuf'[q] = fbuf[q]
             /\ req'[q] = req[q] /\ reply'[q] = reply[q] /\ status'[q] = status[q]
        /\ \A d \in Conn : d # task[p].conn => inq'[d] = inq[d] /\ wire'[d] = wire[d]
    BY <1>1, <1>2, StepReach DEF HoldsAndAnswers
  <2>2. AnswerInv(p)'
    BY <1>1, <1>2, StepAnswers
  <2>3. ASSUME NEW q \in Pid, q # p PROVE AnswerInv(q)'
    <3>1. task[q].conn \in Conn /\ task[q].conn # task[p].conn
      BY <1>1, <2>3 DEF AnswersInv, OneOwner, HoldsAndAnswers, AnswerInv
    <3>2. Still(q)
      BY <2>1, <2>3, <3>1 DEF Still
    <3> QED
      BY <3>2, StillAnswers DEF AnswersInv
  <2>4. Unowned' /\ OneOwner'
    BY <2>1 DEF AnswersInv, Unowned, OneOwner
  <2> QED
    BY <2>2, <2>3, <2>4
<1>3. ASSUME NEW c \in Conn, ClientStep(c)
      PROVE  (\A q \in Pid : AnswerInv(q)') /\ Unowned' /\ OneOwner'
  <2>1. /\ childVars' = childVars /\ wire' = wire
        /\ \A d \in Conn : d # c =>
             /\ peer'[d] = peer[d] /\ line'[d] = line[d] /\ asked'[d] = asked[d]
             /\ inq'[d] = inq[d]
    BY <1>1, <1>3
       DEF ClientStep, SendLine, SendEnd, Shutdown, Reset, Drain, TypeInv, WorkerTypeOK
  <2>2. ASSUME NEW q \in Pid PROVE AnswerInv(q)'
    <3>1. CASE task[q].conn = c
      BY <1>1, <1>3, <3>1, ClientAnswers DEF AnswersInv, TypeInv
    <3>2. CASE task[q].conn # c
      <4>1. task[q].conn \in Conn
        BY DEF AnswersInv, AnswerInv
      <4>2. Still(q)
        BY <2>1, <3>2, <4>1 DEF Still, childVars
      <4> QED
        BY <4>2, StillAnswers DEF AnswersInv
    <3> QED
      BY <3>1, <3>2
  <2>3. Unowned' /\ OneOwner'
    BY <2>1 DEF AnswersInv, Unowned, OneOwner, childVars
  <2> QED
    BY <2>2, <2>3
<1>4. CASE UNCHANGED workerVars
  <2>1. ASSUME NEW q \in Pid PROVE AnswerInv(q)'
    <3>1. Still(q)
      BY <1>4 DEF Still, workerVars
    <3> QED
      BY <3>1, StillAnswers DEF AnswersInv
  <2> QED
    BY <1>4, <2>1 DEF AnswersInv, Unowned, OneOwner, workerVars
<1> QED
  BY <1>2, <1>3, <1>4 DEF WorkerNext

\* The strengthened invariant, for every behaviour of the children and their clients.
LEMMA AnswersInvariance == WorkerSpec => []AnswersInv
<1> DEFINE AllAnswer == (\A p \in Pid : AnswerInv(p)) /\ Unowned /\ OneOwner
<1>1. ForkedInit => AllAnswer
  BY InitAnswers
<1>2. DescriptorInv /\ DescriptorInv' /\ AllAnswer /\ [WorkerNext]_workerVars => AllAnswer'
  BY NextAnswers DEF AnswersInv
<1>3. WorkerSpec => []DescriptorInv
  BY DescriptorInvariance
<1>4. DescriptorInv /\ AllAnswer => AnswersInv
  BY DEF AnswersInv
<1> HIDE DEF AllAnswer
<1> QED
  BY <1>1, <1>2, <1>3, <1>4, PTL DEF WorkerSpec

\* To begin a response is to be the first pieces of it.
LEMMA BeginsIsPrefix ==
  ASSUME NEW w \in Seq(Piece), NEW r \in Seq(Piece), Begins(w, r)
  PROVE  Len(w) <= Len(r) /\ w = SubSeq(r, 1, Len(w))
<1>1. Len(w) <= Len(r) /\ \A i \in 1 .. Len(w) : w[i] = r[i]
  BY DEF Begins
<1>2. Len(w) \in Nat /\ Len(r) \in Nat
  OBVIOUS
<1>3. Len(SubSeq(r, 1, Len(w))) = Len(w) /\ SubSeq(r, 1, Len(w)) \in Seq(Piece)
  BY <1>1, <1>2
<1>4. \A i \in 1 .. Len(w) : SubSeq(r, 1, Len(w))[i] = r[i]
  BY <1>1, <1>2
<1> QED
  BY <1>1, <1>3, <1>4, SeqEqual

\* Whatever its client pipelines and whatever fails on the way, a client receives the
\* beginning of the response to the first request it sent, as far as the buffer of the
\* request line keeps it, and nothing after it; where memory runs out, of the response
\* to what is left of its words, or of the 500.
THEOREM AnswersFirstRequestAlways == WorkerSpec => []AnswersFirstRequest
<1>1. AnswersInv => AnswersFirstRequest
  <2> SUFFICES ASSUME AnswersInv, NEW c \in Conn
               PROVE  \E r \in Answers(FirstLine(c)) :
                        Len(wire[c]) <= Len(r) /\ wire[c] = SubSeq(r, 1, Len(wire[c]))
    BY DEF AnswersFirstRequest
  <2>1. wire[c] \in Seq(Piece) /\ asked[c] \in Seq(Line) /\ line[c] \in Line \cup {NoLine}
    BY DEF AnswersInv, DescriptorInv, TypeInv, WorkerTypeOK
  <2>2. FirstLine(c) \in Line \cup {NoLine}
    BY <2>1 DEF FirstLine
  <2>3. Answers(FirstLine(c)) \subseteq Seq(Piece) /\ Answers(FirstLine(c)) # {}
    BY <2>2, AnswersFacts
  <2>4. PICK r \in Answers(FirstLine(c)) : Begins(wire[c], r)
    <3>1. CASE \E p \in Pid : task[p].conn = c
      <4>1. PICK p \in Pid : task[p].conn = c
        BY <3>1
      <4>2. \E r \in Owed(p) : Begins(wire[c], r)
        BY <4>1 DEF AnswersInv, AnswerInv, WireInv
      <4> QED
        BY <4>1, <4>2 DEF Owed, First
    <3>2. CASE \A p \in Pid : task[p].conn # c
      <4>1. wire[c] = << >>
        BY <3>2 DEF AnswersInv, Unowned
      <4>2. PICK r \in Answers(FirstLine(c)) : r \in Seq(Piece)
        BY <2>3
      <4> QED
        BY <4>1, <4>2 DEF Begins
    <3> QED
      BY <3>1, <3>2
  <2>5. r \in Seq(Piece)
    BY <2>3, <2>4
  <2> QED
    BY <2>1, <2>4, <2>5, BeginsIsPrefix
<1> QED
  BY <1>1, AnswersInvariance, PTL

\* A child writes to its own client only, and only when its answer is due.
LEMMA WritesWhenDue ==
  ASSUME TypeInv, NEW p \in Pid, HoldsAndAnswers(p), WorkerStep(p) \/ Interrupt(p),
         NEW c \in Conn, wire'[c] # wire[c]
  PROVE  \/ asked[c] # << >> \/ peer[c] # "open"
         \/ line[c].kind = "line" /\ line[c].cut
<1>1. \A how : Ends(p, how) => wire' = wire
  BY DEF Ends, clientVars
<1>2. Write(p)
  <2>1. ~ (\/ PollGivesUp(p) \/ Crash(p) \/ BrokenPipe(p) \/ LuaWriteFails(p)
           \/ FreeLiteral(p) \/ CloseClient(p) \/ Interrupt(p) \/ OutOfMemory(p))
    BY <1>1
       DEF PollGivesUp, Crash, BrokenPipe, LuaWriteFails, FreeLiteral, CloseClient,
           Interrupt, OutOfMemory
  <2>2. ~ (\/ Start(p) \/ PollReadable(p) \/ PollOther(p) \/ InitRequest(p) \/ Fill(p)
           \/ NoRequestLine(p) \/ RequestLine(p) \/ RequestLineOom(p) \/ HeadersDone(p)
           \/ HeadersOom(p) \/ OpenFile(p) \/ ReadFile(p) \/ Written(p) \/ FreeRequest(p))
    BY DEF Start, PollReadable, PollOther, InitRequest, Fill, NoRequestLine, RequestLine,
           RequestLineOom, HeadersDone, HeadersOom, OpenFile, ReadFile, Written,
           FreeRequest, clientVars
  <2>3. ~ (RejectMethod(p) \/ RunHandler(p) \/ ServeStatic(p) \/ ServeOom(p))
    BY <1>1
       DEF RejectMethod, RunHandler, ServeStatic, ServeOom, Answer, Silent, clientVars
  <2> QED
    BY <2>1, <2>2, <2>3 DEF WorkerStep
<1>3. Due(p) /\ wire' = [wire EXCEPT ![task[p].conn] = Append(@, Head(reply[p]))]
  BY <1>2, WriteReaches
<1>4. task[p].conn = c
  BY <1>3 DEF TypeInv, WorkerTypeOK
<1> QED
  BY <1>3, <1>4 DEF Due, IsCut, First, FirstLine

\* And no byte of it leaves before the client has ended its first header block, or has
\* gone, but for a cut line.
THEOREM NoEarlyAnswerAlways == WorkerSpec => NoEarlyAnswer
<1> DEFINE Early == \A c \in Conn : wire'[c] # wire[c] =>
                      \/ asked[c] # << >> \/ peer[c] # "open"
                      \/ line[c].kind = "line" /\ line[c].cut
<1>1. AnswersInv /\ [WorkerNext]_workerVars => [Early]_workerVars
  <2> SUFFICES ASSUME AnswersInv, WorkerNext, NEW c \in Conn, wire'[c] # wire[c]
               PROVE  \/ asked[c] # << >> \/ peer[c] # "open"
                      \/ line[c].kind = "line" /\ line[c].cut
    OBVIOUS
  <2>1. PICK p \in Pid : WorkerStep(p) \/ Interrupt(p)
    BY DEF WorkerNext, ClientStep, SendLine, SendEnd, Shutdown, Reset, Drain
  <2>2. TypeInv /\ HoldsAndAnswers(p)
    BY OwnNumbersOnly DEF AnswersInv, DescriptorInv, HoldsAndAnswers
  <2> QED
    BY <2>1, <2>2, WritesWhenDue
<1> QED
  BY <1>1, AnswersInvariance, PTL DEF WorkerSpec, NoEarlyAnswer

-----------------------------------------------------------------------------
(* Why a child dies.  Without failed allocations it always has a path to look up, *)
(* and writes to its connection.                                                  *)

\* What may kill a child: the first request, or a handler that writes to a client
\* that has aborted.
Cause(p) ==
  \/ Deadly(First(p))
  \/ /\ peer[task[p].conn] = "rst"
     /\ First(p).kind = "line" /\ Outcome(First(p)) \in {"redirect", "silent"}

CauseInv(p) ==
  /\ req[p].literal => Deadly(First(p))
  /\ Served(p) => Sends(p) /\ (~ req[p].literal => req[p].path = First(p).kept)
  /\ status[p] \in {"SIGSEGV", "SIGABRT"} => Cause(p)

\* With its own path, a request is looked up as its client sent it.
LEMMA FindsOutcome ==
  ASSUME "oom" \notin Faults, TypeInv, NEW p \in Pid, HoldsAndAnswers(p), CauseInv(p), Served(p), ~ req[p].literal
  PROVE  /\ First(p).kind = "line" /\ First(p).method \in KnownMethod
         /\ Found(p) = Outcome(First(p)) /\ Sends(p) /\ req[p].path = First(p).kept
<1>1. Asks(p) /\ Sends(p) /\ req[p].path = First(p).kept
  BY DEF HoldsAndAnswers, AnswerInv, AskedInv, CauseInv
<1>2. First(p) \in Request
  BY <1>1, FirstType, SockFacts DEF Asks, TypeInv
<1>3. req[p].method = First(p).method
  BY <1>1, <1>2, HeardFacts DEF Asks
<1>4. First(p).method \in KnownMethod /\ First(p).kept \in Path
  BY <1>2, <1>3 DEF Served, Request
<1> QED
  BY <1>1, <1>3, <1>4, WorkerAssumption DEF Asks, Found, Outcome

\* The signals a child brings upon itself have a cause.
LEMMA EndsForCause ==
  ASSUME "oom" \notin Faults, TypeInv, NEW p \in Pid, HoldsAndAnswers(p), CauseInv(p),
         NEW how, Ends(p, how),
         \/ PollGivesUp(p) \/ Crash(p) \/ BrokenPipe(p) \/ LuaWriteFails(p)
         \/ FreeLiteral(p) \/ CloseClient(p) \/ Interrupt(p) \/ OutOfMemory(p)
  PROVE  CauseInv(p)'
<1>1. /\ pc'[p] = "exited" /\ status'[p] = how /\ req' = req
      /\ task' = task /\ peer' = peer /\ asked' = asked /\ line' = line
      /\ \A h : Ends(p, h) => h = how
  BY DEF TypeInv, WorkerTypeOK, Ends, clientVars
<1>2. First(p)' = First(p)
  BY <1>1 DEF First, FirstLine
<1>3. Cause(p)' = Cause(p) /\ ~ Served(p)'
  BY <1>1, <1>2 DEF Cause, Served
<1>4. ASSUME how \in {"SIGSEGV", "SIGABRT"} PROVE Cause(p)
  <2>1. CASE Crash(p)
    <3>1. /\ Served(p) /\ ~ req[p].literal
          /\ \/ Found(p) \in {"SEGV", "ABRT"}
             \/ Found(p) = "static" /\ req[p].path \in Directive
      BY <2>1 DEF Crash, Processing, Served, HoldsAndAnswers, AnswerInv, AskedInv
    <3> QED
      BY <3>1, FindsOutcome DEF Cause, Deadly
  <2>2. CASE LuaWriteFails(p)
    <3>1. Served(p)
      BY <2>2 DEF LuaWriteFails, AboutToWrite, Processing, Served, HoldsAndAnswers, AnswerInv,
                  AskedInv
    <3>2. ~ req[p].literal /\ Found(p) \in {"redirect", "silent"} /\ CannotWrite(p)
      BY <2>2 DEF LuaWriteFails, LuaWrites
    <3>3. peer[task[p].conn] = "rst"
      BY <3>1, <3>2, FindsOutcome, SockFacts DEF CannotWrite, Sends
    <3> QED
      BY <3>1, <3>2, <3>3, FindsOutcome DEF Cause
  <2>3. CASE FreeLiteral(p)
    BY <2>3 DEF FreeLiteral, CauseInv, Cause
  <2>4. ~ (PollGivesUp(p) \/ BrokenPipe(p) \/ CloseClient(p) \/ Interrupt(p) \/ OutOfMemory(p))
    BY <1>1, <1>4 DEF PollGivesUp, BrokenPipe, CloseClient, Interrupt, OutOfMemory
  <2> QED
    BY <2>1, <2>2, <2>3, <2>4
<1> QED
  BY <1>1, <1>2, <1>3, <1>4 DEF CauseInv

\* A step after which nothing is served.
LEMMA UnservedCause ==
  ASSUME TypeInv, NEW p \in Pid, HoldsAndAnswers(p), CauseInv(p), WorkerStep(p),
         status' = status, ~ Served(p)', req'[p].literal => Deadly(First(p))
  PROVE  CauseInv(p)'
<1>1. task' = task /\ peer' = peer /\ First(p)' = First(p)
  BY SameRequest DEF HoldsAndAnswers
<1>2. Cause(p)' = Cause(p)
  BY <1>1 DEF Cause
<1> QED
  BY <1>1, <1>2 DEF CauseInv

\* A step after which something is.
LEMMA ServedCause ==
  ASSUME TypeInv, NEW p \in Pid, HoldsAndAnswers(p), CauseInv(p), WorkerStep(p),
         status' = status, Sends(p)',
         req'[p].literal => Deadly(First(p)),
         ~ req'[p].literal => req'[p].path = First(p).kept
  PROVE  CauseInv(p)'
<1>1. task' = task /\ peer' = peer /\ First(p)' = First(p)
  BY SameRequest DEF HoldsAndAnswers
<1>2. Cause(p)' = Cause(p)
  BY <1>1 DEF Cause
<1> QED
  BY <1>1, <1>2 DEF CauseInv

\* process_request leaves a literal behind only for a deadly request.
LEMMA ProcessCause ==
  ASSUME "oom" \notin Faults, TypeInv, NEW p \in Pid, HoldsAndAnswers(p), CauseInv(p),
         RunHandler(p) \/ ServeStatic(p)
  PROVE  CauseInv(p)'
<1>1. /\ WorkerStep(p) /\ status' = status /\ fdt' = fdt /\ pc[p] = "process" /\ Processing(p)
      /\ req[p] \in RequestRec /\ DOMAIN req = Pid
  BY DEF WorkerStep, RunHandler, ServeStatic, Processing, Answer, Silent, TypeInv, WorkerTypeOK
<1>2. Served(p) /\ ~ req[p].literal /\ req[p].path = First(p).kept /\ Sends(p)
  BY <1>1 DEF Served, Processing, CauseInv, HoldsAndAnswers, AnswerInv, AskedInv
<1>3. /\ First(p).kind = "line" /\ First(p).method \in KnownMethod
      /\ Found(p) = Outcome(First(p))
  BY <1>2, FindsOutcome
<1>4. task' = task /\ First(p)' = First(p)
  BY <1>1, SameRequest DEF HoldsAndAnswers
<1>5. ASSUME req' = req PROVE CauseInv(p)'
  <2>1. Sends(p)'
    BY <1>1, <1>2, <1>4, <1>5 DEF Sends, Source, At
  <2> QED
    BY <1>1, <1>2, <1>5, <2>1, ServedCause
<1>6. ASSUME SwapsPath(p), Found(p) = "static",
             FileKind[ServedPath(p)] \in {"missing", "notreg", "empty"}
      PROVE  CauseInv(p)'
  <2>1. /\ req'[p].cfd = req[p].cfd
        /\ req'[p].path = ServedPath(p) /\ req'[p].literal = (req[p].path \in Rootish)
    BY <1>1, <1>6 DEF SwapsPath, RequestRec
  <2>2. Sends(p)'
    BY <1>1, <1>2, <1>4, <2>1 DEF Sends, Source, At
  <2>3. req'[p].literal => Deadly(First(p))
    BY <1>2, <1>3, <1>6, <2>1 DEF Deadly, ServedPath
  <2>4. ~ req'[p].literal => req'[p].path = First(p).kept
    BY <1>2, <2>1 DEF ServedPath
  <2> QED
    BY <1>1, <2>2, <2>3, <2>4, ServedCause
<1>7. CASE RunHandler(p)
  BY <1>5, <1>7 DEF RunHandler
<1>8. CASE ServeStatic(p)
  BY <1>5, <1>6, <1>8 DEF ServeStatic
<1> QED
  BY <1>7, <1>8

\* Every step of a child.
LEMMA StepCause ==
  ASSUME "oom" \notin Faults, TypeInv, NEW p \in Pid, HoldsAndAnswers(p), CauseInv(p),
         WorkerStep(p) \/ Interrupt(p)
  PROVE  CauseInv(p)'
<1>0. /\ pc \in [Pid -> Running \cup {"unborn", "exited"}] /\ fdt \in [Pid -> FdTable]
      /\ req[p] \in RequestRec /\ DOMAIN req = Pid
  BY DEF TypeInv, WorkerTypeOK
<1>1. CASE \/ PollGivesUp(p) \/ Crash(p) \/ BrokenPipe(p) \/ LuaWriteFails(p)
           \/ FreeLiteral(p) \/ CloseClient(p) \/ Interrupt(p) \/ OutOfMemory(p)
  <2>1. PICK how : Ends(p, how)
    BY <1>1
       DEF PollGivesUp, Crash, BrokenPipe, LuaWriteFails, FreeLiteral, CloseClient,
           Interrupt, OutOfMemory
  <2> QED
    BY <1>1, <2>1, EndsForCause
<1>2. task' = task /\ First(p)' = First(p)
  BY SameRequest DEF HoldsAndAnswers
<1>3. req[p].literal => Deadly(First(p))
  BY DEF CauseInv
<1>4. CASE Start(p) \/ PollReadable(p) \/ PollOther(p) \/ Written(p) \/ FreeRequest(p)
           \/ Fill(p)
  <2>1. status' = status /\ req' = req /\ pc'[p] \notin {"process", "file", "read", "write"}
    BY <1>0, <1>4
       DEF Start, PollReadable, PollOther, Written, FreeRequest, Fill, Reading, Goto, NextRound
  <2> QED
    BY <1>3, <1>4, <2>1, UnservedCause DEF Served, WorkerStep
<1>5. CASE InitRequest(p)
  <2>1. status' = status /\ req'[p] = NewRequest(task[p].sock)
    BY <1>0, <1>5 DEF InitRequest
  <2>2. ~ req'[p].literal /\ req'[p].method = OtherMethod
    BY <2>1 DEF NewRequest
  <2> QED
    BY <1>5, <2>1, <2>2, UnservedCause DEF Served, WorkerStep
<1>6. CASE NoRequestLine(p)
  <2>1. status' = status /\ req' = req /\ req[p] = NewRequest(task[p].sock)
    BY <1>6 DEF NoRequestLine, HoldsAndAnswers, AnswerInv, UnreadInv
  <2>2. ~ req[p].literal /\ req[p].method = OtherMethod
    BY <2>1 DEF NewRequest
  <2> QED
    BY <1>6, <2>1, <2>2, UnservedCause DEF Served, WorkerStep
<1>7. CASE RequestLine(p)
  <2>1. /\ status' = status /\ pc'[p] = "headers"
        /\ \E h \in Heard(Head(fbuf[p])) :
             req' = [req EXCEPT ![p].method = h.method, ![p].path = h.kept]
    BY <1>0, <1>7 DEF RequestLine, Goto
  <2>2. req'[p].literal = req[p].literal
    <3>1. PICK m, q : req' = [req EXCEPT ![p].method = m, ![p].path = q]
      BY <2>1
    <3> QED
      BY <1>0, <3>1 DEF RequestRec
  <2> QED
    BY <1>3, <1>7, <2>1, <2>2, UnservedCause DEF Served, WorkerStep
<1>8. ~ (RequestLineOom(p) \/ HeadersOom(p) \/ ServeOom(p))
  BY DEF RequestLineOom, HeadersOom, ServeOom
<1>9. CASE HeadersDone(p)
  <2>1. Sends(p)'
    BY <1>9, HeadersDoneAnswers
  <2>2. PICK new \in FdNum : req' = [req EXCEPT ![p].cfd = new]
    BY <1>9 DEF HeadersDone
  <2>3. req'[p].literal = req[p].literal /\ req'[p].path = req[p].path /\ status' = status
    BY <1>0, <1>9, <2>2 DEF RequestRec, HeadersDone
  <2>4. req[p].path = First(p).kept
    <3>1. AsksAll(p)
      BY <1>9 DEF HeadersDone, HeadersOver, HoldsAndAnswers, AnswerInv, AskedInv
    <3>2. First(p) \in Request
      BY <3>1, FirstType, SockFacts DEF AsksAll, TypeInv
    <3> QED
      BY <3>1, <3>2, HeardFacts DEF AsksAll
  <2> QED
    BY <1>3, <1>9, <2>1, <2>3, <2>4, ServedCause DEF WorkerStep
<1>10. CASE RejectMethod(p)
  <2>1. status' = status /\ req' = req /\ pc'[p] = "free"
    BY <1>0, <1>10 DEF RejectMethod, Silent, Goto
  <2> QED
    BY <1>3, <1>10, <2>1, UnservedCause DEF Served, WorkerStep
<1>11. CASE RunHandler(p) \/ ServeStatic(p)
  BY <1>11, ProcessCause
<1>12. CASE OpenFile(p) \/ ReadFile(p) \/ Write(p)
  <2>1. status' = status /\ req' = req /\ pc[p] \in {"file", "read", "write"}
    BY <1>12 DEF OpenFile, ReadFile, Write
  <2>2. Served(p)
    BY <2>1 DEF Served, HoldsAndAnswers, AnswerInv, AskedInv
  <2>3. Sends(p) /\ (~ req[p].literal => req[p].path = First(p).kept)
    BY <2>2 DEF CauseInv
  <2>4. task[p].conn \notin {NoFile, StaticFile}
    BY SockFacts
  <2>5. req[p].cfd \in FdNum /\ fdt[p][req[p].cfd] = task[p].conn
    BY <2>3, <2>4 DEF Sends, Source, At
  <2>6. fdt'[p][req[p].cfd] = fdt[p][req[p].cfd]
    <3>1. CASE OpenFile(p)
      <4>1. PICK new \in FdNum : /\ IsLowestFree(fdt[p], new)
                                 /\ fdt' = [fdt EXCEPT ![p][new] = StaticFile]
        BY <3>1 DEF OpenFile
      <4>2. new # req[p].cfd
        BY <2>4, <2>5, <4>1 DEF IsLowestFree, IsFree
      <4> QED
        BY <1>0, <2>5, <4>1, <4>2 DEF FdTable
    <3>2. CASE ReadFile(p)
      BY <1>0, <2>4, <2>5, <3>2 DEF ReadFile, FdTable
    <3>3. CASE Write(p)
      BY <3>3 DEF Write
    <3> QED
      BY <1>12, <3>1, <3>2, <3>3
  <2>7. Sends(p)'
    BY <1>2, <2>1, <2>5, <2>6 DEF Sends, Source, At
  <2> QED
    BY <1>3, <1>12, <2>1, <2>3, <2>7, ServedCause DEF WorkerStep
<1> QED
  BY <1>1, <1>4, <1>5, <1>6, <1>7, <1>8, <1>9, <1>10, <1>11, <1>12 DEF WorkerStep

\* Another child, and the child's own client.
LEMMA StillCause ==
  ASSUME NEW q \in Pid, CauseInv(q), Still(q)
  PROVE  CauseInv(q)'
<1>1. First(q)' = First(q)
  BY DEF Still, First, FirstLine
<1>2. Cause(q)' = Cause(q) /\ Served(q)' = Served(q) /\ Sends(q)' = Sends(q)
  BY <1>1 DEF Still, Cause, Served, Sends, Source, At
<1> QED
  BY <1>1, <1>2 DEF Still, CauseInv

\* What a client does gives its child no other cause to die than it had.
LEMMA ClientCause ==
  ASSUME WorkerTypeOK, NEW p \in Pid, AnswerInv(p), CauseInv(p), ClientStep(task[p].conn)
  PROVE  CauseInv(p)'
<1>1. /\ First(p)' = First(p) \/ First(p) = NoLine
      /\ peer[task[p].conn] = "rst" => peer'[task[p].conn] = "rst"
      /\ childVars' = childVars
  BY ClientStable DEF AnswerInv
<1>2. First(p).kind = "line" => First(p)' = First(p)
  BY <1>1, FirstType DEF AnswerInv
<1>3. Deadly(First(p)) => First(p).kind = "line"
  BY DEF Deadly
<1>4. Cause(p) => Cause(p)'
  BY <1>1, <1>2, <1>3 DEF Cause, childVars
<1>5. Served(p) => First(p).kind = "line"
  BY DEF AnswerInv, AskedInv, Asks
<1>6. Served(p)' = Served(p) /\ Sends(p)' = Sends(p)
  BY <1>1 DEF childVars, Served, Sends, Source, At
<1> QED
  BY <1>1, <1>2, <1>3, <1>4, <1>5, <1>6 DEF CauseInv, childVars

\* Every step of anyone, for a property of a child that its own steps and its client's
\* keep, and that depends on nothing else.
LEMMA OneChildMoves ==
  ASSUME AnswersInv, WorkerNext, NEW q \in Pid
  PROVE  Still(q) \/ WorkerStep(q) \/ Interrupt(q) \/ ClientStep(task[q].conn)
<1>1. ASSUME NEW p \in Pid, WorkerStep(p) \/ Interrupt(p), p # q PROVE Still(q)
  <2>1. TypeInv /\ OwnNumbers(p) /\ AnswerInv(p) /\ AnswerInv(q)
    BY OwnNumbersOnly DEF AnswersInv, DescriptorInv
  <2>2. task[q].conn \in Conn /\ task[q].conn # task[p].conn
    BY <1>1, <2>1 DEF AnswersInv, OneOwner, AnswerInv
  <2> QED
    BY <1>1, <2>1, <2>2, StepReach DEF Still
<1>2. ASSUME NEW c \in Conn, ClientStep(c), c # task[q].conn PROVE Still(q)
  <2>1. task[q].conn \in Conn
    BY DEF AnswersInv, AnswerInv
  <2> QED
    BY <1>2, <2>1
       DEF ClientStep, SendLine, SendEnd, Shutdown, Reset, Drain, childVars, Still,
           AnswersInv, DescriptorInv, TypeInv, WorkerTypeOK
<1> QED
  BY <1>1, <1>2 DEF WorkerNext

\* The causes, for every behaviour without failed allocations.
LEMMA CauseInvariance ==
  ASSUME "oom" \notin Faults
  PROVE  WorkerSpec => [](\A p \in Pid : CauseInv(p))
<1> DEFINE Causes == \A p \in Pid : CauseInv(p)
<1>1. ForkedInit => Causes
  <2> SUFFICES ASSUME ForkedInit, NEW p \in Pid PROVE CauseInv(p)
    OBVIOUS
  <2>1. pc[p] = "start" /\ status[p] = "none" /\ req[p] = NewRequest(BadFd)
    BY DEF ForkedInit, WorkerInit
  <2> QED
    BY <2>1 DEF CauseInv, Served, NewRequest
<1>2. AnswersInv /\ Causes /\ [WorkerNext]_workerVars => Causes'
  <2> SUFFICES ASSUME AnswersInv, Causes, [WorkerNext]_workerVars, NEW q \in Pid
               PROVE  CauseInv(q)'
    OBVIOUS
  <2>1. TypeInv /\ WorkerTypeOK /\ HoldsAndAnswers(q) /\ AnswerInv(q) /\ CauseInv(q)
    BY OwnNumbersOnly DEF AnswersInv, DescriptorInv, TypeInv, HoldsAndAnswers
  <2>2. CASE UNCHANGED workerVars
    <3>1. Still(q)
      BY <2>2 DEF Still, workerVars
    <3> QED
      BY <2>1, <3>1, StillCause
  <2>3. CASE WorkerNext
    BY <2>1, <2>3, OneChildMoves, StillCause, StepCause, ClientCause
  <2> QED
    BY <2>2, <2>3
<1> HIDE DEF Causes
<1>3. WorkerSpec => []Causes
  BY <1>1, <1>2, AnswersInvariance, PTL DEF WorkerSpec
<1> QED
  BY <1>3 DEF Causes

\* While memory lasts, a child that dies of SIGSEGV or SIGABRT has met a deadly request,
\* or a handler that writes to a client that has aborted: never a later request than
\* the first, and never a write to a descriptor that fclose has closed.
THEOREM DiesOnlyForCauseAlways ==
  ASSUME "oom" \notin Faults
  PROVE  WorkerSpec => []DiesOnlyForCause
<1>1. (\A p \in Pid : CauseInv(p)) => DiesOnlyForCause
  BY DEF CauseInv, Cause, DiesOnlyForCause, First
<1> QED
  BY <1>1, CauseInvariance, PTL

-----------------------------------------------------------------------------
(* What a child has done that ends in good order *)

\* What the client is owed will not change any more.
Settled(p) == First(p) # NoLine \/ peer[task[p].conn] # "open"
Here(p)    == peer[task[p].conn] # "rst"

\* The one request that is ever served is over.
Done(p) ==
  \/ pc[p] \in {"free", "close"}
  \/ pc[p] = "poll" /\ ~ Unread(p)
  \/ pc[p] = "exited" /\ status[p] = "OK"

CleanInv(p) ==
  /\ pc[p] = "process" /\ req[p].method = OtherMethod =>
       Settled(p) /\ (Here(p) => Response(First(p)) = << >>)
  /\ pc[p] = "write" /\ Here(p) => wire[task[p].conn] \o reply[p] = Response(First(p))
  /\ Done(p) => Settled(p) /\ (Here(p) => wire[task[p].conn] = Response(First(p)))

\* Where there is nothing to keep.
LEMMA NothingDone ==
  ASSUME NEW p \in Pid, ~ Done(p)', pc'[p] # "write",
         pc'[p] = "process" => req'[p].method # OtherMethod
  PROVE  CleanInv(p)'
BY DEF CleanInv

\* While a connection can be read or polled, poll does not overlook it.
LEMMA PollSeesConnection ==
  ASSUME TypeInv, NEW p \in Pid, HoldsAndAnswers(p), PollOther(p)
  PROVE  ~ Unread(p)
<1> SUFFICES ASSUME Unread(p) PROVE FALSE
  OBVIOUS
<1> DEFINE c == task[p].conn
<1>1. At(p, task[p].sock) = c /\ task[p].sock # BadFd /\ c \in Conn
      /\ c \notin {NoFile, StaticFile} \cup Listener
  BY SockFacts DEF Unread, At
<1> HIDE DEF c
<1>2. Revents(p) = (IF inq[c] # << >> \/ peer[c] # "open" THEN POLL_IN ELSE {})
                     \cup (IF peer[c] = "rst" THEN {"ERR", "HUP"} ELSE {})
  BY <1>1 DEF Revents
<1>3. Revents(p) \in {{}, {"IN"}, {"IN", "ERR", "HUP"}}
  BY <1>2 DEF POLL_IN
<1>4. /\ PollVerdict({}) = "TIMEOUT"
      /\ PollVerdict({"IN"}) = "serve" /\ PollVerdict({"IN", "ERR", "HUP"}) = "serve"
  BY DEF PollVerdict, POLL_HUP, POLL_PRI, POLLRDBAND
<1> QED
  BY <1>3, <1>4 DEF PollOther

\* process_request begins with nothing written, and settles on the whole response.
LEMMA ProcessClean ==
  ASSUME "oom" \notin Faults, TypeInv, NEW p \in Pid, HoldsAndAnswers(p), CauseInv(p),
         CleanInv(p), RejectMethod(p) \/ RunHandler(p) \/ ServeStatic(p)
  PROVE  CleanInv(p)'
<1> DEFINE c == task[p].conn
<1>1. /\ WorkerStep(p) /\ wire' = wire /\ pc[p] = "process" /\ DOMAIN reply = Pid
      /\ pc \in [Pid -> Running \cup {"unborn", "exited"}]
  BY DEF WorkerStep, RejectMethod, RunHandler, ServeStatic, Processing, Answer, Silent,
         clientVars, TypeInv, WorkerTypeOK
<1>2. /\ task' = task /\ peer' = peer /\ First(p)' = First(p)
  BY <1>1, SameRequest DEF HoldsAndAnswers
<1>3. Settled(p)' = Settled(p) /\ Here(p)' = Here(p)
  BY <1>2 DEF Settled, Here
<1>4. wire[c] = << >>
  BY <1>1 DEF HoldsAndAnswers, AnswerInv, WireInv
<1>5. ASSUME NEW pieces \in Seq(Piece), Answer(p, pieces), pieces = Response(First(p))
      PROVE  CleanInv(p)'
  <2>1. pc'[p] = "write" /\ reply'[p] = pieces
    BY <1>1, <1>5 DEF Answer, Goto
  <2>2. << >> \o pieces = pieces
    OBVIOUS
  <2> QED
    BY <1>1, <1>2, <1>4, <1>5, <2>1, <2>2 DEF CleanInv, Done
<1>6. ASSUME Silent(p), Settled(p), Here(p) => Response(First(p)) = << >>
      PROVE  CleanInv(p)'
  <2>1. pc'[p] = "free"
    BY <1>1, <1>6 DEF Silent, Goto
  <2> QED
    BY <1>1, <1>2, <1>3, <1>4, <1>6, <2>1 DEF CleanInv
<1>7. CASE RejectMethod(p)
  BY <1>6, <1>7 DEF RejectMethod, CleanInv
<1>8. ASSUME Processing(p)
      PROVE  /\ Settled(p) /\ Sends(p) /\ Response(First(p)) \in Seq(Piece)
             /\ Found(p) \in {"NIL", "payload", "redirect", "silent"} =>
                  Response(First(p)) = Dynamic(Found(p))
             /\ Found(p) = "static" => Response(First(p)) = StaticResponse(ServedPath(p))
  <2>1. Served(p) /\ Sends(p)
    BY <1>8 DEF Processing, Served, CauseInv
  <2>2. First(p).kind = "line"
    BY <2>1 DEF HoldsAndAnswers, AnswerInv, AskedInv, Asks
  <2>3. Settled(p)
    BY <2>2, FirstType, SockFacts DEF Settled, TypeInv
  <2>4. Response(First(p)) \in Seq(Piece)
    BY FirstType, SockFacts, ResponseFacts DEF TypeInv
  <2> QED
    BY <1>8, <2>1, <2>3, <2>4, OwedFacts
<1>9. CASE RunHandler(p)
  BY <1>5, <1>8, <1>9 DEF RunHandler
<1>10. CASE ServeStatic(p)
  <2>1. Processing(p) /\ Found(p) = "static"
    BY <1>10 DEF ServeStatic
  <2>2. Response(First(p)) = StaticResponse(ServedPath(p)) /\ Response(First(p)) \in Seq(Piece)
    BY <1>8, <2>1
  <2>3. CASE FileKind[ServedPath(p)] = "missing" /\ Answer(p, Reply(404))
    BY <1>5, <2>2, <2>3 DEF StaticResponse
  <2>4. CASE FileKind[ServedPath(p)] = "notreg" /\ Silent(p)
    BY <1>6, <1>8, <2>1, <2>2, <2>4 DEF StaticResponse
  <2>5. CASE FileKind[ServedPath(p)] = "empty" /\ Answer(p, Reply(204))
    BY <1>5, <2>2, <2>5 DEF StaticResponse
  <2>6. CASE FileKind[ServedPath(p)] = "unreadable" /\ Answer(p, Head1(200))
    BY <1>5, <2>2, <2>6 DEF StaticResponse
  <2>7. CASE Goto(p, "file")
    <3>1. pc'[p] = "file"
      BY <1>1, <2>7 DEF Goto
    <3> QED
      BY <3>1, NothingDone DEF Done
  <2> QED
    BY <1>10, <2>3, <2>4, <2>5, <2>6, <2>7 DEF ServeStatic
<1> QED
  BY <1>7, <1>9, <1>10

\* parse_request without a request: the client has sent none, or none with a method
\* the server knows, and will not send another first.
LEMMA ParseClean ==
  ASSUME "oom" \notin Faults, TypeInv, NEW p \in Pid, HoldsAndAnswers(p),
         NoRequestLine(p) \/ HeadersDone(p)
  PROVE  CleanInv(p)'
<1> DEFINE c == task[p].conn
<1>1. /\ WorkerStep(p) /\ req[p] \in RequestRec /\ pc'[p] = "process" /\ Reading(p)
  BY DEF WorkerStep, NoRequestLine, HeadersDone, HeadersOver, Reading, Goto, TypeInv,
         WorkerTypeOK
<1>2. task' = task /\ peer' = peer /\ First(p)' = First(p)
  BY <1>1, SameRequest DEF HoldsAndAnswers
<1>3. Settled(p)' = Settled(p) /\ Here(p)' = Here(p)
  BY <1>2 DEF Settled, Here
<1>4. ASSUME Settled(p), req'[p].method = OtherMethod /\ Here(p) => Response(First(p)) = << >>
      PROVE  CleanInv(p)'
  BY <1>1, <1>2, <1>3, <1>4 DEF CleanInv, Done
<1>5. CASE NoRequestLine(p)
  <2>1. CASE AtEof(p)
    <3>1. Source(p) = c /\ NextIsFirst(p) /\ c \in Conn
      BY <1>1, <1>5, ReadsConnection, SockFacts
         DEF NoRequestLine, HoldsAndAnswers, AnswerInv, UnreadInv
    <3>2. fbuf[p] = << >> /\ inq[c] = << >> /\ peer[c] # "open"
      BY <2>1, <3>1 DEF AtEof
    <3>3. Here(p) => First(p) = NoLine
      BY <3>1, <3>2 DEF Here, NextIsFirst, First, FirstLine
    <3>4. NoLine.kind # "line"
      BY DEF NoLine
    <3> QED
      BY <1>4, <3>2, <3>3, <3>4, ResponseFacts DEF Settled
  <2>2. CASE fbuf[p] # << >> /\ Head(fbuf[p]).kind # "line"
    <3>1. Head(fbuf[p]) = First(p)
      BY <1>5, <2>2, ReadsFirst DEF NoRequestLine
    <3>2. fbuf[p] \in Seq(Line \cup {End})
      BY DEF TypeInv, WorkerTypeOK
    <3>3. First(p) # NoLine
      BY <2>2, <3>1, <3>2, FirstType, SockFacts DEF TypeInv
    <3> QED
      BY <1>4, <2>2, <3>1, <3>3, ResponseFacts DEF Settled
  <2> QED
    BY <1>5, <2>1, <2>2 DEF NoRequestLine
<1>6. CASE HeadersDone(p)
  <2>1. AsksAll(p) /\ First(p).kind = "line"
    BY <1>6 DEF HeadersDone, HeadersOver, HoldsAndAnswers, AnswerInv, AskedInv, AsksAll
  <2>2. PICK new \in FdNum : req' = [req EXCEPT ![p].cfd = new]
    BY <1>6 DEF HeadersDone
  <2>3. req'[p].method = First(p).method
    <3>1. First(p) \in Request
      BY <2>1, FirstType, SockFacts DEF TypeInv
    <3>2. req[p].method = First(p).method
      BY <2>1, <3>1, HeardFacts DEF AsksAll
    <3> QED
      BY <2>2, <3>2 DEF TypeInv, WorkerTypeOK, RequestRec
  <2>4. Settled(p)
    BY <2>1, FirstType, SockFacts DEF Settled, TypeInv
  <2> QED
    BY <1>4, <2>3, <2>4, ResponseFacts
<1> QED
  BY <1>5, <1>6

\* The file and the writes: what is written and what is still to be are the response.
LEMMA WriteClean ==
  ASSUME "oom" \notin Faults, TypeInv, NEW p \in Pid, HoldsAndAnswers(p), CauseInv(p),
         CleanInv(p), ReadFile(p) \/ Write(p) \/ Written(p)
  PROVE  CleanInv(p)'
<1> DEFINE c == task[p].conn
<1>1. WorkerStep(p) /\ DOMAIN reply = Pid /\ pc \in [Pid -> Running \cup {"unborn", "exited"}]
      /\ c \in Conn /\ wire[c] \in Seq(Piece) /\ reply[p] \in Seq(Piece) /\ DOMAIN wire = Conn
  BY SockFacts DEF WorkerStep, TypeInv, WorkerTypeOK
<1>2. /\ task' = task /\ peer' = peer /\ First(p)' = First(p)
  BY <1>1, SameRequest DEF HoldsAndAnswers
<1>3. Settled(p)' = Settled(p) /\ Here(p)' = Here(p)
  BY <1>2 DEF Settled, Here
<1>4. CASE ReadFile(p)
  <2>1. wire' = wire /\ pc[p] = "read" /\ pc'[p] = "write" /\ reply'[p] = Reply(200)
    BY <1>1, <1>4 DEF ReadFile, Goto, clientVars
  <2>2. wire[c] = << >> /\ Response(First(p)) = Reply(200)
    <3>1. wire[c] = << >> /\ Reply(200) \in Owed(p)
      BY <2>1 DEF HoldsAndAnswers, AnswerInv, WireInv, AskedInv
    <3>2. Owed(p) = {Response(First(p))}
      BY FirstType, SockFacts, AnswersFacts DEF Owed, TypeInv
    <3> QED
      BY <3>1, <3>2
  <2>3. << >> \o Reply(200) = Reply(200)
    BY ReplyTypes DEF Code
  <2> QED
    BY <1>2, <2>1, <2>2, <2>3 DEF CleanInv, Done
<1>5. CASE Write(p)
  <2>1. pc[p] = "write" /\ pc' = pc /\ reply[p] # << >> /\ reply'[p] = Tail(reply[p])
    BY <1>1, <1>5 DEF Write
  <2>2. Sends(p)
    BY <2>1 DEF CauseInv, Served, HoldsAndAnswers, AnswerInv, AskedInv
  <2>3. ASSUME Here(p) PROVE wire'[c] \o reply'[p] = Response(First(p))
    <3>1. wire' = [wire EXCEPT ![c] = Append(@, Head(reply[p]))]
      BY <1>1, <1>5, <2>2, <2>3 DEF Write, CannotWrite, Sends, Here
    <3>2. PICK w \in Seq(Piece), q \in Seq(Piece) : w = wire[c] /\ q = reply[p]
      BY <1>1
    <3>3. wire'[c] = Append(w, Head(q)) /\ reply'[p] = Tail(q) /\ q # << >>
      BY <1>1, <2>1, <3>1, <3>2
    <3>4. Append(w, Head(q)) \o Tail(q) = w \o q
      BY <3>3, WriteMoves
    <3>5. w \o q = Response(First(p))
      BY <2>1, <2>3, <3>2 DEF CleanInv
    <3> QED
      BY <3>3, <3>4, <3>5
  <2> QED
    BY <1>2, <1>3, <2>1, <2>3 DEF CleanInv, Done
<1>6. CASE Written(p)
  <2>1. pc[p] = "write" /\ pc'[p] = "free" /\ reply[p] = << >> /\ wire' = wire
    BY <1>1, <1>6 DEF Written, Goto, clientVars
  <2>2. First(p).kind = "line"
    BY <2>1 DEF HoldsAndAnswers, AnswerInv, AskedInv, Served, Asks
  <2>3. Settled(p)
    BY <2>2, FirstType, SockFacts DEF Settled, TypeInv
  <2>4. Here(p) => wire[c] = Response(First(p))
    <3>1. wire[c] \o << >> = wire[c]
      BY <1>1
    <3> QED
      BY <2>1, <3>1 DEF CleanInv
  <2> QED
    BY <1>2, <1>3, <2>1, <2>3, <2>4 DEF CleanInv
<1> QED
  BY <1>4, <1>5, <1>6

\* A child that ends well has closed its connection, and was done with it.
LEMMA EndsClean ==
  ASSUME {"oom", "sigint"} \cap Faults = {},
         TypeInv, NEW p \in Pid, HoldsAndAnswers(p), CleanInv(p), NEW how, Ends(p, how),
         \/ PollGivesUp(p) \/ Crash(p) \/ BrokenPipe(p) \/ LuaWriteFails(p)
         \/ FreeLiteral(p) \/ CloseClient(p) \/ Interrupt(p) \/ OutOfMemory(p)
  PROVE  CleanInv(p)'
<1>1. /\ pc'[p] = "exited" /\ status'[p] = how /\ wire' = wire
      /\ task' = task /\ peer' = peer /\ asked' = asked /\ line' = line
      /\ \A h : Ends(p, h) => h = how
  BY DEF TypeInv, WorkerTypeOK, Ends, clientVars
<1>2. First(p)' = First(p)
  BY <1>1 DEF First, FirstLine
<1>3. Settled(p)' = Settled(p) /\ Here(p)' = Here(p)
  BY <1>1, <1>2 DEF Settled, Here
<1>4. CASE CloseClient(p)
  BY <1>1, <1>2, <1>3, <1>4 DEF CloseClient, CleanInv, Done
<1>5. CASE ~ CloseClient(p)
  <2>1. how # "OK"
    BY <1>1, <1>5
       DEF PollGivesUp, PollVerdict, Crash, BrokenPipe, LuaWriteFails, FreeLiteral, Interrupt,
           OutOfMemory
  <2> QED
    BY <1>1, <2>1, NothingDone DEF Done
<1> QED
  BY <1>4, <1>5

\* Every step of a child.
LEMMA StepClean ==
  ASSUME {"oom", "sigint"} \cap Faults = {}, KeepAlive => MaxRequests > 0,
         TypeInv, NEW p \in Pid, HoldsAndAnswers(p), CauseInv(p), CleanInv(p),
         WorkerStep(p) \/ Interrupt(p)
  PROVE  CleanInv(p)'
<1> DEFINE c == task[p].conn
<1>0. pc \in [Pid -> Running \cup {"unborn", "exited"}]
  BY DEF TypeInv, WorkerTypeOK
<1>1. CASE \/ PollGivesUp(p) \/ Crash(p) \/ BrokenPipe(p) \/ LuaWriteFails(p)
           \/ FreeLiteral(p) \/ CloseClient(p) \/ Interrupt(p) \/ OutOfMemory(p)
  <2>1. PICK how : Ends(p, how)
    BY <1>1
       DEF PollGivesUp, Crash, BrokenPipe, LuaWriteFails, FreeLiteral, CloseClient,
           Interrupt, OutOfMemory
  <2> QED
    BY <1>1, <2>1, EndsClean
<1>2. ~ (RequestLineOom(p) \/ HeadersOom(p) \/ ServeOom(p))
  BY DEF RequestLineOom, HeadersOom, ServeOom
<1>3. /\ task' = task /\ peer' = peer /\ First(p)' = First(p)
      /\ Settled(p)' = Settled(p) /\ Here(p)' = Here(p)
  BY SameRequest DEF HoldsAndAnswers, Settled, Here
<1>4. CASE Start(p)
  <2>1. pc'[p] \in {"poll", "init"}
    BY <1>0, <1>4 DEF Start, Goto, NextRound
  <2>2. Unread(p)'
    BY <1>4, StartAnswers
  <2> QED
    BY <2>1, <2>2, NothingDone DEF Done
<1>5. CASE PollReadable(p) \/ Fill(p) \/ RequestLine(p) \/ OpenFile(p)
  <2>1. pc'[p] \in {"init", "line", "headers", "read"}
    BY <1>0, <1>5 DEF PollReadable, Fill, Reading, RequestLine, OpenFile, Goto
  <2> QED
    BY <2>1, NothingDone DEF Done
<1>6. CASE InitRequest(p)
  <2>1. Unread(p) /\ c # NoFile /\ task[p].sock \in FdNum
    BY <1>6, SockFacts DEF InitRequest, HoldsAndAnswers, AnswerInv, UnreadInv
  <2>2. pc'[p] = "line"
    BY <1>0, <1>6, <2>1 DEF InitRequest, Unread, At, Goto
  <2> QED
    BY <2>2, NothingDone DEF Done
<1>7. CASE PollOther(p) \/ FreeRequest(p)
  <2>1. pc'[p] \in {"poll", "close"} /\ wire' = wire
    BY <1>0, <1>7 DEF PollOther, FreeRequest, Goto, NextRound, clientVars
  <2>2. Done(p)
    BY <1>7, PollSeesConnection DEF Done, PollOther, FreeRequest
  <2> QED
    BY <1>3, <2>1, <2>2 DEF CleanInv
<1>8. CASE NoRequestLine(p) \/ HeadersDone(p)
  BY <1>8, ParseClean
<1>9. CASE RejectMethod(p) \/ RunHandler(p) \/ ServeStatic(p)
  BY <1>9, ProcessClean
<1>10. CASE ReadFile(p) \/ Write(p) \/ Written(p)
  BY <1>10, WriteClean
<1> QED
  BY <1>1, <1>2, <1>4, <1>5, <1>6, <1>7, <1>8, <1>9, <1>10 DEF WorkerStep

\* Another child, and the child's own client.
LEMMA StillClean ==
  ASSUME NEW q \in Pid, CleanInv(q), Still(q)
  PROVE  CleanInv(q)'
<1>1. First(q)' = First(q)
  BY DEF Still, First, FirstLine
<1>2. Settled(q)' = Settled(q) /\ Here(q)' = Here(q) /\ Done(q)' = Done(q)
  BY <1>1 DEF Still, Settled, Here, Done, Unread
<1> QED
  BY <1>1, <1>2 DEF Still, CleanInv

\* What a client does leaves its child as settled as it was.
LEMMA ClientClean ==
  ASSUME WorkerTypeOK, NEW p \in Pid, AnswerInv(p), CleanInv(p), ClientStep(task[p].conn)
  PROVE  CleanInv(p)'
<1> DEFINE c == task[p].conn
<1>1. /\ First(p)' = First(p) \/ (First(p) = NoLine /\ peer[c] = "open")
      /\ peer[c] # "open" => peer'[c] # "open"
      /\ peer[c] = "rst" => peer'[c] = "rst"
      /\ wire' = wire /\ childVars' = childVars
  BY ClientStable DEF AnswerInv
<1>2. Settled(p) => Settled(p)' /\ First(p)' = First(p)
  BY <1>1 DEF Settled, childVars
<1>3. Here(p)' => Here(p)
  BY <1>1 DEF Here, childVars
<1>4. pc[p] = "write" => First(p)' = First(p)
  <2>1. pc[p] = "write" => First(p).kind = "line"
    BY DEF AnswerInv, AskedInv, Served, Asks
  <2> QED
    BY <1>1, <2>1, FirstType DEF AnswerInv
<1>5. Done(p)' = Done(p)
  BY <1>1 DEF childVars, Done, Unread
<1> QED
  BY <1>1, <1>2, <1>3, <1>4, <1>5 DEF CleanInv, childVars

\* While memory lasts and nobody interrupts it, a child that reaches exit(0), with its
\* client still there, has sent the whole response to the first request: every way
\* through parse_request and process_request either dies or hands the response to a
\* descriptor of the connection.  A keep-alive child that may serve none is the exception.
THEOREM CleanExitAnsweredAlways ==
  ASSUME {"oom", "sigint"} \cap Faults = {}, KeepAlive => MaxRequests > 0
  PROVE  WorkerSpec => []CleanExitAnswered
<1> DEFINE Clean == \A p \in Pid : CleanInv(p)
<1> DEFINE Causes == \A p \in Pid : CauseInv(p)
<1>1. ForkedInit => Clean
  <2> SUFFICES ASSUME ForkedInit, NEW p \in Pid PROVE CleanInv(p)
    OBVIOUS
  <2>1. pc[p] = "start"
    BY DEF ForkedInit
  <2> QED
    BY <2>1 DEF CleanInv, Done
<1>2. AnswersInv /\ Causes /\ Clean /\ [WorkerNext]_workerVars => Clean'
  <2> SUFFICES ASSUME AnswersInv, Causes, Clean, [WorkerNext]_workerVars, NEW q \in Pid
               PROVE  CleanInv(q)'
    OBVIOUS
  <2>1. /\ TypeInv /\ WorkerTypeOK /\ HoldsAndAnswers(q) /\ AnswerInv(q)
        /\ CauseInv(q) /\ CleanInv(q)
    BY OwnNumbersOnly DEF AnswersInv, DescriptorInv, TypeInv, HoldsAndAnswers
  <2>2. CASE UNCHANGED workerVars
    <3>1. Still(q)
      BY <2>2 DEF Still, workerVars
    <3> QED
      BY <2>1, <3>1, StillClean
  <2>3. CASE WorkerNext
    BY <2>1, <2>3, OneChildMoves, StillClean, StepClean, ClientClean
  <2> QED
    BY <2>2, <2>3
<1>3. Clean => CleanExitAnswered
  BY DEF CleanInv, Done, Here, First, CleanExitAnswered
<1>4. "oom" \notin Faults
  OBVIOUS
<1>5. WorkerSpec => []Causes
  BY <1>4, CauseInvariance
<1> HIDE DEF Clean, Causes
<1> QED
  BY <1>1, <1>2, <1>3, <1>5, AnswersInvariance, PTL DEF WorkerSpec
=============================================================================

------------------------------- MODULE Worker -------------------------------
(***************************************************************************)
(* The forked child that serves one accepted connection: threadJob         *)
(* (src/threadJob.c), the request parser and responder it drives           *)
(* (src/parser.c) and the client at the other end of the connection.       *)
(*                                                                         *)
(* A child is a process of its own: its descriptor table is a copy of the  *)
(* parent's, and it shares nothing but the connections.  A line of the     *)
(* request is one token, and so is the header block with the empty line    *)
(* that ends it; a response is the sequence of its write(2) calls.         *)
(***************************************************************************)
EXTENDS VirtualPath, Integers, FiniteSets

CONSTANTS
  Pid,          \* child processes
  Conn,         \* connections
  Listener,     \* listening sockets
  ListenFd,     \* the parent's descriptor of each listener
  FdNum,        \* the descriptors RLIMIT_NOFILE leaves a process
  NoFile,       \* a closed descriptor
  StaticFile,   \* a file opened below the server root
  NoPath,       \* a NULL path
  Line,         \* the request lines clients send
  Funcs,        \* the Lua table _Funcs
  Rootish,      \* the paths p with strcmp(p, "/") <= 0
  Index,        \* the literal "/index.html"
  FileKind,     \* what stat(2) and fopen(3) find at server_root + path
  Directive,    \* the paths with a printf conversion specification in them
  KeepAlive,    \* keep_alive.keep_alive
  MaxRequests,  \* keep_alive.max
  MaxAsk,       \* bound: requests a client sends on one connection
  Faults        \* the failures this instance lets happen

ASSUME WorkerAssumption ==
  /\ FdNum \subseteq Nat
  /\ ListenFd \in [Listener -> FdNum]
  /\ \A k, l \in Listener : ListenFd[k] = ListenFd[l] => k = l
  /\ NoFile \notin Conn \cup Listener /\ StaticFile \notin Conn \cup Listener
  /\ NoFile # StaticFile
  /\ Conn \cap Listener = {}
  /\ NoPath \notin Path /\ Index \in Path
  /\ Rootish \subseteq Path /\ Directive \subseteq Path
  /\ Funcs \in Seq(Route)
  /\ FileKind \in [Path -> {"missing", "notreg", "empty", "unreadable", "regular"}]
  /\ KeepAlive \in BOOLEAN
  /\ MaxRequests \in Nat /\ MaxAsk \in Nat
  /\ Faults \subseteq {"oom", "fork", "sigint"}

-----------------------------------------------------------------------------
(* Requests.  A line is split at its spaces: the method, the path and the rest. *)
(* Of the path the client sent, fgets's buffer keeps no more than fits its 1023 *)
(* bytes, and then nothing of the words behind it.  A short line has fewer than *)
(* two words.  A request is cut if one of its lines fills the buffer up to its  *)
(* CR LF: the next call returns that alone, which is what an empty line looks   *)
(* like.                                                                        *)

KnownMethod == {"GET", "POST", "PUT", "DELETE", "PATCH", "OPTIONS", "HEAD"}
OtherMethod == "UNKNOWN"

Request == [kind : {"line"}, method : KnownMethod \cup {OtherMethod}, path : Path,
            kept : Path, rest : Seq(Path), cut : BOOLEAN]
Short   == [kind |-> "short"]
End     == [kind |-> "end"]
NoLine  == [kind |-> "none"]

ASSUME LineAssumption ==
  /\ Line \subseteq Request \cup {Short}
  /\ \A l \in Line : l.kind = "line" /\ l.kept # l.path => l.rest = << >>

\* A word that is not one of the methods leaves the method unknown.
MethodOf(word) == IF word \in KnownMethod THEN word ELSE OtherMethod

\* What parse_request may make of a line: the first two of its words.  A word whose
\* node cannot be allocated is not in the list, and the next one takes its place.
Heard(l) ==
  IF l.kind # "line" \/ "oom" \notin Faults THEN {l}
  ELSE LET words == << l.method, l.kept >> \o l.rest
       IN  {[l EXCEPT !.method = MethodOf(words[k[1]]), !.kept = words[k[2]]] :
              k \in {m \in (DOMAIN words) \X (DOMAIN words) : m[1] < m[2]}}

(* Responses: the head and the extra headers, the empty line, the body.  A *)
(* redirect is one write of SpecRet._301.                                  *)

Code  == {200, 204, 301, 404, 500}
Piece == [part : {"head", "blank", "body"}, code : Code]

Head1(code)    == << [part |-> "head", code |-> code] >>
Reply(code)    == Head1(code) \o << [part |-> "blank", code |-> code],
                                    [part |-> "body",  code |-> code] >>

-----------------------------------------------------------------------------
VARIABLES
  \* the client of a connection
  peer,    \* "idle", "open", "fin" (it closed) or "rst" (it aborted)
  line,    \* the request line whose headers it still owes
  asked,   \* the request lines it has sent completely, in order
  inq,     \* sent and not yet read by the server
  wire,    \* what the server has written to it
  full,    \* there is no room for what the server writes next until it reads
  \* a child
  pc,      \* where its code is
  status,  \* how it ended
  task,    \* the connection it was forked for and client_sockfd
  fdt,     \* its descriptor table
  fbuf,    \* read ahead by its FILE, not yet returned by fgets
  req,     \* its request_t
  left,    \* local_keep_alive.max
  reply    \* the writes it still has to make

clientVars == <<peer, line, asked, inq, wire, full>>
childVars  == <<pc, status, task, fdt, fbuf, req, left, reply>>
workerVars == <<peer, line, asked, inq, wire, full,
                pc, status, task, fdt, fbuf, req, left, reply>>

File    == Conn \cup Listener \cup {NoFile, StaticFile}
BadFd   == -1
FdTable == [FdNum -> File]
Closed  == [fd \in FdNum |-> NoFile]

RequestRec == [cfd : FdNum \cup {BadFd}, method : KnownMethod \cup {OtherMethod},
               path : Path \cup {NoPath}, literal : BOOLEAN]

Running == {"start", "poll", "init", "line", "headers", "process",
            "file", "read", "write", "free", "close"}
Status  == {"none", "OK", "FAIL", "HUNGUP", "TIMEOUT",
            "SIGABRT", "SIGSEGV", "SIGPIPE", "SIGINT"}

WorkerTypeOK ==
  /\ peer \in [Conn -> {"idle", "open", "fin", "rst"}]
  /\ line \in [Conn -> Line \cup {NoLine}]
  /\ asked \in [Conn -> Seq(Line)]
  /\ inq \in [Conn -> Seq(Line \cup {End})]
  /\ wire \in [Conn -> Seq(Piece)]
  /\ full \in [Conn -> BOOLEAN]
  /\ pc \in [Pid -> Running \cup {"unborn", "exited"}]
  /\ status \in [Pid -> Status]
  /\ task \in [Pid -> [conn : Conn \cup {NoFile}, sock : FdNum \cup {BadFd}]]
  /\ fdt \in [Pid -> FdTable]
  /\ fbuf \in [Pid -> Seq(Line \cup {End})]
  /\ req \in [Pid -> RequestRec]
  /\ left \in [Pid -> Nat]
  /\ reply \in [Pid -> Seq(Piece)]

-----------------------------------------------------------------------------
(* Descriptors.  open, dup and accept return the lowest free number. *)

IsFree(table, fd)     == table[fd] = NoFile
IsFull(table)         == \A fd \in FdNum : ~ IsFree(table, fd)
IsLowestFree(table, fd) ==
  IsFree(table, fd) /\ \A g \in FdNum : IsFree(table, g) => fd <= g

\* What a descriptor of child p refers to; close and EBADF need no case.
At(p, fd) == IF fd \in FdNum THEN fdt[p][fd] ELSE NoFile

NewRequest(fd) == [cfd |-> fd, method |-> OtherMethod, path |-> NoPath,
                   literal |-> FALSE]

\* A child that nobody has forked.
Unborn == [conn |-> NoFile, sock |-> BadFd]

(***************************************************************************)
(* poll(2) as the code calls it: the constants it passes are the siginfo   *)
(* codes POLL_IN = 1, POLL_PRI = 5 and POLL_HUP = 6, read as event bits.   *)
(***************************************************************************)
POLL_IN  == {"IN"}
POLL_PRI == {"IN", "OUT"}
POLL_HUP == {"PRI", "OUT"}
POLLRDBAND == {"RDBAND"}

\* A negative descriptor is ignored, a closed one is POLLNVAL.  POLLERR,
\* POLLHUP and POLLNVAL are reported whether they were asked for or not.
Revents(p) ==
  LET f == At(p, task[p].sock)
  IN  CASE task[p].sock = BadFd -> {}
        [] task[p].sock # BadFd /\ f = NoFile -> {"NVAL"}
        [] f \in Conn ->
             (IF inq[f] # << >> \/ peer[f] # "open" THEN POLL_IN ELSE {})
             \cup (IF peer[f] = "rst" THEN {"ERR", "HUP"} ELSE {})
        [] f \in Listener \cup {StaticFile} -> POLL_IN

-----------------------------------------------------------------------------
(* Ends of a child.  Whichever way it goes, the kernel closes everything   *)
(* it had open; on exit(3) thread_quit has closed the listeners' numbers   *)
(* again just before.                                                      *)

Ends(p, how) ==
  /\ pc' = [pc EXCEPT ![p] = "exited"]
  /\ status' = [status EXCEPT ![p] = how]
  /\ fdt' = [fdt EXCEPT ![p] = Closed]
  /\ fbuf' = [fbuf EXCEPT ![p] = << >>]
  /\ reply' = [reply EXCEPT ![p] = << >>]
  /\ UNCHANGED <<clientVars, task, req, left>>

Goto(p, where) == pc' = [pc EXCEPT ![p] = where]

\* Mutant: the unsigned counter is compared with >=.
NextRound_OneMore(n) == IF n >= 0 THEN "poll" ELSE "close"

\* The test of the keep-alive loop.
NextRound(n) == IF n > 0 THEN "poll" ELSE "close"

\* Mutant: the child does not close the listeners.
WithoutListeners_KeepsAll(table) == table

(***************************************************************************)
(* After fork: close the listeners' descriptors, restore SIGINT, allocate. *)
(***************************************************************************)
WithoutListeners(table) ==
  [fd \in FdNum |-> IF \E l \in Listener : ListenFd[l] = fd THEN NoFile ELSE table[fd]]

Start(p) ==
  /\ pc[p] = "start"
  /\ fdt' = [fdt EXCEPT ![p] = WithoutListeners(@)]
  /\ left' = [left EXCEPT ![p] = MaxRequests]
  /\ Goto(p, IF KeepAlive THEN NextRound(MaxRequests) ELSE "init")
  /\ UNCHANGED <<clientVars, status, task, fbuf, req, reply>>

-----------------------------------------------------------------------------
(* One pass of the keep-alive loop up to init_request. *)

\* The code's tests of ret and revents, in their order.
PollVerdict(ev) ==
  CASE ev = {} -> "TIMEOUT"
    [] ev # {} /\ ev \cap POLL_HUP # {} -> "HUNGUP"
    [] ev \cap POLL_HUP = {} /\ ev \cap (POLL_PRI \cup POLLRDBAND) # {} -> "serve"
    [] OTHER -> "pass"

PollGivesUp(p) ==
  /\ pc[p] = "poll"
  /\ PollVerdict(Revents(p)) \in {"TIMEOUT", "HUNGUP"}
  /\ Ends(p, PollVerdict(Revents(p)))

PollReadable(p) ==
  /\ pc[p] = "poll"
  /\ PollVerdict(Revents(p)) = "serve"
  /\ Goto(p, "init")
  /\ UNCHANGED <<clientVars, status, task, fdt, fbuf, req, left, reply>>

\* Mutant: a pass that served nothing is not counted.
PollOther_NotCounted(p) ==
  /\ pc[p] = "poll"
  /\ PollVerdict(Revents(p)) = "pass"
  /\ UNCHANGED workerVars

\* POLLNVAL, above all: nothing is served and the pass is counted.
PollOther(p) ==
  /\ pc[p] = "poll"
  /\ PollVerdict(Revents(p)) = "pass"
  /\ left' = [left EXCEPT ![p] = @ - 1]
  /\ Goto(p, NextRound(left[p] - 1))
  /\ UNCHANGED <<clientVars, status, task, fdt, fbuf, req, reply>>

-----------------------------------------------------------------------------
(* parse_request *)

\* init_request, and fdopen of its descriptor.  fdopen fails on a bad one, or
\* for lack of memory; then nothing is read and nothing is closed.
InitRequest(p) ==
  /\ pc[p] = "init"
  /\ req' = [req EXCEPT ![p] = NewRequest(task[p].sock)]
  /\ \/ At(p, task[p].sock) # NoFile /\ Goto(p, "line")
     \/ At(p, task[p].sock) = NoFile /\ Goto(p, "process")
     \/ "oom" \in Faults /\ Goto(p, "process")
  /\ UNCHANGED <<clientVars, status, task, fdt, fbuf, left, reply>>

Reading(p) == pc[p] \in {"line", "headers"}
Source(p)  == At(p, req[p].cfd)

\* fgets refills its empty buffer with whatever read(2) returns, up to 4096
\* bytes; it blocks while there is nothing.
Fill(p) ==
  /\ Reading(p) /\ fbuf[p] = << >>
  /\ Source(p) \in Conn
  /\ \E n \in 1 .. Len(inq[Source(p)]) :
       /\ fbuf' = [fbuf EXCEPT ![p] = SubSeq(inq[Source(p)], 1, n)]
       /\ inq' = [inq EXCEPT ![Source(p)] = SubSeq(@, n + 1, Len(@))]
  /\ UNCHANGED <<peer, line, asked, wire, full, pc, status, task, fdt, req, left, reply>>

\* Mutant: a read of 0 bytes is taken for an empty line, not for the end.
AtEof_OnlyReset(p) ==
  /\ fbuf[p] = << >>
  /\ Source(p) \in Conn /\ inq[Source(p)] = << >> /\ peer[Source(p)] = "rst"

\* fgets returns NULL: end of file, or the connection was reset.
AtEof(p) ==
  /\ fbuf[p] = << >>
  /\ Source(p) \in Conn /\ inq[Source(p)] = << >> /\ peer[Source(p)] # "open"

\* fclose closes the descriptor and discards what was read ahead.
Fclose(p) ==
  /\ fdt' = [fdt EXCEPT ![p][req[p].cfd] = NoFile]
  /\ fbuf' = [fbuf EXCEPT ![p] = << >>]

\* No line, or one without two words, or with less than two that could be kept:
\* give up with method and path unset.
NoRequestLine(p) ==
  /\ pc[p] = "line"
  /\ \/ AtEof(p)
     \/ fbuf[p] # << >> /\ (Head(fbuf[p]).kind # "line" \/ "oom" \in Faults)
  /\ Fclose(p)
  /\ Goto(p, "process")
  /\ UNCHANGED <<clientVars, status, task, req, left, reply>>

\* What fgets returns for the rest of a line that does not fit its buffer.
Leftover(l) == IF l.cut THEN << End >> ELSE << >>

RequestLine(p) ==
  /\ pc[p] = "line"
  /\ fbuf[p] # << >> /\ Head(fbuf[p]).kind = "line"
  /\ \E h \in Heard(Head(fbuf[p])) :
       req' = [req EXCEPT ![p].method = h.method, ![p].path = h.kept]
  /\ fbuf' = [fbuf EXCEPT ![p] = Leftover(Head(@)) \o Tail(@)]
  /\ Goto(p, "headers")
  /\ UNCHANGED <<clientVars, status, task, fdt, left, reply>>

\* strdup of the path fails: the method is set and the path is not.
RequestLineOom(p) ==
  /\ "oom" \in Faults
  /\ pc[p] = "line"
  /\ fbuf[p] # << >> /\ Head(fbuf[p]).kind = "line"
  /\ \E h \in Heard(Head(fbuf[p])) : req' = [req EXCEPT ![p].method = h.method]
  /\ Fclose(p)
  /\ Goto(p, "process")
  /\ UNCHANGED <<clientVars, status, task, left, reply>>

\* Mutant: the header loop is left before the empty line.
HeadersOver_AtOnce(p) == pc[p] = "headers"

HeadersOver(p) ==
  /\ pc[p] = "headers"
  /\ \/ AtEof(p)
     \/ fbuf[p] # << >> /\ Head(fbuf[p]) = End

\* Mutant: the response goes to the descriptor that fclose has closed.
HeadersDone_NoDup(p) ==
  /\ HeadersOver(p)
  /\ Fclose(p)
  /\ Goto(p, "process")
  /\ UNCHANGED <<clientVars, status, task, req, left, reply>>

\* Mutant: the FILE is freed without closing the connection it reads.
HeadersDone_NoClose(p) ==
  /\ HeadersOver(p)
  /\ fbuf' = [fbuf EXCEPT ![p] = << >>]
  /\ Goto(p, "process")
  /\ UNCHANGED <<clientVars, status, task, fdt, req, left, reply>>

\* The response goes to a duplicate, because fclose closes the descriptor.
HeadersDone(p) ==
  /\ HeadersOver(p)
  /\ \E fd \in FdNum :
       /\ IsLowestFree(fdt[p], fd)
       /\ fdt' = [fdt EXCEPT ![p][fd] = Source(p), ![p][req[p].cfd] = NoFile]
       /\ req' = [req EXCEPT ![p].cfd = fd]
  /\ fbuf' = [fbuf EXCEPT ![p] = << >>]
  /\ Goto(p, "process")
  /\ UNCHANGED <<clientVars, status, task, left, reply>>

\* A header line or its pair cannot be allocated: the method and the path stay,
\* the descriptor is closed and its number is kept.
HeadersOom(p) ==
  /\ "oom" \in Faults
  /\ HeadersOver(p)
  /\ Fclose(p)
  /\ Goto(p, "process")
  /\ UNCHANGED <<clientVars, status, task, req, left, reply>>

-----------------------------------------------------------------------------
(* process_request *)

Answer(p, pieces) ==
  /\ reply' = [reply EXCEPT ![p] = pieces]
  /\ Goto(p, "write")
  /\ UNCHANGED <<clientVars, status, task, fdt, fbuf, left>>

\* It returns early and answers nothing.
Silent(p) ==
  /\ Goto(p, "free")
  /\ UNCHANGED <<clientVars, status, task, fdt, fbuf, left, reply>>

\* With a NULL path fnmatch dereferences it at the first route.
Found(p) ==
  IF req[p].path = NoPath
  THEN IF Funcs = << >> THEN "NIL" ELSE "SEGV"
  ELSE Resolve(Funcs, req[p].method, req[p].path)

Processing(p) == pc[p] = "process" /\ req[p].method # OtherMethod

RejectMethod(p) ==
  /\ pc[p] = "process" /\ req[p].method = OtherMethod
  /\ Silent(p) /\ UNCHANGED req

\* A handler that cannot be run.  The handler of a static route traces the path, and
\* log_log takes the message for a format: with a conversion specification in it
\* vfprintf reads arguments nobody passed, and the child may die or go on.
Crash(p) ==
  /\ Processing(p)
  /\ \/ Found(p) = "SEGV" /\ Ends(p, "SIGSEGV")
     \/ Found(p) = "ABRT" /\ Ends(p, "SIGABRT")
     \/ /\ Found(p) = "static" /\ req[p].path \in Directive
        /\ \E how \in {"SIGSEGV", "SIGABRT"} : Ends(p, how)

\* The handler, or the 404 for a path that no route matches.
Dynamic(result) ==
  CASE result = "NIL"      -> Reply(404)
    [] result = "payload"  -> Reply(200)
    [] result = "redirect" -> Head1(301)
    [] OTHER               -> << >>

RunHandler(p) ==
  /\ Processing(p)
  /\ Found(p) \in {"NIL", "payload", "redirect", "silent"}
  /\ Answer(p, Dynamic(Found(p))) /\ UNCHANGED req

\* A root path is replaced by the literal "/index.html".  Only the two ways
\* out through write_response put the request's own path back.
ServedPath(p) == IF req[p].path \in Rootish THEN Index ELSE req[p].path

\* Mutant: the path is replaced whether it is the root or not.
SwapsPath_Always(p) ==
  req' = [req EXCEPT ![p].path = ServedPath(p), ![p].literal = TRUE]

SwapsPath(p) ==
  req' = [req EXCEPT ![p].path = ServedPath(p),
                     ![p].literal = req[p].path \in Rootish]

\* Mutant: the 404 of a missing file does not return.
ServeStatic_FallsThrough(p) ==
  /\ Processing(p) /\ Found(p) = "static"
  /\ FileKind[ServedPath(p)] = "missing"
  /\ SwapsPath(p) /\ Answer(p, Reply(404) \o Head1(200))

ServeStatic(p) ==
  /\ Processing(p) /\ Found(p) = "static"
  /\ LET kind == FileKind[ServedPath(p)]
     IN  \/ kind = "missing" /\ SwapsPath(p) /\ Answer(p, Reply(404))
         \/ kind = "notreg"  /\ SwapsPath(p) /\ Silent(p)
         \/ kind = "empty"   /\ SwapsPath(p) /\ Answer(p, Reply(204))
         \/ kind = "unreadable" /\ UNCHANGED req /\ Answer(p, Head1(200))
         \/ /\ kind = "regular" /\ UNCHANGED req
            /\ Goto(p, "file")
            /\ UNCHANGED <<clientVars, status, task, fdt, fbuf, left, reply>>

\* Mutant: the 500 of a failed allocation does not return.
ServeOom_FallsThrough(p) ==
  /\ "oom" \in Faults
  /\ Processing(p) /\ Found(p) = "static"
  /\ SwapsPath(p) /\ Answer(p, Reply(500) \o Head1(200))

\* The file name, a payload or a content type cannot be allocated.
ServeOom(p) ==
  /\ "oom" \in Faults
  /\ Processing(p)
  /\ \/ Found(p) = "NIL" /\ UNCHANGED req /\ Silent(p)
     \/ Found(p) = "static" /\ SwapsPath(p) /\ Answer(p, Reply(500))
     \/ Found(p) = "static" /\ SwapsPath(p) /\ Silent(p)
     \/ Found(p) = "payload" /\ Ends(p, "SIGSEGV")

\* add_file_to_payload opens the file, reads it and closes it again; without a
\* content type it drops the payload.
OpenFile(p) ==
  /\ pc[p] = "file"
  /\ \E fd \in FdNum : /\ IsLowestFree(fdt[p], fd)
                       /\ fdt' = [fdt EXCEPT ![p][fd] = StaticFile]
  /\ Goto(p, "read")
  /\ UNCHANGED <<clientVars, status, task, fbuf, req, left, reply>>

\* Mutant: the way out without a content type forgets fclose.
ReadFile_Leaks(p) ==
  /\ pc[p] = "read"
  /\ "oom" \in Faults /\ reply' = [reply EXCEPT ![p] = Head1(200)]
  /\ Goto(p, "write")
  /\ UNCHANGED <<clientVars, status, task, fdt, fbuf, req, left>>

ReadFile(p) ==
  /\ pc[p] = "read"
  /\ fdt' = [fdt EXCEPT ![p] = [fd \in FdNum |->
                                  IF @[fd] = StaticFile THEN NoFile ELSE @[fd]]]
  /\ \/ reply' = [reply EXCEPT ![p] = Reply(200)]
     \/ "oom" \in Faults /\ reply' = [reply EXCEPT ![p] = Head1(200)]
  /\ Goto(p, "write")
  /\ UNCHANGED <<clientVars, status, task, fbuf, req, left>>

(***************************************************************************)
(* One write(2) of the response.  It blocks while there is no room for it, *)
(* and then only the client can help, by reading or by aborting.           *)
(* write_response does not notice a failed write: the result is an         *)
(* unsigned -1 that is tested for being negative.  lua_write_ does, and    *)
(* aborts.  Writing to a connection that was reset fails, and fails with   *)
(* SIGPIPE once the reset has been reported; one that was waiting for room *)
(* may return what went out before.  An empty write, which is all that     *)
(* SpecRet._404 does, needs no room and may fail as well.                  *)
(***************************************************************************)
CannotWrite(p) == Source(p) \in Conn => peer[Source(p)] = "rst"

\* No room in the socket, and a client that may yet make some.
MustWait(p) == Source(p) \in Conn /\ peer[Source(p)] # "rst" /\ full[Source(p)]
CutShort(p) == Source(p) \in Conn /\ peer[Source(p)] = "rst" /\ full[Source(p)]

\* The handler writes to the connection itself; a literal path is a static one.
LuaWrites(p) == ~ req[p].literal /\ Found(p) \in {"redirect", "silent"}

Write(p) ==
  /\ pc[p] = "write" /\ reply[p] # << >>
  /\ \/ /\ ~ CannotWrite(p) /\ ~ MustWait(p)
        /\ wire' = [wire EXCEPT ![Source(p)] = Append(@, Head(reply[p]))]
        /\ \E filled \in BOOLEAN : full' = [full EXCEPT ![Source(p)] = filled]
     \/ /\ CannotWrite(p) /\ (LuaWrites(p) => CutShort(p))
        /\ UNCHANGED <<wire, full>>
  /\ reply' = [reply EXCEPT ![p] = Tail(@)]
  /\ UNCHANGED <<peer, line, asked, inq, pc, status, task, fdt, fbuf, req, left>>

\* Where a write of the response, or the empty one, is about to be made.
AboutToWrite(p) ==
  \/ pc[p] = "write" /\ reply[p] # << >>
  \/ Processing(p) /\ Found(p) = "silent"

LuaWriteFails(p) ==
  /\ AboutToWrite(p) /\ CannotWrite(p) /\ LuaWrites(p)
  /\ Ends(p, "SIGABRT")

BrokenPipe(p) ==
  /\ AboutToWrite(p)
  /\ Source(p) \in Conn /\ peer[Source(p)] = "rst"
  /\ Ends(p, "SIGPIPE")

Written(p) ==
  /\ pc[p] = "write" /\ reply[p] = << >>
  /\ Goto(p, "free")
  /\ UNCHANGED <<clientVars, status, task, fdt, fbuf, req, left, reply>>

\* Most failed allocations end in log_fatal, which aborts, or in a Lua error that
\* nobody catches.  process_request allocates its own response after a handler
\* has written one.
OutOfMemory(p) ==
  /\ "oom" \in Faults
  /\ \/ pc[p] \in {"start", "init", "read"}
     \/ Processing(p)
     \/ /\ pc[p] = "write" /\ reply[p] = << >>
        /\ ~ req[p].literal /\ Found(p) \in {"payload", "redirect", "silent"}
  /\ Ends(p, "SIGABRT")

-----------------------------------------------------------------------------
(* free_request, the end of the pass and the end of the child *)

\* free of a string literal: glibc aborts.
FreeLiteral(p) ==
  /\ pc[p] = "free" /\ req[p].literal
  /\ Ends(p, "SIGABRT")

FreeRequest(p) ==
  /\ pc[p] = "free" /\ ~ req[p].literal
  /\ IF KeepAlive
     THEN /\ left' = [left EXCEPT ![p] = @ - 1]
          /\ Goto(p, NextRound(left[p] - 1))
     ELSE UNCHANGED left /\ Goto(p, "close")
  /\ UNCHANGED <<clientVars, status, task, fdt, fbuf, req, reply>>

CloseClient(p) ==
  /\ pc[p] = "close"
  /\ Ends(p, "OK")

\* SIGINT.  The child still has the parent's ctrl_c_h until it has restored
\* the default action.
Interrupt(p) ==
  /\ "sigint" \in Faults
  /\ pc[p] \in Running
  /\ Ends(p, IF pc[p] = "start" THEN "OK" ELSE "SIGINT")

WorkerStep(p) ==
  \/ Start(p) \/ OutOfMemory(p)
  \/ PollGivesUp(p) \/ PollReadable(p) \/ PollOther(p)
  \/ InitRequest(p) \/ Fill(p) \/ NoRequestLine(p)
  \/ RequestLine(p) \/ RequestLineOom(p) \/ HeadersDone(p) \/ HeadersOom(p)
  \/ RejectMethod(p) \/ Crash(p) \/ RunHandler(p)
  \/ ServeStatic(p) \/ ServeOom(p) \/ OpenFile(p) \/ ReadFile(p)
  \/ Write(p) \/ LuaWriteFails(p) \/ BrokenPipe(p) \/ Written(p)
  \/ FreeLiteral(p) \/ FreeRequest(p) \/ CloseClient(p)

-----------------------------------------------------------------------------
(* The client: it may pipeline, stall, leave unread what it is sent, close and   *)
(* abort at any point.                                                           *)

SendLine(c) ==
  /\ peer[c] = "open" /\ line[c] = NoLine /\ Len(asked[c]) < MaxAsk
  /\ \E l \in Line : /\ line' = [line EXCEPT ![c] = l]
                     /\ inq' = [inq EXCEPT ![c] = Append(@, l)]
  /\ UNCHANGED <<peer, asked, wire, full, childVars>>

SendEnd(c) ==
  /\ peer[c] = "open" /\ line[c] # NoLine
  /\ inq' = [inq EXCEPT ![c] = Append(@, End)]
  /\ asked' = [asked EXCEPT ![c] = Append(@, line[c])]
  /\ line' = [line EXCEPT ![c] = NoLine]
  /\ UNCHANGED <<peer, wire, full, childVars>>

Shutdown(c) ==
  /\ peer[c] = "open"
  /\ peer' = [peer EXCEPT ![c] = "fin"]
  /\ UNCHANGED <<line, asked, inq, wire, full, childVars>>

\* An abort may lose any of what the server has not read yet.
Reset(c) ==
  /\ peer[c] \in {"open", "fin"}
  /\ peer' = [peer EXCEPT ![c] = "rst"]
  /\ \E n \in 0 .. Len(inq[c]) : inq' = [inq EXCEPT ![c] = SubSeq(@, 1, n)]
  /\ UNCHANGED <<line, asked, wire, full, childVars>>

\* It reads what the server has written.
Drain(c) ==
  /\ peer[c] \in {"open", "fin"} /\ full[c]
  /\ full' = [full EXCEPT ![c] = FALSE]
  /\ UNCHANGED <<peer, line, asked, inq, wire, childVars>>

ClientStep(c) == SendLine(c) \/ SendEnd(c) \/ Shutdown(c) \/ Reset(c) \/ Drain(c)

(***************************************************************************)
(* The child on its own: forked for one open connection, which is accepted *)
(* once, by a parent that holds its listeners and, at the lowest number    *)
(* free, this connection.                                                  *)
(***************************************************************************)
ListenTable ==
  [fd \in FdNum |-> IF \E l \in Listener : ListenFd[l] = fd
                    THEN CHOOSE l \in Listener : ListenFd[l] = fd
                    ELSE NoFile]

WorkerInit ==
  /\ line = [c \in Conn |-> NoLine]
  /\ asked = [c \in Conn |-> << >>]
  /\ inq = [c \in Conn |-> << >>]
  /\ wire = [c \in Conn |-> << >>]
  /\ status = [p \in Pid |-> "none"]
  /\ fbuf = [p \in Pid |-> << >>]
  /\ req = [p \in Pid |-> NewRequest(BadFd)]
  /\ left = [p \in Pid |-> 0]
  /\ reply = [p \in Pid |-> << >>]

ForkedInit ==
  /\ WorkerInit
  /\ peer = [c \in Conn |-> "open"]
  /\ full \in [Conn -> BOOLEAN]
  /\ pc = [p \in Pid |-> "start"]
  /\ \E owner \in [Pid -> Conn], fd \in FdNum :
       /\ \A p, q \in Pid : owner[p] = owner[q] => p = q
       /\ IsLowestFree(ListenTable, fd)
       /\ task = [p \in Pid |-> [conn |-> owner[p], sock |-> fd]]
       /\ fdt = [p \in Pid |-> [ListenTable EXCEPT ![fd] = owner[p]]]

WorkerNext ==
  \/ \E p \in Pid : WorkerStep(p) \/ Interrupt(p)
  \/ \E c \in Conn : ClientStep(c)

WorkerSpec == ForkedInit /\ [][WorkerNext]_workerVars

\* The kernel schedules the child; nothing makes the client do anything.
FairWorkerSpec == WorkerSpec /\ \A p \in Pid : WF_workerVars(WorkerStep(p))

-----------------------------------------------------------------------------
(* What a request ought to get, from the routes and the files alone. *)

\* The request line at the head of what client c sent.
FirstLine(c) == IF asked[c] # << >> THEN asked[c][1] ELSE line[c]

StaticResponse(path) ==
  CASE FileKind[path] = "missing"    -> Reply(404)
    [] FileKind[path] = "notreg"     -> << >>
    [] FileKind[path] = "empty"      -> Reply(204)
    [] FileKind[path] = "unreadable" -> Head1(200)
    [] FileKind[path] = "regular"    -> Reply(200)

Outcome(l) == Resolve(Funcs, l.method, l.kept)

Response(l) ==
  CASE l.kind # "line" \/ (l.kind = "line" /\ l.method = OtherMethod) -> << >>
    [] l.kind = "line" /\ l.method \in KnownMethod ->
         CASE Outcome(l) \in {"SEGV", "ABRT"} -> << >>
           [] Outcome(l) = "static" ->
                StaticResponse(IF l.kept \in Rootish THEN Index ELSE l.kept)
           [] OTHER -> Dynamic(Outcome(l))

\* The responses a line may get: without failed allocations there is one.
Answers(l) ==
  {Response(h) : h \in Heard(l)} \cup (IF "oom" \in Faults THEN {Reply(500)} ELSE {})

\* Requests that kill the child: a handler that cannot be run, a root path whose
\* index cannot be served, which leaves the literal to free_request, and a path
\* that is traced as a format.
Deadly(l) ==
  /\ l.kind = "line" /\ l.method \in KnownMethod
  /\ \/ Outcome(l) \in {"SEGV", "ABRT"}
     \/ /\ Outcome(l) = "static" /\ l.kept \in Rootish
        /\ FileKind[Index] \in {"missing", "notreg", "empty"}
     \/ Outcome(l) = "static" /\ l.kept \in Directive

-----------------------------------------------------------------------------
(* Safety *)

\* Once the listeners are closed, a child has its own connection open and, only
\* while it reads one, a static file: client_sockfd, a number the keep-alive loop
\* goes on using after fclose has freed it, never comes to mean another file.
HoldsOnlyItsConnection ==
  \A p \in Pid : pc[p] \notin {"unborn", "start"} =>
    \A fd \in FdNum :
      \/ fdt[p][fd] \in {NoFile, task[p].conn}
      \/ fdt[p][fd] = StaticFile /\ pc[p] = "read"

\* dup in parse_request and fopen in add_file_to_payload always find a number,
\* however full the table the parent handed down, because the listeners left it.
RoomForDescriptors ==
  \A p \in Pid : pc[p] \in {"headers", "file"} => ~ IsFull(fdt[p])

\* A client receives the beginning of the response to the first request it sent, with
\* the path as far as fgets's buffer keeps it, and nothing else: no second response,
\* and no piece of one out of order, whatever it pipelines.  Where memory runs out it
\* may be the response to what is left of the request line when words of it are lost,
\* or the 500.
AnswersFirstRequest ==
  \A c \in Conn : \E r \in Answers(FirstLine(c)) :
    Len(wire[c]) <= Len(r) /\ wire[c] = SubSeq(r, 1, Len(wire[c]))

\* A child that reaches exit(0) with its client still there has sent the whole
\* response to the first request: the descriptor it wrote to was the connection.
CleanExitAnswered ==
  \A p \in Pid :
    (pc[p] = "exited" /\ status[p] = "OK" /\ peer[task[p].conn] # "rst")
      => wire[task[p].conn] = Response(FirstLine(task[p].conn))

\* A child dies of SIGSEGV or SIGABRT only for the first request its client sent,
\* and only if that request is one of the deadly ones, or one whose handler writes
\* to a client that has aborted.
DiesOnlyForCause ==
  \A p \in Pid : LET l == FirstLine(task[p].conn) IN
    status[p] \in {"SIGSEGV", "SIGABRT"} =>
      \/ Deadly(l)
      \/ /\ peer[task[p].conn] = "rst"
         /\ l.kind = "line" /\ Outcome(l) \in {"redirect", "silent"}

\* No byte of a response leaves before the client has sent the empty line that
\* ends its header block, or has closed, except for a request with a line that is
\* cut: that one is answered when the rest of the line has been read.
NoEarlyAnswer ==
  [][\A c \in Conn : wire'[c] # wire[c] =>
       \/ asked[c] # << >> \/ peer[c] # "open"
       \/ line[c].kind = "line" /\ line[c].cut]_workerVars

(* Liveness *)

\* With the child scheduled, only its client can keep it from ending, and only by
\* staying connected: with a request unfinished, or with a response it does not read.
\* No poll, no loop and no descriptor of its own does.
StallsOnlyOnClient ==
  \A p \in Pid : LET c == task[p].conn IN
    \/ <>(pc[p] = "exited")
    \/ <>[](Reading(p) /\ peer[c] = "open" /\ asked[c] = << >>)
    \/ <>[](/\ pc[p] = "write" /\ reply[p] # << >>
            /\ peer[c] # "rst" /\ full[c] /\ Source(p) = c)

-----------------------------------------------------------------------------
(* What the code's comments promise and the code does not do *)

\* setup.h: max is "how many request can this connection" serve before it is
\* closed; so a child that closes in good order on a client that asked that many
\* times, and is still connected, has answered them all.
KeepAliveHonoured ==
  \A p \in Pid : LET c == task[p].conn IN
    (/\ KeepAlive /\ pc[p] = "exited" /\ status[p] = "OK" /\ peer[c] = "open"
     /\ Len(asked[c]) >= MaxRequests
     /\ \A i \in DOMAIN asked[c] : Response(asked[c][i]) # << >>)
      => Cardinality({i \in DOMAIN wire[c] : wire[c][i].part = "head"}) >= MaxRequests

\* parser.c: a method other than the ones of the matching route is answered with
\* 405; so the child is still there to answer.
WrongVerbSurvives ==
  \A p \in Pid :
    LET l == FirstLine(task[p].conn)
    IN  (/\ l.kind = "line" /\ l.method \in KnownMethod
         /\ Matching(Funcs, l.kept) # {}
         /\ \A i \in DOMAIN Funcs[FirstMatch(Funcs, l.kept)].meth :
              Funcs[FirstMatch(Funcs, l.kept)].meth[i] # l.method)
        => status[p] # "SIGSEGV"

=============================================================================

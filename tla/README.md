# A TLA+ development of simpleHttp

simpleHttp is an HTTP/1.1 server in C. A configuration script (`setup.lua`) says where to listen; the
routes are Lua scripts; the server accepts one connection at a time, forks a child for it and waits
until the child is gone. These modules model that, TLC checks small instances of them, and TLAPS
proves the main safety properties for every size of instance.

All paths are relative to the root of the repository: `src/` is its C source, `simpleHttpdLua/` its
Lua library.

## The system

| Part | State | Operations | Talks to |
|---|---|---|---|
| accept loop (`src/main.c`) | `pfds`, the loop index, `client_sockfd`, the descriptor table | `poll`, `accept`, `fork`, `close`, `wait` | kernel (queues of the listeners), children |
| connection worker (`src/threadJob.c`) | `local_keep_alive`, `client_sockfd` | restore SIGINT, `poll` before each request, parse, process, free, `thread_quit` | parser, parent (exit) |
| request parser and responder (`src/parser.c`) | `request_t`, a `FILE` with its buffer | `init_request`, `parse_request`, `process_request`, `free_request` | client (socket), resolver, response writer, files |
| virtual path resolver (`src/lua/virtual_path.c`) | the Lua table `_Funcs` | `virtual_path_resolv` | Lua handlers |
| response writer (`src/write_response.c`, `spec.h`, `mime_guess.c`, `itoa.c`) | `response_t`; buffer, position, sum | `new_response`, `add_header`, `sr`, `add_file_to_payload`, `write_response` | client, files |
| handlers' helpers (`special_ret.lua`, `static.lua`, `src/lua/lua_.c`) | none | `_301`, `_404`, `CreateStaticServer`, `write_`, `log_log` | client |
| templates, index page (`simpleHttpdLua/template.lua`, `autoindex.lua`) | the global `current_ret`; a coroutine per page | `Template.DoFile` | handlers, resolver |
| route registration (`simpleHttpdLua/init.lua`, `src/lua/scan.c`) | `_Funcs` | `Add_Route`, the automatic scan of the routes | resolver |
| configuration, start-up, sockets (`src/lua/setup.c`, `src/socket.c`, `main`) | `drv`, `open_sockets` | `create_socket`, `set_*`, `plugin_init`, `createSocket` | plugins, accept loop |
| plugins, linked list (`src/plugin/`, `src/link_list.c`) | a list of `http_plugin_t` | `plugin_system_init`, `trigger_event`, `unload_all_plugins` | start-up, worker, quit handler |
| quit handler and free stack (`src/quit_handler.c`, `src/stack.c`) | `free_stack` | `ctrl_c_h`, `save_ptr`, `pop_ptr` | all of it: SIGINT and `exit` |

Parent and child are processes: a child gets a copy of the parent's memory and descriptor table and
from then on they share only the connections and the listeners' queues. That makes the descriptor
table the interesting state. `fclose` in the parser closes the connection's number and the response
goes to a `dup` of it; files are opened at the lowest free number; the keep-alive loop goes on polling
the old number; the parent's own table grows when `fork` fails and is handed down.

What is hard to test here:

* interleavings of the parent, its child and any number of clients, each of which may pipeline,
  stall, close or abort at any point of a request;
* a descriptor number used after it was closed, or a table with no number to spare;
* failures: `fork`, any allocation, short and failed writes, SIGINT at any step;
* responses that are mixed up, sent early, sent twice or not at all, or longer or shorter than announced;
* files that others write to, truncate or replace while they are read;
* a page whose code fails half-way, and what it leaves for the next one;
* what the client's text meets on its way: a buffer that cuts it, words that get lost, a logger that takes it
  for a format;
* blocking calls without a timeout (`fgets`, `write`, `accept`, `wait`) and fairness between the listeners.

`PROJECT.json` lists these hazards by source line with the properties that cover each.

## The modules

    VirtualPath ---> Worker ----------------------> Server - - - refines - - -> SerialServer
        |              |                              |
        |        WorkerProofs ---> AnswerProofs ---> ServerProofs
        |
        +------> Routes -----------> RoutesProofs

    WriteResponse ---> Response ---> ResponseProofs

    LinkList ---> Plugins ---> Process ---> ProcessProofs

    Template ---> TemplateProofs

An `MC*` module gives the constants of the instances their values. `Induction` is extended by the last
four proof modules.

### VirtualPath

`virtual_path_resolv` as an operator: from the table `_Funcs`, a method and a path to what the child
will see: `"NIL"` (no route, the 404), what the handler gives back (`"payload"`, `"redirect"`,
`"silent"`, `"static"`), or the way it dies. `fnmatch` is the relation `Glob`, the handler of a route
has one `Result`. The first matching entry decides and, of its methods, only the first is looked at:
on a mismatch the C code continues its `lua_next` loop over a stack it has not restored and
dereferences a string as a table, which is `"SEGV"`. A handler that raises an error is not caught
(`lua_call`), which is `"ABRT"`. What the handler of a static server may do to the child before it
returns, by tracing the path, is a step of `Worker`.

### Worker

One forked child, the connection it serves and the client at its other end.

* **Child**: `pc` names the place in `threadJob` or in the function it calls; `task.sock` is
  `client_sockfd`; `fdt` is the descriptor table, from numbers to what they refer to; `fbuf` is what
  the `FILE` has read ahead; `req` is the `request_t`, with `literal` for `path` pointing to the string
  literal `"/index.html"`; `left` is `local_keep_alive.max`; `reply` are the writes still to be made.
* **Client**: `peer` (`open`, `fin`, `rst`), `inq` and `wire` for the two directions of the
  connection, `line` and `asked` for what it has begun and finished to send. `full` says that the socket has
  no room for the next write: any write may leave it so, and only the client makes room, by reading
  (`Drain`), or ends the wait, by aborting. A client need not do either.
* **Actions**: one per step of the code that another process could observe or that can fail. Each
  early return of `parse_request` and `process_request` is a disjunct of the action it belongs to.
  `poll` is modelled with the constants the code passes: `POLL_IN`, `POLL_PRI` and `POLL_HUP` are
  siginfo codes, and `PollVerdict` applies the code's tests to them as the bits they are.
* **Data**: a request line is one token: the method, or `UNKNOWN`, the `path` the client sent, what
  the parser's 1023 bytes have room for of it (`kept`), and the words behind it (`rest`), of which there
  are none if the path did not fit. A header block with its empty line is one token. A request is `cut` if a
  line of it does not fit the buffer and what `fgets` returns next is exactly CR LF, which ends the headers for
  `parse_request` (any other rest is one more header). A response is its sequence of `write(2)` calls. What is
  served from disk depends on `FileKind`, which does not change while a request is served.
* **A path as a format**: the static handler traces the path, and `log_log` hands the formatted message to
  `vfprintf` as a format, without arguments. For the paths in `Directive` the child may then die of SIGSEGV or
  SIGABRT (`Crash`), or go on.
* **Faults** (a constant set): `"oom"` lets each allocation fail, with the consequence it has there
  (`log_fatal` aborts, some returns are silent, some go on with a null pointer). `insert_node` says nothing
  when it fails: `Heard` is what a request line may be taken for when words of it are lost. `"sigint"` lets
  SIGINT arrive in any step; `"fork"` is used by `Server`.

### Server and SerialServer

`Server` extends `Worker` with the parent: `ppc`, its table `pfdt`, the listeners `ready` after the
last `poll`, the scan's `idx`, `newfd` (its `client_sockfd`), the kernel's `queue` per listener and the
history variable `unforked`. `WorkerStep(p)` is a step of child `p`. A connection that is over on both
sides may be made again under the same name, so that behaviours go on for ever.

`SerialServer` is what this amounts to for clients: they wait in one line per listener and are served
one at a time in the order they came; the server may go away with those who wait. Its promise to
a client is `EveryCallerServed`, which `Server` states of itself as `EveryClientServed`. `Server` implements
it with `waiting <- queue`, `up <- ppc # "dead"` and `serving` the connection accepted or handed to the child that is
running: `ImplementsSerial` without fairness, and `ImplementsFairSerial` with it.

### WriteResponse and Response

`WriteResponse` is the loops of `write_response`, with byte offsets for bytes, for any response of given
lengths: the additional headers printed behind the head, the head in chunks of `PIPE_BUF`, the empty
line, the payload in chunks. `write(2)` may be short or fail; the result is converted to `size_t` (modulo
`SizeLimit`) and added up, and the position advances by what was asked for.

`Response` is a whole response around it, from `new_response` to `free_response`. Its payload is a page of
`sr` (with the NULs that its measuring of the format leaves behind the text), a handler's string, or a
static file: `stat`, `fopen` and `ftell` are steps of their own, and so is each `read(2)` that `fread` makes
(`Fread`, from the place `got`, of any length); between them others
may write to the file (`Rewrite`) or give the path another one (`Rename`). A byte of a payload is where it
comes from and its place there; a buffer of `malloc` holds `junk`. A header whose node cannot be allocated is
missing (`Added`), and `lost` remembers it. `itoa_base` is the loop of
`itoa.c`: the quotients that are left after each division by ten (`Left`), the number of rounds until
that is zero (`Rounds`), and the remainders read backwards; it follows the conversion of a `size_t` to
the `int` it takes. `write_response` is the step that hands
`Lengths(built)` to `WriteResponse`, and `Response` implements `WriteResponse`'s specification.

### Template

`Template.DoFile` resumes a coroutine that reads a page line by line. A line is what it is to the
coroutine (`<lua>`, `</lua>` or other) and what it would do as Lua: make a tag, make one per file, begin a
loop over the files or end it, make a tag and end in a comment, end in a token that does not parse with a line
joined to it, hold a percent sign, not parse, raise an error. Lines of code are joined
without a line break and passed through `string.format` again for every line (`Dump`, `FormatFails`).
`</lua>` runs them as one chunk: `Joined` is what a comment leaves of them, `Parses` whether `load` finds a program
in that, `Made` what the statement at a position makes, a loop with its body in rounds (`Loop`). Tags
gather in the global `current_ret`, which is emptied only when the coroutine is resumed. `results` is
what each call has returned, against which the properties set what the page says, read without
order (`Shown`). A token carries the line its statement begins on, the round of the loop and its own line, and
`RendersPage` asks for them in that order; the loop of `autoindex.html` comes out file by file.

Loops are not nested, a loop is over the files, and two lines that fuse into something that still parses
(`x = 1` and `2`) are left out: `fuses` is the case that does not parse. With what it traces, a page is a format
for `log_log` too (template.lua:127 and :168); that text is its author's, not a client's, and is not followed.

### Routes

How `_Funcs` comes about, which `Worker` takes as a constant. A script's name is the sequence of its
words; `PathOf` spells the path as the loop of `init.lua` does, up to the first word equal to the
method. `Scan` picks any order of any part of the scripts (`nftw` promises no order, and a scan that
fails is used as far as it got); a script registers what it registers itself and what `dofile` gives;
`Add_Route` makes an entry or adds a method to one and drops the handler; the index and the static
server come last. The history `added` is every call of `Add_Route`, against which the table is judged.

### LinkList, Plugins and Process

`LinkList` is the list of `link_list.c` with its pointers `next` and `prev`. `Plugins` is
`plugin_system_init`: `nftw` meets the files in any order, shared objects get a node and are counted,
then each is opened and initialised; a failure leaves a null or a closed (`stale`) handle in the list.
`UnloadAll` is `unload_all_plugins`, which crashes at the first handle that is stale or has no
`plugin_shutdown`.

`Process` is one process from `main` to its end, either side of `fork`: the configuration script as any
sequence of `create_socket`, `set_server_root`, `set_routes_root` and `plugin_init`; the sockets, opened
one by one (a family `createSocket` does not know is skipped); the Lua state; the loop; the child with
SIGINT restored and `thread_quit` registered. `heap` is what the process has allocated and
`Quits` is `ctrl_c_h`: `lua_close`, the plugins, the frees. `log_fatal` aborts (`src/log/log.c`), so
every error reported with it is an end.

## The runs

| Run | Shows | Bounds |
|---|---|---|
| `worker_close` | A child without keep-alive: which response a client gets, that it is the whole one if the child ends well, what a child dies of, that it has a descriptor when it needs one, that it does not answer early | one child; every route result, static file kind and kind of request line of `routes/`, `setup.lua` and the C code, one that is cut, one whose path does not fit the buffer and one with a directive in it; two requests per client, so that one is pipelined; a descriptor table that is full when the child is forked |
| `worker_keep` | The child with keep-alive, two passes, when any allocation may fail and SIGINT may arrive anywhere: which descriptors it holds, and that only its client keeps it from ending | one spare descriptor; lines with a word behind the path, and one that is left with too few words when one is lost; two passes are the first that differ from one, since the second is the one on a closed number |
| `server_faults` | One client at a time, in order of arrival, with failing `fork`, allocations and SIGINT, and a parent whose table fills up after one failed `fork` | two listeners, two connections that come back, two processes (a second is what `OneChild` would need to fail), backlog 1 |
| `server_fair` | The same promise with fairness: who is in a queue is served; and the parent leaks no connection | backlog 2, so that one listener can be busy for ever; one process, as `OneChild` is checked above; two request lines, one served and one that kills the child; clients that do not read at once |
| `response` | A client that got everything got as many bytes as it was told, and of a file only bytes that were to be read at its path in their place, all of one version unless it was written into while it was open; bytes leave in order, once, and without gaps while writes are complete; `write_response` returns | payloads of 0 to 11 bytes in chunks of 6; 11 is the first length beyond an `int` here (`IntLimit`); two changes, enough for there and back, and reads of any length between them; a write goes wrong, or a header is lost, only in responses whose file nobody changed, as these do not meet in the code |
| `template` | A page comes out in the order of its text and statements, loops round by round; an error ends it and is reported; `nil` is returned for nothing else than a page with nothing in it; no tag is sent twice, and only an error leaves tags for a later page | the shape of `autoindex.html` and fourteen pages with each thing that can be wrong with code, alone and together, in a loop and out of one; three rendered in a row: one to fail, one to find what it left, one after that. Any page comes first; behind it one of four, the index, a missing page and the two that leave something (`Again`); up to two files in the index |
| `routes` | Requests are served as if all registrations had been kept; the table has each path once with its methods in order; the index and the static server hide no script | the scripts of `routes/`, one that clashes with `init.lua`'s own routes and one whose directory is called like its method: every case of `Add_Route` and of the spelling of paths occurs, in every order |
| `process` | Who gets to the loop has everything it needs; `ctrl_c_h` runs once; it crashes from the loop on only over a plugin without `plugin_shutdown`; who quits in order has shut down each plugin once and leaks only what the script orphaned | three plugins and another file (three are what a list needs for a node with both neighbours); two sockets, each family known or not; each root set up to twice, which is once too often; six nodes found in all, which lets `plugin_init` be called again after it counted plugins that got no node |

### Fairness

The child is scheduled by the kernel: `WF(WorkerStep(p))`, `WF(ResponseStep)` for `Returns`, and
`WF(ParentStep)` for the parent. The
worker runs assume nothing about the client. `StallsOnlyOnClient` therefore says that a child either
ends or waits for ever on a client that is connected and has not finished its first request, or does not
read its response: there is no timeout on `fgets`, and none on `write`. In `server_fair` clients must be
assumed to close in the end, and to read what they are sent or abort, because the parent
waits for the child; those are assumptions about clients which the code does nothing to enforce.
`SerialServer`'s fairness is strong for `Take`: the turn of a listener comes again and again but is
not continuously enabled; `Server` delivers it because each pass serves every ready listener once.

### Divergences between the code and its comments

A `violation` run shows that a promise made in a comment does not hold:

* `keep_alive_honoured`: with keep-alive on, a connection serves one request, not `max`.
* `wrong_verb_survives`: a known path with another method kills the child instead of getting 405.
* `error_reported`: `write_response` never returns the -1 its callers test for.
* `events_delivered`: `trigger_event` looks the plugins' functions up and never calls them.

Others of this kind were seen while modelling and are part of the modules, without a run of their own:
the keep-alive timeout bounds only the `poll` before a request, so a silent client keeps its child; the
`HUNGUP` branch cannot be taken for a reset connection, because `POLL_HUP` is not `POLLHUP`; a root
request whose index file is missing, a directory or empty ends in `free` of a string literal; a
request for a directory gets no response; additional headers count twice in `write_response`'s result;
a cut request line is answered before its headers have come (the exception in `NoEarlyAnswer`), and of a path
that does not fit the buffer the beginning is served; a path with a printf directive that a static server
matches may kill the child; a word of a request line or a header that cannot be stored is gone without notice; a
content type that libmagic finds loses its last character; from 2 GiB on `Content-Length` is negative or
too small; a static file that has vanished after `stat` is answered with a head of 200 without an
empty line, because nobody looks at `add_file_to_payload`'s result; a file shortened between `ftell` and
`fread` is filled up with what was in the memory, and one that is written to during `fread` may be sent as
parts of both versions (the exception in `FileAsItWas`); the text of a page loses its line breaks; a
page without text and code comes back as `nil`, which kills the child in `strlen`. Not part of a module:
`is_plugin_loaded`, which no function of the program calls, returns the length of the list for a path it does
not find (plugin.c:351), where `plugin.h` promises 0; and
a tag within a tag, as in `autoindex.html`'s last line of code, prints as `table: 0x...`, because
`__tostring` is put into the table and not into its metatable.

## What is proved

Each invariant of a passing run is a theorem, and so are the action property `NoEarlyAnswer` and the
refinement `ImplementsSerial`. They hold for all values of the constants that satisfy the assumptions
of the modules (`WorkerAssumption`, `LineAssumption`, `RoutesAssumption`, `ServerAssumption`,
`SizesAssumption`, `ResponseAssumption`, `NullAssumption`, `PluginsAssumption`, 
`ProcessAssumption`, `ScriptsAssumption`, `TemplateAssumption`) and, in six theorems, of a hypothesis:

* `DiesOnlyForCauseAlways` and `ServerDiesOnlyForCause` take `"oom"` out of `Faults`: a failed allocation
  ends in the `abort` of `log_fatal`, whatever was asked. `fork` may fail and SIGINT may arrive.
* `CleanExitAnsweredAlways` and `ServerCleanExit` take out `"oom"`, after which some requests are dropped in
  silence, and `"sigint"`, which a child that still has its parent's `ctrl_c_h` answers with `exit(0)`; and
  they ask for `MaxRequests > 0` with keep-alive: with a `max` of 0 the loop of `threadJob.c` serves nobody.
  `ServerCleanExit` states `CleanExitServed`, which is `CleanExitAnswered` of the children that were forked
  for a connection: one that was forked for none, because `accept` had failed, has nobody to answer.
* `RoomForDescriptorsAlways` needs a listener: without one the child of a full table closes none and has
  nothing to `dup` to. A server without listeners has no clients.
* `DefaultsHideNothingAlways` takes `OwnHandlers` and `OwnPaths` (`Routes`): the handlers of the index and
  of the static server are closures that `init.lua` makes after all scripts have run, and a script's path
  is made of plain words, which `fnmatch` finds in themselves. `MCRoutes` assumes both, so TLC has
  evaluated them for the scripts of the run.

### One child (`WorkerProofs`, `AnswerProofs`)

* **WorkerTypeCorrect**. The type invariant is not inductive: `left` is a natural number only because the
  loop leaves before it is decremented below zero. `TypeInv` adds `CountsDown`: inside the keep-alive loop
  `left` is positive.
* **HoldsOnlyItsConnectionAlways**, **RoomForDescriptorsAlways**: `DescriptorInv` strengthens them with
  what each place in the code knows: the number in `req.cfd` while there is one to read from, that at
  most one copy of the connection is open outside `headers`, and that the listeners' numbers are free.
* **AnswersFirstRequestAlways**, **NoEarlyAnswerAlways**. Three things have to be followed from the client
  to the wire: what it sent first, what the child has read, what it has written. `AnswerInv` has a
  part for each stretch: `UnreadInv`, as long as nothing has been read the next token is the first one the
  client sent; `AskedInv`, the request in `req` is what may be `Heard` of that one until the response has been
  made, and the child sends to its client only when that is due; `WireInv`, what is on the wire and the
  writes still to come are the beginning of one response that is owed; `EndsSent`, an empty line that is
  on its way was sent by the client, or is the rest of a cut line. All of it presupposes `OwnNumbers`: the
  numbers the child works with mean its own connection, a static file or nothing. That the
  keep-alive loop polls a closed number, which may have come to mean a file, is why this is not obvious,
  and why a second pass never reads a second request.
* **DiesOnlyForCauseAlways**: `CauseInv` adds that `path` points to the string literal only when the first
  request is one whose `free` is deadly, and that a request is looked up under the path it was sent with.
* **CleanExitAnsweredAlways**: `CleanInv` says that with no allocation failing the wire and the remaining
  writes are the response itself and not only a beginning, and that whoever is done has nothing left
  to write to a client that is still there.

### The whole server (`ServerProofs`)

* **OneChildAlways**, **NoneWhileLookingAlways**: `ChildInv` says that there is no child
  unless the parent is between `fork` and `wait`, or dead, and then one at most.
* **ServerTypeCorrect**, **AcceptFindsOneAlways**, **HoldsOnlyUnforkedAlways**: `ServerInv` joins the
  children's `TypeInv` and `ChildInv` with what the parent knows. `StillThere`: whom `poll` saw at a
  listener the scan has yet to come to is still queued, because the scan visits each listener once and
  nobody but the parent accepts; that is why `accept` does not block. `Holds`: the parent's table has no
  connection but those whose `fork` failed and the one at hand. `IdleFree`: a connection that has yet to be
  made is nowhere, so that `Connect` is an `Arrive`.
* **ChildHoldsOnlyItsOwnAlways**: `HeldInv` says of both tables that apart from the listeners' numbers they
  hold connections only, the child's (`MyFiles`) its own and those nobody was forked for.
* **ServerAnswersFirstRequest**, **ServerNoEarlyAnswer**, **ServerDiesOnlyForCause**, **ServerCleanExit**: what is
  proved of one child holds of every child of the server, though here it may have been forked for no
  connection at all (`accept` failed; `Idler`), inherits what `fork` failed for, and connections come again
  under names used before. `ClientsInv` says how a connection gets from the client to its child:
  `PlacesInv`, it waits in one place or is served, not both; `NumbersInv`, a child begins with its
  connection under its number and nothing read; `TalkInv`, nobody has read from or written to a connection
  that waits, and `AnswerInv` holds of each child. `ServerChildMoves` and the lemmas of `AnswerProofs` do
  the rest: a child of the server moves as one on its own does.
* **ServerIsSerial**: the refinement has one lemma per step of `SerialServer` (`ConnectArrives`, `AcceptTakes`,
  `ChildReleases`, `ForkFailsReleases`, `DeathAbandons`) and shows that every other step is silent
  (`ForkHandsOver`, `WaitIsSilent`, `RestIsSilent`): the caller being served passes from the parent to the
  child in one step.

### Responses (`ResponseProofs`)

* **WriteTypeCorrect**, **ResponseContiguous**, **ResponseNeverRepeats**: `WriteInv` bounds each position by the
  part being written and every byte on the wire by the position, from which the order of the bytes follows.
* **ResponseImplementsWrite**, **EveryResponseContiguous**, **FileSentAsItWas**: `BuildInv` says
  what the payload is at each step of its building (`Parts`, `Reading`) and that `WriteResponse` has its
  lengths (`Handed`). Then `Response` implements `WriteSpec`, whose theorems carry over. Each of the bytes read
  so far is one that was to be read at the path, in its place, and they are all of one version as long as
  nobody has written into the open file since its sizing; what arrives is the same.
* **ItoaReadsBack**: for every `int`, the digits of `itoa_base` read as a number give it back. The loop
  divides by ten until nothing is left (`LeftEnds`), and going back up, ten times what is left plus the
  remainder is what was there.
* **ResponseTypeCorrect**, **AnnouncedLengthAlways**: `ToldInv` says from when to when there are headers and
  that they belong to the payload (`Told`), the lost ones apart; with `ItoaReadsBack` and the order of the bytes the length told
  is the length received.

### Routes (`RoutesProofs`)

* **RoutesTypeCorrect**, **TableOfRegistrationsAlways**, **ServesFirstRegisteredAlways**: `TableInv` gives the
  table its history: a map `first` from the entries to the calls that made them, increasing and first for
  their path (`MadeBy`), and for every entry one from its methods to the calls that stored them
  (`StoredBy`). `EnteredIs` says what `Add_Route` makes of a table, and
  `FirstServes` that the first entry that matches was made by the first call that does.
* **DefaultsHideNothingAlways**: `OrderInv`, every call of a script comes before the defaults'.

### A process (`ProcessProofs`)

* **ProcessTypeCorrect**, **ListAsFoundAlways**, **ReadyForClientsAlways**: `Represents(list, s)` says that the
  pointers are those of a list of the nodes `s`; `WalkOf` and `EndOfIs` that following them gives `s` and
  its last node, `Inserts` that `insert` appends to it. `ProcessInv` has a part for each thing that the
  process gathers: the list (`ListInv`), what loading has reached (`LoadInv`), what each stage must have got
  right (`StageInv`), the sockets tried so far (`SocketInv`), and whom each block belongs to (`HeapInv`).
* **QuitsOnceAlways**: `QuitInv` adds to `QuitsOnce` why it holds: a process that runs
  has not called `ctrl_c_h`, SIGINT has its default again from `armed` on, and the exit handler is
  registered only after that.
* **QuitCrashesOnlyForPluginAlways**, **QuitsCleanAlways**: with `ProcessInv` and `QuitInv` the one call of
  `ctrl_c_h` meets the list as it was found, from the loop on with every handle open (`OneQuitIsClean`), and
  nothing else that ends a process frees or shuts down (`WaysToEnd`).

### Templates (`TemplateProofs`)

* **TemplateTypeCorrect**, and the lemmas about `FlattenSeq`: what it joins (`JoinsFlat`), `FlatConcat`, `FlatAppend`.
* **LeftoverOnlyAfterRaiseAlways**: `Yielded` empties `current_ret` in the step that
  hands it over, and the history of errors only grows.
* **NilOnlyForNothingAlways**: `ReadInv`, the coroutine knows whether the next line is code (which
  the page's lines determine, `InCodeNext`), and has yielded nothing as long as there was nothing to.
* **RendersPageAlways**: `CodeInv` says that the code gathered is the lines since the last `<lua>`, so that
  `ReadTo` is how far the page has been dealt with; `SaidInv` that what has been yielded is what the lines
  up to `ReadTo` show, and in their order. What a chunk makes is shown from its positions: those of a loop's body
  are the lines between its beginning and its end, and the tags of one statement, round by round, lie between
  those of the statements before and behind it.
* **EachOnceAlways**: `OnceInv`, what is sent, what this page has yielded and what waits in `current_ret` are
  without repetition and share nothing, because the lines this page has yet to deal with have made nothing yet.

### How

`Induction` proves, from the well-foundedness of `<`, that a set with 0 in it and with the successor of
every number in it has them all. What a recursive function computes is proved with it, of the set of numbers
for which it does: `WalkOf`, `JoinsFlat` and `LeftIs` are of this kind. The library's induction theorems,
which take a predicate, cannot be used with the provers at hand.

Only model-checked: liveness (`Returns`, `StallsOnlyOnClient`, `EveryClientServed` and
`ImplementsFairSerial`), because it needs fairness and `ENABLED`, which the provers at hand do not handle;
and the `violation` runs, whose result is a behaviour.

## What is not modelled, and the plan

* Header contents, which are stored and read by nothing; addresses and ports; log output.
* `set_keep_alive` is the constants `KeepAlive` and `MaxRequests` of `Worker`; `set_thread_limit` and
  `set_log_level` store what nothing modelled reads.
* `get_plugin_info`, `is_plugin_loaded` and `unload_plugin`, which nothing in the program calls, the last of
  which returns before it could do anything;
  `sr`'s mode for files and `add_to_payload`, which nothing calls; `html_tag_old`, `prev_ret` and `endloop`.
* The text of tags and their attributes, and `libmagic` but for the length of what it returns.
* What a path with a directive makes `vfprintf` write to memory (`%n`) when the child survives it, and the same
  in a redirect's location, which `special_ret.lua` traces and which is its script's text. Loops within loops of
  a page, and lines of code that fuse into another program.
* `save_ptr` stores one pointer beyond its array when it is full; a process saves one pointer.
* The vendored log library, the debug trap and the build tools.

The bounds (`MaxAsk`, `Backlog`, `MaxChanges`, `MaxPages`, `MaxFound`, `MaxSockets` and the like) are
constants of the modules: the theorems hold for each value of them. What would come next is a composition
of `Server` with `Routes` and `Process`: that the table the children are forked with is one that `Routes`
makes, and that the parent's loop is the `loop` stage of `Process`. Today `Funcs` and `KeepAlive` are
constants of `Worker`, of which only the types are assumed.

------------------------------- MODULE Response -------------------------------
(***************************************************************************)
(* A response, from new_response to free_response: what process_request    *)
(* (src/parser.c), virtual_path_resolv (src/lua/virtual_path.c) and sr     *)
(* (src/spec.h) put into it, how add_file_to_payload reads a static file   *)
(* that somebody else may be changing, and write_response, which sends it. *)
(*                                                                         *)
(* A byte of a payload is where it comes from and its place there.         *)
(***************************************************************************)
EXTENDS WriteResponse, FiniteSets

CONSTANTS
  Code,       \* the codes of STATUS_MAP
  HeadLen,    \* how long gen_header's head is for each of them
  NameLen,    \* how long the names of the additional headers are
  PageLen,    \* how long sr's page is for each code
  Mime,       \* the content types there are
  Html,       \* "text/html"
  MimeLen,    \* how long they are
  Inode,      \* the files the path may name in turn
  NoInode,    \* the path names nothing
  Version,    \* the contents somebody writes to a file
  FileSize,   \* and their sizes
  LuaSize,    \* the lengths of what handlers return
  IntLimit,   \* an int is below this number
  MaxChanges  \* bound: changes of files while the response is made

Name   == {"Content-Type", "Content-Length"}
Origin == Version \cup {"page", "lua", "nul", "junk"}
Byte   == [of : Origin, at : Nat]

ASSUME ResponseAssumption ==
  /\ {200, 204, 404} \subseteq Code /\ Code \subseteq Nat
  /\ HeadLen \in [Code -> Nat] /\ PageLen \in [Code -> Nat]
  /\ NameLen \in [Name -> Nat] /\ MimeLen \in [Mime -> Nat \ {0}] /\ Html \in Mime
  /\ NoInode \notin Inode
  /\ Version \cap {"page", "lua", "nul", "junk"} = {}
  /\ FileSize \subseteq Nat /\ 0 \in FileSize /\ LuaSize \subseteq Nat
  /\ IntLimit \in Nat \ {0} /\ MaxChanges \in Nat

\* What a path names: a directory has no bytes of its own.
Content == [kind : {"regular"}, version : Version, size : FileSize]
             \cup [kind : {"directory"}, version : Version, size : {0}]

-----------------------------------------------------------------------------
(* Numbers in headers *)

\* A size_t passed as an int.
ToInt(n) == ((n + IntLimit) % (2 * IntLimit)) - IntLimit

Abs(x) == IF x < 0 THEN -x ELSE x

\* What the loop has left of x, but for the sign, after each of its rounds.
Left(x) ==
  LET left[k \in 0 .. Abs(x) + 1] == IF k = 0 THEN Abs(x) ELSE left[k - 1] \div 10
  IN  left

\* It ends when nothing is left, and runs once at least.
Rounds(x) ==
  CHOOSE n \in 1 .. Abs(x) + 1 : Left(x)[n] = 0 /\ \A k \in 1 .. n - 1 : Left(x)[k] # 0

\* TO_BASE(x, 10): one digit for each round, the last one first, and a sign in front.
itoa_base(x) ==
  [negative |-> x < 0,
   digits   |-> [k \in 1 .. Rounds(x) |-> Left(x)[Rounds(x) - k] % 10]]

\* The number that a client reads in such a text.
Number(text) ==
  LET n == Len(text.digits)
      upTo[k \in 0 .. n] == IF k = 0 THEN 0 ELSE 10 * upTo[k - 1] + text.digits[k]
  IN  IF text.negative THEN - upTo[n] ELSE upTo[n]

-----------------------------------------------------------------------------
VARIABLES
  at,       \* where the code is
  built,    \* the response_t: status, headers, payload
  fp,       \* the inode the stream has open
  got,      \* how far fread has come in it
  named,    \* the inode the path names
  files,    \* the contents of the inodes
  changes,  \* how often they have been changed
  seen,     \* history: what was to be read at the path since stat
  torn      \* history: the open file was written to after its size was taken

buildVars == <<at, built, fp, got>>
fileVars  == <<named, files, changes, seen, torn>>
allVars   == <<writeVars, buildVars, fileVars>>

Where == {"request", "open", "size", "read", "type", "write", "free", "end", "aborted"}

\* The text of a number; any other text has no digits here.
Text   == [negative : BOOLEAN, digits : Seq(0 .. 9)]
Header == [name : Name, value : Text, len : Nat]

ResponseTypeOK ==
  /\ WriteTypeOK
  /\ at \in Where
  /\ built \in [status : Code, headers : Seq(Header), lost : SUBSET Name,
                set : BOOLEAN, payload : Seq(Byte)]
  /\ fp \in Inode \cup {NoInode} /\ named \in Inode \cup {NoInode}
  /\ got \in Nat
  /\ files \in [Inode -> Content]
  /\ changes \in 0 .. MaxChanges
  /\ seen \subseteq Content
  /\ torn \in BOOLEAN

\* new_response(cfd, lookup_status(200), keep_alive)
NewResponse ==
  [status |-> 200, headers |-> << >>, lost |-> {}, set |-> FALSE, payload |-> << >>]

Named == IF named = NoInode THEN {} ELSE {files[named]}

ResponseInit ==
  /\ WriteInit
  /\ at = "request" /\ built = NewResponse /\ fp = NoInode /\ got = 0
  /\ files \in [Inode -> Content] /\ named \in Inode \cup {NoInode}
  /\ changes = 0 /\ seen = {} /\ torn = FALSE

-----------------------------------------------------------------------------
(* Building *)

\* The first n bytes of something.
Take(of, n) == [k \in 1 .. n |-> [of |-> of, at |-> k]]

\* malloc leaves in its memory what was there.
Junk(n) == [k \in 1 .. n |-> [of |-> "junk", at |-> 0]]

ContentTypeHeader(n) ==
  [name |-> "Content-Type", value |-> [negative |-> FALSE, digits |-> << >>], len |-> n]

\* Mutant: the length is that of the text, without the NULs behind it.
ContentLengthHeader_NoNul(payload) ==
  LET text == itoa_base(ToInt(Cardinality({k \in DOMAIN payload : payload[k].of # "nul"})))
  IN  [name |-> "Content-Length", value |-> text,
       len  |-> Len(text.digits) + IF text.negative THEN 1 ELSE 0]

ContentLengthHeader(payload) ==
  LET text == itoa_base(ToInt(Len(payload)))
  IN  [name |-> "Content-Length", value |-> text,
       len  |-> Len(text.digits) + IF text.negative THEN 1 ELSE 0]

\* The headers that insert_node has no memory for are missing, and nobody is told.
Losses == IF "oom" \in Faults THEN SUBSET Name ELSE {{}}

Added(header, lost) == IF header.name \in lost THEN << >> ELSE << header >>

\* set_payload and the two headers, with a type of n characters; lost is a history of
\* the response.
WithPayload(status, payload, n, lost) ==
  [status  |-> status, set |-> TRUE, payload |-> payload, lost |-> lost,
   headers |-> Added(ContentTypeHeader(n), lost) \o Added(ContentLengthHeader(payload), lost)]

\* lookup_status, with set_status's default.
LookupStatus(code) == IF code \in Code THEN code ELSE 200

\* sr's memory has room for the conversion specifiers that are gone from its text.
Specifiers == 4

\* sr: a page for a code.  Without memory for it nothing is written at all.
sr(code) ==
  /\ \/ /\ \E lost \in Losses : built' =
             WithPayload(LookupStatus(code),
               Take("page", PageLen[code]) \o Take("nul", Specifiers), MimeLen[Html], lost)
        /\ at' = "write"
     \/ /\ "oom" \in Faults
        /\ built' = [built EXCEPT !.status = LookupStatus(code)]
        /\ at' = "free"
  /\ UNCHANGED <<writeVars, fp, got, fileVars>>

\* No route for the path.
NotFound == at = "request" /\ sr(404)

\* ContentType: a type by the extension is copied, one that libmagic gives loses
\* its last character to an allocation without room for the NUL.
TypeLen == UNION {{MimeLen[m], MimeLen[m] - 1} : m \in Mime}

\* A handler gave back a string.
Dynamic ==
  /\ at = "request"
  /\ \E n \in LuaSize, t \in TypeLen, lost \in Losses :
       built' = WithPayload(200, Take("lua", n), t, lost)
  /\ at' = "write"
  /\ UNCHANGED <<writeVars, fp, got, fileVars>>

\* A static file: the path is looked at with stat.
Stat ==
  /\ at = "request"
  /\ IF named = NoInode THEN sr(404)
     ELSE IF files[named].kind # "regular"
     THEN at' = "end" /\ UNCHANGED <<writeVars, built, fp, got, fileVars>>
     ELSE IF files[named].size = 0 THEN sr(204)
     ELSE /\ at' = "open" /\ seen' = Named
          /\ UNCHANGED <<writeVars, built, fp, got, named, files, changes, torn>>

\* add_file_to_payload, whose result process_request does not look at.
Fopen ==
  /\ at = "open"
  /\ IF named = NoInode THEN at' = "write" /\ UNCHANGED fp
     ELSE at' = "size" /\ fp' = named
  /\ UNCHANGED <<writeVars, built, got, fileVars>>

FopenFails ==
  /\ "open" \in Faults /\ at = "open"
  /\ at' = "write"
  /\ UNCHANGED <<writeVars, built, fp, got, fileVars>>

\* Mutant: the stream is not wound back from the end that ftell was asked for.
Ftell_NotRewound ==
  /\ at = "size"
  /\ \/ /\ built' = [built EXCEPT !.set = TRUE, !.payload = Junk(files[fp].size)]
        /\ at' = "read" /\ got' = files[fp].size
     \/ /\ files[fp].kind = "directory"
        /\ at' = "aborted" /\ UNCHANGED <<built, got>>
  /\ UNCHANGED <<writeVars, fp, fileVars>>

\* The size of the file is its end now, and the stream is wound back.  The end of a
\* directory may be beyond what can be allocated: fatal.
Ftell ==
  /\ at = "size"
  /\ \/ /\ built' = [built EXCEPT !.set = TRUE, !.payload = Junk(files[fp].size)]
        /\ at' = "read" /\ got' = 0
     \/ /\ files[fp].kind = "directory"
        /\ at' = "aborted" /\ UNCHANGED <<built, got>>
  /\ UNCHANGED <<writeVars, fp, fileVars>>

\* Where fread ends: at the end of the file as it is, or of what it was asked for.
ReadEnd == IF files[fp].size < Len(built.payload) THEN files[fp].size ELSE Len(built.payload)

\* One read(2) of those fread makes, of whatever is there by now.
Fread ==
  /\ at = "read"
  /\ \E n \in got + 1 .. ReadEnd :
       /\ got' = n
       /\ built' = [built EXCEPT !.payload =
                      [k \in DOMAIN @ |-> IF k \in got + 1 .. n
                                         THEN [of |-> files[fp].version, at |-> k] ELSE @[k]]]
  /\ UNCHANGED <<writeVars, at, fp, fileVars>>

\* How much it has read is not looked at.
Fclose ==
  /\ at = "read" /\ got >= ReadEnd
  /\ fp' = NoInode /\ at' = "type"
  /\ UNCHANGED <<writeVars, built, got, fileVars>>

AddHeaders ==
  /\ at = "type"
  /\ \E t \in TypeLen, lost \in Losses :
       built' = WithPayload(built.status, built.payload, t, lost)
  /\ at' = "write"
  /\ UNCHANGED <<writeVars, fp, got, fileVars>>

\* Without a type the payload is dropped.
NoContentType ==
  /\ "oom" \in Faults /\ at = "type"
  /\ built' = [built EXCEPT !.set = FALSE, !.payload = << >>]
  /\ at' = "write"
  /\ UNCHANGED <<writeVars, fp, got, fileVars>>

\* Without memory for the response, its buffer, a payload or the text of a header,
\* log_fatal aborts; for the head that gen_header prints, a null pointer is used.
OutOfMemory ==
  /\ "oom" \in Faults
  /\ at \in {"request", "size", "type"} \/ (at = "write" /\ stage = "idle")
  /\ at' = "aborted"
  /\ UNCHANGED <<writeVars, built, fp, got, fileVars>>

-----------------------------------------------------------------------------
(* Sending *)

\* "%s: %s\r\n"
LineLen(h) == NameLen[h.name] + h.len + 4

Lengths(r) == [head    |-> HeadLen[r.status],
               extra   |-> [k \in DOMAIN r.headers |-> LineLen(r.headers[k])],
               payload |-> r.set,
               len     |-> Len(r.payload)]

write_response ==
  /\ at = "write" /\ res' = Lengths(built) /\ Call
  /\ UNCHANGED <<buildVars, fileVars>>

Sending ==
  /\ at = "write"
  /\ \/ AddHeader \/ HeadersAdded
     \/ WriteHead \/ HeadWritten
     \/ WriteEmptyLine
     \/ WritePayload \/ PayloadWritten
  /\ UNCHANGED <<buildVars, fileVars>>

Sent ==
  /\ at = "write" /\ stage = "done"
  /\ at' = "free"
  /\ UNCHANGED <<writeVars, built, fp, got, fileVars>>

free_response ==
  /\ at = "free"
  /\ at' = "end"
  /\ UNCHANGED <<writeVars, built, fp, got, fileVars>>

ResponseStep ==
  \/ NotFound \/ Dynamic \/ Stat
  \/ Fopen \/ FopenFails \/ Ftell \/ Fread \/ Fclose \/ AddHeaders \/ NoContentType
  \/ OutOfMemory
  \/ write_response \/ Sending \/ Sent \/ free_response

-----------------------------------------------------------------------------
(* Others change the files below the server root, as they like, for as long as it *)
(* matters.                                                                       *)

Changing ==
  /\ at \in {"open", "size", "read"} /\ changes < MaxChanges
  /\ changes' = changes + 1
  /\ UNCHANGED <<writeVars, buildVars>>

\* One is written to, where it is.
Rewrite(n, c) ==
  /\ Changing
  /\ files' = [files EXCEPT ![n] = c]
  /\ c.kind = files[n].kind
  /\ seen' = seen \cup IF n \in {named, fp} THEN {c} ELSE {}
  /\ torn' = (torn \/ (at = "read" /\ n = fp))
  /\ UNCHANGED named

\* The path gets another file, or none.
Rename(n) ==
  /\ Changing
  /\ named' = n
  /\ seen' = seen \cup IF n = NoInode THEN {} ELSE {files[n]}
  /\ UNCHANGED <<files, torn>>

ResponseNext ==
  \/ ResponseStep
  \/ \E n \in Inode, c \in Content : Rewrite(n, c)
  \/ \E n \in Inode \cup {NoInode} : Rename(n)

ResponseSpec == ResponseInit /\ [][ResponseNext]_allVars

\* The child is scheduled, and write(2) returns.
ResponseFairness == WF_allVars(ResponseStep)
FairResponseSpec == ResponseSpec /\ ResponseFairness

-----------------------------------------------------------------------------
\* What a client has got behind the head and the empty line.
Body == LET b == buffer_pos + EmptyLineLen
        IN  [k \in 1 .. Len(wire) - b |-> built.payload[wire[b + k] - b]]

SentAll == stage = "done" /\ clean

\* A client that got everything got as many bytes as the Content-Length it was told,
\* unless they are more than an int counts; and it was told one if there are any and
\* no memory was missing for that very header.
AnnouncedLength ==
  SentAll =>
    LET told == {h \in {built.headers[k] : k \in DOMAIN built.headers} : h.name = "Content-Length"}
    IN  /\ \A h \in told : Len(Body) < IntLimit => Number(h.value) = Len(Body)
        /\ Body # << >> /\ "Content-Length" \notin built.lost => told # {}

\* The byte at place k of what was to be read at the path at some time; or none, if
\* that was too short for one.
OfSome(byte, k) ==
  \E c \in seen : IF byte.of = "junk" THEN k > c.size
                  ELSE k <= c.size /\ byte = [of |-> c.version, at |-> k]

\* Whoever changes the file meanwhile, and however, each byte a client gets is one that
\* was to be read at the path, at the place where it was; and unless somebody wrote
\* into the open file after its size was taken they are all of one version, and all
\* there are.  Replacing the file never harms.
FileAsItWas ==
  SentAll /\ seen # {} /\ built.set =>
    /\ \A k \in DOMAIN Body : OfSome(Body[k], k)
    /\ torn \/ \E c \in seen : Body = Take(c.version, c.size)
=============================================================================

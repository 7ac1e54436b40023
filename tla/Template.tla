------------------------------ MODULE Template ------------------------------
(***************************************************************************)
(* Pages with Lua in them (simpleHttpdLua/template.lua) and the index page *)
(* of a directory (simpleHttpdLua/autoindex.lua).  DoFile resumes a        *)
(* coroutine that reads a page line by line; the lines between <lua> and   *)
(* </lua> are joined without a separator and run as one chunk, whose tags  *)
(* gather in the global current_ret.  Nothing catches between two pages    *)
(* what one of them leaves there.                                          *)
(*                                                                         *)
(* A line of a page is what it is to the coroutine and what it would do as *)
(* Lua; what becomes of it is one token, or one for each round of its loop.*)
(***************************************************************************)
EXTENDS Naturals, Sequences, SequencesExt

CONSTANTS
  Page,      \* the pages a handler may render
  Missing,   \* those io.open does not find
  Lines,     \* what is in a page
  NoPage,    \* nothing is being rendered
  MaxFiles,  \* bound: files of a directory
  MaxPages   \* bound: pages rendered in one Lua state

(***************************************************************************)
(* As code, a line makes a tag; makes one for each file, a loop of its own; *)
(* begins such a loop over the lines behind it, or ends it; makes a tag and *)
(* ends in a comment, which swallows the lines joined to it; ends in a     *)
(* token that does not parse with a line joined to it (x = 1); has a       *)
(* percent sign, which the next string.format takes for a directive; does  *)
(* not parse; or raises an error.  Bound: no loop within a loop.           *)
(***************************************************************************)
Line == [mark : {"none"},
         code : {"tag", "each", "for", "end", "comment", "fuses", "percent", "syntax", "raises"}]
        \cup [mark : {"open", "close"}, code : {"syntax"}]

ASSUME TemplateAssumption ==
  /\ Lines \in [Page -> Seq(Line)]
  /\ \A p \in Page : \A f, i \in DOMAIN Lines[p] :
       f < i /\ Lines[p][f].code = "for" /\ Lines[p][i].code \in {"for", "each"}
         => \E k \in f + 1 .. i - 1 : Lines[p][k].code = "end" \/ Lines[p][k].mark = "close"
  /\ Missing \subseteq Page /\ NoPage \notin Page
  /\ MaxFiles \in Nat /\ MaxPages \in Nat

VARIABLES
  page,           \* the page of the coroutine, if there is one
  files,          \* #args.files
  at,             \* the lines it has read
  dump_code,      \* it is between <lua> and </lua>
  function_code,  \* the lines gathered there
  current_ret,    \* Template.html.current_ret
  ret,            \* the values it has yielded; none is nil
  results,        \* history: what DoFile has returned
  alive           \* Die has not been called

templateVars ==
  <<page, files, at, dump_code, function_code, current_ret, ret, results, alive>>

\* How many files Scan finds for the handler of CreateAutoIndex: none, perhaps.
Contents == 0 .. MaxFiles

\* Part of a page, made by the statement that begins on this line: in this round if it
\* is a loop, or else 0.  Line 0 is the message of an error; run counts the calls of DoFile.
Token == [run : Nat, line : Nat, item : Nat, part : Nat]

TemplateTypeOK ==
  /\ page \in Page \cup {NoPage}
  /\ files \in Contents
  /\ at \in Nat /\ (page # NoPage => at <= Len(Lines[page]))
  /\ dump_code \in BOOLEAN
  /\ function_code \in Seq(Nat)
  /\ current_ret \in Seq(Token)
  /\ ret \in Seq(Seq(Token))
  /\ results \in Seq([page : Page, files : Contents,
                      ret : Seq(Seq(Token)), raised : BOOLEAN])
  /\ alive \in BOOLEAN

TemplateInit ==
  /\ page = NoPage /\ files = 0 /\ at = 0
  /\ dump_code = FALSE /\ function_code = << >>
  /\ current_ret = << >> /\ ret = << >>
  /\ results = << >> /\ alive = TRUE

-----------------------------------------------------------------------------
(* A chunk of code *)

Effect(p, i) == Lines[p][i].code

Run == Len(results) + 1
Message == [run |-> Run, line |-> 0, item |-> 0, part |-> 0]

\* The positions of a chunk whose lines do this.
Where(p, code, what) == {k \in DOMAIN code : Effect(p, code[k]) = what}

Has(p, code, what) == Where(p, code, what) # {}

\* The first of these positions, or the one behind the end.
FirstOf(S, code) == Min(S \cup {Len(code) + 1})

\* What is left of the lines once they are one: nothing behind a comment.
Joined(p, code) ==
  IF Has(p, code, "comment")
  THEN SubSeq(code, 1, FirstOf(Where(p, code, "comment"), code)) ELSE code

\* Where a loop ends that begins at position k.
EndOf(p, code, k) == FirstOf({e \in Where(p, code, "end") : k < e}, code)

\* Position k is behind the beginning of a loop, and not behind its end.
InBody(p, code, k) == \E f \in Where(p, code, "for") : f < k /\ k <= EndOf(p, code, f)

\* load finds a whole program in a chunk.
Parses(p, code) ==
  /\ ~ Has(p, code, "syntax")
  /\ Where(p, code, "fuses") \subseteq {Len(code)}
  /\ \A f \in Where(p, code, "for") : EndOf(p, code, f) <= Len(code)
  /\ \A e \in Where(p, code, "end") : InBody(p, code, e)

\* Line i makes a tag; html_tag appends it to current_ret.
Makes(p, i) == Effect(p, i) \in {"tag", "each", "comment"}

html_tag(p, i, line, item) ==
  IF Makes(p, i) THEN << [run |-> Run, line |-> line, item |-> item, part |-> i] >> ELSE << >>

\* The tags of a loop that begins on a line and has these lines in its body.
Round(p, body, line, item) ==
  FlattenSeq([j \in DOMAIN body |-> html_tag(p, body[j], line, item)])

Loop(p, body, line, rounds) ==
  FlattenSeq([item \in 1 .. rounds |-> Round(p, body, line, item)])

\* The tags of the statement that begins at position k; a loop without an end has not
\* got beyond its first round.
Made(p, code, k) ==
  LET line == code[k]
      end  == EndOf(p, code, k)
  IN  CASE InBody(p, code, k) -> << >>
        [] ~ InBody(p, code, k) /\ Effect(p, line) = "for" ->
             Loop(p, SubSeq(code, k + 1, end - 1), line, IF end <= Len(code) THEN files ELSE 1)
        [] ~ InBody(p, code, k) /\ Effect(p, line) = "each" -> Loop(p, << line >>, line, files)
        [] OTHER -> html_tag(p, line, line, 0)

\* The positions that raise an error; in a loop only if there are rounds of it.
Raising(p, code) == {k \in Where(p, code, "raises") : InBody(p, code, k) => files # 0}

\* Running the chunk, up to the line that raises an error if there is one.
Tags(p, code) ==
  LET done == SubSeq(code, 1, FirstOf(Raising(p, code), code) - 1)
  IN  FlattenSeq([k \in DOMAIN done |-> Made(p, done, k)])

-----------------------------------------------------------------------------
(* DoFile *)

\* Mutant: the message of a first resume that fails is lost.
Returned_NoMessage(p, n, values, raised) ==
  results' = Append(results, [page |-> p, files |-> n, raised |-> raised, ret |-> values])

\* What the caller gets: the values yielded, joined, and the message of the error.
Returned(p, n, values, raised) ==
  results' = Append(results, [page |-> p, files |-> n, raised |-> raised,
                              ret |-> IF raised THEN Append(values, << Message >>) ELSE values])

\* One call; a handler may make several.
DoFile ==
  /\ page = NoPage /\ alive /\ Len(results) < MaxPages
  /\ \E p \in Page, n \in Contents :
       /\ files' = n
       /\ IF p \in Missing
          THEN Returned(p, n, << >>, FALSE) /\ UNCHANGED page
          ELSE page' = p /\ UNCHANGED results
  /\ at' = 0 /\ dump_code' = FALSE /\ function_code' = << >> /\ ret' = << >>
  /\ UNCHANGED <<current_ret, alive>>

\* A line is left, and what it is to the coroutine.
Next(marks) ==
  page # NoPage /\ at < Len(Lines[page]) /\ Lines[page][at + 1].mark \in marks

\* Mutant: the line after the one that is read is lost.
Read_Skips == at' = at + 2

Read == at' = at + 1

\* The coroutine is dead: DoFile returns.
Ended(raised) ==
  /\ Returned(page, files, ret, raised)
  /\ page' = NoPage /\ at' = 0 /\ ret' = << >>
  /\ dump_code' = FALSE /\ function_code' = << >>
  /\ UNCHANGED <<files, alive>>

\* string.format is called on the code gathered so far.
FormatFails == Has(page, function_code, "percent")

Dump ==
  /\ Next({"none", "open"}) /\ dump_code /\ ~ FormatFails
  /\ Read
  /\ function_code' = Append(function_code, at + 1)
  /\ UNCHANGED <<page, files, dump_code, current_ret, ret, results, alive>>

OpenTag ==
  /\ Next({"open"}) /\ ~ dump_code
  /\ Read
  /\ dump_code' = TRUE
  /\ UNCHANGED <<page, files, function_code, current_ret, ret, results, alive>>

TextLine ==
  /\ Next({"none"}) /\ ~ dump_code
  /\ Read
  /\ ret' = Append(ret, << [run |-> Run, line |-> at + 1, item |-> 0, part |-> at + 1] >>)
  /\ UNCHANGED <<page, files, dump_code, function_code, current_ret, results, alive>>

Chunk == Joined(page, function_code)
Runs  == ~ FormatFails /\ Parses(page, Chunk)

\* Mutant: what has been yielded is not taken away.
Yielded_Kept == /\ ret' = Append(ret, current_ret \o Tags(page, Chunk))
                /\ current_ret' = current_ret \o Tags(page, Chunk)

\* current_ret is handed over, and emptied as soon as the coroutine is resumed.
Yielded == /\ ret' = Append(ret, current_ret \o Tags(page, Chunk))
           /\ current_ret' = << >>

\* Mutant: the code is not reset behind its </lua>.
CloseTag_KeepsCode ==
  /\ Next({"close"}) /\ Runs /\ Raising(page, Chunk) = {}
  /\ Read
  /\ Yielded
  /\ dump_code' = FALSE
  /\ UNCHANGED <<page, files, function_code, results, alive>>

\* </lua> runs the code gathered, if any.
CloseTag ==
  /\ Next({"close"}) /\ Runs /\ Raising(page, Chunk) = {}
  /\ Read
  /\ Yielded
  /\ dump_code' = FALSE /\ function_code' = << >>
  /\ UNCHANGED <<page, files, results, alive>>

\* Mutant: the tags made before an error are sent and stay where they are.
CodeRaises_Sends ==
  /\ Next({"close"}) /\ Runs /\ Raising(page, Chunk) # {}
  /\ current_ret' = current_ret \o Tags(page, Chunk)
  /\ Returned(page, files, Append(ret, current_ret'), TRUE)
  /\ page' = NoPage /\ at' = 0 /\ ret' = << >>
  /\ dump_code' = FALSE /\ function_code' = << >>
  /\ UNCHANGED <<files, alive>>

\* An error in the code: the tags made before it stay where they are.
CodeRaises ==
  /\ Next({"close"}) /\ Runs /\ Raising(page, Chunk) # {}
  /\ current_ret' = current_ret \o Tags(page, Chunk)
  /\ Ended(TRUE)

\* string.format raises an error, whatever the next line is, and at the end too.
FormatRaises ==
  /\ page # NoPage /\ FormatFails
  /\ Ended(TRUE)
  /\ UNCHANGED current_ret

\* load returns nil, and Die does not return.
LoadFails ==
  /\ Next({"close"}) /\ ~ FormatFails /\ ~ Parses(page, Chunk)
  /\ Read
  /\ alive' = FALSE /\ page' = NoPage
  /\ UNCHANGED <<files, dump_code, function_code, current_ret, ret, results>>

\* Code that no </lua> follows is dropped.
EndOfFile ==
  /\ page # NoPage /\ at = Len(Lines[page]) /\ ~ FormatFails
  /\ Ended(FALSE)
  /\ UNCHANGED current_ret

TemplateNext ==
  \/ DoFile \/ Dump \/ OpenTag \/ TextLine \/ CloseTag
  \/ CodeRaises \/ FormatRaises \/ LoadFails \/ EndOfFile

TemplateSpec == TemplateInit /\ [][TemplateNext]_templateVars

-----------------------------------------------------------------------------
(* What a page says, line by line and without reading it in order. *)

IsMark(p, i, mark) == Lines[p][i].mark = mark

\* Line i is between <lua> and the next </lua>.
InCode(p, i) ==
  \E j \in 1 .. i - 1 : IsMark(p, j, "open") /\ \A k \in j + 1 .. i - 1 : ~ IsMark(p, k, "close")

\* Line i is code that some </lua> runs, and no comment before it swallows it.
IsRun(p, i) ==
  /\ InCode(p, i) /\ ~ IsMark(p, i, "close")
  /\ \E c \in i + 1 .. Len(Lines[p]) : IsMark(p, c, "close")
  /\ \A k \in 1 .. i - 1 : Effect(p, k) = "comment" /\ InCode(p, k) =>
       \E c \in k + 1 .. i : IsMark(p, c, "close")

\* Line i is behind the beginning f of a loop, and not behind its end.
InLoop(p, f, i) ==
  /\ f < i /\ Effect(p, f) = "for" /\ InCode(p, f)
  /\ \A k \in f + 1 .. i - 1 : Effect(p, k) # "end" /\ ~ IsMark(p, k, "close")

\* What page p shows of n files in one run.
Shown(p, n, run) ==
  LET Says(i, item, part) == [run |-> run, line |-> i, item |-> item, part |-> part]
      lines == DOMAIN Lines[p]
      text  == {i \in lines : ~ InCode(p, i) /\ IsMark(p, i, "none")}
      tags  == {i \in lines : /\ Effect(p, i) \in {"tag", "comment"} /\ IsRun(p, i)
                              /\ ~ \E f \in 1 .. i - 1 : InLoop(p, f, i)}
      each  == {l \in lines \X lines : /\ \/ InLoop(p, l[1], l[2])
                                          \/ l[1] = l[2] /\ Effect(p, l[2]) = "each"
                                       /\ Makes(p, l[2]) /\ IsRun(p, l[2])}
  IN  IF p \in Missing THEN {}
      ELSE {Says(i, 0, i) : i \in text \cup tags}
           \cup {Says(l[1], k, l[2]) : l \in each, k \in 1 .. n}

Before(t, u) ==
  \/ t.line < u.line
  \/ t.line = u.line /\ t.item < u.item
  \/ t.line = u.line /\ t.item = u.item /\ t.part < u.part

\* The text of a result without the message of its error.
Said(k) ==
  LET r == results[k]
  IN  FlattenSeq(IF r.raised THEN SubSeq(r.ret, 1, Len(r.ret) - 1) ELSE r.ret)

\* A page is rendered in the order of its text and statements, each of which is there
\* once: a loop over the files round by round, in every round the tags of its lines in
\* their order.  A page that raises an error is a beginning of that, and the message;
\* whatever was rendered before, unless that has raised one.
RendersPage ==
  \A k \in DOMAIN results : (\A j \in 1 .. k - 1 : ~ results[j].raised) =>
    LET said  == Said(k)
        shown == Shown(results[k].page, results[k].files, k)
    IN  /\ \A i, j \in DOMAIN said : i < j => Before(said[i], said[j])
        /\ Range(said) \subseteq shown
        /\ IF results[k].raised
           THEN /\ Last(results[k].ret) = << [run |-> k, line |-> 0, item |-> 0, part |-> 0] >>
                /\ \A t \in shown \ Range(said), u \in Range(said) : Before(u, t)
           ELSE shown \subseteq Range(said)

\* The handler is given nil, which kills the child, only for a page that is not there
\* or has neither text nor the end of any code; never because of an error.
NilOnlyForNothing ==
  \A k \in DOMAIN results : LET p == results[k].page IN
    results[k].ret = << >> <=>
      /\ ~ results[k].raised
      /\ \/ p \in Missing
         \/ \A i \in DOMAIN Lines[p] :
              ~ IsMark(p, i, "close") /\ (IsMark(p, i, "none") => InCode(p, i))

\* Nothing that code has made is sent twice, even if an error has kept it from being
\* sent with the page it belongs to.
EachOnce ==
  LET sent == FlattenSeq(FlattenSeq([k \in DOMAIN results |-> results[k].ret]))
  IN  \A i, j \in DOMAIN sent : sent[i] = sent[j] => i = j

\* A page finds what another one has made only if an error has been raised before.
LeftoverOnlyAfterRaise ==
  current_ret # << >> => \E k \in DOMAIN results : results[k].raised
=============================================================================

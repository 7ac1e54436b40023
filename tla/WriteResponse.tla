---------------------------- MODULE WriteResponse ----------------------------
(***************************************************************************)
(* write_response (src/write_response.c): a response leaves in writes of   *)
(* at most PIPE_BUF bytes, the head first, then the empty line, then the   *)
(* payload.  What write(2) returns is added up and otherwise ignored: the  *)
(* position advances by what was asked for.                                *)
(*                                                                         *)
(* A byte is its offset in the response, counted from 1.                   *)
(***************************************************************************)
EXTENDS Integers, Sequences

CONSTANTS
  PIPE_BUF,
  SizeLimit,   \* size_t is modulo this number
  Faults       \* what may fail here: write(2) with "short" counts or an "error"

EmptyLineLen == 2

ASSUME SizesAssumption ==
  /\ PIPE_BUF \in Nat /\ PIPE_BUF > EmptyLineLen
  /\ SizeLimit \in Nat \ {0}

\* What write_response gets: the length of the head that gen_header prints, the
\* lengths of the additional header lines, whether there is a payload, and its length.
ResponseRec == [head : Nat, extra : Seq(Nat), payload : BOOLEAN, len : Nat]

VARIABLES
  res,         \* the response it was called for
  stage,       \* "idle", "headers", "head", "empty", "payload" or "done"
  current,     \* the next additional header
  buffer_pos,  \* the length of the head with the additional headers
  i,           \* the position in the part being written
  total_write, \* what will be returned
  wire,        \* history: the bytes the client has been sent
  clean        \* history: every write so far has written everything

writeVars == <<res, stage, current, buffer_pos, i, total_write, wire, clean>>

WriteTypeOK ==
  /\ res \in ResponseRec
  /\ stage \in {"idle", "headers", "head", "empty", "payload", "done"}
  /\ current \in 1 .. Len(res.extra) + 1
  /\ buffer_pos \in Nat /\ i \in Nat
  /\ total_write \in 0 .. SizeLimit - 1
  /\ wire \in Seq(Nat)
  /\ clean \in BOOLEAN

NoResponse == [head |-> 0, extra |-> << >>, payload |-> FALSE, len |-> 0]

WriteInit ==
  /\ res = NoResponse
  /\ stage = "idle" /\ current = 1 /\ buffer_pos = 0
  /\ i = 0 /\ total_write = 0
  /\ wire = << >> /\ clean = TRUE

\* The call for some response, whose head gen_header prints into the buffer.
Call ==
  /\ stage = "idle"
  /\ res' \in ResponseRec
  /\ buffer_pos' = res'.head
  /\ stage' = "headers"
  /\ UNCHANGED <<current, i, total_write, wire, clean>>

\* An additional header is printed into the buffer, and counted at once.
AddHeader ==
  /\ stage = "headers" /\ current <= Len(res.extra)
  /\ buffer_pos' = buffer_pos + res.extra[current]
  /\ total_write' = (total_write + res.extra[current]) % SizeLimit
  /\ current' = current + 1
  /\ UNCHANGED <<res, stage, i, wire, clean>>

HeadersAdded ==
  /\ stage = "headers" /\ current > Len(res.extra)
  /\ stage' = "head"
  /\ UNCHANGED <<res, current, buffer_pos, i, total_write, wire, clean>>

\* The offset at which the part being written begins.
Base == IF stage = "payload" THEN buffer_pos + EmptyLineLen
        ELSE IF stage = "empty" THEN buffer_pos ELSE 0

\* The next n bytes from offset b on.
Bytes(b, n) == [k \in 1 .. n |-> b + k]

\* Mutant: the total is signed, and the -1 of an error is added to it.
WriteSome_Signed(b, size) ==
  \/ /\ wire' = wire \o Bytes(b, size)
     /\ total_write' = (total_write + size) % SizeLimit
     /\ UNCHANGED clean
  \/ /\ "error" \in Faults
     /\ total_write' = total_write - 1
     /\ UNCHANGED wire
     /\ clean' = FALSE

\* One write(2) of the size bytes after offset b.  The -1 of an error is
\* converted to size_t, so that it is never negative, and added.
WriteSome(b, size) ==
  \/ /\ wire' = wire \o Bytes(b, size)
     /\ total_write' = (total_write + size) % SizeLimit
     /\ UNCHANGED clean
  \/ /\ "short" \in Faults
     /\ \E n \in 1 .. size - 1 :
          /\ wire' = wire \o Bytes(b, n)
          /\ total_write' = (total_write + n) % SizeLimit
     /\ clean' = FALSE
  \/ /\ "error" \in Faults
     /\ total_write' = (total_write + SizeLimit - 1) % SizeLimit
     /\ UNCHANGED wire
     /\ clean' = FALSE

Chunk(rest) == IF rest < PIPE_BUF THEN rest ELSE PIPE_BUF

WriteHead ==
  /\ stage = "head" /\ i < buffer_pos
  /\ WriteSome(Base + i, Chunk(buffer_pos - i))
  /\ i' = i + Chunk(buffer_pos - i)
  /\ UNCHANGED <<res, stage, current, buffer_pos>>

HeadWritten ==
  /\ stage = "head" /\ i >= buffer_pos
  /\ stage' = IF res.payload THEN "empty" ELSE "done"
  /\ UNCHANGED <<res, current, buffer_pos, i, total_write, wire, clean>>

\* Mutant: the position is not reset for the payload.
WriteEmptyLine_NoReset ==
  /\ stage = "empty"
  /\ WriteSome(Base, EmptyLineLen)
  /\ stage' = "payload"
  /\ UNCHANGED <<res, current, buffer_pos, i>>

WriteEmptyLine ==
  /\ stage = "empty"
  /\ WriteSome(Base, EmptyLineLen)
  /\ stage' = "payload" /\ i' = 0
  /\ UNCHANGED <<res, current, buffer_pos>>

\* Mutant: every write is from the beginning of the payload.
WritePayload_FromStart ==
  /\ stage = "payload" /\ i < res.len
  /\ WriteSome(Base, Chunk(res.len - i))
  /\ i' = i + Chunk(res.len - i)
  /\ UNCHANGED <<res, stage, current, buffer_pos>>

WritePayload ==
  /\ stage = "payload" /\ i < res.len
  /\ WriteSome(Base + i, Chunk(res.len - i))
  /\ i' = i + Chunk(res.len - i)
  /\ UNCHANGED <<res, stage, current, buffer_pos>>

\* Mutant: the loop goes on while the position is the length, with nothing to write.
PayloadWritten_NotAtEnd ==
  /\ stage = "payload" /\ i > res.len
  /\ stage' = "done"
  /\ UNCHANGED <<res, current, buffer_pos, i, total_write, wire, clean>>

PayloadWritten ==
  /\ stage = "payload" /\ i >= res.len
  /\ stage' = "done"
  /\ UNCHANGED <<res, current, buffer_pos, i, total_write, wire, clean>>

WriteNext ==
  \/ Call \/ AddHeader \/ HeadersAdded
  \/ WriteHead \/ HeadWritten
  \/ WriteEmptyLine
  \/ WritePayload \/ PayloadWritten

WriteSpec == WriteInit /\ [][WriteNext]_writeVars

-----------------------------------------------------------------------------
ResponseLen == buffer_pos + IF res.payload THEN EmptyLineLen + res.len ELSE 0

Position ==
  IF stage \in {"idle", "headers"} THEN 0
  ELSE IF stage = "head" THEN i
  ELSE IF stage = "empty" THEN buffer_pos
  ELSE IF stage = "payload" THEN buffer_pos + EmptyLineLen + i
  ELSE ResponseLen

\* As long as write(2) writes what it is asked to, the client has the bytes of the
\* response from the first up to the one reached, each once and in order; and all
\* of them when write_response returns.
Contiguous == clean => wire = Bytes(0, Position)

\* Short and failed writes leave gaps, but never repeat or reorder a byte.
NeverRepeats == \A j, k \in DOMAIN wire : j < k => wire[j] < wire[k]

\* A call returns: the position advances whatever write(2) returns.
Returns == (stage # "idle") ~> (stage = "done")

\* The returns of -1 are commented "Error writing header" and "Error writing
\* payload", and process_request tests for it; so a write that failed is reported.
ErrorReported ==
  (stage = "done" /\ ~ clean /\ "short" \notin Faults) => total_write = SizeLimit - 1
=============================================================================

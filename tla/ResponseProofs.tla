---------------------------- MODULE ResponseProofs ----------------------------
(***************************************************************************)
(* Proofs about a response from new_response to free_response, for every   *)
(* set of codes, types, files, contents and sizes, every number of changes *)
(* that others make to the files, and every PIPE_BUF.                      *)
(***************************************************************************)
EXTENDS Response, SequenceTheorems, Induction

-----------------------------------------------------------------------------
(* write_response *)

\* n bytes are a sequence of n numbers.
LEMMA BytesSeq ==
  ASSUME NEW b \in Nat, NEW n \in Nat
  PROVE  /\ Bytes(b, n) \in Seq(Nat)
         /\ Len(Bytes(b, n)) = n
         /\ \A k \in 1 .. n : Bytes(b, n)[k] = b + k
BY DEF Bytes

\* The bytes up to a, followed by the n after them, are the bytes up to a + n.
LEMMA BytesConcat ==
  ASSUME NEW a \in Nat, NEW n \in Nat
  PROVE  Bytes(0, a) \o Bytes(a, n) = Bytes(0, a + n)
BY DEF Bytes

\* A chunk is what is left or PIPE_BUF, and never nothing while something is left.
LEMMA ChunkBounds ==
  ASSUME NEW rest \in Nat \ {0}
  PROVE  Chunk(rest) \in 1 .. rest
BY SizesAssumption DEF Chunk, EmptyLineLen

\* Whatever write(2) does, some of what it was given leaves, from the first byte
\* on; all of it if the run is still clean; and the sum stays a size_t.
LEMMA WriteSomeResult ==
  ASSUME WriteTypeOK, NEW b \in Nat, NEW size \in Nat, WriteSome(b, size)
  PROVE  /\ \E n \in 0 .. size : wire' = wire \o Bytes(b, n)
         /\ clean' => clean /\ wire' = wire \o Bytes(b, size)
         /\ clean' \in BOOLEAN
         /\ total_write' \in 0 .. SizeLimit - 1
         /\ wire' \in Seq(Nat)
<1> DEFINE R == \E n \in 0 .. size : wire' = wire \o Bytes(b, n)
<1>a. wire \in Seq(Nat) /\ total_write \in Nat /\ SizeLimit \in Nat \ {0}
  BY SizesAssumption DEF WriteTypeOK
<1>b. \A n \in Nat : wire \o Bytes(b, n) \in Seq(Nat)
  BY <1>a, BytesSeq, ConcatProperties
<1>c. \A m \in Nat : m % SizeLimit \in 0 .. SizeLimit - 1
  BY <1>a
<1>1. CASE /\ wire' = wire \o Bytes(b, size)
           /\ total_write' = (total_write + size) % SizeLimit
           /\ UNCHANGED clean
  <2>1. R
    BY <1>1
  <2>2. total_write' \in 0 .. SizeLimit - 1
    <3>1. total_write + size \in Nat
      BY <1>a
    <3> QED
      BY <1>1, <1>c, <3>1
  <2> QED
    BY <1>1, <1>a, <1>b, <2>1, <2>2 DEF WriteTypeOK
<1>2. CASE \E n \in 1 .. size - 1 :
             /\ wire' = wire \o Bytes(b, n)
             /\ total_write' = (total_write + n) % SizeLimit
             /\ clean' = FALSE
  <2>1. PICK n \in 1 .. size - 1 :
             /\ wire' = wire \o Bytes(b, n)
             /\ total_write' = (total_write + n) % SizeLimit
             /\ clean' = FALSE
    BY <1>2
  <2>2. n \in 0 .. size /\ n \in Nat
    OBVIOUS
  <2>3. R
    BY <2>1, <2>2
  <2>4. total_write' \in 0 .. SizeLimit - 1
    <3>1. total_write + n \in Nat
      BY <1>a, <2>2
    <3> QED
      BY <2>1, <1>c, <3>1
  <2> QED
    BY <2>1, <2>2, <2>3, <2>4, <1>a, <1>b
<1>3. CASE /\ total_write' = (total_write + SizeLimit - 1) % SizeLimit
           /\ UNCHANGED wire
           /\ clean' = FALSE
  <2>1. wire' = wire \o Bytes(b, 0)
    BY <1>3, <1>a DEF Bytes
  <2>2. R
    BY <2>1
  <2>3. total_write' \in 0 .. SizeLimit - 1
    <3>1. total_write + SizeLimit - 1 \in Nat
      BY <1>a
    <3> QED
      BY <1>3, <1>c, <3>1
  <2> QED
    BY <1>3, <1>a, <2>2, <2>3
<1> QED
  BY <1>1, <1>2, <1>3 DEF WriteSome

-----------------------------------------------------------------------------
\* Where the loops are in the part they write.
InPart ==
  /\ stage \in {"idle", "headers"} => i = 0 /\ wire = << >>
  /\ stage = "idle" => current = 1
  /\ stage = "head" => i <= buffer_pos
  /\ stage = "empty" => res.payload
  /\ stage = "payload" => res.payload /\ i <= res.len

\* No byte from beyond the position reached has been sent, and none twice.
UpTo(n) == \A j \in DOMAIN wire : wire[j] <= n

WriteInv ==
  /\ WriteTypeOK
  /\ InPart
  /\ Contiguous
  /\ UpTo(Position)
  /\ NeverRepeats

\* Appending bytes from beyond those sent keeps them in order.
LEMMA AppendAbove ==
  ASSUME wire \in Seq(Nat), NEW a \in Nat, NEW size \in Nat, NEW n \in 0 .. size,
         UpTo(a), NeverRepeats, wire' = wire \o Bytes(a, n)
  PROVE  UpTo(a + size)' /\ NeverRepeats'
<1>1. /\ Bytes(a, n) \in Seq(Nat)
      /\ Len(Bytes(a, n)) = n
      /\ \A k \in 1 .. n : Bytes(a, n)[k] = a + k
  BY BytesSeq
<1>2. /\ wire' \in Seq(Nat)
      /\ Len(wire') = Len(wire) + n
      /\ \A j \in 1 .. Len(wire) + n :
           wire'[j] = IF j <= Len(wire) THEN wire[j] ELSE Bytes(a, n)[j - Len(wire)]
  BY <1>1, ConcatProperties
<1>3. \A j \in 1 .. Len(wire) : wire'[j] = wire[j]
  BY <1>2
<1>4. \A j \in Len(wire) + 1 .. Len(wire) + n : wire'[j] = a + (j - Len(wire))
  BY <1>1, <1>2
<1>5. DOMAIN wire' = 1 .. Len(wire) + n /\ DOMAIN wire = 1 .. Len(wire)
  BY <1>2
<1>6. \A j \in 1 .. Len(wire) : wire[j] \in Nat
  OBVIOUS
<1>7. ASSUME NEW j \in DOMAIN wire' PROVE wire'[j] <= a + size
  <2>1. CASE j \in 1 .. Len(wire)
    BY <2>1, <1>3, <1>5, <1>6 DEF UpTo
  <2>2. CASE j \in Len(wire) + 1 .. Len(wire) + n
    BY <2>2, <1>4
  <2> QED
    BY <2>1, <2>2, <1>5
<1>8. ASSUME NEW j \in DOMAIN wire', NEW k \in DOMAIN wire', j < k
      PROVE  wire'[j] < wire'[k]
  <2>1. CASE k \in 1 .. Len(wire)
    BY <2>1, <1>3, <1>5, <1>8 DEF NeverRepeats
  <2>2. CASE j \in 1 .. Len(wire) /\ k \in Len(wire) + 1 .. Len(wire) + n
    BY <2>2, <1>3, <1>4, <1>5, <1>6 DEF UpTo
  <2>3. CASE j \in Len(wire) + 1 .. Len(wire) + n /\ k \in Len(wire) + 1 .. Len(wire) + n
    BY <2>3, <1>4, <1>8
  <2> QED
    BY <2>1, <2>2, <2>3, <1>5, <1>8
<1> QED
  BY <1>7, <1>8 DEF UpTo, NeverRepeats

\* One write keeps what WriteInv says of the wire, with the position moved on by
\* what the write was asked for.
LEMMA WriteKeepsWire ==
  ASSUME WriteTypeOK, NEW a \in Nat, NEW size \in Nat,
         clean => wire = Bytes(0, a), UpTo(a), NeverRepeats,
         WriteSome(a, size)
  PROVE  /\ (clean => wire = Bytes(0, a + size))'
         /\ UpTo(a + size)'
         /\ NeverRepeats'
<1>1. PICK n \in 0 .. size : wire' = wire \o Bytes(a, n)
  BY WriteSomeResult
<1>2. clean' => clean /\ wire' = wire \o Bytes(a, size)
  BY WriteSomeResult
<1>3. clean' => wire' = Bytes(0, a + size)
  BY <1>2, BytesConcat
<1>4. UpTo(a + size)' /\ NeverRepeats'
  BY <1>1, AppendAbove DEF WriteTypeOK
<1> QED
  BY <1>3, <1>4 DEF Bytes

\* Nothing has been sent yet.
LEMMA InitWriteInv == WriteInit => WriteInv
<1>1. NoResponse \in ResponseRec /\ Len(NoResponse.extra) = 0
  BY DEF NoResponse, ResponseRec
<1> QED
  BY <1>1, SizesAssumption DEF WriteInit, WriteInv, WriteTypeOK, InPart, Contiguous,
     Position, Bytes, UpTo, NeverRepeats

\* Every step of write_response.
LEMMA NextWriteInv == WriteInv /\ [WriteNext]_writeVars => WriteInv'
<1> SUFFICES ASSUME WriteInv, [WriteNext]_writeVars
             PROVE  WriteInv'
  OBVIOUS
<1> USE SizesAssumption
<1>t. /\ buffer_pos \in Nat /\ i \in Nat /\ wire \in Seq(Nat)
      /\ res.head \in Nat /\ res.extra \in Seq(Nat) /\ res.len \in Nat /\ res.payload \in BOOLEAN
      /\ WriteTypeOK /\ InPart /\ UpTo(Position) /\ NeverRepeats
      /\ clean => wire = Bytes(0, Position)
  BY DEF WriteInv, WriteTypeOK, Contiguous, ResponseRec
<1>0. CASE Call
  <2>1. res'.head \in Nat /\ res'.extra \in Seq(Nat) /\ Len(res'.extra) \in Nat
    BY <1>0 DEF Call, ResponseRec
  <2>2. WriteTypeOK'
    BY <1>0, <1>t, <2>1 DEF Call, WriteTypeOK, InPart
  <2>3. InPart' /\ Position' = Position
    BY <1>0, <1>t DEF Call, InPart, Position
  <2> QED
    BY <1>0, <1>t, <2>2, <2>3 DEF Call, WriteInv, Contiguous, UpTo, NeverRepeats, Bytes
<1>1. CASE AddHeader
  <2>e. PICK extra \in Seq(Nat) : extra = res.extra
    BY <1>t
  <2>c. current \in 1 .. Len(extra) /\ Len(extra) \in Nat
    <3>1. current \in 1 .. Len(extra) + 1 /\ current <= Len(extra)
      BY <1>1, <1>t, <2>e DEF AddHeader, WriteTypeOK
    <3> QED
      BY <3>1
  <2>0. extra[current] \in Nat
    BY <2>c
  <2>1. PICK more \in Nat : more = res.extra[current]
    BY <2>e, <2>0
  <2>h. /\ buffer_pos' = buffer_pos + more /\ current' = current + 1
        /\ total_write' = (total_write + more) % SizeLimit
    BY <1>1, <2>1 DEF AddHeader
  <2>2. total_write' \in 0 .. SizeLimit - 1
    <3>1. total_write + more \in Nat
      BY <1>t DEF WriteTypeOK
    <3>2. \A m \in Nat : m % SizeLimit \in 0 .. SizeLimit - 1
      OBVIOUS
    <3> QED
      BY <2>h, <3>1, <3>2
  <2>3. WriteTypeOK'
    <3>1. current' \in 1 .. Len(extra) + 1 /\ buffer_pos' \in Nat
      BY <2>h, <1>t, <2>c
    <3> QED
      BY <1>1, <1>t, <2>e, <2>2, <3>1 DEF AddHeader, WriteTypeOK
  <2>4. InPart' /\ Position' = Position
    BY <1>1, <1>t DEF AddHeader, InPart, Position
  <2> QED
    BY <1>1, <1>t, <2>3, <2>4 DEF AddHeader, WriteInv, Contiguous, UpTo, NeverRepeats, Bytes
<1>2. CASE HeadersAdded
  <2>1. WriteTypeOK'
    BY <1>2, <1>t DEF HeadersAdded, WriteTypeOK
  <2>2. InPart' /\ Position' = Position
    BY <1>2, <1>t DEF HeadersAdded, InPart, Position
  <2> QED
    BY <1>2, <1>t, <2>1, <2>2 DEF HeadersAdded, WriteInv, Contiguous, UpTo, NeverRepeats, Bytes
<1>3. CASE WriteHead
  <2>1. PICK size \in Nat : size = Chunk(buffer_pos - i) /\ size <= buffer_pos - i
    BY <1>3, <1>t, ChunkBounds DEF WriteHead
  <2>2. PICK a \in Nat : a = i
    BY <1>t
  <2>3. Base + i = a /\ Position = a
    BY <1>3, <1>t, <2>2 DEF WriteHead, Base, Position
  <2>4. WriteSome(a, size) /\ i' = a + size /\ UNCHANGED <<res, stage, current, buffer_pos>>
    BY <1>3, <2>1, <2>2, <2>3 DEF WriteHead
  <2>5. InPart' /\ Position' = a + size
    BY <1>3, <1>t, <2>1, <2>2, <2>4 DEF WriteHead, InPart, Position
  <2>6. WriteTypeOK'
    <3>1. /\ clean' \in BOOLEAN
          /\ total_write' \in 0 .. SizeLimit - 1
          /\ wire' \in Seq(Nat)
      BY <1>t, <2>4, WriteSomeResult
    <3> QED
      BY <1>t, <2>4, <3>1 DEF WriteTypeOK
  <2>7. /\ (clean => wire = Bytes(0, a + size))'
        /\ UpTo(a + size)' /\ NeverRepeats'
    BY <1>t, <2>3, <2>4, WriteKeepsWire
  <2> QED
    BY <2>5, <2>6, <2>7 DEF WriteInv, Contiguous, UpTo, Bytes
<1>4. CASE HeadWritten
  <2>1. WriteTypeOK'
    BY <1>4, <1>t DEF HeadWritten, WriteTypeOK
  <2>2. InPart' /\ Position' = Position
    BY <1>4, <1>t DEF HeadWritten, InPart, Position, ResponseLen
  <2> QED
    BY <1>4, <1>t, <2>1, <2>2 DEF HeadWritten, WriteInv, Contiguous, UpTo, NeverRepeats, Bytes
<1>5. CASE WriteEmptyLine
  <2>1. PICK a \in Nat : a = buffer_pos
    BY <1>t
  <2>2. PICK size \in Nat : size = EmptyLineLen
    BY DEF EmptyLineLen
  <2>3. Base = a /\ Position = a
    BY <1>5, <2>1 DEF WriteEmptyLine, Base, Position
  <2>4. WriteSome(a, size)
    BY <1>5, <2>2, <2>3 DEF WriteEmptyLine
  <2>5. InPart' /\ Position' = a + size
    BY <1>5, <1>t, <2>1, <2>2, SizesAssumption DEF WriteEmptyLine, InPart, Position
  <2>6. WriteTypeOK'
    <3>1. /\ clean' \in BOOLEAN
          /\ total_write' \in 0 .. SizeLimit - 1
          /\ wire' \in Seq(Nat)
      BY <1>t, <2>4, WriteSomeResult
    <3> QED
      BY <1>5, <1>t, <3>1 DEF WriteEmptyLine, WriteTypeOK
  <2>7. /\ (clean => wire = Bytes(0, a + size))'
        /\ UpTo(a + size)' /\ NeverRepeats'
    BY <1>t, <2>3, <2>4, WriteKeepsWire
  <2> QED
    BY <2>5, <2>6, <2>7 DEF WriteInv, Contiguous, UpTo, Bytes
<1>6. CASE WritePayload
  <2>1. PICK size \in Nat : size = Chunk(res.len - i) /\ size <= res.len - i
    BY <1>6, <1>t, ChunkBounds DEF WritePayload
  <2>2. PICK a \in Nat : a = buffer_pos + EmptyLineLen + i
    BY <1>t DEF EmptyLineLen
  <2>3. Base + i = a /\ Position = a
    BY <1>6, <1>t, <2>2 DEF WritePayload, Base, Position, EmptyLineLen
  <2>4. WriteSome(a, size) /\ i' = i + size /\ UNCHANGED <<res, stage, current, buffer_pos>>
    BY <1>6, <2>1, <2>3 DEF WritePayload
  <2>5. InPart' /\ Position' = a + size
    BY <1>6, <1>t, <2>1, <2>2, <2>4 DEF WritePayload, InPart, Position, EmptyLineLen
  <2>6. WriteTypeOK'
    <3>1. /\ clean' \in BOOLEAN
          /\ total_write' \in 0 .. SizeLimit - 1
          /\ wire' \in Seq(Nat)
      BY <1>t, <2>4, WriteSomeResult
    <3> QED
      BY <1>t, <2>4, <3>1 DEF WriteTypeOK
  <2>7. /\ (clean => wire = Bytes(0, a + size))'
        /\ UpTo(a + size)' /\ NeverRepeats'
    BY <1>t, <2>3, <2>4, WriteKeepsWire
  <2> QED
    BY <2>5, <2>6, <2>7 DEF WriteInv, Contiguous, UpTo, Bytes
<1>7. CASE PayloadWritten
  <2>1. WriteTypeOK'
    BY <1>7, <1>t DEF PayloadWritten, WriteTypeOK
  <2>2. InPart' /\ Position' = Position
    <3>1. PICK len \in Nat : len = res.len
      BY <1>t
    <3>2. i = len /\ res.payload /\ res' = res
      BY <1>7, <1>t, <3>1 DEF PayloadWritten, InPart
    <3> QED
      BY <1>7, <1>t, <3>1, <3>2 DEF PayloadWritten, InPart, Position, ResponseLen, EmptyLineLen
  <2> QED
    BY <1>7, <1>t, <2>1, <2>2 DEF PayloadWritten, WriteInv, Contiguous, UpTo, NeverRepeats, Bytes
<1>8. CASE UNCHANGED writeVars
  BY <1>8 DEF writeVars, WriteInv, WriteTypeOK, InPart, Contiguous, UpTo, Position,
     ResponseLen, NeverRepeats, Bytes
<1> QED
  BY <1>0, <1>1, <1>2, <1>3, <1>4, <1>5, <1>6, <1>7, <1>8 DEF WriteNext

\* The strengthened invariant, for every behaviour of write_response.
LEMMA WriteInvariance == WriteSpec => []WriteInv
<1> QED
  BY InitWriteInv, NextWriteInv, PTL DEF WriteSpec

\* Every variable of write_response has its type, the sum included: it wraps.
THEOREM WriteTypeCorrect == WriteSpec => []WriteTypeOK
<1>1. WriteInv => WriteTypeOK
  BY DEF WriteInv
<1> QED
  BY <1>1, WriteInvariance, PTL

\* The chunked loops send the response exactly, as long as write(2) is not short.
THEOREM ResponseContiguous == WriteSpec => []Contiguous
<1>1. WriteInv => Contiguous
  BY DEF WriteInv
<1> QED
  BY <1>1, WriteInvariance, PTL

\* Even when it is, or fails, no byte is sent twice or out of order.
THEOREM ResponseNeverRepeats == WriteSpec => []NeverRepeats
<1>1. WriteInv => NeverRepeats
  BY DEF WriteInv
<1> QED
  BY <1>1, WriteInvariance, PTL

-----------------------------------------------------------------------------
(* What the code puts into a response *)

\* Dividing by ten as often as is wanted.
Quotients(f, a, n) ==
  /\ f \in [0 .. n -> Nat] /\ f[0] = a
  /\ \A j \in Nat : j < n => f[j + 1] = f[j] \div 10

\* It can be done for every number, any number of times.
LEMMA QuotientsExist ==
  ASSUME NEW a \in Nat, NEW n \in Nat
  PROVE  \E f : Quotients(f, a, n)
<1> DEFINE T == {k \in Nat : \E f : Quotients(f, a, k)}
<1>1. 0 \in T
  <2>1. PICK f : f = [j \in 0 .. 0 |-> a]
    OBVIOUS
  <2>2. Quotients(f, a, 0)
    BY <2>1 DEF Quotients
  <2> QED
    BY <2>2
<1>2. ASSUME NEW k \in Nat, k \in T PROVE k + 1 \in T
  <2>1. PICK f : Quotients(f, a, k)
    BY <1>2
  <2>2. PICK g : g = [j \in 0 .. k + 1 |-> IF j = k + 1 THEN f[k] \div 10 ELSE f[j]]
    OBVIOUS
  <2>3. /\ k \in 0 .. k /\ 0 \in 0 .. k /\ 0 # k + 1 /\ k + 1 \in 0 .. k + 1
        /\ \A j \in 0 .. k + 1 : j \in 0 .. k \/ j = k + 1
        /\ \A j \in 0 .. k : j \in 0 .. k + 1 /\ j # k + 1
    OBVIOUS
  <2>4. f[k] \div 10 \in Nat /\ \A j \in 0 .. k : f[j] \in Nat
    BY <2>1, <2>3 DEF Quotients
  <2>5. g[k + 1] = f[k] \div 10 /\ \A j \in 0 .. k : g[j] = f[j]
    BY <2>2, <2>3
  <2>6. g \in [0 .. k + 1 -> Nat]
    BY <2>2, <2>3, <2>4
  <2>7. ASSUME NEW j \in Nat, j < k + 1 PROVE g[j + 1] = g[j] \div 10
    <3>1. CASE j = k
      BY <2>3, <2>5, <3>1
    <3>2. CASE j # k
      <4>1. j < k /\ j \in 0 .. k /\ j + 1 \in 0 .. k
        BY <2>7, <3>2
      <4> QED
        BY <2>1, <2>5, <4>1 DEF Quotients
    <3> QED
      BY <3>1, <3>2
  <2>8. Quotients(g, a, k + 1)
    BY <2>1, <2>3, <2>5, <2>6, <2>7 DEF Quotients
  <2> QED
    BY <2>8
<1>3. Nat \subseteq T
  <2> HIDE DEF T
  <2> QED
    BY <1>1, <1>2, SetInduction
<1> QED
  BY <1>3

\* So the loop of itoa_base has them.
LEMMA LeftIs ==
  ASSUME NEW x \in Int
  PROVE  Abs(x) \in Nat /\ Quotients(Left(x), Abs(x), Abs(x) + 1)
<1>1. PICK a \in Nat : a = Abs(x)
  BY DEF Abs
<1>2. PICK f : Quotients(f, a, a + 1)
  BY QuotientsExist
<1> DEFINE left[k \in 0 .. Abs(x) + 1] == IF k = 0 THEN Abs(x) ELSE left[k - 1] \div 10
<1> DEFINE G(h) == [k \in 0 .. Abs(x) + 1 |-> IF k = 0 THEN Abs(x) ELSE h[k - 1] \div 10]
<1>3. f = G(f)
  <2>1. f = [k \in 0 .. a + 1 |-> f[k]] /\ f[0] = a
    BY <1>2 DEF Quotients
  <2>2. ASSUME NEW k \in 0 .. a + 1 PROVE f[k] = IF k = 0 THEN a ELSE f[k - 1] \div 10
    <3>1. CASE k = 0
      BY <2>1, <3>1
    <3>2. CASE k # 0
      <4>1. PICK j \in Nat : j = k - 1 /\ j + 1 = k /\ j < a + 1
        BY <3>2
      <4> QED
        BY <1>2, <3>2, <4>1 DEF Quotients
    <3> QED
      BY <3>1, <3>2
  <2> QED
    BY <1>1, <2>1, <2>2
<1>4. left = G(left)
  <2>1. left = CHOOSE g : g = G(g)
    OBVIOUS
  <2> HIDE DEF G, left
  <2> QED
    BY <1>3, <2>1
<1>5. Left(x) = left
  BY DEF Left
<1> HIDE DEF left
<1>6. PICK g : g = left
  OBVIOUS
<1>7. /\ DOMAIN g = 0 .. a + 1
      /\ \A k \in 0 .. a + 1 : g[k] = IF k = 0 THEN a ELSE g[k - 1] \div 10
  BY <1>1, <1>4, <1>6
<1>8. \A j \in Nat : j < a + 1 => g[j + 1] = g[j] \div 10
  <2> SUFFICES ASSUME NEW j \in Nat, j < a + 1 PROVE g[j + 1] = g[j] \div 10
    OBVIOUS
  <2>1. PICK k \in 0 .. a + 1 : k = j + 1 /\ k # 0 /\ k - 1 = j
    OBVIOUS
  <2> QED
    BY <1>7, <2>1
<1>9. 0 \in 0 .. a + 1 /\ g[0] = a
  BY <1>7
<1> DEFINE T == {k \in Nat : k <= a + 1 => g[k] = f[k]}
<1>10. Nat \subseteq T
  <2>1. 0 \in T
    BY <1>2, <1>9 DEF Quotients
  <2>2. ASSUME NEW k \in Nat, k \in T PROVE k + 1 \in T
    <3> SUFFICES ASSUME k + 1 <= a + 1 PROVE g[k + 1] = f[k + 1]
      OBVIOUS
    <3>1. k < a + 1 /\ k <= a + 1
      OBVIOUS
    <3> QED
      BY <1>2, <1>8, <2>2, <3>1 DEF Quotients
  <2> HIDE DEF T
  <2> QED
    BY <2>1, <2>2, SetInduction
<1>11. g = f
  <2>1. \A k \in 0 .. a + 1 : g[k] = f[k]
    <3>1. \A k \in 0 .. a + 1 : k \in T /\ k <= a + 1
      <4> HIDE DEF T
      <4> QED
        BY <1>10
    <3> QED
      BY <3>1
  <2>2. f = [k \in 0 .. a + 1 |-> f[k]]
    BY <1>2 DEF Quotients
  <2>3. g = [k \in 0 .. a + 1 |-> g[k]]
    BY <1>1, <1>4, <1>6
  <2> QED
    BY <2>1, <2>2, <2>3
<1> QED
  BY <1>1, <1>2, <1>5, <1>6, <1>11

\* Nothing is left after |x| + 1 rounds.
LEMMA LeftEnds ==
  ASSUME NEW a \in Nat, NEW f, Quotients(f, a, a + 1)
  PROVE  f[a + 1] = 0
<1> DEFINE T == {k \in Nat : k <= a + 1 => f[k] = 0 \/ f[k] + k <= a}
<1>1. 0 \in T
  BY DEF Quotients
<1>2. ASSUME NEW k \in Nat, k \in T PROVE k + 1 \in T
  <2> SUFFICES ASSUME k + 1 <= a + 1 PROVE f[k + 1] = 0 \/ f[k + 1] + (k + 1) <= a
    OBVIOUS
  <2>1. k < a + 1 /\ k <= a + 1 /\ k \in 0 .. a + 1
    OBVIOUS
  <2>2. PICK v \in Nat : v = f[k]
    BY <2>1 DEF Quotients
  <2>3. f[k + 1] = v \div 10
    BY <2>1, <2>2 DEF Quotients
  <2>4. v = 0 \/ v + k <= a
    BY <1>2, <2>1, <2>2
  <2>5. v \div 10 = 0 \/ v \div 10 <= v - 1
    OBVIOUS
  <2> QED
    BY <2>3, <2>4, <2>5
<1>3. Nat \subseteq T
  <2> HIDE DEF T
  <2> QED
    BY <1>1, <1>2, SetInduction
<1>4. a + 1 \in T /\ a + 1 \in 0 .. a + 1
  <2> HIDE DEF T
  <2> QED
    BY <1>3
<1>5. f[a + 1] \in Nat
  BY <1>4 DEF Quotients
<1> QED
  BY <1>4, <1>5

\* The loop runs at least once, and until nothing is left.
LEMMA RoundsIs ==
  ASSUME NEW x \in Int
  PROVE  Rounds(x) \in 1 .. Abs(x) + 1 /\ Left(x)[Rounds(x)] = 0
<1>0. PICK a \in Nat : a = Abs(x) /\ \E f : f = Left(x) /\ Quotients(f, a, a + 1)
  BY LeftIs
<1>1. PICK f : a = Abs(x) /\ f = Left(x) /\ Quotients(f, a, a + 1)
  BY <1>0
<1> DEFINE T == {n \in 1 .. a + 1 : f[n] = 0}
<1>2. a + 1 \in T /\ T \in SUBSET Nat
  BY <1>1, LeftEnds
<1>3. PICK n \in T : \A m \in T : n <= m
  <2> HIDE DEF T
  <2> QED
    BY <1>2, Least
<1>4. \A k \in 1 .. n - 1 : f[k] # 0
  <2> SUFFICES ASSUME NEW k \in 1 .. n - 1, f[k] = 0 PROVE FALSE
    OBVIOUS
  <2>1. k \in T /\ ~ (n <= k)
    OBVIOUS
  <2> QED
    BY <1>3, <2>1
<1>5. \E m \in 1 .. Abs(x) + 1 : Left(x)[m] = 0 /\ \A k \in 1 .. m - 1 : Left(x)[k] # 0
  BY <1>1, <1>3, <1>4
<1> HIDE DEF T
<1> QED
  BY <1>5, Zenon DEF Rounds

\* itoa_base makes a text of digits, as many as the loop has rounds.
LEMMA ItoaIs ==
  ASSUME NEW x \in Int
  PROVE  \E n \in Nat : \E f :
           /\ f \in [0 .. n -> Nat] /\ f[0] = Abs(x) /\ f[n] = 0
           /\ \A k \in Nat : k < n => f[k + 1] = f[k] \div 10
           /\ itoa_base(x) \in Text
           /\ itoa_base(x).negative = (x < 0)
           /\ Len(itoa_base(x).digits) = n
           /\ \A k \in 1 .. n : itoa_base(x).digits[k] = f[n - k] % 10
<1>0. PICK a \in Nat : a = Abs(x) /\ \E g : g = Left(x) /\ Quotients(g, a, a + 1)
  BY LeftIs
<1>a. PICK g : a = Abs(x) /\ g = Left(x) /\ Quotients(g, a, a + 1)
  BY <1>0
<1>n. PICK n \in Nat : n = Rounds(x) /\ n \in 1 .. a + 1 /\ g[n] = 0
  <2>1. Rounds(x) \in 1 .. a + 1 /\ g[Rounds(x)] = 0
    BY <1>a, RoundsIs
  <2> QED
    BY <2>1
<1>1. /\ a = Abs(x) /\ g = Left(x) /\ Quotients(g, a, a + 1)
      /\ n = Rounds(x) /\ n \in 1 .. a + 1 /\ g[n] = 0
  BY <1>a, <1>n
<1>2. PICK f : f = [k \in 0 .. n |-> g[k]]
  OBVIOUS
<1>3. \A k \in 0 .. n : k \in 0 .. a + 1 /\ f[k] = g[k] /\ g[k] \in Nat
  BY <1>1, <1>2 DEF Quotients
<1>4. /\ f \in [0 .. n -> Nat] /\ f[0] = a /\ f[n] = 0
      /\ \A k \in Nat : k < n => f[k + 1] = f[k] \div 10
  <2>1. \A k \in Nat : k < n => k \in 0 .. n /\ k + 1 \in 0 .. n /\ k < a + 1
    BY <1>1
  <2>2. 0 \in 0 .. n /\ n \in 0 .. n
    OBVIOUS
  <2> QED
    BY <1>1, <1>2, <1>3, <2>1, <2>2 DEF Quotients
<1> DEFINE d == [k \in 1 .. n |-> f[n - k] % 10]
<1>5. d \in Seq(0 .. 9) /\ Len(d) = n /\ \A k \in 1 .. n : d[k] = f[n - k] % 10
  <2> DEFINE e(k) == f[n - k] % 10
  <2>1. ASSUME NEW k \in 1 .. n PROVE e(k) \in 0 .. 9
    <3>1. n - k \in 0 .. n
      OBVIOUS
    <3>2. f[n - k] \in Nat
      BY <1>4, <3>1
    <3> QED
      BY <3>2
  <2> HIDE DEF e
  <2>2. /\ [k \in 1 .. n |-> e(k)] \in Seq(0 .. 9) /\ Len([k \in 1 .. n |-> e(k)]) = n
        /\ \A k \in 1 .. n : [j \in 1 .. n |-> e(j)][k] = e(k)
    BY <2>1, IsASeq
  <2> QED
    BY <2>2 DEF e
<1>6. d = [k \in 1 .. n |-> g[n - k] % 10]
  <2>1. \A k \in 1 .. n : n - k \in 0 .. n
    OBVIOUS
  <2> QED
    BY <1>3, <2>1
<1>7. itoa_base(x) = [negative |-> x < 0, digits |-> d]
  BY <1>1, <1>6 DEF itoa_base
<1> HIDE DEF d
<1>8. (x < 0) \in BOOLEAN
  OBVIOUS
<1>9. itoa_base(x) \in Text /\ itoa_base(x).negative = (x < 0) /\ itoa_base(x).digits = d
  BY <1>5, <1>7, <1>8 DEF Text
<1> QED
  BY <1>1, <1>4, <1>5, <1>9

\* An int that is large enough keeps the number.
LEMMA ToIntIs ==
  ASSUME NEW n \in Nat
  PROVE  ToInt(n) \in Int /\ (n < IntLimit => ToInt(n) = n)
<1>1. PICK l \in Nat \ {0}, m \in Nat : l = IntLimit /\ m = n + l
  BY ResponseAssumption
<1>2. PICK d \in Nat \ {0} : d = 2 * l
  OBVIOUS
<1>3. m % d \in 0 .. d - 1 /\ (m < d => m % d = m)
  OBVIOUS
<1>4. ToInt(n) = (m % d) - l
  BY <1>1, <1>2 DEF ToInt
<1>5. n < l => m < d /\ m - l = n
  BY <1>1, <1>2
<1> QED
  BY <1>1, <1>3, <1>4, <1>5

\* The header says how long the payload is, in a text that has a length.
LEMMA ContentLengthIs ==
  ASSUME NEW p \in Seq(Byte)
  PROVE  /\ ContentLengthHeader(p) \in Header
         /\ ContentLengthHeader(p).name = "Content-Length"
         /\ ContentLengthHeader(p).value = itoa_base(ToInt(Len(p)))
<1>1. PICK x \in Int : x = ToInt(Len(p))
  BY ToIntIs
<1>2. PICK text : text = itoa_base(x)
  OBVIOUS
<1>3. text \in Text /\ Len(text.digits) \in Nat
  BY <1>2, ItoaIs
<1>4. ContentLengthHeader(p) =
        [name |-> "Content-Length", value |-> text,
         len  |-> Len(text.digits) + IF text.negative THEN 1 ELSE 0]
  BY <1>1, <1>2 DEF ContentLengthHeader
<1>5. PICK sign \in {0, 1} : sign = IF text.negative THEN 1 ELSE 0
  <2>1. (IF text.negative THEN 1 ELSE 0) \in {0, 1}
    BY Zenon
  <2> QED
    BY <2>1
<1>6. PICK m \in Nat : m = Len(text.digits) + sign
  BY <1>3
<1>7. ContentLengthHeader(p) = [name |-> "Content-Length", value |-> text, len |-> m]
  BY <1>4, <1>5, <1>6
<1> QED
  BY <1>1, <1>2, <1>3, <1>7 DEF Header, Name

\* Neither the types that are copied nor those that lose a character are negative.
LEMMA TypeLenNat == TypeLen \subseteq Nat
<1>1. \A m \in Mime : MimeLen[m] \in Nat \ {0}
  BY ResponseAssumption
<1> QED
  BY <1>1 DEF TypeLen

\* The pieces of a payload are sequences of bytes, of the length asked for.
LEMMA PiecesSeq ==
  ASSUME NEW n \in Nat, NEW of \in Origin
  PROVE  /\ Take(of, n) \in Seq(Byte) /\ Len(Take(of, n)) = n
         /\ \A k \in 1 .. n : Take(of, n)[k] = [of |-> of, at |-> k]
         /\ Junk(n) \in Seq(Byte) /\ Len(Junk(n)) = n
BY DEF Take, Junk, Byte, Origin

\* Whatever is lost, the headers there are come from add_header, one after the other;
\* the one with the length is among them unless it is lost itself.
LEMMA AddedAre ==
  ASSUME NEW a \in Header, NEW b \in Header, NEW lost
  PROVE  /\ Added(a, lost) \o Added(b, lost) \in {<< >>, <<a>>, <<b>>, <<a, b>>}
         /\ b.name \notin lost => Added(a, lost) \o Added(b, lost) \in {<<b>>, <<a, b>>}
         /\ Added(a, lost) \o Added(b, lost) \in Seq(Header)
<1>1. CASE a.name \in lost /\ b.name \in lost
  <2>1. Added(a, lost) = << >> /\ Added(b, lost) = << >>
    BY <1>1 DEF Added
  <2>2. << >> \o << >> = << >>
    OBVIOUS
  <2>3. << >> \in Seq(Header)
    OBVIOUS
  <2> QED
    BY <1>1, <2>1, <2>2, <2>3
<1>2. CASE a.name \in lost /\ b.name \notin lost
  <2>1. Added(a, lost) = << >> /\ Added(b, lost) = <<b>>
    BY <1>2 DEF Added
  <2>2. << >> \o <<b>> = <<b>> /\ <<b>> \in Seq(Header)
    OBVIOUS
  <2> QED
    BY <2>1, <2>2
<1>3. CASE a.name \notin lost /\ b.name \in lost
  <2>1. Added(a, lost) = <<a>> /\ Added(b, lost) = << >>
    BY <1>3 DEF Added
  <2>2. <<a>> \o << >> = <<a>> /\ <<a>> \in Seq(Header)
    OBVIOUS
  <2> QED
    BY <1>3, <2>1, <2>2
<1>4. CASE a.name \notin lost /\ b.name \notin lost
  <2>1. Added(a, lost) = <<a>> /\ Added(b, lost) = <<b>>
    BY <1>4 DEF Added
  <2>2. <<a>> \in Seq(Header) /\ <<b>> \in Seq(Header) /\ <<a, b>> \in Seq(Header)
    OBVIOUS
  <2>a. PICK s \in Seq(Header), t \in Seq(Header) :
          s = <<a>> /\ Len(s) = 1 /\ s[1] = a /\ t = <<b>> /\ Len(t) = 1 /\ t[1] = b
    BY <2>2
  <2>3. /\ s \o t \in Seq(Header) /\ Len(s \o t) = Len(s) + Len(t)
        /\ \A k \in 1 .. Len(s) + Len(t) :
             (s \o t)[k] = IF k <= Len(s) THEN s[k] ELSE t[k - Len(s)]
    BY ConcatProperties
  <2>4. PICK hs \in Seq(Header) :
          hs = s \o t /\ Len(hs) = 2 /\ hs[1] = a /\ hs[2] = b
    <3>1. PICK hs \in Seq(Header) : hs = s \o t
      BY <2>3
    <3>2. /\ Len(hs) = Len(s) + Len(t)
          /\ \A k \in 1 .. Len(s) + Len(t) : hs[k] = IF k <= Len(s) THEN s[k] ELSE t[k - Len(s)]
      BY <2>3, <3>1
    <3>3. PICK m \in Nat, n \in Nat :
            m = Len(s) /\ n = Len(t) /\ m = 1 /\ n = 1 /\ s[1] = a /\ t[1] = b
      BY <2>a
    <3>4. Len(hs) = 2
      BY <3>2, <3>3
    <3>5. hs[1] = s[1] /\ hs[2] = t[1]
      BY <3>2, <3>3
    <3> QED
      BY <3>1, <3>3, <3>4, <3>5
  <2>b. PICK ab \in Seq(Header) : ab = <<a, b>> /\ Len(ab) = 2 /\ ab[1] = a /\ ab[2] = b
    BY <2>2
  <2>5. hs = ab
    <3>1. \A k \in 1 .. 2 : hs[k] = ab[k]
      BY <2>4, <2>b
    <3>2. Len(hs) = 2 /\ Len(ab) = 2
      BY <2>4, <2>b
    <3> QED
      BY <3>1, <3>2, SeqEqual
  <2> QED
    BY <2>1, <2>2, <2>a, <2>4, <2>b, <2>5
<1> QED
  BY <1>1, <1>2, <1>3, <1>4

\* The header with the type says nothing of a length.
LEMMA ContentTypeIs ==
  ASSUME NEW n \in Nat
  PROVE  ContentTypeHeader(n) \in Header /\ ContentTypeHeader(n).name = "Content-Type"
<1>1. << >> \in Seq(0 .. 9)
  OBVIOUS
<1>2. [negative |-> FALSE, digits |-> << >>] \in Text
  BY <1>1 DEF Text
<1> QED
  BY <1>2 DEF ContentTypeHeader, Header, Name

\* A response_t the code can have built.
Parts(r) ==
  /\ r = [status |-> r.status, headers |-> r.headers, lost |-> r.lost,
          set |-> r.set, payload |-> r.payload]
  /\ r.status \in Code /\ r.set \in BOOLEAN /\ r.payload \in Seq(Byte)
  /\ r.headers \in Seq(Header) /\ r.lost \in SUBSET Name

\* With a payload and its headers it is still one.
LEMMA WithPayloadParts ==
  ASSUME NEW status \in Code, NEW payload \in Seq(Byte), NEW n \in Nat, NEW lost \in Losses
  PROVE  /\ Parts(WithPayload(status, payload, n, lost))
         /\ WithPayload(status, payload, n, lost).set = TRUE
         /\ WithPayload(status, payload, n, lost).payload = payload
<1>1. PICK hs \in Seq(Header) :
        hs = Added(ContentTypeHeader(n), lost) \o Added(ContentLengthHeader(payload), lost)
  BY AddedAre, ContentTypeIs, ContentLengthIs
<1>2. lost \in SUBSET Name
  BY DEF Losses
<1>3. WithPayload(status, payload, n, lost) =
        [status |-> status, set |-> TRUE, payload |-> payload, lost |-> lost, headers |-> hs]
  BY <1>1 DEF WithPayload
<1> QED
  BY <1>2, <1>3 DEF Parts

\* What is built is a response that write_response can be called for.
LEMMA LengthsOfParts ==
  ASSUME NEW r, Parts(r)
  PROVE  /\ Lengths(r) \in ResponseRec
         /\ Lengths(r).payload = r.set /\ Lengths(r).len = Len(r.payload)
<1>1. HeadLen[r.status] \in Nat /\ r.set \in BOOLEAN /\ Len(r.payload) \in Nat
  BY ResponseAssumption DEF Parts
<1> DEFINE extra == [k \in DOMAIN r.headers |-> LineLen(r.headers[k])]
<1>2. extra \in Seq(Nat)
  <2>1. PICK n \in Nat, hs \in Seq(Header) :
          hs = r.headers /\ n = Len(hs) /\ DOMAIN hs = 1 .. n
    BY DEF Parts
  <2>2. ASSUME NEW k \in 1 .. n PROVE LineLen(hs[k]) \in Nat
    <3>1. PICK h \in Header : h = hs[k]
      BY <2>1
    <3>2. h.len \in Nat /\ NameLen[h.name] \in Nat
      BY ResponseAssumption DEF Header
    <3>3. LineLen(h) \in Nat
      BY <3>2 DEF LineLen
    <3> QED
      BY <3>1, <3>3
  <2>3. extra = [k \in 1 .. n |-> LineLen(hs[k])]
    BY <2>1
  <2> DEFINE e(k) == LineLen(hs[k])
  <2> HIDE DEF e
  <2>4. [k \in 1 .. n |-> e(k)] \in Seq(Nat)
    BY <2>2, IsASeq DEF e
  <2> QED
    BY <2>3, <2>4 DEF e
<1>3. Lengths(r) = [head |-> HeadLen[r.status], extra |-> extra,
                    payload |-> r.set, len |-> Len(r.payload)]
  BY DEF Lengths
<1> HIDE DEF extra
<1> QED
  BY <1>1, <1>2, <1>3 DEF ResponseRec

-----------------------------------------------------------------------------
(* The invariant *)

\* The file system's side has its types.
Disk ==
  /\ at \in Where
  /\ fp \in Inode \cup {NoInode} /\ named \in Inode \cup {NoInode} /\ got \in Nat
  /\ files \in [Inode -> Content]
  /\ torn \in BOOLEAN

\* Every byte of a file's payload is one of the file at some time, and they are one
\* version of it, whole, if nobody wrote into the reading.
Whole ==
  built.set /\ seen # {} =>
    /\ \A k \in 1 .. Len(built.payload) : OfSome(built.payload[k], k)
    /\ torn \/ \E c \in seen : built.payload = Take(c.version, c.size)

\* What the reads so far have got; behind that is what malloc left.
ReadSoFar ==
  /\ got <= Len(built.payload)
  /\ \A k \in 1 .. Len(built.payload) :
       IF k <= got THEN OfSome(built.payload[k], k) ELSE built.payload[k].of = "junk"
  /\ ~ torn =>
       /\ Len(built.payload) = files[fp].size
       /\ \A k \in 1 .. got : built.payload[k] = [of |-> files[fp].version, at |-> k]

\* What is known of the file while it is read.
Reading ==
  /\ at = "request" => seen = {}
  /\ at \in {"request", "open", "size"} => ~ built.set
  /\ at \in {"open", "size", "read"} /\ named # NoInode => files[named] \in seen
  /\ at \in {"size", "read"} => fp \in Inode /\ files[fp] \in seen
  /\ at \in {"read", "type"} => built.set
  /\ at \in {"request", "open", "size"} => ~ torn
  /\ at = "read" => ReadSoFar
  /\ at \notin {"request", "open", "size", "read"} => Whole

\* What has been handed to write_response is built no further.
Handed == stage # "idle" => res = Lengths(built) /\ at \in {"write", "free", "end"}

BuildInv == Disk /\ Parts(built) /\ Reading /\ Handed

\* new_response: an empty response, and files nobody has changed since stat.
LEMMA InitBuildInv == ResponseInit => BuildInv
<1> SUFFICES ASSUME ResponseInit PROVE BuildInv
  OBVIOUS
<1>1. Parts(built)
  BY ResponseAssumption DEF ResponseInit, NewResponse, Parts
<1> QED
  BY <1>1 DEF ResponseInit, NewResponse, BuildInv, Disk, Where, Reading, Handed, WriteInit

\* sr's page is a payload.
LEMMA PagesSeq ==
  ASSUME NEW code \in {204, 404}
  PROVE  Take("page", PageLen[code]) \o Take("nul", Specifiers) \in Seq(Byte)
<1>1. PageLen[code] \in Nat /\ Specifiers \in Nat
  BY ResponseAssumption DEF Specifiers
<1>2. "page" \in Origin /\ "nul" \in Origin
  BY DEF Origin
<1>3. Take("page", PageLen[code]) \in Seq(Byte) /\ Take("nul", Specifiers) \in Seq(Byte)
  BY <1>1, <1>2, PiecesSeq
<1> QED
  BY <1>3, ConcatProperties

\* sr's page, or the response without it.
LEMMA SrBuildInv ==
  ASSUME BuildInv, NEW code \in {204, 404}, at = "request", sr(code)
  PROVE  BuildInv'
<1>1. LookupStatus(code) \in Code /\ code \in Code
  BY ResponseAssumption DEF LookupStatus
<1>2. MimeLen[Html] \in Nat
  BY ResponseAssumption
<1>4. Take("page", PageLen[code]) \o Take("nul", Specifiers) \in Seq(Byte)
  BY PagesSeq
<1>5. Parts(built)' /\ at' \in {"write", "free"}
  <2>1. CASE (\E lost \in Losses : built' = WithPayload(LookupStatus(code),
                Take("page", PageLen[code]) \o Take("nul", Specifiers), MimeLen[Html], lost))
             /\ at' = "write"
    <3>1. PICK page \in Seq(Byte) :
            page = Take("page", PageLen[code]) \o Take("nul", Specifiers)
      BY <1>4
    <3>2. PICK lost \in Losses : built' = WithPayload(LookupStatus(code), page, MimeLen[Html], lost)
      BY <2>1, <3>1
    <3>3. PICK n \in Nat : n = MimeLen[Html]
      BY <1>2
    <3>4. PICK status \in Code : status = LookupStatus(code)
      BY <1>1
    <3>5. Parts(WithPayload(status, page, n, lost))
      BY WithPayloadParts
    <3> QED
      BY <2>1, <3>2, <3>3, <3>4, <3>5
  <2>2. CASE built' = [built EXCEPT !.status = LookupStatus(code)] /\ at' = "free"
    BY <2>2, <1>1 DEF BuildInv, Parts
  <2> QED
    BY <2>1, <2>2 DEF sr
<1>6. UNCHANGED <<res, stage, fp, got, named, files, seen, torn>>
  BY DEF sr, writeVars, fileVars
<1>7. stage = "idle" /\ seen = {}
  BY DEF BuildInv, Handed, Reading
<1>8. Disk'
  BY <1>5, <1>6 DEF BuildInv, Disk, Where
<1>9. Reading' /\ Handed'
  BY <1>5, <1>6, <1>7 DEF Reading, Handed, Whole
<1> QED
  BY <1>5, <1>8, <1>9 DEF BuildInv

\* A step that neither reads nor builds.
LEMMA QuietBuildInv ==
  ASSUME BuildInv, UNCHANGED <<built, fileVars>>, fp' = fp, got' = got,
         at' = at \/ (at \in {"write", "free"} /\ at' \in {"free", "end"}),
         UNCHANGED <<stage, res>>
           \/ (at = "write" /\ at' = at /\ res' = Lengths(built))
           \/ (at = "write" /\ at' = at /\ res' = res /\ stage # "idle")
  PROVE  BuildInv'
<1>1. UNCHANGED <<built, fp, got, named, files, seen, torn>>
  BY DEF fileVars
<1>2. Disk' /\ Parts(built)'
  BY <1>1 DEF BuildInv, Disk, Where
<1>3. Reading'
  BY <1>1 DEF BuildInv, Reading, ReadSoFar, Whole, OfSome
<1>4. Handed'
  BY <1>1 DEF BuildInv, Handed
<1> QED
  BY <1>2, <1>3, <1>4 DEF BuildInv

\* What one file's content is made of.
LEMMA ContentIs ==
  ASSUME NEW c \in Content
  PROVE  c.size \in Nat /\ c.version \in Version
<1>1. CASE c \in [kind : {"regular"}, version : Version, size : FileSize]
  BY <1>1, ResponseAssumption
<1>2. CASE c \in [kind : {"directory"}, version : Version, size : {0}]
  <2>1. c.size \in {0} /\ c.version \in Version
    BY <1>2
  <2> QED
    BY <2>1
<1> QED
  BY <1>1, <1>2 DEF Content

\* One read(2) of fread: what it gets is of the file as it is now.
LEMMA FreadBuildInv ==
  ASSUME BuildInv, Fread
  PROVE  BuildInv'
<1>i. Disk /\ Parts(built) /\ Reading /\ Handed
  BY DEF BuildInv
<1>1. /\ at = "read" /\ fp \in Inode /\ files[fp] \in seen /\ built.set /\ ReadSoFar
      /\ UNCHANGED <<at, fp, named, files, seen, torn, stage, res>>
  BY <1>i DEF Fread, Reading, writeVars, fileVars
<1>2. PICK c : c = files[fp] /\ c \in seen /\ c.size \in Nat /\ c.version \in Version
  BY <1>1, <1>i, ContentIs DEF Disk
<1>3. PICK old \in Seq(Byte), len \in Nat, g \in Nat :
        old = built.payload /\ len = Len(old) /\ DOMAIN old = 1 .. len /\ g = got
  BY <1>i DEF Parts, Disk
<1>4. PICK n \in g + 1 .. ReadEnd :
        /\ got' = n
        /\ built' = [built EXCEPT !.payload =
             [k \in DOMAIN @ |-> IF k \in g + 1 .. n THEN [of |-> c.version, at |-> k] ELSE @[k]]]
  BY <1>2, <1>3 DEF Fread
<1>5. n \in Nat /\ n <= len /\ n <= c.size /\ g < n
  BY <1>2, <1>3, <1>4 DEF ReadEnd
<1> DEFINE e(k) == IF k \in g + 1 .. n THEN [of |-> c.version, at |-> k] ELSE old[k]
<1>6. PICK new : new = [k \in 1 .. len |-> e(k)]
  OBVIOUS
<1>7. built' = [status |-> built.status, headers |-> built.headers, lost |-> built.lost,
                set |-> built.set, payload |-> new]
  BY <1>i, <1>3, <1>4, <1>6 DEF Parts
<1>8. \A k \in 1 .. len : e(k) \in Byte
  <2>1. \A k \in 1 .. len : old[k] \in Byte
    BY <1>3
  <2>2. \A k \in 1 .. len : [of |-> c.version, at |-> k] \in Byte
    BY <1>2 DEF Byte, Origin
  <2> QED
    BY <2>1, <2>2
<1>9. /\ \A k \in g + 1 .. n : e(k) = [of |-> c.version, at |-> k]
      /\ \A k \in 1 .. len : k \notin g + 1 .. n => e(k) = old[k]
  OBVIOUS
<1> HIDE DEF e
<1>10. new \in Seq(Byte) /\ Len(new) = len /\ \A k \in 1 .. len : new[k] = e(k)
  BY <1>6, <1>8, IsASeq
<1>11. Parts(built')
  BY <1>i, <1>7, <1>10 DEF Parts
<1>12. Disk'
  BY <1>i, <1>1, <1>4, <1>5 DEF Disk
<1>13. c.version # "junk"
  BY <1>2, ResponseAssumption
<1>14. ASSUME NEW k \in 1 .. len
       PROVE  IF k <= n THEN OfSome(new[k], k) ELSE new[k].of = "junk"
  <2>1. CASE k <= g
    <3>1. OfSome(old[k], k) /\ new[k] = old[k] /\ k <= n
      BY <2>1, <1>1, <1>3, <1>5, <1>9, <1>10 DEF ReadSoFar
    <3> QED
      BY <3>1
  <2>2. CASE k \in g + 1 .. n
    <3>1. new[k] = [of |-> c.version, at |-> k] /\ k <= c.size /\ k <= n
      BY <2>2, <1>2, <1>3, <1>5, <1>9, <1>10
    <3>2. new[k].of # "junk"
      BY <3>1, <1>13
    <3> QED
      BY <3>1, <3>2, <1>2 DEF OfSome
  <2>3. CASE k > n
    <3>1. old[k].of = "junk" /\ new[k] = old[k] /\ ~ (k <= n)
      BY <2>3, <1>1, <1>3, <1>5, <1>9, <1>10 DEF ReadSoFar
    <3> QED
      BY <3>1
  <2> QED
    BY <2>1, <2>2, <2>3, <1>3, <1>5
<1>15. ~ torn => /\ len = c.size
                 /\ \A k \in 1 .. n : new[k] = [of |-> c.version, at |-> k]
  <2> SUFFICES ASSUME ~ torn
               PROVE  /\ len = c.size
                      /\ \A k \in 1 .. n : new[k] = [of |-> c.version, at |-> k]
    OBVIOUS
  <2>1. len = c.size /\ \A k \in 1 .. g : old[k] = [of |-> c.version, at |-> k]
    BY <1>1, <1>2, <1>3 DEF ReadSoFar
  <2>2. ASSUME NEW k \in 1 .. n PROVE new[k] = [of |-> c.version, at |-> k]
    <3>1. k \in 1 .. len /\ (k \in 1 .. g \/ k \in g + 1 .. n) /\ (k \in 1 .. g => k \notin g + 1 .. n)
      BY <1>5
    <3> QED
      BY <3>1, <2>1, <1>9, <1>10
  <2> QED
    BY <2>1, <2>2
<1>16. ReadSoFar'
  <2>1. built'.payload = new /\ files'[fp'] = c /\ torn' = torn /\ seen' = seen /\ got' = n
    BY <1>1, <1>2, <1>4, <1>7
  <2> QED
    BY <2>1, <1>5, <1>10, <1>14, <1>15 DEF ReadSoFar, OfSome
<1>17. Reading' /\ Handed'
  BY <1>i, <1>1, <1>7, <1>16 DEF Reading, Handed
<1> QED
  BY <1>11, <1>12, <1>17 DEF BuildInv

\* fread is done: there is no more of the file, or no room for more.
LEMMA FcloseBuildInv ==
  ASSUME BuildInv, Fclose
  PROVE  BuildInv'
<1>i. Disk /\ Parts(built) /\ Reading /\ Handed
  BY DEF BuildInv
<1>1. /\ at = "read" /\ fp \in Inode /\ files[fp] \in seen /\ built.set /\ ReadSoFar
      /\ got >= ReadEnd /\ at' = "type" /\ fp' = NoInode
      /\ UNCHANGED <<built, got, named, files, seen, torn, stage, res>>
  BY <1>i DEF Fclose, Reading, writeVars, fileVars
<1>2. PICK c : c = files[fp] /\ c \in seen /\ c.size \in Nat /\ c.version \in Version
  BY <1>1, <1>i, ContentIs DEF Disk
<1>3. PICK p \in Seq(Byte), len \in Nat, g \in Nat :
        p = built.payload /\ len = Len(p) /\ DOMAIN p = 1 .. len /\ g = got
  BY <1>i DEF Parts, Disk
<1>4. g <= len /\ (g = len \/ g >= c.size)
  BY <1>1, <1>2, <1>3 DEF ReadSoFar, ReadEnd
<1>5. ASSUME NEW k \in 1 .. len PROVE OfSome(p[k], k)
  <2>1. CASE k <= g
    BY <2>1, <1>1, <1>3 DEF ReadSoFar
  <2>2. CASE k > g
    <3>1. p[k].of = "junk"
      BY <2>2, <1>1, <1>3 DEF ReadSoFar
    <3>2. k > c.size
      BY <2>2, <1>2, <1>3, <1>4
    <3> QED
      BY <3>1, <3>2, <1>2 DEF OfSome
  <2> QED
    BY <2>1, <2>2, <1>3
<1>6. ~ torn => p = Take(c.version, c.size)
  <2> SUFFICES ASSUME ~ torn PROVE p = Take(c.version, c.size)
    OBVIOUS
  <2>1. len = c.size /\ \A k \in 1 .. g : p[k] = [of |-> c.version, at |-> k]
    BY <1>1, <1>2, <1>3 DEF ReadSoFar
  <2>2. g = len
    BY <2>1, <1>2, <1>3, <1>4
  <2>3. p = [k \in 1 .. len |-> p[k]]
    BY <1>3
  <2> QED
    BY <2>1, <2>2, <2>3 DEF Take
<1>7. Whole
  BY <1>2, <1>3, <1>5, <1>6 DEF Whole
<1>8. Whole'
  BY <1>1, <1>7 DEF Whole, OfSome
<1>9. Disk' /\ Parts(built)'
  BY <1>i, <1>1 DEF Disk, Where
<1>10. Reading' /\ Handed'
  BY <1>i, <1>1, <1>8 DEF Reading, Handed
<1> QED
  BY <1>9, <1>10 DEF BuildInv

\* The steps that build.
LEMMA BuildingBuildInv ==
  ASSUME BuildInv,
         \/ NotFound \/ Dynamic \/ Stat \/ Fopen \/ FopenFails \/ Ftell \/ Fread \/ Fclose
         \/ AddHeaders \/ NoContentType \/ OutOfMemory
  PROVE  BuildInv'
<1>i. Disk /\ Parts(built) /\ Reading /\ Handed
  BY DEF BuildInv
<1>n. at \in {"request", "open", "size", "read", "type"} => stage = "idle"
  BY <1>i DEF Handed
<1>p. /\ built.status \in Code /\ built.set \in BOOLEAN /\ built.payload \in Seq(Byte)
      /\ built.headers \in Seq(Header) /\ built.lost \in SUBSET Name
      /\ built = [status |-> built.status, headers |-> built.headers, lost |-> built.lost,
                  set |-> built.set, payload |-> built.payload]
  BY <1>i DEF Parts
<1>1. CASE NotFound
  BY <1>1, SrBuildInv DEF NotFound
<1>2. CASE Dynamic
  <2>1. PICK n \in LuaSize, t \in TypeLen, lost \in Losses :
          built' = WithPayload(200, Take("lua", n), t, lost)
    BY <1>2 DEF Dynamic
  <2>2. n \in Nat /\ t \in Nat /\ 200 \in Code /\ "lua" \in Origin
    BY TypeLenNat, ResponseAssumption DEF Origin
  <2>3. Take("lua", n) \in Seq(Byte)
    BY <2>2, PiecesSeq
  <2>4. Parts(built')
    BY <2>1, <2>2, <2>3, WithPayloadParts
  <2>5. Disk' /\ Reading' /\ Handed'
    BY <1>2, <1>i, <1>n DEF Dynamic, Disk, Where, Reading, Handed, Whole, writeVars, fileVars
  <2> QED
    BY <2>4, <2>5 DEF BuildInv
<1>3. CASE Stat
  <2>1. CASE named = NoInode
    BY <2>1, <1>3, SrBuildInv DEF Stat
  <2>2. CASE named # NoInode /\ files[named].kind # "regular"
    BY <2>2, <1>3, <1>i, <1>n
    DEF Stat, BuildInv, Disk, Where, Reading, Handed, Whole, writeVars, fileVars
  <2>3. CASE named # NoInode /\ files[named].kind = "regular" /\ files[named].size = 0
    BY <2>3, <1>3, SrBuildInv DEF Stat
  <2>4. CASE named # NoInode /\ files[named].kind = "regular" /\ files[named].size # 0
    <3>1. /\ at = "request" /\ at' = "open" /\ seen' = {files[named]}
          /\ UNCHANGED <<writeVars, built, fp, got, named, files, changes, torn>>
      BY <2>4, <1>3 DEF Stat, Named
    <3>2. Disk' /\ Parts(built)'
      BY <3>1, <1>i DEF Disk, Where
    <3>3. Reading' /\ Handed'
      BY <3>1, <1>i, <1>n DEF Reading, Handed, writeVars
    <3> QED
      BY <3>2, <3>3 DEF BuildInv
  <2> QED
    BY <2>1, <2>2, <2>3, <2>4
<1>4. CASE Fopen
  <2>1. Disk' /\ Parts(built)'
    BY <1>4, <1>i DEF Fopen, Disk, Where, fileVars
  <2>2. Reading' /\ Handed'
    BY <1>4, <1>i, <1>n DEF Fopen, Disk, Reading, Handed, Whole, writeVars, fileVars
  <2> QED
    BY <2>1, <2>2 DEF BuildInv
<1>5. CASE FopenFails
  <2>1. Disk' /\ Parts(built)'
    BY <1>5, <1>i DEF FopenFails, Disk, Where, fileVars
  <2>2. Reading' /\ Handed'
    BY <1>5, <1>i, <1>n DEF FopenFails, Reading, Handed, Whole, writeVars, fileVars
  <2> QED
    BY <2>1, <2>2 DEF BuildInv
<1>6. CASE Ftell
  <2>1. fp \in Inode /\ files[fp] \in seen /\ ~ built.set /\ ~ torn
    BY <1>6, <1>i DEF Ftell, Reading
  <2>2. files[fp].size \in Nat
    BY <2>1, <1>i, ResponseAssumption DEF Disk, Content
  <2>3. CASE built' = [built EXCEPT !.set = TRUE, !.payload = Junk(files[fp].size)]
             /\ at' = "read" /\ got' = 0
    <3>1. PICK junk \in Seq(Byte) :
            /\ junk = Junk(files[fp].size) /\ Len(junk) = files[fp].size
            /\ \A k \in 1 .. Len(junk) : junk[k].of = "junk"
      <4>1. "lua" \in Origin
        BY DEF Origin
      <4>2. \A k \in 1 .. files[fp].size : Junk(files[fp].size)[k].of = "junk"
        BY DEF Junk
      <4> QED
        BY <2>2, <4>1, <4>2, PiecesSeq
    <3>2. built' = [status |-> built.status, headers |-> built.headers, lost |-> built.lost,
                    set |-> TRUE, payload |-> junk]
      BY <2>3, <3>1, <1>p
    <3>3. Parts(built')
      BY <3>2, <1>p DEF Parts
    <3>4. Disk'
      BY <2>3, <1>6, <1>i DEF Ftell, Disk, Where, fileVars
    <3>5. UNCHANGED <<fp, named, files, seen, torn, stage, res>>
      BY <1>6 DEF Ftell, writeVars, fileVars
    <3>6. ReadSoFar'
      BY <2>1, <2>2, <2>3, <3>1, <3>2, <3>5 DEF ReadSoFar
    <3>7. Reading' /\ Handed'
      BY <2>1, <2>3, <3>2, <3>5, <3>6, <1>6, <1>i, <1>n DEF Ftell, Reading, Handed
    <3> QED
      BY <3>3, <3>4, <3>7 DEF BuildInv
  <2>4. CASE at' = "aborted" /\ UNCHANGED <<built, got>>
    BY <2>1, <2>4, <1>6, <1>i, <1>n
    DEF Ftell, BuildInv, Disk, Where, Reading, Handed, Whole, writeVars, fileVars
  <2> QED
    BY <2>3, <2>4, <1>6 DEF Ftell
<1>7. CASE Fread
  BY <1>7, FreadBuildInv
<1>f. CASE Fclose
  BY <1>f, FcloseBuildInv
<1>8. CASE AddHeaders
  <2>1. PICK t \in TypeLen, lost \in Losses :
          built' = WithPayload(built.status, built.payload, t, lost)
    BY <1>8 DEF AddHeaders
  <2>2. Parts(built') /\ built'.payload = built.payload
    BY <2>1, <1>p, TypeLenNat, WithPayloadParts
  <2>3. Disk'
    BY <1>8, <1>i DEF AddHeaders, Disk, Where, fileVars
  <2>4. built.set /\ Whole
    BY <1>8, <1>i DEF AddHeaders, Reading
  <2>5. Reading' /\ Handed'
    <3>1. at' = "write" /\ stage' = "idle" /\ UNCHANGED <<named, files, seen, torn>>
      BY <1>8, <1>n DEF AddHeaders, writeVars, fileVars
    <3>2. PICK p : p = built.payload /\ p = built'.payload
      BY <2>2
    <3>3. seen # {} => /\ \A k \in 1 .. Len(p) : OfSome(p[k], k)
                       /\ torn \/ \E c \in seen : p = Take(c.version, c.size)
      BY <2>4, <3>2 DEF Whole
    <3>4. Whole'
      BY <3>1, <3>2, <3>3 DEF Whole, OfSome
    <3> QED
      BY <3>1, <3>4 DEF Reading, Handed
  <2> QED
    BY <2>2, <2>3, <2>5 DEF BuildInv
<1>9. CASE NoContentType
  <2>1. built' = [status |-> built.status, headers |-> built.headers, lost |-> built.lost,
                  set |-> FALSE, payload |-> << >>]
    BY <1>9, <1>p DEF NoContentType
  <2>2. Parts(built')
    BY <2>1, <1>p DEF Parts
  <2>3. Disk'
    BY <1>9, <1>i DEF NoContentType, Disk, Where, fileVars
  <2>4. Reading' /\ Handed'
    BY <2>1, <1>9, <1>n DEF NoContentType, Reading, Handed, Whole, writeVars, fileVars
  <2> QED
    BY <2>2, <2>3, <2>4 DEF BuildInv
<1>10. CASE OutOfMemory
  <2>1. stage = "idle"
    BY <1>10, <1>n DEF OutOfMemory
  <2>2. Disk' /\ Parts(built)'
    BY <1>10, <1>i DEF OutOfMemory, Disk, Where, fileVars
  <2>3. Whole
    BY <1>10, <1>i DEF OutOfMemory, Reading, Whole
  <2>4. Reading' /\ Handed'
    BY <2>1, <2>3, <1>10 DEF OutOfMemory, Reading, Handed, Whole, OfSome, writeVars, fileVars
  <2> QED
    BY <2>2, <2>4 DEF BuildInv
<1> QED
  BY <1>1, <1>2, <1>3, <1>4, <1>5, <1>6, <1>7, <1>f, <1>8, <1>9, <1>10

\* Every step keeps the invariant, those of others included: a file that is open or
\* that the path names has been seen with whatever it contains.
LEMMA NextBuildInv == BuildInv /\ [ResponseNext]_allVars => BuildInv'
<1> SUFFICES ASSUME BuildInv, [ResponseNext]_allVars
             PROVE  BuildInv'
  OBVIOUS
<1>i. Disk /\ Parts(built) /\ Reading /\ Handed
  BY DEF BuildInv
<1>1. CASE \/ NotFound \/ Dynamic \/ Stat \/ Fopen \/ FopenFails \/ Ftell \/ Fread \/ Fclose
           \/ AddHeaders \/ NoContentType \/ OutOfMemory
  BY <1>1, BuildingBuildInv
<1>2. CASE write_response
  BY <1>2, QuietBuildInv DEF write_response, buildVars
<1>3. CASE Sending
  <2>1. stage # "idle" /\ res' = res
    BY <1>3 DEF Sending, AddHeader, HeadersAdded, WriteHead, HeadWritten, WriteEmptyLine,
       WritePayload, PayloadWritten
  <2> QED
    BY <1>3, <2>1, QuietBuildInv DEF Sending, buildVars
<1>4. CASE Sent
  BY <1>4, QuietBuildInv DEF Sent, writeVars
<1>5. CASE free_response
  BY <1>5, QuietBuildInv DEF free_response, writeVars
<1>6. ASSUME NEW n \in Inode, NEW c \in Content, Rewrite(n, c)
      PROVE  BuildInv'
  <2>1. /\ at \in {"open", "size", "read"} /\ UNCHANGED <<at, built, fp, got, stage, res, named>>
        /\ files' = [files EXCEPT ![n] = c]
        /\ seen' = seen \cup IF n \in {named, fp} THEN {c} ELSE {}
        /\ torn' = (torn \/ (at = "read" /\ n = fp))
    BY <1>6 DEF Rewrite, Changing, writeVars, buildVars
  <2>2. files \in [Inode -> Content]
    BY <1>i DEF Disk
  <2>3. \A m \in Inode : files'[m] = IF m = n THEN c ELSE files[m]
    BY <2>1, <2>2
  <2>4. Disk'
    BY <2>1, <2>2, <1>i DEF Disk, Where
  <2>5. Parts(built')
    BY <2>1, <1>i
  <2>6. NoInode \notin Inode /\ (named \in Inode \/ named = NoInode)
    BY <1>i, ResponseAssumption DEF Disk
  <2>7. named # NoInode => files'[named] \in seen'
    BY <2>1, <2>3, <2>6, <1>i DEF Reading
  <2>8. at \in {"size", "read"} => fp \in Inode /\ files'[fp] \in seen'
    BY <2>1, <2>3, <1>i DEF Reading
  <2>9. at = "read" => ReadSoFar'
    <3> SUFFICES ASSUME at = "read" PROVE ReadSoFar'
      OBVIOUS
    <3>1. ReadSoFar /\ fp \in Inode
      BY <1>i DEF Reading
    <3>2. ~ torn' => ~ torn /\ files'[fp] = files[fp]
      BY <2>1, <2>3, <3>1
    <3>3. \A byte, k : OfSome(byte, k) => OfSome(byte, k)'
      BY <2>1 DEF OfSome
    <3> QED
      BY <2>1, <3>1, <3>2, <3>3 DEF ReadSoFar
  <2>10. Reading'
    BY <2>1, <2>7, <2>8, <2>9, <1>i DEF Reading
  <2>11. Handed'
    BY <2>1, <1>i DEF Handed
  <2> QED
    BY <2>4, <2>5, <2>10, <2>11 DEF BuildInv
<1>7. ASSUME NEW n \in Inode \cup {NoInode}, Rename(n)
      PROVE  BuildInv'
  <2>1. /\ at \in {"open", "size", "read"} /\ named' = n
        /\ UNCHANGED <<at, built, fp, got, stage, res, files, torn>>
        /\ seen' = seen \cup IF n = NoInode THEN {} ELSE {files[n]}
    BY <1>7 DEF Rename, Changing, writeVars, buildVars
  <2>2. Disk' /\ Parts(built')
    BY <2>1, <1>i DEF Disk
  <2>3. at = "read" => ReadSoFar'
    <3>1. \A byte, k : OfSome(byte, k) => OfSome(byte, k)'
      BY <2>1 DEF OfSome
    <3>2. at = "read" => ReadSoFar
      BY <1>i DEF Reading
    <3> QED
      BY <2>1, <3>1, <3>2 DEF ReadSoFar
  <2>4. Reading'
    BY <2>1, <2>3, <1>i DEF Reading
  <2>5. Handed'
    BY <2>1, <1>i DEF Handed
  <2> QED
    BY <2>2, <2>4, <2>5 DEF BuildInv
<1>8. CASE UNCHANGED allVars
  BY <1>8, <1>i DEF allVars, writeVars, buildVars, fileVars, BuildInv, Disk, Reading, Handed, ReadSoFar, Whole, OfSome
<1> QED
  BY <1>1, <1>2, <1>3, <1>4, <1>5, <1>6, <1>7, <1>8 DEF ResponseNext, ResponseStep

\* BuildInv at every step, of the code and of whoever changes the files.
LEMMA BuildInvariance == ResponseSpec => []BuildInv
<1> QED
  BY InitBuildInv, NextBuildInv, PTL DEF ResponseSpec

-----------------------------------------------------------------------------
(* What follows for a client *)

\* A response from new_response to free_response is written as write_response alone
\* writes one: its loops see nothing else.
THEOREM ResponseImplementsWrite == ResponseSpec => WriteSpec
<1>1. ResponseInit => WriteInit
  BY DEF ResponseInit
<1>2. ASSUME [ResponseNext]_allVars PROVE [WriteNext]_writeVars
  <2>1. CASE NotFound \/ Stat
    BY <2>1 DEF NotFound, Stat, sr
  <2>2. CASE Dynamic \/ Fopen \/ FopenFails \/ Ftell \/ Fread \/ Fclose \/ AddHeaders
             \/ NoContentType \/ OutOfMemory
    BY <2>2 DEF Dynamic, Fopen, FopenFails, Ftell, Fread, Fclose, AddHeaders, NoContentType, OutOfMemory
  <2>3. CASE write_response \/ Sending
    BY <2>3 DEF write_response, Sending, WriteNext
  <2>4. CASE Sent \/ free_response
    BY <2>4 DEF Sent, free_response
  <2>5. CASE \/ \E n \in Inode, c \in Content : Rewrite(n, c)
             \/ \E n \in Inode \cup {NoInode} : Rename(n)
    BY <2>5 DEF Rewrite, Rename, Changing
  <2>6. CASE UNCHANGED allVars
    BY <2>6 DEF allVars
  <2> QED
    BY <1>2, <2>1, <2>2, <2>3, <2>4, <2>5, <2>6 DEF ResponseNext, ResponseStep
<1> QED
  BY <1>1, <1>2, PTL DEF ResponseSpec, WriteSpec

\* So what holds of write_response holds of every response it is called for.
THEOREM EveryResponseContiguous == ResponseSpec => [](Contiguous /\ NeverRepeats)
<1> QED
  BY ResponseImplementsWrite, ResponseContiguous, ResponseNeverRepeats, PTL

\* A client that got everything has the payload behind the empty line.
LEMMA BodyIsPayload ==
  ASSUME WriteInv, BuildInv, SentAll, built.set
  PROVE  Body = [k \in 1 .. Len(built.payload) |-> built.payload[k]]
<1>1. PICK len \in Nat : len = Len(built.payload)
  BY DEF BuildInv, Parts
<1>2. res.payload /\ res.len = len
  BY <1>1, LengthsOfParts DEF SentAll, BuildInv, Handed
<1>3. PICK b \in Nat : b = buffer_pos + EmptyLineLen
  BY DEF WriteInv, WriteTypeOK, EmptyLineLen
<1>4. wire = Bytes(0, b + len)
  BY <1>2, <1>3 DEF WriteInv, WriteTypeOK, Contiguous, SentAll, Position, ResponseLen, EmptyLineLen
<1>5. Len(wire) - b = len /\ \A k \in 1 .. len : wire[b + k] - b = k
  BY <1>4 DEF Bytes
<1> QED
  BY <1>1, <1>3, <1>5 DEF Body

\* However many reads fread makes, and whoever writes to files or replaces them between
\* those, every byte a client gets was the file's, at that place; and they are one
\* version of it, whole, unless the open file itself was written to.
THEOREM FileSentAsItWas == ResponseSpec => []FileAsItWas
<1>1. WriteInv /\ BuildInv => FileAsItWas
  <2> SUFFICES ASSUME WriteInv, BuildInv, SentAll, seen # {}, built.set
               PROVE  /\ \A k \in DOMAIN Body : OfSome(Body[k], k)
                      /\ torn \/ \E c \in seen : Body = Take(c.version, c.size)
    BY DEF FileAsItWas
  <2>1. PICK len \in Nat, p \in Seq(Byte) :
          p = built.payload /\ len = Len(p) /\ p = [k \in 1 .. len |-> p[k]]
    BY DEF BuildInv, Parts
  <2>2. Body = p
    BY <2>1, BodyIsPayload
  <2>3. at \in {"write", "free", "end"}
    BY DEF SentAll, BuildInv, Handed
  <2>4. Whole
    BY <2>3 DEF BuildInv, Reading
  <2> QED
    BY <2>1, <2>2, <2>4 DEF Whole
<1>2. ResponseSpec => []WriteInv
  BY ResponseImplementsWrite, WriteInvariance, PTL
<1> QED
  BY <1>1, <1>2, BuildInvariance, PTL

-----------------------------------------------------------------------------
(* The length a client is told *)

\* What itoa_base makes of an int, read as a number, is that int.
THEOREM ItoaReadsBack == \A x \in Int : Number(itoa_base(x)) = x
<1> SUFFICES ASSUME NEW x \in Int PROVE Number(itoa_base(x)) = x
  OBVIOUS
<1>0. PICK n \in Nat : \E f :
        /\ f \in [0 .. n -> Nat] /\ f[0] = Abs(x) /\ f[n] = 0
        /\ \A k \in Nat : k < n => f[k + 1] = f[k] \div 10
        /\ itoa_base(x).negative = (x < 0)
        /\ Len(itoa_base(x).digits) = n
        /\ \A k \in 1 .. n : itoa_base(x).digits[k] = f[n - k] % 10
  BY ItoaIs
<1>1. PICK f :
        /\ f \in [0 .. n -> Nat] /\ f[0] = Abs(x) /\ f[n] = 0
        /\ \A k \in Nat : k < n => f[k + 1] = f[k] \div 10
        /\ itoa_base(x).negative = (x < 0)
        /\ Len(itoa_base(x).digits) = n
        /\ \A k \in 1 .. n : itoa_base(x).digits[k] = f[n - k] % 10
  BY <1>0
<1> DEFINE text == itoa_base(x)
<1> DEFINE upTo[k \in 0 .. Len(text.digits)] == IF k = 0 THEN 0 ELSE 10 * upTo[k - 1] + text.digits[k]
<1> DEFINE G(g) == [k \in 0 .. Len(text.digits) |-> IF k = 0 THEN 0 ELSE 10 * g[k - 1] + text.digits[k]]
<1> DEFINE h == [k \in 0 .. n |-> f[n - k]]
<1>2. Number(text) = IF text.negative THEN - upTo[Len(text.digits)] ELSE upTo[Len(text.digits)]
  BY DEF Number
<1> HIDE DEF text
<1>3. /\ text.negative = (x < 0) /\ Len(text.digits) = n
      /\ \A k \in 1 .. n : text.digits[k] = f[n - k] % 10
  BY <1>1 DEF text
<1>4. \A k \in 1 .. n : f[n - k] \in Nat /\ 10 * f[n - (k - 1)] + text.digits[k] = f[n - k]
  <2> SUFFICES ASSUME NEW k \in 1 .. n
               PROVE  f[n - k] \in Nat /\ 10 * f[n - (k - 1)] + text.digits[k] = f[n - k]
    OBVIOUS
  <2>1. PICK j \in Nat : j = n - k /\ j \in 0 .. n /\ j < n /\ j + 1 = n - (k - 1)
    OBVIOUS
  <2>2. PICK v \in Nat : v = f[j]
    BY <1>1, <2>1
  <2>3. f[j + 1] = v \div 10 /\ text.digits[k] = v % 10
    BY <1>1, <1>3, <2>1, <2>2
  <2>4. 10 * (v \div 10) + (v % 10) = v
    OBVIOUS
  <2> QED
    BY <2>1, <2>2, <2>3, <2>4
<1>5. h = G(h)
  <2> SUFFICES ASSUME NEW k \in 0 .. n
               PROVE  f[n - k] = IF k = 0 THEN 0 ELSE 10 * h[k - 1] + text.digits[k]
    BY <1>3
  <2>1. CASE k = 0
    BY <1>1, <2>1
  <2>2. CASE k # 0
    <3>1. k \in 1 .. n /\ k - 1 \in 0 .. n
      BY <2>2
    <3>2. h[k - 1] = f[n - (k - 1)]
      BY <3>1
    <3> HIDE DEF h
    <3> QED
      BY <1>4, <2>2, <3>1, <3>2
  <2> QED
    BY <2>1, <2>2
<1>6. upTo = G(upTo)
  <2> HIDE DEF h
  <2>1. upTo = CHOOSE g : g = G(g)
    OBVIOUS
  <2> HIDE DEF G, upTo
  <2> QED
    BY <1>5, <2>1
<1>7. \A k \in 0 .. n : upTo[k] = IF k = 0 THEN 0 ELSE 10 * upTo[k - 1] + text.digits[k]
  <2> HIDE DEF upTo, h
  <2> QED
    BY <1>3, <1>6
<1> HIDE DEF upTo, G
<1> DEFINE T == {k \in Nat : k <= n => upTo[k] = f[n - k]}
<1>8. Nat \subseteq T
  <2>1. 0 \in T
    BY <1>1, <1>7
  <2>2. ASSUME NEW j \in Nat, j \in T PROVE j + 1 \in T
    <3>1. PICK k \in Nat : k = j + 1 /\ k - 1 = j
      OBVIOUS
    <3> SUFFICES ASSUME k <= n PROVE upTo[k] = f[n - k]
      BY <3>1
    <3>2. k \in 1 .. n /\ k \in 0 .. n /\ j <= n /\ k # 0
      BY <3>1
    <3>3. upTo[j] = f[n - j]
      BY <2>2, <3>2
    <3>4. upTo[k] = 10 * upTo[k - 1] + text.digits[k]
      BY <1>7, <3>2
    <3> QED
      BY <1>4, <3>1, <3>2, <3>3, <3>4
  <2> HIDE DEF T
  <2> QED
    BY <2>1, <2>2, SetInduction
<1>9. upTo[n] = f[0]
  <2>1. n \in T /\ n <= n
    <3> HIDE DEF T
    <3> QED
      BY <1>8
  <2>2. n - n = 0
    OBVIOUS
  <2> QED
    BY <2>1, <2>2
<1>10. Number(text) = IF x < 0 THEN - Abs(x) ELSE Abs(x)
  BY <1>1, <1>2, <1>3, <1>9
<1> QED
  BY <1>10 DEF Abs, text

\* A response's headers come after its payload and tell of it; a payload that is there
\* when write_response is called has its length told, or its header is lost.
Told ==
  /\ at \in {"request", "open", "size", "read", "type"} => built.headers = << >>
  /\ built.headers # << >> => built.set
  /\ \A k \in DOMAIN built.headers :
       built.headers[k].name = "Content-Length" =>
         built.headers[k] = ContentLengthHeader(built.payload)
  /\ built.set =>
       \/ at \in {"read", "type", "aborted"} \/ "Content-Length" \in built.lost
       \/ \E k \in DOMAIN built.headers : built.headers[k].name = "Content-Length"

\* What has been seen at the path are contents of files.
Looked == changes \in 0 .. MaxChanges /\ seen \subseteq Content

ToldInv == BuildInv /\ Told /\ Looked

\* The headers that come with a payload.
LEMMA WithPayloadTold ==
  ASSUME NEW status, NEW payload \in Seq(Byte), NEW n \in Nat, NEW lost,
         built' = WithPayload(status, payload, n, lost), at' = "write"
  PROVE  Told'
<1>1. PICK a \in Header, b \in Header :
        /\ a = ContentTypeHeader(n) /\ a.name = "Content-Type"
        /\ b = ContentLengthHeader(payload) /\ b.name = "Content-Length"
  BY ContentTypeIs, ContentLengthIs
<1>2. PICK hs : hs = Added(a, lost) \o Added(b, lost)
  OBVIOUS
<1>3. /\ hs \in {<< >>, <<a>>, <<b>>, <<a, b>>}
      /\ b.name \notin lost => hs \in {<<b>>, <<a, b>>}
  BY <1>2, AddedAre
<1>4. built' = [status |-> status, set |-> TRUE, payload |-> payload, lost |-> lost, headers |-> hs]
  BY <1>1, <1>2 DEF WithPayload
<1>5. \A k \in DOMAIN hs : hs[k] \in {a, b}
  <2>1. CASE hs = << >>
    BY <2>1
  <2>2. CASE hs = <<a>>
    BY <2>2
  <2>3. CASE hs = <<b>>
    BY <2>3
  <2>4. CASE hs = <<a, b>>
    BY <2>4
  <2> QED
    BY <1>3, <2>1, <2>2, <2>3, <2>4
<1>6. "Content-Length" \notin lost => \E k \in DOMAIN hs : hs[k] = b
  <2>1. CASE hs = <<b>>
    BY <2>1
  <2>2. CASE hs = <<a, b>>
    <3>1. 2 \in DOMAIN hs /\ hs[2] = b
      BY <2>2
    <3> QED
      BY <3>1
  <2> QED
    BY <1>1, <1>3, <2>1, <2>2
<1>7. "Content-Length" # "Content-Type"
  OBVIOUS
<1> QED
  BY <1>1, <1>4, <1>5, <1>6, <1>7 DEF Told

\* sr's page comes with them, or nothing does.
LEMMA SrTold ==
  ASSUME ToldInv, NEW code \in {204, 404}, at = "request", sr(code)
  PROVE  Told'
<1>1. built.headers = << >> /\ ~ built.set
  BY DEF ToldInv, Told, BuildInv, Reading
<1>2. CASE at' = "free"
  <2>1. built' = [built EXCEPT !.status = LookupStatus(code)]
    BY <1>2 DEF sr, WithPayload
  <2>2. built'.headers = << >> /\ ~ built'.set
    BY <1>1, <2>1 DEF ToldInv, BuildInv, Parts
  <2> QED
    BY <1>2, <2>2 DEF Told
<1>3. CASE at' # "free"
  <2>1. PICK n \in Nat : n = MimeLen[Html]
    <3>1. MimeLen[Html] \in Nat
      BY ResponseAssumption
    <3> QED
      BY <3>1
  <2>2. PICK payload \in Seq(Byte) :
          payload = Take("page", PageLen[code]) \o Take("nul", Specifiers)
    BY PagesSeq
  <2>3. at' = "write" /\ \E lost : built' = WithPayload(LookupStatus(code), payload, n, lost)
    BY <1>3, <2>1, <2>2 DEF sr
  <2>4. PICK lost : built' = WithPayload(LookupStatus(code), payload, n, lost)
    BY <2>3
  <2> QED
    BY <2>3, <2>4, WithPayloadTold
<1> QED
  BY <1>2, <1>3

\* Every step keeps it.
LEMMA NextToldInv == ToldInv /\ [ResponseNext]_allVars => ToldInv'
<1> SUFFICES ASSUME ToldInv, [ResponseNext]_allVars PROVE ToldInv'
  OBVIOUS
<1>1. BuildInv /\ Disk /\ Parts(built) /\ Reading /\ Told /\ Looked /\ BuildInv'
  BY NextBuildInv DEF ToldInv, BuildInv
<1> SUFFICES Told' /\ Looked'
  BY <1>1 DEF ToldInv
<1>2. ASSUME UNCHANGED <<changes, seen>> PROVE Looked'
  BY <1>1, <1>2 DEF Looked
<1>3. ASSUME UNCHANGED built, at' = at \/ at' \in {"write", "free", "end", "aborted"},
             built.set => at' \notin {"write", "free", "end"} \/ at \notin {"read", "type", "aborted"}
      PROVE  Told'
  BY <1>1, <1>3 DEF Told
<1>4. CASE NotFound
  BY <1>2, <1>4, SrTold DEF NotFound, sr, fileVars
<1>5. CASE Dynamic
  <2>1. PICK n \in LuaSize, t \in TypeLen, lost \in Losses :
          built' = WithPayload(200, Take("lua", n), t, lost)
    BY <1>5 DEF Dynamic
  <2>2. n \in Nat /\ "lua" \in Origin
    BY ResponseAssumption DEF Origin
  <2>3. Take("lua", n) \in Seq(Byte)
    BY <2>2, PiecesSeq
  <2>4. Told'
    BY <1>5, <2>1, <2>3, TypeLenNat, WithPayloadTold DEF Dynamic
  <2> QED
    BY <1>2, <1>5, <2>4 DEF Dynamic, fileVars
<1>6. CASE Stat
  <2>1. CASE named = NoInode \/ (files[named].kind = "regular" /\ files[named].size = 0)
    <3>1. PICK code \in {204, 404} : at = "request" /\ sr(code)
      BY <1>6, <2>1 DEF Stat
    <3> QED
      BY <1>2, <3>1, SrTold DEF sr, fileVars
  <2>2. CASE named # NoInode /\ files[named].kind # "regular"
    <3>1. at = "request" /\ at' = "end" /\ UNCHANGED <<built, seen, changes>>
      BY <1>6, <2>2 DEF Stat, fileVars
    <3> QED
      BY <1>1, <1>2, <3>1 DEF Told, Reading
  <2>3. CASE named # NoInode /\ files[named].kind = "regular" /\ files[named].size # 0
    <3>1. at = "request" /\ at' = "open" /\ seen' = {files[named]} /\ UNCHANGED <<built, changes>>
      BY <1>6, <2>3 DEF Stat, Named
    <3>2. files[named] \in Content
      BY <1>1, <2>3 DEF Disk
    <3> QED
      BY <1>1, <3>1, <3>2 DEF Told, Looked, Reading
  <2> QED
    BY <2>1, <2>2, <2>3
<1>7. CASE Fopen \/ FopenFails
  <2>1. at = "open" /\ at' \in {"write", "size"} /\ UNCHANGED <<built, changes, seen>>
    BY <1>7 DEF Fopen, FopenFails, fileVars
  <2> QED
    BY <1>1, <1>2, <2>1 DEF Told, Reading
<1>8. CASE Ftell
  <2>1. built'.headers = built.headers
    BY <1>1, <1>8 DEF Ftell, Parts
  <2>2. at = "size" /\ at' \in {"read", "aborted"} /\ UNCHANGED <<changes, seen>>
    BY <1>8 DEF Ftell, fileVars
  <2> QED
    BY <1>1, <1>2, <2>1, <2>2 DEF Told
<1>9. CASE Fread
  <2>1. built'.headers = built.headers
    BY <1>1, <1>9 DEF Fread, Parts
  <2>2. at = "read" /\ at' = "read" /\ UNCHANGED <<changes, seen>>
    BY <1>9 DEF Fread, fileVars
  <2> QED
    BY <1>1, <1>2, <2>1, <2>2 DEF Told
<1>f. CASE Fclose
  <2>1. at = "read" /\ at' = "type" /\ UNCHANGED <<built, changes, seen>>
    BY <1>f DEF Fclose, fileVars
  <2> QED
    BY <1>1, <1>2, <2>1 DEF Told
<1>10. CASE AddHeaders
  <2>1. PICK t \in TypeLen, lost \in Losses :
          built' = WithPayload(built.status, built.payload, t, lost)
    BY <1>10 DEF AddHeaders
  <2>2. PICK p \in Seq(Byte) : p = built.payload
    BY <1>1 DEF Parts
  <2>3. Told'
    BY <1>10, <2>1, <2>2, TypeLenNat, WithPayloadTold DEF AddHeaders
  <2> QED
    BY <1>2, <1>10, <2>3 DEF AddHeaders, fileVars
<1>11. CASE NoContentType
  <2>1. built'.headers = built.headers /\ ~ built'.set
    BY <1>1, <1>11 DEF NoContentType, Parts
  <2>2. at = "type" /\ at' = "write" /\ UNCHANGED <<changes, seen>>
    BY <1>11 DEF NoContentType, fileVars
  <2> QED
    BY <1>1, <1>2, <2>1, <2>2 DEF Told
<1>12. CASE OutOfMemory
  <2>1. at' = "aborted" /\ UNCHANGED <<built, changes, seen>>
    BY <1>12 DEF OutOfMemory, fileVars
  <2> QED
    BY <1>1, <1>2, <2>1 DEF Told
<1>13. CASE write_response \/ Sending
  <2>1. at' = at /\ UNCHANGED <<built, changes, seen>>
    BY <1>13 DEF write_response, Sending, buildVars, fileVars
  <2> QED
    BY <1>1, <1>2, <2>1 DEF Told
<1>14. CASE Sent \/ free_response
  <2>1. at \in {"write", "free"} /\ at' \in {"free", "end"} /\ UNCHANGED <<built, changes, seen>>
    BY <1>14 DEF Sent, free_response, fileVars
  <2> QED
    BY <1>1, <1>2, <2>1 DEF Told
<1>15. ASSUME Changing, \E c \in SUBSET Content : seen' = seen \cup c
       PROVE  Told' /\ Looked'
  <2>1. at' = at /\ built' = built /\ changes < MaxChanges /\ changes' = changes + 1
    BY <1>15 DEF Changing, buildVars
  <2>2. Looked'
    BY <1>1, <1>15, <2>1, ResponseAssumption DEF Looked
  <2> QED
    BY <1>1, <2>1, <2>2 DEF Told
<1>16. ASSUME NEW n \in Inode, NEW c \in Content, Rewrite(n, c) PROVE Told' /\ Looked'
  <2>1. (IF n \in {named, fp} THEN {c} ELSE {}) \in SUBSET Content
    OBVIOUS
  <2> QED
    BY <1>15, <1>16, <2>1 DEF Rewrite
<1>17. ASSUME NEW n \in Inode \cup {NoInode}, Rename(n) PROVE Told' /\ Looked'
  <2>1. (IF n = NoInode THEN {} ELSE {files[n]}) \in SUBSET Content
    BY <1>1 DEF Disk
  <2> QED
    BY <1>15, <1>17, <2>1 DEF Rename
<1>18. CASE UNCHANGED allVars
  <2>1. UNCHANGED <<at, built, changes, seen>>
    BY <1>18 DEF allVars, buildVars, fileVars
  <2> QED
    BY <1>1, <1>2, <2>1 DEF Told
<1> QED
  BY <1>4, <1>5, <1>6, <1>7, <1>8, <1>9, <1>f, <1>10, <1>11, <1>12, <1>13, <1>14, <1>16, <1>17, <1>18
  DEF ResponseNext, ResponseStep

\* So it is in the beginning, and always.
LEMMA ToldInvariance == ResponseSpec => [](WriteInv /\ ToldInv)
<1>1. ResponseInit => ToldInv
  <2> SUFFICES ASSUME ResponseInit PROVE Told /\ Looked
    BY InitBuildInv DEF ToldInv
  <2> QED
    BY ResponseAssumption DEF ResponseInit, NewResponse, Told, Looked
<1>2. ResponseSpec => []ToldInv
  BY <1>1, NextToldInv, PTL DEF ResponseSpec
<1>3. ResponseSpec => []WriteInv
  BY ResponseImplementsWrite, WriteInvariance, PTL
<1> QED
  BY <1>2, <1>3, PTL

\* Every variable of a response has its type, the text of its length included.
THEOREM ResponseTypeCorrect == ResponseSpec => []ResponseTypeOK
<1>1. WriteInv /\ ToldInv => ResponseTypeOK
  <2> SUFFICES ASSUME WriteInv, ToldInv PROVE ResponseTypeOK
    OBVIOUS
  <2>1. WriteTypeOK /\ Disk /\ Parts(built) /\ Looked
    BY DEF WriteInv, ToldInv, BuildInv
  <2>4. built \in [status : Code, headers : Seq(Header), lost : SUBSET Name,
                   set : BOOLEAN, payload : Seq(Byte)]
    BY <2>1 DEF Parts
  <2> QED
    BY <2>1, <2>4 DEF ResponseTypeOK, Disk, Looked
<1> QED
  BY <1>1, ToldInvariance, PTL

\* Whatever is sent, a client that got everything got as many bytes as it was told,
\* unless they are more than an int counts; and if it got any it was told a number,
\* unless there was no memory for that header.
THEOREM AnnouncedLengthAlways == ResponseSpec => []AnnouncedLength
<1>1. WriteInv /\ ToldInv => AnnouncedLength
  <2> SUFFICES ASSUME WriteInv, ToldInv, SentAll PROVE AnnouncedLength
    BY DEF AnnouncedLength
  <2>1. BuildInv /\ Told /\ at \in {"write", "free", "end"} /\ res = Lengths(built)
    BY DEF ToldInv, BuildInv, Handed, SentAll
  <2>2. PICK p \in Seq(Byte), n \in Nat : p = built.payload /\ n = Len(p)
    BY <2>1 DEF BuildInv, Parts
  <2>3. built.set => Body = p /\ Len(Body) = n
    <3>1. p = [k \in 1 .. n |-> p[k]]
      BY <2>2
    <3> QED
      BY <2>1, <2>2, <3>1, BodyIsPayload
  <2>4. ~ built.set => Body = << >>
    <3> SUFFICES ASSUME ~ built.set PROVE Body = << >>
      OBVIOUS
    <3>1. ~ res.payload
      BY <2>1, LengthsOfParts DEF BuildInv
    <3>2. PICK b \in Nat : b = buffer_pos
      BY DEF WriteInv, WriteTypeOK
    <3>3. wire = Bytes(0, b)
      BY <3>1, <3>2 DEF WriteInv, Contiguous, SentAll, Position, ResponseLen
    <3>4. Len(wire) - (b + EmptyLineLen) < 1
      BY <3>3 DEF Bytes, EmptyLineLen
    <3> QED
      BY <3>2, <3>3, <3>4 DEF Body, Bytes, EmptyLineLen
  <2>5. n < IntLimit => Number(ContentLengthHeader(p).value) = n
    <3>1. n < IntLimit => ToInt(n) = n
      BY ToIntIs
    <3>2. Number(itoa_base(n)) = n
      BY ItoaReadsBack
    <3> QED
      BY <2>2, <3>1, <3>2, ContentLengthIs
  <2>6. ASSUME NEW k \in DOMAIN built.headers,
               built.headers[k].name = "Content-Length", Len(Body) < IntLimit
        PROVE  Number(built.headers[k].value) = Len(Body)
    <3>1. built.headers # << >> /\ built.headers[k] = ContentLengthHeader(p)
      BY <2>1, <2>2, <2>6 DEF Told
    <3>2. built.set
      BY <2>1, <3>1 DEF Told
    <3> QED
      BY <2>3, <2>5, <2>6, <3>1, <3>2
  <2>7. ASSUME Body # << >>, "Content-Length" \notin built.lost
        PROVE  \E k \in DOMAIN built.headers : built.headers[k].name = "Content-Length"
    BY <2>1, <2>4, <2>7 DEF Told
  <2> QED
    BY <2>6, <2>7 DEF AnnouncedLength
<1> QED
  BY <1>1, ToldInvariance, PTL
=============================================================================

--------------------------- MODULE TemplateProofs ---------------------------
(***************************************************************************)
(* Rendering, for every set of pages and however many are rendered: what   *)
(* joining sequences gives, what a page shows of itself, that nothing of   *)
(* it is sent twice, and what one page leaves for the next.                *)
(***************************************************************************)
EXTENDS Template, Induction, SequenceTheorems, FiniteSetTheorems

-----------------------------------------------------------------------------
(* Joining sequences: FlattenSeq *)

\* f joins the first n sequences of ss one after another.
Adds(f, ss, n) == \A i \in Nat : i < n => f[i + 1] = f[i] \o ss[i + 1]

Joins(f, ss, n, S) ==
  /\ f \in [0 .. n -> Seq(S)]
  /\ f[0] = << >>
  /\ Adds(f, ss, n)

\* One sequence more.
LEMMA JoinsMore ==
  ASSUME NEW S, NEW ss, NEW k \in Nat, ss[k + 1] \in Seq(S), NEW f, Joins(f, ss, k, S)
  PROVE  \E g : Joins(g, ss, k + 1, S)
<1>1. /\ f \in [0 .. k -> Seq(S)] /\ f[0] = << >>
      /\ \A i \in Nat : i < k => f[i + 1] = f[i] \o ss[i + 1]
  BY DEF Joins, Adds
<1>2. PICK last : last = f[k] \o ss[k + 1] /\ last \in Seq(S)
  <2>1. k \in 0 .. k
    OBVIOUS
  <2>2. f[k] \in Seq(S)
    BY <1>1, <2>1
  <2> QED
    BY <2>2, ConcatProperties
<1>3. PICK g : g = [i \in 0 .. k + 1 |-> IF i = k + 1 THEN last ELSE f[i]]
  OBVIOUS
<1>4. /\ k + 1 \in 0 .. k + 1 /\ 0 \in 0 .. k
      /\ \A i \in 0 .. k : i \in 0 .. k + 1 /\ i # k + 1
      /\ \A i \in 0 .. k + 1 : i \in 0 .. k \/ i = k + 1
  OBVIOUS
<1>5. g[k + 1] = last /\ \A i \in 0 .. k : g[i] = f[i]
  BY <1>3, <1>4
<1>6. \A i \in 0 .. k + 1 : g[i] \in Seq(S)
  BY <1>1, <1>2, <1>4, <1>5
<1>7. ASSUME NEW i \in Nat, i < k + 1 PROVE g[i + 1] = g[i] \o ss[i + 1]
  <2>1. CASE i = k
    <3>1. k \in 0 .. k
      OBVIOUS
    <3> QED
      BY <1>2, <1>5, <2>1, <3>1
  <2>2. CASE i # k
    <3>1. i < k /\ i \in 0 .. k /\ i + 1 \in 0 .. k
      BY <1>7, <2>2
    <3> QED
      BY <1>1, <1>5, <3>1
  <2> QED
    BY <2>1, <2>2
<1>8. Joins(g, ss, k + 1, S)
  BY <1>1, <1>3, <1>4, <1>5, <1>6, <1>7 DEF Joins, Adds
<1> QED
  BY <1>8

\* Two functions that join the same sequences agree.
LEMMA JoinsAgree ==
  ASSUME NEW n \in Nat, NEW f, NEW g, NEW ss, Adds(f, ss, n), Adds(g, ss, n), f[0] = g[0]
  PROVE  f[n] = g[n]
<1> DEFINE T == {k \in Nat : k <= n => f[k] = g[k]}
<1>1. 0 \in T
  OBVIOUS
<1>2. ASSUME NEW k \in Nat, k \in T PROVE k + 1 \in T
  <2> SUFFICES ASSUME k + 1 <= n PROVE f[k + 1] = g[k + 1]
    OBVIOUS
  <2>1. k < n /\ k <= n
    OBVIOUS
  <2>2. f[k] = g[k]
    BY <1>2, <2>1
  <2> QED
    BY <2>1, <2>2 DEF Adds
<1>3. Nat \subseteq T
  <2> HIDE DEF T
  <2> QED
    BY <1>1, <1>2, SetInduction
<1> QED
  BY <1>3

\* There is a function that joins them all.
LEMMA JoinsExists ==
  ASSUME NEW S, NEW ss, NEW n \in Nat, \A i \in 1 .. n : ss[i] \in Seq(S)
  PROVE  \E f : Joins(f, ss, n, S)
<1> DEFINE T == {k \in Nat : k <= n => \E f : Joins(f, ss, k, S)}
<1>1. 0 \in T
  <2>1. PICK f : f = [i \in {0} |-> << >>]
    OBVIOUS
  <2>2. << >> \in Seq(S) /\ 0 .. 0 = {0}
    OBVIOUS
  <2>3. f \in [0 .. 0 -> Seq(S)] /\ f[0] = << >>
    BY <2>1, <2>2
  <2>4. Adds(f, ss, 0)
    BY DEF Adds
  <2>5. Joins(f, ss, 0, S)
    BY <2>3, <2>4 DEF Joins
  <2> QED
    BY <2>5
<1>2. ASSUME NEW k \in Nat, k \in T PROVE k + 1 \in T
  <2> SUFFICES ASSUME k + 1 <= n PROVE \E f : Joins(f, ss, k + 1, S)
    OBVIOUS
  <2>1. k <= n /\ k + 1 \in 1 .. n
    OBVIOUS
  <2>2. PICK f : Joins(f, ss, k, S)
    BY <1>2, <2>1
  <2> QED
    BY <2>1, <2>2, JoinsMore
<1>3. Nat \subseteq T
  <2> HIDE DEF T
  <2> QED
    BY <1>1, <1>2, SetInduction
<1> QED
  BY <1>3

\* FlattenSeq gives the last value of such a function.
LEMMA JoinsFlat ==
  ASSUME NEW S, NEW ss \in Seq(Seq(S)), NEW f, Joins(f, ss, Len(ss), S)
  PROVE  FlattenSeq(ss) = f[Len(ss)]
<1>1. PICK n \in Nat : n = Len(ss) /\ DOMAIN ss = 1 .. n /\ \A i \in 1 .. n : ss[i] \in Seq(S)
  OBVIOUS
<1>2. /\ f \in [0 .. n -> Seq(S)] /\ f[0] = << >>
      /\ \A i \in Nat : i < n => f[i + 1] = f[i] \o ss[i + 1]
  BY <1>1 DEF Joins, Adds
<1>3. CASE n = 0
  <2>1. FlattenSeq(ss) = ss /\ ss = << >>
    BY <1>1, <1>3 DEF FlattenSeq
  <2> QED
    BY <1>1, <1>2, <1>3, <2>1
<1>4. CASE n # 0
  <2> DEFINE flatten[i \in 1 .. Len(ss)] == IF i = 1 THEN ss[i] ELSE flatten[i - 1] \o ss[i]
  <2> DEFINE G(h) == [i \in 1 .. Len(ss) |-> IF i = 1 THEN ss[i] ELSE h[i - 1] \o ss[i]]
  <2> DEFINE h == [i \in 1 .. Len(ss) |-> f[i]]
  <2>1. FlattenSeq(ss) = flatten[Len(ss)]
    BY <1>1, <1>4 DEF FlattenSeq
  <2>2. 1 \in 1 .. n /\ f[1] = ss[1]
    <3>1. 1 \in 1 .. n /\ 0 < n /\ 0 + 1 = 1
      BY <1>4
    <3>2. f[1] = f[0] \o ss[1]
      BY <1>2, <3>1
    <3> QED
      BY <1>1, <1>2, <3>1, <3>2, ConcatEmptySeq
  <2>3. h = G(h)
    <3> SUFFICES ASSUME NEW i \in 1 .. Len(ss)
                 PROVE  f[i] = IF i = 1 THEN ss[i] ELSE h[i - 1] \o ss[i]
      OBVIOUS
    <3>1. CASE i = 1
      BY <2>2, <3>1
    <3>2. CASE i # 1
      <4>1. PICK j \in Nat : j = i - 1 /\ j + 1 = i /\ j < n /\ j \in 1 .. Len(ss)
        BY <1>1, <3>2
      <4> HIDE DEF G
      <4> QED
        BY <1>2, <3>2, <4>1
    <3> QED
      BY <3>1, <3>2
  <2>4. flatten = G(flatten)
    <3> HIDE DEF h
    <3>1. flatten = CHOOSE g : g = G(g)
      OBVIOUS
    <3> HIDE DEF G, flatten
    <3> QED
      BY <2>3, <3>1
  <2>5. \A i \in 1 .. n : flatten[i] = IF i = 1 THEN ss[i] ELSE flatten[i - 1] \o ss[i]
    <3> HIDE DEF flatten
    <3> QED
      BY <1>1, <2>4
  <2> HIDE DEF flatten
  <2> DEFINE U == {k \in Nat : k < n => flatten[k + 1] = f[k + 1]}
  <2>6. 0 \in U
    <3>1. 0 + 1 = 1
      OBVIOUS
    <3>2. flatten[1] = f[1]
      BY <2>2, <2>5
    <3> QED
      BY <3>1, <3>2
  <2>7. ASSUME NEW k \in Nat, k \in U PROVE k + 1 \in U
    <3> SUFFICES ASSUME k + 1 < n PROVE flatten[(k + 1) + 1] = f[(k + 1) + 1]
      OBVIOUS
    <3>1. PICK j \in Nat : j = k + 1
      OBVIOUS
    <3>2. j < n /\ k < n
      BY <3>1
    <3>3. flatten[j] = f[j]
      BY <2>7, <3>1, <3>2
    <3>4. flatten[j + 1] = flatten[j] \o ss[j + 1]
      <4>1. PICK i \in 1 .. n : i = j + 1 /\ i # 1 /\ i - 1 = j
        BY <3>1, <3>2
      <4> QED
        BY <2>5, <4>1
    <3>5. f[j + 1] = f[j] \o ss[j + 1]
      BY <1>2, <3>2
    <3> QED
      BY <3>1, <3>3, <3>4, <3>5
  <2>8. Nat \subseteq U
    <3> HIDE DEF U
    <3> QED
      BY <2>6, <2>7, SetInduction
  <2>9. PICK k \in Nat : k + 1 = n /\ k < n
    <3>1. n - 1 \in Nat /\ (n - 1) + 1 = n /\ n - 1 < n
      BY <1>4
    <3> QED
      BY <3>1
  <2>10. flatten[n] = f[n]
    BY <2>8, <2>9
  <2> QED
    BY <1>1, <2>1, <2>10
<1> QED
  BY <1>3, <1>4

\* The whole of it is a sequence.
LEMMA FlatType ==
  ASSUME NEW S, NEW ss \in Seq(Seq(S))
  PROVE  FlattenSeq(ss) \in Seq(S)
<1>1. Len(ss) \in Nat /\ \A i \in 1 .. Len(ss) : ss[i] \in Seq(S)
  OBVIOUS
<1>2. PICK f : Joins(f, ss, Len(ss), S)
  BY <1>1, JoinsExists
<1>3. Len(ss) \in 0 .. Len(ss)
  BY <1>1
<1>4. FlattenSeq(ss) = f[Len(ss)]
  BY <1>2, JoinsFlat
<1>5. f \in [0 .. Len(ss) -> Seq(S)]
  BY <1>2 DEF Joins
<1> QED
  BY <1>3, <1>4, <1>5

\* Joining nothing.
LEMMA FlatEmpty == FlattenSeq(<< >>) = << >>
BY DEF FlattenSeq

\* Joining in two parts.
LEMMA FlatConcat ==
  ASSUME NEW S, NEW ss \in Seq(Seq(S)), NEW tt \in Seq(Seq(S))
  PROVE  FlattenSeq(ss \o tt) = FlattenSeq(ss) \o FlattenSeq(tt)
<1>1. PICK m \in Nat, n \in Nat : /\ m = Len(ss) /\ n = Len(tt)
                                  /\ \A i \in 1 .. m : ss[i] \in Seq(S)
                                  /\ \A i \in 1 .. n : tt[i] \in Seq(S)
  OBVIOUS
<1>2. PICK uu \in Seq(Seq(S)) : uu = ss \o tt
  BY ConcatProperties
<1>3. Len(uu) = m + n /\ \A i \in 1 .. m + n : uu[i] = IF i <= m THEN ss[i] ELSE tt[i - m]
  BY <1>1, <1>2, ConcatProperties
<1>4. \A i \in Nat : i < m => uu[i + 1] = ss[i + 1]
  <2>1. \A i \in Nat : i < m => i + 1 \in 1 .. m + n /\ i + 1 <= m
    OBVIOUS
  <2> QED
    BY <1>3, <2>1
<1>5. \A i \in Nat : i < n => uu[(m + i) + 1] = tt[i + 1]
  <2>1. \A i \in Nat : i < n => /\ (m + i) + 1 \in 1 .. m + n /\ ~ ((m + i) + 1 <= m)
                                /\ ((m + i) + 1) - m = i + 1
    OBVIOUS
  <2> QED
    BY <1>3, <2>1
<1>6. PICK f : Joins(f, ss, m, S) /\ FlattenSeq(ss) = f[m]
  BY <1>1, JoinsExists, JoinsFlat
<1>7. PICK g : Joins(g, tt, n, S) /\ FlattenSeq(tt) = g[n]
  BY <1>1, JoinsExists, JoinsFlat
<1>8. PICK h : Joins(h, uu, m + n, S) /\ FlattenSeq(uu) = h[m + n]
  <2>1. PICK j \in Nat : j = m + n /\ Len(uu) = j /\ \A i \in 1 .. j : uu[i] \in Seq(S)
    BY <1>2, <1>3
  <2>2. PICK h : Joins(h, uu, j, S)
    BY <2>1, JoinsExists
  <2>3. FlattenSeq(uu) = h[j]
    BY <1>2, <2>1, <2>2, JoinsFlat
  <2> QED
    BY <2>1, <2>2, <2>3
<1>9. h[m] = f[m]
  <2>1. \A i \in Nat : i < m => i < m + n
    OBVIOUS
  <2>2. Adds(h, ss, m)
    BY <1>4, <1>8, <2>1 DEF Joins, Adds
  <2>3. Adds(f, ss, m) /\ h[0] = f[0]
    BY <1>6, <1>8 DEF Joins
  <2> QED
    BY <2>2, <2>3, JoinsAgree
<1> DEFINE T == {k \in Nat : k <= n => h[m + k] = f[m] \o g[k]}
<1>10. f[m] \in Seq(S) /\ \A k \in 0 .. n : g[k] \in Seq(S)
  <2>1. m \in 0 .. m
    OBVIOUS
  <2> QED
    BY <1>6, <1>7, <2>1 DEF Joins
<1>11. 0 \in T
  <2>1. g[0] = << >> /\ m + 0 = m
    BY <1>7 DEF Joins
  <2>2. f[m] \o << >> = f[m]
    BY <1>10, ConcatEmptySeq
  <2> QED
    BY <1>9, <2>1, <2>2
<1>12. ASSUME NEW k \in Nat, k \in T PROVE k + 1 \in T
  <2>7. PICK j \in Nat : j = k + 1
    OBVIOUS
  <2> SUFFICES ASSUME j <= n PROVE h[m + j] = f[m] \o g[j]
    BY <2>7
  <2>1. /\ k < n /\ k <= n /\ k \in 0 .. n /\ k + 1 \in 1 .. n
        /\ m + k \in Nat /\ m + k < m + n /\ m + j = (m + k) + 1
    BY <2>7
  <2>2. h[m + k] = f[m] \o g[k]
    BY <1>12, <2>1
  <2>3. h[(m + k) + 1] = h[m + k] \o tt[k + 1]
    BY <1>5, <1>8, <2>1 DEF Joins, Adds
  <2>4. g[k + 1] = g[k] \o tt[k + 1]
    BY <1>7, <2>1 DEF Joins, Adds
  <2>5. PICK a \in Seq(S), b \in Seq(S), c \in Seq(S) : a = f[m] /\ b = g[k] /\ c = tt[k + 1]
    BY <1>1, <1>10, <2>1
  <2>6. (a \o b) \o c = a \o (b \o c)
    BY ConcatAssociative
  <2> QED
    BY <2>1, <2>2, <2>3, <2>4, <2>5, <2>6, <2>7
<1>13. Nat \subseteq T
  <2> HIDE DEF T
  <2> QED
    BY <1>11, <1>12, SetInduction
<1>14. h[m + n] = f[m] \o g[n]
  <2>1. n \in T
    <3> HIDE DEF T
    <3> QED
      BY <1>13
  <2>2. n <= n
    OBVIOUS
  <2> QED
    BY <2>1, <2>2
<1> QED
  BY <1>2, <1>6, <1>7, <1>8, <1>14

\* Joining one more.
LEMMA FlatAppend ==
  ASSUME NEW S, NEW ss \in Seq(Seq(S)), NEW s \in Seq(S)
  PROVE  FlattenSeq(Append(ss, s)) = FlattenSeq(ss) \o s
<1>1. <<s>> \in Seq(Seq(S)) /\ Append(ss, s) = ss \o <<s>>
  BY AppendIsConcat
<1>2. FlattenSeq(<<s>>) = s
  <2>1. Len(<<s>>) = 1 /\ <<s>>[1] = s /\ \A i \in 1 .. 1 : <<s>>[i] \in Seq(S)
    OBVIOUS
  <2>2. PICK f : Joins(f, <<s>>, 1, S) /\ FlattenSeq(<<s>>) = f[1]
    BY <1>1, <2>1, JoinsExists, JoinsFlat
  <2>3. 0 + 1 = 1 /\ 0 < 1
    OBVIOUS
  <2>4. f[1] = f[0] \o <<s>>[1] /\ f[0] = << >>
    BY <2>2, <2>3 DEF Joins, Adds
  <2> QED
    BY <2>1, <2>2, <2>4, ConcatEmptySeq
<1> QED
  BY <1>1, <1>2, FlatConcat

-----------------------------------------------------------------------------
(* Types *)

\* The first of some positions of a chunk, if there is one.
LEMMA FirstOfIs ==
  ASSUME NEW code, Len(code) \in Nat, NEW S, S \subseteq 1 .. Len(code)
  PROVE  /\ FirstOf(S, code) \in 1 .. Len(code) + 1
         /\ FirstOf(S, code) \in S \/ FirstOf(S, code) = Len(code) + 1
         /\ \A j \in S : FirstOf(S, code) <= j
<1>1. PICK n \in Nat : n = Len(code)
  OBVIOUS
<1> DEFINE T == S \cup {n + 1}
<1>2. T \in SUBSET Nat /\ T # {} /\ T \subseteq 1 .. n + 1
  <2>1. \A x \in S : x \in 1 .. n
    BY <1>1
  <2>2. \A x \in T : x \in 1 .. n + 1 /\ x \in Nat
    BY <2>1
  <2> QED
    BY <2>2
<1>3. PICK x \in T : \A y \in T : x <= y
  <2> HIDE DEF T
  <2> QED
    BY <1>2, Least
<1>4. FirstOf(S, code) = Min(T)
  BY <1>1 DEF FirstOf
<1>5. Min(T) \in T /\ \A y \in T : Min(T) <= y
  <2> HIDE DEF T
  <2> QED
    BY <1>3 DEF Min
<1> QED
  BY <1>1, <1>2, <1>4, <1>5

\* Positions that do something are positions.
LEMMA WhereIs ==
  ASSUME NEW p, NEW code \in Seq(Nat), NEW what
  PROVE  /\ Where(p, code, what) \subseteq 1 .. Len(code)
         /\ \A k \in 1 .. Len(code) : k \in Where(p, code, what) <=> Effect(p, code[k]) = what
BY DEF Where

\* A loop ends behind its beginning.
LEMMA EndOfIs ==
  ASSUME NEW p, NEW code \in Seq(Nat), NEW k \in 1 .. Len(code)
  PROVE  /\ EndOf(p, code, k) \in k + 1 .. Len(code) + 1
         /\ EndOf(p, code, k) <= Len(code) => Effect(p, code[EndOf(p, code, k)]) = "end"
         /\ \A e \in k + 1 .. Len(code) : Effect(p, code[e]) = "end" => EndOf(p, code, k) <= e
<1>1. PICK n \in Nat : n = Len(code)
  OBVIOUS
<1> DEFINE S == {e \in Where(p, code, "end") : k < e}
<1>2. S \subseteq 1 .. Len(code)
  BY WhereIs
<1>3. PICK x : x = EndOf(p, code, k)
  OBVIOUS
<1>4. x = FirstOf(S, code)
  BY <1>3 DEF EndOf
<1>5. \A e \in 1 .. n : e \in S <=> k < e /\ Effect(p, code[e]) = "end"
  BY <1>1, WhereIs
<1> HIDE DEF S
<1>6. /\ x \in 1 .. n + 1 /\ (x \in S \/ x = n + 1)
      /\ \A j \in S : x <= j
  BY <1>1, <1>2, <1>4, FirstOfIs
<1>7. x \in k + 1 .. n + 1
  BY <1>1, <1>2, <1>5, <1>6
<1>8. x <= n => Effect(p, code[x]) = "end"
  BY <1>1, <1>2, <1>5, <1>6
<1>9. \A e \in k + 1 .. n : Effect(p, code[e]) = "end" => x <= e
  BY <1>5, <1>6
<1> QED
  BY <1>1, <1>3, <1>7, <1>8, <1>9

\* What the lines of a chunk make are tokens: one line ...
LEMMA TagType ==
  ASSUME TemplateTypeOK, NEW p, NEW i \in Nat, NEW line \in Nat, NEW item \in Nat
  PROVE  html_tag(p, i, line, item) \in Seq(Token)
<1>1. Run \in Nat
  BY DEF TemplateTypeOK, Run
<1>2. [run |-> Run, line |-> line, item |-> item, part |-> i] \in Token
  BY <1>1 DEF Token
<1>3. /\ << [run |-> Run, line |-> line, item |-> item, part |-> i] >> \in Seq(Token)
      /\ << >> \in Seq(Token)
  BY <1>2
<1> QED
  BY <1>3 DEF html_tag

\* ... a round of a loop ...
LEMMA RoundType ==
  ASSUME TemplateTypeOK, NEW p, NEW body \in Seq(Nat), NEW line \in Nat, NEW item \in Nat
  PROVE  [j \in DOMAIN body |-> html_tag(p, body[j], line, item)] \in Seq(Seq(Token))
<1> DEFINE e(j) == html_tag(p, body[j], line, item)
<1>1. \A j \in 1 .. Len(body) : e(j) \in Seq(Token)
  BY TagType
<1>2. DOMAIN body = 1 .. Len(body) /\ Len(body) \in Nat
  OBVIOUS
<1> HIDE DEF e
<1>3. [j \in 1 .. Len(body) |-> e(j)] \in Seq(Seq(Token))
  BY <1>1, <1>2, IsASeq
<1> QED
  BY <1>2, <1>3 DEF e

\* ... all of its rounds ...
LEMMA LoopType ==
  ASSUME TemplateTypeOK, NEW p, NEW body \in Seq(Nat), NEW line \in Nat, NEW rounds \in Nat
  PROVE  /\ [item \in 1 .. rounds |-> Round(p, body, line, item)] \in Seq(Seq(Token))
         /\ Loop(p, body, line, rounds) \in Seq(Token)
<1> DEFINE e(item) == Round(p, body, line, item)
<1>1. ASSUME NEW item \in 1 .. rounds PROVE e(item) \in Seq(Token)
  <2>1. item \in Nat
    OBVIOUS
  <2>2. [j \in DOMAIN body |-> html_tag(p, body[j], line, item)] \in Seq(Seq(Token))
    BY <2>1, RoundType
  <2> QED
    BY <2>2, FlatType DEF Round
<1>2. Loop(p, body, line, rounds) = FlattenSeq([item \in 1 .. rounds |-> e(item)])
  BY DEF Loop
<1> HIDE DEF e
<1>3. [item \in 1 .. rounds |-> e(item)] \in Seq(Seq(Token))
  BY <1>1, IsASeq
<1>4. FlattenSeq([item \in 1 .. rounds |-> e(item)]) \in Seq(Token)
  BY <1>3, FlatType
<1> QED
  BY <1>2, <1>3, <1>4 DEF e

\* The lines of a loop that begins at position k.
LEMMA BodyIs ==
  ASSUME NEW p, NEW code \in Seq(Nat), NEW k \in 1 .. Len(code)
  PROVE  LET body == SubSeq(code, k + 1, EndOf(p, code, k) - 1)
         IN  /\ body \in Seq(Nat) /\ Len(body) = EndOf(p, code, k) - 1 - k
             /\ \A j \in 1 .. Len(body) : body[j] = code[k + j]
<1>1. PICK n \in Nat, e \in Nat : n = Len(code) /\ e = EndOf(p, code, k) /\ e \in k + 1 .. n + 1
  <2>1. EndOf(p, code, k) \in k + 1 .. Len(code) + 1 /\ Len(code) \in Nat
    BY EndOfIs
  <2> QED
    BY <2>1
<1>2. PICK body : body = SubSeq(code, k + 1, e - 1)
  OBVIOUS
<1>3. \A i \in k + 1 .. e - 1 : code[i] \in Nat
  BY <1>1
<1>4. body \in Seq(Nat)
  BY <1>1, <1>2, <1>3, SubSeqProperties
<1>5. Len(body) = e - 1 - k
  BY <1>1, <1>2
<1>6. ASSUME NEW j \in 1 .. e - 1 - k PROVE body[j] = code[k + j]
  BY <1>1, <1>2, <1>6
<1> QED
  BY <1>1, <1>2, <1>4, <1>5, <1>6

\* ... a statement ...
LEMMA MadeType ==
  ASSUME TemplateTypeOK, NEW p, NEW code \in Seq(Nat), NEW k \in 1 .. Len(code)
  PROVE  Made(p, code, k) \in Seq(Token)
<1>1. files \in Nat /\ code[k] \in Nat
  BY TemplateAssumption DEF TemplateTypeOK, Contents
<1>2. PICK body : body = SubSeq(code, k + 1, EndOf(p, code, k) - 1)
  OBVIOUS
<1>3. body \in Seq(Nat)
  BY <1>2, BodyIs
<1>4. PICK rounds \in Nat : rounds = IF EndOf(p, code, k) <= Len(code) THEN files ELSE 1
  BY <1>1
<1>5. Loop(p, body, code[k], rounds) \in Seq(Token)
  BY <1>1, <1>3, LoopType
<1>6. << code[k] >> \in Seq(Nat)
  BY <1>1
<1>7. Loop(p, << code[k] >>, code[k], files) \in Seq(Token)
  BY <1>1, <1>6, LoopType
<1>8. html_tag(p, code[k], code[k], 0) \in Seq(Token) /\ << >> \in Seq(Token)
  BY <1>1, TagType
<1> QED
  BY <1>2, <1>4, <1>5, <1>7, <1>8 DEF Made

\* ... and all that code makes before it raises an error, if it does.
LEMMA TagsType ==
  ASSUME TemplateTypeOK, NEW p, NEW code \in Seq(Nat)
  PROVE  [k \in DOMAIN code |-> Made(p, code, k)] \in Seq(Seq(Token))
<1> DEFINE tags(k) == Made(p, code, k)
<1>1. \A k \in 1 .. Len(code) : tags(k) \in Seq(Token)
  BY MadeType
<1>2. Len(code) \in Nat /\ DOMAIN code = 1 .. Len(code)
  OBVIOUS
<1> HIDE DEF tags
<1>3. [k \in 1 .. Len(code) |-> tags(k)] \in Seq(Seq(Token))
  BY <1>1, <1>2, IsASeq
<1> QED
  BY <1>2, <1>3 DEF tags

\* What has been done of a chunk is a beginning of it: all of it without an error.
LEMMA DoneIs ==
  ASSUME NEW p, NEW code \in Seq(Nat)
  PROVE  \E d \in Nat :
           /\ d = FirstOf(Raising(p, code), code) - 1 /\ d <= Len(code)
           /\ SubSeq(code, 1, d) \in Seq(Nat) /\ Len(SubSeq(code, 1, d)) = d
           /\ \A k \in 1 .. d : SubSeq(code, 1, d)[k] = code[k]
           /\ Raising(p, code) = {} => SubSeq(code, 1, d) = code
<1>1. PICK n \in Nat : n = Len(code)
  OBVIOUS
<1>2. PICK S : S = Raising(p, code)
  OBVIOUS
<1>3. S \subseteq 1 .. Len(code)
  BY <1>2, WhereIs DEF Raising
<1>4. /\ FirstOf(S, code) \in 1 .. n + 1
      /\ FirstOf(S, code) \in S \/ FirstOf(S, code) = n + 1
  BY <1>1, <1>3, FirstOfIs
<1>5. PICK d \in Nat : d = FirstOf(S, code) - 1 /\ d <= n /\ (S = {} => d = n)
  BY <1>4
<1>6. \A i \in 1 .. d : code[i] \in Nat
  BY <1>1, <1>5
<1>7. SubSeq(code, 1, d) \in Seq(Nat)
  BY <1>6, SubSeqProperties
<1>8. /\ Len(SubSeq(code, 1, d)) = d
      /\ \A k \in 1 .. d : SubSeq(code, 1, d)[k] = code[k]
  BY <1>1, <1>5
<1>9. S = {} => SubSeq(code, 1, d) = code
  BY <1>1, <1>5, <1>7, <1>8, SeqEqual
<1> QED
  BY <1>1, <1>2, <1>5, <1>7, <1>8, <1>9

\* ... so that what running the chunk makes are tokens.
LEMMA ChunkType ==
  ASSUME TemplateTypeOK, NEW p, NEW code \in Seq(Nat)
  PROVE  Tags(p, code) \in Seq(Token)
<1>1. PICK d \in Nat : /\ d = FirstOf(Raising(p, code), code) - 1
                       /\ SubSeq(code, 1, d) \in Seq(Nat)
  BY DoneIs
<1>2. PICK done \in Seq(Nat) : done = SubSeq(code, 1, d)
  BY <1>1
<1>3. FlattenSeq([k \in DOMAIN done |-> Made(p, done, k)]) \in Seq(Token)
  BY TagsType, FlatType
<1> QED
  BY <1>1, <1>2, <1>3 DEF Tags

\* A chunk is a beginning of the code.
LEMMA JoinedType ==
  ASSUME NEW p, NEW code \in Seq(Nat)
  PROVE  Joined(p, code) \in Seq(Nat)
<1>1. PICK f : f = FirstOf(Where(p, code, "comment"), code)
  OBVIOUS
<1>2. /\ f \in 1 .. Len(code) + 1
      /\ f \in Where(p, code, "comment") \/ f = Len(code) + 1
      /\ \A j \in Where(p, code, "comment") : f <= j
  <2>1. PICK S : S = Where(p, code, "comment")
    OBVIOUS
  <2>2. S \subseteq 1 .. Len(code) /\ Len(code) \in Nat
    BY <2>1, WhereIs
  <2> QED
    BY <1>1, <2>1, <2>2, FirstOfIs
<1>3. CASE Has(p, code, "comment")
  <2>1. f \in 1 .. Len(code)
    BY <1>2, <1>3, WhereIs DEF Has
  <2>2. f \in Int /\ \A i \in 1 .. f : code[i] \in Nat
    BY <2>1
  <2>3. SubSeq(code, 1, f) \in Seq(Nat)
    BY <2>2, SubSeqProperties
  <2> QED
    BY <1>1, <1>3, <2>3 DEF Joined
<1>4. CASE ~ Has(p, code, "comment")
  BY <1>4 DEF Joined
<1> QED
  BY <1>3, <1>4

\* A result more.
LEMMA ReturnedType ==
  ASSUME TemplateTypeOK, NEW p \in Page, NEW n \in Contents,
         NEW values \in Seq(Seq(Token)), NEW raised \in BOOLEAN, Returned(p, n, values, raised)
  PROVE  results' \in Seq([page : Page, files : Contents,
                           ret : Seq(Seq(Token)), raised : BOOLEAN])
<1>1. Message \in Token
  BY DEF Message, Token, Run, TemplateTypeOK
<1>2. << Message >> \in Seq(Token)
  BY <1>1
<1>3. Append(values, << Message >>) \in Seq(Seq(Token))
  BY <1>2, AppendProperties
<1>4. PICK r : r = IF raised THEN Append(values, << Message >>) ELSE values
  OBVIOUS
<1>5. r \in Seq(Seq(Token))
  BY <1>3, <1>4
<1>6. results' = Append(results, [page |-> p, files |-> n, raised |-> raised, ret |-> r])
  BY <1>4 DEF Returned
<1>7. [page |-> p, files |-> n, raised |-> raised, ret |-> r]
        \in [page : Page, files : Contents, ret : Seq(Seq(Token)), raised : BOOLEAN]
  BY <1>5
<1> QED
  BY <1>6, <1>7, AppendProperties DEF TemplateTypeOK

\* The rendering ends.
LEMMA EndedType ==
  ASSUME TemplateTypeOK, page # NoPage, NEW raised \in BOOLEAN, Ended(raised),
         current_ret' \in Seq(Token)
  PROVE  TemplateTypeOK'
<1>1. page \in Page /\ files \in Contents /\ ret \in Seq(Seq(Token))
  BY DEF TemplateTypeOK
<1>2. results' \in Seq([page : Page, files : Contents, ret : Seq(Seq(Token)), raised : BOOLEAN])
  BY <1>1, ReturnedType DEF Ended
<1>3. << >> \in Seq(Nat) /\ << >> \in Seq(Seq(Token))
  OBVIOUS
<1> QED
  BY <1>1, <1>2, <1>3 DEF Ended, TemplateTypeOK

\* Every step keeps the types.
LEMMA NextTemplateType == TemplateTypeOK /\ [TemplateNext]_templateVars => TemplateTypeOK'
<1> SUFFICES ASSUME TemplateTypeOK, [TemplateNext]_templateVars PROVE TemplateTypeOK'
  OBVIOUS
<1>1. /\ << >> \in Seq(Nat) /\ << >> \in Seq(Seq(Token)) /\ << >> \in Seq(Token)
      /\ \A p \in Page : Len(Lines[p]) \in Nat
  <2>1. \A p \in Page : Lines[p] \in Seq(Line)
    BY TemplateAssumption
  <2> QED
    BY <2>1
<1>2. CASE DoFile
  <2>1. PICK p \in Page, n \in Contents :
          /\ files' = n
          /\ IF p \in Missing THEN Returned(p, n, << >>, FALSE) /\ UNCHANGED page
             ELSE page' = p /\ UNCHANGED results
    BY <1>2 DEF DoFile
  <2>2. results' \in Seq([page : Page, files : Contents, ret : Seq(Seq(Token)), raised : BOOLEAN])
    <3>1. CASE p \in Missing
      BY <1>1, <2>1, <3>1, ReturnedType
    <3>2. CASE p \notin Missing
      BY <2>1, <3>2 DEF TemplateTypeOK
    <3> QED
      BY <3>1, <3>2
  <2>3. page' \in Page \cup {NoPage}
    BY <2>1 DEF TemplateTypeOK
  <2>4. page' # NoPage => 0 <= Len(Lines[page'])
    BY <1>1, <2>3
  <2> QED
    BY <1>1, <1>2, <2>1, <2>2, <2>3, <2>4 DEF DoFile, TemplateTypeOK
<1>3. CASE Dump \/ OpenTag \/ TextLine \/ CloseTag
  <2>1. /\ page \in Page /\ at \in Nat /\ at < Len(Lines[page]) /\ at' = at + 1
        /\ UNCHANGED <<page, files, results, alive>>
    BY <1>3 DEF Dump, OpenTag, TextLine, CloseTag, Next, Read, TemplateTypeOK
  <2>2. at' \in Nat /\ at' <= Len(Lines[page])
    BY <1>1, <2>1
  <2>3. dump_code' \in BOOLEAN
    BY <1>3 DEF Dump, OpenTag, TextLine, CloseTag, TemplateTypeOK
  <2>4. function_code' \in Seq(Nat)
    <3>1. Append(function_code, at + 1) \in Seq(Nat)
      BY <2>1, AppendProperties DEF TemplateTypeOK
    <3> QED
      BY <1>1, <1>3, <3>1 DEF Dump, OpenTag, TextLine, CloseTag, TemplateTypeOK
  <2>5. ret' \in Seq(Seq(Token)) /\ current_ret' \in Seq(Token)
    <3>1. CASE Dump \/ OpenTag
      BY <3>1 DEF Dump, OpenTag, TemplateTypeOK
    <3>2. CASE TextLine
      <4>1. << [run |-> Run, line |-> at + 1, item |-> 0, part |-> at + 1] >> \in Seq(Token)
        <5>1. [run |-> Run, line |-> at + 1, item |-> 0, part |-> at + 1] \in Token
          BY <2>1 DEF Token, Run, TemplateTypeOK
        <5> QED
          BY <5>1
      <4>2. Append(ret, << [run |-> Run, line |-> at + 1, item |-> 0, part |-> at + 1] >>) \in Seq(Seq(Token))
        BY <4>1, AppendProperties DEF TemplateTypeOK
      <4> QED
        BY <3>2, <4>2 DEF TextLine, TemplateTypeOK
    <3>3. CASE CloseTag
      <4>1. Tags(page, Chunk) \in Seq(Token)
        BY ChunkType, JoinedType DEF Chunk, TemplateTypeOK
      <4>2. current_ret \o Tags(page, Chunk) \in Seq(Token)
        BY <4>1, ConcatProperties DEF TemplateTypeOK
      <4>3. Append(ret, current_ret \o Tags(page, Chunk)) \in Seq(Seq(Token))
        BY <4>2, AppendProperties DEF TemplateTypeOK
      <4> QED
        BY <1>1, <3>3, <4>3 DEF CloseTag, Yielded
    <3> QED
      BY <1>3, <3>1, <3>2, <3>3
  <2> QED
    BY <2>1, <2>2, <2>3, <2>4, <2>5 DEF TemplateTypeOK
<1>4. CASE CodeRaises
  <2>1. Tags(page, Chunk) \in Seq(Token)
    BY ChunkType, JoinedType DEF Chunk, TemplateTypeOK
  <2>2. current_ret \o Tags(page, Chunk) \in Seq(Token)
    BY <2>1, ConcatProperties DEF TemplateTypeOK
  <2> QED
    BY <1>4, <2>2, EndedType DEF CodeRaises, Next
<1>5. CASE FormatRaises \/ EndOfFile
  BY <1>5, EndedType DEF FormatRaises, EndOfFile, TemplateTypeOK
<1>6. CASE LoadFails
  <2>1. /\ at' = at + 1 /\ page' = NoPage /\ alive' = FALSE
        /\ UNCHANGED <<files, dump_code, function_code, current_ret, ret, results>>
    BY <1>6 DEF LoadFails, Read
  <2>2. at' \in Nat /\ (page' # NoPage => at' <= Len(Lines[page']))
    BY <2>1 DEF TemplateTypeOK
  <2> QED
    BY <2>1, <2>2 DEF TemplateTypeOK
<1>7. CASE UNCHANGED templateVars
  BY <1>7 DEF templateVars, TemplateTypeOK
<1> QED
  BY <1>2, <1>3, <1>4, <1>5, <1>6, <1>7 DEF TemplateNext

\* So it is in the beginning.
LEMMA InitTemplateType == TemplateInit => TemplateTypeOK
<1> SUFFICES ASSUME TemplateInit PROVE TemplateTypeOK
  OBVIOUS
<1>1. /\ << >> \in Seq(Nat) /\ << >> \in Seq(Seq(Token)) /\ << >> \in Seq(Token)
      /\ << >> \in Seq([page : Page, files : Contents, ret : Seq(Seq(Token)), raised : BOOLEAN])
  OBVIOUS
<1>2. 0 \in Contents
  BY TemplateAssumption DEF Contents
<1>3. /\ page = NoPage /\ files = 0 /\ at = 0 /\ dump_code = FALSE /\ alive = TRUE
      /\ function_code = << >> /\ current_ret = << >> /\ ret = << >> /\ results = << >>
  BY DEF TemplateInit
<1>4. at \in Nat /\ (page # NoPage => at <= Len(Lines[page]))
  BY <1>3
<1>5. page \in Page \cup {NoPage} /\ dump_code \in BOOLEAN /\ alive \in BOOLEAN
  BY <1>3
<1> QED
  BY <1>1, <1>2, <1>3, <1>4, <1>5 DEF TemplateTypeOK

\* Every variable has its type, whatever is in the pages.
THEOREM TemplateTypeCorrect == TemplateSpec => []TemplateTypeOK
BY InitTemplateType, NextTemplateType, PTL DEF TemplateSpec

-----------------------------------------------------------------------------
(* What one page leaves for the next *)

\* results is a sequence, whatever it holds.
LeftoverInv == (\E S : results \in Seq(S)) /\ LeftoverOnlyAfterRaise

\* A result more, and what was raised before has still been raised.
LEMMA ReturnedKeeps ==
  ASSUME NEW p, NEW n, NEW values, NEW raised \in BOOLEAN,
         \E S : results \in Seq(S), Returned(p, n, values, raised)
  PROVE  /\ \E S : results' \in Seq(S)
         /\ \A k \in DOMAIN results : k \in DOMAIN results' /\ results'[k] = results[k]
         /\ raised => \E k \in DOMAIN results' : results'[k].raised
<1>1. PICK S : results \in Seq(S)
  OBVIOUS
<1>2. PICK r : results' = Append(results, r) /\ r.raised = raised
  BY DEF Returned
<1>3. results \in Seq(S \cup {r})
  BY <1>1
<1>4. /\ results' \in Seq(S \cup {r}) /\ Len(results') = Len(results) + 1
      /\ \A k \in 1 .. Len(results) : results'[k] = results[k]
      /\ results'[Len(results) + 1] = r
  BY <1>2, <1>3
<1>5. /\ Len(results) \in Nat /\ DOMAIN results = 1 .. Len(results)
      /\ DOMAIN results' = 1 .. Len(results) + 1
  BY <1>3, <1>4
<1> QED
  BY <1>2, <1>4, <1>5

\* A rendering that ends with current_ret as it was, or with an error.
LEMMA EndedKeeps ==
  ASSUME LeftoverInv, NEW raised \in BOOLEAN, Ended(raised),
         raised \/ current_ret' = current_ret
  PROVE  LeftoverInv'
<1>1. /\ \E S : results' \in Seq(S)
      /\ \A k \in DOMAIN results : k \in DOMAIN results' /\ results'[k] = results[k]
      /\ raised => \E k \in DOMAIN results' : results'[k].raised
  BY ReturnedKeeps DEF Ended, LeftoverInv
<1> QED
  BY <1>1 DEF LeftoverInv, LeftoverOnlyAfterRaise

\* Every step keeps the invariant.
LEMMA NextLeftoverInv == LeftoverInv /\ [TemplateNext]_templateVars => LeftoverInv'
<1> SUFFICES ASSUME LeftoverInv, [TemplateNext]_templateVars PROVE LeftoverInv'
  OBVIOUS
<1>1. CASE DoFile
  <2>1. CASE UNCHANGED results
    BY <1>1, <2>1 DEF DoFile, LeftoverInv, LeftoverOnlyAfterRaise
  <2>2. ASSUME NEW p, NEW n, Returned(p, n, << >>, FALSE) PROVE LeftoverInv'
    <3>1. /\ \E S : results' \in Seq(S)
          /\ \A k \in DOMAIN results : k \in DOMAIN results' /\ results'[k] = results[k]
      BY <2>2, ReturnedKeeps DEF LeftoverInv
    <3> QED
      BY <1>1, <3>1 DEF DoFile, LeftoverInv, LeftoverOnlyAfterRaise
  <2> QED
    BY <1>1, <2>1, <2>2 DEF DoFile
<1>2. CASE Dump \/ OpenTag \/ TextLine \/ LoadFails
  BY <1>2 DEF Dump, OpenTag, TextLine, LoadFails, LeftoverInv, LeftoverOnlyAfterRaise
<1>3. CASE CloseTag
  BY <1>3 DEF CloseTag, Yielded, LeftoverInv, LeftoverOnlyAfterRaise
<1>4. CASE CodeRaises \/ FormatRaises
  BY <1>4, EndedKeeps DEF CodeRaises, FormatRaises
<1>5. CASE EndOfFile
  BY <1>5, EndedKeeps DEF EndOfFile
<1>6. CASE UNCHANGED templateVars
  BY <1>6 DEF templateVars, LeftoverInv, LeftoverOnlyAfterRaise
<1> QED
  BY <1>1, <1>2, <1>3, <1>4, <1>5, <1>6 DEF TemplateNext

\* So it is in the beginning.
LEMMA InitLeftoverInv == TemplateInit => LeftoverInv
<1>1. << >> \in Seq({})
  OBVIOUS
<1> QED
  BY <1>1 DEF TemplateInit, LeftoverInv, LeftoverOnlyAfterRaise

\* Whatever pages are rendered one after another, the global in which tags gather
\* is empty between two of them unless one has raised an error.
THEOREM LeftoverOnlyAfterRaiseAlways == TemplateSpec => []LeftoverOnlyAfterRaise
<1> LeftoverInv => LeftoverOnlyAfterRaise
  BY DEF LeftoverInv
<1> QED
  BY InitLeftoverInv, NextLeftoverInv, PTL DEF TemplateSpec

-----------------------------------------------------------------------------
(* The lines of a page *)

\* A line has one mark, and only one without is code.
LEMMA LineIs ==
  ASSUME NEW p \in Page, NEW i \in 1 .. Len(Lines[p])
  PROVE  /\ IsMark(p, i, "none") \/ IsMark(p, i, "open") \/ IsMark(p, i, "close")
         /\ IsMark(p, i, "open") => ~ IsMark(p, i, "close")
         /\ IsMark(p, i, "none") => ~ IsMark(p, i, "close") /\ ~ IsMark(p, i, "open")
         /\ ~ IsMark(p, i, "none") => Effect(p, i) = "syntax"
<1>1. Lines[p] \in Seq(Line)
  BY TemplateAssumption
<1>2. Lines[p][i] \in Line
  BY <1>1
<1> QED
  BY <1>2 DEF Line, IsMark, Effect

\* The number of lines.
LEMMA LinesLength == \A p \in Page : Len(Lines[p]) \in Nat /\ DOMAIN Lines[p] = 1 .. Len(Lines[p])
<1>1. \A p \in Page : Lines[p] \in Seq(Line)
  BY TemplateAssumption
<1> QED
  BY <1>1

\* What the line before says of the next one.
LEMMA InCodeNext ==
  ASSUME NEW p, NEW i \in Nat, i # 0
  PROVE  InCode(p, i + 1) <=> IsMark(p, i, "open") \/ (InCode(p, i) /\ ~ IsMark(p, i, "close"))
<1>1. 1 .. (i + 1) - 1 = 1 .. i
  OBVIOUS
<1>2. ASSUME IsMark(p, i, "open") PROVE InCode(p, i + 1)
  <2>1. i \in 1 .. (i + 1) - 1 /\ i + 1 .. (i + 1) - 1 = {}
    OBVIOUS
  <2> QED
    BY <1>2, <2>1 DEF InCode
<1>3. ASSUME InCode(p, i), ~ IsMark(p, i, "close") PROVE InCode(p, i + 1)
  <2>1. PICK j \in 1 .. i - 1 : IsMark(p, j, "open") /\ \A k \in j + 1 .. i - 1 : ~ IsMark(p, k, "close")
    BY <1>3 DEF InCode
  <2>2. \A k \in j + 1 .. (i + 1) - 1 : k \in j + 1 .. i - 1 \/ k = i
    OBVIOUS
  <2>3. j \in 1 .. (i + 1) - 1
    OBVIOUS
  <2> QED
    BY <1>3, <2>1, <2>2, <2>3 DEF InCode
<1>4. ASSUME InCode(p, i + 1), ~ IsMark(p, i, "open") PROVE InCode(p, i) /\ ~ IsMark(p, i, "close")
  <2>1. PICK j \in 1 .. (i + 1) - 1 :
          IsMark(p, j, "open") /\ \A k \in j + 1 .. (i + 1) - 1 : ~ IsMark(p, k, "close")
    BY <1>4 DEF InCode
  <2>2. j # i
    BY <1>4, <2>1
  <2>3. j \in 1 .. i - 1 /\ i \in j + 1 .. (i + 1) - 1 /\ \A k \in j + 1 .. i - 1 : k \in j + 1 .. (i + 1) - 1
    BY <2>2
  <2> QED
    BY <2>1, <2>3 DEF InCode
<1> QED
  BY <1>2, <1>3, <1>4

\* The first line is never code.
LEMMA InCodeFirst == \A p : ~ InCode(p, 1)
BY DEF InCode

-----------------------------------------------------------------------------
(* A page that says nothing *)

\* Nothing up to line n is text or ends code.
Quiet(p, n) == \A i \in 1 .. n : ~ IsMark(p, i, "close") /\ (IsMark(p, i, "none") => InCode(p, i))

\* The coroutine knows whether the next line is code, and has yielded nothing as
\* long as there was nothing.
ReadInv ==
  page # NoPage =>
    /\ page \notin Missing
    /\ dump_code <=> InCode(page, at + 1)
    /\ ret = << >> <=> Quiet(page, at)

NilInv == TemplateTypeOK /\ ReadInv /\ NilOnlyForNothing

\* One line more.
LEMMA QuietNext ==
  ASSUME NEW p, NEW n \in Nat
  PROVE  Quiet(p, n + 1) <=> /\ Quiet(p, n) /\ ~ IsMark(p, n + 1, "close")
                             /\ IsMark(p, n + 1, "none") => InCode(p, n + 1)
<1>1. 1 .. n + 1 = 1 .. n \cup {n + 1}
  OBVIOUS
<1> QED
  BY <1>1 DEF Quiet

\* The line that is read.
LEMMA NextIs ==
  ASSUME TemplateTypeOK, NEW marks, Next(marks)
  PROVE  /\ page \in Page /\ page # NoPage /\ at \in Nat
         /\ at + 1 \in 1 .. Len(Lines[page])
         /\ Lines[page][at + 1].mark \in marks
<1>1. page \in Page /\ at \in Nat /\ at < Len(Lines[page])
  BY DEF Next, TemplateTypeOK
<1>2. at + 1 \in 1 .. Len(Lines[page])
  BY <1>1, LinesLength
<1> QED
  BY <1>1, <1>2 DEF Next

\* A result more, as one record.
LEMMA ReturnedIs ==
  ASSUME TemplateTypeOK, NEW p, NEW n, NEW values, NEW raised \in BOOLEAN,
         Returned(p, n, values, raised)
  PROVE  /\ Len(results) \in Nat /\ DOMAIN results = 1 .. Len(results)
         /\ DOMAIN results' = 1 .. Len(results) + 1
         /\ \A k \in DOMAIN results : k \in DOMAIN results' /\ results'[k] = results[k]
         /\ \A k \in DOMAIN results' : k \in DOMAIN results \/ k = Run
         /\ Run \in DOMAIN results'
         /\ results'[Run].page = p /\ results'[Run].files = n /\ results'[Run].raised = raised
         /\ results'[Run].ret = IF raised THEN Append(values, << Message >>) ELSE values
<1>1. PICK r : /\ results' = Append(results, r)
               /\ r.page = p /\ r.files = n /\ r.raised = raised
               /\ r.ret = IF raised THEN Append(values, << Message >>) ELSE values
  <2>1. PICK v : v = IF raised THEN Append(values, << Message >>) ELSE values
    OBVIOUS
  <2>2. PICK r : r = [page |-> p, files |-> n, raised |-> raised, ret |-> v]
    OBVIOUS
  <2>3. results' = Append(results, r)
    BY <2>1, <2>2 DEF Returned
  <2>4. r.page = p /\ r.files = n /\ r.raised = raised /\ r.ret = v
    BY <2>2
  <2> QED
    BY <2>1, <2>3, <2>4
<1>2. PICK S : results \in Seq(S)
  BY DEF TemplateTypeOK
<1>3. results \in Seq(S \cup {r})
  BY <1>2
<1>4. /\ results' \in Seq(S \cup {r}) /\ Len(results') = Len(results) + 1
      /\ \A k \in 1 .. Len(results) : results'[k] = results[k]
      /\ results'[Len(results) + 1] = r
  BY <1>1, <1>3
<1>5. /\ Len(results) \in Nat /\ DOMAIN results = 1 .. Len(results)
      /\ DOMAIN results' = 1 .. Len(results) + 1
  BY <1>3, <1>4
<1> QED
  BY <1>1, <1>4, <1>5 DEF Run

\* The results that were there are as they were.
LEMMA ReturnedNil ==
  ASSUME NilInv, NEW p \in Page, NEW n, NEW values \in Seq(Seq(Token)), NEW raised \in BOOLEAN,
         Returned(p, n, values, raised),
         ~ raised => (values = << >> <=> p \in Missing \/ Quiet(p, Len(Lines[p])))
  PROVE  NilOnlyForNothing'
<1>1. TemplateTypeOK
  BY DEF NilInv
<1>2. /\ \A k \in DOMAIN results : k \in DOMAIN results' /\ results'[k] = results[k]
      /\ \A k \in DOMAIN results' : k \in DOMAIN results \/ k = Run
      /\ results'[Run].page = p /\ results'[Run].raised = raised
      /\ results'[Run].ret = IF raised THEN Append(values, << Message >>) ELSE values
  BY <1>1, ReturnedIs
<1>3. Append(values, << Message >>) # << >>
  <2>1. \A v : Append(values, v) # << >>
    BY AppendProperties
  <2> QED
    BY <2>1
<1>4. Quiet(p, Len(Lines[p])) <=> \A i \in DOMAIN Lines[p] :
                                    ~ IsMark(p, i, "close") /\ (IsMark(p, i, "none") => InCode(p, i))
  BY LinesLength DEF Quiet
<1>5. results'[Run].ret = << >> <=>
        /\ ~ raised
        /\ \/ p \in Missing
           \/ \A i \in DOMAIN Lines[p] :
                ~ IsMark(p, i, "close") /\ (IsMark(p, i, "none") => InCode(p, i))
  BY <1>2, <1>3, <1>4
<1>6. ASSUME NEW k \in DOMAIN results
      PROVE  results'[k].ret = << >> <=>
               /\ ~ results'[k].raised
               /\ \/ results'[k].page \in Missing
                  \/ \A i \in DOMAIN Lines[results'[k].page] :
                       /\ ~ IsMark(results'[k].page, i, "close")
                       /\ IsMark(results'[k].page, i, "none") => InCode(results'[k].page, i)
  BY <1>2, <1>6 DEF NilInv, NilOnlyForNothing
<1> QED
  BY <1>2, <1>5, <1>6 DEF NilOnlyForNothing

\* Every step keeps the invariant.
LEMMA NextNilInv == NilInv /\ [TemplateNext]_templateVars => NilInv'
<1> SUFFICES ASSUME NilInv, [TemplateNext]_templateVars PROVE NilInv'
  OBVIOUS
<1>1. TemplateTypeOK /\ TemplateTypeOK' /\ ReadInv /\ NilOnlyForNothing
  BY NextTemplateType DEF NilInv
<1> SUFFICES ReadInv' /\ NilOnlyForNothing'
  BY <1>1 DEF NilInv
<1>2. ASSUME UNCHANGED results PROVE NilOnlyForNothing'
  BY <1>1, <1>2 DEF NilOnlyForNothing
<1>3. ASSUME page' = NoPage PROVE ReadInv'
  BY <1>3 DEF ReadInv
<1>4. ret \in Seq(Seq(Token)) /\ page \in Page \cup {NoPage} /\ NoPage \notin Page
  BY <1>1, TemplateAssumption DEF TemplateTypeOK
<1>5. CASE DoFile
  <2>1. PICK p \in Page, n \in Contents :
          IF p \in Missing THEN Returned(p, n, << >>, FALSE) /\ UNCHANGED page
          ELSE page' = p /\ UNCHANGED results
    BY <1>5 DEF DoFile
  <2>2. page = NoPage /\ at' = 0 /\ dump_code' = FALSE /\ ret' = << >>
    BY <1>5 DEF DoFile
  <2>3. CASE p \in Missing
    <3>1. << >> \in Seq(Seq(Token))
      OBVIOUS
    <3>2. NilOnlyForNothing'
      BY <2>1, <2>3, <3>1, ReturnedNil
    <3> QED
      BY <1>3, <2>1, <2>2, <2>3, <3>2
  <2>4. CASE p \notin Missing
    <3>1. Quiet(p, 0) /\ ~ InCode(p, 0 + 1)
      BY InCodeFirst DEF Quiet
    <3> QED
      BY <1>2, <2>1, <2>2, <2>4, <3>1 DEF ReadInv
  <2> QED
    BY <2>3, <2>4
<1>6. CASE Dump \/ OpenTag \/ TextLine \/ CloseTag
  <2>1. PICK mark \in {"none", "open", "close"} : Next({mark}) /\ IsMark(page, at + 1, mark)
    BY <1>6 DEF Dump, OpenTag, TextLine, CloseTag, Next, IsMark
  <2>2. /\ at' = at + 1 /\ page' = page /\ results' = results
    BY <1>6 DEF Dump, OpenTag, TextLine, CloseTag, Read
  <2>3. PICK n \in Nat : n = at + 1 /\ page \in Page /\ page # NoPage /\ n \in 1 .. Len(Lines[page]) /\ n # 0
    BY <1>1, <2>1, NextIs
  <2>4. /\ InCode(page, n + 1) <=> IsMark(page, n, "open") \/ (InCode(page, n) /\ ~ IsMark(page, n, "close"))
    BY <2>3, InCodeNext
  <2>5. Quiet(page, n) <=> /\ Quiet(page, at) /\ ~ IsMark(page, n, "close")
                           /\ IsMark(page, n, "none") => InCode(page, n)
    BY <1>1, <2>3, QuietNext DEF TemplateTypeOK
  <2>6. /\ page \notin Missing /\ (dump_code <=> InCode(page, n))
        /\ ret = << >> <=> Quiet(page, at)
    BY <1>1, <2>3 DEF ReadInv
  <2>7. \A s : Append(ret, s) # << >>
    BY <1>4, AppendProperties
  <2>8. /\ dump_code' <=> InCode(page, n + 1)
        /\ ret' = << >> <=> Quiet(page, n)
    <3>1. CASE Dump
      <4>1. dump_code /\ dump_code' = dump_code /\ ret' = ret /\ ~ IsMark(page, n, "close")
        BY <2>3, <3>1 DEF Dump, Next, IsMark
      <4> QED
        BY <2>4, <2>5, <2>6, <4>1
    <3>2. CASE OpenTag
      <4>1. /\ ~ dump_code /\ dump_code' = TRUE /\ ret' = ret
            /\ IsMark(page, n, "open") /\ ~ IsMark(page, n, "none") /\ ~ IsMark(page, n, "close")
        BY <2>3, <3>2 DEF OpenTag, Next, IsMark
      <4> QED
        BY <2>4, <2>5, <2>6, <4>1
    <3>3. CASE TextLine
      <4>1. /\ ~ dump_code /\ dump_code' = dump_code /\ IsMark(page, n, "none") /\ ~ IsMark(page, n, "open")
            /\ ret' # << >>
        BY <2>3, <2>7, <3>3 DEF TextLine, Next, IsMark
      <4> QED
        BY <2>4, <2>5, <2>6, <4>1
    <3>4. CASE CloseTag
      <4>1. /\ dump_code' = FALSE /\ IsMark(page, n, "close") /\ ~ IsMark(page, n, "open")
            /\ ret' # << >>
        BY <2>3, <2>7, <3>4 DEF CloseTag, Yielded, Next, IsMark
      <4> QED
        BY <2>4, <2>5, <2>6, <4>1
    <3> QED
      BY <1>6, <3>1, <3>2, <3>3, <3>4
  <2>9. ReadInv'
    BY <2>2, <2>3, <2>6, <2>8 DEF ReadInv
  <2> QED
    BY <1>2, <2>2, <2>9
<1>7. CASE CodeRaises \/ FormatRaises
  <2>1. page # NoPage /\ Returned(page, files, ret, TRUE) /\ page' = NoPage
    BY <1>7 DEF CodeRaises, FormatRaises, Next, Ended
  <2>2. NilOnlyForNothing'
    BY <1>4, <2>1, ReturnedNil
  <2> QED
    BY <1>3, <2>1, <2>2
<1>8. CASE EndOfFile
  <2>1. /\ page # NoPage /\ at = Len(Lines[page]) /\ Returned(page, files, ret, FALSE) /\ page' = NoPage
    BY <1>8 DEF EndOfFile, Ended
  <2>2. page \notin Missing /\ (ret = << >> <=> Quiet(page, Len(Lines[page])))
    BY <1>1, <2>1 DEF ReadInv
  <2>3. NilOnlyForNothing'
    BY <1>4, <2>1, <2>2, ReturnedNil
  <2> QED
    BY <1>3, <2>1, <2>3
<1>9. CASE LoadFails
  BY <1>2, <1>3, <1>9 DEF LoadFails
<1>10. CASE UNCHANGED templateVars
  BY <1>1, <1>2, <1>10 DEF templateVars, ReadInv
<1> QED
  BY <1>5, <1>6, <1>7, <1>8, <1>9, <1>10 DEF TemplateNext

\* So it is in the beginning.
LEMMA InitNilInv == TemplateInit => NilInv
BY InitTemplateType DEF TemplateInit, NilInv, ReadInv, NilOnlyForNothing

\* Whatever is in the pages, a handler is given nil only for a page that is not there
\* or says nothing, and always for those.
THEOREM NilOnlyForNothingAlways == TemplateSpec => []NilOnlyForNothing
<1> NilInv => NilOnlyForNothing
  BY DEF NilInv
<1> QED
  BY InitNilInv, NextNilInv, PTL DEF TemplateSpec

-----------------------------------------------------------------------------
(* The code that is gathered *)

\* The coroutine has done with the lines up to this one.
ReadTo == at - Len(function_code)

\* The lines from there to the last one it has read are code that is still open, and
\* those are what it has gathered.
CodeInv ==
  page # NoPage =>
    /\ ReadTo \in 0 .. at
    /\ ~ dump_code => ReadTo = at
    /\ dump_code => ReadTo # 0 /\ IsMark(page, ReadTo, "open") /\ ~ InCode(page, ReadTo)
    /\ \A i \in ReadTo + 1 .. at : ~ IsMark(page, i, "close")
    /\ \A k \in 1 .. Len(function_code) : function_code[k] = ReadTo + k

\* Every step keeps it.
LEMMA NextCodeInv ==
  ASSUME NilInv, CodeInv, [TemplateNext]_templateVars
  PROVE  CodeInv'
<1>1. TemplateTypeOK /\ ReadInv
  BY DEF NilInv
<1>2. function_code \in Seq(Nat) /\ Len(function_code) \in Nat /\ at \in Nat
  BY <1>1 DEF TemplateTypeOK
<1>3. ASSUME page' = NoPage PROVE CodeInv'
  BY <1>3 DEF CodeInv
<1>4. Len(<< >>) = 0
  OBVIOUS
<1>5. CASE DoFile
  <2>1. at' = 0 /\ dump_code' = FALSE /\ Len(function_code') = 0
    BY <1>4, <1>5 DEF DoFile
  <2>2. ReadTo' = 0
    BY <2>1 DEF ReadTo
  <2> QED
    BY <2>1, <2>2 DEF CodeInv
<1>6. CASE Dump
  <2>1. page # NoPage /\ ~ IsMark(page, at + 1, "close")
    BY <1>6 DEF Dump, Next, IsMark
  <2>2. /\ page' = page /\ dump_code /\ dump_code' = dump_code /\ at' = at + 1
        /\ function_code' = Append(function_code, at + 1)
    BY <1>6 DEF Dump, Read
  <2>3. PICK n \in Nat, m \in Nat, b \in Nat :
          /\ at = n /\ Len(function_code) = m /\ ReadTo = b /\ b = n - m /\ b <= n
          /\ \A i \in b + 1 .. n : ~ IsMark(page, i, "close")
          /\ \A k \in 1 .. m : function_code[k] = b + k
          /\ b # 0 /\ IsMark(page, b, "open") /\ ~ InCode(page, b)
    <3>1. PICK n \in Nat, m \in Nat : at = n /\ Len(function_code) = m
      BY <1>2
    <3>2. PICK b : b = n - m /\ ReadTo = b
      BY <3>1 DEF ReadTo
    <3>3. b \in Nat /\ b <= n
      BY <2>1, <3>1, <3>2 DEF CodeInv
    <3> QED
      BY <2>1, <2>2, <3>1, <3>2, <3>3 DEF CodeInv
  <2>4. /\ Len(function_code') = m + 1 /\ function_code'[m + 1] = n + 1
        /\ \A k \in 1 .. m : function_code'[k] = function_code[k]
    BY <1>2, <2>2, <2>3
  <2>5. ReadTo' = b /\ b \in 0 .. n + 1 /\ n + 1 = b + (m + 1)
    BY <2>2, <2>3, <2>4 DEF ReadTo
  <2>6. /\ \A i \in b + 1 .. n + 1 : i \in b + 1 .. n \/ i = n + 1
        /\ \A k \in 1 .. m + 1 : k \in 1 .. m \/ k = m + 1
    BY <2>3
  <2>7. \A k \in 1 .. m + 1 : function_code'[k] = b + k
    BY <2>3, <2>4, <2>5, <2>6
  <2>8. \A i \in b + 1 .. n + 1 : ~ IsMark(page, i, "close")
    BY <2>1, <2>3, <2>6
  <2>9. at' = n + 1
    BY <2>2, <2>3
  <2> QED
    BY <2>2, <2>3, <2>4, <2>5, <2>7, <2>8, <2>9 DEF CodeInv
<1>7. CASE OpenTag
  <2>1. page # NoPage /\ IsMark(page, at + 1, "open")
    BY <1>7 DEF OpenTag, Next, IsMark
  <2>2. /\ page' = page /\ ~ dump_code /\ dump_code' = TRUE /\ at' = at + 1
        /\ function_code' = function_code
    BY <1>7 DEF OpenTag, Read
  <2>3. Len(function_code) = 0 /\ ~ InCode(page, at + 1)
    BY <1>1, <1>2, <2>1, <2>2 DEF CodeInv, ReadTo, ReadInv
  <2>4. ReadTo' = at + 1
    BY <1>2, <2>2, <2>3 DEF ReadTo
  <2> QED
    BY <1>2, <2>1, <2>2, <2>3, <2>4 DEF CodeInv
<1>8. CASE TextLine \/ CloseTag
  <2>1. page # NoPage /\ page' = page /\ at' = at + 1 /\ ~ dump_code'
    BY <1>8 DEF TextLine, CloseTag, Next, Read
  <2>2. Len(function_code') = 0
    <3>1. CASE TextLine
      BY <1>2, <3>1 DEF TextLine, Next, CodeInv, ReadTo
    <3>2. CASE CloseTag
      BY <1>4, <3>2 DEF CloseTag
    <3> QED
      BY <1>8, <3>1, <3>2
  <2>3. ReadTo' = at + 1
    BY <1>2, <2>1, <2>2 DEF ReadTo
  <2> QED
    BY <1>2, <2>1, <2>2, <2>3 DEF CodeInv
<1>9. CASE CodeRaises \/ FormatRaises \/ LoadFails \/ EndOfFile
  BY <1>3, <1>9 DEF CodeRaises, FormatRaises, LoadFails, EndOfFile, Ended
<1>10. CASE UNCHANGED templateVars
  BY <1>10 DEF templateVars, CodeInv, ReadTo
<1> QED
  BY <1>5, <1>6, <1>7, <1>8, <1>9, <1>10 DEF TemplateNext

-----------------------------------------------------------------------------
(* What a chunk makes *)

Ordered(s) == \A i, j \in DOMAIN s : i < j => Before(s[i], s[j])

\* Tokens in order, and others behind them.
LEMMA OrderedConcat ==
  ASSUME NEW S, NEW s \in Seq(S), NEW t \in Seq(S), Ordered(s), Ordered(t),
         \A x \in Range(s), y \in Range(t) : Before(x, y)
  PROVE  Ordered(s \o t)
<1>1. PICK m \in Nat, n \in Nat : m = Len(s) /\ n = Len(t)
  OBVIOUS
<1> DEFINE u == s \o t
<1>2. /\ u \in Seq(S) /\ DOMAIN u = 1 .. m + n /\ DOMAIN s = 1 .. m /\ DOMAIN t = 1 .. n
      /\ \A i \in 1 .. m + n : u[i] = IF i <= m THEN s[i] ELSE t[i - m]
  BY <1>1, ConcatProperties
<1> HIDE DEF u
<1>3. ASSUME NEW i \in 1 .. m + n, NEW j \in 1 .. m + n, i < j PROVE Before(u[i], u[j])
  <2>1. CASE j <= m
    <3>1. i \in 1 .. m /\ j \in 1 .. m /\ i <= m
      BY <1>3, <2>1
    <3> QED
      BY <1>2, <1>3, <2>1, <3>1 DEF Ordered
  <2>2. CASE i <= m /\ ~ (j <= m)
    <3>1. i \in DOMAIN s /\ j - m \in DOMAIN t
      BY <1>2, <2>2
    <3>2. s[i] \in Range(s) /\ t[j - m] \in Range(t)
      BY <3>1 DEF Range
    <3> QED
      BY <1>2, <2>2, <3>2
  <2>3. CASE ~ (i <= m)
    <3>1. PICK k \in 1 .. n, l \in 1 .. n : k = i - m /\ l = j - m /\ k < l /\ ~ (j <= m)
      BY <1>3, <2>3
    <3> QED
      BY <1>2, <2>3, <3>1 DEF Ordered
  <2> QED
    BY <2>1, <2>2, <2>3
<1>4. Ordered(u)
  BY <1>2, <1>3 DEF Ordered
<1> QED
  BY <1>4 DEF u

\* Sequences of tokens in order, joined in order.
LEMMA FlatOrdered ==
  ASSUME NEW ss \in Seq(Seq(Token)),
         \A k \in 1 .. Len(ss) : Ordered(ss[k]),
         \A j, k \in 1 .. Len(ss) : j < k => \A x \in Range(ss[j]), y \in Range(ss[k]) : Before(x, y)
  PROVE  /\ FlattenSeq(ss) \in Seq(Token) /\ Ordered(FlattenSeq(ss))
         /\ \A t : t \in Range(FlattenSeq(ss)) <=> \E k \in 1 .. Len(ss) : t \in Range(ss[k])
<1>1. PICK m \in Nat : m = Len(ss) /\ \A k \in 1 .. m : ss[k] \in Seq(Token)
  OBVIOUS
<1> DEFINE part(j) == [k \in 1 .. j |-> ss[k]]
<1>2. ASSUME NEW j \in Nat, j <= m PROVE part(j) \in Seq(Seq(Token)) /\ Len(part(j)) = j
  <2> DEFINE e(k) == ss[k]
  <2>1. \A k \in 1 .. j : e(k) \in Seq(Token)
    BY <1>1, <1>2
  <2> HIDE DEF e
  <2>2. [k \in 1 .. j |-> e(k)] \in Seq(Seq(Token))
    BY <2>1, IsASeq
  <2> QED
    BY <2>2 DEF e
<1> DEFINE Good(j) == /\ Ordered(FlattenSeq(part(j)))
                      /\ \A t : t \in Range(FlattenSeq(part(j))) <=> \E k \in 1 .. j : t \in Range(ss[k])
<1> DEFINE T == {j \in Nat : j <= m => Good(j)}
<1>3. Good(0)
  <2>1. part(0) = << >> /\ 1 .. 0 = {}
    OBVIOUS
  <2>2. FlattenSeq(part(0)) = << >>
    BY <2>1, FlatEmpty
  <2> HIDE DEF part
  <2> QED
    BY <2>1, <2>2 DEF Ordered, Range
<1>4. ASSUME NEW i \in Nat, Good(i), i + 1 <= m PROVE Good(i + 1)
  <2>1. PICK j \in 1 .. m : j = i + 1 /\ i <= m /\ j <= m
    BY <1>4
  <2>2. part(j) = Append(part(i), ss[j])
    <3>1. /\ part(i) \in Seq(Seq(Token)) /\ Len(part(i)) = i
          /\ part(j) \in Seq(Seq(Token)) /\ Len(part(j)) = j
      <4> HIDE DEF part
      <4>1. j \in Nat
        BY <2>1
      <4> QED
        BY <1>2, <2>1, <4>1
    <3>2. \A k \in 1 .. j : k \in 1 .. i \/ k = j
      BY <2>1
    <3> QED
      BY <2>1, <3>1, <3>2
  <2>3. part(i) \in Seq(Seq(Token)) /\ ss[j] \in Seq(Token)
    BY <1>1, <1>2, <2>1
  <2>4. Ordered(ss[j])
    BY <1>1
  <2> HIDE DEF part
  <2>5. PICK s \in Seq(Token), r \in Seq(Token) : s = FlattenSeq(part(i)) /\ r = ss[j]
    BY <2>3, FlatType
  <2>6. FlattenSeq(part(j)) = s \o r
    BY <2>2, <2>3, <2>5, FlatAppend
  <2>7. Range(s \o r) = Range(s) \cup Range(r)
    BY RangeConcatenation
  <2>8. \A t : t \in Range(s) <=> \E k \in 1 .. i : t \in Range(ss[k])
    BY <1>4, <2>5
  <2>9. \A x \in Range(s), y \in Range(r) : Before(x, y)
    <3> SUFFICES ASSUME NEW x \in Range(s), NEW y \in Range(r) PROVE Before(x, y)
      OBVIOUS
    <3>1. PICK k \in 1 .. i : x \in Range(ss[k])
      BY <2>8
    <3>2. k \in 1 .. m /\ k < j
      BY <2>1
    <3> QED
      BY <1>1, <2>5, <3>1, <3>2
  <2>10. Ordered(s \o r)
    <3>1. Ordered(s) /\ Ordered(r)
      BY <1>4, <2>4, <2>5
    <3> QED
      BY <2>9, <3>1, OrderedConcat
  <2>11. ASSUME NEW t PROVE t \in Range(s \o r) <=> \E k \in 1 .. j : t \in Range(ss[k])
    <3>1. \A k : k \in 1 .. j <=> k \in 1 .. i \/ k = j
      BY <2>1
    <3> QED
      BY <2>5, <2>7, <2>8, <3>1
  <2>12. Good(j)
    BY <2>6, <2>10, <2>11
  <2> HIDE DEF Good
  <2> QED
    BY <2>1, <2>12
<1>5. Nat \subseteq T
  <2> HIDE DEF Good, part
  <2>1. 0 \in T
    BY <1>3
  <2>2. ASSUME NEW i \in Nat, i \in T PROVE i + 1 \in T
    <3>1. i + 1 <= m => i <= m
      OBVIOUS
    <3> QED
      BY <1>4, <2>2, <3>1
  <2> HIDE DEF T
  <2> QED
    BY <2>1, <2>2, SetInduction
<1>6. Good(m)
  <2> HIDE DEF Good
  <2>1. m \in T /\ m <= m
    <3> HIDE DEF T
    <3> QED
      BY <1>5
  <2> QED
    BY <2>1
<1>7. part(m) = ss
  <2> HIDE DEF part
  <2>1. part(m) \in Seq(Seq(Token)) /\ Len(part(m)) = m
    BY <1>2
  <2>2. \A k \in 1 .. m : part(m)[k] = ss[k]
    BY DEF part
  <2> QED
    BY <1>1, <2>1, <2>2, SeqEqual
<1> QED
  BY <1>1, <1>6, <1>7, FlatType

\* The lines of a body are in order.
Increasing(body) == \A j, k \in 1 .. Len(body) : j < k => body[j] < body[k]

\* The tags of the lines of a body in one round ...
LEMMA RoundMakes ==
  ASSUME TemplateTypeOK, NEW p, NEW body \in Seq(Nat), NEW line \in Nat, NEW item \in Nat,
         Increasing(body)
  PROVE  /\ Round(p, body, line, item) \in Seq(Token) /\ Ordered(Round(p, body, line, item))
         /\ \A t \in Token : t \in Range(Round(p, body, line, item)) <=>
              /\ t.run = Run /\ t.line = line /\ t.item = item
              /\ Makes(p, t.part) /\ \E j \in 1 .. Len(body) : t.part = body[j]
<1>1. PICK n \in Nat : n = Len(body) /\ DOMAIN body = 1 .. n /\ \A j \in 1 .. n : body[j] \in Nat
  OBVIOUS
<1>2. PICK ss : ss = [j \in DOMAIN body |-> html_tag(p, body[j], line, item)]
  OBVIOUS
<1>3. /\ ss \in Seq(Seq(Token)) /\ Len(ss) = n
      /\ \A j \in 1 .. n : ss[j] = html_tag(p, body[j], line, item)
  <2>1. ss \in Seq(Seq(Token))
    BY <1>2, RoundType
  <2> QED
    BY <1>1, <1>2, <2>1
<1>4. ASSUME NEW j \in 1 .. n
      PROVE  /\ Ordered(ss[j])
             /\ \A t \in Token : t \in Range(ss[j]) <=>
                  /\ t.run = Run /\ t.line = line /\ t.item = item
                  /\ t.part = body[j] /\ Makes(p, body[j])
  <2>1. CASE Makes(p, body[j])
    <3>1. PICK x : x = [run |-> Run, line |-> line, item |-> item, part |-> body[j]]
      OBVIOUS
    <3>2. ss[j] = << x >>
      BY <1>3, <2>1, <3>1 DEF html_tag
    <3>3. Ordered(<< x >>) /\ \A t : t \in Range(<< x >>) <=> t = x
      BY DEF Ordered, Range
    <3>4. \A t \in Token : t = x <=> /\ t.run = Run /\ t.line = line /\ t.item = item
                                     /\ t.part = body[j]
      BY <3>1 DEF Token
    <3> QED
      BY <2>1, <3>2, <3>3, <3>4
  <2>2. CASE ~ Makes(p, body[j])
    <3>1. ss[j] = << >>
      BY <1>3, <2>2 DEF html_tag
    <3> QED
      BY <2>2, <3>1 DEF Ordered, Range
  <2> QED
    BY <2>1, <2>2
<1>5. \A j \in 1 .. n : Range(ss[j]) \subseteq Token
  BY <1>3, RangeOfSeq
<1>6. ASSUME NEW j \in 1 .. n, NEW k \in 1 .. n, j < k, NEW x \in Range(ss[j]), NEW y \in Range(ss[k])
      PROVE  Before(x, y)
  <2>1. x \in Token /\ y \in Token
    BY <1>5, <1>6
  <2>2. /\ x.line = line /\ x.item = item /\ x.part = body[j]
        /\ y.line = line /\ y.item = item /\ y.part = body[k]
    BY <1>4, <1>6, <2>1
  <2>3. body[j] < body[k]
    BY <1>1, <1>6 DEF Increasing
  <2> QED
    BY <2>2, <2>3 DEF Before
<1>7. /\ FlattenSeq(ss) \in Seq(Token) /\ Ordered(FlattenSeq(ss))
      /\ \A t : t \in Range(FlattenSeq(ss)) <=> \E j \in 1 .. n : t \in Range(ss[j])
  BY <1>3, <1>4, <1>6, FlatOrdered
<1>8. ASSUME NEW t \in Token
      PROVE  t \in Range(FlattenSeq(ss)) <=>
               /\ t.run = Run /\ t.line = line /\ t.item = item
               /\ Makes(p, t.part) /\ \E j \in 1 .. n : t.part = body[j]
  BY <1>4, <1>7
<1> QED
  BY <1>1, <1>2, <1>7, <1>8 DEF Round

\* s is the tags of the lines of a body in every round, in order.
AllRounds(s, p, body, line, rounds) ==
  /\ Ordered(s)
  /\ \A t \in Token : t \in Range(s) <=>
       /\ t.run = Run /\ t.line = line /\ t.item \in 1 .. rounds
       /\ Makes(p, t.part) /\ \E j \in 1 .. Len(body) : t.part = body[j]

\* ... and in all of them.
LEMMA LoopMakes ==
  ASSUME TemplateTypeOK, NEW p, NEW body \in Seq(Nat), NEW line \in Nat, NEW rounds \in Nat,
         Increasing(body)
  PROVE  AllRounds(Loop(p, body, line, rounds), p, body, line, rounds)
<1> DEFINE e(item) == Round(p, body, line, item)
<1> DEFINE In(t) == Makes(p, t.part) /\ \E j \in 1 .. Len(body) : t.part = body[j]
<1>1. PICK ss : ss = [item \in 1 .. rounds |-> e(item)]
  OBVIOUS
<1>2. ss \in Seq(Seq(Token)) /\ Len(ss) = rounds /\ \A item \in 1 .. rounds : ss[item] = e(item)
  <2>1. ss \in Seq(Seq(Token))
    BY <1>1, LoopType
  <2> QED
    BY <1>1, <2>1
<1>3. Loop(p, body, line, rounds) = FlattenSeq(ss)
  BY <1>1 DEF Loop
<1>4. ASSUME NEW item \in 1 .. rounds
      PROVE  /\ Ordered(e(item)) /\ e(item) \in Seq(Token)
             /\ \A t \in Token : t \in Range(e(item)) <=>
                  t.run = Run /\ t.line = line /\ t.item = item /\ In(t)
  <2>1. item \in Nat
    OBVIOUS
  <2> QED
    BY <2>1, RoundMakes
<1> HIDE DEF e, In
<1>5. ASSUME NEW j \in 1 .. rounds, NEW k \in 1 .. rounds, j < k,
             NEW x \in Range(ss[j]), NEW y \in Range(ss[k])
      PROVE  Before(x, y)
  <2>1. x \in Token /\ y \in Token
    BY <1>2, <1>4, RangeOfSeq
  <2>2. /\ x.line = line /\ x.item = j
        /\ y.line = line /\ y.item = k
    BY <1>2, <1>4, <2>1
  <2> QED
    BY <1>5, <2>2 DEF Before
<1>6. \A k \in 1 .. rounds : Ordered(ss[k])
  BY <1>2, <1>4
<1>7. /\ Ordered(FlattenSeq(ss))
      /\ \A t : t \in Range(FlattenSeq(ss)) <=> \E k \in 1 .. rounds : t \in Range(ss[k])
  BY <1>2, <1>5, <1>6, FlatOrdered
<1>8. ASSUME NEW t \in Token
      PROVE  t \in Range(FlattenSeq(ss)) <=>
               t.run = Run /\ t.line = line /\ t.item \in 1 .. rounds /\ In(t)
  BY <1>2, <1>4, <1>7
<1> QED
  BY <1>3, <1>7, <1>8 DEF In, AllRounds

\* The tag t is one of the statement at position k of a chunk of the lines behind b.
Gives(p, code, b, k, t) ==
  /\ t.run = Run /\ t.line = b + k /\ ~ InBody(p, code, k)
  /\ \/ Effect(p, b + k) \in {"tag", "comment"} /\ t.item = 0 /\ t.part = b + k
     \/ Effect(p, b + k) = "each" /\ t.item \in 1 .. files /\ t.part = b + k
     \/ /\ Effect(p, b + k) = "for"
        /\ t.item \in 1 .. (IF EndOf(p, code, k) <= Len(code) THEN files ELSE 1)
        /\ Makes(p, t.part)
        /\ t.part \in b + k + 1 .. b + EndOf(p, code, k) - 1

\* One statement makes them in order.
LEMMA StatementMakes ==
  ASSUME TemplateTypeOK, NEW p, NEW b \in Nat, NEW code \in Seq(Nat),
         \A k \in 1 .. Len(code) : code[k] = b + k, NEW k \in 1 .. Len(code)
  PROVE  /\ Ordered(Made(p, code, k))
         /\ \A t \in Token : t \in Range(Made(p, code, k)) <=> Gives(p, code, b, k, t)
<1>1. files \in Nat /\ Run \in Nat /\ code[k] = b + k /\ b + k \in Nat
  BY TemplateAssumption DEF TemplateTypeOK, Contents, Run
<1>2. CASE InBody(p, code, k)
  <2>1. Made(p, code, k) = << >>
    BY <1>2 DEF Made
  <2> QED
    BY <1>2, <2>1 DEF Ordered, Range, Gives
<1>3. CASE ~ InBody(p, code, k) /\ Effect(p, b + k) = "for"
  <2>1. PICK n \in Nat, e \in Nat : n = Len(code) /\ e = EndOf(p, code, k) /\ e \in k + 1 .. n + 1
    <3>1. EndOf(p, code, k) \in k + 1 .. Len(code) + 1 /\ Len(code) \in Nat
      BY EndOfIs
    <3> QED
      BY <3>1
  <2>2. PICK body : body = SubSeq(code, k + 1, EndOf(p, code, k) - 1)
    OBVIOUS
  <2>3. /\ body \in Seq(Nat) /\ Len(body) = e - 1 - k
        /\ \A j \in 1 .. Len(body) : body[j] = code[k + j]
    BY <2>1, <2>2, BodyIs
  <2>4. ASSUME NEW j \in 1 .. Len(body) PROVE body[j] = b + k + j
    <3>1. k + j \in 1 .. n
      BY <2>1, <2>3
    <3>2. code[k + j] = b + (k + j)
      BY <2>1, <3>1
    <3> QED
      BY <2>3, <3>2
  <2>5. Increasing(body)
    BY <2>3, <2>4 DEF Increasing
  <2>6. PICK rounds \in Nat : rounds = IF e <= n THEN files ELSE 1
    BY <1>1
  <2>7. Made(p, code, k) = Loop(p, body, b + k, rounds)
    <3>1. Made(p, code, k) = Loop(p, SubSeq(code, k + 1, EndOf(p, code, k) - 1), code[k],
                                  IF EndOf(p, code, k) <= Len(code) THEN files ELSE 1)
      BY <1>1, <1>3 DEF Made
    <3> QED
      BY <1>1, <2>1, <2>2, <2>6, <3>1
  <2>8. /\ Ordered(Loop(p, body, b + k, rounds))
        /\ \A t \in Token : t \in Range(Loop(p, body, b + k, rounds)) <=>
             /\ t.run = Run /\ t.line = b + k /\ t.item \in 1 .. rounds
             /\ Makes(p, t.part) /\ \E j \in 1 .. Len(body) : t.part = body[j]
    <3>1. PICK line \in Nat : line = b + k
      BY <1>1
    <3>2. AllRounds(Loop(p, body, line, rounds), p, body, line, rounds)
      BY <2>3, <2>5, LoopMakes
    <3> QED
      BY <3>1, <3>2, Zenon DEF AllRounds
  <2>9. ASSUME NEW x \in Nat
        PROVE  (\E j \in 1 .. Len(body) : x = body[j]) <=> x \in b + k + 1 .. b + e - 1
    <3>1. ASSUME x \in b + k + 1 .. b + e - 1 PROVE \E j \in 1 .. Len(body) : x = body[j]
      <4>1. x - b - k \in 1 .. Len(body) /\ x = b + k + (x - b - k)
        BY <2>1, <2>3, <3>1
      <4> QED
        BY <2>4, <4>1
    <3>2. ASSUME NEW j \in 1 .. Len(body), x = body[j] PROVE x \in b + k + 1 .. b + e - 1
      <4>1. x = b + k + j
        BY <2>4, <3>2
      <4>2. j \in 1 .. e - 1 - k
        BY <2>3
      <4> QED
        BY <2>1, <4>1, <4>2
    <3> QED
      BY <3>1, <3>2
  <2>10. \A t \in Token : t.part \in Nat
    BY DEF Token
  <2> QED
    BY <1>3, <2>1, <2>6, <2>7, <2>8, <2>9, <2>10 DEF Gives
<1>4. CASE ~ InBody(p, code, k) /\ Effect(p, b + k) = "each"
  <2>1. PICK line \in Nat : line = b + k
    BY <1>1
  <2>2. << line >> \in Seq(Nat)
    OBVIOUS
  <2>3. PICK body \in Seq(Nat) : body = << line >>
    BY <2>2
  <2>4. Made(p, code, k) = Loop(p, body, line, files)
    BY <1>1, <1>4, <2>1, <2>3 DEF Made
  <2>5. Len(body) = 1 /\ body[1] = b + k
    BY <2>1, <2>3
  <2>6. Increasing(body)
    BY <2>5 DEF Increasing
  <2>7. /\ Ordered(Loop(p, body, line, files))
        /\ \A t \in Token : t \in Range(Loop(p, body, line, files)) <=>
             /\ t.run = Run /\ t.line = line /\ t.item \in 1 .. files
             /\ Makes(p, t.part) /\ \E j \in 1 .. Len(body) : t.part = body[j]
    <3>1. AllRounds(Loop(p, body, line, files), p, body, line, files)
      BY <1>1, <2>6, LoopMakes
    <3> QED
      BY <3>1, Zenon DEF AllRounds
  <2>8. \A t \in Token : (\E j \in 1 .. Len(body) : t.part = body[j]) <=> t.part = b + k
    BY <2>5
  <2>9. Makes(p, b + k)
    BY <1>4 DEF Makes
  <2> QED
    BY <1>4, <2>1, <2>4, <2>7, <2>8, <2>9 DEF Gives
<1>5. CASE ~ InBody(p, code, k) /\ Effect(p, b + k) \notin {"for", "each"}
  <2>1. Made(p, code, k) = html_tag(p, b + k, b + k, 0)
    BY <1>1, <1>5 DEF Made
  <2>2. CASE Effect(p, b + k) \in {"tag", "comment"}
    <3>1. PICK x : x = [run |-> Run, line |-> b + k, item |-> 0, part |-> b + k]
      OBVIOUS
    <3>2. Made(p, code, k) = << x >>
      BY <2>1, <2>2, <3>1 DEF html_tag, Makes
    <3>3. Ordered(<< x >>) /\ \A t : t \in Range(<< x >>) <=> t = x
      BY DEF Ordered, Range
    <3>4. \A t \in Token : t = x <=> /\ t.run = Run /\ t.line = b + k /\ t.item = 0
                                     /\ t.part = b + k
      BY <3>1 DEF Token
    <3> QED
      BY <1>5, <2>2, <3>2, <3>3, <3>4 DEF Gives
  <2>3. CASE Effect(p, b + k) \notin {"tag", "comment"}
    <3>1. Made(p, code, k) = << >>
      BY <1>5, <2>1, <2>3 DEF html_tag, Makes
    <3> QED
      BY <1>5, <2>3, <3>1 DEF Ordered, Range, Gives
  <2> QED
    BY <2>2, <2>3
<1> QED
  BY <1>2, <1>3, <1>4, <1>5

\* A chunk of consecutive lines makes them in order.
LEMMA ChunkMakes ==
  ASSUME TemplateTypeOK, NEW p, NEW b \in Nat, NEW code \in Seq(Nat),
         \A k \in 1 .. Len(code) : code[k] = b + k
  PROVE  LET s == FlattenSeq([k \in DOMAIN code |-> Made(p, code, k)])
         IN  /\ Ordered(s)
             /\ \A t \in Token : t \in Range(s) <=> \E k \in 1 .. Len(code) : Gives(p, code, b, k, t)
<1>1. PICK n \in Nat : n = Len(code) /\ DOMAIN code = 1 .. n
  OBVIOUS
<1>2. PICK ss : ss = [k \in DOMAIN code |-> Made(p, code, k)]
  OBVIOUS
<1>3. ss \in Seq(Seq(Token)) /\ Len(ss) = n /\ \A k \in 1 .. n : ss[k] = Made(p, code, k)
  <2>1. ss \in Seq(Seq(Token))
    BY <1>2, TagsType
  <2> QED
    BY <1>1, <1>2, <2>1
<1>4. ASSUME NEW k \in 1 .. n
      PROVE  Ordered(ss[k]) /\ \A t \in Token : t \in Range(ss[k]) <=> Gives(p, code, b, k, t)
  BY <1>1, <1>3, StatementMakes
<1>5. ASSUME NEW j \in 1 .. n, NEW k \in 1 .. n, j < k, NEW x \in Range(ss[j]), NEW y \in Range(ss[k])
      PROVE  Before(x, y)
  <2>1. x \in Token /\ y \in Token
    BY <1>3, RangeOfSeq
  <2>2. x.line = b + j /\ y.line = b + k
    BY <1>4, <2>1 DEF Gives
  <2> QED
    BY <1>5, <2>2 DEF Before
<1>6. /\ Ordered(FlattenSeq(ss))
      /\ \A t : t \in Range(FlattenSeq(ss)) <=> \E k \in 1 .. n : t \in Range(ss[k])
  BY <1>3, <1>4, <1>5, FlatOrdered
<1>7. \A t \in Token : t \in Range(FlattenSeq(ss)) <=> \E k \in 1 .. n : Gives(p, code, b, k, t)
  BY <1>4, <1>6
<1> QED
  BY <1>1, <1>2, <1>6, <1>7

\* What is left of a chunk of consecutive lines: those up to its first comment.
LEMMA JoinedIs ==
  ASSUME NEW p, NEW b \in Nat, NEW code \in Seq(Nat), \A k \in 1 .. Len(code) : code[k] = b + k
  PROVE  \E m \in Nat :
           /\ m <= Len(code) /\ Len(Joined(p, code)) = m
           /\ \A k \in 1 .. m : Joined(p, code)[k] = b + k
           /\ \A k \in 1 .. m - 1 : Effect(p, b + k) # "comment"
           /\ m < Len(code) => m # 0 /\ Effect(p, b + m) = "comment"
<1>1. PICK n \in Nat, f \in Nat :
        /\ n = Len(code) /\ f = FirstOf(Where(p, code, "comment"), code) /\ f \in 1 .. n + 1
        /\ f <= n => Effect(p, code[f]) = "comment"
        /\ \A j \in 1 .. f - 1 : Effect(p, code[j]) # "comment"
        /\ Has(p, code, "comment") <=> f <= n
  <2>1. PICK n, S, f : /\ n = Len(code) /\ n \in Nat /\ S = Where(p, code, "comment")
                       /\ f = FirstOf(S, code)
    OBVIOUS
  <2>2. S \subseteq 1 .. n /\ \A k \in 1 .. n : k \in S <=> Effect(p, code[k]) = "comment"
    BY <2>1, WhereIs
  <2>3. f \in 1 .. n + 1 /\ (f \in S \/ f = n + 1) /\ \A j \in S : f <= j
    BY <2>1, <2>2, FirstOfIs
  <2>4. f \in Nat /\ (f <= n => Effect(p, code[f]) = "comment")
    BY <2>1, <2>2, <2>3
  <2>5. ASSUME NEW j \in 1 .. f - 1 PROVE Effect(p, code[j]) # "comment"
    <3>1. j \in 1 .. n /\ ~ (f <= j)
      BY <2>1, <2>3
    <3> QED
      BY <2>2, <2>3, <3>1
  <2>6. S # {} <=> f <= n
    BY <2>1, <2>2, <2>3
  <2> QED
    BY <2>1, <2>3, <2>4, <2>5, <2>6 DEF Has
<1>2. \A j \in 1 .. f - 1 : Effect(p, b + j) # "comment"
  <2>1. \A j \in 1 .. f - 1 : j \in 1 .. n
    BY <1>1
  <2> QED
    BY <1>1, <2>1
<1>3. CASE f <= n
  <2>1. Joined(p, code) = SubSeq(code, 1, f)
    BY <1>1, <1>3 DEF Joined
  <2>2. Len(SubSeq(code, 1, f)) = f /\ \A k \in 1 .. f : SubSeq(code, 1, f)[k] = code[k]
    BY <1>1, <1>3
  <2>3. f \in Nat /\ f # 0 /\ \A k \in 1 .. f : k \in 1 .. n
    BY <1>1, <1>3
  <2>4. Effect(p, b + f) = "comment"
    BY <1>1, <1>3
  <2>5. \A k \in 1 .. f : Joined(p, code)[k] = b + k
    BY <1>1, <2>1, <2>2, <2>3
  <2> WITNESS f \in Nat
  <2> QED
    BY <1>1, <1>2, <1>3, <2>1, <2>2, <2>3, <2>4, <2>5
<1>4. CASE ~ (f <= n)
  <2>1. Joined(p, code) = code
    BY <1>1, <1>4 DEF Joined
  <2>2. \A k \in 1 .. n - 1 : k \in 1 .. f - 1
    BY <1>1, <1>4
  <2>3. \A k \in 1 .. n : Joined(p, code)[k] = b + k
    BY <1>1, <2>1
  <2>4. \A k \in 1 .. n - 1 : Effect(p, b + k) # "comment"
    BY <1>2, <2>2
  <2> WITNESS n \in Nat
  <2> QED
    BY <1>1, <2>1, <2>3, <2>4
<1> QED
  BY <1>3, <1>4

-----------------------------------------------------------------------------
(* What a page shows *)

\* Lines behind an open tag and before any other </lua> are code.
LEMMA OpenInCode ==
  ASSUME NEW p, NEW b \in Nat, NEW n \in Nat,
         b < n => b # 0 /\ IsMark(p, b, "open"),
         \A i \in b + 1 .. n : ~ IsMark(p, i, "close")
  PROVE  \A i \in b + 1 .. n : InCode(p, i)
<1> SUFFICES ASSUME NEW i \in b + 1 .. n PROVE InCode(p, i)
  OBVIOUS
<1>1. /\ b < n /\ b \in 1 .. i - 1
      /\ \A k \in b + 1 .. i - 1 : k \in b + 1 .. n
  <2>1. b < n
    OBVIOUS
  <2> QED
    BY <2>1
<1> QED
  BY <1>1 DEF InCode

\* If a </lua> follows them, those run that have no comment before them.
LEMMA OpenIsRun ==
  ASSUME NEW p \in Page, NEW b \in Nat, NEW n \in Nat,
         n + 1 \in 1 .. Len(Lines[p]), IsMark(p, n + 1, "close"),
         b < n => b # 0 /\ IsMark(p, b, "open") /\ ~ InCode(p, b),
         \A i \in b + 1 .. n : ~ IsMark(p, i, "close"),
         NEW i \in b + 1 .. n
  PROVE  IsRun(p, i) <=> \A k \in b + 1 .. i - 1 : Effect(p, k) # "comment"
<1>1. \A k \in b + 1 .. n : InCode(p, k)
  BY OpenInCode
<1>2. PICK l \in Nat : l = Len(Lines[p])
  BY LinesLength
<1>3. /\ i \in Nat /\ b < n /\ b < i /\ i <= n /\ n + 1 \in i + 1 .. l
      /\ \A k \in b + 1 .. i - 1 : k \in b + 1 .. n /\ k \in 1 .. i - 1
  BY <1>2
<1>4. InCode(p, i) /\ ~ IsMark(p, i, "close") /\ \E c \in i + 1 .. Len(Lines[p]) : IsMark(p, c, "close")
  BY <1>1, <1>2, <1>3
<1>5. ASSUME IsRun(p, i), NEW k \in b + 1 .. i - 1 PROVE Effect(p, k) # "comment"
  <2>1. InCode(p, k)
    BY <1>1, <1>3
  <2>2. \A c \in k + 1 .. i : c \in b + 1 .. n
    BY <1>3
  <2> QED
    BY <1>3, <1>5, <2>1, <2>2 DEF IsRun
<1>6. ASSUME \A k \in b + 1 .. i - 1 : Effect(p, k) # "comment" PROVE IsRun(p, i)
  <2>1. ASSUME NEW k \in 1 .. i - 1, Effect(p, k) = "comment", InCode(p, k)
        PROVE  \E c \in k + 1 .. i : IsMark(p, c, "close")
    <3>1. k \in Nat /\ k <= b /\ k \in 1 .. l
      BY <1>2, <1>3, <1>6, <2>1
    <3>2. k < b
      BY <1>3, <2>1, <3>1
    <3>3. ~ IsMark(p, k, "close")
      <4>1. k \in 1 .. Len(Lines[p])
        BY <1>2, <3>1
      <4> QED
        BY <2>1, <4>1, LineIs
    <3>4. PICK j \in 1 .. k - 1 : IsMark(p, j, "open") /\ \A c \in j + 1 .. k - 1 : ~ IsMark(p, c, "close")
      BY <2>1 DEF InCode
    <3>5. j \in 1 .. b - 1
      BY <3>2
    <3>6. PICK c \in j + 1 .. b - 1 : IsMark(p, c, "close")
      BY <1>3, <3>4, <3>5 DEF InCode
    <3>7. c \notin j + 1 .. k - 1 /\ c # k
      BY <3>3, <3>4, <3>6
    <3>8. c \in k + 1 .. i
      BY <1>3, <3>6, <3>7
    <3> QED
      BY <3>6, <3>8
  <2> QED
    BY <1>4, <2>1 DEF IsRun
<1> QED
  BY <1>5, <1>6

\* The statement that begins on line i of a page with n files shows this.
Shows(p, n, i, item, part) ==
  \/ ~ InCode(p, i) /\ IsMark(p, i, "none") /\ item = 0 /\ part = i
  \/ /\ IsRun(p, i) /\ Effect(p, i) \in {"tag", "comment"}
     /\ ~ \E f \in 1 .. i - 1 : InLoop(p, f, i)
     /\ item = 0 /\ part = i
  \/ /\ InLoop(p, i, part) \/ (i = part /\ Effect(p, part) = "each")
     /\ part \in 1 .. Len(Lines[p]) /\ Makes(p, part) /\ IsRun(p, part)
     /\ item \in 1 .. n

\* Shown, as a condition on a token.
LEMMA ShownIs ==
  ASSUME NEW p \in Page, p \notin Missing, NEW n \in Nat, NEW run \in Nat, NEW t
  PROVE  t \in Shown(p, n, run) <=>
           /\ t \in Token /\ t.run = run /\ t.line \in 1 .. Len(Lines[p])
           /\ Shows(p, n, t.line, t.item, t.part)
<1> DEFINE lines == DOMAIN Lines[p]
<1> DEFINE text == {i \in lines : ~ InCode(p, i) /\ IsMark(p, i, "none")}
<1> DEFINE tags == {i \in lines : /\ Effect(p, i) \in {"tag", "comment"} /\ IsRun(p, i)
                                  /\ ~ \E f \in 1 .. i - 1 : InLoop(p, f, i)}
<1> DEFINE each == {l \in lines \X lines : /\ \/ InLoop(p, l[1], l[2])
                                              \/ l[1] = l[2] /\ Effect(p, l[2]) = "each"
                                           /\ Makes(p, l[2]) /\ IsRun(p, l[2])}
<1>1. Shown(p, n, run) =
        {[run |-> run, line |-> i, item |-> 0, part |-> i] : i \in text \cup tags}
          \cup {[run |-> run, line |-> l[1], item |-> k, part |-> l[2]] : l \in each, k \in 1 .. n}
  BY DEF Shown
<1>2. lines = 1 .. Len(Lines[p]) /\ Len(Lines[p]) \in Nat
  BY LinesLength
<1>3. /\ \A i : i \in text <=> i \in lines /\ ~ InCode(p, i) /\ IsMark(p, i, "none")
      /\ \A i : i \in tags <=> /\ i \in lines /\ IsRun(p, i) /\ Effect(p, i) \in {"tag", "comment"}
                               /\ ~ \E f \in 1 .. i - 1 : InLoop(p, f, i)
  OBVIOUS
<1>4. \A i, part : <<i, part>> \in each <=>
        /\ i \in lines /\ part \in lines
        /\ InLoop(p, i, part) \/ (i = part /\ Effect(p, part) = "each")
        /\ Makes(p, part) /\ IsRun(p, part)
  OBVIOUS
<1>5. \A l \in each : l = <<l[1], l[2]>> /\ <<l[1], l[2]>> \in each
  OBVIOUS
<1> HIDE DEF lines, text, tags, each
<1>6. ASSUME t \in Shown(p, n, run)
      PROVE  /\ t \in Token /\ t.run = run /\ t.line \in 1 .. Len(Lines[p])
             /\ Shows(p, n, t.line, t.item, t.part)
  <2>1. CASE \E i \in text \cup tags : t = [run |-> run, line |-> i, item |-> 0, part |-> i]
    <3>1. PICK i \in text \cup tags : t = [run |-> run, line |-> i, item |-> 0, part |-> i]
      BY <2>1
    <3>2. i \in lines /\ i \in Nat /\ t.run = run /\ t.line = i /\ t.item = 0 /\ t.part = i
      BY <1>2, <1>3, <3>1
    <3>3. t \in Token
      BY <3>1, <3>2 DEF Token
    <3> QED
      BY <1>2, <1>3, <3>1, <3>2, <3>3 DEF Shows
  <2>2. CASE \E l \in each, k \in 1 .. n : t = [run |-> run, line |-> l[1], item |-> k, part |-> l[2]]
    <3>1. PICK l \in each, k \in 1 .. n : t = [run |-> run, line |-> l[1], item |-> k, part |-> l[2]]
      BY <2>2
    <3>2. PICK i, part : i = l[1] /\ part = l[2] /\ <<i, part>> \in each
      BY <1>5
    <3>3. /\ i \in lines /\ part \in lines /\ i \in Nat /\ part \in Nat /\ k \in Nat
          /\ t.run = run /\ t.line = i /\ t.item = k /\ t.part = part
      BY <1>2, <1>4, <3>1, <3>2
    <3>4. t \in Token
      BY <3>1, <3>2, <3>3 DEF Token
    <3>5. Shows(p, n, i, k, part)
      BY <1>2, <1>4, <3>2, <3>3 DEF Shows
    <3> QED
      BY <1>2, <3>3, <3>4, <3>5
  <2> QED
    BY <1>1, <1>6, <2>1, <2>2
<1>7. ASSUME t \in Token, t.run = run, t.line \in 1 .. Len(Lines[p]), Shows(p, n, t.line, t.item, t.part)
      PROVE  t \in Shown(p, n, run)
  <2>1. t = [run |-> run, line |-> t.line, item |-> t.item, part |-> t.part]
    BY <1>7 DEF Token
  <2>2. CASE t.line \in text \cup tags /\ t.item = 0 /\ t.part = t.line
    <3>1. t = [run |-> run, line |-> t.line, item |-> 0, part |-> t.line]
      BY <2>1, <2>2
    <3> QED
      BY <1>1, <2>2, <3>1
  <2>3. CASE <<t.line, t.part>> \in each /\ t.item \in 1 .. n
    <3>1. PICK l \in each : l[1] = t.line /\ l[2] = t.part
      BY <2>3
    <3>2. t = [run |-> run, line |-> l[1], item |-> t.item, part |-> l[2]]
      BY <2>1, <3>1
    <3> QED
      BY <1>1, <2>3, <3>2
  <2>4. \/ t.line \in text \cup tags /\ t.item = 0 /\ t.part = t.line
        \/ <<t.line, t.part>> \in each /\ t.item \in 1 .. n
    BY <1>2, <1>3, <1>4, <1>7 DEF Shows
  <2> QED
    BY <2>2, <2>3, <2>4
<1> QED
  BY <1>6, <1>7

\* A chunk of the lines from b + 1 that is run by the </lua> behind line n: all of them,
\* or those up to a comment.
IsChunk(p, b, n, code) ==
  /\ n + 1 \in 1 .. Len(Lines[p]) /\ IsMark(p, n + 1, "close")
  /\ b < n => b # 0 /\ IsMark(p, b, "open") /\ ~ InCode(p, b)
  /\ \A i \in b + 1 .. n : ~ IsMark(p, i, "close")
  /\ b + Len(code) <= n
  /\ \A k \in 1 .. Len(code) : code[k] = b + k
  /\ \A k \in 1 .. Len(code) - 1 : Effect(p, b + k) # "comment"
  /\ b + Len(code) < n => Len(code) # 0 /\ Effect(p, b + Len(code)) = "comment"

\* The lines that run are those in it.
LEMMA ChunkIsRun ==
  ASSUME NEW p \in Page, NEW b \in Nat, NEW n \in Nat, NEW code \in Seq(Nat),
         IsChunk(p, b, n, code), NEW i \in b + 1 .. n + 1
  PROVE  IsRun(p, i) <=> i \in b + 1 .. b + Len(code)
<1>1. PICK m \in Nat :
        /\ m = Len(code) /\ b + m <= n
        /\ \A k \in 1 .. m - 1 : Effect(p, b + k) # "comment"
        /\ b + m < n => m # 0 /\ Effect(p, b + m) = "comment"
  <2>1. PICK m \in Nat : m = Len(code)
    OBVIOUS
  <2>2. /\ b + m <= n
        /\ \A k \in 1 .. m - 1 : Effect(p, b + k) # "comment"
        /\ b + m < n => m # 0 /\ Effect(p, b + m) = "comment"
    BY <2>1 DEF IsChunk
  <2> QED
    BY <2>1, <2>2
<1>2. CASE i = n + 1
  <2>1. ~ IsRun(p, i)
    BY <1>2 DEF IsRun, IsChunk
  <2> QED
    BY <1>1, <1>2, <2>1
<1>3. CASE i # n + 1
  <2>1. i \in b + 1 .. n
    BY <1>3
  <2>2. IsRun(p, i) <=> \A k \in b + 1 .. i - 1 : Effect(p, k) # "comment"
    BY <2>1, OpenIsRun DEF IsChunk
  <2>3. ASSUME i \in b + 1 .. b + m, NEW k \in b + 1 .. i - 1 PROVE Effect(p, k) # "comment"
    <3>1. k - b \in 1 .. m - 1 /\ k = b + (k - b)
      BY <2>3
    <3> QED
      BY <1>1, <3>1
  <2>4. ASSUME i \notin b + 1 .. b + m PROVE \E k \in b + 1 .. i - 1 : Effect(p, k) = "comment"
    <3>1. b + m < i /\ b + m < n
      BY <2>1, <2>4
    <3>2. m # 0 /\ Effect(p, b + m) = "comment"
      BY <1>1, <3>1
    <3>3. b + m \in b + 1 .. i - 1
      BY <3>1, <3>2
    <3> QED
      BY <3>2, <3>3
  <2> QED
    BY <1>1, <2>2, <2>3, <2>4
<1> QED
  BY <1>2, <1>3

\* A loop around one of its lines begins in it.
LEMMA LoopInChunk ==
  ASSUME NEW p \in Page, NEW b \in Nat, NEW n \in Nat, NEW code \in Seq(Nat),
         IsChunk(p, b, n, code), NEW i \in b + 1 .. n, NEW f \in 1 .. i - 1, InLoop(p, f, i)
  PROVE  f \in b + 1 .. n
<1>1. PICK l \in Nat : l = Len(Lines[p]) /\ n + 1 \in 1 .. l
  BY LinesLength DEF IsChunk
<1>2. /\ f \in Nat /\ b < n /\ b # 0 /\ IsMark(p, b, "open") /\ ~ InCode(p, b)
      /\ f \in 1 .. l
  BY <1>1 DEF IsChunk
<1>3. /\ InCode(p, f) /\ Effect(p, f) = "for"
      /\ \A k \in f + 1 .. i - 1 : ~ IsMark(p, k, "close")
  BY DEF InLoop
<1>4. IsMark(p, f, "none") /\ ~ IsMark(p, f, "close") /\ ~ IsMark(p, f, "open")
  BY <1>1, <1>2, <1>3, LineIs
<1>5. ASSUME f < b PROVE FALSE
  <2>1. PICK j \in 1 .. f - 1 : IsMark(p, j, "open") /\ \A c \in j + 1 .. f - 1 : ~ IsMark(p, c, "close")
    BY <1>3 DEF InCode
  <2>2. j \in 1 .. b - 1
    BY <1>5
  <2>3. PICK c \in j + 1 .. b - 1 : IsMark(p, c, "close")
    BY <1>2, <2>1, <2>2 DEF InCode
  <2>4. c \in j + 1 .. f - 1 \/ c = f \/ c \in f + 1 .. i - 1
    BY <1>5, <2>3
  <2> QED
    BY <1>3, <1>4, <2>1, <2>3, <2>4
<1>6. f # b
  BY <1>2, <1>4
<1> QED
  BY <1>2, <1>5, <1>6

\* A line of it is in a loop of the page if it is in one of the chunk.
LEMMA ChunkInBody ==
  ASSUME NEW p \in Page, NEW b \in Nat, NEW n \in Nat, NEW code \in Seq(Nat),
         IsChunk(p, b, n, code), NEW k \in 1 .. Len(code)
  PROVE  InBody(p, code, k) <=> \E f \in 1 .. b + k - 1 : InLoop(p, f, b + k)
<1>1. PICK m \in Nat :
        /\ m = Len(code) /\ b + m <= n /\ k \in 1 .. m
        /\ \A j \in 1 .. m : code[j] = b + j
  BY DEF IsChunk
<1>2. \A i \in b + 1 .. n : InCode(p, i) /\ ~ IsMark(p, i, "close")
  BY OpenInCode DEF IsChunk
<1>3. ASSUME InBody(p, code, k) PROVE \E f \in 1 .. b + k - 1 : InLoop(p, f, b + k)
  <2>1. PICK g \in 1 .. m : g < k /\ Effect(p, code[g]) = "for" /\ k <= EndOf(p, code, g)
    BY <1>1, <1>3, WhereIs DEF InBody
  <2>2. b + g \in 1 .. b + k - 1 /\ b + g < b + k /\ b + g \in b + 1 .. n
    BY <1>1, <2>1
  <2>3. Effect(p, b + g) = "for" /\ InCode(p, b + g)
    BY <1>1, <1>2, <2>1, <2>2
  <2>4. ASSUME NEW i \in b + g + 1 .. b + k - 1 PROVE Effect(p, i) # "end" /\ ~ IsMark(p, i, "close")
    <3>1. PICK e \in g + 1 .. m : e = i - b /\ i = b + e /\ e < k
      BY <1>1, <2>1
    <3>2. code[e] = i /\ i \in b + 1 .. n
      <4>1. e \in 1 .. m /\ e \in Nat
        BY <2>1, <3>1
      <4>2. code[e] = b + e
        BY <1>1, <4>1
      <4>3. b + e \in b + 1 .. n
        BY <1>1, <4>1
      <4> QED
        BY <3>1, <4>2, <4>3
    <3>3. PICK x \in Nat : x = EndOf(p, code, g)
      BY <1>1, EndOfIs
    <3>4. Effect(p, code[e]) = "end" => x <= e
      BY <1>1, <3>3, EndOfIs
    <3> QED
      BY <1>1, <1>2, <2>1, <3>1, <3>2, <3>3, <3>4
  <2>5. InLoop(p, b + g, b + k)
    BY <2>2, <2>3, <2>4 DEF InLoop
  <2> QED
    BY <2>2, <2>5
<1>4. ASSUME NEW f \in 1 .. b + k - 1, InLoop(p, f, b + k) PROVE InBody(p, code, k)
  <2>1. PICK i : i = b + k /\ i \in b + 1 .. n
    BY <1>1
  <2>2. f \in b + 1 .. n
    BY <1>4, <2>1, LoopInChunk
  <2>3. PICK g \in 1 .. m : g = f - b /\ f = b + g /\ g < k
    BY <1>1, <2>2
  <2>4. Effect(p, code[g]) = "for"
    BY <1>1, <1>4, <2>3 DEF InLoop
  <2>5. PICK x \in Nat : /\ x = EndOf(p, code, g) /\ x \in g + 1 .. m + 1
                         /\ x <= m => Effect(p, code[x]) = "end"
    <3>1. /\ EndOf(p, code, g) \in g + 1 .. m + 1
          /\ EndOf(p, code, g) <= m => Effect(p, code[EndOf(p, code, g)]) = "end"
      BY <1>1, EndOfIs
    <3>2. EndOf(p, code, g) \in Nat
      BY <2>3, <3>1
    <3> QED
      BY <3>1, <3>2
  <2>6. ASSUME x < k PROVE FALSE
    <3>1. x \in 1 .. m /\ Effect(p, code[x]) = "end" /\ code[x] = b + x
      <4>1. x \in 1 .. m
        BY <1>1, <2>3, <2>5, <2>6
      <4> QED
        BY <1>1, <2>5, <4>1
    <3>2. b + x \in f + 1 .. b + k - 1
      BY <2>3, <2>5, <2>6
    <3> QED
      BY <1>4, <3>1, <3>2 DEF InLoop
  <2>7. g \in Where(p, code, "for")
    BY <1>1, <2>4, WhereIs
  <2> QED
    BY <1>1, <2>3, <2>5, <2>6, <2>7 DEF InBody
<1> QED
  BY <1>3, <1>4

\* The lines of a loop that ends in it are those of the loop of the page.
LEMMA ChunkLoop ==
  ASSUME NEW p \in Page, NEW b \in Nat, NEW n \in Nat, NEW code \in Seq(Nat),
         IsChunk(p, b, n, code), NEW k \in 1 .. Len(code),
         Effect(p, b + k) = "for", EndOf(p, code, k) <= Len(code),
         NEW part \in Nat, Makes(p, part)
  PROVE  part \in b + k + 1 .. b + EndOf(p, code, k) - 1 <=>
           InLoop(p, b + k, part) /\ part \in 1 .. Len(Lines[p]) /\ IsRun(p, part)
<1>1. PICK m \in Nat, l \in Nat :
        m = Len(code) /\ b + m <= n /\ k \in 1 .. m /\ l = Len(Lines[p]) /\ n + 1 <= l
  <2>1. PICK m \in Nat, l \in Nat : m = Len(code) /\ l = Len(Lines[p])
    BY LinesLength
  <2>2. b + m <= n /\ n + 1 \in 1 .. l
    BY <2>1 DEF IsChunk
  <2>3. n + 1 <= l /\ k \in 1 .. m
    BY <2>1, <2>2
  <2> WITNESS m \in Nat, l \in Nat
  <2> QED
    BY <2>1, <2>2, <2>3
<1>2. \A i \in b + 1 .. n : InCode(p, i) /\ ~ IsMark(p, i, "close")
  BY OpenInCode DEF IsChunk
<1>3. \A j \in 1 .. m : code[j] = b + j
  BY <1>1 DEF IsChunk
<1>4. PICK e \in Nat : e = EndOf(p, code, k) /\ k < e /\ e <= m
  <2>1. EndOf(p, code, k) \in k + 1 .. m + 1 /\ EndOf(p, code, k) <= m
    BY <1>1, EndOfIs
  <2> QED
    BY <1>1, <2>1
<1>5. /\ Effect(p, code[e]) = "end"
      /\ \A x \in k + 1 .. m : Effect(p, code[x]) = "end" => e <= x
  BY <1>1, <1>4, EndOfIs
<1>6. ASSUME part \in b + k + 1 .. b + e - 1
      PROVE  InLoop(p, b + k, part) /\ part \in 1 .. l /\ IsRun(p, part)
  <2>1. part \in b + 1 .. b + m /\ part \in b + 1 .. n + 1 /\ part \in 1 .. l
    BY <1>1, <1>4, <1>6
  <2>2. IsRun(p, part)
    BY <1>1, <2>1, ChunkIsRun
  <2>3. ASSUME NEW i \in b + k + 1 .. part - 1 PROVE Effect(p, i) # "end" /\ ~ IsMark(p, i, "close")
    <3>1. PICK x \in Int : x = i - b
      OBVIOUS
    <3>2. x \in k + 1 .. m /\ x \in 1 .. m /\ i = b + x /\ ~ (e <= x) /\ i \in b + 1 .. n
      BY <1>1, <1>4, <1>6, <3>1
    <3>3. code[x] = i
      BY <1>3, <3>2
    <3> QED
      BY <1>2, <1>5, <3>2, <3>3
  <2>4. b + k < part /\ b + k \in b + 1 .. n
    BY <1>1, <1>6
  <2>5. InCode(p, b + k)
    BY <1>2, <2>4
  <2>6. InLoop(p, b + k, part)
    BY <2>3, <2>4, <2>5 DEF InLoop
  <2> QED
    BY <2>1, <2>2, <2>6
<1>7. ASSUME InLoop(p, b + k, part), part \in 1 .. l, IsRun(p, part)
      PROVE  part \in b + k + 1 .. b + e - 1
  <2>1. /\ b + k < part
        /\ \A i \in b + k + 1 .. part - 1 : Effect(p, i) # "end" /\ ~ IsMark(p, i, "close")
    BY <1>7 DEF InLoop
  <2>2. Effect(p, b + e) = "end"
    <3>1. e \in 1 .. m
      BY <1>1, <1>4
    <3> QED
      BY <1>3, <1>5, <3>1
  <2>3. ~ (b + e < part)
    <3>1. ASSUME b + e < part PROVE b + e \in b + k + 1 .. part - 1
      BY <1>1, <1>4, <3>1
    <3> QED
      BY <2>1, <2>2, <3>1
  <2>4. part # b + e
    BY <2>2 DEF Makes
  <2>5. k \in Nat /\ b + k < part /\ part < b + e
    BY <1>1, <2>1, <2>3, <2>4
  <2> QED
    BY <2>5
<1> QED
  BY <1>1, <1>4, <1>6, <1>7

\* No loop, and no line that is one, is in a loop.
LEMMA LoopsApart ==
  ASSUME NEW p \in Page, NEW i \in 1 .. Len(Lines[p]), NEW f \in 1 .. i - 1, InLoop(p, f, i)
  PROVE  Effect(p, i) \notin {"for", "each"}
<1> SUFFICES ASSUME Effect(p, i) \in {"for", "each"} PROVE FALSE
  OBVIOUS
<1>1. f \in DOMAIN Lines[p] /\ i \in DOMAIN Lines[p] /\ f < i
  BY LinesLength
<1>2. Effect(p, f) = "for" /\ \A k \in f + 1 .. i - 1 : Effect(p, k) # "end" /\ ~ IsMark(p, k, "close")
  BY DEF InLoop
<1>3. PICK k \in f + 1 .. i - 1 : Lines[p][k].code = "end" \/ Lines[p][k].mark = "close"
  BY <1>1, <1>2, TemplateAssumption DEF Effect
<1> QED
  BY <1>2, <1>3 DEF Effect, IsMark

\* A chunk that load takes makes what the page shows of its lines.
LEMMA ChunkShown ==
  ASSUME TemplateTypeOK, NEW p \in Page, p \notin Missing, NEW b \in Nat, NEW n \in Nat,
         NEW code \in Seq(Nat), IsChunk(p, b, n, code), Parses(p, code), NEW t \in Token
  PROVE  (\E k \in 1 .. Len(code) : Gives(p, code, b, k, t)) <=>
           t \in Shown(p, files, Run) /\ t.line \in b + 1 .. n + 1
<1>1. files \in Nat /\ Run \in Nat
  BY TemplateAssumption DEF TemplateTypeOK, Contents, Run
<1>2. PICK m \in Nat, l \in Nat :
        /\ m = Len(code) /\ b + m <= n /\ l = Len(Lines[p]) /\ n + 1 \in 1 .. l
        /\ IsMark(p, n + 1, "close")
        /\ \A j \in 1 .. m : code[j] = b + j
  BY LinesLength DEF IsChunk
<1>3. \A i \in b + 1 .. n : InCode(p, i)
  BY OpenInCode DEF IsChunk
<1>4. PICK i \in Nat, item \in Nat, part \in Nat : i = t.line /\ item = t.item /\ part = t.part
  BY DEF Token
<1>5. t \in Shown(p, files, Run) <=> t.run = Run /\ i \in 1 .. l /\ Shows(p, files, i, item, part)
  BY <1>1, <1>2, <1>4, ShownIs
<1>6. CASE i = n + 1
  <2>1. /\ ~ IsMark(p, i, "none") /\ ~ IsRun(p, i)
        /\ Effect(p, i) = "syntax"
    BY <1>2, <1>6, LineIs DEF IsRun
  <2>2. ~ Shows(p, files, i, item, part)
    BY <2>1 DEF Shows, InLoop
  <2>3. \A k \in 1 .. m : ~ Gives(p, code, b, k, t)
    BY <1>2, <1>4, <1>6 DEF Gives
  <2> QED
    BY <1>2, <1>5, <2>2, <2>3
<1>7. CASE i \in b + 1 .. n /\ i \notin b + 1 .. b + m
  <2>1. \A k \in 1 .. m : ~ Gives(p, code, b, k, t)
    BY <1>4, <1>7 DEF Gives
  <2>2. InCode(p, i) /\ ~ IsRun(p, i)
    BY <1>2, <1>3, <1>7, ChunkIsRun
  <2>3. ASSUME InLoop(p, i, part), part \in 1 .. l, IsRun(p, part) PROVE FALSE
    <3>1. i < part /\ \A k \in i + 1 .. part - 1 : ~ IsMark(p, k, "close")
      BY <2>3 DEF InLoop
    <3>2. ~ (n + 1 < part)
      <4>1. n + 1 \in i + 1 .. part - 1 \/ ~ (n + 1 < part)
        BY <1>7
      <4> QED
        BY <1>2, <3>1, <4>1
    <3>3. part \in b + 1 .. n + 1
      BY <1>7, <3>1, <3>2
    <3>4. part \in b + 1 .. b + m
      BY <1>2, <2>3, <3>3, ChunkIsRun
    <3> QED
      BY <1>7, <3>1, <3>4
  <2>4. ~ Shows(p, files, i, item, part)
    BY <1>2, <2>2, <2>3 DEF Shows
  <2> QED
    BY <1>2, <1>5, <2>1, <2>4
<1>8. CASE i \in b + 1 .. b + m
  <2>1. PICK k \in 1 .. m : i = b + k
    <3>1. i - b \in 1 .. m /\ i = b + (i - b)
      BY <1>8
    <3> QED
      BY <3>1
  <2>2. i \in 1 .. l /\ i \in b + 1 .. n /\ i \in b + 1 .. n + 1
    BY <1>2, <1>8
  <2>3. InCode(p, i) /\ IsRun(p, i)
    BY <1>2, <1>3, <1>8, <2>2, ChunkIsRun
  <2>4. (\E j \in 1 .. m : Gives(p, code, b, j, t)) <=> Gives(p, code, b, k, t)
    BY <1>4, <2>1 DEF Gives
  <2>5. InBody(p, code, k) <=> \E f \in 1 .. i - 1 : InLoop(p, f, i)
    BY <1>2, <2>1, ChunkInBody
  <2>6. InBody(p, code, k) => Effect(p, i) \notin {"for", "each"}
    BY <1>2, <2>2, <2>5, LoopsApart
  <2>7. ASSUME Effect(p, i) = "for", Makes(p, part)
        PROVE  /\ EndOf(p, code, k) <= m
               /\ part \in b + k + 1 .. b + EndOf(p, code, k) - 1 <=>
                    InLoop(p, i, part) /\ part \in 1 .. l /\ IsRun(p, part)
    <3>1. k \in Where(p, code, "for")
      BY <1>2, <2>1, <2>7, WhereIs
    <3>2. EndOf(p, code, k) <= Len(code)
      BY <3>1 DEF Parses
    <3>3. part \in b + k + 1 .. b + EndOf(p, code, k) - 1 <=>
            InLoop(p, b + k, part) /\ part \in 1 .. Len(Lines[p]) /\ IsRun(p, part)
      BY <1>2, <2>1, <2>7, <3>2, ChunkLoop
    <3> QED
      BY <1>2, <2>1, <3>2, <3>3
  <2>8. InLoop(p, i, part) => Effect(p, i) = "for"
    BY DEF InLoop
  <2>9. Gives(p, code, b, k, t) <=>
          /\ t.run = Run /\ ~ InBody(p, code, k)
          /\ \/ Effect(p, i) \in {"tag", "comment"} /\ item = 0 /\ part = i
             \/ Effect(p, i) = "each" /\ item \in 1 .. files /\ part = i
             \/ /\ Effect(p, i) = "for"
                /\ item \in 1 .. (IF EndOf(p, code, k) <= m THEN files ELSE 1)
                /\ Makes(p, part)
                /\ part \in b + k + 1 .. b + EndOf(p, code, k) - 1
    BY <1>2, <1>4, <2>1 DEF Gives
  <2>10. Shows(p, files, i, item, part) <=>
          /\ ~ InBody(p, code, k)
          /\ \/ Effect(p, i) \in {"tag", "comment"} /\ item = 0 /\ part = i
             \/ Effect(p, i) = "each" /\ item \in 1 .. files /\ part = i
             \/ /\ Effect(p, i) = "for" /\ item \in 1 .. files /\ Makes(p, part)
                /\ InLoop(p, i, part) /\ part \in 1 .. l /\ IsRun(p, part)
    <3>1. Effect(p, i) = "each" => Makes(p, i)
      BY DEF Makes
    <3>2. Shows(p, files, i, item, part) <=>
            \/ /\ Effect(p, i) \in {"tag", "comment"} /\ ~ InBody(p, code, k)
               /\ item = 0 /\ part = i
            \/ /\ InLoop(p, i, part) \/ (i = part /\ Effect(p, part) = "each")
               /\ part \in 1 .. l /\ Makes(p, part) /\ IsRun(p, part)
               /\ item \in 1 .. files
      BY <1>2, <2>3, <2>5, Zenon DEF Shows
    <3> QED
      BY <2>2, <2>3, <2>6, <2>8, <3>1, <3>2
  <2>11. Gives(p, code, b, k, t) <=> t.run = Run /\ Shows(p, files, i, item, part)
    BY <2>7, <2>9, <2>10
  <2> QED
    BY <1>2, <1>4, <1>5, <2>2, <2>4, <2>11
<1>9. CASE i \notin b + 1 .. n /\ i # n + 1
  <2>1. \A k \in 1 .. m : ~ Gives(p, code, b, k, t)
    BY <1>2, <1>4, <1>9 DEF Gives
  <2>2. i \notin b + 1 .. n + 1
    BY <1>9
  <2> QED
    BY <1>2, <1>4, <2>1, <2>2
<1> QED
  BY <1>6, <1>7, <1>8, <1>9

\* The chunk that this </lua> runs.
LEMMA ChunkIs ==
  ASSUME TemplateTypeOK, CodeInv, page # NoPage, Next({"close"})
  PROVE  /\ page \in Page /\ at \in Nat /\ ReadTo \in Nat /\ ReadTo <= at
         /\ Chunk \in Seq(Nat) /\ IsChunk(page, ReadTo, at, Chunk)
<1>1. /\ page \in Page /\ at \in Nat /\ at + 1 \in 1 .. Len(Lines[page])
      /\ IsMark(page, at + 1, "close")
  BY NextIs DEF IsMark
<1>2. PICK n \in Nat, b \in Nat :
        /\ n = at /\ b = ReadTo /\ Len(function_code) = n - b /\ b <= n
        /\ b < n => b # 0 /\ IsMark(page, b, "open") /\ ~ InCode(page, b)
        /\ \A i \in b + 1 .. n : ~ IsMark(page, i, "close")
        /\ \A k \in 1 .. Len(function_code) : function_code[k] = b + k
  <2>1. /\ function_code \in Seq(Nat) /\ Len(function_code) \in Nat
    BY DEF TemplateTypeOK
  <2>2. PICK n \in Nat, m \in Nat : n = at /\ m = Len(function_code)
    BY <1>1, <2>1
  <2>3. PICK b : b = ReadTo /\ b = n - m
    BY <2>2 DEF ReadTo
  <2>4. b \in Nat /\ b <= n /\ m = n - b /\ (~ dump_code => b = n)
    BY <2>2, <2>3 DEF CodeInv
  <2>5. b < n => dump_code
    BY <2>4
  <2> QED
    BY <2>2, <2>3, <2>4, <2>5 DEF CodeInv
<1>3. function_code \in Seq(Nat) /\ Chunk \in Seq(Nat)
  BY JoinedType DEF TemplateTypeOK, Chunk
<1>4. PICK m \in Nat :
        /\ m <= n - b /\ Len(Chunk) = m
        /\ \A k \in 1 .. m : Chunk[k] = b + k
        /\ \A k \in 1 .. m - 1 : Effect(page, b + k) # "comment"
        /\ m < n - b => m # 0 /\ Effect(page, b + m) = "comment"
  <2>1. \E m \in Nat :
          /\ m <= Len(function_code) /\ Len(Joined(page, function_code)) = m
          /\ \A k \in 1 .. m : Joined(page, function_code)[k] = b + k
          /\ \A k \in 1 .. m - 1 : Effect(page, b + k) # "comment"
          /\ m < Len(function_code) => m # 0 /\ Effect(page, b + m) = "comment"
    BY <1>2, <1>3, JoinedIs
  <2> QED
    BY <1>2, <2>1, Zenon DEF Chunk
<1>5. b + m <= n /\ (b + m < n => m < n - b)
  BY <1>2, <1>4
<1>6. IsChunk(page, b, n, Chunk)
  BY <1>1, <1>2, <1>4, <1>5 DEF IsChunk
<1> QED
  BY <1>1, <1>2, <1>3, <1>6

\* The tags of the chunk that this </lua> runs are what the page shows of its lines,
\* or a beginning of that if one of them raises an error.
LEMMA TagsShown ==
  ASSUME TemplateTypeOK, CodeInv, page # NoPage, page \notin Missing, Next({"close"}), Runs
  PROVE  /\ Tags(page, Chunk) \in Seq(Token)
         /\ Ordered(Tags(page, Chunk))
         /\ \A t \in Range(Tags(page, Chunk)) : t \in Token /\ t.run = Run /\ t.line \in ReadTo + 1 .. at
         /\ Raising(page, Chunk) = {} =>
              \A t \in Token : t \in Range(Tags(page, Chunk)) <=>
                t \in Shown(page, files, Run) /\ t.line \in ReadTo + 1 .. at + 1
<1>1. PICK n \in Nat, b \in Nat, code \in Seq(Nat) :
        /\ n = at /\ b = ReadTo /\ code = Chunk /\ page \in Page /\ IsChunk(page, b, n, code)
  BY ChunkIs
<1>2. PICK d \in Nat : /\ d = FirstOf(Raising(page, code), code) - 1 /\ d <= Len(code)
                       /\ SubSeq(code, 1, d) \in Seq(Nat) /\ Len(SubSeq(code, 1, d)) = d
                       /\ \A k \in 1 .. d : SubSeq(code, 1, d)[k] = code[k]
                       /\ Raising(page, code) = {} => SubSeq(code, 1, d) = code
  BY DoneIs
<1>3. PICK done \in Seq(Nat) : done = SubSeq(code, 1, d)
  BY <1>2
<1>4. PICK s : s = FlattenSeq([k \in DOMAIN done |-> Made(page, done, k)])
  OBVIOUS
<1>5. Tags(page, code) = s
  BY <1>2, <1>3, <1>4 DEF Tags
<1>6. s \in Seq(Token)
  BY <1>5, ChunkType
<1>7. ASSUME NEW k \in 1 .. Len(done) PROVE done[k] = b + k
  <2>1. k \in 1 .. d /\ k \in 1 .. Len(code)
    BY <1>2, <1>3
  <2> QED
    BY <1>1, <1>2, <1>3, <2>1 DEF IsChunk
<1>8. /\ Ordered(s)
      /\ \A t \in Token : t \in Range(s) <=> \E k \in 1 .. Len(done) : Gives(page, done, b, k, t)
  BY <1>4, <1>7, ChunkMakes
<1>9. ASSUME NEW t \in Range(s) PROVE t \in Token /\ t.run = Run /\ t.line \in b + 1 .. n
  <2>1. t \in Token
    BY <1>6, RangeOfSeq
  <2>2. PICK k \in 1 .. Len(done) : Gives(page, done, b, k, t)
    BY <1>8, <2>1
  <2>3. b + Len(code) <= n /\ Len(code) \in Nat /\ Len(done) <= Len(code) /\ Len(done) \in Nat
    BY <1>1, <1>2, <1>3 DEF IsChunk
  <2> QED
    BY <2>1, <2>2, <2>3 DEF Gives
<1>10. ASSUME Raising(page, code) = {}, NEW t \in Token
       PROVE  t \in Range(s) <=> t \in Shown(page, files, Run) /\ t.line \in b + 1 .. n + 1
  <2>1. done = code
    BY <1>2, <1>3, <1>10
  <2>2. Parses(page, code)
    BY <1>1 DEF Runs
  <2>3. (\E k \in 1 .. Len(code) : Gives(page, code, b, k, t)) <=>
          t \in Shown(page, files, Run) /\ t.line \in b + 1 .. n + 1
    BY <1>1, <2>2, ChunkShown
  <2> QED
    BY <1>8, <2>1, <2>3
<1> QED
  BY <1>1, <1>5, <1>6, <1>8, <1>9, <1>10

-----------------------------------------------------------------------------
(* Rendering a page *)

NoRaise == \A k \in DOMAIN results : ~ results[k].raised

\* s is all that the lines up to b show, in their order.
SaysUpTo(s, b) ==
  /\ Ordered(s)
  /\ \A t : t \in Range(s) <=> t \in Shown(page, files, Run) /\ t.line <= b

\* What the coroutine has yielded is what the lines show that it has done with.
SaidInv == page # NoPage /\ NoRaise => SaysUpTo(FlattenSeq(ret), ReadTo)

RenderInv == NilInv /\ LeftoverInv /\ CodeInv /\ SaidInv /\ RendersPage

\* A few lines more, with what they show.
LEMMA SaysMore ==
  ASSUME NEW b \in Nat, NEW c \in Nat, b <= c, NEW s \in Seq(Token), SaysUpTo(s, b),
         NEW new \in Seq(Token), Ordered(new), Shown(page, files, Run) \subseteq Token,
         \A t \in Token : t \in Range(new) <=> t \in Shown(page, files, Run) /\ t.line \in b + 1 .. c
  PROVE  SaysUpTo(s \o new, c)
<1>1. /\ Range(s \o new) = Range(s) \cup Range(new)
      /\ Range(s) \subseteq Token /\ Range(new) \subseteq Token
  BY RangeConcatenation, RangeOfSeq
<1>2. \A t \in Token : t.line \in Nat
  BY DEF Token
<1>3. ASSUME NEW x \in Range(s), NEW y \in Range(new) PROVE Before(x, y)
  <2>1. x.line \in Nat /\ x.line <= b /\ y.line \in b + 1 .. c
    BY <1>1, <1>2 DEF SaysUpTo
  <2> QED
    BY <2>1 DEF Before
<1>4. Ordered(s \o new)
  BY <1>3, OrderedConcat DEF SaysUpTo
<1>5. ASSUME NEW t PROVE t \in Range(s \o new) <=> t \in Shown(page, files, Run) /\ t.line <= c
  <2>1. CASE t \notin Token
    BY <1>1, <2>1
  <2>2. CASE t \in Token
    <3>1. PICK l \in Nat : l = t.line
      BY <1>2, <2>2
    <3>2. l <= c <=> l <= b \/ l \in b + 1 .. c
      OBVIOUS
    <3>3. t \in Range(new) <=> t \in Shown(page, files, Run) /\ l \in b + 1 .. c
      BY <2>2, <3>1
    <3>4. t \in Range(s) <=> t \in Shown(page, files, Run) /\ l <= b
      BY <3>1 DEF SaysUpTo
    <3> QED
      BY <1>1, <3>1, <3>2, <3>3, <3>4
  <2> QED
    BY <2>1, <2>2
<1> QED
  BY <1>4, <1>5 DEF SaysUpTo

\* Taking away what was just appended.
LEMMA AppendedTaken ==
  ASSUME NEW S, NEW s \in Seq(S), NEW x
  PROVE  /\ SubSeq(Append(s, x), 1, Len(Append(s, x)) - 1) = s
         /\ Last(Append(s, x)) = x
<1>1. PICK n \in Nat : n = Len(s)
  OBVIOUS
<1> DEFINE a == Append(s, x)
<1>2. s \in Seq(S \cup {x})
  OBVIOUS
<1>3. /\ a \in Seq(S \cup {x}) /\ Len(a) = n + 1 /\ a[n + 1] = x
      /\ \A k \in 1 .. n : a[k] = s[k]
  BY <1>1, <1>2
<1> HIDE DEF a
<1>4. (n + 1) - 1 = n /\ \A k \in 1 .. n : k \in 1 .. n + 1
  OBVIOUS
<1>5. /\ SubSeq(a, 1, n) \in Seq(S \cup {x}) /\ Len(SubSeq(a, 1, n)) = n
      /\ \A k \in 1 .. n : SubSeq(a, 1, n)[k] = a[k]
  BY <1>3, <1>4
<1>6. SubSeq(a, 1, n) = s
  BY <1>1, <1>2, <1>3, <1>5
<1>7. SubSeq(a, 1, Len(a) - 1) = s /\ Last(a) = x
  BY <1>3, <1>4, <1>6 DEF Last
<1> QED
  BY <1>7 DEF a

\* One result of RendersPage.
Renders(r, k, said) ==
  LET shown == Shown(r.page, r.files, k)
  IN  /\ Ordered(said)
      /\ Range(said) \subseteq shown
      /\ IF r.raised
         THEN /\ Last(r.ret) = << [run |-> k, line |-> 0, item |-> 0, part |-> 0] >>
              /\ \A t \in shown \ Range(said), u \in Range(said) : Before(u, t)
         ELSE shown \subseteq Range(said)

Text(r) == FlattenSeq(IF r.raised THEN SubSeq(r.ret, 1, Len(r.ret) - 1) ELSE r.ret)

\* RendersPage, one result at a time.
LEMMA RendersPageIs ==
  RendersPage <=> \A k \in DOMAIN results :
    (\A j \in 1 .. k - 1 : ~ results[j].raised) => Renders(results[k], k, Text(results[k]))
BY DEF RendersPage, Renders, Text, Said, Ordered

\* A result more that is as it should be, unless an error was raised before.
LEMMA ReturnedRenders ==
  ASSUME TemplateTypeOK, RendersPage,
         NEW p, NEW n, NEW values \in Seq(Seq(Token)), NEW raised \in BOOLEAN,
         Returned(p, n, values, raised),
         NoRaise =>
           /\ Ordered(FlattenSeq(values))
           /\ Range(FlattenSeq(values)) \subseteq Shown(p, n, Run)
           /\ IF raised
              THEN \A t \in Shown(p, n, Run) \ Range(FlattenSeq(values)), u \in Range(FlattenSeq(values)) :
                     Before(u, t)
              ELSE Shown(p, n, Run) \subseteq Range(FlattenSeq(values))
  PROVE  RendersPage'
<1>1. /\ Len(results) \in Nat /\ DOMAIN results = 1 .. Len(results)
      /\ \A k \in DOMAIN results : k \in DOMAIN results' /\ results'[k] = results[k]
      /\ \A k \in DOMAIN results' : k \in DOMAIN results \/ k = Run
      /\ results'[Run].page = p /\ results'[Run].files = n /\ results'[Run].raised = raised
      /\ results'[Run].ret = IF raised THEN Append(values, << Message >>) ELSE values
  BY ReturnedIs
<1>2. PICK k \in Nat : k = Run
  BY <1>1 DEF Run
<1>3. Text(results'[k]) = FlattenSeq(values)
  BY <1>1, <1>2, AppendedTaken DEF Text
<1>4. raised => Last(results'[k].ret) = << [run |-> k, line |-> 0, item |-> 0, part |-> 0] >>
  <2>1. << Message >> = << [run |-> k, line |-> 0, item |-> 0, part |-> 0] >>
    BY <1>2 DEF Message
  <2> QED
    BY <1>1, <1>2, <2>1, AppendedTaken
<1>5. NoRaise => Renders(results'[k], k, FlattenSeq(values))
  BY <1>1, <1>2, <1>4 DEF Renders
<1>6. ASSUME NEW i \in DOMAIN results', \A j \in 1 .. i - 1 : ~ results'[j].raised
      PROVE  Renders(results'[i], i, Text(results'[i]))
  <2>1. CASE i = k
    <3>1. \A j \in DOMAIN results : j \in 1 .. i - 1
      BY <1>1, <1>2, <2>1 DEF Run
    <3>2. NoRaise
      BY <1>1, <1>6, <3>1 DEF NoRaise
    <3> QED
      BY <1>3, <1>5, <2>1, <3>2
  <2>2. CASE i \in DOMAIN results
    <3>1. \A j \in 1 .. i - 1 : j \in DOMAIN results
      BY <1>1, <2>2
    <3>2. \A j \in 1 .. i - 1 : ~ results[j].raised
      BY <1>1, <1>6, <3>1
    <3>3. Renders(results[i], i, Text(results[i]))
      BY <2>2, <3>2, RendersPageIs
    <3> QED
      BY <1>1, <2>2, <3>3
  <2> QED
    BY <1>1, <1>2, <2>1, <2>2
<1>7. \A i \in DOMAIN results' : (\A j \in 1 .. i - 1 : ~ results'[j].raised) =>
                                   Renders(results'[i], i, Text(results'[i]))
  BY <1>6
<1>8. RendersPage' <=> \A i \in DOMAIN results' :
        (\A j \in 1 .. i - 1 : ~ results'[j].raised) => Renders(results'[i], i, Text(results'[i]))
  BY DEF RendersPage, Renders, Text, Said, Ordered
<1> QED
  BY <1>7, <1>8

\* What a page shows are tokens, each with a line of the page.
LEMMA ShownTokens ==
  ASSUME TemplateTypeOK, page # NoPage, page \notin Missing, NEW t
  PROVE  t \in Shown(page, files, Run) <=>
           /\ t \in Token /\ t.run = Run /\ t.line \in 1 .. Len(Lines[page])
           /\ Shows(page, files, t.line, t.item, t.part)
<1>1. page \in Page /\ files \in Nat /\ Run \in Nat
  BY TemplateAssumption DEF TemplateTypeOK, Contents, Run
<1> QED
  BY <1>1, ShownIs

\* A line is read.
LEMMA LineSaid ==
  ASSUME RenderInv, Dump \/ OpenTag \/ TextLine \/ CloseTag, NoRaise
  PROVE  SaysUpTo(FlattenSeq(ret'), ReadTo')
<1>1. TemplateTypeOK /\ ReadInv /\ CodeInv /\ SaidInv
  BY DEF RenderInv, NilInv
<1>2. PICK mark \in {"none", "open", "close"} : Next({mark}) /\ IsMark(page, at + 1, mark)
  BY DEF Dump, OpenTag, TextLine, CloseTag, Next, IsMark
<1>3. /\ page \in Page /\ page # NoPage /\ at \in Nat /\ at + 1 \in 1 .. Len(Lines[page])
      /\ page \notin Missing /\ (dump_code <=> InCode(page, at + 1))
  BY <1>1, <1>2, NextIs DEF ReadInv
<1>4. SaysUpTo(FlattenSeq(ret), ReadTo)
  BY <1>1, <1>3 DEF SaidInv
<1>5. /\ function_code \in Seq(Nat) /\ Len(function_code) \in Nat /\ ret \in Seq(Seq(Token))
      /\ FlattenSeq(ret) \in Seq(Token)
  BY <1>1, FlatType DEF TemplateTypeOK
<1>6. PICK s \in Seq(Token) : s = FlattenSeq(ret)
  BY <1>5
<1>7. PICK n \in Nat, m \in Nat, b \in Nat :
        n = at /\ m = Len(function_code) /\ b = ReadTo /\ b = n - m /\ b <= n /\ (~ dump_code => b = n /\ m = 0)
  <2>1. PICK n \in Nat, m \in Nat : n = at /\ m = Len(function_code)
    BY <1>3, <1>5
  <2>2. PICK b : b = ReadTo /\ b = n - m
    BY <2>1 DEF ReadTo
  <2>3. b \in Nat /\ b <= n /\ (~ dump_code => b = n)
    BY <1>1, <1>3, <2>1, <2>2 DEF CodeInv
  <2>4. ~ dump_code => b = n /\ m = 0
    BY <2>1, <2>2, <2>3
  <2>5. PICK c \in Nat : c = b
    BY <2>3
  <2> WITNESS n \in Nat, m \in Nat, c \in Nat
  <2> QED
    BY <2>1, <2>2, <2>3, <2>4, <2>5
<1>8. at' = n + 1
  BY <1>7 DEF Dump, OpenTag, TextLine, CloseTag, Read
<1>9. Shown(page, files, Run) \subseteq Token
  BY <1>1, <1>3, ShownTokens
<1>10. CASE Dump
  <2>1. ret' = ret /\ function_code' = Append(function_code, at + 1)
    BY <1>10 DEF Dump
  <2>2. Len(function_code') = m + 1
    BY <1>5, <1>7, <2>1
  <2>3. ReadTo' = ReadTo
    BY <1>7, <1>8, <2>2 DEF ReadTo
  <2> QED
    BY <1>4, <2>1, <2>3
<1>11. CASE OpenTag
  <2>1. /\ ret' = ret /\ function_code' = function_code /\ ~ dump_code /\ IsMark(page, n + 1, "open")
    BY <1>7, <1>11 DEF OpenTag, Next, IsMark
  <2>2. ReadTo' = n + 1 /\ b = n
    BY <1>7, <1>8, <2>1 DEF ReadTo
  <2>3. ASSUME NEW t \in Token PROVE ~ (t \in Shown(page, files, Run) /\ t.line \in b + 1 .. n + 1)
    <3> SUFFICES ASSUME t \in Shown(page, files, Run), t.line \in b + 1 .. n + 1 PROVE FALSE
      OBVIOUS
    <3>1. t.line = n + 1
      BY <2>2
    <3>2. Shows(page, files, n + 1, t.item, t.part)
      BY <1>1, <1>3, <3>1, ShownTokens
    <3>3. /\ ~ IsMark(page, n + 1, "none") /\ ~ IsRun(page, n + 1)
          /\ Effect(page, n + 1) = "syntax"
      BY <1>3, <1>7, <2>1, LineIs DEF IsRun
    <3> QED
      BY <3>2, <3>3 DEF Shows, InLoop
  <2>4. << >> \in Seq(Token) /\ Ordered(<< >>) /\ Range(<< >>) = {}
    BY DEF Ordered, Range
  <2>5. SaysUpTo(s \o << >>, n + 1)
    <3>1. b <= n + 1 /\ n + 1 \in Nat
      BY <1>7
    <3> QED
      BY <1>4, <1>6, <1>7, <1>9, <2>3, <2>4, <3>1, SaysMore
  <2>6. s \o << >> = FlattenSeq(ret')
    BY <1>6, <2>1, ConcatEmptySeq
  <2> QED
    BY <2>2, <2>5, <2>6
<1>12. CASE TextLine
  <2>1. PICK x : x = [run |-> Run, line |-> n + 1, item |-> 0, part |-> n + 1]
    OBVIOUS
  <2>2. /\ ret' = Append(ret, <<x>>) /\ function_code' = function_code /\ ~ dump_code
        /\ IsMark(page, n + 1, "none")
    BY <1>7, <1>12, <2>1 DEF TextLine, Next, IsMark
  <2>3. ReadTo' = n + 1 /\ b = n
    BY <1>7, <1>8, <2>2 DEF ReadTo
  <2>4. x \in Token
    BY <1>1, <2>1 DEF Token, Run, TemplateTypeOK
  <2>5. <<x>> \in Seq(Token) /\ Ordered(<<x>>) /\ Range(<<x>>) = {x}
    BY <2>4 DEF Ordered, Range
  <2>6. ASSUME NEW t \in Token PROVE t = x <=> t \in Shown(page, files, Run) /\ t.line \in b + 1 .. n + 1
    <3>1. t = x <=> t.run = Run /\ t.line = n + 1 /\ t.item = 0 /\ t.part = n + 1
      BY <2>1 DEF Token
    <3>2. t.line \in b + 1 .. n + 1 <=> t.line = n + 1
      BY <2>3 DEF Token
    <3>3. Shows(page, files, n + 1, t.item, t.part) <=> t.item = 0 /\ t.part = n + 1
      BY <1>3, <1>7, <2>2 DEF Shows, IsRun, InLoop
    <3>4. t \in Shown(page, files, Run) <=>
             t.run = Run /\ t.line \in 1 .. Len(Lines[page]) /\ Shows(page, files, t.line, t.item, t.part)
      BY <1>1, <1>3, ShownTokens
    <3> QED
      BY <1>3, <1>7, <3>1, <3>2, <3>3, <3>4
  <2>7. SaysUpTo(s \o <<x>>, n + 1)
    <3>1. b <= n + 1 /\ n + 1 \in Nat
      BY <1>7
    <3>2. \A t \in Token : t \in Range(<<x>>) <=> t \in Shown(page, files, Run) /\ t.line \in b + 1 .. n + 1
      BY <2>5, <2>6
    <3> QED
      BY <1>4, <1>6, <1>7, <1>9, <2>5, <3>1, <3>2, SaysMore
  <2>8. FlattenSeq(ret') = s \o <<x>>
    BY <1>5, <1>6, <2>2, <2>5, FlatAppend
  <2> QED
    BY <2>3, <2>7, <2>8
<1>13. CASE CloseTag
  <2>1. Next({"close"}) /\ Runs /\ Raising(page, Chunk) = {} /\ function_code' = << >>
    BY <1>13 DEF CloseTag
  <2>2. ReadTo' = n + 1
    <3>1. Len(<< >>) = 0
      OBVIOUS
    <3> QED
      BY <1>8, <2>1, <3>1 DEF ReadTo
  <2>3. current_ret = << >>
    BY DEF RenderInv, LeftoverInv, LeftoverOnlyAfterRaise, NoRaise
  <2>4. PICK new \in Seq(Token) :
          /\ new = Tags(page, Chunk) /\ Ordered(new)
          /\ \A t \in Token : t \in Range(new) <=> t \in Shown(page, files, Run) /\ t.line \in b + 1 .. n + 1
    BY <1>1, <1>3, <1>7, <2>1, TagsShown
  <2>5. ret' = Append(ret, new)
    <3>1. << >> \o new = new
      BY ConcatEmptySeq
    <3> QED
      BY <1>13, <2>3, <2>4, <3>1 DEF CloseTag, Yielded
  <2>6. SaysUpTo(s \o new, n + 1)
    <3>1. b <= n + 1 /\ n + 1 \in Nat
      BY <1>7
    <3> QED
      BY <1>4, <1>6, <1>7, <1>9, <2>4, <3>1, SaysMore
  <2>7. FlattenSeq(ret') = s \o new
    BY <1>5, <1>6, <2>5, FlatAppend
  <2> QED
    BY <2>2, <2>6, <2>7
<1> QED
  BY <1>10, <1>11, <1>12, <1>13

\* At the end of the file nothing is shown by the lines that no </lua> follows.
LEMMA EndSaid ==
  ASSUME RenderInv, EndOfFile, NEW t \in Shown(page, files, Run)
  PROVE  t.line <= ReadTo
<1>1. TemplateTypeOK /\ ReadInv /\ CodeInv
  BY DEF RenderInv, NilInv
<1>2. page # NoPage /\ page \notin Missing /\ at = Len(Lines[page])
  BY <1>1 DEF EndOfFile, ReadInv
<1>3. PICK n \in Nat, b \in Nat :
        /\ n = at /\ b = ReadTo /\ b <= n
        /\ b < n => b # 0 /\ IsMark(page, b, "open")
        /\ \A i \in b + 1 .. n : ~ IsMark(page, i, "close")
  <2>1. at \in Nat
    BY <1>1 DEF TemplateTypeOK
  <2>2. ReadTo \in Nat /\ ReadTo <= at /\ (ReadTo < at => dump_code)
    BY <1>1, <1>2, <2>1 DEF CodeInv
  <2> QED
    BY <1>1, <1>2, <2>1, <2>2 DEF CodeInv
<1>4. PICK i \in 1 .. n : i = t.line /\ Shows(page, files, i, t.item, t.part)
  BY <1>1, <1>2, <1>3, ShownTokens
<1>5. CASE i \in b + 1 .. n
  <2>1. InCode(page, i)
    BY <1>3, <1>5, OpenInCode
  <2>2. \A c \in i + 1 .. Len(Lines[page]) : c \in b + 1 .. n
    BY <1>2, <1>3, <1>5
  <2>3. ~ IsRun(page, i)
    BY <1>3, <2>2 DEF IsRun
  <2>4. ASSUME InLoop(page, i, t.part), t.part \in 1 .. Len(Lines[page]) PROVE ~ IsRun(page, t.part)
    <3>1. i < t.part /\ Len(Lines[page]) \in Nat
      BY <1>1, <2>4, LinesLength DEF InLoop, TemplateTypeOK
    <3>2. \A c \in t.part + 1 .. Len(Lines[page]) : c \in i + 1 .. Len(Lines[page])
      BY <2>4, <3>1
    <3> QED
      BY <1>3, <2>2, <3>2 DEF IsRun
  <2> QED
    BY <1>4, <2>1, <2>3, <2>4 DEF Shows
<1> QED
  BY <1>3, <1>4, <1>5

\* Every step keeps the invariant.
LEMMA NextRenderInv == RenderInv /\ [TemplateNext]_templateVars => RenderInv'
<1> SUFFICES ASSUME RenderInv, [TemplateNext]_templateVars PROVE RenderInv'
  OBVIOUS
<1>1. /\ TemplateTypeOK /\ NilInv /\ ReadInv /\ CodeInv /\ SaidInv /\ LeftoverInv /\ RendersPage
      /\ NilInv' /\ CodeInv' /\ LeftoverInv'
  BY NextNilInv, NextCodeInv, NextLeftoverInv DEF RenderInv, NilInv
<1> SUFFICES SaidInv' /\ RendersPage'
  BY <1>1 DEF RenderInv
<1>2. ASSUME UNCHANGED results PROVE RendersPage'
  <2>1. RendersPage' <=> \A k \in DOMAIN results' :
          (\A j \in 1 .. k - 1 : ~ results'[j].raised) => Renders(results'[k], k, Text(results'[k]))
    BY DEF RendersPage, Renders, Text, Said, Ordered
  <2> QED
    BY <1>1, <1>2, <2>1, RendersPageIs
<1>3. ASSUME page' = NoPage PROVE SaidInv'
  BY <1>3 DEF SaidInv
<1>4. ret \in Seq(Seq(Token))
  BY <1>1 DEF TemplateTypeOK
<1>5. FlattenSeq(<< >>) = << >> /\ Ordered(<< >>) /\ Range(<< >>) = {} /\ << >> \in Seq(Seq(Token))
  BY FlatEmpty DEF Ordered, Range
<1>6. CASE DoFile
  <2>1. PICK p \in Page, n \in Contents :
          /\ files' = n
          /\ IF p \in Missing THEN Returned(p, n, << >>, FALSE) /\ UNCHANGED page
             ELSE page' = p /\ UNCHANGED results
    BY <1>6 DEF DoFile
  <2>2. page = NoPage /\ at' = 0 /\ function_code' = << >> /\ ret' = << >>
    BY <1>6 DEF DoFile
  <2>3. CASE p \in Missing
    <3>1. Shown(p, n, Run) = {}
      BY <2>3 DEF Shown
    <3>2. RendersPage'
      BY <1>1, <1>5, <2>1, <2>3, <3>1, ReturnedRenders
    <3> QED
      BY <1>3, <2>1, <2>2, <2>3, <3>2
  <2>4. CASE p \notin Missing
    <3>1. ReadTo' = 0
      <4>1. Len(function_code') = 0 /\ at' = 0
        BY <2>2
      <4> QED
        BY <4>1 DEF ReadTo
    <3>2. page' = p /\ files' = n /\ Run' = Run /\ n \in Nat /\ Run \in Nat
      BY <1>1, <2>1, <2>4, TemplateAssumption DEF Run, Contents, TemplateTypeOK
    <3>3. ASSUME NEW t PROVE ~ (t \in Shown(p, n, Run) /\ t.line <= 0)
      <4>1. t \in Shown(p, n, Run) => t.line \in 1 .. Len(Lines[p])
        BY <2>4, <3>2, ShownIs
      <4> QED
        BY <4>1, LinesLength
    <3>4. SaysUpTo(<< >>, 0)'
      BY <1>5, <3>2, <3>3 DEF SaysUpTo, Ordered, Range
    <3>5. SaidInv'
      BY <1>5, <2>2, <3>1, <3>4 DEF SaidInv
    <3> QED
      BY <1>2, <2>1, <2>4, <3>5
  <2> QED
    BY <2>3, <2>4
<1>7. CASE Dump \/ OpenTag \/ TextLine \/ CloseTag
  <2>1. page' = page /\ files' = files /\ results' = results
    BY <1>7 DEF Dump, OpenTag, TextLine, CloseTag
  <2>2. NoRaise' => NoRaise
    BY <2>1 DEF NoRaise
  <2>3. Run' = Run
    BY <2>1 DEF Run
  <2>4. NoRaise => SaysUpTo(FlattenSeq(ret'), ReadTo')
    BY <1>7, LineSaid
  <2>5. NoRaise => SaysUpTo(FlattenSeq(ret), ReadTo)'
    BY <2>1, <2>3, <2>4 DEF SaysUpTo, Ordered
  <2>6. SaidInv'
    BY <2>2, <2>5 DEF SaidInv
  <2> QED
    BY <1>2, <2>1, <2>6
<1>8. CASE CodeRaises \/ FormatRaises
  <2>1. page # NoPage /\ Returned(page, files, ret, TRUE) /\ page' = NoPage
    BY <1>8 DEF CodeRaises, FormatRaises, Next, Ended
  <2>2. PICK s : s = FlattenSeq(ret)
    OBVIOUS
  <2>3. NoRaise => SaysUpTo(s, ReadTo)
    BY <1>1, <2>1, <2>2 DEF SaidInv
  <2>4. ReadTo \in Nat
    BY <1>1, <2>1 DEF CodeInv, TemplateTypeOK
  <2>5. ASSUME NoRaise, NEW t \in Shown(page, files, Run) \ Range(s), NEW u \in Range(s)
        PROVE  Before(u, t)
    <3>1. t \in Token /\ u \in Token
      BY <1>1, <2>1, <2>3, <2>5, ShownTokens DEF ReadInv, SaysUpTo
    <3>2. u.line \in Nat /\ t.line \in Nat
      BY <3>1 DEF Token
    <3>3. u.line <= ReadTo /\ ~ (t.line <= ReadTo)
      BY <2>3, <2>5 DEF SaysUpTo
    <3> QED
      BY <2>4, <3>2, <3>3 DEF Before
  <2>6. NoRaise => Ordered(s) /\ Range(s) \subseteq Shown(page, files, Run)
    BY <2>3 DEF SaysUpTo
  <2>7. RendersPage'
    BY <1>1, <1>4, <2>1, <2>2, <2>5, <2>6, ReturnedRenders
  <2> QED
    BY <1>3, <2>1, <2>7
<1>9. CASE EndOfFile
  <2>1. page # NoPage /\ Returned(page, files, ret, FALSE) /\ page' = NoPage
    BY <1>9 DEF EndOfFile, Ended
  <2>2. PICK s : s = FlattenSeq(ret)
    OBVIOUS
  <2>3. NoRaise => SaysUpTo(s, ReadTo)
    BY <1>1, <2>1, <2>2 DEF SaidInv
  <2>4. \A t \in Shown(page, files, Run) : t.line <= ReadTo
    BY <1>9, EndSaid
  <2>5. NoRaise => /\ Ordered(s) /\ Range(s) \subseteq Shown(page, files, Run)
                   /\ Shown(page, files, Run) \subseteq Range(s)
    BY <2>3, <2>4 DEF SaysUpTo
  <2>6. RendersPage'
    BY <1>1, <1>4, <2>1, <2>2, <2>5, ReturnedRenders
  <2> QED
    BY <1>3, <2>1, <2>6
<1>10. CASE LoadFails
  BY <1>2, <1>3, <1>10 DEF LoadFails
<1>11. CASE UNCHANGED templateVars
  <2>1. UNCHANGED <<page, files, ret, results, at, function_code>>
    BY <1>11 DEF templateVars
  <2>2. SaidInv'
    BY <1>1, <2>1 DEF SaidInv, SaysUpTo, Ordered, NoRaise, Run, ReadTo
  <2> QED
    BY <1>2, <2>1, <2>2
<1> QED
  BY <1>6, <1>7, <1>8, <1>9, <1>10, <1>11 DEF TemplateNext

\* Whatever is in the pages, a page is rendered in the order of its text and statements,
\* a loop round by round, and each part is there once; one that raises an error is a
\* beginning of that, and the message.
THEOREM RendersPageAlways == TemplateSpec => []RendersPage
<1>1. TemplateInit => RenderInv
  <2> SUFFICES ASSUME TemplateInit PROVE RenderInv
    OBVIOUS
  <2>1. NilInv
    BY InitNilInv
  <2>2. LeftoverInv
    BY InitLeftoverInv
  <2>3. page = NoPage /\ DOMAIN results = {}
    BY DEF TemplateInit
  <2> QED
    BY <2>1, <2>2, <2>3 DEF RenderInv, CodeInv, SaidInv, RendersPage
<1>2. RenderInv => RendersPage
  BY DEF RenderInv
<1> QED
  BY <1>1, <1>2, NextRenderInv, PTL DEF TemplateSpec

-----------------------------------------------------------------------------
(* Each token has one place *)

Distinct(s) == \A i, j \in DOMAIN s : s[i] = s[j] => i = j

\* What has been sent.
Sent == FlattenSeq(FlattenSeq([k \in DOMAIN results |-> results[k].ret]))

\* A token has been sent, or yielded, or waits in current_ret; it is there once, and
\* what the running page has yielded of its own comes from the lines done with.
OnceInv ==
  /\ Distinct(Sent) /\ Distinct(current_ret)
  /\ \A t \in Range(Sent) \cup Range(current_ret) : t.run < Run
  /\ Range(Sent) \cap Range(current_ret) = {}
  /\ page # NoPage =>
       /\ Distinct(FlattenSeq(ret))
       /\ Range(FlattenSeq(ret)) \cap (Range(Sent) \cup Range(current_ret)) = {}
       /\ \A t \in Range(FlattenSeq(ret)) : t.run < Run \/ (t.run = Run /\ t.line \in 1 .. ReadTo)

EachOnceInv == NilInv /\ CodeInv /\ OnceInv

\* Two sequences without a common element.
LEMMA DistinctConcat ==
  ASSUME NEW S, NEW s \in Seq(S), NEW t \in Seq(S), Distinct(s), Distinct(t),
         Range(s) \cap Range(t) = {}
  PROVE  Distinct(s \o t)
<1>1. PICK m \in Nat, n \in Nat : m = Len(s) /\ n = Len(t)
  OBVIOUS
<1> DEFINE u == s \o t
<1>2. /\ u \in Seq(S) /\ DOMAIN u = 1 .. m + n /\ DOMAIN s = 1 .. m /\ DOMAIN t = 1 .. n
      /\ \A i \in 1 .. m + n : u[i] = IF i <= m THEN s[i] ELSE t[i - m]
  BY <1>1, ConcatProperties
<1> HIDE DEF u
<1>3. ASSUME NEW i \in 1 .. m + n, NEW j \in 1 .. m + n, i <= m, ~ (j <= m) PROVE u[i] # u[j]
  <2>1. i \in DOMAIN s /\ j - m \in DOMAIN t
    BY <1>2, <1>3
  <2>2. s[i] \in Range(s) /\ t[j - m] \in Range(t)
    BY <2>1 DEF Range
  <2> QED
    BY <1>2, <1>3, <2>2
<1>4. ASSUME NEW i \in 1 .. m + n, NEW j \in 1 .. m + n, u[i] = u[j] PROVE i = j
  <2>1. CASE i <= m /\ j <= m
    <3>1. i \in DOMAIN s /\ j \in DOMAIN s
      BY <1>2, <2>1
    <3> QED
      BY <1>2, <1>4, <2>1, <3>1 DEF Distinct
  <2>2. CASE ~ (i <= m) /\ ~ (j <= m)
    <3>1. PICK k \in 1 .. n, l \in 1 .. n : k = i - m /\ l = j - m
      BY <2>2
    <3>2. t[k] = t[l]
      BY <1>2, <1>4, <2>2, <3>1
    <3>3. k = l
      BY <1>2, <3>2 DEF Distinct
    <3> QED
      BY <3>1, <3>3
  <2> QED
    BY <1>3, <1>4, <2>1, <2>2
<1>5. Distinct(u)
  BY <1>2, <1>4 DEF Distinct
<1> QED
  BY <1>5 DEF u

\* What is in order is there once.
LEMMA OrderedDistinct ==
  ASSUME NEW s \in Seq(Token), Ordered(s)
  PROVE  Distinct(s)
<1> SUFFICES ASSUME NEW i \in DOMAIN s, NEW j \in DOMAIN s, s[i] = s[j], i # j PROVE FALSE
  BY DEF Distinct
<1>1. i \in Nat /\ j \in Nat /\ s[i] \in Token
  OBVIOUS
<1>2. i < j \/ j < i
  BY <1>1
<1>3. Before(s[i], s[i])
  BY <1>2 DEF Ordered
<1>4. s[i].line \in Nat /\ s[i].item \in Nat /\ s[i].part \in Nat
  BY <1>1 DEF Token
<1> QED
  BY <1>3, <1>4 DEF Before

\* One token more, or many.
LEMMA OneToken ==
  ASSUME NEW x \in Token
  PROVE  <<x>> \in Seq(Token) /\ Distinct(<<x>>) /\ Range(<<x>>) = {x}
BY DEF Distinct, Range

\* Two sequences of tokens, one behind the other, hold what either does.
LEMMA RangeOfConcat ==
  ASSUME NEW s \in Seq(Token), NEW t \in Seq(Token)
  PROVE  s \o t \in Seq(Token) /\ Range(s \o t) = Range(s) \cup Range(t)
BY RangeConcatenation, ConcatProperties

\* A result is sent behind what has been sent before.
LEMMA SentMore ==
  ASSUME TemplateTypeOK, NEW p, NEW n, NEW values \in Seq(Seq(Token)), NEW raised \in BOOLEAN,
         Returned(p, n, values, raised)
  PROVE  /\ Sent \in Seq(Token) /\ FlattenSeq(values) \in Seq(Token) /\ Message \in Token
         /\ Sent' = Sent \o (IF raised THEN FlattenSeq(values) \o << Message >> ELSE FlattenSeq(values))
         /\ Run \in Nat /\ Run' = Run + 1
<1>1. Message \in Token /\ << Message >> \in Seq(Token)
  <2>1. Message \in Token
    BY DEF Message, Token, Run, TemplateTypeOK
  <2> QED
    BY <2>1
<1>2. PICK v : v = IF raised THEN Append(values, << Message >>) ELSE values
  OBVIOUS
<1>3. /\ v \in Seq(Seq(Token))
      /\ FlattenSeq(v) = IF raised THEN FlattenSeq(values) \o << Message >> ELSE FlattenSeq(values)
  BY <1>1, <1>2, FlatAppend, AppendProperties
<1>4. /\ Len(results) \in Nat /\ DOMAIN results = 1 .. Len(results)
      /\ DOMAIN results' = 1 .. Len(results) + 1
      /\ \A k \in DOMAIN results : results'[k] = results[k]
      /\ results'[Run].ret = v
  BY <1>2, ReturnedIs
<1>5. PICK l \in Nat : l = Len(results)
  BY <1>4
<1> DEFINE before == [k \in 1 .. l |-> results[k].ret]
<1> DEFINE after == [k \in 1 .. l + 1 |-> results'[k].ret]
<1>6. /\ before \in Seq(Seq(Seq(Token))) /\ Len(before) = l
      /\ \A k \in 1 .. l : before[k] = results[k].ret
  <2>1. \A k \in 1 .. l : results[k].ret \in Seq(Seq(Token))
    <3>1. ASSUME NEW k \in 1 .. l
          PROVE  results[k] \in [page : Page, files : Contents, ret : Seq(Seq(Token)), raised : BOOLEAN]
      <4> DEFINE R == [page : Page, files : Contents, ret : Seq(Seq(Token)), raised : BOOLEAN]
      <4>1. results \in Seq(R)
        BY DEF TemplateTypeOK
      <4> HIDE DEF R
      <4>2. results[k] \in R
        BY <1>5, <4>1
      <4> QED
        BY <4>2 DEF R
    <3> QED
      BY <3>1
  <2> DEFINE e(k) == results[k].ret
  <2>2. \A k \in 1 .. l : e(k) \in Seq(Seq(Token))
    BY <2>1
  <2> HIDE DEF e
  <2>3. [k \in 1 .. l |-> e(k)] \in Seq(Seq(Seq(Token)))
    BY <2>2, IsASeq
  <2>4. before \in Seq(Seq(Seq(Token)))
    BY <2>3 DEF e
  <2> QED
    BY <2>4
<1>7. after = Append(before, v)
  <2>1. \A k \in 1 .. l : k \in 1 .. l + 1 /\ results'[k].ret = results[k].ret
    BY <1>4, <1>5
  <2>2. results'[l + 1].ret = v
    BY <1>4, <1>5 DEF Run
  <2>3. \A k \in 1 .. l + 1 : k \in 1 .. l \/ k = l + 1
    OBVIOUS
  <2>4. after = [k \in 1 .. l + 1 |-> IF k = l + 1 THEN v ELSE before[k]]
    BY <2>1, <2>2, <2>3
  <2> HIDE DEF before, after
  <2>5. PICK f : f = Append(before, v)
    OBVIOUS
  <2>6. /\ f \in Seq(Seq(Seq(Token))) /\ Len(f) = l + 1 /\ f[l + 1] = v
        /\ \A k \in 1 .. l : f[k] = before[k]
    BY <1>3, <1>6, <2>5, AppendProperties
  <2>7. f = [k \in 1 .. l + 1 |-> f[k]]
    BY <2>6
  <2>8. \A k \in 1 .. l + 1 : f[k] = IF k = l + 1 THEN v ELSE before[k]
    BY <2>3, <2>6
  <2> QED
    BY <2>4, <2>5, <2>7, <2>8
<1>8. Sent = FlattenSeq(FlattenSeq(before)) /\ Sent' = FlattenSeq(FlattenSeq(after))
  BY <1>4, <1>5 DEF Sent
<1> HIDE DEF before, after
<1>9. FlattenSeq(after) = FlattenSeq(before) \o v /\ FlattenSeq(before) \in Seq(Seq(Token))
  BY <1>3, <1>6, <1>7, FlatAppend, FlatType
<1>10. FlattenSeq(FlattenSeq(after)) = FlattenSeq(FlattenSeq(before)) \o FlattenSeq(v)
  BY <1>3, <1>9, FlatConcat
<1>11. FlattenSeq(FlattenSeq(before)) \in Seq(Token) /\ FlattenSeq(values) \in Seq(Token)
  BY <1>9, FlatType
<1>12. Run' = Run + 1 /\ Run \in Nat
  <2>1. Len(results') = Len(results) + 1
    BY <1>4 DEF Returned, TemplateTypeOK
  <2> QED
    BY <1>4, <2>1 DEF Run
<1> QED
  BY <1>1, <1>3, <1>8, <1>10, <1>11, <1>12

\* The page that ends is sent, and nothing in it had been.
LEMMA EndedOnce ==
  ASSUME EachOnceInv, page # NoPage, NEW raised \in BOOLEAN, Returned(page, files, ret, raised)
  PROVE  /\ Distinct(Sent') /\ Run \in Nat /\ Run' = Run + 1
         /\ Range(Sent') \subseteq Range(Sent) \cup Range(FlattenSeq(ret)) \cup {Message}
         /\ \A t \in Range(Sent') : t.run < Run'
<1>1. TemplateTypeOK /\ CodeInv /\ OnceInv
  BY DEF EachOnceInv, NilInv
<1>2. ret \in Seq(Seq(Token))
  BY <1>1 DEF TemplateTypeOK
<1>3. PICK s \in Seq(Token), r \in Seq(Token), x \in Token :
        /\ s = Sent /\ r = FlattenSeq(ret) /\ x = Message
        /\ Sent' = s \o (IF raised THEN r \o <<x>> ELSE r)
        /\ Run \in Nat /\ Run' = Run + 1
  BY <1>1, <1>2, SentMore
<1>4. x.run = Run /\ x.line = 0
  BY <1>3 DEF Message
<1>5. /\ Distinct(s) /\ Distinct(r) /\ Range(s) \cap Range(r) = {}
      /\ \A t \in Range(s) : t.run < Run
      /\ \A t \in Range(r) : t.run < Run \/ (t.run = Run /\ t.line \in 1 .. ReadTo)
  BY <1>1, <1>3 DEF OnceInv
<1>6. x \notin Range(s) /\ x \notin Range(r)
  BY <1>3, <1>4, <1>5
<1>7. Range(s) \subseteq Token /\ Range(r) \subseteq Token
  BY RangeOfSeq
<1>8. ASSUME NEW t \in Range(s) \cup Range(r) \cup {x} PROVE t.run < Run'
  <2>1. t.run \in Nat /\ t.run <= Run
    BY <1>3, <1>4, <1>5, <1>7 DEF Token
  <2> QED
    BY <1>3, <2>1
<1>9. CASE ~ raised
  <2>1. Sent' = s \o r
    BY <1>3, <1>9
  <2>2. Distinct(s \o r) /\ Range(s \o r) = Range(s) \cup Range(r)
    BY <1>5, DistinctConcat, RangeOfConcat
  <2> QED
    BY <1>3, <1>8, <2>1, <2>2
<1>10. CASE raised
  <2>1. <<x>> \in Seq(Token) /\ Distinct(<<x>>) /\ Range(<<x>>) = {x}
    BY OneToken
  <2>2. Range(r) \cap Range(<<x>>) = {}
    BY <1>6, <2>1
  <2>3. PICK v \in Seq(Token) : v = r \o <<x>> /\ Distinct(v) /\ Range(v) = Range(r) \cup {x}
    <3>1. r \o <<x>> \in Seq(Token) /\ Range(r \o <<x>>) = Range(r) \cup Range(<<x>>)
      BY <2>1, RangeOfConcat
    <3>2. Distinct(r \o <<x>>)
      BY <1>5, <2>1, <2>2, DistinctConcat
    <3> QED
      BY <2>1, <3>1, <3>2
  <2>4. Range(s) \cap Range(v) = {}
    BY <1>5, <1>6, <2>3
  <2>5. Distinct(s \o v) /\ Range(s \o v) = Range(s) \cup Range(v)
    BY <1>5, <2>3, <2>4, DistinctConcat, RangeOfConcat
  <2>6. Sent' = s \o v
    BY <1>3, <1>10, <2>3
  <2> QED
    BY <1>3, <1>8, <2>3, <2>5, <2>6
<1> QED
  BY <1>9, <1>10

\* What the coroutine yields next has not been yielded or sent.
LEMMA YieldsOnce ==
  ASSUME EachOnceInv, page # NoPage, results' = results, page' = page,
         NEW new \in Seq(Token), Distinct(new), ret' = Append(ret, new),
         \A t \in Range(new) : t \in Range(current_ret) \/ (t.run = Run /\ t.line \in ReadTo + 1 .. ReadTo'),
         \/ current_ret' = current_ret /\ Range(new) \cap Range(current_ret) = {}
         \/ current_ret' = << >>,
         ReadTo \in Nat, ReadTo' \in Nat, ReadTo <= ReadTo'
  PROVE  OnceInv'
<1>1. TemplateTypeOK /\ OnceInv
  BY DEF EachOnceInv, NilInv
<1>2. ret \in Seq(Seq(Token)) /\ FlattenSeq(ret) \in Seq(Token)
  BY <1>1, FlatType DEF TemplateTypeOK
<1>3. PICK r \in Seq(Token) : r = FlattenSeq(ret)
  BY <1>2
<1>4. FlattenSeq(ret') = r \o new /\ Range(r \o new) = Range(r) \cup Range(new)
  BY <1>2, <1>3, FlatAppend, RangeOfConcat
<1>5. Run' = Run /\ Sent' = Sent
  BY DEF Run, Sent
<1>6. /\ Distinct(Sent) /\ Distinct(r) /\ Distinct(current_ret)
      /\ Range(r) \cap (Range(Sent) \cup Range(current_ret)) = {}
      /\ Range(Sent) \cap Range(current_ret) = {}
      /\ \A t \in Range(Sent) \cup Range(current_ret) : t.run < Run
      /\ \A t \in Range(r) : t.run < Run \/ (t.run = Run /\ t.line \in 1 .. ReadTo)
  BY <1>1, <1>3 DEF OnceInv
<1>7. Run \in Nat
  BY <1>1 DEF Run, TemplateTypeOK
<1>8. ASSUME NEW t \in Range(new) PROVE t \notin Range(r) /\ t \notin Range(Sent)
  <2>1. CASE t \in Range(current_ret)
    BY <1>6, <2>1
  <2>2. CASE t.run = Run /\ t.line \in ReadTo + 1 .. ReadTo'
    <3>1. t.line \notin 1 .. ReadTo
      BY <2>2
    <3> QED
      BY <1>6, <1>7, <2>2, <3>1
  <2> QED
    BY <1>8, <2>1, <2>2
<1>9. Distinct(r \o new)
  BY <1>6, <1>8, DistinctConcat
<1>10. \A i : i \in ReadTo + 1 .. ReadTo' \/ i \in 1 .. ReadTo => i \in 1 .. ReadTo'
  OBVIOUS
<1>11. \A t \in Range(r \o new) : t.run < Run \/ (t.run = Run /\ t.line \in 1 .. ReadTo')
  BY <1>4, <1>6, <1>10
<1>12. /\ Distinct(current_ret') /\ Range(current_ret') \subseteq Range(current_ret)
       /\ Range(current_ret') \cap Range(new) = {}
  <2>1. Distinct(<< >>) /\ Range(<< >>) = {}
    BY DEF Distinct, Range
  <2> QED
    BY <1>6, <2>1
<1>13. Range(r \o new) \cap (Range(Sent) \cup Range(current_ret')) = {}
  BY <1>4, <1>6, <1>8, <1>12
<1>14. Distinct(FlattenSeq(ret')) /\ Distinct(Sent')
  BY <1>4, <1>5, <1>6, <1>9
<1>15. \A t \in Range(FlattenSeq(ret')) : t.run < Run' \/ (t.run = Run' /\ t.line \in 1 .. ReadTo')
  BY <1>4, <1>5, <1>11
<1>16. Range(FlattenSeq(ret')) \cap (Range(Sent') \cup Range(current_ret')) = {}
  BY <1>4, <1>5, <1>13
<1>17. /\ \A t \in Range(Sent') \cup Range(current_ret') : t.run < Run'
       /\ Range(Sent') \cap Range(current_ret') = {}
  BY <1>5, <1>6, <1>12
<1> QED
  BY <1>12, <1>14, <1>15, <1>16, <1>17 DEF OnceInv, Distinct

\* The tags of a chunk are new.
LEMMA TagsOnce ==
  ASSUME EachOnceInv, Next({"close"}), Runs
  PROVE  /\ current_ret \o Tags(page, Chunk) \in Seq(Token)
         /\ Distinct(current_ret \o Tags(page, Chunk))
         /\ Range(current_ret \o Tags(page, Chunk)) = Range(current_ret) \cup Range(Tags(page, Chunk))
         /\ \A t \in Range(Tags(page, Chunk)) : t.run = Run /\ t.line \in ReadTo + 1 .. at
         /\ Run \in Nat
<1>1. TemplateTypeOK /\ CodeInv /\ OnceInv /\ page # NoPage /\ page \notin Missing
  BY DEF EachOnceInv, NilInv, ReadInv, Next
<1>2. /\ Tags(page, Chunk) \in Seq(Token) /\ Ordered(Tags(page, Chunk))
      /\ \A t \in Range(Tags(page, Chunk)) : t.run = Run /\ t.line \in ReadTo + 1 .. at
  BY <1>1, TagsShown
<1>3. current_ret \in Seq(Token) /\ Run \in Nat
  BY <1>1 DEF TemplateTypeOK, Run
<1>4. Distinct(Tags(page, Chunk))
  BY <1>2, OrderedDistinct
<1>5. Distinct(current_ret) /\ \A t \in Range(current_ret) : t.run < Run
  BY <1>1 DEF OnceInv
<1>6. Range(current_ret) \cap Range(Tags(page, Chunk)) = {}
  BY <1>2, <1>3, <1>5
<1> QED
  BY <1>2, <1>3, <1>4, <1>5, <1>6, DistinctConcat, RangeOfConcat

\* Every step keeps the invariant.
LEMMA NextEachOnceInv == EachOnceInv /\ [TemplateNext]_templateVars => EachOnceInv'
<1> SUFFICES ASSUME EachOnceInv, [TemplateNext]_templateVars PROVE EachOnceInv'
  OBVIOUS
<1>1. TemplateTypeOK /\ NilInv /\ CodeInv /\ OnceInv /\ NilInv' /\ CodeInv'
  BY NextNilInv, NextCodeInv DEF EachOnceInv, NilInv
<1> SUFFICES OnceInv'
  BY <1>1 DEF EachOnceInv
<1>2. /\ ret \in Seq(Seq(Token)) /\ at \in Nat /\ function_code \in Seq(Nat)
      /\ Len(function_code) \in Nat /\ Len(<< >>) = 0
  BY <1>1 DEF TemplateTypeOK
<1>3. Run \in Nat
  BY <1>1 DEF TemplateTypeOK, Run
<1>4. /\ Distinct(Sent) /\ Distinct(current_ret) /\ Range(Sent) \cap Range(current_ret) = {}
      /\ \A t \in Range(Sent) \cup Range(current_ret) : t.run < Run
      /\ page # NoPage => Range(FlattenSeq(ret)) \cap Range(current_ret) = {}
      /\ page # NoPage =>
           \A t \in Range(FlattenSeq(ret)) : t.run < Run \/ (t.run = Run /\ t.line \in 1 .. ReadTo)
  BY <1>1 DEF OnceInv
<1>5. page # NoPage => ReadTo \in Nat /\ ReadTo <= at /\ (~ dump_code => ReadTo = at)
  BY <1>1, <1>2 DEF CodeInv
<1>6. CASE DoFile
  <2>1. PICK p \in Page, n \in Contents :
          IF p \in Missing THEN Returned(p, n, << >>, FALSE) /\ UNCHANGED page
          ELSE page' = p /\ UNCHANGED results
    BY <1>6 DEF DoFile
  <2>2. page = NoPage /\ ret' = << >> /\ current_ret' = current_ret
    BY <1>6 DEF DoFile
  <2>3. FlattenSeq(ret') = << >> /\ Distinct(<< >>) /\ Range(<< >>) = {}
    BY <2>2, FlatEmpty DEF Distinct, Range
  <2>4. CASE p \in Missing
    <3>1. /\ Sent \in Seq(Token) /\ Sent' = Sent \o << >> /\ Run' = Run + 1
      <4>1. << >> \in Seq(Seq(Token))
        OBVIOUS
      <4> QED
        BY <1>1, <2>1, <2>3, <2>4, <4>1, FlatEmpty, SentMore
    <3>2. Sent' = Sent /\ page' = NoPage
      BY <2>1, <2>2, <2>4, <3>1, ConcatEmptySeq
    <3>3. \A t \in Range(Sent) \cup Range(current_ret) : t.run < Run'
      <4>1. Range(Sent) \subseteq Token /\ Range(current_ret) \subseteq Token
        BY <1>1, <3>1, RangeOfSeq DEF TemplateTypeOK
      <4>2. \A t \in Token : t.run \in Nat
        BY DEF Token
      <4> QED
        BY <1>3, <1>4, <3>1, <4>1, <4>2
    <3> QED
      BY <1>4, <2>2, <3>2, <3>3 DEF OnceInv, Distinct
  <2>5. CASE p \notin Missing
    <3>1. Sent' = Sent /\ Run' = Run
      BY <2>1, <2>5 DEF Sent, Run
    <3> QED
      BY <1>4, <2>2, <2>3, <3>1 DEF OnceInv, Distinct
  <2> QED
    BY <2>4, <2>5
<1>7. CASE Dump \/ OpenTag
  <2>1. /\ page # NoPage /\ page' = page /\ ret' = ret /\ results' = results /\ current_ret' = current_ret
        /\ at' = at + 1
        /\ function_code' = Append(function_code, at + 1) \/ function_code' = function_code
    BY <1>7 DEF Dump, OpenTag, Next, Read
  <2>2. ReadTo <= ReadTo'
    <3>1. PICK n \in Nat, m \in Nat : n = at /\ m = Len(function_code)
      BY <1>2
    <3>2. Len(function_code') = m + 1 \/ Len(function_code') = m
      BY <1>2, <2>1, <3>1
    <3> QED
      BY <2>1, <3>1, <3>2 DEF ReadTo
  <2>3. ReadTo' \in Nat
    BY <1>1, <1>2, <2>1 DEF CodeInv
  <2>4. Sent' = Sent /\ Run' = Run
    BY <2>1 DEF Sent, Run
  <2>5. \A i \in 1 .. ReadTo : i \in 1 .. ReadTo'
    BY <1>5, <2>1, <2>2, <2>3
  <2>6. \A t \in Range(FlattenSeq(ret)) : t.run < Run \/ (t.run = Run /\ t.line \in 1 .. ReadTo')
    BY <1>4, <2>1, <2>5
  <2>7. /\ Distinct(FlattenSeq(ret))
        /\ Range(FlattenSeq(ret)) \cap (Range(Sent) \cup Range(current_ret)) = {}
    BY <1>1, <2>1 DEF OnceInv
  <2> QED
    BY <1>4, <2>1, <2>4, <2>6, <2>7 DEF OnceInv, Distinct
<1>8. CASE TextLine
  <2>1. PICK x : x = [run |-> Run, line |-> at + 1, item |-> 0, part |-> at + 1]
    OBVIOUS
  <2>2. /\ page # NoPage /\ page' = page /\ results' = results /\ current_ret' = current_ret
        /\ ret' = Append(ret, <<x>>) /\ at' = at + 1 /\ function_code' = function_code /\ ~ dump_code
    BY <1>8, <2>1 DEF TextLine, Next, Read
  <2>3. x \in Token /\ x.run = Run /\ x.line = at + 1
    BY <1>2, <1>3, <2>1 DEF Token
  <2>4. ReadTo = at /\ ReadTo' = at + 1
    <3>1. PICK n \in Nat, m \in Nat : n = at /\ m = Len(function_code)
      BY <1>2
    <3>2. ReadTo = n /\ ReadTo = n - m
      BY <1>5, <2>2, <3>1 DEF ReadTo
    <3>3. ReadTo' = (n + 1) - m
      BY <2>2, <3>1 DEF ReadTo
    <3> QED
      BY <3>1, <3>2, <3>3
  <2>5. <<x>> \in Seq(Token) /\ Distinct(<<x>>) /\ Range(<<x>>) = {x}
    BY <2>3, OneToken
  <2>6. x.line \in ReadTo + 1 .. ReadTo' /\ ReadTo \in Nat /\ ReadTo' \in Nat /\ ReadTo <= ReadTo'
    BY <1>2, <2>3, <2>4
  <2>7. Range(<<x>>) \cap Range(current_ret) = {}
    BY <1>3, <1>4, <2>3, <2>5
  <2> QED
    BY <2>2, <2>3, <2>5, <2>6, <2>7, YieldsOnce
<1>9. CASE CloseTag
  <2>1. PICK new \in Seq(Token) :
          /\ new = current_ret \o Tags(page, Chunk) /\ Distinct(new)
          /\ \A t \in Range(new) : t \in Range(current_ret) \/ (t.run = Run /\ t.line \in ReadTo + 1 .. at)
    BY <1>9, TagsOnce DEF CloseTag
  <2>2. /\ page # NoPage /\ page' = page /\ results' = results /\ current_ret' = << >>
        /\ ret' = Append(ret, new) /\ at' = at + 1 /\ function_code' = << >>
    BY <1>9, <2>1 DEF CloseTag, Yielded, Next, Read
  <2>3. ReadTo' = at + 1
    BY <1>2, <2>2 DEF ReadTo
  <2>4. ReadTo \in Nat /\ ReadTo' \in Nat /\ ReadTo <= ReadTo'
    BY <1>2, <1>5, <2>2, <2>3
  <2>5. \A i \in ReadTo + 1 .. at : i \in ReadTo + 1 .. ReadTo'
    BY <1>2, <2>3, <2>4
  <2> QED
    BY <2>1, <2>2, <2>4, <2>5, YieldsOnce
<1>10. ASSUME page # NoPage, page' = NoPage, current_ret' = current_ret,
              NEW raised \in BOOLEAN, Returned(page, files, ret, raised)
       PROVE  OnceInv'
  <2>1. /\ Distinct(Sent') /\ Run' = Run + 1 /\ \A t \in Range(Sent') : t.run < Run'
        /\ Range(Sent') \subseteq Range(Sent) \cup Range(FlattenSeq(ret)) \cup {Message}
    BY <1>10, EndedOnce
  <2>2. Message.run = Run
    BY DEF Message
  <2>3. Range(Sent') \cap Range(current_ret) = {}
    BY <1>3, <1>4, <1>10, <2>1, <2>2
  <2>4. \A t \in Range(current_ret) : t.run < Run'
    <3>1. Range(current_ret) \subseteq Token
      BY <1>1, RangeOfSeq DEF TemplateTypeOK
    <3>2. \A t \in Token : t.run \in Nat
      BY DEF Token
    <3> QED
      BY <1>3, <1>4, <2>1, <3>1, <3>2
  <2> QED
    BY <1>4, <1>10, <2>1, <2>3, <2>4 DEF OnceInv, Distinct
<1>11. CASE CodeRaises
  <2>1. /\ Next({"close"}) /\ page # NoPage /\ page' = NoPage /\ Returned(page, files, ret, TRUE)
        /\ Runs /\ current_ret' = current_ret \o Tags(page, Chunk)
    BY <1>11 DEF CodeRaises, Next, Ended
  <2>2. /\ Distinct(Sent') /\ Run' = Run + 1 /\ \A t \in Range(Sent') : t.run < Run'
        /\ Range(Sent') \subseteq Range(Sent) \cup Range(FlattenSeq(ret)) \cup {Message}
    BY <2>1, EndedOnce
  <2>3. /\ Distinct(current_ret')
        /\ Range(current_ret') = Range(current_ret) \cup Range(Tags(page, Chunk))
        /\ \A t \in Range(Tags(page, Chunk)) : t.run = Run /\ t.line \in ReadTo + 1 .. at
    BY <2>1, TagsOnce
  <2>4. Message.run = Run /\ Message.line = 0
    BY DEF Message
  <2>5. ASSUME NEW t \in Range(Tags(page, Chunk))
        PROVE  t \notin Range(Sent) /\ t \notin Range(FlattenSeq(ret)) /\ t # Message
    <3>1. t.run = Run /\ t.line \in ReadTo + 1 .. at
      BY <2>3
    <3>2. t.line \notin 1 .. ReadTo /\ t.line # 0
      BY <1>2, <1>5, <2>1, <3>1
    <3> QED
      BY <1>3, <1>4, <2>1, <2>4, <3>1, <3>2
  <2>6. Range(Sent') \cap Range(current_ret') = {}
    BY <1>3, <1>4, <2>1, <2>2, <2>3, <2>4, <2>5
  <2>7. ASSUME NEW t \in Range(current_ret') PROVE t.run < Run'
    <3>1. CASE t \in Range(current_ret)
      <4>1. Range(current_ret) \subseteq Token
        BY <1>1, RangeOfSeq DEF TemplateTypeOK
      <4>2. t.run \in Nat /\ t.run < Run
        BY <1>4, <3>1, <4>1 DEF Token
      <4> QED
        BY <1>3, <2>2, <4>2
    <3>2. CASE t \in Range(Tags(page, Chunk))
      BY <1>3, <2>2, <2>3, <3>2
    <3> QED
      BY <2>3, <3>1, <3>2
  <2> QED
    BY <2>1, <2>2, <2>3, <2>6, <2>7 DEF OnceInv, Distinct
<1>12. CASE FormatRaises
  BY <1>10, <1>12 DEF FormatRaises, Ended
<1>13. CASE EndOfFile
  BY <1>10, <1>13 DEF EndOfFile, Ended
<1>14. CASE LoadFails
  <2>1. page' = NoPage /\ current_ret' = current_ret /\ results' = results
    BY <1>14 DEF LoadFails
  <2>2. Sent' = Sent /\ Run' = Run
    BY <2>1 DEF Sent, Run
  <2> QED
    BY <1>4, <2>1, <2>2 DEF OnceInv, Distinct
<1>15. CASE UNCHANGED templateVars
  <2>1. UNCHANGED <<page, ret, current_ret, results, at, function_code>>
    BY <1>15 DEF templateVars
  <2>2. Sent' = Sent /\ Run' = Run /\ ReadTo' = ReadTo
    BY <2>1 DEF Sent, Run, ReadTo
  <2> QED
    BY <1>1, <2>1, <2>2 DEF OnceInv, Distinct
<1> QED
  BY <1>6, <1>7, <1>8, <1>9, <1>11, <1>12, <1>13, <1>14, <1>15 DEF TemplateNext

\* Whatever pages are rendered and whichever of them raise errors, nothing that code
\* has made is sent twice.
THEOREM EachOnceAlways == TemplateSpec => []EachOnce
<1>1. TemplateInit => EachOnceInv
  <2> SUFFICES ASSUME TemplateInit PROVE EachOnceInv
    OBVIOUS
  <2>1. NilInv
    BY InitNilInv
  <2>2. page = NoPage /\ results = << >> /\ current_ret = << >>
    BY DEF TemplateInit
  <2>3. [k \in DOMAIN results |-> results[k].ret] = << >>
    BY <2>2
  <2>4. Sent = << >>
    BY <2>3, FlatEmpty DEF Sent
  <2>5. Distinct(<< >>) /\ Range(<< >>) = {}
    BY DEF Distinct, Range
  <2> QED
    BY <2>1, <2>2, <2>4, <2>5 DEF EachOnceInv, CodeInv, OnceInv
<1>2. EachOnceInv => EachOnce
  BY DEF EachOnceInv, OnceInv, Distinct, Sent, EachOnce
<1> QED
  BY <1>1, <1>2, NextEachOnceInv, PTL DEF TemplateSpec
=============================================================================

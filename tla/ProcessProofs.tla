---------------------------- MODULE ProcessProofs ----------------------------
(***************************************************************************)
(* Proofs about one process, for every script, every directory of plugins  *)
(* and whatever the plugins, the allocations and SIGINT do: what its list  *)
(* of plugins is, what it has when it serves, and how ctrl_c_h ends it.    *)
(***************************************************************************)
EXTENDS Process, Induction, SequenceTheorems, FiniteSetTheorems, TLAPS

-----------------------------------------------------------------------------
(* The linked list: what Walk and EndOf, which follow its pointers, compute. *)

\* The list holds the nodes of s, in their order and none twice, and every other node
\* is as create_node left it.
Represents(l, s) ==
  /\ l \in List /\ s \in Seq(Node)
  /\ \A i, j \in DOMAIN s : s[i] = s[j] => i = j
  /\ l.head = IF s = << >> THEN NULL ELSE s[1]
  /\ \A i \in DOMAIN s : /\ l.next[s[i]] = IF i = Len(s) THEN NULL ELSE s[i + 1]
                         /\ l.prev[s[i]] = IF i = 1 THEN NULL ELSE s[i - 1]
  /\ \A n \in Node : (\A i \in DOMAIN s : s[i] # n) => l.next[n] = NULL /\ l.prev[n] = NULL

\* What holds of the last node of a sequence, and of every node before one it holds of,
\* holds of all.
LEMMA FromTheEnd ==
  ASSUME NEW s \in Seq(Node), NEW S,
         s # << >> => Len(s) \in S,
         \A i \in DOMAIN s : i < Len(s) /\ i + 1 \in S => i \in S
  PROVE  \A i \in DOMAIN s : i \in S
<1> DEFINE T == {k \in Nat : k < Len(s) => Len(s) - k \in S}
<1>1. 0 \in T
  OBVIOUS
<1>2. ASSUME NEW k \in Nat, k \in T PROVE k + 1 \in T
  <2> SUFFICES ASSUME k + 1 < Len(s) PROVE Len(s) - (k + 1) \in S
    OBVIOUS
  <2>1. PICK n \in Nat : n = Len(s)
    OBVIOUS
  <2>2. k < n /\ n - k \in S
    BY <1>2, <2>1
  <2>5. n - (k + 1) \in Nat
    BY <2>1
  <2>3. PICK i \in Nat : i = n - (k + 1)
    BY <2>5
  <2>4. i \in DOMAIN s /\ i < Len(s) /\ i + 1 \in S
    BY <2>1, <2>2, <2>3
  <2> QED
    BY <2>1, <2>3, <2>4
<1>3. Nat \subseteq T
  <2> HIDE DEF T
  <2> QED
    BY <1>1, <1>2, SetInduction
<1> QED
  <2> SUFFICES ASSUME NEW i \in DOMAIN s PROVE i \in S
    OBVIOUS
  <2>1. PICK n \in Nat : n = Len(s)
    OBVIOUS
  <2>2. n - i \in Nat /\ n - i < n /\ n - (n - i) = i
    BY <2>1
  <2> QED
    BY <1>3, <2>1, <2>2

\* What is left of a sequence from one place on.
LEMMA Suffix ==
  ASSUME NEW s \in Seq(Node), NEW i \in DOMAIN s
  PROVE  SubSeq(s, i, Len(s)) = IF i = Len(s) THEN <<s[i]>>
                                ELSE <<s[i]>> \o SubSeq(s, i + 1, Len(s))
<1>1. i \in 1 .. Len(s) /\ Len(s) \in i .. Len(s)
  OBVIOUS
<1>2. SubSeq(s, i, Len(s)) = <<s[i]>> \o SubSeq(s, i + 1, Len(s))
  BY <1>1, SubSeqRecursiveFirst
<1>3. CASE i = Len(s)
  <2>1. SubSeq(s, i + 1, Len(s)) = << >>
    BY <1>1, <1>3, SubSeqEmpty
  <2>2. <<s[i]>> \in Seq(Node)
    OBVIOUS
  <2>3. <<s[i]>> \o << >> = <<s[i]>>
    BY <2>2, ConcatEmptySeq
  <2> QED
    BY <1>2, <1>3, <2>1, <2>3
<1> QED
  BY <1>2, <1>3

\* Following next from any node of the list gives the rest of the sequence.
LEMMA WalkOf ==
  ASSUME NEW l, NEW s, Represents(l, s)
  PROVE  Walk(l) = s
<1> DEFINE from[n \in Pointer] == IF n = NULL THEN << >> ELSE <<n>> \o from[l.next[n]]
<1> DEFINE G(f) == [n \in Pointer |-> IF n = NULL THEN << >> ELSE <<n>> \o f[l.next[n]]]
<1> DEFINE Rest(n) == IF n = NULL THEN << >>
                      ELSE IF \E i \in DOMAIN s : s[i] = n
                      THEN SubSeq(s, CHOOSE i \in DOMAIN s : s[i] = n, Len(s))
                      ELSE <<n>>
<1> DEFINE rest == [n \in Pointer |-> Rest(n)]
<1>1. Walk(l) = from[l.head]
  BY DEF Walk
<1>2. /\ l \in List /\ s \in Seq(Node)
      /\ \A i, j \in DOMAIN s : s[i] = s[j] => i = j
      /\ \A i \in DOMAIN s : l.next[s[i]] = IF i = Len(s) THEN NULL ELSE s[i + 1]
      /\ \A n \in Node : (\A i \in DOMAIN s : s[i] # n) => l.next[n] = NULL
  BY DEF Represents
<1>3. \A i \in DOMAIN s : s[i] \in Node /\ s[i] # NULL
  BY <1>2, NullAssumption
<1>13. \A n \in Node : <<n>> \o << >> = <<n>>
  <2> SUFFICES ASSUME NEW n \in Node PROVE <<n>> \o << >> = <<n>>
    OBVIOUS
  <2>1. <<n>> \in Seq(Node)
    OBVIOUS
  <2> QED
    BY <2>1, ConcatEmptySeq
<1>4. \A i \in DOMAIN s : Rest(s[i]) = SubSeq(s, i, Len(s))
  <2> SUFFICES ASSUME NEW i \in DOMAIN s PROVE Rest(s[i]) = SubSeq(s, i, Len(s))
    OBVIOUS
  <2>1. (CHOOSE j \in DOMAIN s : s[j] = s[i]) = i
    BY <1>2
  <2> QED
    BY <1>3, <2>1
<1>5. rest = G(rest)
  <2> SUFFICES ASSUME NEW n \in Pointer
               PROVE  Rest(n) = IF n = NULL THEN << >> ELSE <<n>> \o rest[l.next[n]]
    OBVIOUS
  <2>1. CASE n = NULL
    BY <2>1
  <2>2. CASE \E i \in DOMAIN s : s[i] = n
    <3>1. PICK i \in DOMAIN s : s[i] = n
      BY <2>2
    <3>2. Rest(n) = SubSeq(s, i, Len(s))
      BY <1>4, <3>1
    <3>3. CASE i = Len(s)
      <4>1. rest[l.next[n]] = << >>
        BY <1>2, <3>1, <3>3 DEF Pointer
      <4>2. SubSeq(s, i, Len(s)) = <<n>>
        BY <1>2, <3>1, <3>3, Suffix
      <4> QED
        BY <1>3, <1>13, <3>1, <3>2, <4>1, <4>2
    <3>4. CASE i # Len(s)
      <4>1. i + 1 \in DOMAIN s /\ l.next[n] = s[i + 1]
        BY <1>2, <3>1, <3>4
      <4>2. s[i + 1] \in Pointer
        BY <1>3, <4>1 DEF Pointer
      <4>3. rest[s[i + 1]] = Rest(s[i + 1])
        BY <4>2
      <4>4. rest[l.next[n]] = SubSeq(s, i + 1, Len(s))
        BY <1>4, <4>1, <4>3
      <4>5. SubSeq(s, i, Len(s)) = <<s[i]>> \o SubSeq(s, i + 1, Len(s))
        BY <1>2, <3>4, Suffix
      <4> QED
        BY <1>3, <3>1, <3>2, <4>4, <4>5
    <3> QED
      BY <3>3, <3>4
  <2>3. CASE n # NULL /\ ~ \E i \in DOMAIN s : s[i] = n
    <3>1. rest[l.next[n]] = << >>
      BY <1>2, <2>3 DEF Pointer
    <3>2. Rest(n) = <<n>>
      BY <2>3
    <3> HIDE DEF rest, Rest
    <3> QED
      BY <1>13, <2>3, <3>1, <3>2 DEF Pointer
  <2> QED
    BY <2>1, <2>2, <2>3
<1>6. from = G(from)
  <2> HIDE DEF rest
  <2>1. from = CHOOSE f : f = G(f)
    OBVIOUS
  <2> HIDE DEF G, from
  <2> QED
    BY <1>5, <2>1
<1> DEFINE S == {i \in Nat : from[s[i]] = SubSeq(s, i, Len(s))}
<1>7. from[NULL] = << >> /\ \A n \in Node : from[n] = <<n>> \o from[l.next[n]]
  <2> HIDE DEF from
  <2> QED
    BY <1>6, NullAssumption DEF Pointer
<1> HIDE DEF from
<1>8. s # << >> => Len(s) \in S
  <2> SUFFICES ASSUME s # << >> PROVE Len(s) \in S
    OBVIOUS
  <2>1. Len(s) \in DOMAIN s
    BY <1>2
  <2>2. PICK n \in Node : n = s[Len(s)]
    BY <1>3, <2>1
  <2>3. l.next[n] = NULL
    BY <1>2, <2>1, <2>2
  <2>4. from[n] = <<n>>
    BY <1>7, <1>13, <2>3
  <2>5. SubSeq(s, Len(s), Len(s)) = <<n>>
    BY <1>2, <2>1, <2>2, Suffix
  <2> QED
    BY <1>2, <2>2, <2>4, <2>5
<1>9. ASSUME NEW i \in DOMAIN s, i < Len(s), i + 1 \in S PROVE i \in S
  <2>1. i + 1 \in DOMAIN s /\ i \in Nat /\ i # Len(s)
    BY <1>2, <1>9
  <2>2. from[s[i + 1]] = SubSeq(s, i + 1, Len(s))
    BY <1>9
  <2>3. PICK n \in Node : n = s[i]
    BY <1>3
  <2>4. l.next[n] = s[i + 1]
    BY <1>2, <2>1, <2>3
  <2>5. from[n] = <<n>> \o SubSeq(s, i + 1, Len(s))
    BY <1>7, <2>2, <2>4
  <2>6. SubSeq(s, i, Len(s)) = <<n>> \o SubSeq(s, i + 1, Len(s))
    BY <1>2, <2>1, <2>3, Suffix
  <2> QED
    BY <2>1, <2>3, <2>5, <2>6
<1>10. \A i \in DOMAIN s : i \in S
  <2> HIDE DEF S
  <2> QED
    BY <1>2, <1>8, <1>9, FromTheEnd
<1>11. CASE s = << >>
  BY <1>1, <1>7, <1>11 DEF Represents
<1>12. CASE s # << >>
  <2>1. l.head = s[1] /\ 1 \in DOMAIN s
    BY <1>2, <1>12 DEF Represents
  <2>2. SubSeq(s, 1, Len(s)) = s
    BY <1>2
  <2> QED
    BY <1>1, <1>10, <2>1, <2>2
<1> QED
  BY <1>11, <1>12

\* The end of the list is the last node of the sequence.
LEMMA EndOfIs ==
  ASSUME NEW l, NEW s, Represents(l, s), s # << >>
  PROVE  EndOf(l) = s[Len(s)]
<1> DEFINE from[n \in Node] == IF l.next[n] = NULL THEN n ELSE from[l.next[n]]
<1> DEFINE G(f) == [n \in Node |-> IF l.next[n] = NULL THEN n ELSE f[l.next[n]]]
<1> DEFINE End(n) == IF \E i \in DOMAIN s : s[i] = n THEN s[Len(s)] ELSE n
<1> DEFINE end == [n \in Node |-> End(n)]
<1>1. EndOf(l) = from[l.head]
  BY DEF EndOf
<1>2. /\ s \in Seq(Node)
      /\ \A i \in DOMAIN s : l.next[s[i]] = IF i = Len(s) THEN NULL ELSE s[i + 1]
      /\ \A n \in Node : (\A i \in DOMAIN s : s[i] # n) => l.next[n] = NULL
  BY DEF Represents
<1>3. \A i \in DOMAIN s : s[i] \in Node /\ s[i] # NULL
  BY <1>2, NullAssumption
<1>4. end = G(end)
  <2> SUFFICES ASSUME NEW n \in Node
               PROVE  End(n) = IF l.next[n] = NULL THEN n ELSE end[l.next[n]]
    OBVIOUS
  <2>1. CASE \A i \in DOMAIN s : s[i] # n
    BY <1>2, <2>1
  <2>2. CASE \E i \in DOMAIN s : s[i] = n
    <3>1. PICK i \in DOMAIN s : s[i] = n
      BY <2>2
    <3>2. CASE i = Len(s)
      BY <1>2, <3>1, <3>2
    <3>3. CASE i # Len(s)
      <4>1. i + 1 \in DOMAIN s /\ l.next[n] = s[i + 1]
        BY <1>2, <3>1, <3>3
      <4> QED
        BY <1>3, <3>1, <4>1
    <3> QED
      BY <3>2, <3>3
  <2> QED
    BY <2>1, <2>2
<1>5. from = G(from)
  <2> HIDE DEF end
  <2>1. from = CHOOSE f : f = G(f)
    OBVIOUS
  <2> HIDE DEF G, from
  <2> QED
    BY <1>4, <2>1
<1>6. \A n \in Node : from[n] = IF l.next[n] = NULL THEN n ELSE from[l.next[n]]
  <2> HIDE DEF from
  <2> QED
    BY <1>5
<1> HIDE DEF from
<1> DEFINE S == {i \in Nat : from[s[i]] = s[Len(s)]}
<1>7. Len(s) \in S
  BY <1>2, <1>3, <1>6
<1>8. ASSUME NEW i \in DOMAIN s, i < Len(s), i + 1 \in S PROVE i \in S
  <2>1. i \in Nat /\ i # Len(s) /\ i + 1 \in DOMAIN s /\ from[s[i + 1]] = s[Len(s)]
    BY <1>2, <1>8
  <2> QED
    BY <1>2, <1>3, <1>6, <2>1
<1>9. \A i \in DOMAIN s : i \in S
  <2> HIDE DEF S
  <2> QED
    BY <1>2, <1>7, <1>8, FromTheEnd
<1> QED
  BY <1>1, <1>2, <1>9 DEF Represents

\* insert_node appends: to a list of some nodes, one that is not among them.
LEMMA Inserts ==
  ASSUME NEW l, NEW s, Represents(l, s), NEW n \in Node, \A i \in DOMAIN s : s[i] # n
  PROVE  Represents(InsertNode(l, n), Append(s, n))
<1> DEFINE m == InsertNode(l, n)
<1> DEFINE t == Append(s, n)
<1>1. /\ l \in List /\ s \in Seq(Node)
      /\ \A i, j \in DOMAIN s : s[i] = s[j] => i = j
      /\ l.head = IF s = << >> THEN NULL ELSE s[1]
      /\ \A i \in DOMAIN s : /\ l.next[s[i]] = IF i = Len(s) THEN NULL ELSE s[i + 1]
                             /\ l.prev[s[i]] = IF i = 1 THEN NULL ELSE s[i - 1]
      /\ \A k \in Node : (\A i \in DOMAIN s : s[i] # k) => l.next[k] = NULL /\ l.prev[k] = NULL
  BY DEF Represents
<1>2. PICK len \in Nat : len = Len(s)
  BY <1>1
<1>3. /\ t \in Seq(Node) /\ Len(t) = len + 1 /\ t # << >>
      /\ \A i \in DOMAIN s : t[i] = s[i]
      /\ t[len + 1] = n
      /\ DOMAIN s = 1 .. len /\ DOMAIN t = 1 .. len + 1
  <2>1. /\ t \in Seq(Node) /\ Len(t) = Len(s) + 1 /\ t # << >> /\ t[Len(s) + 1] = n
        /\ \A i \in 1 .. Len(s) : t[i] = s[i]
    BY <1>1, AppendProperties
  <2> HIDE DEF t
  <2> QED
    BY <1>1, <1>2, <2>1
<1> HIDE DEF t
<1>4. \A i, j \in DOMAIN t : t[i] = t[j] => i = j
  BY <1>1, <1>3
<1>5. \A i \in DOMAIN s : s[i] \in Node /\ s[i] # NULL
  BY <1>1, NullAssumption
<1>6. l.next[n] = NULL /\ l.prev[n] = NULL /\ n # NULL
  BY <1>1, NullAssumption
<1>7. CASE s = << >>
  <2>1. m = [l EXCEPT !.head = n] /\ len = 0
    BY <1>1, <1>2, <1>7 DEF InsertNode
  <2>2. m \in List /\ m.head = n /\ m.next = l.next /\ m.prev = l.prev
    BY <1>1, <2>1 DEF List, Pointer
  <2> HIDE DEF m
  <2>3. t[1] = n /\ \A k \in Node : l.next[k] = NULL /\ l.prev[k] = NULL
    BY <1>1, <1>3, <1>7, <2>1
  <2> QED
    BY <1>3, <1>4, <2>1, <2>2, <2>3 DEF Represents, m, t
<1>8. CASE s # << >>
  <2>1. PICK e \in Node : e = s[len] /\ e # n
    BY <1>1, <1>2, <1>3, <1>8
  <2>2. m = [l EXCEPT !.prev[n] = e, !.next[e] = n]
    <3>1. l.head # NULL
      BY <1>1, <1>2, <1>3, <1>5, <1>8
    <3>2. EndOf(l) = e
      BY <1>2, <1>8, <2>1, EndOfIs
    <3> QED
      BY <3>1, <3>2 DEF InsertNode
  <2>3. /\ m \in List /\ m.head = l.head
        /\ \A k \in Node : /\ m.next[k] = IF k = e THEN n ELSE l.next[k]
                           /\ m.prev[k] = IF k = n THEN e ELSE l.prev[k]
    <3>1. /\ l.head \in Pointer /\ l.next \in [Node -> Pointer] /\ l.prev \in [Node -> Pointer]
      BY <1>1 DEF List
    <3>2. m = [head |-> l.head, next |-> [l.next EXCEPT ![e] = n],
               prev |-> [l.prev EXCEPT ![n] = e]]
      BY <1>1, <2>2 DEF List
    <3> HIDE DEF m
    <3>3. e \in Pointer /\ n \in Pointer
      BY <2>1 DEF Pointer
    <3> QED
      BY <2>1, <3>1, <3>2, <3>3 DEF List
  <2> HIDE DEF m
  <2>4. len \in DOMAIN s /\ 1 \in DOMAIN s /\ t[1] = s[1]
    BY <1>1, <1>2, <1>3, <1>8
  <2>5. m.head = t[1]
    BY <1>1, <1>8, <2>3, <2>4
  <2>6. ASSUME NEW i \in DOMAIN t
        PROVE  /\ m.next[t[i]] = IF i = len + 1 THEN NULL ELSE t[i + 1]
               /\ m.prev[t[i]] = IF i = 1 THEN NULL ELSE t[i - 1]
    <3>1. CASE i = len + 1
      <4>1. i # 1 /\ i - 1 = len
        BY <1>3, <2>4, <3>1
      <4> QED
        BY <1>3, <1>6, <2>1, <2>3, <2>4, <3>1, <4>1
    <3>2. CASE i = len
      <4>1. t[i] = e /\ t[i + 1] = n /\ i # len + 1
        BY <1>3, <2>1, <2>4, <3>2
      <4>2. l.prev[e] = IF i = 1 THEN NULL ELSE t[i - 1]
        BY <1>1, <1>3, <2>1, <2>4, <3>2
      <4> QED
        BY <2>1, <2>3, <4>1, <4>2
    <3>3. CASE i < len
      <4>1. i \in DOMAIN s /\ i + 1 \in DOMAIN s /\ i # len /\ i # len + 1 /\ t[i] = s[i] /\ t[i + 1] = s[i + 1]
        BY <1>3, <3>3
      <4>2. s[i] # e /\ s[i] # n /\ s[i] \in Node
        BY <1>1, <2>1, <2>4, <4>1
      <4>3. i # 1 => t[i - 1] = s[i - 1]
        BY <1>3, <4>1
      <4> QED
        BY <1>1, <1>2, <2>3, <4>1, <4>2, <4>3
    <3> QED
      BY <1>3, <3>1, <3>2, <3>3
  <2>7. ASSUME NEW k \in Node, \A i \in DOMAIN t : t[i] # k
        PROVE  m.next[k] = NULL /\ m.prev[k] = NULL
    <3>1. \A i \in DOMAIN s : s[i] # k
      BY <1>3, <2>7
    <3>2. k # n /\ k # e
      BY <1>3, <2>1, <2>4, <2>7, <3>1
    <3> QED
      BY <1>1, <2>3, <3>1, <3>2
  <2> QED
    BY <1>3, <1>4, <2>3, <2>5, <2>6, <2>7 DEF Represents, m, t
<1> QED
  BY <1>7, <1>8

-----------------------------------------------------------------------------
(* The invariant of a process *)

\* The list is what has been found, each plugin once, and plugins is set to it when
\* the scan is over; nothing has been found before a scan, nor after one that left
\* plugins null.
ListInv ==
  /\ Represents(list, found)
  /\ phase = "scan" => \A i \in DOMAIN found : found[i] \notin unseen
  /\ phase = "idle" => found = << >>
  /\ phase \in {"idle", "scan"} => plugins = NULL
  /\ phase \in {"load", "OK"} => plugins = list.head
  /\ Len(found) <= count_

Before(i) == {found[k] : k \in 1 .. i - 1}

\* The loading loop is at some place of the list, and unless one has failed it has
\* initialised every plugin before that.
LoadInv ==
  /\ phase \in {"idle", "scan"} => inited = {}
  /\ phase # "load" => current = NULL
  /\ phase = "load" =>
       \E i \in 1 .. Len(found) + 1 :
         /\ current = IF i = Len(found) + 1 THEN NULL ELSE found[i]
         /\ inited \subseteq Before(i)
         /\ failed \/ inited = Before(i)
  /\ phase = "OK" => inited = Before(Len(found) + 1)
  /\ \A n \in inited : handle[n] \in {"open", "bare"}

Early == {"boot", "config", "sockets"}

\* What the process must have got right to be where it is.
StageInv ==
  /\ stage # "config" => phase \in {"idle", "OK"}
  /\ stage = "boot" => \A r \in Root : roots[r] = 0
  /\ stage \notin {"boot", "config"} => \A r \in Root : roots[r] # 0
  /\ stage \in Early => gL = "null"
  /\ stage \notin Early /\ status # "quit" => gL = "open"

\* The sockets tried so far are open if their family is known.
SocketInv ==
  /\ stage \in {"boot", "config"} => tried = 0
  /\ tried \in 0 .. Len(sockets)
  /\ stage \notin Early => tried = Len(sockets)
  /\ {opened[i] : i \in DOMAIN opened} = {k \in 1 .. tried : sockets[k] \in Inet}
  /\ \A i, j \in DOMAIN opened : i < j => opened[i] < opened[j]

\* Every block has an owner or had one, and the roots in force are owned.
HeapInv ==
  /\ \A b \in heap : /\ b.what = "conf" => b.n \in DOMAIN sockets
                     /\ b.what \in Root => b.n <= roots[b.what]
  /\ status # "quit" => \A r \in Root : roots[r] # 0 => Block(r, roots[r]) \in heap

\* Only ctrl_c_h shuts plugins down.
ShutInv == status # "quit" => shut = [n \in Node |-> 0]

PartsInv == ListInv /\ LoadInv /\ StageInv /\ SocketInv /\ HeapInv /\ ShutInv

ProcessInv == ProcessTypeOK /\ PartsInv

-----------------------------------------------------------------------------
(* plugin_system_init *)

\* The list as the types say.
LEMMA ListFacts ==
  ASSUME ListInv
  PROVE  /\ list \in List /\ found \in Seq(Node)
         /\ \A i \in DOMAIN found : found[i] \in Node /\ found[i] # NULL
         /\ \A i, j \in DOMAIN found : found[i] = found[j] => i = j
         /\ list.head = IF found = << >> THEN NULL ELSE found[1]
         /\ \A i \in DOMAIN found :
              list.next[found[i]] = IF i = Len(found) THEN NULL ELSE found[i + 1]
         /\ (found = << >>) = (list.head = NULL)
<1>1. /\ list \in List /\ found \in Seq(Node)
      /\ \A i, j \in DOMAIN found : found[i] = found[j] => i = j
      /\ list.head = IF found = << >> THEN NULL ELSE found[1]
      /\ \A i \in DOMAIN found :
           list.next[found[i]] = IF i = Len(found) THEN NULL ELSE found[i + 1]
  BY DEF ListInv, Represents
<1>2. \A i \in DOMAIN found : found[i] \in Node /\ found[i] # NULL
  BY <1>1, NullAssumption
<1>3. found # << >> => 1 \in DOMAIN found
  BY <1>1
<1> QED
  BY <1>1, <1>2, <1>3

\* A step that leaves the plugins alone.
LEMMA QuietPlugins ==
  ASSUME ListInv, LoadInv,
         UNCHANGED <<phase, unseen, list, found, count_, current, failed, handle, inited, plugins>>
  PROVE  ListInv' /\ LoadInv'
BY DEF ListInv, LoadInv, Before

\* A scan begins with an empty list: plugins would not be null otherwise.
LEMMA BeginScanKeeps ==
  ASSUME ProcessInv, plugin_init
  PROVE  ListInv' /\ LoadInv'
<1>1. PICK named \in BOOLEAN : BeginScan(named)
  BY DEF plugin_init
<1>2. /\ phase \in {"idle", "OK"} /\ plugins = NULL /\ plugins' = plugins
      /\ ListInv /\ LoadInv
  BY DEF plugin_init, Scripting, processVars, ProcessInv, PartsInv
<1>3. found = << >>
  BY <1>2, ListFacts DEF ListInv
<1>4. inited = {} /\ current = NULL
  BY <1>2, <1>3 DEF LoadInv, Before
<1>5. /\ phase' \in {"scan", "INVALID"}
      /\ UNCHANGED <<list, found, count_, current, failed, handle, inited>>
  BY <1>1 DEF BeginScan
<1>6. ListInv'
  BY <1>2, <1>3, <1>5 DEF ListInv
<1>7. LoadInv'
  BY <1>4, <1>5 DEF LoadInv
<1> QED
  BY <1>6, <1>7

\* nftw comes to one file after another.
LEMMA FilterKeeps ==
  ASSUME ListInv, LoadInv, count_ \in Nat, NEW f \in unseen, Ignore(f) \/ Filter(f),
         plugins' = plugins
  PROVE  ListInv' /\ LoadInv'
<1>1. /\ phase = "scan" /\ phase' = phase /\ unseen' = unseen \ {f}
      /\ UNCHANGED <<current, failed, handle, inited>>
  BY DEF Ignore, Filter
<1>2. LoadInv'
  BY <1>1 DEF LoadInv
<1>3. CASE UNCHANGED <<list, found>>
  <2>1. count_' \in {count_, count_ + 1}
    BY DEF Ignore, Filter
  <2>2. found \in Seq(Node)
    BY ListFacts
  <2> QED
    BY <1>1, <1>3, <2>1, <2>2, <1>2 DEF ListInv
<1>4. CASE f \in Node /\ list' = InsertNode(list, f) /\ found' = Append(found, f) /\ count_' = count_ + 1
  <2>1. found \in Seq(Node) /\ \A i \in DOMAIN found : found[i] # f
    BY <1>1, ListFacts DEF ListInv
  <2>2. Represents(list', found')
    BY <1>4, <2>1, Inserts DEF ListInv
  <2>3. /\ Len(found') = Len(found) + 1 /\ DOMAIN found' = 1 .. Len(found) + 1
        /\ found'[Len(found) + 1] = f /\ \A i \in 1 .. Len(found) : found'[i] = found[i]
        /\ DOMAIN found = 1 .. Len(found) /\ Len(found) \in Nat
    <3>1. /\ Append(found, f) \in Seq(Node) /\ Len(Append(found, f)) = Len(found) + 1
          /\ Append(found, f)[Len(found) + 1] = f
          /\ \A i \in 1 .. Len(found) : Append(found, f)[i] = found[i]
      BY <1>4, <2>1, AppendProperties
    <3> QED
      BY <1>4, <2>1, <3>1
  <2>4. \A i \in DOMAIN found' : found'[i] \notin unseen'
    BY <1>1, <2>1, <2>3 DEF ListInv
  <2>5. Len(found') <= count_'
    BY <1>4, <2>3 DEF ListInv
  <2>6. ListInv'
    BY <1>1, <2>2, <2>4, <2>5 DEF ListInv
  <2> QED
    BY <1>2, <2>6
<1> QED
  BY <1>3, <1>4 DEF Ignore, Filter

\* The scan ends, and loading begins at the head: if nothing has been counted, nothing
\* has been found.
LEMMA ScanEndKeeps ==
  ASSUME ListInv, LoadInv, count_ \in Nat, ScanDone \/ ScanFails,
         plugins' = IF phase' \in {"load", "NOT_FOUND"} THEN list.head ELSE plugins
  PROVE  ListInv' /\ LoadInv'
<1>1. /\ phase = "scan" /\ phase' \in {"load", "NOT_FOUND", "ERROR"}
      /\ UNCHANGED <<list, found, count_, handle, inited>>
      /\ inited = {} /\ current = NULL
  BY DEF ScanDone, ScanFails, LoadInv
<1>2. ListInv'
  BY <1>1 DEF ListInv
<1>3. CASE ScanFails
  BY <1>1, <1>2, <1>3 DEF ScanFails, LoadInv
<1>4. CASE ScanDone
  <2>1. current' = list.head /\ phase' = IF count_ = 0 THEN "NOT_FOUND" ELSE "load"
    BY <1>4 DEF ScanDone
  <2>2. /\ found \in Seq(Node) /\ Len(found) <= count_
        /\ list.head = IF found = << >> THEN NULL ELSE found[1]
    BY ListFacts DEF ListInv
  <2>3. Before(1) = {}
    BY DEF Before
  <2>4. CASE count_ = 0
    <3>1. list.head = NULL
      BY <2>2, <2>4
    <3> QED
      BY <1>1, <1>2, <2>1, <2>4, <3>1 DEF LoadInv
  <2>5. CASE count_ # 0
    <3>1. 1 \in 1 .. Len(found) + 1 /\ (1 = Len(found) + 1) = (found = << >>)
      BY <2>2
    <3>2. /\ current' = IF 1 = Len(found) + 1 THEN NULL ELSE found[1]
          /\ inited' \subseteq Before(1)'
          /\ inited' = Before(1)'
      BY <1>1, <2>1, <2>2, <2>3, <3>1 DEF Before
    <3> QED
      BY <1>1, <1>2, <2>1, <2>5, <3>1, <3>2 DEF LoadInv
  <2> QED
    BY <2>4, <2>5
<1> QED
  BY <1>2, <1>3, <1>4

\* The loading loop comes to one plugin after another, and to none twice.
LEMMA LoadKeeps ==
  ASSUME ListInv, LoadInv, PluginTypeOK, LoadPlugin \/ LoadFails, plugins' = plugins
  PROVE  ListInv' /\ LoadInv'
<1>1. /\ phase = "load" /\ current # NULL /\ current' = list.next[current]
      /\ UNCHANGED <<phase, unseen, list, found, count_>>
      /\ \E h : /\ handle' = [handle EXCEPT ![current] = h]
                /\ LoadPlugin => h \in {"open", "bare"}
      /\ \/ inited' = inited \cup {current} /\ failed' = failed /\ LoadPlugin
         \/ inited' = inited /\ failed' = TRUE
  BY DEF LoadPlugin, LoadFails, LoadNext
<1>2. PICK i \in 1 .. Len(found) + 1 :
        /\ current = IF i = Len(found) + 1 THEN NULL ELSE found[i]
        /\ inited \subseteq Before(i)
        /\ failed \/ inited = Before(i)
  BY <1>1 DEF LoadInv
<1>3. ListInv'
  BY <1>1 DEF ListInv
<1>4. PICK len \in Nat : len = Len(found) /\ DOMAIN found = 1 .. len
  BY ListFacts
<1>5. i \in 1 .. len /\ i + 1 \in 1 .. len + 1 /\ current = found[i]
  BY <1>1, <1>2, <1>4
<1>6. current' = IF i + 1 = len + 1 THEN NULL ELSE found[i + 1]
  BY <1>1, <1>4, <1>5, ListFacts
<1>7. Before(i + 1) = Before(i) \cup {current}
  <2>1. ASSUME NEW k \in 1 .. i PROVE k = i \/ k \in 1 .. i - 1
    BY <1>5
  <2>2. i + 1 - 1 = i
    BY <1>5
  <2> QED
    BY <1>5, <2>1, <2>2 DEF Before
<1>8. current \notin Before(i)
  <2>1. ASSUME NEW k \in 1 .. i - 1 PROVE found[k] # found[i]
    <3>1. k \in 1 .. len /\ k # i
      BY <1>5, <2>1
    <3> QED
      BY <1>4, <1>5, <3>1, ListFacts
  <2> QED
    BY <1>5, <2>1 DEF Before
<1>9. Before(i + 1)' = Before(i + 1)
  BY <1>1 DEF Before
<1>10. \A n \in inited' : handle'[n] \in {"open", "bare"}
  <2>1. handle \in [Node -> HandleState] /\ inited \subseteq Node
    BY DEF PluginTypeOK
  <2>2. \A n \in inited : n # current /\ handle[n] \in {"open", "bare"}
    BY <1>2, <1>8 DEF LoadInv
  <2>3. current \in Node
    BY <1>4, <1>5, ListFacts
  <2> QED
    BY <1>1, <2>1, <2>2, <2>3
<1>11. /\ inited' \subseteq Before(i + 1)
       /\ failed' \/ inited' = Before(i + 1)
  BY <1>1, <1>2, <1>7
<1>12. LoadInv'
  <2>1. /\ i + 1 \in 1 .. Len(found') + 1
        /\ current' = IF i + 1 = Len(found') + 1 THEN NULL ELSE found'[i + 1]
        /\ inited' \subseteq Before(i + 1)'
        /\ failed' \/ inited' = Before(i + 1)'
    BY <1>1, <1>4, <1>5, <1>6, <1>9, <1>11
  <2> QED
    BY <1>1, <1>10, <2>1 DEF LoadInv
<1> QED
  BY <1>3, <1>12

\* At the end of the list it has been everywhere.
LEMMA LoadDoneKeeps ==
  ASSUME ListInv, LoadInv, LoadDone, plugins' = plugins
  PROVE  ListInv' /\ LoadInv'
<1>1. /\ phase = "load" /\ current = NULL
      /\ phase' = IF failed THEN "ERROR" ELSE "OK"
      /\ UNCHANGED <<unseen, list, found, count_, current, handle, inited>>
  BY DEF LoadDone
<1>2. PICK i \in 1 .. Len(found) + 1 :
        /\ current = IF i = Len(found) + 1 THEN NULL ELSE found[i]
        /\ failed \/ inited = Before(i)
  BY <1>1 DEF LoadInv
<1>3. i = Len(found) + 1
  <2>1. i \in DOMAIN found \/ i = Len(found) + 1
    BY <1>2, ListFacts
  <2> QED
    BY <1>1, <1>2, <2>1, ListFacts
<1>4. phase' = "OK" => inited' = Before(Len(found) + 1)'
  BY <1>1, <1>2, <1>3 DEF Before
<1>5. LoadInv'
  BY <1>1, <1>4 DEF LoadInv
<1>6. ListInv'
  BY <1>1 DEF ListInv
<1> QED
  BY <1>5, <1>6

\* Every step of plugin_system_init, with what create_plugins makes of it.
LEMMA InitPluginsKeeps ==
  ASSUME ProcessInv, InitPlugins
  PROVE  ListInv' /\ LoadInv'
<1>1. ListInv /\ LoadInv /\ PluginTypeOK
  BY DEF ProcessInv, PartsInv, ProcessTypeOK
<1>2. count_ \in Nat
  BY <1>1 DEF PluginTypeOK
<1>3. /\ PluginStep
      /\ plugins' = IF phase = "scan" /\ phase' \in {"load", "NOT_FOUND"}
                    THEN list.head ELSE plugins
  BY DEF InitPlugins
<1>4. ASSUME NEW f \in unseen, Ignore(f) \/ Filter(f) PROVE ListInv' /\ LoadInv'
  <2>1. phase' = phase /\ phase = "scan"
    BY <1>4 DEF Ignore, Filter
  <2> QED
    BY <1>1, <1>2, <1>3, <1>4, <2>1, FilterKeeps
<1>5. CASE ScanDone \/ ScanFails
  <2>1. phase = "scan"
    BY <1>5 DEF ScanDone, ScanFails
  <2> QED
    BY <1>1, <1>2, <1>3, <1>5, <2>1, ScanEndKeeps
<1>6. CASE LoadPlugin \/ LoadFails
  <2>1. phase = "load"
    BY <1>6 DEF LoadPlugin, LoadFails, LoadNext
  <2> QED
    BY <1>1, <1>3, <1>6, <2>1, LoadKeeps
<1>7. CASE LoadDone
  <2>1. phase = "load"
    BY <1>7 DEF LoadDone
  <2> QED
    BY <1>1, <1>3, <1>7, <2>1, LoadDoneKeeps
<1> QED
  BY <1>3, <1>4, <1>5, <1>6, <1>7 DEF PluginStep

-----------------------------------------------------------------------------
(* The rest of the process *)

\* The plugins' variables keep their types.
LEMMA PluginTypes ==
  ASSUME ProcessInv, InitPlugins \/ plugin_init, ListInv'
  PROVE  PluginTypeOK'
<1>1. PluginTypeOK
  BY DEF ProcessInv, ProcessTypeOK
<1>2. list' \in List /\ found' \in Seq(Node)
  BY DEF ListInv, Represents
<1>3. CASE plugin_init
  <2>1. PICK named \in BOOLEAN : BeginScan(named)
    BY <1>3 DEF plugin_init
  <2> QED
    BY <1>1, <2>1 DEF BeginScan, PluginTypeOK, Returned
<1>4. CASE InitPlugins
  <2>1. CASE \E f \in unseen : Ignore(f) \/ Filter(f)
    BY <1>1, <1>2, <2>1 DEF Ignore, Filter, PluginTypeOK
  <2>2. CASE ScanFails \/ ScanDone
    <3>1. list.head \in Pointer
      BY <1>1 DEF PluginTypeOK, List
    <3> QED
      BY <1>1, <1>2, <2>2, <3>1 DEF ScanFails, ScanDone, PluginTypeOK, Returned
  <2>3. CASE LoadPlugin \/ LoadFails
    <3>1. current \in Node
      BY <1>1, <2>3 DEF LoadPlugin, LoadFails, LoadNext, PluginTypeOK, Pointer
    <3>2. list.next[current] \in Pointer
      BY <1>1, <3>1 DEF PluginTypeOK, List
    <3>3. PICK h \in HandleState : LoadNext(h)
      BY <2>3 DEF LoadPlugin, LoadFails, HandleState
    <3>4. inited' \subseteq Node /\ failed' \in BOOLEAN
      BY <1>1, <2>3, <3>1 DEF LoadPlugin, LoadFails, PluginTypeOK
    <3> QED
      BY <1>1, <1>2, <3>2, <3>3, <3>4 DEF LoadNext, PluginTypeOK
  <2>4. CASE LoadDone
    BY <1>1, <1>2, <2>4 DEF LoadDone, PluginTypeOK, Returned
  <2> QED
    BY <1>4, <2>1, <2>2, <2>3, <2>4 DEF InitPlugins, PluginStep
<1> QED
  BY <1>3, <1>4

\* So the whole invariant survives plugin_system_init.
LEMMA PluginsKeep ==
  ASSUME ProcessInv, InitPlugins \/ plugin_init
  PROVE  ProcessInv'
<1>1. ListInv' /\ LoadInv'
  BY BeginScanKeeps, InitPluginsKeeps
<1>2. /\ stage = "config" /\ status = "running"
      /\ UNCHANGED <<stage, status, sockets, roots, opened, tried, gL, sigint, atExit,
                     quits, heap, heard>>
  BY DEF InitPlugins, plugin_init, Scripting, Running, processVars
<1>3. shut' = shut
  <2>1. CASE plugin_init
    BY <2>1 DEF plugin_init, BeginScan
  <2>2. CASE InitPlugins
    BY <2>2 DEF InitPlugins, PluginStep, Ignore, Filter, ScanFails, ScanDone,
                LoadPlugin, LoadFails, LoadNext, LoadDone
  <2> QED
    BY <2>1, <2>2
<1>4. ProcessTypeOK'
  <2>1. PluginTypeOK'
    BY <1>1, PluginTypes
  <2>2. plugins' \in Pointer
    BY DEF ProcessInv, ProcessTypeOK, PluginTypeOK, List, InitPlugins, plugin_init, processVars
  <2> QED
    BY <1>2, <2>1, <2>2 DEF ProcessInv, ProcessTypeOK
<1>5. StageInv' /\ SocketInv' /\ HeapInv' /\ ShutInv'
  BY <1>2, <1>3 DEF ProcessInv, PartsInv, StageInv, SocketInv, HeapInv, ShutInv
<1> QED
  BY <1>1, <1>4, <1>5 DEF ProcessInv, PartsInv

\* A process that ends otherwise than in ctrl_c_h leaves everything as it was.
LEMMA EndsKeeps ==
  ASSUME ProcessInv, status = "running", NEW how \in Status \ {"running", "quit"}, Ends(how)
  PROVE  ProcessInv'
<1>1. /\ status' = how /\ status' # "quit"
      /\ UNCHANGED <<pluginVars, stage, sockets, roots, plugins, opened, tried, gL,
                     sigint, atExit, quits, heap, heard>>
  BY DEF Ends
<1>2. ProcessTypeOK'
  BY <1>1 DEF ProcessInv, ProcessTypeOK, PluginTypeOK, pluginVars
<1>3. ListInv' /\ LoadInv'
  BY <1>1, QuietPlugins DEF ProcessInv, PartsInv, pluginVars
<1>4. StageInv' /\ SocketInv' /\ HeapInv' /\ ShutInv'
  BY <1>1 DEF ProcessInv, PartsInv, StageInv, SocketInv, HeapInv, ShutInv, pluginVars
<1> QED
  BY <1>2, <1>3, <1>4 DEF ProcessInv, PartsInv

\* main's beginning, and what the script may call besides plugin_init.
LEMMA ScriptKeeps ==
  ASSUME ProcessInv,
         \/ Boot
         \/ \E d \in Domain : create_socket(d)
         \/ \E r \in Root : set_root(r)
  PROVE  ProcessInv'
<1>1. /\ stage \in {"boot", "config"} /\ stage' = "config"
      /\ status = "running" /\ status' = "running"
      /\ UNCHANGED <<pluginVars, plugins, opened, tried, gL, atExit, quits, heard>>
  BY DEF Boot, create_socket, set_root, Scripting, Running
<1>2. ListInv' /\ LoadInv'
  BY <1>1, QuietPlugins DEF ProcessInv, PartsInv, pluginVars
<1>3. PluginTypeOK' /\ ProcessTypeOK
  BY <1>1 DEF ProcessInv, ProcessTypeOK, PluginTypeOK, pluginVars
<1>4. StageInv' /\ ShutInv'
  BY <1>1 DEF ProcessInv, PartsInv, StageInv, ShutInv, pluginVars, Early
<1>5. SocketInv /\ HeapInv /\ StageInv
  BY DEF ProcessInv, PartsInv
<1>6. CASE Boot
  <2>1. /\ UNCHANGED <<sockets, roots>> /\ sigint' = "ctrl_c_h"
        /\ heap' = {Block("drv", 0), Block("socket", 0)}
        /\ stage = "boot"
    BY <1>6 DEF Boot, Running
  <2>2. ProcessTypeOK'
    BY <1>1, <1>3, <2>1 DEF ProcessTypeOK, Stage, Block
  <2>3. SocketInv'
    BY <1>1, <1>5, <2>1 DEF SocketInv, Early
  <2>4. HeapInv'
    BY <1>1, <1>5, <2>1 DEF HeapInv, StageInv, Block, Root
  <2> QED
    BY <1>2, <1>4, <2>2, <2>3, <2>4 DEF ProcessInv, PartsInv
<1>7. ASSUME NEW d \in Domain, create_socket(d) PROVE ProcessInv'
  <2>1. /\ UNCHANGED <<roots, sigint>> /\ Len(sockets) < MaxSockets
        /\ sockets' = Append(sockets, d)
        /\ heap' = heap \cup {Block("conf", Len(sockets) + 1)}
        /\ stage = "config"
    BY <1>7 DEF create_socket, Scripting, Running
  <2>2. PICK len \in Nat : len = Len(sockets)
    BY <1>3 DEF ProcessTypeOK
  <2>3. /\ sockets' \in Seq(Domain) /\ Len(sockets') = len + 1
        /\ DOMAIN sockets' = 1 .. len + 1 /\ DOMAIN sockets = 1 .. len
    <3>1. sockets \in Seq(Domain)
      BY <1>3 DEF ProcessTypeOK
    <3>2. Append(sockets, d) \in Seq(Domain) /\ Len(Append(sockets, d)) = Len(sockets) + 1
      BY <3>1, AppendProperties
    <3> QED
      BY <2>1, <2>2, <3>1, <3>2
  <2>4. ProcessTypeOK'
    <3>1. Len(sockets') <= MaxSockets
      BY <2>1, <2>2, <2>3, ProcessAssumption
    <3>2. heap' \subseteq [what : Root \cup {"drv", "socket", "conf", "buf"}, n : Nat]
      BY <1>3, <2>1, <2>2 DEF ProcessTypeOK, Block
    <3> QED
      BY <1>1, <1>3, <2>1, <2>3, <3>1, <3>2 DEF ProcessTypeOK, Stage
  <2>5. SocketInv'
    <3>1. tried = 0 /\ tried' = 0 /\ tried' \in 0 .. Len(sockets')
      BY <1>1, <1>5, <2>1, <2>3 DEF SocketInv
    <3>2. {k \in 1 .. tried : sockets[k] \in Inet} = {k \in 1 .. tried' : sockets'[k] \in Inet}
      BY <3>1
    <3>3. opened' = opened
      BY <1>1
    <3> QED
      BY <1>1, <1>5, <3>1, <3>2, <3>3 DEF SocketInv, Early
  <2>6. HeapInv'
    BY <1>1, <1>5, <2>1, <2>2, <2>3 DEF HeapInv, Block, Root
  <2> QED
    BY <1>2, <1>4, <2>4, <2>5, <2>6 DEF ProcessInv, PartsInv
<1>8. ASSUME NEW r \in Root, set_root(r) PROVE ProcessInv'
  <2>1. /\ UNCHANGED <<sockets, sigint>>
        /\ roots' = [roots EXCEPT ![r] = @ + 1]
        /\ heap' = heap \cup {Block(r, roots[r] + 1)}
        /\ stage = "config"
    BY <1>8 DEF set_root, Scripting, Running
  <2>2. roots \in [Root -> Nat]
    BY <1>3 DEF ProcessTypeOK
  <2>3. ProcessTypeOK'
    BY <1>1, <1>3, <2>1, <2>2 DEF ProcessTypeOK, Stage, Block
  <2>4. SocketInv'
    BY <1>1, <1>5, <2>1 DEF SocketInv, Early
  <2>5. HeapInv'
    <3>1. \A q \in Root : roots'[q] = IF q = r THEN roots[q] + 1 ELSE roots[q]
      BY <2>1, <2>2
    <3>2. \A b \in heap' : b \in heap \/ b = Block(r, roots[r] + 1)
      BY <2>1
    <3>3. \A b \in heap' : /\ b.what = "conf" => b.n \in DOMAIN sockets'
                           /\ b.what \in Root => b.n <= roots'[b.what]
      <4>1. ASSUME NEW b \in heap
            PROVE  /\ b.what = "conf" => b.n \in DOMAIN sockets'
                   /\ b.what \in Root => b.n <= roots'[b.what]
        <5>1. b.n \in Nat
          BY <1>3 DEF ProcessTypeOK
        <5> QED
          BY <1>5, <2>1, <2>2, <3>1, <5>1 DEF HeapInv
      <4>2. ASSUME NEW b, b = Block(r, roots[r] + 1)
            PROVE  /\ b.what = "conf" => b.n \in DOMAIN sockets'
                   /\ b.what \in Root => b.n <= roots'[b.what]
        BY <2>2, <3>1, <4>2 DEF Block, Root
      <4> QED
        BY <3>2, <4>1, <4>2
    <3>4. \A q \in Root : roots'[q] # 0 => Block(q, roots'[q]) \in heap'
      BY <1>1, <1>5, <2>1, <3>1 DEF HeapInv
    <3> QED
      BY <3>3, <3>4 DEF HeapInv
  <2> QED
    BY <1>2, <1>4, <2>3, <2>4, <2>5 DEF ProcessInv, PartsInv
<1> QED
  BY <1>6, <1>7, <1>8

\* createSocket, socket by socket: one more is open if its family is known.
LEMMA SocketKeeps ==
  ASSUME ProcessInv, CreateSocket
  PROVE  ProcessInv'
<1>1. /\ stage = "sockets" /\ tried < Len(sockets) /\ tried' = tried + 1
      /\ opened' = IF sockets[tried + 1] \in Inet THEN Append(opened, tried + 1) ELSE opened
      /\ UNCHANGED <<pluginVars, stage, status, sockets, roots, plugins, gL, sigint,
                     atExit, quits, heap, heard>>
  BY DEF CreateSocket, Running
<1>2. ListInv' /\ LoadInv'
  BY <1>1, QuietPlugins DEF ProcessInv, PartsInv, pluginVars
<1>3. StageInv' /\ HeapInv' /\ ShutInv'
  BY <1>1 DEF ProcessInv, PartsInv, StageInv, HeapInv, ShutInv, pluginVars
<1>4. opened \in Seq(Nat) /\ tried \in Nat /\ ProcessTypeOK /\ SocketInv
  BY DEF ProcessInv, PartsInv, ProcessTypeOK
<1>5. ProcessTypeOK'
  <2>1. opened' \in Seq(Nat) /\ tried' \in Nat
    <3>1. tried + 1 \in Nat
      BY <1>4
    <3>2. Append(opened, tried + 1) \in Seq(Nat)
      BY <1>4, <3>1, AppendProperties
    <3> QED
      BY <1>1, <1>4, <3>1, <3>2
  <2> QED
    BY <1>1, <1>4, <2>1 DEF ProcessTypeOK, PluginTypeOK, pluginVars
<1>6. SocketInv'
  <2>1. PICK k \in Nat : k = tried + 1
    BY <1>4
  <2>2. /\ {opened[i] : i \in DOMAIN opened} = {j \in 1 .. tried : sockets[j] \in Inet}
        /\ \A i, j \in DOMAIN opened : i < j => opened[i] < opened[j]
        /\ Len(sockets) \in Nat
    BY <1>4 DEF SocketInv, ProcessTypeOK
  <2>3. tried' \in 0 .. Len(sockets')
    BY <1>1, <1>4, <2>2
  <2>4. {j \in 1 .. k : sockets[j] \in Inet}
          = {j \in 1 .. tried : sockets[j] \in Inet}
            \cup (IF sockets[k] \in Inet THEN {k} ELSE {})
    <3>1. 1 .. k = (1 .. tried) \cup {k}
      BY <1>4, <2>1
    <3> QED
      BY <3>1
  <2>5. CASE sockets[k] \notin Inet
    <3>1. opened' = opened /\ tried' = k
      BY <1>1, <2>1, <2>5
    <3> QED
      BY <1>1, <2>2, <2>3, <2>4, <2>5, <3>1 DEF SocketInv, Early
  <2>6. CASE sockets[k] \in Inet
    <3>1. PICK n \in Nat : n = Len(opened)
      BY <1>4
    <3>2. /\ DOMAIN opened = 1 .. n /\ DOMAIN opened' = 1 .. n + 1
          /\ opened'[n + 1] = k /\ \A i \in 1 .. n : opened'[i] = opened[i]
      <4>1. opened' = Append(opened, k)
        BY <1>1, <2>1, <2>6
      <4>2. /\ Append(opened, k) \in Seq(Nat) /\ Len(Append(opened, k)) = n + 1
            /\ Append(opened, k)[n + 1] = k
            /\ \A i \in 1 .. n : Append(opened, k)[i] = opened[i]
        BY <1>4, <3>1, AppendProperties
      <4> QED
        BY <1>4, <3>1, <4>1, <4>2
    <3>3. \A i \in 1 .. n : opened[i] \in 1 .. tried
      BY <2>2, <3>2
    <3>4. \A i, j \in DOMAIN opened' : i < j => opened'[i] < opened'[j]
      <4> SUFFICES ASSUME NEW i \in 1 .. n + 1, NEW j \in 1 .. n + 1, i < j
                   PROVE  opened'[i] < opened'[j]
        BY <3>2
      <4>1. i \in 1 .. n /\ opened'[i] = opened[i] /\ opened[i] \in 1 .. tried
        BY <3>2, <3>3
      <4>2. CASE j = n + 1
        BY <1>4, <2>1, <3>2, <4>1, <4>2
      <4>3. CASE j # n + 1
        <5>1. j \in 1 .. n /\ opened'[j] = opened[j]
          BY <3>2, <4>3
        <5> QED
          BY <2>2, <3>2, <4>1, <5>1
      <4> QED
        BY <4>2, <4>3
    <3>5. {opened'[i] : i \in DOMAIN opened'} = {opened[i] : i \in DOMAIN opened} \cup {k}
      <4>1. 1 .. n + 1 = (1 .. n) \cup {n + 1}
        BY <3>1
      <4>2. \A x : x \in {opened'[i] : i \in DOMAIN opened'}
                     <=> x \in {opened[i] : i \in DOMAIN opened} \cup {k}
        BY <3>2, <4>1
      <4> QED
        BY <4>2
    <3>6. tried' = k /\ {j \in 1 .. tried' : sockets'[j] \in Inet}
                          = {j \in 1 .. k : sockets[j] \in Inet}
      BY <1>1, <2>1
    <3> QED
      BY <1>1, <2>2, <2>3, <2>4, <2>6, <3>4, <3>5, <3>6 DEF SocketInv, Early
  <2> QED
    BY <2>5, <2>6
<1> QED
  BY <1>2, <1>3, <1>5, <1>6 DEF ProcessInv, PartsInv

\* The steps that take the process on, and open the Lua state, restore SIGINT or
\* register thread_quit.
LEMMA MovesKeep ==
  ASSUME ProcessInv,
         \/ ScriptDone /\ ~ Ends("1")
         \/ lua_init \/ LuaDone \/ Fork \/ RestoreSigint
         \/ Register /\ ~ Ends("SIGABRT")
         \/ Served
  PROVE  ProcessInv'
<1>1. /\ status = "running" /\ status' = "running"
      /\ UNCHANGED <<pluginVars, sockets, roots, plugins, opened, tried, quits>>
      /\ stage' # "config" /\ stage # "boot"
      /\ heap' \subseteq heap \cup {Block("buf", 0)} /\ heap \subseteq heap'
  BY DEF ScriptDone, Scripting, Running, lua_init, LuaDone, Fork, RestoreSigint, Register, Served
<1>2. ListInv' /\ LoadInv'
  BY <1>1, QuietPlugins DEF ProcessInv, PartsInv, pluginVars
<1>3. ProcessTypeOK /\ StageInv /\ SocketInv /\ HeapInv
  BY DEF ProcessInv, PartsInv
<1>4. PluginTypeOK'
  BY <1>1, <1>3 DEF ProcessTypeOK, PluginTypeOK, pluginVars
<1>5. HeapInv' /\ ShutInv'
  <2>1. \A b \in heap' : b \in heap \/ b.what = "buf"
    BY <1>1 DEF Block
  <2>2. HeapInv'
    BY <1>1, <1>3, <2>1 DEF HeapInv, Root
  <2> QED
    BY <1>1, <2>2 DEF ProcessInv, PartsInv, ShutInv, pluginVars
<1>6. /\ stage' \in Stage
      /\ gL' \in {"null", "open", "closed"} /\ sigint' \in {"default", "ctrl_c_h"}
      /\ atExit' \in BOOLEAN /\ heard' \subseteq Event \X Node
      /\ heap' \subseteq [what : Root \cup {"drv", "socket", "conf", "buf"}, n : Nat]
  <2>1. /\ gL \in {"null", "open", "closed"} /\ sigint \in {"default", "ctrl_c_h"}
        /\ atExit \in BOOLEAN /\ heard \subseteq Event \X Node
        /\ heap \subseteq [what : Root \cup {"drv", "socket", "conf", "buf"}, n : Nat]
    BY <1>3 DEF ProcessTypeOK
  <2>2. Block("buf", 0) \in [what : Root \cup {"drv", "socket", "conf", "buf"}, n : Nat]
    BY DEF Block
  <2> QED
    BY <1>1, <2>1, <2>2
       DEF ScriptDone, Scripting, lua_init, LuaDone, Fork, RestoreSigint, Register, Served,
           Delivered, Stage
<1>7. ProcessTypeOK'
  BY <1>1, <1>3, <1>4, <1>6 DEF ProcessTypeOK
<1>8. phase' \in {"idle", "OK"}
  <2>1. CASE stage = "config"
    BY <1>1, <2>1 DEF ScriptDone, Scripting, Running, lua_init, LuaDone, Fork,
                      RestoreSigint, Register, Served, pluginVars
  <2>2. CASE stage # "config"
    BY <1>1, <1>3, <2>2 DEF StageInv, pluginVars
  <2> QED
    BY <2>1, <2>2
<1>9. \A r \in Root : roots'[r] # 0
  <2>1. CASE stage = "config"
    BY <1>1, <2>1 DEF ScriptDone, Scripting, Running, lua_init, LuaDone, Fork,
                      RestoreSigint, Register, Served
  <2>2. CASE stage # "config"
    BY <1>1, <1>3, <2>2 DEF StageInv
  <2> QED
    BY <2>1, <2>2
<1>10. /\ stage' \in Early => gL' = "null" /\ stage' = "sockets"
       /\ stage' \notin Early => gL' = "open" /\ tried = Len(sockets)
  BY <1>1, <1>3 DEF ScriptDone, Scripting, Running, lua_init, LuaDone, Fork, RestoreSigint,
                    Register, Served, Early, StageInv, SocketInv
<1>11. StageInv'
  BY <1>1, <1>8, <1>9, <1>10 DEF StageInv, Early
<1>12. SocketInv'
  BY <1>1, <1>3, <1>10 DEF SocketInv, Early
<1> QED
  BY <1>2, <1>5, <1>7, <1>11, <1>12 DEF ProcessInv, PartsInv

\* ctrl_c_h itself.
LEMMA QuitsKeeps ==
  ASSUME ProcessInv, status = "running", NEW rounds \in Nat, Quits(rounds)
  PROVE  ProcessInv'
<1>1. /\ status' \in {"quit", "SIGSEGV"}
      /\ UNCHANGED <<phase, unseen, list, found, count_, current, failed, handle, inited>>
      /\ UNCHANGED <<stage, sockets, roots, plugins, opened, tried, sigint, atExit, heard>>
      /\ heap' \subseteq heap /\ quits' = quits + rounds
      /\ status' = "SIGSEGV" => heap' = heap /\ gL' = gL /\ shut' = shut
      /\ status' = "quit" => gL = "open" /\ gL' = "closed"
  BY DEF Quits, UnloadAll, pluginVars
<1>2. ListInv' /\ LoadInv'
  BY <1>1, QuietPlugins DEF ProcessInv, PartsInv
<1>3. shut' \in [Node -> Nat]
  <2>1. shut \in [Node -> Nat]
    BY DEF ProcessInv, ProcessTypeOK, PluginTypeOK
  <2>2. shut' = shut \/ shut' = [n \in Node |-> IF n \in Unloadable /\ handle[n] = "open"
                                               THEN shut[n] + 1 ELSE shut[n]]
    BY DEF Quits, UnloadAll, pluginVars
  <2> QED
    BY <2>1, <2>2
<1>4. ProcessTypeOK'
  BY <1>1, <1>3 DEF ProcessInv, ProcessTypeOK, PluginTypeOK, Status
<1>5. StageInv' /\ SocketInv'
  BY <1>1 DEF ProcessInv, PartsInv, StageInv, SocketInv
<1>6. HeapInv' /\ ShutInv'
  BY <1>1 DEF ProcessInv, PartsInv, HeapInv, ShutInv
<1> QED
  BY <1>2, <1>4, <1>5, <1>6 DEF ProcessInv, PartsInv

\* main's first line.
LEMMA ProcessInitInv == ProcessInit => ProcessInv
<1> SUFFICES ASSUME ProcessInit PROVE ProcessInv
  OBVIOUS
<1>1. /\ list = EmptyList /\ found = << >> /\ phase = "idle" /\ plugins = NULL
      /\ current = NULL /\ inited = {} /\ count_ = 0
  BY DEF ProcessInit, PluginInit
<1>2. EmptyList \in List
  BY DEF EmptyList, NoPointers, List, Pointer
<1>3. ProcessTypeOK
  <2>1. << >> \in Seq(Domain) /\ << >> \in Seq(Nat) /\ << >> \in Seq(Node)
        /\ Len(<< >>) <= MaxSockets
    BY ProcessAssumption
  <2>2. /\ phase = "idle" /\ unseen = {} /\ failed = FALSE
        /\ handle = [n \in Node |-> "null"] /\ shut = [n \in Node |-> 0]
    BY DEF ProcessInit, PluginInit
  <2>3. handle \in [Node -> HandleState] /\ shut \in [Node -> Nat]
    BY <2>2 DEF HandleState
  <2>4. PluginTypeOK
    BY <1>1, <1>2, <2>1, <2>2, <2>3 DEF PluginTypeOK, Pointer
  <2> QED
    BY <2>1, <2>4 DEF ProcessInit, ProcessTypeOK, Stage, Status, Pointer
<1>4. ListInv
  BY <1>1, <1>2 DEF ListInv, Represents, EmptyList, NoPointers
<1>5. LoadInv
  BY <1>1 DEF LoadInv
<1>6. StageInv /\ ShutInv
  BY DEF ProcessInit, PluginInit, StageInv, ShutInv, Early
<1>7. SocketInv
  BY DEF ProcessInit, SocketInv, Early
<1>8. HeapInv
  BY DEF ProcessInit, HeapInv
<1> QED
  BY <1>3, <1>4, <1>5, <1>6, <1>7, <1>8 DEF ProcessInv, PartsInv

\* Every step.
LEMMA ProcessNextInv == ProcessInv /\ [ProcessNext]_allVars => ProcessInv'
<1> SUFFICES ASSUME ProcessInv, [ProcessNext]_allVars PROVE ProcessInv'
  OBVIOUS
<1>1. CASE Boot \/ (\E d \in Domain : create_socket(d)) \/ (\E r \in Root : set_root(r))
  BY <1>1, ScriptKeeps
<1>2. CASE plugin_init \/ InitPlugins
  BY <1>2, PluginsKeep
<1>3. CASE CreateSocket
  BY <1>3, SocketKeeps
<1>4. ASSUME NEW how \in {"1", "SIGABRT", "SIGSEGV", "SIGINT"}, Ends(how), status = "running"
      PROVE  ProcessInv'
  BY <1>4, EndsKeeps DEF Status
<1>5. CASE ConfigAborts \/ CreateSocketFails \/ LuaFails \/ LoopAborts \/ OutOfMemory
  BY <1>4, <1>5 DEF ConfigAborts, CreateSocketFails, LuaFails, LoopAborts, OutOfMemory,
                    Scripting, Running
<1>6. CASE \/ ScriptDone \/ lua_init \/ LuaDone \/ Fork \/ RestoreSigint \/ Register \/ Served
  <2>1. CASE (ScriptDone /\ Ends("1")) \/ (Register /\ Ends("SIGABRT"))
    BY <1>4, <2>1 DEF ScriptDone, Register, Scripting, Running
  <2> QED
    BY <1>6, <2>1, MovesKeep
<1>7. CASE ChildExits
  BY <1>7, QuitsKeeps DEF ChildExits, Running
<1>8. CASE Interrupt
  <2>1. CASE sigint = "default"
    BY <1>4, <1>8, <2>1 DEF Interrupt
  <2>2. CASE sigint # "default"
    <3>1. PICK k \in Nat : Quits(k)
      BY <1>8, <2>2 DEF Interrupt
    <3> QED
      BY <1>8, <3>1, QuitsKeeps DEF Interrupt
  <2> QED
    BY <2>1, <2>2
<1>9. CASE UNCHANGED allVars
  <2>1. ListInv' /\ LoadInv'
    BY <1>9, QuietPlugins DEF ProcessInv, PartsInv, allVars, processVars, pluginVars
  <2>2. ProcessTypeOK'
    BY <1>9 DEF ProcessInv, ProcessTypeOK, PluginTypeOK, allVars, processVars, pluginVars
  <2>3. StageInv' /\ SocketInv' /\ HeapInv' /\ ShutInv'
    BY <1>9 DEF ProcessInv, PartsInv, StageInv, SocketInv, HeapInv, ShutInv, allVars,
                processVars, pluginVars
  <2> QED
    BY <2>1, <2>2, <2>3 DEF ProcessInv, PartsInv
<1> QED
  BY <1>1, <1>2, <1>3, <1>5, <1>6, <1>7, <1>8, <1>9 DEF ProcessNext, ProcessStep

\* Once the loading loop has returned OK, or there are no plugins at all, those found
\* are those initialised.
LEMMA AllInitialised ==
  ASSUME ListInv, LoadInv, phase \in {"idle", "OK"}
  PROVE  /\ Walk(list) = found /\ found \in Seq(Node)
         /\ {found[i] : i \in DOMAIN found} = inited
         /\ \A n \in inited : handle[n] \in {"open", "bare"}
<1>1. Walk(list) = found /\ found \in Seq(Node)
  BY ListFacts, WalkOf DEF ListInv
<1>2. DOMAIN found = 1 .. Len(found) + 1 - 1
  BY <1>1
<1>3. CASE phase = "OK"
  BY <1>1, <1>2, <1>3 DEF LoadInv, Before
<1>4. CASE phase = "idle"
  <2>1. found = << >> /\ inited = {}
    BY <1>4 DEF ListInv, LoadInv
  <2> QED
    BY <1>1, <2>1
<1> QED
  BY <1>3, <1>4

\* So it holds for ever.
LEMMA ProcessInvariance == ProcessSpec => []ProcessInv
BY ProcessInitInv, ProcessNextInv, PTL DEF ProcessSpec

\* Every variable has its type, and the list of plugins is a list.
THEOREM ProcessTypeCorrect == ProcessSpec => []ProcessTypeOK
<1>1. ProcessInv => ProcessTypeOK
  BY DEF ProcessInv
<1> QED
  BY <1>1, ProcessInvariance, PTL

\* What searching and freeing walk is what nftw found, in its order, and prev is the
\* way back, while nodes are being inserted and in whatever way the scan ended.
THEOREM ListAsFoundAlways == ProcessSpec => []ListAsFound
<1>1. ProcessInv => ListAsFound
  <2> SUFFICES ASSUME ProcessInv PROVE ListAsFound
    OBVIOUS
  <2>1. Represents(list, found) /\ LoadInv /\ ListInv
    BY DEF ProcessInv, PartsInv, ListInv
  <2>2. Walk(list) = found
    BY <2>1, WalkOf
  <2>3. IsDoublyLinked(list)
    BY <2>1, <2>2 DEF IsDoublyLinked, Represents
  <2>4. current # NULL => \E i \in DOMAIN found : found[i] = current
    <3> SUFFICES ASSUME current # NULL PROVE \E i \in DOMAIN found : found[i] = current
      OBVIOUS
    <3>1. PICK i \in 1 .. Len(found) + 1 : current = IF i = Len(found) + 1 THEN NULL ELSE found[i]
      BY <2>1 DEF LoadInv
    <3>2. i \in DOMAIN found
      BY <2>1, <3>1, ListFacts
    <3> QED
      BY <3>1, <3>2
  <2> QED
    BY <2>2, <2>3, <2>4 DEF ListAsFound
<1> QED
  BY <1>1, ProcessInvariance, PTL

\* Whoever serves has all it serves with, whatever the script did and in whatever order.
THEOREM ReadyForClientsAlways == ProcessSpec => []ReadyForClients
<1>1. ProcessInv => ReadyForClients
  <2> SUFFICES ASSUME ProcessInv, InLoopOrChild, status = "running"
               PROVE  /\ {opened[i] : i \in DOMAIN opened} = {k \in DOMAIN sockets : sockets[k] \in Inet}
                      /\ \A i, j \in DOMAIN opened : i < j => opened[i] < opened[j]
                      /\ \A r \in Root : Block(r, roots[r]) \in heap
                      /\ gL = "open"
                      /\ {found[i] : i \in DOMAIN found} = inited
                      /\ plugins = list.head
    BY DEF ReadyForClients
  <2>1. stage \notin Early /\ stage # "config" /\ stage # "boot" /\ status # "quit"
    BY DEF InLoopOrChild, Early
  <2>2. ListInv /\ LoadInv /\ StageInv /\ SocketInv /\ HeapInv /\ sockets \in Seq(Domain)
    BY DEF ProcessInv, PartsInv, ProcessTypeOK
  <2>3. gL = "open" /\ \A r \in Root : Block(r, roots[r]) \in heap
    BY <2>1, <2>2 DEF StageInv, HeapInv
  <2>4. /\ {opened[i] : i \in DOMAIN opened} = {k \in DOMAIN sockets : sockets[k] \in Inet}
        /\ \A i, j \in DOMAIN opened : i < j => opened[i] < opened[j]
    <3>1. tried = Len(sockets) /\ DOMAIN sockets = 1 .. tried
      BY <2>1, <2>2 DEF SocketInv
    <3> QED
      BY <2>2, <3>1 DEF SocketInv
  <2>5. phase \in {"idle", "OK"}
    BY <2>1, <2>2 DEF StageInv
  <2>6. plugins = list.head
    BY <2>2, <2>5, ListFacts DEF ListInv
  <2>7. {found[i] : i \in DOMAIN found} = inited
    BY <2>2, <2>5, AllInitialised
  <2> QED
    BY <2>3, <2>4, <2>6, <2>7
<1> QED
  BY <1>1, ProcessInvariance, PTL

-----------------------------------------------------------------------------
(* ctrl_c_h runs once *)

ChildStage == {"armed", "serving", "served"}

\* The handler is given up before the exit handler is registered, and nothing comes
\* after the first call of ctrl_c_h.
QuitInv ==
  /\ quits \in Nat /\ quits <= 1
  /\ status = "running" => quits = 0
  /\ stage \in ChildStage => sigint = "default"
  /\ atExit => stage \in ChildStage

\* One call of ctrl_c_h ends a process that has not called it yet.
LEMMA OneRound ==
  ASSUME QuitInv, status = "running", Quits(1)
  PROVE  QuitInv'
BY DEF QuitInv, Quits, ChildStage

\* A process that ends otherwise has not called it.
LEMMA EndsOtherwise ==
  ASSUME QuitInv, NEW how, how # "running", Ends(how)
  PROVE  QuitInv'
BY DEF QuitInv, Ends, ChildStage

\* main has not called ctrl_c_h when it begins.
LEMMA QuitInit == ProcessInit => QuitInv
BY DEF ProcessInit, QuitInv, ChildStage

\* No step of main, of the child or of SIGINT makes it a second time.
LEMMA QuitStep == QuitInv /\ [ProcessNext]_allVars => QuitInv'
<1> SUFFICES ASSUME QuitInv, [ProcessNext]_allVars PROVE QuitInv'
  OBVIOUS
<1> USE DEF QuitInv, ChildStage, Running
<1>1. CASE Boot
  BY <1>1 DEF Boot
<1>2. CASE \E d \in Domain : create_socket(d)
  BY <1>2 DEF create_socket, Scripting
<1>3. CASE \E r \in Root : set_root(r)
  BY <1>3 DEF set_root, Scripting
<1>4. CASE plugin_init
  BY <1>4 DEF plugin_init, Scripting, processVars
<1>5. CASE InitPlugins
  BY <1>5 DEF InitPlugins
<1>6. CASE ConfigAborts
  BY <1>6, EndsOtherwise DEF ConfigAborts
<1>7. CASE ScriptDone
  <2>1. CASE Ends("1")
    BY <2>1, EndsOtherwise
  <2>2. CASE ~ Ends("1")
    BY <1>7, <2>2 DEF ScriptDone, Scripting
  <2> QED BY <2>1, <2>2
<1>8. CASE CreateSocket
  BY <1>8 DEF CreateSocket
<1>9. CASE CreateSocketFails
  BY <1>9, EndsOtherwise DEF CreateSocketFails
<1>10. CASE lua_init
  BY <1>10 DEF lua_init
<1>11. CASE LuaFails
  BY <1>11, EndsOtherwise DEF LuaFails
<1>12. CASE LuaDone
  BY <1>12 DEF LuaDone
<1>13. CASE OutOfMemory
  BY <1>13, EndsOtherwise DEF OutOfMemory
<1>14. CASE LoopAborts
  BY <1>14, EndsOtherwise DEF LoopAborts
<1>15. CASE Fork
  BY <1>15 DEF Fork
<1>16. CASE RestoreSigint
  BY <1>16 DEF RestoreSigint
<1>17. CASE Register
  <2>1. CASE Ends("SIGABRT")
    BY <2>1, EndsOtherwise
  <2>2. CASE ~ Ends("SIGABRT")
    BY <1>17, <2>2 DEF Register
  <2> QED BY <2>1, <2>2
<1>18. CASE Served
  BY <1>18 DEF Served
<1>19. CASE ChildExits
  BY <1>19, OneRound DEF ChildExits
<1>20. CASE Interrupt
  <2>1. CASE sigint = "default"
    BY <1>20, <2>1, EndsOtherwise DEF Interrupt
  <2>2. CASE sigint # "default"
    \* The process is not past RestoreSigint, so thread_quit is not registered.
    <3>1. ~ atExit
      BY <2>2
    <3>2. Quits(1)
      BY <1>20, <2>2, <3>1 DEF Interrupt
    <3> QED BY <1>20, <3>2, OneRound DEF Interrupt
  <2> QED BY <2>1, <2>2
<1>21. CASE UNCHANGED allVars
  BY <1>21 DEF allVars, processVars
<1> QED
  BY <1>1, <1>2, <1>3, <1>4, <1>5, <1>6, <1>7, <1>8, <1>9, <1>10, <1>11, <1>12, <1>13,
     <1>14, <1>15, <1>16, <1>17, <1>18, <1>19, <1>20, <1>21
  DEF ProcessNext, ProcessStep

\* ctrl_c_h, at once the handler of SIGINT, an exit handler, and a function that
\* calls exit, runs once at most in any process.
THEOREM QuitsOnceAlways == ProcessSpec => []QuitsOnce
<1>1. QuitInv => QuitsOnce
  BY DEF QuitInv, QuitsOnce
<1> QED
  BY <1>1, QuitInit, QuitStep, PTL DEF ProcessSpec
-----------------------------------------------------------------------------
(* How ctrl_c_h leaves a process *)

EndInv == QuitsClean /\ QuitCrashesOnlyForPlugin

\* A call of ctrl_c_h shuts down whatever was initialised or crashes over one of them,
\* and frees what is in force.
LEMMA OneQuitIsClean ==
  ASSUME ProcessInv, status = "running", Quits(1)
  PROVE  EndInv'
<1>1. /\ UNCHANGED <<stage, sockets, roots, opened, inited, handle>>
      /\ ListInv /\ LoadInv /\ StageInv /\ SocketInv /\ HeapInv /\ ShutInv
      /\ sockets \in Seq(Domain) /\ roots \in [Root -> Nat]
      /\ heap \subseteq [what : Root \cup {"drv", "socket", "conf", "buf"}, n : Nat]
      /\ inited \subseteq Node
  BY DEF Quits, UnloadAll, pluginVars, ProcessInv, PartsInv, ProcessTypeOK, PluginTypeOK
<1>2. CASE status' = "SIGSEGV"
  <2>1. QuitsClean'
    BY <1>2 DEF QuitsClean
  <2>2. ASSUME InLoopOrChild' PROVE \E n \in inited' : handle'[n] = "bare"
    <3>1. stage \notin Early /\ stage # "config" /\ gL = "open"
      BY <1>1, <2>2 DEF InLoopOrChild, Early, StageInv
    <3>2. UnloadCrashes
      BY <1>2, <3>1 DEF Quits
    <3>3. /\ Walk(list) = found /\ {found[i] : i \in DOMAIN found} = inited
          /\ \A n \in inited : handle[n] \in {"open", "bare"}
      BY <1>1, <3>1, AllInitialised DEF StageInv
    <3>4. PICK i \in DOMAIN found : handle[found[i]] \in {"bare", "stale"}
      BY <3>2, <3>3 DEF UnloadCrashes, CannotUnload
    <3>5. found[i] \in inited
      BY <3>3
    <3> QED
      BY <1>1, <3>3, <3>4, <3>5
  <2> QED
    BY <2>1, <2>2 DEF EndInv, QuitCrashesOnlyForPlugin
<1>3. CASE status' # "SIGSEGV"
  <2>1. /\ status' = "quit" /\ gL = "open" /\ ~ UnloadCrashes
        /\ shut' = [n \in Node |-> IF n \in Unloadable /\ handle[n] = "open"
                                   THEN shut[n] + 1 ELSE shut[n]]
        /\ heap' = heap \ Freed
    BY <1>3 DEF Quits, UnloadAll
  <2>2. stage \notin Early /\ stage # "config" /\ phase \in {"idle", "OK"}
    BY <1>1, <2>1 DEF StageInv, Early
  <2>3. /\ Walk(list) = found /\ {found[i] : i \in DOMAIN found} = inited
        /\ \A n \in inited : handle[n] \in {"open", "bare"} /\ found \in Seq(Node)
    BY <1>1, <2>2, AllInitialised
  <2>4. \A i \in DOMAIN found : ~ CannotUnload(found[i])
    BY <2>1, <2>3 DEF UnloadCrashes
  <2>5. Unloadable = inited
    <3>1. \A k \in DOMAIN found : \A j \in 1 .. k : j \in DOMAIN found
      BY <1>1, ListFacts
    <3>2. Unloadable = {found[i] : i \in {k \in DOMAIN found : \A j \in 1 .. k : ~ CannotUnload(found[j])}}
      BY <2>3 DEF Unloadable
    <3>3. {k \in DOMAIN found : \A j \in 1 .. k : ~ CannotUnload(found[j])} = DOMAIN found
      BY <2>4, <3>1
    <3> QED
      BY <2>3, <3>2, <3>3
  <2>6. \A n \in inited : handle[n] = "open"
    BY <2>3, <2>4 DEF CannotUnload
  <2>7. shut' = [n \in Node |-> IF n \in inited THEN 1 ELSE 0]
    <3>1. shut = [n \in Node |-> 0]
      BY <1>1 DEF ShutInv
    <3> QED
      BY <2>1, <2>5, <2>6, <3>1
  <2>8. ASSUME NEW b \in heap'
        PROVE  \/ b.what \in Root /\ b.n < roots[b.what]
               \/ b.what = "conf" /\ sockets[b.n] \notin Inet
    <3>1. /\ b \in heap /\ b \notin Freed /\ b.n \in Nat
          /\ b.what \in Root \cup {"drv", "socket", "conf", "buf"}
      BY <1>1, <2>1, <2>8
    <3>2. CASE b.what \in Root
      <4>1. b.n <= roots[b.what] /\ roots[b.what] \in Nat
        BY <1>1, <3>1, <3>2 DEF HeapInv
      <4>2. b.n # roots[b.what]
        BY <3>1, <3>2 DEF Freed
      <4> QED
        BY <3>1, <3>2, <4>1, <4>2
    <3>3. CASE b.what = "conf"
      <4>1. b.n \in DOMAIN sockets /\ ~ \E i \in DOMAIN opened : opened[i] = b.n
        BY <1>1, <3>1, <3>3 DEF HeapInv, Freed
      <4>2. DOMAIN sockets = 1 .. tried
        BY <1>1, <2>2 DEF SocketInv
      <4>3. b.n \notin {k \in 1 .. tried : sockets[k] \in Inet}
        BY <1>1, <4>1 DEF SocketInv
      <4> QED
        BY <3>3, <4>1, <4>2, <4>3
    <3>4. b.what \notin {"drv", "socket", "buf"}
      BY <3>1 DEF Freed
    <3> QED
      BY <3>1, <3>2, <3>3, <3>4
  <2> QED
    BY <1>1, <2>1, <2>7, <2>8 DEF EndInv, QuitsClean, QuitCrashesOnlyForPlugin
<1> QED
  BY <1>2, <1>3

\* Only a running process does anything; it ends by ctrl_c_h, or for lack of memory
\* before the loop, or in some way the properties say nothing of.
LEMMA WaysToEnd ==
  ASSUME QuitInv, ProcessNext
  PROVE  /\ status = "running"
         /\ \/ status' \notin {"quit", "SIGSEGV"}
            \/ status' = "SIGSEGV" /\ ~ InLoopOrChild'
            \/ Quits(1)
<1> USE DEF Running, Scripting
<1>1. CASE Boot \/ (\E d \in Domain : create_socket(d)) \/ (\E r \in Root : set_root(r))
  BY <1>1 DEF Boot, create_socket, set_root
<1>2. CASE plugin_init \/ InitPlugins
  BY <1>2 DEF plugin_init, InitPlugins, processVars
<1>3. CASE ConfigAborts \/ ScriptDone \/ CreateSocket \/ CreateSocketFails
  BY <1>3 DEF ConfigAborts, ScriptDone, CreateSocket, CreateSocketFails, Ends
<1>4. CASE lua_init \/ LuaFails \/ LuaDone
  BY <1>4 DEF lua_init, LuaFails, LuaDone, Ends
<1>5. CASE OutOfMemory
  BY <1>5 DEF OutOfMemory, Ends, InLoopOrChild
<1>6. CASE LoopAborts \/ Fork \/ RestoreSigint \/ Register \/ Served
  BY <1>6 DEF LoopAborts, Fork, RestoreSigint, Register, Served, Ends
<1>7. CASE ChildExits
  BY <1>7 DEF ChildExits
<1>8. CASE Interrupt
  <2>1. CASE sigint = "default"
    BY <1>8, <2>1 DEF Interrupt, Ends
  <2>2. CASE sigint # "default"
    BY <1>8, <2>2 DEF Interrupt, QuitInv
  <2> QED
    BY <2>1, <2>2
<1> QED
  BY <1>1, <1>2, <1>3, <1>4, <1>5, <1>6, <1>7, <1>8 DEF ProcessNext, ProcessStep

\* Every step.
LEMMA EndStep == ProcessInv /\ QuitInv /\ EndInv /\ [ProcessNext]_allVars => EndInv'
<1> SUFFICES ASSUME ProcessInv, QuitInv, EndInv, [ProcessNext]_allVars PROVE EndInv'
  OBVIOUS
<1>1. CASE UNCHANGED allVars
  BY <1>1 DEF EndInv, QuitsClean, QuitCrashesOnlyForPlugin, InLoopOrChild, allVars,
              processVars, pluginVars
<1>2. CASE ProcessNext
  <2>1. CASE Quits(1)
    BY <1>2, <2>1, WaysToEnd, OneQuitIsClean
  <2>2. CASE ~ Quits(1)
    BY <1>2, <2>2, WaysToEnd DEF EndInv, QuitsClean, QuitCrashesOnlyForPlugin
  <2> QED
    BY <2>1, <2>2
<1> QED
  BY <1>1, <1>2

\* So it holds for ever.
LEMMA EndInvariance == ProcessSpec => []EndInv
<1>1. ProcessInit => EndInv
  BY DEF ProcessInit, EndInv, QuitsClean, QuitCrashesOnlyForPlugin
<1> QED
  BY <1>1, EndStep, ProcessInvariance, QuitInit, QuitStep, PTL DEF ProcessSpec

\* A process that quits in the loop or in a child crashes only over a plugin that was
\* loaded without a plugin_shutdown.
THEOREM QuitCrashesOnlyForPluginAlways == ProcessSpec => []QuitCrashesOnlyForPlugin
<1>1. EndInv => QuitCrashesOnlyForPlugin
  BY DEF EndInv
<1> QED
  BY <1>1, EndInvariance, PTL

\* Whoever quits in order has shut each plugin down once and frees whatever is in force.
THEOREM QuitsCleanAlways == ProcessSpec => []QuitsClean
<1>1. EndInv => QuitsClean
  BY DEF EndInv
<1> QED
  BY <1>1, EndInvariance, PTL
=============================================================================

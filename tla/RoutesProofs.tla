---------------------------- MODULE RoutesProofs ----------------------------
(***************************************************************************)
(* Proofs about the table of routes, for all scripts, names and patterns,  *)
(* whatever order the directory is read in and wherever a script fails:    *)
(* what the table is, and what requests it serves.                         *)
(***************************************************************************)
EXTENDS Routes, Induction, SequenceTheorems, FiniteSetTheorems

-----------------------------------------------------------------------------
(* Types *)

\* What is left to do, and what was done, are calls of Add_Route.
LEMMA NextRoute ==
  ASSUME RoutesTypeOK, Add_Route
  PROVE  /\ Head(pending) \in Registration
         /\ \E k \in DOMAIN pending : pending[k] = Head(pending)
         /\ pending' \in Seq(Registration)
         /\ \A k \in DOMAIN pending' : \E j \in DOMAIN pending : pending'[k] = pending[j]
<1>1. pending \in Seq(Registration) /\ pending # << >> /\ pending' = Tail(pending)
  BY DEF RoutesTypeOK, Add_Route
<1>2. PICK len \in Nat : len = Len(pending) /\ DOMAIN pending = 1 .. len
  BY <1>1
<1>3. len # 0
  BY <1>1, <1>2
<1>4. Head(pending) = pending[1] /\ 1 \in DOMAIN pending
  BY <1>1, <1>2, <1>3
<1>5. /\ pending' \in Seq(Registration) /\ DOMAIN pending' = 1 .. len - 1
      /\ \A k \in 1 .. len - 1 : pending'[k] = pending[k + 1]
  BY <1>1, <1>2
<1>6. \A k \in 1 .. len - 1 : k + 1 \in DOMAIN pending
  BY <1>2
<1> QED
  BY <1>1, <1>4, <1>5, <1>6

\* An entry with one method more.
LEMMA MoreMethods ==
  ASSUME NEW f \in Route, NEW m \in STRING
  PROVE  LET g == [f EXCEPT !.meth = Append(@, m)]
         IN  g \in Route /\ g.path = f.path /\ g.handler = f.handler /\ g.meth = Append(f.meth, m)
<1> DEFINE g == [f EXCEPT !.meth = Append(f.meth, m)]
<1>1. /\ f = [path |-> f.path, meth |-> f.meth, handler |-> f.handler]
      /\ f.path \in Pattern /\ f.handler \in Handler /\ f.meth \in Seq(STRING)
  BY DEF Route
<1>2. g = [path |-> f.path, meth |-> Append(f.meth, m), handler |-> f.handler]
  <2>1. PICK p, ms, h : f = [path |-> p, meth |-> ms, handler |-> h]
    BY <1>1
  <2>2. f.path = p /\ f.meth = ms /\ f.handler = h
    BY <2>1
  <2>3. \A v : [f EXCEPT !.meth = v] = [path |-> p, meth |-> v, handler |-> h]
    BY <2>1
  <2> QED
    BY <2>2, <2>3
<1>3. Append(f.meth, m) \in Seq(STRING) \ {<< >>}
  BY <1>1, AppendProperties
<1> HIDE DEF g
<1>4. g \in Route
  BY <1>1, <1>2, <1>3 DEF Route
<1> QED
  BY <1>2, <1>4 DEF g

\* What becomes of the table: an entry more, or a method more for one that is there.
LEMMA EnteredIs ==
  ASSUME funcs \in Seq(Route), NEW r \in Registration
  PROVE  /\ Entered(r) \in Seq(Route)
         /\ \/ /\ \A i \in DOMAIN funcs : funcs[i].path # r.path
               /\ Entered(r) = Append(funcs, NewEntry(r)) /\ NewEntry(r) \in Route
            \/ /\ \E i \in DOMAIN funcs : funcs[i].path = r.path
               /\ DOMAIN Entered(r) = DOMAIN funcs
               /\ \A i \in DOMAIN funcs :
                    /\ Entered(r)[i].path = funcs[i].path
                    /\ Entered(r)[i].handler = funcs[i].handler
                    /\ Entered(r)[i].meth = IF funcs[i].path = r.path
                                            THEN Append(funcs[i].meth, r.meth) ELSE funcs[i].meth
<1>1. r.path \in Pattern /\ r.meth \in STRING /\ r.handler \in Handler
  BY DEF Registration
<1>2. CASE \A i \in DOMAIN funcs : funcs[i].path # r.path
  <2>1. Entered(r) = Append(funcs, NewEntry(r))
    BY <1>2 DEF Entered, Index
  <2>2. <<r.meth>> \in Seq(STRING) \ {<< >>}
    BY <1>1
  <2>3. NewEntry(r) \in Route
    BY <1>1, <2>2 DEF NewEntry, Route
  <2> QED
    BY <1>2, <2>1, <2>3
<1>3. CASE \E i \in DOMAIN funcs : funcs[i].path = r.path
  <2>1. Entered(r) = [i \in DOMAIN funcs |->
                        IF i \in Index(r.path)
                        THEN [funcs[i] EXCEPT !.meth = Append(@, r.meth)] ELSE funcs[i]]
    <3>1. Index(r.path) # {}
      BY <1>3 DEF Index
    <3> QED
      BY <3>1 DEF Entered
  <2>2. \A i \in DOMAIN funcs : funcs[i] \in Route /\ (i \in Index(r.path) <=> funcs[i].path = r.path)
    BY DEF Index
  <2>3. ASSUME NEW i \in DOMAIN funcs
        PROVE  /\ Entered(r)[i] \in Route
               /\ Entered(r)[i].path = funcs[i].path
               /\ Entered(r)[i].handler = funcs[i].handler
               /\ Entered(r)[i].meth = IF funcs[i].path = r.path
                                       THEN Append(funcs[i].meth, r.meth) ELSE funcs[i].meth
    <3>1. CASE i \in Index(r.path)
      <4>1. Entered(r)[i] = [funcs[i] EXCEPT !.meth = Append(@, r.meth)]
        BY <2>1, <3>1
      <4> QED
        BY <1>1, <2>2, <3>1, <4>1, MoreMethods
    <3>2. CASE i \notin Index(r.path)
      BY <2>1, <2>2, <3>2
    <3> QED
      BY <3>1, <3>2
  <2>4. DOMAIN Entered(r) = DOMAIN funcs
    BY <2>1
  <2>5. PICK len \in Nat : DOMAIN funcs = 1 .. len
    OBVIOUS
  <2>6. Entered(r) \in [1 .. len -> Route]
    <3>1. Entered(r) = [i \in 1 .. len |-> Entered(r)[i]]
      BY <2>1, <2>5
    <3> QED
      BY <2>3, <2>5, <3>1
  <2>7. Entered(r) \in Seq(Route)
    BY <2>6, SeqDef
  <2> QED
    BY <1>3, <2>3, <2>4, <2>7
<1> QED
  BY <1>2, <1>3

\* Every step keeps the types.
LEMMA NextTypes == RoutesTypeOK /\ [RoutesNext]_routesVars => RoutesTypeOK'
<1> SUFFICES ASSUME RoutesTypeOK, [RoutesNext]_routesVars PROVE RoutesTypeOK'
  OBVIOUS
<1>1. CASE Scan
  <2>1. PICK dir \in SUBSET Script : todo' \in Orders(dir)
    BY <1>1 DEF Scan
  <2>2. Cardinality(dir) \in Nat
    BY ScriptsAssumption, FS_Subset, FS_CardinalityType
  <2>3. todo' \in [1 .. Cardinality(dir) -> Script]
    BY <2>1 DEF Orders
  <2>4. todo' \in Seq(Script)
    BY <2>2, <2>3, SeqDef
  <2> QED
    BY <1>1, <2>4 DEF Scan, RoutesTypeOK
<1>2. CASE RunScript
  <2>1. todo \in Seq(Script) /\ todo # << >>
    BY <1>2 DEF RunScript, RoutesTypeOK
  <2>2. Head(todo) \in Script /\ Tail(todo) \in Seq(Script)
    BY <2>1
  <2>3. Registers(Head(todo)) \in Seq(Registration)
    BY <2>2, ScriptsAssumption
  <2> QED
    BY <1>2, <2>2, <2>3 DEF RunScript, RoutesTypeOK
<1>3. CASE ScriptRaises \/ Ready
  BY <1>3 DEF ScriptRaises, Ready, RoutesTypeOK
<1>4. CASE AddDefaults
  BY <1>4, ScriptsAssumption DEF AddDefaults, RoutesTypeOK
<1>5. CASE Add_Route
  <2>1. Head(pending) \in Registration /\ pending' \in Seq(Registration)
    BY <1>5, NextRoute
  <2>2. funcs \in Seq(Route) /\ added \in Seq(Registration)
    BY DEF RoutesTypeOK
  <2>3. Entered(Head(pending)) \in Seq(Route)
    BY <2>1, <2>2, EnteredIs
  <2>4. Append(added, Head(pending)) \in Seq(Registration)
    BY <2>1, <2>2
  <2> QED
    BY <1>5, <2>1, <2>3, <2>4 DEF Add_Route, RoutesTypeOK
<1>6. CASE UNCHANGED routesVars
  BY <1>6 DEF routesVars, RoutesTypeOK
<1> QED
  BY <1>1, <1>2, <1>3, <1>4, <1>5, <1>6 DEF RoutesNext

\* Before the scan: no route, no call of Add_Route.
LEMMA InitTypes == RoutesInit => RoutesTypeOK
BY DEF RoutesInit, RoutesTypeOK

\* Every variable has its type: whatever a script's name and its calls are, the table
\* is one that virtual_path_resolv can read, with a method in every entry.
THEOREM RoutesTypeCorrect == RoutesSpec => []RoutesTypeOK
BY InitTypes, NextTypes, PTL DEF RoutesSpec
-----------------------------------------------------------------------------
(* The table and the calls of Add_Route *)

\* first[i] is the call that made entry i: there is none before it with its path, and
\* one for every path.
MadeBy(first) ==
  /\ first \in [DOMAIN funcs -> DOMAIN added]
  /\ \A i, j \in DOMAIN funcs : i < j => first[i] < first[j]
  /\ \A i \in DOMAIN funcs : /\ funcs[i].path = added[first[i]].path
                             /\ funcs[i].handler = added[first[i]].handler
                             /\ Head(funcs[i].meth) = added[first[i]].meth
  /\ \A k \in DOMAIN added : \E i \in DOMAIN funcs : /\ funcs[i].path = added[k].path
                                                     /\ first[i] <= k

\* call[j] is the call that stored method j of entry i.
StoredBy(i, call) ==
  /\ call \in [DOMAIN funcs[i].meth -> DOMAIN added]
  /\ \A j, k \in DOMAIN call : j < k => call[j] < call[k]
  /\ {call[j] : j \in DOMAIN call} = {k \in DOMAIN added : added[k].path = funcs[i].path}
  /\ \A j \in DOMAIN call : funcs[i].meth[j] = added[call[j]].meth

TableInv ==
  /\ \E first : MadeBy(first)
  /\ \A i, j \in DOMAIN funcs : funcs[i].path = funcs[j].path => i = j
  /\ \A i \in DOMAIN funcs : \E call : StoredBy(i, call)

\* One call more.
LEMMA AddedGrows ==
  ASSUME RoutesTypeOK, Add_Route
  PROVE  \E n, m \in Nat, r \in Registration :
           /\ r = Head(pending) /\ funcs \in Seq(Route)
           /\ n = Len(funcs) /\ DOMAIN funcs = 1 .. n
           /\ m = Len(added) /\ DOMAIN added = 1 .. m
           /\ funcs' = Entered(r)
           /\ DOMAIN added' = 1 .. m + 1 /\ added'[m + 1] = r
           /\ \A k \in 1 .. m : added'[k] = added[k]
<1>1. /\ Head(pending) \in Registration /\ funcs \in Seq(Route) /\ added \in Seq(Registration)
      /\ added' = Append(added, Head(pending)) /\ funcs' = Entered(Head(pending))
  BY NextRoute DEF RoutesTypeOK, Add_Route
<1>2. PICK r \in Registration : r = Head(pending)
  BY <1>1
<1>3. PICK m \in Nat : m = Len(added)
  BY <1>1
<1>4. /\ added' \in Seq(Registration) /\ Len(added') = m + 1 /\ added'[m + 1] = r
      /\ \A k \in 1 .. m : added'[k] = added[k]
  BY <1>1, <1>2, <1>3, AppendProperties
<1>5. Len(funcs) \in Nat /\ DOMAIN funcs = 1 .. Len(funcs) /\ DOMAIN added = 1 .. m
      /\ DOMAIN added' = 1 .. m + 1
  BY <1>1, <1>3, <1>4
<1> QED
  BY <1>1, <1>2, <1>3, <1>4, <1>5

\* The table after the call, entry by entry.
LEMMA TableGrows ==
  ASSUME funcs \in Seq(Route), NEW n \in Nat, n = Len(funcs), NEW r \in Registration,
         funcs' = Entered(r)
  PROVE  \/ /\ \A i \in 1 .. n : funcs[i].path # r.path
            /\ DOMAIN funcs' = 1 .. n + 1 /\ \A i \in 1 .. n : funcs'[i] = funcs[i]
            /\ funcs'[n + 1] = NewEntry(r)
         \/ /\ \E i \in 1 .. n : funcs[i].path = r.path
            /\ DOMAIN funcs' = 1 .. n
            /\ \A i \in 1 .. n :
                 /\ funcs'[i].path = funcs[i].path
                 /\ funcs'[i].handler = funcs[i].handler
                 /\ Head(funcs'[i].meth) = Head(funcs[i].meth)
                 /\ funcs'[i].meth = IF funcs[i].path = r.path
                                     THEN Append(funcs[i].meth, r.meth) ELSE funcs[i].meth
<1>1. DOMAIN funcs = 1 .. n /\ r.meth \in STRING
  BY DEF Registration
<1>2. CASE \A i \in DOMAIN funcs : funcs[i].path # r.path
  <2>1. funcs' = Append(funcs, NewEntry(r)) /\ NewEntry(r) \in Route
    BY <1>2, EnteredIs
  <2>2. /\ funcs' \in Seq(Route) /\ Len(funcs') = n + 1 /\ funcs'[n + 1] = NewEntry(r)
        /\ \A i \in 1 .. n : funcs'[i] = funcs[i]
    BY <2>1, AppendProperties
  <2>3. DOMAIN funcs' = 1 .. n + 1
    BY <2>2
  <2> QED
    BY <1>1, <1>2, <2>2, <2>3
<1>3. CASE \E i \in DOMAIN funcs : funcs[i].path = r.path
  <2>1. /\ DOMAIN funcs' = 1 .. n
        /\ \A i \in 1 .. n :
             /\ funcs'[i].path = funcs[i].path
             /\ funcs'[i].handler = funcs[i].handler
             /\ funcs'[i].meth = IF funcs[i].path = r.path
                                 THEN Append(funcs[i].meth, r.meth) ELSE funcs[i].meth
    BY <1>1, <1>3, EnteredIs
  <2>2. ASSUME NEW i \in 1 .. n PROVE Head(funcs'[i].meth) = Head(funcs[i].meth)
    <3>1. funcs[i] \in Route
      BY <1>1
    <3>2. funcs[i].meth \in Seq(STRING) /\ funcs[i].meth # << >>
      BY <3>1 DEF Route
    <3>3. Head(Append(funcs[i].meth, r.meth)) = Head(funcs[i].meth)
      BY <1>1, <3>2, AppendProperties
    <3> QED
      BY <2>1, <3>3
  <2> QED
    BY <1>1, <1>3, <2>1, <2>2
<1> QED
  BY <1>2, <1>3

\* A path is added once, and a call for one that is there makes no entry.
LEMMA AddKeepsMadeBy ==
  ASSUME RoutesTypeOK, Add_Route, NEW first, MadeBy(first)
  PROVE  \E f : MadeBy(f)'
<1>1. PICK n, m \in Nat, r \in Registration :
        /\ funcs \in Seq(Route)
        /\ n = Len(funcs) /\ DOMAIN funcs = 1 .. n /\ DOMAIN added = 1 .. m
        /\ funcs' = Entered(r)
        /\ DOMAIN added' = 1 .. m + 1 /\ added'[m + 1] = r
        /\ \A k \in 1 .. m : added'[k] = added[k]
  BY AddedGrows
<1>2. /\ first \in [1 .. n -> 1 .. m]
      /\ \A i, j \in 1 .. n : i < j => first[i] < first[j]
      /\ \A i \in 1 .. n : /\ funcs[i].path = added'[first[i]].path
                           /\ funcs[i].handler = added'[first[i]].handler
                           /\ Head(funcs[i].meth) = added'[first[i]].meth
      /\ \A k \in 1 .. m : \E i \in 1 .. n : funcs[i].path = added'[k].path /\ first[i] <= k
  BY <1>1 DEF MadeBy
<1>5. /\ 1 .. n \subseteq 1 .. n + 1 /\ n + 1 \in 1 .. n + 1 /\ n + 1 \notin 1 .. n
      /\ 1 .. m \subseteq 1 .. m + 1 /\ m + 1 \in 1 .. m + 1
      /\ \A i \in 1 .. n + 1 : i \in 1 .. n \/ i = n + 1
      /\ \A k \in 1 .. m + 1 : k \in 1 .. m \/ k = m + 1
      /\ \A k \in 1 .. m : k < m + 1
  OBVIOUS
<1>3. CASE /\ \A i \in 1 .. n : funcs[i].path # r.path
           /\ DOMAIN funcs' = 1 .. n + 1 /\ \A i \in 1 .. n : funcs'[i] = funcs[i]
           /\ funcs'[n + 1] = NewEntry(r)
  <2>1. PICK f : f = [i \in 1 .. n + 1 |-> IF i = n + 1 THEN m + 1 ELSE first[i]]
    OBVIOUS
  <2>2. /\ f[n + 1] = m + 1 /\ \A i \in 1 .. n : f[i] = first[i] /\ f[i] \in 1 .. m
        /\ f \in [1 .. n + 1 -> 1 .. m + 1]
    <3>1. \A i \in 1 .. n + 1 : f[i] = IF i = n + 1 THEN m + 1 ELSE first[i]
      BY <2>1
    <3>2. f[n + 1] = m + 1 /\ \A i \in 1 .. n : f[i] = first[i] /\ f[i] \in 1 .. m
      BY <1>2, <1>5, <3>1
    <3>3. \A i \in 1 .. n + 1 : f[i] \in 1 .. m + 1
      BY <1>5, <3>2
    <3> QED
      BY <2>1, <3>1, <3>2, <3>3
  <2>3. ASSUME NEW i \in 1 .. n + 1, NEW j \in 1 .. n + 1, i < j PROVE f[i] < f[j]
    <3>1. i \in 1 .. n
      BY <2>3
    <3>2. CASE j = n + 1
      BY <1>5, <2>2, <3>1, <3>2
    <3>3. CASE j \in 1 .. n
      BY <1>2, <2>2, <2>3, <3>1, <3>3
    <3> QED
      BY <1>5, <3>2, <3>3
  <2>4. ASSUME NEW i \in 1 .. n + 1
        PROVE  /\ funcs'[i].path = added'[f[i]].path
               /\ funcs'[i].handler = added'[f[i]].handler
               /\ Head(funcs'[i].meth) = added'[f[i]].meth
    <3>1. CASE i = n + 1
      <4>1. /\ NewEntry(r).path = r.path /\ NewEntry(r).handler = r.handler
            /\ NewEntry(r).meth = <<r.meth>>
        BY DEF NewEntry
      <4>2. Head(<<r.meth>>) = r.meth
        OBVIOUS
      <4> QED
        BY <1>1, <1>3, <2>2, <3>1, <4>1, <4>2
    <3>2. CASE i \in 1 .. n
      BY <1>2, <1>3, <2>2, <3>2
    <3> QED
      BY <1>5, <3>1, <3>2
  <2>5. ASSUME NEW k \in 1 .. m + 1
        PROVE  \E i \in 1 .. n + 1 : funcs'[i].path = added'[k].path /\ f[i] <= k
    <3>1. CASE k = m + 1
      <4>1. n + 1 \in 1 .. n + 1 /\ funcs'[n + 1].path = added'[k].path /\ f[n + 1] <= k
        BY <1>5, <2>2, <2>4, <3>1
      <4> QED
        BY <4>1
    <3>2. CASE k \in 1 .. m
      <4>1. PICK i \in 1 .. n : funcs[i].path = added'[k].path /\ first[i] <= k
        BY <1>2, <3>2
      <4>2. i \in 1 .. n + 1 /\ funcs'[i].path = added'[k].path /\ f[i] <= k
        BY <1>3, <1>5, <2>2, <4>1
      <4> QED
        BY <4>2
    <3> QED
      BY <1>5, <3>1, <3>2
  <2>6. MadeBy(f)'
    BY <1>1, <1>3, <2>2, <2>3, <2>4, <2>5 DEF MadeBy
  <2> QED
    BY <2>6
<1>4. CASE /\ \E i \in 1 .. n : funcs[i].path = r.path
           /\ DOMAIN funcs' = 1 .. n
           /\ \A i \in 1 .. n : /\ funcs'[i].path = funcs[i].path
                                /\ funcs'[i].handler = funcs[i].handler
                                /\ Head(funcs'[i].meth) = Head(funcs[i].meth)
  <2>1. first \in [1 .. n -> 1 .. m + 1]
    BY <1>2, <1>5
  <2>2. ASSUME NEW k \in 1 .. m + 1
        PROVE  \E i \in 1 .. n : funcs'[i].path = added'[k].path /\ first[i] <= k
    <3>1. CASE k = m + 1
      <4>1. PICK i \in 1 .. n : funcs[i].path = r.path
        BY <1>4
      <4>2. first[i] <= m + 1
        BY <1>2
      <4> QED
        BY <1>1, <1>4, <3>1, <4>1, <4>2
    <3>2. CASE k \in 1 .. m
      <4>1. PICK i \in 1 .. n : funcs[i].path = added'[k].path /\ first[i] <= k
        BY <1>2, <3>2
      <4> QED
        BY <1>4, <4>1
    <3> QED
      BY <1>5, <3>1, <3>2
  <2>3. \A i \in 1 .. n : /\ funcs'[i].path = added'[first[i]].path
                           /\ funcs'[i].handler = added'[first[i]].handler
                           /\ Head(funcs'[i].meth) = added'[first[i]].meth
    BY <1>2, <1>4
  <2>4. MadeBy(first)'
    BY <1>1, <1>2, <1>4, <2>1, <2>2, <2>3 DEF MadeBy
  <2> QED
    BY <2>4
<1> QED
  BY <1>1, <1>3, <1>4, TableGrows
\* The methods of an entry that the call is not for.
LEMMA OtherEntry ==
  ASSUME NEW i, NEW call, StoredBy(i, call), NEW m \in Nat, DOMAIN added = 1 .. m,
         DOMAIN added' = 1 .. m + 1, \A k \in 1 .. m : added'[k] = added[k],
         added'[m + 1].path # funcs[i].path,
         funcs'[i].meth = funcs[i].meth, funcs'[i].path = funcs[i].path
  PROVE  StoredBy(i, call)'
<1>1. /\ 1 .. m \subseteq 1 .. m + 1 /\ \A k \in 1 .. m + 1 : k \in 1 .. m \/ k = m + 1
  OBVIOUS
<1>2. /\ call \in [DOMAIN funcs[i].meth -> 1 .. m]
      /\ \A j, k \in DOMAIN call : j < k => call[j] < call[k]
      /\ {call[j] : j \in DOMAIN call} = {k \in 1 .. m : added[k].path = funcs[i].path}
      /\ \A j \in DOMAIN call : funcs[i].meth[j] = added[call[j]].meth
  BY DEF StoredBy
<1>3. call \in [DOMAIN funcs'[i].meth -> DOMAIN added']
  BY <1>1, <1>2
<1>4. {k \in 1 .. m + 1 : added'[k].path = funcs'[i].path}
        = {k \in 1 .. m : added[k].path = funcs[i].path}
  BY <1>1
<1>5. \A j \in DOMAIN call : funcs'[i].meth[j] = added'[call[j]].meth
  BY <1>2
<1> QED
  BY <1>2, <1>3, <1>4, <1>5 DEF StoredBy

\* The entry that it is for gets its method behind the others.
LEMMA MethodStored ==
  ASSUME NEW i, NEW call, StoredBy(i, call), NEW m \in Nat, DOMAIN added = 1 .. m,
         DOMAIN added' = 1 .. m + 1, \A k \in 1 .. m : added'[k] = added[k],
         NEW r \in Registration, added'[m + 1] = r, r.path = funcs[i].path,
         funcs[i].meth \in Seq(STRING),
         funcs'[i].meth = Append(funcs[i].meth, r.meth), funcs'[i].path = funcs[i].path
  PROVE  \E c : StoredBy(i, c)'
<1>1. PICK l \in Nat : l = Len(funcs[i].meth) /\ DOMAIN funcs[i].meth = 1 .. l
  OBVIOUS
<1>2. /\ 1 .. m \subseteq 1 .. m + 1 /\ m + 1 \in 1 .. m + 1
      /\ \A k \in 1 .. m + 1 : k \in 1 .. m \/ k = m + 1
      /\ \A k \in 1 .. m : k < m + 1
      /\ 1 .. l \subseteq 1 .. l + 1 /\ l + 1 \in 1 .. l + 1 /\ l + 1 \notin 1 .. l
      /\ \A j \in 1 .. l + 1 : j \in 1 .. l \/ j = l + 1
  OBVIOUS
<1>3. /\ DOMAIN call = 1 .. l /\ \A j \in 1 .. l : call[j] \in 1 .. m
      /\ \A j, k \in 1 .. l : j < k => call[j] < call[k]
      /\ {call[j] : j \in 1 .. l} = {k \in 1 .. m : added[k].path = funcs[i].path}
      /\ \A j \in 1 .. l : funcs[i].meth[j] = added[call[j]].meth
  BY <1>1 DEF StoredBy
<1>4. /\ DOMAIN funcs'[i].meth = 1 .. l + 1 /\ funcs'[i].meth[l + 1] = r.meth
      /\ \A j \in 1 .. l : funcs'[i].meth[j] = funcs[i].meth[j]
  <2>1. r.meth \in STRING
    BY DEF Registration
  <2>2. /\ funcs'[i].meth \in Seq(STRING) /\ Len(funcs'[i].meth) = l + 1
        /\ funcs'[i].meth[l + 1] = r.meth
        /\ \A j \in 1 .. l : funcs'[i].meth[j] = funcs[i].meth[j]
    BY <1>1, <2>1, AppendProperties
  <2> QED
    BY <2>2
<1>5. PICK c : c = [j \in 1 .. l + 1 |-> IF j = l + 1 THEN m + 1 ELSE call[j]]
  OBVIOUS
<1>6. /\ DOMAIN c = 1 .. l + 1 /\ c[l + 1] = m + 1
      /\ \A j \in 1 .. l : c[j] = call[j]
      /\ c \in [1 .. l + 1 -> 1 .. m + 1]
  <2>1. \A j \in 1 .. l + 1 : c[j] = IF j = l + 1 THEN m + 1 ELSE call[j]
    BY <1>5
  <2>2. c[l + 1] = m + 1 /\ \A j \in 1 .. l : c[j] = call[j]
    BY <1>2, <2>1
  <2>3. \A j \in 1 .. l + 1 : c[j] \in 1 .. m + 1
    BY <1>2, <1>3, <2>2
  <2> QED
    BY <1>5, <2>2, <2>3
<1>7. ASSUME NEW j \in 1 .. l + 1, NEW k \in 1 .. l + 1, j < k PROVE c[j] < c[k]
  <2>1. j \in 1 .. l
    BY <1>7
  <2>2. CASE k = l + 1
    BY <1>2, <1>3, <1>6, <2>1, <2>2
  <2>3. CASE k \in 1 .. l
    BY <1>3, <1>6, <1>7, <2>1, <2>3
  <2> QED
    BY <1>2, <2>2, <2>3
<1>8. {c[j] : j \in 1 .. l + 1} = {k \in 1 .. m + 1 : added'[k].path = funcs'[i].path}
  <2>1. ASSUME NEW j \in 1 .. l + 1
        PROVE  c[j] \in {k \in 1 .. m + 1 : added'[k].path = funcs'[i].path}
    <3>1. CASE j = l + 1
      BY <1>2, <1>6, <3>1
    <3>2. CASE j \in 1 .. l
      <4>1. call[j] \in {k \in 1 .. m : added[k].path = funcs[i].path}
        BY <1>3, <3>2
      <4> QED
        BY <1>2, <1>6, <3>2, <4>1
    <3> QED
      BY <1>2, <3>1, <3>2
  <2>2. ASSUME NEW k \in 1 .. m + 1, added'[k].path = funcs'[i].path
        PROVE  \E j \in 1 .. l + 1 : c[j] = k
    <3>1. CASE k = m + 1
      BY <1>2, <1>6, <3>1
    <3>2. CASE k \in 1 .. m
      <4>1. k \in {call[j] : j \in 1 .. l}
        BY <1>3, <2>2, <3>2
      <4>2. PICK j \in 1 .. l : call[j] = k
        BY <4>1
      <4> QED
        BY <1>2, <1>6, <4>2
    <3> QED
      BY <1>2, <3>1, <3>2
  <2> QED
    BY <2>1, <2>2
<1>9. ASSUME NEW j \in 1 .. l + 1 PROVE funcs'[i].meth[j] = added'[c[j]].meth
  <2>1. CASE j = l + 1
    BY <1>4, <1>6, <2>1
  <2>2. CASE j \in 1 .. l
    BY <1>3, <1>4, <1>6, <2>2
  <2> QED
    BY <1>2, <2>1, <2>2
<1>10. StoredBy(i, c)'
  BY <1>4, <1>6, <1>7, <1>8, <1>9 DEF StoredBy
<1> QED
  BY <1>10

\* A new entry has the method of the one call for its path.
LEMMA EntryStored ==
  ASSUME NEW i, NEW m \in Nat, DOMAIN added' = 1 .. m + 1,
         NEW r \in Registration, added'[m + 1] = r, \A k \in 1 .. m : added'[k].path # r.path,
         funcs'[i] = NewEntry(r)
  PROVE  \E c : StoredBy(i, c)'
<1>1. funcs'[i].path = r.path /\ funcs'[i].meth = <<r.meth>>
  BY DEF NewEntry
<1>2. PICK c : c = [j \in {1} |-> m + 1]
  OBVIOUS
<1>3. /\ DOMAIN <<r.meth>> = {1} /\ <<r.meth>>[1] = r.meth
      /\ m + 1 \in 1 .. m + 1 /\ \A k \in 1 .. m + 1 : k \in 1 .. m \/ k = m + 1
  OBVIOUS
<1>4. c \in [{1} -> 1 .. m + 1] /\ c[1] = m + 1 /\ DOMAIN c = {1}
  BY <1>2, <1>3
<1>5. {c[j] : j \in {1}} = {m + 1}
  BY <1>4
<1>6. {k \in 1 .. m + 1 : added'[k].path = r.path} = {m + 1}
  BY <1>3
<1>7. StoredBy(i, c)'
  BY <1>1, <1>3, <1>4, <1>5, <1>6 DEF StoredBy
<1> QED
  BY <1>7

\* Every step keeps the table true to the calls.
LEMMA NextTable == RoutesTypeOK /\ TableInv /\ [RoutesNext]_routesVars => TableInv'
<1> SUFFICES ASSUME RoutesTypeOK, TableInv, [RoutesNext]_routesVars PROVE TableInv'
  OBVIOUS
<1>1. CASE UNCHANGED <<funcs, added>>
  <2>1. \A first : MadeBy(first) => MadeBy(first)'
    BY <1>1 DEF MadeBy
  <2>2. \A i, call : StoredBy(i, call) => StoredBy(i, call)'
    BY <1>1 DEF StoredBy
  <2> QED
    BY <1>1, <2>1, <2>2 DEF TableInv
<1>2. CASE Add_Route
  <2>1. PICK first : MadeBy(first)
    BY DEF TableInv
  <2>2. \E f : MadeBy(f)'
    BY <1>2, <2>1, AddKeepsMadeBy
  <2>3. PICK n, m \in Nat, r \in Registration :
          /\ funcs \in Seq(Route)
          /\ n = Len(funcs) /\ DOMAIN funcs = 1 .. n /\ DOMAIN added = 1 .. m
          /\ funcs' = Entered(r)
          /\ DOMAIN added' = 1 .. m + 1 /\ added'[m + 1] = r
          /\ \A k \in 1 .. m : added'[k] = added[k]
    BY <1>2, AddedGrows
  <2>4. /\ \A i \in 1 .. n + 1 : i \in 1 .. n \/ i = n + 1
        /\ \A i \in 1 .. n : i # n + 1
    OBVIOUS
  <2>5. /\ \A i, j \in 1 .. n : funcs[i].path = funcs[j].path => i = j
        /\ \A i \in 1 .. n : \E call : StoredBy(i, call)
    BY <2>3 DEF TableInv
  <2>6. CASE /\ \A i \in 1 .. n : funcs[i].path # r.path
             /\ DOMAIN funcs' = 1 .. n + 1 /\ \A i \in 1 .. n : funcs'[i] = funcs[i]
             /\ funcs'[n + 1] = NewEntry(r)
    <3>1. NewEntry(r).path = r.path
      BY DEF NewEntry
    <3>2. \A i, j \in 1 .. n + 1 : funcs'[i].path = funcs'[j].path => i = j
      BY <2>4, <2>5, <2>6, <3>1
    <3>3. ASSUME NEW i \in 1 .. n + 1 PROVE \E call : StoredBy(i, call)'
      <4>1. CASE i = n + 1
        <5>1. ASSUME NEW k \in 1 .. m PROVE added'[k].path # r.path
          <6>1. PICK j \in 1 .. n : funcs[j].path = added[k].path
            BY <2>1, <2>3 DEF MadeBy
          <6> QED
            BY <2>3, <2>6, <6>1
        <5> QED
          BY <2>3, <2>6, <4>1, <5>1, EntryStored
      <4>2. CASE i \in 1 .. n
        <5>1. PICK call : StoredBy(i, call)
          BY <2>5, <4>2
        <5>2. StoredBy(i, call)'
          BY <2>3, <2>6, <4>2, <5>1, OtherEntry
        <5> QED
          BY <5>2
      <4> QED
        BY <2>4, <4>1, <4>2
    <3> QED
      BY <2>2, <2>6, <3>2, <3>3 DEF TableInv
  <2>7. CASE /\ DOMAIN funcs' = 1 .. n
             /\ \A i \in 1 .. n :
                  /\ funcs'[i].path = funcs[i].path
                  /\ funcs'[i].meth = IF funcs[i].path = r.path
                                      THEN Append(funcs[i].meth, r.meth) ELSE funcs[i].meth
    <3>1. ASSUME NEW i \in 1 .. n PROVE \E call : StoredBy(i, call)'
      <4>1. PICK call : StoredBy(i, call)
        BY <2>5
      <4>2. CASE funcs[i].path = r.path
        <5>1. funcs[i] \in Route
          BY <2>3
        <5>2. funcs[i].meth \in Seq(STRING)
          BY <5>1 DEF Route
        <5> QED
          BY <2>3, <2>7, <4>1, <4>2, <5>2, MethodStored
      <4>3. CASE funcs[i].path # r.path
        <5>1. StoredBy(i, call)'
          BY <2>3, <2>7, <4>1, <4>3, OtherEntry
        <5> QED
          BY <5>1
      <4> QED
        BY <4>2, <4>3
    <3>2. \A i, j \in 1 .. n : funcs'[i].path = funcs'[j].path => i = j
      BY <2>5, <2>7
    <3> QED
      BY <2>2, <2>7, <3>1, <3>2 DEF TableInv
  <2> QED
    BY <2>3, <2>6, <2>7, TableGrows
<1> QED
  BY <1>1, <1>2 DEF RoutesNext, Scan, RunScript, ScriptRaises, AddDefaults, Ready, routesVars

\* At first there is nothing.
LEMMA InitTable == RoutesInit => TableInv
<1> SUFFICES ASSUME RoutesInit PROVE TableInv
  OBVIOUS
<1>1. funcs = << >> /\ added = << >> /\ DOMAIN << >> = {}
  BY DEF RoutesInit
<1>2. PICK first : first = [i \in {} |-> 0]
  OBVIOUS
<1>3. MadeBy(first)
  BY <1>1, <1>2 DEF MadeBy
<1> QED
  BY <1>1, <1>3 DEF TableInv

\* So it holds for ever.
LEMMA TableInvariance == RoutesSpec => []TableInv
BY InitTypes, NextTypes, InitTable, NextTable, PTL DEF RoutesSpec

\* No call of Add_Route is lost, doubled or put under another path, in whatever order
\* the calls come.
THEOREM TableOfRegistrationsAlways == RoutesSpec => []TableOfRegistrations
<1>1. TableInv => TableOfRegistrations
  <2> SUFFICES ASSUME TableInv PROVE TableOfRegistrations
    OBVIOUS
  <2>1. PICK first : MadeBy(first)
    BY DEF TableInv
  <2>2. {funcs[i].path : i \in DOMAIN funcs} = {added[k].path : k \in DOMAIN added}
    <3>1. \A i \in DOMAIN funcs : \E k \in DOMAIN added : funcs[i].path = added[k].path
      BY <2>1 DEF MadeBy
    <3>2. \A k \in DOMAIN added : \E i \in DOMAIN funcs : funcs[i].path = added[k].path
      BY <2>1 DEF MadeBy
    <3> QED
      BY <3>1, <3>2
  <2> QED
    BY <2>2 DEF TableInv, TableOfRegistrations, StoredBy
<1> QED
  BY <1>1, TableInvariance, PTL
-----------------------------------------------------------------------------
(* What requests are served *)

\* The first entry that matches is the one made by the first call that does.
LEMMA FirstServes ==
  ASSUME RoutesTypeOK, TableInv, NEW path, Candidates(path) # {}
  PROVE  /\ Matching(funcs, path) # {} /\ FirstMatch(funcs, path) \in DOMAIN funcs
         /\ FirstRegistered(path).handler = funcs[FirstMatch(funcs, path)].handler
         /\ FirstRegistered(path).meth = Head(funcs[FirstMatch(funcs, path)].meth)
         /\ \A k \in Candidates(path) : \E j \in DOMAIN added :
              j <= k /\ added[j].handler = funcs[FirstMatch(funcs, path)].handler
<1>1. PICK first : MadeBy(first)
  BY DEF TableInv
<1>2. PICK n, m \in Nat : DOMAIN funcs = 1 .. n /\ DOMAIN added = 1 .. m
  <2>1. funcs \in Seq(Route) /\ added \in Seq(Registration)
    BY DEF RoutesTypeOK
  <2> QED
    BY <2>1
<1>3. Candidates(path) \subseteq 1 .. m
  BY <1>2 DEF Candidates
<1>4. PICK c \in Candidates(path) : \A k \in Candidates(path) : c <= k
  <2>1. Candidates(path) \in SUBSET Nat
    BY <1>3
  <2> QED
    BY <2>1, Least
<1>5. (CHOOSE k \in Candidates(path) : \A j \in Candidates(path) : k <= j) = c
  BY <1>3, <1>4
<1>6. \A i \in Matching(funcs, path) : i \in 1 .. n /\ first[i] \in Candidates(path)
  BY <1>1, <1>2 DEF Matching, Candidates, MadeBy
<1>7. PICK i \in 1 .. n : funcs[i].path = added[c].path /\ first[i] <= c
  BY <1>1, <1>2, <1>3 DEF MadeBy
<1>8. i \in Matching(funcs, path)
  BY <1>2, <1>7 DEF Matching, Candidates
<1>9. first[i] = c
  <2>1. first[i] \in 1 .. m /\ c \in 1 .. m /\ c <= first[i]
    BY <1>3, <1>4, <1>6, <1>8
  <2> QED
    BY <1>7, <2>1
<1>10. ASSUME NEW j \in Matching(funcs, path) PROVE i <= j
  <2>1. j \in 1 .. n /\ first[j] \in 1 .. m /\ c <= first[j]
    BY <1>3, <1>4, <1>6
  <2>2. j < i => first[j] < first[i]
    BY <1>1, <1>2, <2>1 DEF MadeBy
  <2> QED
    BY <1>3, <1>9, <2>1, <2>2
<1>11. FirstMatch(funcs, path) = i
  <2>1. \A j \in Matching(funcs, path) : j \in 1 .. n
    BY <1>6
  <2>2. \A x \in Matching(funcs, path) :
          (\A j \in Matching(funcs, path) : x <= j) => x = i
    BY <1>8, <1>10, <2>1
  <2> QED
    BY <1>8, <1>10, <2>2 DEF FirstMatch
<1>12. /\ FirstRegistered(path) = added[c]
       /\ added[c].handler = funcs[i].handler /\ added[c].meth = Head(funcs[i].meth)
  BY <1>1, <1>2, <1>5, <1>9 DEF FirstRegistered, MadeBy
<1>13. c \in DOMAIN added
  BY <1>2, <1>3
<1> QED
  BY <1>2, <1>4, <1>8, <1>11, <1>12, <1>13

\* A request with the method of the first call whose pattern matches is served by the
\* handler of that call, whatever was registered later, for that path or another.
THEOREM ServesFirstRegisteredAlways == RoutesSpec => []ServesFirstRegistered
<1>1. RoutesTypeOK /\ TableInv => ServesFirstRegistered
  <2> SUFFICES ASSUME RoutesTypeOK, TableInv, NEW path \in Path
               PROVE  IF Candidates(path) = {} THEN Matching(funcs, path) = {}
                      ELSE LET r == FirstRegistered(path)
                           IN  Resolve(funcs, r.meth, path) = CallHandler(r.handler)
    BY DEF ServesFirstRegistered
  <2>1. CASE Candidates(path) = {}
    <3>1. PICK first : MadeBy(first)
      BY DEF TableInv
    <3>2. \A i \in Matching(funcs, path) : first[i] \in Candidates(path)
      BY <3>1 DEF Matching, Candidates, MadeBy
    <3> QED
      BY <2>1, <3>2
  <2>2. CASE Candidates(path) # {}
    BY <2>2, FirstServes DEF Resolve
  <2> QED
    BY <2>1, <2>2
<1> QED
  BY <1>1, RoutesTypeCorrect, TableInvariance, PTL

\* A call of a script, as OwnHandlers and OwnPaths have it.
Own(r) == /\ r.handler \notin DefaultHandlers
          /\ r.path \in Path => r.path \in Glob[r.path]

\* The defaults are added behind everything else.
OrderInv ==
  /\ \A k \in DOMAIN added : added[k].handler \notin DefaultHandlers =>
       \A j \in DOMAIN added : j <= k => Own(added[j])
  /\ stage \in {"scan", "scripts"} => /\ \A k \in DOMAIN added : Own(added[k])
                                      /\ \A k \in DOMAIN pending : Own(pending[k])
  /\ stage \notin {"scan", "scripts"} =>
       stage = "died" \/ \A k \in DOMAIN pending : pending[k].handler \in DefaultHandlers

\* Every step keeps that order.
LEMMA NextOrder ==
  ASSUME OwnHandlers, OwnPaths, RoutesTypeOK, OrderInv, [RoutesNext]_routesVars
  PROVE  OrderInv'
<1>1. CASE Add_Route
  <2>1. PICK m \in Nat, r \in Registration :
          /\ r = Head(pending)
          /\ DOMAIN added = 1 .. m
          /\ DOMAIN added' = 1 .. m + 1 /\ added'[m + 1] = r
          /\ \A k \in 1 .. m : added'[k] = added[k]
    BY <1>1, AddedGrows
  <2>2. /\ \A k \in 1 .. m + 1 : k \in 1 .. m \/ k = m + 1
        /\ \A k \in 1 .. m : ~ (m + 1 <= k)
    OBVIOUS
  <2>3. /\ \E k \in DOMAIN pending : pending[k] = r
        /\ \A k \in DOMAIN pending' : \E j \in DOMAIN pending : pending'[k] = pending[j]
        /\ stage \in {"scripts", "defaults"} /\ stage' = stage
    BY <1>1, <2>1, NextRoute DEF Add_Route
  <2>4. CASE stage = "scripts"
    <3>1. Own(r) /\ \A k \in DOMAIN pending' : Own(pending'[k])
      BY <2>3, <2>4 DEF OrderInv
    <3>2. \A k \in DOMAIN added' : Own(added'[k])
      BY <2>1, <2>2, <2>4, <3>1 DEF OrderInv
    <3> QED
      BY <2>3, <2>4, <3>1, <3>2 DEF OrderInv, Own
  <2>5. CASE stage = "defaults"
    <3>1. /\ r.handler \in DefaultHandlers
          /\ \A k \in DOMAIN pending' : pending'[k].handler \in DefaultHandlers
      BY <2>3, <2>5 DEF OrderInv
    <3>2. ASSUME NEW k \in DOMAIN added', added'[k].handler \notin DefaultHandlers,
                 NEW j \in DOMAIN added', j <= k
          PROVE  Own(added'[j])
      <4>1. k \in 1 .. m
        BY <2>1, <2>2, <3>1, <3>2
      <4>2. j \in 1 .. m
        BY <2>1, <2>2, <3>2, <4>1
      <4> QED
        BY <2>1, <3>2, <4>1, <4>2 DEF OrderInv
    <3> QED
      BY <2>3, <2>5, <3>1, <3>2 DEF OrderInv, Own, DefaultHandlers
  <2> QED
    BY <2>3, <2>4, <2>5
<1>2. CASE RunScript
  <2>1. todo \in Seq(Script) /\ todo # << >> /\ pending' = Registers(Head(todo))
    BY <1>2 DEF RunScript, RoutesTypeOK
  <2>2. Head(todo) \in Script
    BY <2>1
  <2>3. \A k \in DOMAIN pending' : Own(pending'[k])
    BY <2>1, <2>2 DEF OwnHandlers, OwnPaths, Own
  <2> QED
    BY <1>2, <2>3 DEF RunScript, OrderInv, Own, DefaultHandlers
<1>3. CASE AddDefaults
  BY <1>3 DEF AddDefaults, OrderInv, Own, DefaultHandlers
<1>4. CASE Scan \/ ScriptRaises \/ Ready
  BY <1>4 DEF Scan, ScriptRaises, Ready, OrderInv, Own, DefaultHandlers
<1>5. CASE UNCHANGED routesVars
  BY <1>5 DEF routesVars, OrderInv, Own, DefaultHandlers
<1> QED
  BY <1>1, <1>2, <1>3, <1>4, <1>5 DEF RoutesNext

\* A path that a script has registered is never served by the index or by the static
\* server, whatever their patterns match: they are added when all scripts have run.
THEOREM DefaultsHideNothingAlways ==
  ASSUME OwnHandlers, OwnPaths
  PROVE  RoutesSpec => []DefaultsHideNothing
<1>1. RoutesInit => OrderInv
  <2> SUFFICES ASSUME RoutesInit PROVE OrderInv
    OBVIOUS
  <2>1. DOMAIN added = {} /\ DOMAIN pending = {} /\ stage = "scan"
    BY DEF RoutesInit
  <2> QED
    BY <2>1 DEF OrderInv
<1>2. RoutesTypeOK /\ OrderInv /\ [RoutesNext]_routesVars => OrderInv'
  BY NextOrder
<1>3. RoutesTypeOK /\ TableInv /\ OrderInv => DefaultsHideNothing
  <2> SUFFICES ASSUME RoutesTypeOK, TableInv, OrderInv, NEW k \in DOMAIN added,
                      added[k].handler \notin DefaultHandlers, added[k].path \in Path
               PROVE  funcs[FirstMatch(funcs, added[k].path)].handler \notin DefaultHandlers
    BY DEF DefaultsHideNothing
  <2>1. k <= k
    <3>1. added \in Seq(Registration)
      BY DEF RoutesTypeOK
    <3> QED
      BY <3>1
  <2>2. k \in Candidates(added[k].path)
    BY <2>1 DEF OrderInv, Own, Candidates
  <2>3. PICK j \in DOMAIN added :
          j <= k /\ added[j].handler = funcs[FirstMatch(funcs, added[k].path)].handler
    BY <2>2, FirstServes
  <2> QED
    BY <2>3 DEF OrderInv, Own
<1> QED
  BY <1>1, <1>2, <1>3, RoutesTypeCorrect, TableInvariance, PTL DEF RoutesSpec
=============================================================================

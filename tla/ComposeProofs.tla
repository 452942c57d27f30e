---------------------------- MODULE ComposeProofs ----------------------------
(***************************************************************************)
(* Proofs about Compose for every Compose file, of any length: the trie    *)
(* stands for exactly the definitions of the file, and the compose state   *)
(* implements ComposeSpec.                                                 *)
(***************************************************************************)
EXTENDS Compose, SequenceTheorems, TLAPS

-----------------------------------------------------------------------------
(* Lemmas about the beginnings of a definition.                             *)

\* A beginning extended by the next keysym is a beginning.
LEMMA BeginsAppend ==
  ASSUME NEW d \in Definitions, NEW s \in Seq(Keysyms),
         Abs!Begins(s, d), Len(s) < Len(d.seq)
  PROVE  Abs!Begins(Append(s, d.seq[Len(s) + 1]), d)
  BY AppendProperties DEF Abs!Begins, Definitions

\* A definition has one beginning of each length.
LEMMA BeginsUnique ==
  ASSUME NEW d \in Definitions, NEW s \in Seq(Keysyms), NEW t \in Seq(Keysyms),
         Abs!Begins(s, d), Abs!Begins(t, d), Len(s) = Len(t)
  PROVE  s = t
  BY SeqEqual DEF Abs!Begins

\* The beginning as long as the definition is its whole sequence.
LEMMA BeginsWhole ==
  ASSUME NEW d \in Definitions, NEW s \in Seq(Keysyms)
  PROVE  Abs!Begins(s, d) /\ Len(s) = Len(d.seq) <=> s = d.seq
  <1>1. d.seq \in Seq(Keysyms)
    BY DEF Definitions
  <1>2. Abs!Begins(d.seq, d)
    BY <1>1 DEF Abs!Begins
  <1>3. QED
    BY <1>1, <1>2, BeginsUnique

-----------------------------------------------------------------------------
(* The inductive invariant.                                                 *)

\* An empty trie and an unread file satisfy the inductive invariant.
LEMMA InitInv == Init => IInv
  <1> SUFFICES ASSUME Init PROVE IInv
    OBVIOUS
  <1> USE DEF Init, Root, Nodes, NoKids
  <1>1. defs \in Seq(Definitions)
    BY ComposeAssumption
  <1>2. TypeOK
    <2>1. \A n \in Nodes : path[n] = <<>> /\ results[n] = NoResult /\ children[n] = NoKids
      OBVIOUS
    <2>2. path \in [Nodes -> Seq(Keysyms)]
      BY EmptySeq
    <2>3. \A n \in Nodes : /\ DOMAIN children[n] \subseteq Keysyms
                           /\ children[n] \in [DOMAIN children[n] -> Nodes]
      OBVIOUS
    <2>4. ~Built => pos <= Len(defs[next].seq)
      BY <1>1 DEF Built, Definitions
    <2>5. next \in 1..(Len(defs) + 1)
      BY <1>1
    <2>6. QED
      BY <1>1, <2>2, <2>3, <2>4, <2>5, ComposeAssumption DEF TypeOK, Statuses, Replies
  <1>3. TrieExact
    <2>1. \A i \in DOMAIN defs : \A m \in 0..Len(defs[i].seq) : Walked(i, m) => m = 0
      BY <1>1 DEF Walked, Definitions
    <2>2. AllPrefixes
      BY <1>1, <2>1, EmptySeq DEF AllPrefixes, Abs!Begins
    <2>3. EdgesSpell /\ OneNodePerPath /\ NoOrphan /\ OnlyPrefixes
      BY DEF EdgesSpell, OneNodePerPath, NoOrphan, OnlyPrefixes
    <2>4. LastOneWins
      BY <1>1 DEF LastOneWins
    <2>5. QED
      BY <2>2, <2>3, <2>4 DEF TrieExact
  <1>4. CursorOK
    BY <1>1, EmptySeq DEF CursorOK, Built, Abs!Begins
  <1>5. StatusAgrees
    BY ComposeAssumption DEF StatusAgrees, GetResult, Built
  <1>6. QED
    BY <1>2, <1>3, <1>4, <1>5 DEF IInv

\* What TypeOK says of the definition under the cursor.
LEMMA CurrentDefinition ==
  ASSUME TypeOK, ~Built
  PROVE  /\ next \in DOMAIN defs
         /\ defs[next] \in Definitions
         /\ defs[next].seq \in Seq(Keysyms)
         /\ Len(defs[next].seq) \in Nat \ {0}
         /\ defs[next].out \in Results
  <1>1. next \in DOMAIN defs
    BY DEF TypeOK, Built
  <1>2. defs[next] \in Definitions
    BY <1>1, ElementOfSeq DEF TypeOK
  <1>3. QED
    BY <1>1, <1>2, EmptySeq DEF Definitions

\* The node whose path is that of m and one keysym more hangs on m.
LEMMA EdgeOfPath ==
  ASSUME TypeOK, TrieExact, NEW m \in Nodes, NEW n \in Nodes, NEW k \in Keysyms
  PROVE  path[n] = Append(path[m], k) => k \in DOMAIN children[m] /\ children[m][k] = n
  <1>1. SUFFICES ASSUME path[n] = Append(path[m], k)
                 PROVE  k \in DOMAIN children[m] /\ children[m][k] = n
    OBVIOUS
  <1>2. path[m] \in Seq(Keysyms)
    BY DEF TypeOK
  <1>3. n # Root
    BY <1>1, <1>2, AppendProperties DEF TrieExact
  <1>4. PICK p \in Nodes : \E l \in DOMAIN children[p] : children[p][l] = n
    BY <1>3 DEF TrieExact, NoOrphan
  <1>5. PICK l \in DOMAIN children[p] : children[p][l] = n
    BY <1>4
  <1>6. path[p] \in Seq(Keysyms) /\ l \in Keysyms
    BY <1>5 DEF TypeOK
  <1>7. Append(path[p], l) = Append(path[m], k)
    BY <1>1, <1>5 DEF TrieExact, EdgesSpell
  <1>8. path[p] = path[m] /\ l = k
    BY <1>2, <1>6, <1>7, AppendInjective
  <1>9. QED
    BY <1>5, <1>8 DEF TrieExact, OneNodePerPath

\* Going down an edge that is already there changes only the cursor.
LEMMA DescendInv == IInv /\ Descend => IInv'
  <1> SUFFICES ASSUME IInv, Descend PROVE IInv'
    OBVIOUS
  <1> USE DEF IInv
  <1>1. /\ ~Built /\ pos < Len(defs[next].seq)
        /\ Len(path[node]) = pos
        /\ Abs!Begins(path[node], defs[next])
    BY DEF Descend, Walking, CursorOK
  <1>2. /\ next \in DOMAIN defs /\ defs[next] \in Definitions
        /\ defs[next].seq \in Seq(Keysyms)
    BY <1>1, CurrentDefinition
  <1>3. node \in Nodes /\ path[node] \in Seq(Keysyms) /\ pos \in Nat
    BY DEF TypeOK
  <1>4. node' \in Nodes /\ path[node'] = Append(path[node], Sym)
    BY <1>3 DEF Descend, TypeOK, TrieExact, EdgesSpell
  <1>5. Abs!Begins(path[node'], defs[next])
    BY <1>1, <1>2, <1>3, <1>4, BeginsAppend DEF Sym
  <1>6. Len(path[node']) = pos + 1
    BY <1>1, <1>2, <1>3, <1>4, AppendProperties, ElementOfSeq DEF Sym
  <1>7. ~Built' /\ Nodes' = Nodes
    BY <1>1 DEF Descend, Built, Nodes
  <1>8. TypeOK'
    BY <1>1, <1>3, <1>4, <1>7 DEF TypeOK, Descend, state, Built, Nodes
  <1>9. CursorOK'
    BY <1>5, <1>6, <1>7 DEF CursorOK, Descend, Abs!Begins
  <1>10. TrieExact'
    <2>1. OnlyPrefixes'
      <3>1. \A i \in DOMAIN defs : \A m \in Nat : Walked(i, m) => Walked(i, m)'
        BY <1>3 DEF Walked, Descend, TypeOK
      <3>2. QED
        BY <1>7, <3>1 DEF OnlyPrefixes, Descend, TrieExact, TypeOK, Abs!Begins
    <2>2. AllPrefixes'
      <3> SUFFICES ASSUME NEW i \in DOMAIN defs, NEW m \in 0..Len(defs[i].seq),
                          Walked(i, m)'
                   PROVE  \E n \in Nodes : Len(path[n]) = m /\ Abs!Begins(path[n], defs[i])
        BY <1>7 DEF AllPrefixes, Descend, Abs!Begins
      <3>1. CASE Walked(i, m)
        BY <3>1 DEF TrieExact, AllPrefixes
      <3>2. CASE ~Walked(i, m)
        <4>1. i = next /\ m = pos + 1
          BY <1>3, <3>2, <1>2 DEF Walked, Descend, TypeOK
        <4>2. QED
          BY <1>4, <1>5, <1>6, <4>1
      <3>3. QED
        BY <3>1, <3>2
    <2>3. EdgesSpell' /\ OneNodePerPath' /\ NoOrphan' /\ LastOneWins'
      BY <1>7 DEF TrieExact, EdgesSpell, OneNodePerPath, NoOrphan, LastOneWins, Descend
    <2>4. QED
      BY <2>1, <2>2, <2>3 DEF TrieExact, Descend
  <1>11. StatusAgrees'
    BY <1>1, <1>7 DEF StatusAgrees, GetResult, Descend, state
  <1>12. QED
    BY <1>8, <1>9, <1>10, <1>11

\* A new node gets a path of its own, that of the sequence read so far.
LEMMA AllocateInv == IInv /\ Allocate => IInv'
  <1> SUFFICES ASSUME IInv, Allocate PROVE IInv'
    OBVIOUS
  <1> USE DEF IInv
  <1>1. /\ ~Built /\ pos < Len(defs[next].seq)
        /\ Len(path[node]) = pos
        /\ Abs!Begins(path[node], defs[next])
    BY DEF Allocate, Walking, CursorOK
  <1>2. /\ next \in DOMAIN defs /\ defs[next] \in Definitions
        /\ defs[next].seq \in Seq(Keysyms)
        /\ Sym \in Keysyms
    BY <1>1, CurrentDefinition, ElementOfSeq DEF Sym, TypeOK
  <1>3. /\ node \in Nodes /\ path[node] \in Seq(Keysyms) /\ pos \in Nat
        /\ size \in Nat \ {0}
    BY DEF TypeOK
  <1>0. /\ defs' = defs /\ next' = next /\ pos' = pos + 1 /\ size' = size + 1
        /\ root' = root /\ current' = current /\ status' = status
        /\ result' = result /\ reply' = reply
    BY DEF Allocate, state
  <1>4. Nodes' = Nodes \cup {size} /\ size \notin Nodes /\ Nodes' = 0..size
    BY <1>3 DEF Nodes, Allocate
  <1> DEFINE new == Append(path[node], Sym)
  <1>5. new \in Seq(Keysyms) /\ new # <<>> /\ Len(new) = pos + 1
    BY <1>1, <1>2, <1>3, AppendProperties
  <1>6. /\ path'[size] = new
        /\ \A n \in Nodes : path'[n] = path[n]
        /\ results'[size] = NoResult
        /\ \A n \in Nodes : results'[n] = results[n]
        /\ children'[size] = NoKids
        /\ \A n \in Nodes \ {node} : children'[n] = children[n]
        /\ DOMAIN children'[node] = DOMAIN children[node] \cup {Sym}
        /\ children'[node][Sym] = size
        /\ \A k \in DOMAIN children[node] : children'[node][k] = children[node][k]
    BY <1>3, <1>4 DEF Allocate
  <1>7. Abs!Begins(new, defs[next])
    BY <1>1, <1>2, <1>3, BeginsAppend DEF Sym
  <1>8. ~Built' /\ node' = size
    BY <1>1 DEF Allocate, Built
  <1>9. \A n \in Nodes : path[n] # new
    BY <1>2, <1>3, EdgeOfPath DEF Allocate
  <1> HIDE DEF new
  <1>10. TypeOK'
    <2>1. path' \in [Nodes' -> Seq(Keysyms)]
      BY <1>4, <1>5, <1>6 DEF Allocate, TypeOK
    <2>2. results' \in [Nodes' -> Results \cup {NoResult}]
      BY <1>4, <1>6 DEF Allocate, TypeOK
    <2>3. DOMAIN children' = Nodes'
      BY <1>4 DEF Allocate
    <2>4. \A n \in Nodes' : /\ DOMAIN children'[n] \subseteq Keysyms
                            /\ children'[n] \in [DOMAIN children'[n] -> Nodes']
      <3>1. children'[size] = NoKids /\ DOMAIN NoKids = {}
        BY <1>6 DEF NoKids
      <3>2. children'[node] = [k \in DOMAIN children[node] \cup {Sym} |->
                                 IF k = Sym THEN size ELSE children[node][k]]
        BY <1>3, <1>4 DEF Allocate
      <3>3. \A n \in Nodes : DOMAIN children[n] \subseteq Keysyms
                             /\ children[n] \in [DOMAIN children[n] -> Nodes]
        BY DEF TypeOK
      <3>4. CASE TRUE
        <4> SUFFICES ASSUME NEW n \in Nodes'
                     PROVE  /\ DOMAIN children'[n] \subseteq Keysyms
                            /\ children'[n] \in [DOMAIN children'[n] -> Nodes']
          OBVIOUS
        <4>1. CASE n = size
          BY <3>1, <4>1 DEF NoKids
        <4>2. CASE n = node
          BY <1>2, <1>3, <1>4, <3>2, <3>3, <4>2
        <4>3. CASE n # size /\ n # node
          BY <1>4, <1>6, <3>3, <4>3
        <4>4. QED
          BY <4>1, <4>2, <4>3
      <3>5. QED
        BY <3>4
    <2>5. size' \in Nat \ {0} /\ node' \in Nodes' /\ pos' \in Nat
      BY <1>3, <1>4 DEF Allocate
    <2>6. current' \in Nodes' \cup {Nil}
      BY <1>4 DEF Allocate, state, TypeOK
    <2>7. ~Built' => pos' <= Len(defs'[next'].seq)
      BY <1>1, <1>2, <1>3 DEF Allocate
    <2>8. QED
      BY <2>1, <2>2, <2>3, <2>4, <2>5, <2>6, <2>7, <1>0 DEF TypeOK
  <1>11. CursorOK'
    BY <1>0, <1>5, <1>6, <1>7, <1>8 DEF CursorOK, Abs!Begins
  <1>12. TrieExact'
    <2>1. (path[Root] = <<>>)'
      BY <1>3, <1>6 DEF TrieExact, Root, Nodes
    <2>2. EdgesSpell'
      <3> SUFFICES ASSUME NEW n \in Nodes', NEW k \in DOMAIN children'[n]
                   PROVE  path'[children'[n][k]] = Append(path'[n], k)
        BY DEF EdgesSpell
      <3>1. CASE n = size
        BY <1>6, <3>1 DEF NoKids
      <3>2. CASE n = node /\ k = Sym
        BY <1>3, <1>6, <3>2 DEF new
      <3>3. CASE n # size /\ ~(n = node /\ k = Sym)
        <4>1. n \in Nodes /\ k \in DOMAIN children[n] /\ children'[n][k] = children[n][k]
          BY <1>4, <1>6, <3>3
        <4>2. children[n][k] \in Nodes
          BY <4>1 DEF TypeOK
        <4>3. QED
          BY <1>6, <4>1, <4>2 DEF TrieExact, EdgesSpell
      <3>4. QED
        BY <3>1, <3>2, <3>3
    <2>3. OneNodePerPath'
      BY <1>4, <1>6, <1>9 DEF TrieExact, OneNodePerPath
    <2>4. NoOrphan'
      <3> SUFFICES ASSUME NEW n \in Nodes' \ {Root}
                   PROVE  \E m \in Nodes' : \E k \in DOMAIN children'[m] : children'[m][k] = n
        BY DEF NoOrphan
      <3>1. CASE n = size
        BY <1>3, <1>4, <1>6, <3>1
      <3>2. CASE n # size
        <4>1. PICK m \in Nodes : \E k \in DOMAIN children[m] : children[m][k] = n
          BY <1>4, <3>2 DEF TrieExact, NoOrphan
        <4>2. PICK k \in DOMAIN children[m] : children[m][k] = n
          BY <4>1
        <4>3. k \in DOMAIN children'[m] /\ children'[m][k] = n
          BY <1>6, <4>2
        <4>4. QED
          BY <1>4, <4>3
      <3>3. QED
        BY <3>1, <3>2
    <2>5. OnlyPrefixes'
      <3> SUFFICES ASSUME NEW n \in Nodes' \ {Root}
                   PROVE  \E i \in DOMAIN defs : /\ Abs!Begins(path'[n], defs[i])
                                                 /\ i < next \/ (i = next /\ Len(path'[n]) <= pos + 1)
        BY <1>0 DEF OnlyPrefixes, Walked, Abs!Begins
      <3>1. CASE n = size
        <4>1. path'[n] = new
          BY <1>6, <3>1
        <4>2. Abs!Begins(path'[n], defs[next]) /\ Len(path'[n]) <= pos + 1
          BY <1>3, <1>5, <1>7, <4>1
        <4>3. QED
          BY <1>2, <4>2
      <3>2. CASE n # size
        <4>1. n \in Nodes \ {Root} /\ path'[n] = path[n] /\ Len(path[n]) \in Nat
          BY <1>4, <1>6, <3>2 DEF TypeOK
        <4>2. PICK i \in DOMAIN defs : Abs!Begins(path[n], defs[i]) /\ Walked(i, Len(path[n]))
          BY <4>1 DEF TrieExact, OnlyPrefixes
        <4>3. QED
          BY <1>3, <4>1, <4>2, <1>0 DEF Walked
      <3>3. QED
        BY <3>1, <3>2
    <2>6. AllPrefixes'
      <3> SUFFICES ASSUME NEW i \in DOMAIN defs, NEW m \in 0..Len(defs[i].seq),
                          Walked(i, m)'
                   PROVE  \E n \in Nodes' : Len(path'[n]) = m /\ Abs!Begins(path'[n], defs[i])
        BY <1>0 DEF AllPrefixes, Abs!Begins
      <3>1. CASE Walked(i, m)
        BY <1>4, <1>6, <3>1 DEF TrieExact, AllPrefixes
      <3>2. CASE ~Walked(i, m)
        <4>1. i = next /\ m = pos + 1
          BY <1>0, <1>2, <1>3, <3>2 DEF Walked, TypeOK
        <4>2. QED
          <5>1. path'[size] = new /\ size \in Nodes'
            BY <1>4, <1>6
          <5>2. Len(path'[size]) = m /\ Abs!Begins(path'[size], defs[i])
            BY <1>5, <1>7, <4>1, <5>1
          <5>3. QED
            BY <5>1, <5>2
      <3>3. QED
        BY <3>1, <3>2
    <2>7. LastOneWins'
      <3> SUFFICES ASSUME NEW n \in Nodes'
                   PROVE  \/ /\ results'[n] = NoResult
                             /\ \A i \in DOMAIN defs : i < next => defs[i].seq # path'[n]
                          \/ \E i \in DOMAIN defs :
                               /\ i < next
                               /\ defs[i].seq = path'[n]
                               /\ results'[n] = defs[i].out
                               /\ \A j \in DOMAIN defs :
                                    (j > i /\ j < next) => defs[j].seq # path'[n]
        BY <1>0 DEF LastOneWins
      <3>1. CASE n # size
        BY <1>4, <1>6, <3>1 DEF TrieExact, LastOneWins
      <3>2. CASE n = size
        <4> SUFFICES ASSUME NEW i \in DOMAIN defs, i < next, defs[i].seq = new PROVE FALSE
          BY <1>6, <3>2
        <4>1. defs[i] \in Definitions
          BY ElementOfSeq DEF TypeOK
        <4>2. Abs!Begins(new, defs[i]) /\ Len(new) = Len(defs[i].seq)
          BY <1>5, <4>1, BeginsWhole
        <4>3. PICK m \in Nodes : Len(path[m]) = Len(new) /\ Abs!Begins(path[m], defs[i])
          BY <1>3, <1>5, <4>2 DEF TrieExact, AllPrefixes, Walked
        <4>4. path[m] = new
          BY <1>5, <4>1, <4>2, <4>3, BeginsUnique DEF TypeOK
        <4>5. QED
          BY <1>9, <4>4
      <3>3. QED
        BY <3>1, <3>2
    <2>8. QED
      BY <2>1, <2>2, <2>3, <2>4, <2>5, <2>6, <2>7 DEF TrieExact
  <1>13. StatusAgrees'
    BY <1>1, <1>8 DEF StatusAgrees, GetResult, Allocate, state
  <1>14. QED
    BY <1>10, <1>11, <1>12, <1>13

\* At the end of a sequence its last node, and no other, takes the result.
LEMMA SetResultInv == IInv /\ SetResult => IInv'
  <1> SUFFICES ASSUME IInv, SetResult PROVE IInv'
    OBVIOUS
  <1> USE DEF IInv
  <1>1. /\ ~Built /\ pos = Len(defs[next].seq)
        /\ Len(path[node]) = pos
        /\ Abs!Begins(path[node], defs[next])
    BY DEF SetResult, CursorOK
  <1>2. /\ next \in DOMAIN defs /\ defs[next] \in Definitions
        /\ defs[next].seq \in Seq(Keysyms) /\ defs[next].out \in Results
        /\ next \in Nat /\ DOMAIN defs \subseteq Nat
    BY <1>1, CurrentDefinition DEF TypeOK
  <1>3. node \in Nodes /\ path[node] \in Seq(Keysyms) /\ size \in Nat \ {0}
    BY DEF TypeOK
  <1>4. /\ defs' = defs /\ next' = next + 1 /\ pos' = 0 /\ node' = Root
        /\ size' = size /\ children' = children /\ path' = path /\ Nodes' = Nodes
        /\ root' = root /\ current' = current /\ status' = status
        /\ result' = result /\ reply' = reply
    BY DEF SetResult, state, Nodes
  <1>5. path[node] = defs[next].seq
    BY <1>1, <1>2, <1>3, BeginsWhole
  <1>6. /\ results'[node] = defs[next].out
        /\ \A n \in Nodes \ {node} : results'[n] = results[n]
        /\ results' \in [Nodes -> Results \cup {NoResult}]
    BY <1>2, <1>3 DEF SetResult, TypeOK
  <1>7. Root \in Nodes
    BY <1>3 DEF Root, Nodes
  <1>8. TypeOK'
    <2>1. next' \in 1..(Len(defs) + 1)
      BY <1>1, <1>4 DEF TypeOK, Built
    <2>2. ~Built' => pos' <= Len(defs'[next'].seq)
      <3>1. SUFFICES ASSUME ~Built' PROVE 0 <= Len(defs[next'].seq)
        BY <1>4
      <3>2. next' \in DOMAIN defs
        BY <2>1, <3>1, <1>4 DEF Built, TypeOK
      <3>3. QED
        BY <3>2, ElementOfSeq DEF TypeOK, Definitions
    <2>3. QED
      BY <2>1, <2>2, <1>4, <1>6, <1>7 DEF TypeOK
  <1>9. CursorOK'
    BY <1>4, EmptySeq DEF CursorOK, TrieExact, Abs!Begins, Root, Built, Definitions, TypeOK
  <1>10. TrieExact'
    <2>1. \A i \in DOMAIN defs : \A m \in 0..Len(defs[i].seq) :
            Walked(i, m)' => Walked(i, m) \/ m = 0
      BY <1>1, <1>2, <1>4 DEF Walked
    <2>2. OnlyPrefixes'
      BY <1>2, <1>3, <1>4, <1>1 DEF TrieExact, OnlyPrefixes, Walked
    <2>3. AllPrefixes'
      <3>1. \A i \in DOMAIN defs : Len(path[Root]) = 0 /\ Abs!Begins(path[Root], defs[i])
        <4>1. path[Root] = <<>> /\ Len(<<>>) = 0
          BY EmptySeq DEF TrieExact
        <4>2. \A i \in DOMAIN defs : defs[i] \in Definitions
          BY ElementOfSeq DEF TypeOK
        <4>3. \A i \in DOMAIN defs : Len(defs[i].seq) \in Nat
          BY <4>2 DEF Definitions
        <4>4. QED
          BY <4>1, <4>3 DEF Abs!Begins
      <3>2. QED
        BY <1>4, <1>7, <2>1, <3>1 DEF TrieExact, AllPrefixes, Abs!Begins
    <2>4. LastOneWins'
      <3> SUFFICES ASSUME NEW n \in Nodes
                   PROVE  \/ /\ results'[n] = NoResult
                             /\ \A i \in DOMAIN defs : i < next' => defs[i].seq # path[n]
                          \/ \E i \in DOMAIN defs :
                               /\ i < next'
                               /\ defs[i].seq = path[n]
                               /\ results'[n] = defs[i].out
                               /\ \A j \in DOMAIN defs :
                                    (j > i /\ j < next') => defs[j].seq # path[n]
        BY <1>4 DEF LastOneWins
      <3>1. CASE n = node
        BY <1>2, <1>4, <1>5, <1>6, <3>1
      <3>2. CASE n # node
        <4>1. defs[next].seq # path[n]
          BY <1>3, <1>5, <3>2 DEF TrieExact, OneNodePerPath
        <4>2. \A i \in DOMAIN defs : i < next' <=> i < next \/ i = next
          BY <1>2, <1>4
        <4>3. results'[n] = results[n]
          BY <1>6, <3>2
        <4>4. QED
          BY <1>2, <4>1, <4>2, <4>3 DEF TrieExact, LastOneWins
      <3>3. QED
        BY <3>1, <3>2
    <2>5. QED
      BY <2>2, <2>3, <2>4, <1>4 DEF TrieExact, EdgesSpell, OneNodePerPath, NoOrphan, Root
  <1>11. StatusAgrees'
    BY <1>1, <1>4 DEF StatusAgrees, GetResult
  <1>12. QED
    BY <1>8, <1>9, <1>10, <1>11

\* The steps of the compose state leave the trie alone.
LEMMA TrieUnchanged ==
  ASSUME TrieExact, CursorOK, UNCHANGED builder
  PROVE  TrieExact' /\ CursorOK'
  <1>1. Nodes' = Nodes /\ Built' = Built
    BY DEF builder, Nodes, Built
  <1>2. QED
    BY <1>1 DEF builder, TrieExact, CursorOK, EdgesSpell, OneNodePerPath, NoOrphan,
                OnlyPrefixes, AllPrefixes, LastOneWins, Walked, Abs!Begins

\* A node that hangs on an edge is not the root.
LEMMA ChildNotRoot ==
  ASSUME TypeOK, TrieExact, NEW n \in Nodes, NEW k \in DOMAIN children[n]
  PROVE  children[n][k] \in Nodes \ {Root}
  <1>1. children[n][k] \in Nodes /\ k \in Keysyms /\ path[n] \in Seq(Keysyms)
    BY DEF TypeOK
  <1>2. path[children[n][k]] # <<>>
    BY <1>1, AppendProperties DEF TrieExact, EdgesSpell
  <1>3. QED
    BY <1>1, <1>2 DEF TrieExact

\* The methods of a compose state leave the trie alone and keep the status
\* and the node in step.
LEMMA StateStepInv == IInv /\ (NewState \/ (\E k \in Keysyms : Feed(k)) \/ FeedNoTable \/ Reset) => IInv'
  <1> SUFFICES ASSUME IInv, NewState \/ (\E k \in Keysyms : Feed(k)) \/ FeedNoTable \/ Reset
               PROVE  IInv'
    OBVIOUS
  <1> USE DEF IInv
  <1>1. UNCHANGED builder /\ Nodes' = Nodes /\ Built' = Built
    BY DEF NewState, Feed, FeedNoTable, Reset, builder, Nodes, Built
  <1>2. TrieExact' /\ CursorOK'
    BY <1>1, TrieUnchanged
  <1>3. ASSUME /\ root' \in {Nil, Root} /\ current' \in Nodes \cup {Nil} /\ status' \in Statuses
               /\ result' \in Results \cup {NoResult} /\ reply' \in Replies
        PROVE  TypeOK'
    BY <1>1, <1>3 DEF TypeOK, builder
  <1>4. Root # Nil
    BY ComposeAssumption DEF Root
  <1>5. CASE NewState
    <2>1. TypeOK'
      BY <1>3, <1>5 DEF NewState, Statuses, Replies
    <2>2. StatusAgrees'
      BY <1>1, <1>5 DEF NewState, StatusAgrees, GetResult
    <2>3. QED
      BY <1>2, <2>1, <2>2
  <1>6. CASE Reset
    <2>1. TypeOK'
      BY <1>3, <1>6 DEF Reset, Statuses, TypeOK
    <2>2. StatusAgrees'
      BY <1>1, <1>6 DEF Reset, StatusAgrees, GetResult
    <2>3. QED
      BY <1>2, <2>1, <2>2
  <1>7. CASE FeedNoTable
    <2>1. TypeOK'
      BY <1>3, <1>7 DEF FeedNoTable, Statuses, Replies, TypeOK
    <2>2. current = Nil
      BY <1>7, <1>4 DEF FeedNoTable, StatusAgrees
    <2>3. StatusAgrees'
      BY <1>1, <1>7, <2>2 DEF FeedNoTable, StatusAgrees, GetResult
    <2>4. QED
      BY <1>2, <2>1, <2>3
  <1>8. ASSUME NEW k \in Keysyms, Feed(k)
        PROVE  IInv'
    <2>1. /\ root = Root /\ root' = Root /\ Built /\ Built'
          /\ Cursor \in Nodes /\ Root \in Nodes
      BY <1>1, <1>8 DEF Feed, StatusAgrees, TypeOK, Cursor, Root, Nodes
    <2>2. ASSUME NEW n \in Nodes, k \in DOMAIN children[n], Enter(children[n][k])
          PROVE  TypeOK' /\ StatusAgrees'
      <3> DEFINE c == children[n][k]
      <3>1. c \in Nodes \ {Root} /\ c # Nil
        BY <2>2, ChildNotRoot, ComposeAssumption DEF Nodes, TypeOK
      <3>2. results[c] \in Results \cup {NoResult} /\ results' = results
        BY <1>1, <3>1 DEF TypeOK, builder
      <3>3. TypeOK'
        BY <1>3, <2>1, <2>2, <3>1, <3>2 DEF Enter, Statuses, Replies
      <3>4. StatusAgrees'
        BY <1>4, <2>1, <2>2, <3>1, <3>2 DEF Enter, StatusAgrees, GetResult
      <3>5. QED
        BY <3>3, <3>4
    <2>3. ASSUME NEW st \in {"Cancelled", "Nothing"}, NEW rep \in Replies, Leave(st, rep)
          PROVE  TypeOK' /\ StatusAgrees'
      <3>1. TypeOK'
        BY <1>3, <2>1, <2>3 DEF Leave, Statuses
      <3>2. StatusAgrees'
        BY <2>1, <2>3 DEF Leave, StatusAgrees, GetResult
      <3>3. QED
        BY <3>1, <3>2
    <2>4. TypeOK' /\ StatusAgrees'
      <3>1. CASE k \in DOMAIN children[Cursor]
        BY <1>8, <2>1, <2>2, <3>1 DEF Feed
      <3>2. CASE k \notin DOMAIN children[Cursor] /\ status = "Composing"
        BY <1>8, <2>3, <3>2 DEF Feed, Replies
      <3>3. CASE /\ k \notin DOMAIN children[Cursor] /\ status # "Composing"
                 /\ k \in DOMAIN children[root]
        BY <1>8, <2>1, <2>2, <3>3 DEF Feed
      <3>4. CASE /\ k \notin DOMAIN children[Cursor] /\ status # "Composing"
                 /\ k \notin DOMAIN children[root]
        BY <1>8, <2>3, <3>4 DEF Feed, Replies
      <3>5. QED
        BY <3>1, <3>2, <3>3, <3>4
    <2>5. QED
      BY <1>2, <2>4
  <1>9. QED
    BY <1>5, <1>6, <1>7, <1>8

-----------------------------------------------------------------------------
(* The theorems.                                                            *)

\* Every step keeps the inductive invariant.
LEMMA StepInv == IInv /\ [Next]_vars => IInv'
  <1> SUFFICES ASSUME IInv, [Next]_vars PROVE IInv'
    OBVIOUS
  <1>1. CASE UNCHANGED vars
    <2>1. UNCHANGED builder /\ UNCHANGED state
      BY <1>1 DEF vars
    <2>2. TrieExact' /\ CursorOK'
      BY <2>1, TrieUnchanged DEF IInv
    <2>3. TypeOK' /\ StatusAgrees'
      BY <2>1 DEF builder, state, IInv, TypeOK, StatusAgrees, GetResult, Built, Nodes
    <2>4. QED
      BY <2>2, <2>3 DEF IInv
  <1>2. QED
    BY <1>1, DescendInv, AllocateInv, SetResultInv, StateStepInv DEF Next

\* The inductive invariant holds in every reachable state.
THEOREM Invariance == Spec => []IInv
  BY InitInv, StepInv, PTL DEF Spec

\* Every pointer of the builder and of the compose state points at a node
\* that was allocated, and no index leaves its definition.
THEOREM TypeCorrect == Spec => []TypeOK
  <1>1. IInv => TypeOK
    BY DEF IInv
  <1>2. QED
    BY <1>1, Invariance, PTL

\* Whatever the order, overlap and repetition of the definitions, the trie
\* stands for exactly the ones inserted so far (buildComposeTable).
THEOREM TrieCorrect == Spec => []TrieExact
  <1>1. IInv => TrieExact
    BY DEF IInv
  <1>2. QED
    BY <1>1, Invariance, PTL

\* The status and the result a client reads agree with the node the state
\* stands on (Feed, GetStatus, GetOneSym, GetUTF8, Reset).
THEOREM StatusCorrect == Spec => []StatusAgrees
  <1>1. IInv => StatusAgrees
    BY DEF IInv
  <1>2. QED
    BY <1>1, Invariance, PTL

-----------------------------------------------------------------------------
(* Compose implements ComposeSpec.                                          *)

\* In a finished trie a node has a child for a keysym exactly when some
\* definition goes on that way.
LEMMA ChildIffOpen ==
  ASSUME IInv, Built, NEW n \in Nodes, NEW k \in Keysyms
  PROVE  k \in DOMAIN children[n] <=> Abs!IsOpen(Append(path[n], k))
  <1> USE DEF IInv
  <1>1. path[n] \in Seq(Keysyms) /\ defs \in Seq(Definitions) /\ next \in Nat
    BY DEF TypeOK
  <1>2. ASSUME k \in DOMAIN children[n]
        PROVE  Abs!IsOpen(Append(path[n], k))
    <2>1. children[n][k] \in Nodes \ {Root}
      BY <1>2, ChildNotRoot
    <2>2. path[children[n][k]] = Append(path[n], k)
      BY <1>2 DEF TrieExact, EdgesSpell
    <2>3. QED
      BY <2>1, <2>2 DEF TrieExact, OnlyPrefixes, Abs!IsOpen
  <1>3. ASSUME NEW i \in DOMAIN defs, Abs!Begins(Append(path[n], k), defs[i])
        PROVE  k \in DOMAIN children[n]
    <2> DEFINE s == Append(path[n], k)
    <2>1. defs[i] \in Definitions /\ s \in Seq(Keysyms) /\ i < next
      BY <1>1, AppendProperties, ElementOfSeq DEF Built
    <2>2. Len(s) \in 0..Len(defs[i].seq)
      BY <1>3, <2>1 DEF Abs!Begins, Definitions
    <2>3. PICK m \in Nodes : Len(path[m]) = Len(s) /\ Abs!Begins(path[m], defs[i])
      BY <2>1, <2>2 DEF TrieExact, AllPrefixes, Walked
    <2>4. path[m] = s
      BY <1>3, <2>1, <2>3, BeginsUnique DEF TypeOK
    <2>5. QED
      BY <2>4, EdgeOfPath
  <1>4. QED
    BY <1>2, <1>3 DEF Abs!IsOpen

\* Moving to a child of a finished trie is a match of its path.
LEMMA EnterIsMatch ==
  ASSUME IInv, Built, NEW n \in Nodes, NEW k \in DOMAIN children[n],
         Enter(children[n][k]), UNCHANGED <<builder, root>>
  PROVE  Abs!Match(Append(path[n], k))
  <1> DEFINE c == children[n][k]
             s == Append(path[n], k)
  <1> USE DEF IInv
  <1>1. c \in Nodes \ {Root} /\ path[c] = s
    BY ChildNotRoot DEF TrieExact, EdgesSpell
  <1>2. c # Nil
    BY <1>1, ComposeAssumption DEF Nodes, TypeOK
  <1>3. /\ current' = c /\ path' = path /\ defs' = defs /\ reply' = "Accepted"
        /\ result' = results[c]
        /\ status' = IF results[c] # NoResult THEN "Composed" ELSE "Composing"
    BY DEF Enter, builder
  <1>4. (IF current' = Nil THEN <<>> ELSE path'[current']) = s
    BY <1>1, <1>2, <1>3
  <1>5. \A i \in DOMAIN defs : i < next /\ defs[i].out \in Results /\ defs[i].out # NoResult
    <2>1. \A i \in DOMAIN defs : defs[i] \in Definitions /\ i < next
      BY ElementOfSeq DEF Built, TypeOK
    <2>2. QED
      BY <2>1, ComposeAssumption DEF Definitions
  <1>6. CASE results[c] = NoResult
    <2>1. \A i \in DOMAIN defs : defs[i].seq # s
      BY <1>1, <1>5, <1>6 DEF TrieExact, LastOneWins
    <2>2. QED
      BY <1>3, <1>4, <1>6, <2>1 DEF Abs!Match
  <1>7. CASE results[c] # NoResult
    <2>1. PICK i \in DOMAIN defs : /\ defs[i].seq = s
                                   /\ results[c] = defs[i].out
                                   /\ \A j \in DOMAIN defs : (j > i /\ j < next) => defs[j].seq # s
      BY <1>1, <1>7 DEF TrieExact, LastOneWins
    <2>2. Abs!Wins(i, s)
      BY <1>5, <2>1 DEF Abs!Wins
    <2>3. QED
      BY <1>3, <1>4, <1>7, <2>1, <2>2 DEF Abs!Match
  <1>8. QED
    BY <1>6, <1>7

\* A keysym fed to the trie does what the dictionary matcher does with it.
LEMMA FeedRefines ==
  ASSUME IInv, NEW k \in Keysyms, Feed(k)
  PROVE  Abs!Feed(k)
  <1> DEFINE typed == IF current = Nil THEN <<>> ELSE path[current]
  <1> USE DEF IInv
  <1>1. /\ root = Root /\ root # Nil /\ Built /\ Root \in Nodes /\ Cursor \in Nodes
        /\ UNCHANGED <<builder, root>> /\ UNCHANGED <<defs, (root # Nil)>>
    BY ComposeAssumption DEF Feed, StatusAgrees, TypeOK, Cursor, Root, Nodes, builder
  <1>2. path[Cursor] = typed /\ path[Root] = <<>>
    BY <1>1 DEF Cursor, TrieExact
  <1>3. Append(path[Root], k) = <<k>>
    BY <1>2
  <1>4. k \in DOMAIN children[Cursor] <=> Abs!IsOpen(Append(typed, k))
    BY <1>1, <1>2, ChildIffOpen
  <1>5. k \in DOMAIN children[root] <=> Abs!IsOpen(<<k>>)
    BY <1>1, <1>3, ChildIffOpen
  <1>6. ASSUME NEW st, NEW rep, Leave(st, rep)
        PROVE  Abs!Break(st, rep)
    BY <1>6 DEF Leave, Abs!Break
  <1>7. CASE k \in DOMAIN children[Cursor]
    <2>1. Enter(children[Cursor][k])
      BY <1>7 DEF Feed
    <2>2. Abs!Match(Append(typed, k))
      BY <1>1, <1>2, <1>7, <2>1, EnterIsMatch
    <2>3. QED
      BY <1>1, <1>4, <1>7, <2>2 DEF Abs!Feed
  <1>8. CASE k \notin DOMAIN children[Cursor] /\ status = "Composing"
    BY <1>1, <1>4, <1>6, <1>8 DEF Feed, Abs!Feed
  <1>9. CASE /\ k \notin DOMAIN children[Cursor] /\ status # "Composing"
             /\ k \in DOMAIN children[root]
    <2>1. Enter(children[Root][k])
      BY <1>1, <1>9 DEF Feed
    <2>2. Abs!Match(<<k>>)
      BY <1>1, <1>3, <1>9, <2>1, EnterIsMatch
    <2>3. QED
      BY <1>1, <1>4, <1>5, <1>9, <2>2 DEF Abs!Feed
  <1>10. CASE /\ k \notin DOMAIN children[Cursor] /\ status # "Composing"
              /\ k \notin DOMAIN children[root]
    BY <1>1, <1>4, <1>5, <1>6, <1>10 DEF Feed, Abs!Feed
  <1>11. QED
    BY <1>7, <1>8, <1>9, <1>10

\* Each step of the trie implementation is a step of the dictionary matcher
\* or leaves what a client can observe alone.
LEMMA StepRefines == IInv /\ IInv' /\ [Next]_vars => [Abs!Next]_(Abs!vars)
  <1> SUFFICES ASSUME IInv, IInv', [Next]_vars PROVE [Abs!Next]_(Abs!vars)
    OBVIOUS
  <1>1. ASSUME Descend \/ SetResult \/ UNCHANGED vars PROVE UNCHANGED Abs!vars
    <2>1. UNCHANGED <<defs, path, root, current, status, result, reply>>
      BY <1>1 DEF Descend, SetResult, vars, builder, state
    <2>2. QED
      BY <2>1 DEF Abs!vars
  <1>2. ASSUME Allocate PROVE UNCHANGED Abs!vars
    <2>1. UNCHANGED <<defs, root, current, status, result, reply>> /\ ~Built
      BY <1>2 DEF Allocate, state, Walking
    <2>2. current = Nil
      BY <2>1 DEF IInv, StatusAgrees
    <2>3. QED
      BY <2>1, <2>2 DEF Abs!vars
  <1>3. ASSUME NewState PROVE Abs!Attach
    BY <1>3, ComposeAssumption DEF NewState, Abs!Attach, builder, Root
  <1>4. ASSUME FeedNoTable PROVE Abs!FeedDetached
    BY <1>4 DEF FeedNoTable, Abs!FeedDetached, builder
  <1>5. ASSUME Reset PROVE Abs!Reset
    BY <1>5 DEF Reset, Abs!Reset, builder
  <1>6. ASSUME NEW k \in Keysyms, Feed(k) PROVE Abs!Feed(k)
    BY <1>6, FeedRefines
  <1>7. QED
    BY <1>1, <1>2, <1>3, <1>4, <1>5, <1>6 DEF Next, Abs!Next

\* The trie and the pointer into it do what the documentation of the compose
\* state promises, for every Compose file and every sequence of calls.
THEOREM Refinement == Spec => Implements
  <1>1. Init => Abs!Init
    BY DEF Init, Abs!Init
  <1>2. QED
    BY <1>1, StepRefines, Invariance, PTL DEF Spec, Implements, Abs!Spec
=============================================================================

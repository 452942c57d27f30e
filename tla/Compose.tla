------------------------------- MODULE Compose -------------------------------
(***************************************************************************)
(* The compose table and the compose state (compose.go, and                *)
(* buildComposeTable of compose_parser.go).                                *)
(*                                                                         *)
(* The builder inserts the parsed sequences, one keysym per step, into a   *)
(* trie of heap nodes; a ComposeState holds a pointer into the finished    *)
(* trie and moves it on every Feed.  A Go pointer is a number: the nodes   *)
(* are 0..size-1 in order of allocation and 0 is the root.                 *)
(***************************************************************************)
EXTENDS Naturals, Sequences

CONSTANTS
  Keysyms,      \* the keysyms a file may name and a client may feed
  Results,      \* composeResult values: a keysym and a string
  NoResult,     \* a nil *composeResult
  Nil,          \* a nil *composeNode
  DefLists      \* the parsed Compose files: sequences of [seq, out] records

Definitions == [seq : Seq(Keysyms) \ {<<>>}, out : Results]

\* parseLine refuses an empty keysym sequence, so that no definition ends at
\* the root; the two nil values differ from every other value.
ASSUME ComposeAssumption ==
  /\ DefLists \subseteq Seq(Definitions)
  /\ NoResult \notin Results
  /\ Nil \notin Nat

VARIABLES
  defs,         \* composeParser.sequences
  next,         \* the definition the builder is inserting
  pos,          \* how many of its keysyms the builder has walked
  node,         \* the builder's cursor
  size,         \* how many nodes are allocated
  children,     \* composeNode.children of every node
  results,      \* composeNode.result of every node
  path,         \* ghost: the keysyms that lead from the root to a node
  root,         \* ComposeState.table.root: Nil until NewState
  current,      \* ComposeState.current
  status,       \* ComposeState.status
  result,       \* ComposeState.result
  reply         \* what the last Feed returned

builder == <<defs, next, pos, node, size, children, results, path>>
state == <<root, current, status, result, reply>>
vars == <<builder, state>>

Root == 0
Nodes == 0..(size - 1)
NoKids == [k \in {} |-> Root]     \* make(map[Keysym]*composeNode)

Statuses == {"Nothing", "Composing", "Composed", "Cancelled"}
Replies == {"None", "Ignored", "Accepted"}

Built == next > Len(defs)
Walking == ~Built /\ pos < Len(defs[next].seq)
Sym == defs[next].seq[pos + 1]    \* the keysym the builder looks at

Init ==
  /\ defs \in DefLists
  /\ next = 1
  /\ pos = 0
  /\ node = Root
  /\ size = 1
  /\ children = [n \in {Root} |-> NoKids]
  /\ results = [n \in {Root} |-> NoResult]
  /\ path = [n \in {Root} |-> <<>>]
  /\ root = Nil
  /\ current = Nil
  /\ status = "Nothing"
  /\ result = NoResult
  /\ reply = "None"

-----------------------------------------------------------------------------
(* Building the table: one iteration of buildComposeTable's inner loop per  *)
(* step, and one step for the assignment that follows it.                   *)

\* The child exists: the builder moves on to it.
Descend ==
  /\ Walking
  /\ Sym \in DOMAIN children[node]
  /\ node' = children[node][Sym]
  /\ pos' = pos + 1
  /\ UNCHANGED <<defs, next, size, children, results, path, state>>

\* The child does not exist: the builder allocates it and moves on to it.
Allocate ==
  /\ Walking
  /\ Sym \notin DOMAIN children[node]
  /\ children' = [n \in 0..size |->
       IF n = size THEN NoKids
       ELSE IF n = node
            THEN [k \in DOMAIN children[n] \cup {Sym} |->
                    IF k = Sym THEN size ELSE children[n][k]]
            ELSE children[n]]
  /\ results' = [n \in 0..size |-> IF n = size THEN NoResult ELSE results[n]]
  /\ path' = [n \in 0..size |-> IF n = size THEN Append(path[node], Sym) ELSE path[n]]
  /\ size' = size + 1
  /\ node' = size
  /\ pos' = pos + 1
  /\ UNCHANGED <<defs, next, state>>

\* Faults of SetResult, which the properties must notice: the walk does not
\* start again, or the first of two definitions wins.
SetResultKeepsPos ==
  /\ ~Built
  /\ pos = Len(defs[next].seq)
  /\ results' = [results EXCEPT ![node] = defs[next].out]
  /\ next' = next + 1
  /\ node' = Root
  /\ UNCHANGED <<defs, pos, size, children, path, state>>
SetResultOnce ==
  /\ ~Built
  /\ pos = Len(defs[next].seq)
  /\ results' = [results EXCEPT ![node] = IF @ = NoResult THEN defs[next].out ELSE @]
  /\ next' = next + 1
  /\ pos' = 0
  /\ node' = Root
  /\ UNCHANGED <<defs, size, children, path, state>>

\* The sequence is walked: its result replaces what the node held.
SetResult ==
  /\ ~Built
  /\ pos = Len(defs[next].seq)
  /\ results' = [results EXCEPT ![node] = defs[next].out]
  /\ next' = next + 1
  /\ pos' = 0
  /\ node' = Root
  /\ UNCHANGED <<defs, size, children, path, state>>

-----------------------------------------------------------------------------
(* Using the table.                                                         *)

\* ComposeTable.NewState: the previous state of this client, if it had one,
\* is dropped.
NewState ==
  /\ Built
  /\ root' = Root
  /\ current' = Nil
  /\ status' = "Nothing"
  /\ result' = NoResult
  /\ reply' = "None"
  /\ UNCHANGED builder

\* The two places of Feed that move to the child n.
Enter(n) ==
  /\ current' = n
  /\ status' = IF results[n] # NoResult THEN "Composed" ELSE "Composing"
  /\ result' = results[n]
  /\ reply' = "Accepted"

\* A fault of Leave: the state stays at its node.
LeaveStays(st, rep) ==
  /\ status' = st
  /\ result' = NoResult
  /\ reply' = rep
  /\ UNCHANGED current

Leave(st, rep) ==
  /\ current' = Nil
  /\ status' = st
  /\ result' = NoResult
  /\ reply' = rep

\* A fault of Cursor: a composed sequence cannot be continued.
CursorAfterResult == IF status # "Composing" THEN root ELSE current

\* Feed starts from the root when no sequence is in progress.
Cursor == IF current = Nil THEN root ELSE current

\* ComposeState.Feed on a state that NewState made.
Feed(k) ==
  /\ root # Nil
  /\ UNCHANGED <<builder, root>>
  /\ IF k \in DOMAIN children[Cursor] THEN Enter(children[Cursor][k])
     ELSE IF status = "Composing" THEN Leave("Cancelled", "Accepted")
     ELSE IF k \in DOMAIN children[root] THEN Enter(children[root][k])
     ELSE Leave("Nothing", "Ignored")

\* ComposeState.Feed on a zero ComposeState, whose table is nil.
FeedNoTable ==
  /\ root = Nil
  /\ status' = "Nothing"
  /\ reply' = "Ignored"
  /\ UNCHANGED <<builder, root, current, result>>

\* ComposeState.Reset.
Reset ==
  /\ current' = Nil
  /\ status' = "Nothing"
  /\ result' = NoResult
  /\ UNCHANGED <<builder, root, reply>>

\* What GetOneSym and GetUTF8 return.
GetResult == IF status # "Composed" THEN NoResult ELSE result

Next ==
  \/ Descend
  \/ Allocate
  \/ SetResult
  \/ NewState
  \/ \E k \in Keysyms : Feed(k)
  \/ FeedNoTable
  \/ Reset

\* buildComposeTable runs to its end: nothing in its loop blocks or waits.
Spec == Init /\ [][Next]_vars

-----------------------------------------------------------------------------
(* Properties.                                                              *)

\* The documented behaviour, with the path of the current node as the match
\* in progress.
Abs == INSTANCE ComposeSpec WITH
         attached <- (root # Nil),
         typed <- (IF current = Nil THEN <<>> ELSE path[current])

\* Every variable holds a value of its Go type, every pointer points at an
\* allocated node, and the builder's indices stay inside what they index.
TypeOK ==
  /\ defs \in Seq(Definitions)
  /\ next \in 1..(Len(defs) + 1)
  /\ pos \in Nat
  /\ ~Built => pos <= Len(defs[next].seq)
  /\ size \in Nat \ {0}
  /\ node \in Nodes
  /\ DOMAIN children = Nodes
  /\ \A n \in Nodes : /\ DOMAIN children[n] \subseteq Keysyms
                      /\ children[n] \in [DOMAIN children[n] -> Nodes]
  /\ results \in [Nodes -> Results \cup {NoResult}]
  /\ path \in [Nodes -> Seq(Keysyms)]
  /\ root \in {Nil, Root}
  /\ current \in Nodes \cup {Nil}
  /\ status \in Statuses
  /\ result \in Results \cup {NoResult}
  /\ reply \in Replies

\* A child's path is its parent's path and the keysym of the edge.
EdgesSpell ==
  \A n \in Nodes : \A k \in DOMAIN children[n] :
    path[children[n][k]] = Append(path[n], k)

\* No two nodes stand for the same keysyms.
OneNodePerPath == \A m, n \in Nodes : path[m] = path[n] => m = n

\* Every node but the root hangs on an edge.
NoOrphan ==
  \A n \in Nodes \ {Root} :
    \E m \in Nodes : \E k \in DOMAIN children[m] : children[m][k] = n

\* Definition i has been walked at least n keysyms deep.
Walked(i, n) == i < next \/ (i = next /\ n <= pos)

\* Each node below the root begins some definition the builder has walked.
OnlyPrefixes ==
  \A n \in Nodes \ {Root} : \E i \in DOMAIN defs :
    Abs!Begins(path[n], defs[i]) /\ Walked(i, Len(path[n]))

\* Each beginning the builder has walked has its node.
AllPrefixes ==
  \A i \in DOMAIN defs : \A m \in 0..Len(defs[i].seq) :
    Walked(i, m) => \E n \in Nodes : Len(path[n]) = m /\ Abs!Begins(path[n], defs[i])

\* A node holds the result of the last inserted definition that ends at it,
\* and none when no inserted definition does (compose_parser.go: "later
\* definitions override earlier ones").
LastOneWins ==
  \A n \in Nodes :
    \/ /\ results[n] = NoResult
       /\ \A i \in DOMAIN defs : i < next => defs[i].seq # path[n]
    \/ \E i \in DOMAIN defs :
         /\ i < next
         /\ defs[i].seq = path[n]
         /\ results[n] = defs[i].out
         /\ \A j \in DOMAIN defs : (j > i /\ j < next) => defs[j].seq # path[n]

\* The trie the builder has made so far stands for exactly the definitions it
\* has inserted: overlapping, nested and repeated sequences in any order share
\* nodes without losing or inventing a sequence.
TrieExact ==
  /\ path[Root] = <<>>
  /\ EdgesSpell
  /\ OneNodePerPath
  /\ NoOrphan
  /\ OnlyPrefixes
  /\ AllPrefixes
  /\ LastOneWins

\* After any run of Feed and Reset calls the status a client reads agrees
\* with where the state really is: a sequence is in progress exactly when
\* there is a node, "Composed" is shown exactly on a node that has a result,
\* and a client gets a result exactly then (doc comments of Feed, GetOneSym
\* and GetUTF8).
StatusAgrees ==
  /\ current = Nil <=> status \in {"Nothing", "Cancelled"}
  /\ current # Nil => /\ root = Root
                      /\ Built
                      /\ current # Root
                      /\ result = results[current]
  /\ status = "Composed" <=> GetResult # NoResult
  /\ root # Nil => Built

\* The compose state does what its documentation promises (compose.go, Feed).
Implements == Abs!Spec

\* The builder's cursor stands on the part of the definition it has walked.
CursorOK ==
  IF Built THEN node = Root
  ELSE Len(path[node]) = pos /\ Abs!Begins(path[node], defs[next])

\* The inductive invariant of the proofs in ComposeProofs.
IInv == TypeOK /\ TrieExact /\ CursorOK /\ StatusAgrees
=============================================================================

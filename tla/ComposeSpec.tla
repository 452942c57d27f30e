----------------------------- MODULE ComposeSpec -----------------------------
(***************************************************************************)
(* What a compose state promises its caller (compose.go, doc comments of   *)
(* Feed and Reset): the keysyms typed since the last break are matched     *)
(* against a dictionary of key sequences.  There is no trie here and no    *)
(* node pointer; the matcher remembers the keysyms themselves.             *)
(***************************************************************************)
EXTENDS Naturals, Sequences

CONSTANTS
  Keysyms,      \* the keysyms a client may feed
  Results,      \* what a sequence may compose to (a keysym and a string)
  NoResult,     \* a nil result
  DefLists      \* the parsed Compose files: sequences of definitions

VARIABLES
  defs,         \* the definitions of the table, in file order
  attached,     \* FALSE: the state is a zero value that has no table
  typed,        \* the keysyms of the match in progress
  status,       \* GetStatus
  result,       \* what GetOneSym and GetUTF8 read
  reply         \* what the last Feed returned

vars == <<defs, attached, typed, status, result, reply>>

Statuses == {"Nothing", "Composing", "Composed", "Cancelled"}
Replies == {"None", "Ignored", "Accepted"}

\* s is the beginning of definition d.
Begins(s, d) == /\ Len(s) <= Len(d.seq)
                /\ \A j \in 1..Len(s) : s[j] = d.seq[j]

\* Some definition of the table begins with s.
IsOpen(s) == \E i \in DOMAIN defs : Begins(s, defs[i])

\* Definition i is the one that counts for s: a later one overrides it.
Wins(i, s) == /\ i \in DOMAIN defs
              /\ defs[i].seq = s
              /\ \A j \in DOMAIN defs : j > i => defs[j].seq # s

Init ==
  /\ defs \in DefLists
  /\ attached = FALSE
  /\ typed = <<>>
  /\ status = "Nothing"
  /\ result = NoResult
  /\ reply = "None"

\* A fresh state for the table.
Attach ==
  /\ attached' = TRUE
  /\ typed' = <<>>
  /\ status' = "Nothing"
  /\ result' = NoResult
  /\ reply' = "None"
  /\ UNCHANGED defs

\* The match goes on, or begins, with the keysyms s.
Match(s) ==
  /\ typed' = s
  /\ reply' = "Accepted"
  /\ \/ \E i \in DOMAIN defs : /\ Wins(i, s)
                               /\ status' = "Composed"
                               /\ result' = defs[i].out
     \/ /\ \A i \in DOMAIN defs : defs[i].seq # s
        /\ status' = "Composing"
        /\ result' = NoResult

\* No match is in progress any more.
Break(st, rep) ==
  /\ typed' = <<>>
  /\ status' = st
  /\ result' = NoResult
  /\ reply' = rep

Feed(k) ==
  /\ attached
  /\ UNCHANGED <<defs, attached>>
  /\ \/ IsOpen(Append(typed, k)) /\ Match(Append(typed, k))
     \/ /\ ~IsOpen(Append(typed, k))
        /\ \/ status = "Composing" /\ Break("Cancelled", "Accepted")
           \/ status # "Composing" /\ IsOpen(<<k>>) /\ Match(<<k>>)
           \/ status # "Composing" /\ ~IsOpen(<<k>>) /\ Break("Nothing", "Ignored")

FeedDetached ==
  /\ ~attached
  /\ status' = "Nothing"
  /\ reply' = "Ignored"
  /\ UNCHANGED <<defs, attached, typed, result>>

Reset ==
  /\ typed' = <<>>
  /\ status' = "Nothing"
  /\ result' = NoResult
  /\ UNCHANGED <<defs, attached, reply>>

Next ==
  \/ Attach
  \/ \E k \in Keysyms : Feed(k)
  \/ FeedDetached
  \/ Reset

Spec == Init /\ [][Next]_vars
=============================================================================

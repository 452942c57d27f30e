------------------------------ MODULE KeyTable ------------------------------
(***************************************************************************)
(* What the key statements of an xkb_symbols section mean, without key     *)
(* types, filler groups or the merging of Go values: a table that says,    *)
(* for each keycode and group, which keysyms the key has.  A statement     *)
(* writes the groups it lists and nothing else, and an entry that is no    *)
(* keysym leaves what was at its level.                                    *)
(***************************************************************************)
EXTENDS Naturals, Sequences

CONSTANTS
  Names,        \* key names
  Keycodes,     \* every keycode that can come up
  Groups,       \* every group that can come up
  Syms,         \* the keysyms
  NoSymbol,     \* an entry that is no keysym
  Listings,     \* what a key statement may list: a group to its entries
  Offsets       \* by how much a layout's groups may be shifted

VARIABLES
  code,         \* the keycode of each name that has one
  offset,       \* the shift of the layout being read
  table         \* keycode and group to a sequence of entries

vars == <<code, offset, table>>

Init ==
  /\ code = [n \in {} |-> 0]
  /\ offset = 0
  /\ table = [c \in Keycodes |-> [g \in Groups |-> <<>>]]

Called(n, c) == [m \in DOMAIN code \cup {n} |-> IF m = n THEN c ELSE code[m]]

\* The statements that give a name to a keycode.
Name ==
  /\ \E n \in Names, c \in Keycodes : code' = Called(n, c)
  /\ UNCHANGED <<offset, table>>

\* The next layout's statements are for other groups.
Shift ==
  /\ offset' \in Offsets
  /\ UNCHANGED <<code, table>>

\* What a group that holds old has after a statement that lists new for it.
Overlay(old, new) ==
  IF new = <<>> THEN old
  ELSE [i \in DOMAIN new |->
          IF new[i] \in Syms THEN new[i]
          ELSE IF i \in DOMAIN old THEN old[i]
          ELSE NoSymbol]

\* A key statement for the name n; a name that has no keycode gets one.
Define(n, lists) ==
  \E c \in Keycodes :
    /\ n \in DOMAIN code => c = code[n]
    /\ code' = Called(n, c)
    /\ table' = [table EXCEPT ![c] = [g \in Groups |->
                   IF g \in {h + offset : h \in DOMAIN lists}
                   THEN Overlay(@[g], lists[g - offset]) ELSE @[g]]]
    /\ UNCHANGED offset

Next ==
  \/ Name
  \/ Shift
  \/ \E n \in Names, lists \in Listings : Define(n, lists)

Spec == Init /\ [][Next]_vars
=============================================================================

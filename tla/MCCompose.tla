------------------------------ MODULE MCCompose ------------------------------
(***************************************************************************)
(* Compose for TLC: every file of up to two sequences of up to three       *)
(* keysyms, and every file of three sequences of up to two keysyms.        *)
(***************************************************************************)
EXTENDS Compose

SeqsUpTo(n) == UNION {[1..m -> Keysyms] : m \in 1..n}
Files(lines, n) == UNION {[1..m -> [seq : SeqsUpTo(n), out : Results]] : m \in 0..lines}

MCDefLists == Files(2, 3) \cup Files(3, 2)
=============================================================================

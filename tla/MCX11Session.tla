---------------------------- MODULE MCX11Session ----------------------------
(***************************************************************************)
(* X11Session for TLC: two goroutines, one of which calls twice, so that   *)
(* its second call meets what its first one left on the wire.              *)
(***************************************************************************)
EXTENDS X11Session

Calls == [c \in Callers |-> IF c = "twice" THEN 2 ELSE 1]

\* Of the two ranges, the first keymap has the narrow one: nothing depends on
\* more than whether two ranges are the same.
InitNarrow == Init /\ rangeOf[0] = "narrow"
NarrowFirst == InitNarrow /\ [][Next]_vars /\ Fairness
=============================================================================

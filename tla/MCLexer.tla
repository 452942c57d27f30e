------------------------------ MODULE MCLexer ------------------------------
(***************************************************************************)
(* Lexer for TLC: short texts over one or two runes of each kind (233 and  *)
(* 215 have two bytes, and 215 is no letter), and longer ones of comments, *)
(* of strings and of numbers.                                              *)
(***************************************************************************)
EXTENDS Lexer

Upto(n, runes) == UNION {[1..k -> runes] : k \in 0..n}
Short == Upto(3, {NL, 32, Quote, Backslash, Slash, Star, 48, 55, 57, 60, 62, 97, 120, 123, 64, 233})
Lines == Upto(4, {NL, 32, Quote, Slash, 48, 60, 97, 233})
Comments == Upto(6, {NL, Slash, Star, 97})
Strings == {<<Quote>> \o s : s \in Upto(5, {Quote, Backslash, 55, 120, NL})}
Numbers == {<<48>> \o s : s \in Upto(3, {48, 57, 120, 97, 233, 215, 32})}
MCTexts == Short \cup Lines \cup Comments \cup Strings \cup Numbers
=============================================================================

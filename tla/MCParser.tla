------------------------------ MODULE MCParser ------------------------------
(***************************************************************************)
(* Parser for TLC: any text over all kinds of token, but for words that    *)
(* are parsed as another one is.                                           *)
(***************************************************************************)
EXTENDS Parser
MCTokens == Kinds \ {"error", "include", "group_offset", "virtual", "preserve"}
=============================================================================

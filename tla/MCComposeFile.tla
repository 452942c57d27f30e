---------------------------- MODULE MCComposeFile ----------------------------
(***************************************************************************)
(* ComposeFile for TLC: two files of up to two lines and one of up to one  *)
(* line, which may also not be readable, with all the lines below.         *)
(***************************************************************************)
EXTENDS ComposeFile

Def(k, hash, out) == [is |-> "line", keys |-> <<k>>, colon |-> TRUE, hash |-> hash, out |-> out]
Incl(tries) == [is |-> "include", tries |-> tries]

MCLines == {Def("a", "comment", "r1"), Def("b", "quoted", "r2"),
            [is |-> "blank"], [is |-> "long"],
            Incl(<<"home">>), Incl(<<"nofile", "system">>), Incl(<<"other", "home">>)}

UpTo(n) == UNION {[1..m -> MCLines] : m \in 0..n}

MCDisks ==
  {[p \in {"home", "system", "other"} |->
      CASE p = "home" -> h [] p = "system" -> s [] p = "other" -> o] :
     h \in UpTo(2), s \in UpTo(2), o \in UpTo(1) \cup {Unreadable}}
  \cup {[p \in {"system"} |-> s] : s \in UpTo(1)}

Locale(xcomposefile) ==
  [xcomposefile |-> xcomposefile, home |-> "home", direct |-> <<"nofile">>,
   mapped |-> <<>>, fallback |-> <<"system">>]
MCPlaces == {[file |-> "home"], Locale(Nowhere), Locale("other")}
=============================================================================

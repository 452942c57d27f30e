--------------------------- MODULE MCKeymapBuild ---------------------------
(***************************************************************************)
(* KeymapBuild for TLC.  The bodies have one and two groups, lists that    *)
(* are shorter and longer than what they are merged with, the entries any  *)
(* and NoSymbol in each, and type and repeat clauses.                      *)
(***************************************************************************)
EXTENDS KeymapBuild

Body(lists, typs, repeat) == [lists |-> lists, types |-> typs, repeat |-> repeat]
Plain(syms) == Body(0 :> syms, Empty, "none")

Entry(mods, level) == [mods |-> mods, level |-> level]
Type(name, mods, entries, named) == [name |-> name, mods |-> mods, entries |-> entries, named |-> named]
OneLevel == Type("ONE_LEVEL", {"none"}, <<>>, {1})
TwoLevel == Type("TWO_LEVEL", {"Shift"}, <<Entry({"Shift"}, 2)>>, {})

MCTypes == {OneLevel, TwoLevel}
MCBodies ==
  {Plain(<<"a", "b">>),
   Plain(<<"any", "any", "a">>),
   Body(1 :> <<"b">>, Empty, "none"),
   Body(0 :> <<"none", "a">> @@ 1 :> <<"any">>, 0 :> "ONE_LEVEL" @@ 1 :> "TWO_LEVEL", "no"),
   Body(Empty, 0 :> "TWO_LEVEL", "yes")}
=============================================================================

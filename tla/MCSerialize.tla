---------------------------- MODULE MCSerialize ----------------------------
(***************************************************************************)
(* Serialize for TLC: texts of three statements in any order of sections.  *)
(* The key bodies have no, one and two groups, types with few and many     *)
(* levels, and keysyms that are read as themselves, as another, as none,   *)
(* as a blank before and at the end of a list, and as an error; two names  *)
(* share keycodes; a type has entries for real, virtual and no modifiers   *)
(* and for the levels at the ends of their range.                          *)
(***************************************************************************)
EXTENDS Serialize

Body(lists, typs, repeat) == [lists |-> lists, types |-> typs, repeat |-> repeat]
MCBodies ==
  {Body(0 :> <<"twin", "shift", "any">>, Empty, "none"),
   Body(0 :> <<"none", "a">> @@ 1 :> <<"letter">>, 0 :> "ONE_LEVEL" @@ 1 :> "MANY", "no"),
   Body(0 :> <<"a", "space">> @@ 1 :> <<"space">>, 0 :> "MANY", "none"),
   Body(0 :> <<"space", "a">>, Empty, "no"),
   Body(0 :> <<"sign">>, Empty, "yes"),
   Body(Empty, Empty, "no")}

Entry(mods, level) == [mods |-> mods, level |-> level]
Type(name, mods, entries, named) == [name |-> name, mods |-> mods, entries |-> entries, named |-> named]
MCTypes ==
  {Type("ONE_LEVEL", {"none"}, <<Entry({"none"}, 1)>>, {1}),
   Type("MANY", {"Shift", "AltGr", "Bound"},
        <<Entry({"Shift"}, 2), Entry({"none"}, 1), Entry({"AltGr"}, 256), Entry({"Mod3", "Bound"}, 0)>>, {3})}
MCVMods == {[name |-> "Bound", mask |-> {3}], [name |-> "Free", mask |-> {14}]}

Interpretation(sym, cond, repeat) == [sym |-> sym, cond |-> cond, repeat |-> repeat]
MCInterprets ==
  {Interpretation("a", FALSE, "none"), Interpretation("a", FALSE, "no"),
   Interpretation("a", TRUE, "no"), Interpretation("shift", TRUE, "yes")}
MCNamesakes == "twin" :> "a"
MCLedMods == {{"Lock"}, {"Free", "Shift"}, {"none"}}
=============================================================================

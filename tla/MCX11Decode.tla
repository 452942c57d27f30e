---------------------------- MODULE MCX11Decode ----------------------------
(***************************************************************************)
(* X11Decode for TLC: four keyboards, one with every kind of section, one  *)
(* with none of the optional ones, one whose sections have odd lengths and *)
(* one whose map ends with the padding of such a section; every cut and    *)
(* every changed byte of their replies.                                    *)
(***************************************************************************)
EXTENDS X11Decode

Atom(i) == <<i, 0, 0, 0>>
MCAtomNames == [a \in {Atom(i) : i \in 1..4} |->
  CASE a = Atom(1) -> <<"ONE_LEVEL">> [] a = Atom(2) -> <<"TWO_LEVEL">>
    [] a = Atom(3) -> <<"Alt">> [] OTHER -> <<"us">>]

Plain == [mods |-> {}, vmods |-> {}, levels |-> 1, preserve |-> FALSE, entries |-> <<>>]
Shifted == [mods |-> {0}, vmods |-> {1}, levels |-> 2, preserve |-> TRUE, entries |-> <<
  [level |-> 1, mods |-> {0}, vmods |-> {}, keeps |-> {0}, vkeeps |-> {}],
  [level |-> 1, mods |-> {}, vmods |-> {1}, keeps |-> {}, vkeeps |-> {1}]>>]

KeyOf(name, types, width, syms) ==
  [name |-> name, types |-> types, width |-> width, syms |-> [i \in DOMAIN syms |-> <<syms[i], 0, 0, 1>>]]

Full ==
  [min |-> 8, parts |-> {KeyTypes, KeySyms, ModifierMaps, VirtualMods, KeyAliases, GroupNames},
   types |-> <<Plain, Shifted>>,
   keys |-> <<KeyOf(<<65, 67, 48, 49>>, <<1, 0>>, 2, <<97, 65, 98, 0>>),
              KeyOf(<<65>>, <<0>>, 1, <<99>>),
              KeyOf(<<>>, <<>>, 0, <<>>)>>,
   vmods |-> (1 :> {3} @@ 4 :> {4, 6}),
   modmap |-> <<[code |-> 8, mods |-> {0}], [code |-> 9, mods |-> {3}], [code |-> 8, mods |-> {2}]>>,
   typeNames |-> <<Atom(1), Atom(2)>>,
   vmodNames |-> (0 :> Atom(9) @@ 1 :> Atom(3)),
   groupNames |-> (0 :> Atom(4) @@ 2 :> Atom(3)),
   aliases |-> <<[real |-> <<65>>, alias |-> <<66>>], [real |-> <<66>>, alias |-> <<66, 67>>],
                 [real |-> <<90>>, alias |-> <<89>>]>>,
   groups |-> 2, repeats |-> {9}]

Bare ==
  [Full EXCEPT !.parts = {KeyTypes, KeySyms}, !.typeNames = <<Atom(9)>>, !.repeats = {8, 10}]

Odd ==
  [Full EXCEPT !.keys = <<@[2]>>, !.vmods = (0 :> {5} @@ 1 :> {3, 5} @@ 2 :> {7}),
     !.modmap = <<[code |-> 8, mods |-> {1}]>>, !.aliases = <<>>, !.groups = 1,
     !.parts = @ \ {GroupNames}]

Padded == [Odd EXCEPT !.parts = @ \ {ModifierMaps}]

MCKeyboards == {Full, Bare, Odd, Padded}
=============================================================================

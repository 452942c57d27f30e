----------------------------- MODULE MCKeyState -----------------------------
(***************************************************************************)
(* KeyState for TLC: two modifier bits, a Group type of four values, and   *)
(* keymaps whose keys differ in the number of groups and of levels.        *)
(***************************************************************************)
EXTENDS KeyState, TLC

One == [mods |-> {}, entries |-> <<>>]
Two == [mods |-> {"Shift"}, entries |-> <<[mods |-> {"Shift"}, level |-> 1]>>]
\* Level0 in a key type becomes level 255; a duplicate entry never matches.
Odd == [mods |-> {"Shift", "Lock"},
        entries |-> <<[mods |-> {"Shift"}, level |-> 2],
                      [mods |-> {"Shift", "Lock"}, level |-> 255],
                      [mods |-> {"Shift"}, level |-> 0]>>]

Group(type, levels) == [type |-> type, levels |-> levels]

Keys ==
  1 :> <<Group(Two, <<<<"a">>, <<"A">>>>)>>
  @@ 2 :> <<Group(Two, <<<<"b">>, <<"B">>>>), Group(Odd, <<<<"x">>, <<"y">>, <<"z", "z">>>>)>>
  @@ 3 :> <<Group(NoType, <<>>), Group(One, <<<<"c">>>>), Group(Odd, <<<<"d">>>>)>>
  @@ 4 :> <<>>

MCLEDs == [n \in {"Caps", "Second"} |->
           IF n = "Caps" THEN [mods |-> {"Lock"}, group |-> 0] ELSE [mods |-> {}, group |-> 1]]

MCMasks == {{}, {"Shift"}, {"Shift", "Lock"}}
MCGroups == {0, 1, 3}

MCKeymaps == {[numGroups |-> n, leds |-> MCLEDs, keys |-> Keys] : n \in {0, 2, 3, 6}}
=============================================================================

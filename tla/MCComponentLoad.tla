--------------------------- MODULE MCComponentLoad ---------------------------
(***************************************************************************)
(* ComponentLoad for TLC: layouts that the user and the system both have,  *)
(* that include themselves, a shifted layout, or a file that is nowhere.   *)
(***************************************************************************)
EXTENDS ComponentLoad

Part(file, section, offset) == [file |-> file, section |-> section, offset |-> offset]
Plain(file) == Part(file, Default, 0)
Stmt(text) == [text |-> text, include |-> NoInclude]
Incl(spec) == [text |-> "include", include |-> spec]
Sect(name, lines) == [name |-> name, lines |-> lines]

System ==
  <<"keycodes", "evdev">> :> <<Sect("evdev", <<Stmt("k1"), Incl(Plain("evdev"))>>)>>
  @@ <<"types", "all">> :> <<Sect("all", <<Incl(Plain("none")), Stmt("t1")>>)>>
  @@ <<"compat", "all">> :> <<Sect("all", <<Stmt("c1")>>)>>
  @@ <<"symbols", "de">> :> <<Sect("basic", <<Stmt("de1")>>),
                              Sect("e1", <<Incl(Plain("de")), Stmt("de2")>>),
                              Sect("bad", Missing)>>
  @@ <<"symbols", "pc">> :> <<Sect("pc", <<Incl(Part("de", Default, 1)), Stmt("pc1"), Incl(Plain(NoFile))>>)>>
User ==
  <<"symbols", "de">> :> <<Sect("basic", <<Stmt("my1")>>)>>

MCDisk == [d \in Dirs |-> IF d = "system" THEN System ELSE User]

Ask(types, symbols) == [k \in Range(Kinds) |->
  CASE k = "keycodes" -> <<Plain("evdev")>>
    [] k = "types"    -> types
    [] k = "compat"   -> <<Plain("all")>>
    [] k = "symbols"  -> symbols]

MCRequests ==
  {Ask(<<Plain("all")>>, s) :
     s \in {<<Plain("pc"), Part("de", "e1", 2), Plain("de")>>,
            <<Part("pc", Default, 1)>>,
            <<Plain("de"), Part("de", "bad", 0)>>}}
  \cup {Ask(<<>>, <<Plain("de")>>)}

MCFirstPaths == {<<>>, <<"system">>, <<"user", "system">>}
=============================================================================

----------------------------- MODULE Serialize -----------------------------
(***************************************************************************)
(* Keymap.GetAsString (keymap.go) and what becomes of a keymap that is     *)
(* written and read again ("The returned string can be passed to           *)
(* NewKeymapFromString").  A first text builds a keymap in the variables   *)
(* of KeymapBuild; the keymap is written as a sequence of statements; and  *)
(* a new Parser reads these into the same variables, beginning anew.       *)
(***************************************************************************)
EXTENDS KeymapBuild

CONSTANTS
  Namesakes,       \* keysyms whose text is that of another, and that one
  UnicodeLetters,  \* keysyms without a name whose rune is a letter, not of ASCII
  Blanks,          \* keysyms without a name whose rune is white space
  Garbled,         \* keysyms whose text is not one identifier or number
  FirstStatements  \* bound: statements of the first text, before all those
                   \* of the second

ASSUME SerializeAssumption ==
  /\ FirstStatements \in Nat
  /\ UnicodeLetters \cup Blanks \cup Garbled \subseteq Syms
  /\ DOMAIN Namesakes \subseteq Syms /\ Namesakes \in [DOMAIN Namesakes -> Syms]
  /\ DOMAIN Namesakes \cap (UnicodeLetters \cup Blanks \cup Garbled) = {}
  /\ UnicodeLetters \cap Blanks = {} /\ Garbled \cap (UnicodeLetters \cup Blanks) = {}
  /\ {"blank", "unreadable"} \cap (Syms \cup {NoSymbol, AnySym}) = {}
  /\ \A t \in TypeDefs : t.entries \in Seq(Range(t.entries))
  /\ NoType \notin [name : {t.name : t \in TypeDefs}, levels : 1..256]

VARIABLES
  first,  \* the Keymap that was written, Empty before that
  text    \* the statements that are still to be read

allVars == <<vars, first, text>>

SInit == Init /\ first = Empty /\ text = <<>>

-----------------------------------------------------------------------------
(* Writing.                                                                 *)

\* keysymToStr, and parseKeysym of what it gives: a name, else the rune of a
\* Unicode keysym, else a number.  The name may be another keysym's too, as
\* an ASCII letter, a digit and _ are.  Another letter is no name of a keysym.
\* The names that begin with 3270 are a number and an identifier, and the
\* other runes no keysym at all.  (No sym stands for the rune ], which would
\* end its list.)
Blank == "blank"
Unreadable == "unreadable"
ReadsAs(sym) == CASE sym \in DOMAIN Namesakes -> Namesakes[sym]
                  [] sym \in UnicodeLetters -> NoSymbol
                  [] sym \in Blanks -> Blank
                  [] sym \in Garbled -> Unreadable
                  [] OTHER -> sym

\* parseSymbolList of a list of keysyms: nothing need follow the last comma.
ReadLength(syms) == Len(syms) - (IF syms # <<>> /\ ReadsAs(Last(syms)) = Blank THEN 1 ELSE 0)
AsRead(syms) == [i \in 1..ReadLength(syms) |-> ReadsAs(syms[i])]

\* modMaskToString: the real modifiers, and the virtual ones that have none
\* of the real ones in it.
RealNames == {"Shift", "Lock", "Control", "Mod1", "Mod2", "Mod3", "Mod4", "Mod5"}
MaskText(mask) ==
  LET virtual == {v \in DOMAIN virtualMods : virtualMods[v] \cap mask # {} /\ virtualMods[v] \cap mask \cap Real = {}}
      names == {m \in RealNames : Standard(m) \subseteq mask} \cup virtual
  IN IF names = {} THEN {"none"} ELSE names

\* A fault of InRange: the end of the range is left out.
InRangeBelow == {c \in DOMAIN nameOf : range.min <= c /\ c < range.max}

InRange == {c \in DOMAIN nameOf : range.min <= c /\ c <= range.max}
Each(set, StatementOf(_)) == [i \in 1..Cardinality(set) |-> StatementOf(SetToSeq(set)[i])]
\* The i-th of a set of numbers.
Nth(set, i) == CHOOSE c \in set : Cardinality({d \in set : d < c}) = i - 1
EachCode(set, StatementOf(_)) == [i \in 1..Cardinality(set) |-> StatementOf(Nth(set, i))]
Section(s) == <<[is |-> "section", section |-> s]>>

KeycodesText ==
  Section("keycodes") \o
  <<[is |-> "minimum", code |-> range.min], [is |-> "maximum", code |-> range.max]>> \o
  EachCode(InRange, LAMBDA c : [is |-> "keycode", name |-> nameOf[c], code |-> c]) \o
  Each({l \in DOMAIN leds : leds[l].index > 0}, LAMBDA l : [is |-> "led", name |-> l, code |-> leds[l].index])

VModsText(s) == Each(DOMAIN virtualMods, LAMBDA v : [is |-> "vmod", section |-> s, name |-> v])

\* Entries for no modifier, level names and what is preserved are not kept.
Written(entries) == EachCode({i \in DOMAIN entries : entries[i].mods # {}}, LAMBDA i : entries[i])
TypeText(n) ==
  LET written == Written(types[n].entries)
  IN [is |-> "type", type |-> [name |-> n, mods |-> MaskText(types[n].mods), named |-> {},
        entries |-> [i \in DOMAIN written |->
          [mods |-> MaskText(written[i].mods), level |-> (written[i].level + 1) % 256]]]]

TypesText == Section("types") \o VModsText("types") \o Each(DOMAIN types, TypeText)

CompatText ==
  Section("compat") \o VModsText("compat") \o
  Each(DOMAIN leds, LAMBDA l : [is |-> "indicator", name |-> l, mods |-> MaskText(leds[l].mods)])

\* Each group has a type clause that does not say which group it is for, so
\* that the last one counts, and for the first group.
BodyText(groups) ==
  [lists |-> [g \in 0..Len(groups) - 1 |-> AsRead(groups[g + 1].syms)],
   types |-> [g \in {0} |-> Last(groups).type.name], repeat |-> "none"]

KeyText(c) ==
  LET body == BodyText(keys[c].groups) IN
  IF \E g \in DOMAIN body.lists : Range(body.lists[g]) \cap {Blank, Unreadable} # {}
  THEN [is |-> "bad key", name |-> nameOf[c]]
  ELSE [is |-> "key", name |-> nameOf[c], body |-> body]

\* A key that has no group is left out.
WrittenKeys == {c \in DOMAIN keys \cap InRange : keys[c].groups # <<>>}
NamedGroups == {i \in DOMAIN groupNames : groupNames[i] # Unnamed}
SymbolsText ==
  Section("symbols") \o
  EachCode(NamedGroups, LAMBDA i : [is |-> "group", group |-> i - 1]) \o
  EachCode(WrittenKeys, KeyText)

Keymap ==
  [nameOf |-> nameOf, codeOf |-> codeOf, range |-> range, types |-> types, leds |-> leds, keys |-> keys,
   groupNames |-> groupNames]

\* GetAsString of a keymap that was read without an error, and the beginning
\* of NewKeymapFromString.
Write ==
  /\ done
  /\ ~failed
  /\ first = Empty
  /\ first' = Keymap
  /\ text' = KeycodesText \o TypesText \o CompatText \o SymbolsText
  /\ section' = "none" /\ saw' = {} /\ count' = 0
  /\ nameOf' = Empty /\ codeOf' = Empty /\ range' = [min |-> 8, max |-> 255]
  /\ types' = Empty /\ virtualMods' = Empty /\ leds' = Empty
  /\ keys' = Empty /\ numGroups' = 1 /\ groupNames' = <<Unnamed, Unnamed, Unnamed, Unnamed>> /\ groupOffset' = 0
  /\ interprets' = <<>> /\ default' = [repeat |-> TRUE, set |-> FALSE]
  /\ failed' = FALSE /\ done' = FALSE

-----------------------------------------------------------------------------
(* Reading it.                                                              *)

Reads(s) ==
  \/ s.is = "section" /\ OpenSection(s.section)
  \/ s.is = "minimum" /\ SetMinimum(s.code)
  \/ s.is = "maximum" /\ SetMaximum(s.code)
  \/ s.is = "keycode" /\ KeycodeDefinition(s.name, s.code)
  \/ s.is = "led" /\ IndicatorName(s.name, s.code)
  \/ s.is = "vmod" /\ VirtualModifier(s.section, s.name, {})
  \/ s.is = "type" /\ TypeDefinition(s.type)
  \/ s.is = "indicator" /\ CompatIndicator(s.name, s.mods)
  \/ s.is = "group" /\ GroupName(s.group)
  \/ s.is = "key" /\ KeyDefinition(s.name, s.body)
  \/ s.is = "bad key" /\ BadKeyDefinition(s.name)
  \/ section = "stopped" /\ UNCHANGED vars

FirstText ==
  /\ first = Empty
  /\ Next
  /\ count' <= FirstStatements
  /\ UNCHANGED <<first, text>>

ReadStatement ==
  /\ text # <<>>
  /\ Reads(Head(text))
  /\ text' = Tail(text)
  /\ UNCHANGED first

EndOfText ==
  /\ first # Empty
  /\ text = <<>>
  /\ Finish
  /\ UNCHANGED <<first, text>>

SNext == FirstText \/ Write \/ ReadStatement \/ EndOfText

SSpec == SInit /\ [][SNext]_allVars

-----------------------------------------------------------------------------
(* Properties.                                                              *)

\* The keycodes and the keys that GetAsString is to write.
Kept == {c \in DOMAIN first.nameOf : first.range.min <= c /\ c <= first.range.max}
KeptKeys == {c \in Kept \cap DOMAIN first.keys : first.keys[c].groups # <<>>}
OneToOne == \A c, d \in Kept : first.nameOf[c] = first.nameOf[d] => c = d
Listable(syms) == \A i \in DOMAIN syms : syms[i] \notin Garbled /\ (syms[i] \in Blanks => i = Len(syms))
Readable == \A c \in KeptKeys : \A g \in DOMAIN first.keys[c].groups : Listable(first.keys[c].groups[g].syms)

NamesSurvive ==
  /\ range = first.range
  /\ DOMAIN nameOf = Kept
  /\ \A c \in Kept : nameOf[c] = first.nameOf[c] /\ codeOf[nameOf[c]] = c
  /\ \A i \in DOMAIN first.groupNames : groupNames[i] = first.groupNames[i]

KeysymsSurvive ==
  /\ DOMAIN keys = KeptKeys
  /\ \A c \in KeptKeys :
       /\ Len(keys[c].groups) = Len(first.keys[c].groups)
       /\ Len(keys[c].groups) <= numGroups
       /\ \A g \in DOMAIN keys[c].groups : keys[c].groups[g].syms = AsRead(first.keys[c].groups[g].syms)

\* A key of one group keeps its type if the type can select all its keysyms.
TypesSurvive ==
  /\ DOMAIN types = DOMAIN first.types
  /\ \A n \in DOMAIN types :
       LET was == first.types[n]
           entries == Written(was.entries)
       IN was.mods \subseteq Real /\ (\A e \in Range(entries) : e.mods \subseteq Real) =>
            /\ types[n].mods = was.mods
            /\ types[n].entries = entries
            /\ types[n].levels = Max({1} \cup {e.level + 1 : e \in Range(entries)})
  /\ \A c \in KeptKeys :
       LET was == first.keys[c].groups[1] IN
       Len(first.keys[c].groups) = 1 /\ was.type.name \in DOMAIN types
         /\ Len(was.syms) <= types[was.type.name].levels
       => keys[c].groups[1].type.name = was.type.name

LedsSurvive ==
  /\ DOMAIN leds = DOMAIN first.leds
  /\ \A l \in DOMAIN leds :
       /\ leds[l].index = first.leds[l].index
       /\ first.leds[l].mods \subseteq Real => leds[l].mods = first.leds[l].mods

\* A keymap whose keycodes have different names comes back from its text
\* with every keycode, keysym, group name, key type and indicator, except
\* for what cannot be written: a keysym that shares its name comes back as
\* the other one, a keysym whose rune is a letter as no symbol, one that is
\* blank is lost at the end of a list, and before it, as every other that is
\* no identifier or number, makes the text an error; virtual modifiers that
\* have no real one are lost from a mask.
RoundTrip ==
  first # Empty /\ done /\ OneToOne =>
    /\ Readable => ~failed
    /\ ~failed => NamesSurvive /\ KeysymsSurvive /\ TypesSurvive /\ LedsSurvive
=============================================================================

----------------------------- MODULE KeymapBuild -----------------------------
(***************************************************************************)
(* How Parser.Parse (parser.go) builds a keymap: the statements of the     *)
(* xkb_keycodes, xkb_types, xkb_compat and xkb_symbols sections in any     *)
(* order a text may have them, each with all it does to the Keymap, and    *)
(* the two passes that end the parse.                                      *)
(*                                                                         *)
(* The text is the choice of the statements; tokens are left out.  A Go    *)
(* map is a function on its keys, groups are counted from 0, a level is    *)
(* its one keysym, and a modifier mask is the set of its bits.             *)
(***************************************************************************)
EXTENDS Naturals, Sequences, SequencesExt

CONSTANTS
  Names,        \* key names
  CodeDefs,     \* the codes a <NAME> = code statement may give
  Ranges,       \* the codes a minimum or maximum statement may give
  Bodies,       \* key statement bodies: [lists, types, repeat], see below
  Offsets,      \* the values of group_offset
  GroupNames,   \* the groups a name[] statement may name
  TypeDefs,     \* key types a text may define: [name, mods, entries, named]
  VModDefs,     \* virtual modifiers it may declare: [name, mask]
  LedNames,     \* its indicators
  LedCodes,     \* their numbers
  LedMods,      \* their modifiers
  Interprets,   \* interpret statements: [sym, cond, repeat]
  Mods,         \* modifiers of a modifier_map
  Syms,         \* the keysyms of key statements
  ModSyms,      \* keysyms for which KeysymIsModifier holds
  NoSymbol,     \* KeyNoSymbol
  AnySym,       \* keysymAny
  NoType,       \* a nil *KeyType; also an absent type name
  MaxStatements \* bound: how many statements a text has

\* Of a body: lists maps a group of the statement to the list of keysyms in
\* brackets, types a group to a type name, and repeat is "yes", "no" or
\* "none" when there is no such clause.  An interpret statement is for the
\* keysym sym (NoSymbol for the word Any), with a modifier condition or not.
\* Of a key type, mods are the names of its modifiers, entries its map entries
\* [mods, level], and named the levels it has names for.
ASSUME KeymapBuildAssumption ==
  /\ MaxStatements \in Nat
  /\ IsFiniteSet(Names)
  /\ CodeDefs \subseteq Nat /\ Ranges \subseteq Nat
  /\ Offsets \subseteq Nat /\ GroupNames \subseteq Nat
  /\ NoSymbol # AnySym
  /\ {NoSymbol, AnySym} \cap Syms = {}
  /\ \A b \in Bodies : \A g \in DOMAIN b.lists : b.lists[g] \in Seq(Syms \cup {NoSymbol, AnySym})
  /\ \A t \in TypeDefs : t.named \subseteq Nat /\ \A i \in DOMAIN t.entries : t.entries[i].level \in Nat
  /\ \A v \in VModDefs : v.mask \subseteq 0..31
  /\ LedCodes \subseteq Nat
  /\ \A b \in Bodies : /\ DOMAIN b.lists \subseteq Nat
                       /\ IsFiniteSet(DOMAIN b.lists)
                       /\ DOMAIN b.types \subseteq Nat
                       /\ b.repeat \in {"yes", "no", "none"}

VARIABLES
  section,      \* the section being parsed, "none" before the first one and
                \* "stopped" when an error has ended the text early
  saw,          \* sawKeycodes, sawTypes, sawCompat, sawSymbols
  count,        \* statements so far
  nameOf,       \* Keymap.keycodeNames
  codeOf,       \* Keymap.keycodesByName
  range,        \* Keymap.minKeycode and maxKeycode
  types,        \* Keymap.types: levels, mods and entries of each
  virtualMods,  \* Keymap.virtualMods
  leds,         \* Keymap.leds: index and mods of each
  keys,         \* Keymap.keys
  numGroups,    \* Keymap.numGroups
  groupNames,   \* Keymap.groupNames
  groupOffset,  \* Parser.groupOffset
  interprets,   \* Keymap.interprets
  default,      \* interpretRepeatDefault and interpretRepeatDefaultSet
  failed,       \* Parser.errors is not empty
  done          \* Parse has returned

codes == <<nameOf, codeOf, range>>
symbols == <<keys, numGroups, groupNames, groupOffset>>
compat == <<interprets, default>>
modifiers == <<virtualMods, leds>>
vars == <<section, saw, count, codes, types, modifiers, symbols, compat, failed, done>>

Sections == {"keycodes", "types", "compat", "symbols"}
Empty == [x \in {} |-> 0]

\* The name of a group that no statement names.
Unnamed == ""

\* m[k] = v on a Go map.
Put(m, k, v) == [x \in DOMAIN m \cup {k} |-> IF x = k THEN v ELSE m[x]]

Init ==
  /\ section = "none"
  /\ saw = {}
  /\ count = 0
  /\ nameOf = Empty
  /\ codeOf = Empty
  /\ range = [min |-> 8, max |-> 255]
  /\ types = Empty
  /\ virtualMods = Empty
  /\ leds = Empty
  /\ keys = Empty
  /\ numGroups = 1
  /\ groupNames = <<Unnamed, Unnamed, Unnamed, Unnamed>>
  /\ groupOffset = 0
  /\ interprets = <<>>
  /\ default = [repeat |-> TRUE, set |-> FALSE]
  /\ failed = FALSE
  /\ done = FALSE

\* A statement of section s is read; a good one leaves the section open, and
\* few have to do with virtual modifiers and indicators.
Read(s) ==
  /\ section = s
  /\ count < MaxStatements
  /\ count' = count + 1
  /\ UNCHANGED <<saw, done>>
GoodStatement(s) == Read(s) /\ UNCHANGED <<section, failed>>
Statement(s) == GoodStatement(s) /\ UNCHANGED modifiers

-----------------------------------------------------------------------------
(* Sections.                                                                *)

\* The section that was open ends and s begins.
OpenSection(s) ==
  /\ ~done
  /\ section # "stopped"
  /\ s \notin saw
  /\ section' = s
  /\ saw' = saw \cup {s}
  /\ UNCHANGED <<count, codes, types, modifiers, symbols, compat, failed, done>>

\* A second section of its kind is an error; the brace that ends it, or a
\* statement of it, is taken for the end of the keymap.
RepeatSection ==
  /\ ~done
  /\ section \in Sections
  /\ section' = "stopped"
  /\ failed' = TRUE
  /\ UNCHANGED <<saw, count, codes, types, modifiers, symbols, compat, done>>

-----------------------------------------------------------------------------
(* xkb_keycodes.                                                            *)

\* A fault of Wider: the range only grows upwards.
WiderUpwards(r, c) == [min |-> r.min, max |-> IF c > r.max THEN c ELSE r.max]

Wider(r, c) == [min |-> IF c < r.min THEN c ELSE r.min,
                max |-> IF c > r.max THEN c ELSE r.max]

SetMinimum(c) ==
  /\ Statement("keycodes")
  /\ range' = [range EXCEPT !.min = c]
  /\ UNCHANGED <<nameOf, codeOf, types, symbols, compat>>

SetMaximum(c) ==
  /\ Statement("keycodes")
  /\ range' = [range EXCEPT !.max = c]
  /\ UNCHANGED <<nameOf, codeOf, types, symbols, compat>>

\* <NAME> = code
KeycodeDefinition(n, c) ==
  /\ Statement("keycodes")
  /\ nameOf' = Put(nameOf, c, n)
  /\ codeOf' = Put(codeOf, n, c)
  /\ range' = Wider(range, c)
  /\ UNCHANGED <<types, symbols, compat>>

\* alias <NAME> = <TARGET>
KeycodeAlias(n, target) ==
  /\ Statement("keycodes")
  /\ codeOf' = IF target \in DOMAIN codeOf THEN Put(codeOf, n, codeOf[target]) ELSE codeOf
  /\ UNCHANGED <<nameOf, range, types, symbols, compat>>

-----------------------------------------------------------------------------
(* xkb_types and xkb_compat.                                                *)

\* modifierNameToMask: bits 0 to 7 are the real modifiers.
Real == 0..7
Standard(m) ==
  CASE m = "Shift" -> {0} [] m = "Lock" -> {1} [] m = "Control" -> {2}
    [] m \in {"Mod1", "Alt", "Meta"} -> {3}
    [] m \in {"Mod2", "NumLock"} -> {4}
    [] m \in {"Mod3", "LevelFive"} -> {5}
    [] m \in {"Mod4", "Super", "Hyper"} -> {6}
    [] m \in {"Mod5", "LevelThree", "ISO_Level3_Shift", "AltGr"} -> {7}
    [] OTHER -> {}
ModMask(m) == IF Standard(m) # {} THEN Standard(m)
              ELSE IF m \in DOMAIN virtualMods THEN virtualMods[m] ELSE {}

\* parseModifierMask: one "none" makes it no modifier at all.
MaskOf(mods) == IF "none" \in mods THEN {} ELSE UNION {ModMask(m) : m \in mods}

\* A level is written from 1 and kept from 0, in eight bits.
LevelOf(n) == (n + 255) % 256

\* virtual_modifiers name = mask: the first declaration counts.
VirtualModifier(s, name, mask) ==
  /\ GoodStatement(s)
  /\ virtualMods' = IF name \in DOMAIN virtualMods THEN virtualMods ELSE Put(virtualMods, name, mask)
  /\ UNCHANGED <<leds, codes, types, symbols, compat>>

\* type "name" { modifiers, map entries and level names }
TypeOf(t) ==
  LET levels == {LevelOf(t.entries[i].level) : i \in DOMAIN t.entries} \cup {LevelOf(n) : n \in t.named}
  IN [levels |-> Max({0} \cup levels) + 1, mods |-> MaskOf(t.mods),
      entries |-> [i \in DOMAIN t.entries |->
                     [mods |-> MaskOf(t.entries[i].mods), level |-> LevelOf(t.entries[i].level)]]]
TypeDefinition(t) ==
  /\ Statement("types")
  /\ types' = Put(types, t.name, TypeOf(t))
  /\ UNCHANGED <<codes, symbols, compat>>

\* indicator code = "name": a new LED, whatever there was.
IndicatorName(name, c) ==
  /\ GoodStatement("keycodes")
  /\ leds' = Put(leds, name, [index |-> c, mods |-> {}])
  /\ UNCHANGED <<virtualMods, codes, types, symbols, compat>>

\* indicator "name" { modifiers = mods; }
CompatIndicator(name, mods) ==
  /\ GoodStatement("compat")
  /\ leds' = Put(leds, name, [index |-> IF name \in DOMAIN leds THEN leds[name].index ELSE 0,
                              mods |-> MaskOf(mods)])
  /\ UNCHANGED <<virtualMods, codes, types, symbols, compat>>

\* interpret.repeat = value
InterpretDefault(b) ==
  /\ Statement("compat")
  /\ default' = [repeat |-> b, set |-> TRUE]
  /\ UNCHANGED <<codes, types, symbols, interprets>>

Interpret(i) ==
  /\ Statement("compat")
  /\ interprets' = Append(interprets, i)
  /\ UNCHANGED <<codes, types, symbols, default>>

-----------------------------------------------------------------------------
(* xkb_symbols.                                                             *)

SetGroupOffset(o) ==
  /\ Statement("symbols")
  /\ groupOffset' = o
  /\ UNCHANGED <<codes, types, keys, numGroups, groupNames, compat>>

AtLeast(n, m) == IF n > m THEN n ELSE m

\* name[group] = "..."
GroupName(rel) ==
  LET g == rel + groupOffset IN
  /\ Statement("symbols")
  /\ groupNames' = [i \in 1..AtLeast(g + 1, Len(groupNames)) |->
       IF i = g + 1 THEN "named" ELSE IF i \in DOMAIN groupNames THEN groupNames[i] ELSE Unnamed]
  /\ numGroups' = AtLeast(g + 1, numGroups)
  /\ UNCHANGED <<codes, types, keys, groupOffset, compat>>

\* guessKeyType: the first of the standard types for n keysyms that the
\* keymap has, or else a new type of n levels that is in no table.
StandardTypes(n) == CASE n = 1 -> <<"ONE_LEVEL">>
                      [] n = 2 -> <<"TWO_LEVEL", "ALPHABETIC">>
                      [] n = 4 -> <<"FOUR_LEVEL">>
                      [] OTHER -> <<>>
TypeNamed(name) == [name |-> name, levels |-> types[name].levels]
GuessKeyType(n) ==
  LET standard == StandardTypes(n)
      known == {i \in DOMAIN standard : standard[i] \in DOMAIN types}
  IN IF known = {} THEN [name |-> "default", levels |-> n] ELSE TypeNamed(standard[Min(known)])

\* The merge of new keysyms with those an existing group has at their levels.
MergedSyms(old, new) ==
  [i \in DOMAIN new |->
     IF new[i] \notin {AnySym, NoSymbol} THEN new[i]
     ELSE IF i \in DOMAIN old THEN old[i] ELSE NoSymbol]

\* A fault of FitType: an inherited type is kept whatever its levels.
FitTypeKept(name, inherited, syms) ==
  IF name \in DOMAIN types THEN TypeNamed(name)
  ELSE IF inherited = NoType THEN GuessKeyType(Len(syms)) ELSE inherited

\* The type of a group: the named one, else the inherited one, unless it has
\* too few levels for the keysyms.
FitType(name, inherited, syms) ==
  LET type == IF name \in DOMAIN types THEN TypeNamed(name) ELSE inherited
  IN IF type = NoType \/ Len(syms) > type.levels THEN GuessKeyType(Len(syms)) ELSE type

\* Groups of a statement are counted from the offset of the layout.
At(f, g, none) == IF g - groupOffset \in DOMAIN f THEN f[g - groupOffset] ELSE none

\* A fault of NewGroup: a group that is not listed is made anew.
NewGroupForgets(body, g, old) ==
  LET syms == At(body.lists, g, <<>>)
      merged == MergedSyms(IF g + 1 \in DOMAIN old THEN old[g + 1].syms ELSE <<>>, syms)
  IN [type |-> FitType(At(body.types, g, NoType), NoType, merged), syms |-> merged]

\* What parseKeyBody makes of group g, of which the existing key has old.
NewGroup(body, g, old) ==
  LET syms == At(body.lists, g, <<>>)
      name == At(body.types, g, NoType)
  IN IF g + 1 \in DOMAIN old
     THEN IF syms = <<>> THEN old[g + 1]
          ELSE LET merged == MergedSyms(old[g + 1].syms, syms)
               IN [type |-> FitType(name, old[g + 1].type, merged), syms |-> merged]
     ELSE [type |-> FitType(name, NoType, syms), syms |-> syms]

\* parseKeyBody: every group up to the last one listed, and all the old ones.
KeyBody(body, old) ==
  LET maxGroup == Max({g + groupOffset : g \in DOMAIN body.lists} \cup {0})
  IN [i \in 1..AtLeast(maxGroup + 1, Len(old)) |-> NewGroup(body, i - 1, old)]

\* A fault of KeycodeFor: fresh codes are counted from the wrong end.
KeycodeForAbove(n) == IF n \in DOMAIN codeOf THEN codeOf[n]
                      ELSE Cardinality(DOMAIN codeOf) + range.max

\* The keycode a key statement is for; an unknown name is given one.
KeycodeFor(n) == IF n \in DOMAIN codeOf THEN codeOf[n]
                 ELSE Cardinality(DOMAIN codeOf) + range.min

\* A fault of NameKeycode: only one of the two maps is written.
NameKeycodeOneWay(n) ==
  LET c == KeycodeFor(n) IN
  IF n \in DOMAIN codeOf THEN UNCHANGED codes
  ELSE /\ codeOf' = Put(codeOf, n, c)
       /\ range' = [range EXCEPT !.max = AtLeast(c, range.max)]
       /\ UNCHANGED nameOf

\* What the head of a key statement does to the keycodes.
NameKeycode(n) ==
  LET c == KeycodeFor(n) IN
  IF n \in DOMAIN codeOf THEN UNCHANGED codes
  ELSE /\ nameOf' = Put(nameOf, c, n)
       /\ codeOf' = Put(codeOf, n, c)
       /\ range' = [range EXCEPT !.max = AtLeast(c, range.max)]

\* key <NAME> { ... }
KeyDefinition(n, body) ==
  LET c == KeycodeFor(n)
      known == c \in DOMAIN keys
      groups == KeyBody(body, IF known THEN keys[c].groups ELSE <<>>)
      repeats == IF body.repeat = "none" THEN (IF known THEN keys[c].repeats ELSE TRUE)
                 ELSE body.repeat = "yes"
  IN /\ Statement("symbols")
     /\ NameKeycode(n)
     /\ keys' = Put(keys, c, [name |-> n, groups |-> groups, repeats |-> repeats, mods |-> {}])
     /\ numGroups' = AtLeast(Len(groups), numGroups)
     /\ UNCHANGED <<types, groupNames, groupOffset, compat>>

\* A key statement whose body does not parse: its keycode stays.  The skip
\* to the next ; or } finds the one that ends the body, which the parser takes
\* for the end of the section, or the next statement.
BadKeyDefinition(n) ==
  /\ Read("symbols")
  /\ section' \in {"symbols", "stopped"}
  /\ NameKeycode(n)
  /\ failed' = TRUE
  /\ UNCHANGED <<types, modifiers, symbols, compat>>

\* modifier_map mod { <NAME>, ... }: keys that are not there yet are passed
\* over.
ModifierMap(mod, names) ==
  LET mapped == {codeOf[n] : n \in names \cap DOMAIN codeOf} IN
  /\ Statement("symbols")
  /\ keys' = [c \in DOMAIN keys |->
       IF c \in mapped THEN [keys[c] EXCEPT !.mods = @ \cup {mod}] ELSE keys[c]]
  /\ UNCHANGED <<codes, types, numGroups, groupNames, groupOffset, compat>>

-----------------------------------------------------------------------------
(* The end of Parse.                                                        *)

SymsOf(key) == (UNION {Range(key.groups[g].syms) : g \in DOMAIN key.groups}) \ {NoSymbol}

\* applyInterprets: the last one of the highest specificity.
Specificity(i) == IF i.cond THEN 3 ELSE 1
\* A fault of BestMatch: the first one of the highest specificity.
BestMatchFirst(syms) ==
  FoldLeft(LAMBDA best, i :
             IF i.sym = NoSymbol \/ i.sym \notin syms THEN best
             ELSE IF best = <<>> \/ Specificity(i) > Specificity(best[1]) THEN <<i>>
             ELSE best,
           <<>>, interprets)

BestMatch(syms) ==
  FoldLeft(LAMBDA best, i :
             IF i.sym = NoSymbol \/ i.sym \notin syms THEN best
             ELSE IF best = <<>> \/ Specificity(i) >= Specificity(best[1]) THEN <<i>>
             ELSE best,
           <<>>, interprets)

FinalRepeats(key) ==
  LET match == BestMatch(SymsOf(key))
  IN IF match # <<>>
     THEN IF match[1].repeat = "none" THEN default.repeat ELSE match[1].repeat = "yes"
     ELSE IF SymsOf(key) \cap ModSyms # {} /\ default.set THEN default.repeat
     ELSE key.repeats

\* validateKeymap: a type the keymap does not name gives way to a standard one.
FinalType(group) ==
  LET n == Len(group.syms)
      name == CASE n = 2 -> "TWO_LEVEL"
                [] n = 4 -> "FOUR_LEVEL"
                [] OTHER -> "ONE_LEVEL"
  IN IF group.type.name \notin DOMAIN types /\ name \in DOMAIN types
     THEN TypeNamed(name) ELSE group.type
FinalGroups(groups) == [g \in DOMAIN groups |-> [type |-> FinalType(groups[g]), syms |-> groups[g].syms]]

Finish ==
  /\ ~done
  /\ done' = TRUE
  /\ section' = "stopped"
  /\ keys' = [c \in DOMAIN keys |->
       [keys[c] EXCEPT !.repeats = FinalRepeats(keys[c]), !.groups = FinalGroups(keys[c].groups)]]
  /\ failed' = (failed \/ saw # Sections)
  /\ UNCHANGED <<saw, count, codes, types, modifiers, numGroups, groupNames, groupOffset, compat>>

Next ==
  \/ \E s \in Sections : OpenSection(s)
  \/ RepeatSection
  \/ \E c \in Ranges : SetMinimum(c) \/ SetMaximum(c)
  \/ \E n \in Names, c \in CodeDefs : KeycodeDefinition(n, c)
  \/ \E n, target \in Names : KeycodeAlias(n, target)
  \/ \E t \in TypeDefs : TypeDefinition(t)
  \/ \E s \in Sections, v \in VModDefs : s # "keycodes" /\ VirtualModifier(s, v.name, v.mask)
  \/ \E l \in LedNames, c \in LedCodes : IndicatorName(l, c)
  \/ \E l \in LedNames, mods \in LedMods : CompatIndicator(l, mods)
  \/ \E b \in BOOLEAN : InterpretDefault(b)
  \/ \E i \in Interprets : Interpret(i)
  \/ \E o \in Offsets : SetGroupOffset(o)
  \/ \E g \in GroupNames : GroupName(g)
  \/ \E n \in Names, b \in Bodies : KeyDefinition(n, b)
  \/ \E n \in Names : BadKeyDefinition(n)
  \/ \E m \in Mods, names \in SUBSET Names : ModifierMap(m, names)
  \/ Finish

Spec == Init /\ [][Next]_vars

-----------------------------------------------------------------------------
(* Properties.                                                              *)

\* Every code and every group a text within the constants can lead to.
Keycodes == CodeDefs \cup {n + m : n \in 0..Cardinality(Names), m \in CodeDefs \cup Ranges \cup {8}}
Groups == {0} \cup UNION {0..g + o : g \in UNION {DOMAIN b.lists : b \in Bodies}, o \in Offsets \cup {0}}

\* The keysyms of a group, as the abstract table has them.
Listed(c, g) ==
  IF c \in DOMAIN keys /\ g + 1 \in DOMAIN keys[c].groups
  THEN LET syms == keys[c].groups[g + 1].syms
       IN [i \in DOMAIN syms |-> IF syms[i] \in Syms THEN syms[i] ELSE NoSymbol]
  ELSE <<>>

Abs == INSTANCE KeyTable WITH
         code <- codeOf,
         offset <- groupOffset,
         table <- [c \in Keycodes |-> [g \in Groups |-> Listed(c, g)]],
         Listings <- {b.lists : b \in Bodies}

\* However the statements of several keys, names, groups and layouts are
\* mixed, and whatever types and fillers the parser gives them, every group
\* of every key holds what its own statements say, "any" and NoSymbol
\* entries leaving the level as it was (parseKeyDefinition and parseKeyBody:
\* "merging with existing definition").
Implements == Abs!Spec

\* Every variable holds a value of its Go type.
TypeOK ==
  /\ section \in Sections \cup {"none", "stopped"}
  /\ saw \subseteq Sections
  /\ count \in 0..MaxStatements
  /\ nameOf \in [DOMAIN nameOf -> Names] /\ DOMAIN nameOf \subseteq Keycodes
  /\ codeOf \in [DOMAIN codeOf -> Keycodes] /\ DOMAIN codeOf \subseteq Names
  /\ range \in [min : Nat, max : Nat]
  /\ \A t \in DOMAIN types : types[t].levels \in 1..256
  /\ \A v \in DOMAIN virtualMods : virtualMods[v] \subseteq 0..31
  /\ DOMAIN leds \subseteq LedNames
  /\ \A l \in DOMAIN leds : leds[l].index \in LedCodes \cup {0} /\ leds[l].mods \subseteq 0..31
  /\ DOMAIN keys \subseteq Keycodes
  /\ \A c \in DOMAIN keys :
       /\ keys[c].name \in Names
       /\ keys[c].repeats \in BOOLEAN
       /\ keys[c].mods \subseteq Mods
       /\ \A g \in DOMAIN keys[c].groups :
            /\ keys[c].groups[g].type.levels \in Nat
            /\ Range(keys[c].groups[g].syms) \subseteq Syms \cup {NoSymbol, AnySym}
  /\ numGroups \in Nat /\ groupOffset \in Nat
  /\ Range(groupNames) \subseteq {Unnamed, "named"}
  /\ Range(interprets) \subseteq Interprets
  /\ default \in [repeat : BOOLEAN, set : BOOLEAN]
  /\ failed \in BOOLEAN /\ done \in BOOLEAN

\* Nothing the text defines is out of a state's reach: every key is at a
\* keycode that has a name, every name leads to such a keycode, and every
\* group that a key has or that has a name is one of the keymap's groups,
\* over which State.effectiveGroup wraps.
EverythingReachable ==
  /\ DOMAIN keys \subseteq DOMAIN nameOf
  /\ Range(codeOf) \subseteq DOMAIN nameOf
  /\ \A c \in DOMAIN keys : Len(keys[c].groups) <= numGroups
  /\ \A i \in DOMAIN groupNames : groupNames[i] # Unnamed => i <= numGroups

\* The standard types, where the text defines them, have their levels.
StandardTypesFit ==
  \A n \in {1, 2, 4} : \A name \in Range(StandardTypes(n)) \cap DOMAIN types : types[name].levels >= n

LevelsFit == \A c \in DOMAIN keys : \A g \in DOMAIN keys[c].groups :
               Len(keys[c].groups[g].syms) <= keys[c].groups[g].type.levels

\* Until validateKeymap runs, no group holds more levels than its type can
\* select, whether the type was named, inherited or guessed.
TypesFit == ~done /\ StandardTypesFit => LevelsFit

AllInRange == \A c \in DOMAIN nameOf : range.min <= c /\ c <= range.max

\* A statement that does not narrow the range itself never leaves a named
\* keycode outside it ("Auto-expand the range").
RangeGrows ==
  [][AllInRange /\ range'.min <= range.min /\ range'.max >= range.max => AllInRange']_vars

\* What the end of the parse decides for a key that repeats or not: the last
\* of the interpret statements with a condition that name one of its keysyms
\* wins, then the last of those without one; a key that none of them names
\* keeps its setting unless it is a modifier key and interpret.repeat was set.
RepeatsDecided ==
  [][done' /\ ~done =>
       \A c \in DOMAIN keys :
         LET syms == SymsOf(keys[c])
             named == {i \in DOMAIN interprets : interprets[i].sym \in syms}
             strong == {i \in named : interprets[i].cond}
             top == Max(IF strong = {} THEN named ELSE strong)
         IN keys'[c].repeats =
              IF named # {} /\ interprets[top].repeat # "none"
              THEN interprets[top].repeat = "yes"
              ELSE IF named # {} \/ (default.set /\ syms \cap ModSyms # {})
              THEN default.repeat
              ELSE keys[c].repeats]_vars
=============================================================================

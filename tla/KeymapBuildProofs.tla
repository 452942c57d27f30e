------------------------- MODULE KeymapBuildProofs -------------------------
(***************************************************************************)
(* Theorems of KeymapBuild, for any texts: any statements in any order     *)
(* over any names, codes, keysyms, types and groups; and of Serialize, for *)
(* any keymap they build that is written and read again.                   *)
(***************************************************************************)
EXTENDS Serialize, Lemmas, SequenceTheorems

-----------------------------------------------------------------------------
(* The inductive invariant.                                                 *)

Entries == Syms \cup {NoSymbol, AnySym}

GroupOK(group) == group.type.levels \in Nat /\ group.syms \in Seq(Entries)
GroupsOK(groups) == groups \in Seq(Range(groups)) /\ \A i \in DOMAIN groups : GroupOK(groups[i])
KeyOK(key) ==
  /\ key = [name |-> key.name, groups |-> key.groups, repeats |-> key.repeats, mods |-> key.mods]
  /\ key.name \in Names /\ key.repeats \in BOOLEAN /\ key.mods \subseteq Mods
  /\ GroupsOK(key.groups)

\* TypeOK in parts, with what it leaves open: that a section being parsed is
\* one that was seen, where the lower end of the range comes from, and that
\* groups, their names and the interprets are sequences.
ControlTyped ==
  /\ section \in Sections \cup {"none", "stopped"} /\ saw \subseteq Sections
  /\ section \in Sections => section \in saw
  /\ count \in 0..MaxStatements
  /\ failed \in BOOLEAN /\ done \in BOOLEAN
  /\ done => section = "stopped"
CodesTyped ==
  /\ nameOf \in [DOMAIN nameOf -> Names] /\ DOMAIN nameOf \subseteq Keycodes
  /\ codeOf \in [DOMAIN codeOf -> Keycodes] /\ DOMAIN codeOf \subseteq Names
  /\ range \in [min : Nat, max : Nat]
  /\ range.min \in CodeDefs \cup Ranges \cup {8}
TablesTyped ==
  /\ \A t \in DOMAIN types : types[t].levels \in 1..256
  /\ \A v \in DOMAIN virtualMods : virtualMods[v] \subseteq 0..31
  /\ DOMAIN leds \subseteq LedNames
  /\ \A l \in DOMAIN leds : leds[l].index \in LedCodes \cup {0} /\ leds[l].mods \subseteq 0..31
SymbolsTyped ==
  /\ DOMAIN keys \subseteq Keycodes
  /\ \A c \in DOMAIN keys : KeyOK(keys[c])
  /\ numGroups \in Nat /\ groupOffset \in Nat
  /\ groupNames \in Seq({Unnamed, "named"})
CompatTyped ==
  /\ interprets \in Seq(Interprets)
  /\ default \in [repeat : BOOLEAN, set : BOOLEAN]

\* TypesFit could fail and come back if types were defined again after keys;
\* they are not, for a text has one xkb_types section.
Fit ==
  /\ "types" \notin saw => types = Empty
  /\ ~done => LevelsFit \/ ("types" \in saw /\ section # "types" /\ ~StandardTypesFit)

IInv == ControlTyped /\ CodesTyped /\ TablesTyped /\ SymbolsTyped /\ CompatTyped
        /\ EverythingReachable /\ Fit

-----------------------------------------------------------------------------
(* Facts about the operators of the model.                                  *)

(* What m[k] = v does to a map.                                             *)
LEMMA PutFacts ==
  ASSUME NEW m, NEW k, NEW v
  PROVE  /\ DOMAIN Put(m, k, v) = DOMAIN m \cup {k}
         /\ Put(m, k, v)[k] = v
         /\ \A x \in DOMAIN m : x # k => Put(m, k, v)[x] = m[x]
         /\ Put(m, k, v) = [x \in DOMAIN m \cup {k} |-> Put(m, k, v)[x]]
  BY DEF Put

(* The codes a name has and the lowest of the range are small.              *)
LEMMA ConstantFacts ==
  /\ CodeDefs \subseteq Keycodes /\ Keycodes \subseteq Nat
  /\ CodeDefs \cup Ranges \cup {8} \subseteq Nat
<1>1. CodeDefs \cup Ranges \cup {8} \subseteq Nat
  BY KeymapBuildAssumption
<1>2. IsFiniteSet(Names)
  BY KeymapBuildAssumption
<1>3. Cardinality(Names) \in Nat
  BY <1>2, FS_CardinalityType
<1>4. \A n \in 0..Cardinality(Names), m \in CodeDefs \cup Ranges \cup {8} : n + m \in Nat
  BY <1>1, <1>3
<1> QED
  BY <1>1, <1>4 DEF Keycodes

(* The keycode a key statement is for is one of the keycodes, and not under  *)
(* the range when it is new.                                                *)
LEMMA KeycodeForFacts ==
  ASSUME CodesTyped, NEW n \in Names
  PROVE  /\ KeycodeFor(n) \in Keycodes
         /\ n \notin DOMAIN codeOf => range.min <= KeycodeFor(n)
<1>1. DOMAIN codeOf \subseteq Names /\ IsFiniteSet(Names)
  BY KeymapBuildAssumption DEF CodesTyped
<1>2. /\ Cardinality(DOMAIN codeOf) \in Nat /\ Cardinality(Names) \in Nat
      /\ Cardinality(DOMAIN codeOf) <= Cardinality(Names)
  BY <1>1, FS_Subset, FS_CardinalityType
<1>3. range.min \in CodeDefs \cup Ranges \cup {8} /\ range.min \in Nat
  BY ConstantFacts DEF CodesTyped
<1>4. Cardinality(DOMAIN codeOf) + range.min \in Keycodes
  BY <1>2, <1>3 DEF Keycodes
<1>5. n \in DOMAIN codeOf => codeOf[n] \in Keycodes
  BY DEF CodesTyped
<1> QED
  BY <1>2, <1>3, <1>4, <1>5 DEF KeycodeFor

(* Masks have the 32 bits of a ModMask.                                     *)
LEMMA MaskFacts ==
  ASSUME TablesTyped, NEW mods
  PROVE  MaskOf(mods) \subseteq 0..31
<1>1. ASSUME NEW m PROVE Standard(m) \subseteq 0..31
  <2>1. Standard(m) \in {{0}, {1}, {2}, {3}, {4}, {5}, {6}, {7}, {}}
    BY DEF Standard
  <2> QED
    BY <2>1
<1>2. ASSUME NEW m PROVE ModMask(m) \subseteq 0..31
  BY <1>1 DEF ModMask, TablesTyped
<1> QED
  BY <1>2 DEF MaskOf

(* A type has between one and 256 levels.                                   *)
LEMMA TypeOfFacts ==
  ASSUME NEW t \in TypeDefs
  PROVE  TypeOf(t).levels \in 1..256
<1> DEFINE levels == {LevelOf(t.entries[i].level) : i \in DOMAIN t.entries}
                     \cup {LevelOf(n) : n \in t.named}
<1>1. ASSUME NEW n \in Nat PROVE LevelOf(n) \in 0..255
  BY DEF LevelOf
<1>2. t.named \subseteq Nat /\ \A i \in DOMAIN t.entries : t.entries[i].level \in Nat
  BY KeymapBuildAssumption
<1>3. {0} \cup levels \subseteq 0..255
  BY <1>1, <1>2
<1> HIDE DEF levels
<1>4. {0} \cup levels \in SUBSET Nat /\ IsFiniteSet({0} \cup levels)
  <2>1. PICK b \in Nat : b = 255
    OBVIOUS
  <2>2. {0} \cup levels \in SUBSET Nat /\ \A l \in {0} \cup levels : l <= b
    BY <1>3, <2>1
  <2> QED
    BY <2>2, FS_BoundedSetOfNaturals
<1>5. Max({0} \cup levels) \in 0..255
  BY <1>3, <1>4, MaxBound
<1>6. TypeOf(t).levels = Max({0} \cup levels) + 1
  BY DEF TypeOf, levels
<1> QED
  BY <1>5, <1>6

(* The type guessed for n keysyms has a level for each of them.             *)
LEMMA GuessFacts ==
  ASSUME TablesTyped, NEW n \in Nat
  PROVE  /\ GuessKeyType(n).levels \in Nat
         /\ StandardTypesFit => n <= GuessKeyType(n).levels
<1> DEFINE standard == StandardTypes(n)
           known == {i \in DOMAIN standard : standard[i] \in DOMAIN types}
<1>1. CASE known = {}
  BY <1>1 DEF GuessKeyType
<1>2. CASE known # {}
  <2>1. /\ n \in {1, 2, 4}
        /\ standard \in {<<"ONE_LEVEL">>, <<"TWO_LEVEL", "ALPHABETIC">>, <<"FOUR_LEVEL">>}
    BY <1>2 DEF StandardTypes
  <2>2. DOMAIN standard \subseteq Nat
    BY <2>1
  <2>3. Min(known) \in known
    <3>1. known \in SUBSET Nat
      BY <2>2
    <3> HIDE DEF known
    <3> QED
      BY <1>2, <3>1, MinMember
  <2>4. PICK name : name = standard[Min(known)]
    OBVIOUS
  <2>5. name \in Range(standard) /\ name \in DOMAIN types
    BY <2>3, <2>4 DEF Range
  <2>6. GuessKeyType(n).levels = types[name].levels
    BY <1>2, <2>4 DEF GuessKeyType, TypeNamed
  <2>7. types[name].levels \in Nat
    BY <2>5 DEF TablesTyped
  <2>8. StandardTypesFit => n <= types[name].levels
    BY <2>1, <2>5, <2>7 DEF StandardTypesFit
  <2> QED
    BY <2>6, <2>7, <2>8
<1> QED
  BY <1>1, <1>2

(* A type that is named has a number of levels.                             *)
LEMMA NamedTypeFacts ==
  ASSUME TablesTyped, NEW name \in DOMAIN types
  PROVE  TypeNamed(name).levels \in Nat
<1>1. types[name].levels \in Nat
  BY DEF TablesTyped
<1> QED
  BY <1>1 DEF TypeNamed

(* A key type that is found for keysyms can select each of them.            *)
LEMMA FitTypeFacts ==
  ASSUME TablesTyped, NEW name, NEW inherited, NEW syms \in Seq(Entries),
         inherited = NoType \/ inherited.levels \in Nat
  PROVE  /\ FitType(name, inherited, syms).levels \in Nat
         /\ StandardTypesFit => Len(syms) <= FitType(name, inherited, syms).levels
<1>1. PICK type : type = IF name \in DOMAIN types THEN TypeNamed(name) ELSE inherited
  OBVIOUS
<1>2. type = NoType \/ type.levels \in Nat
  BY <1>1, NamedTypeFacts
<1>3. Len(syms) \in Nat
  OBVIOUS
<1>4. CASE type = NoType \/ Len(syms) > type.levels
  BY <1>1, <1>3, <1>4, GuessFacts DEF FitType
<1>5. CASE ~(type = NoType \/ Len(syms) > type.levels)
  <2>1. FitType(name, inherited, syms) = type
    BY <1>1, <1>5 DEF FitType
  <2>2. type.levels \in Nat /\ Len(syms) <= type.levels
    BY <1>2, <1>3, <1>5
  <2> QED
    BY <2>1, <2>2
<1> QED
  BY <1>4, <1>5

(* What a key statement lists for a group.                                  *)
LEMMA ListedFacts ==
  ASSUME NEW body \in Bodies, NEW g
  PROVE  At(body.lists, g, <<>>) \in Seq(Entries)
  BY KeymapBuildAssumption DEF At, Entries

(* A merge has the levels of what is new.                                   *)
LEMMA MergedFacts ==
  ASSUME NEW old \in Seq(Entries), NEW new \in Seq(Entries)
  PROVE  /\ MergedSyms(old, new) \in Seq(Entries)
         /\ DOMAIN MergedSyms(old, new) = DOMAIN new
         /\ Len(MergedSyms(old, new)) = Len(new)
<1>1. Len(new) \in Nat /\ DOMAIN new = 1..Len(new)
  OBVIOUS
<1>2. \A i \in DOMAIN new : MergedSyms(old, new)[i] \in Entries
  BY DEF MergedSyms, Entries
<1>3. MergedSyms(old, new) = [i \in 1..Len(new) |-> MergedSyms(old, new)[i]]
  BY <1>1 DEF MergedSyms
<1>4. MergedSyms(old, new) \in [1..Len(new) -> Entries]
  BY <1>1, <1>2, <1>3
<1> QED
  BY <1>1, <1>4, IsASeq, LenProperties

(* The group that a key statement makes or leaves.                          *)
LEMMA NewGroupFacts ==
  ASSUME TablesTyped, NEW body \in Bodies, NEW g, NEW old, GroupsOK(old)
  PROVE  /\ GroupOK(NewGroup(body, g, old))
         /\ StandardTypesFit /\ (\A i \in DOMAIN old : Len(old[i].syms) <= old[i].type.levels)
              => Len(NewGroup(body, g, old).syms) <= NewGroup(body, g, old).type.levels
<1> DEFINE syms == At(body.lists, g, <<>>)
           name == At(body.types, g, NoType)
           merged == MergedSyms(old[g + 1].syms, syms)
<1>1. syms \in Seq(Entries)
  BY ListedFacts
<1> HIDE DEF syms, name
<1>2. CASE g + 1 \in DOMAIN old /\ syms = <<>>
  BY <1>2 DEF NewGroup, GroupsOK, syms
<1>3. CASE g + 1 \in DOMAIN old /\ syms # <<>>
  <2>1. NewGroup(body, g, old) = [type |-> FitType(name, old[g + 1].type, merged), syms |-> merged]
    BY <1>3 DEF NewGroup, syms, name
  <2>2. old[g + 1].syms \in Seq(Entries) /\ old[g + 1].type.levels \in Nat
    BY <1>3 DEF GroupsOK, GroupOK
  <2>3. merged \in Seq(Entries)
    BY <1>1, <2>2, MergedFacts
  <2> HIDE DEF merged
  <2>4. /\ FitType(name, old[g + 1].type, merged).levels \in Nat
        /\ StandardTypesFit => Len(merged) <= FitType(name, old[g + 1].type, merged).levels
    BY <2>2, <2>3, FitTypeFacts
  <2> QED
    BY <2>1, <2>3, <2>4 DEF GroupOK
<1>4. CASE g + 1 \notin DOMAIN old
  <2>1. NewGroup(body, g, old) = [type |-> FitType(name, NoType, syms), syms |-> syms]
    BY <1>4 DEF NewGroup, syms, name
  <2>2. /\ FitType(name, NoType, syms).levels \in Nat
        /\ StandardTypesFit => Len(syms) <= FitType(name, NoType, syms).levels
    BY <1>1, FitTypeFacts
  <2> QED
    BY <1>1, <2>1, <2>2 DEF GroupOK
<1> QED
  BY <1>2, <1>3, <1>4

(* A function on 1..n is a sequence of that length over its own range.      *)
LEMMA SequenceFacts ==
  ASSUME NEW n \in Nat, NEW f, f = [i \in 1..n |-> f[i]]
  PROVE  f \in Seq(Range(f)) /\ Len(f) = n /\ DOMAIN f = 1..n
<1>1. DOMAIN f = 1..n
  OBVIOUS
<1>2. f \in [1..n -> Range(f)]
  BY <1>1 DEF Range
<1> QED
  BY <1>1, <1>2, IsASeq, LenProperties

(* The groups of a key after a statement for it: the old ones and every one  *)
(* up to the last that is listed.                                           *)
LEMMA KeyBodyFacts ==
  ASSUME TablesTyped, groupOffset \in Nat, NEW body \in Bodies, NEW old, GroupsOK(old)
  PROVE  /\ GroupsOK(KeyBody(body, old))
         /\ Len(KeyBody(body, old)) \in Nat \ {0}
         /\ DOMAIN KeyBody(body, old) = 1..Len(KeyBody(body, old))
         /\ Len(old) <= Len(KeyBody(body, old))
         /\ \A g \in DOMAIN body.lists : g + groupOffset + 1 <= Len(KeyBody(body, old))
         /\ \A i \in DOMAIN KeyBody(body, old) : KeyBody(body, old)[i] = NewGroup(body, i - 1, old)
         /\ StandardTypesFit /\ (\A i \in DOMAIN old : Len(old[i].syms) <= old[i].type.levels)
              => \A i \in DOMAIN KeyBody(body, old) :
                   Len(KeyBody(body, old)[i].syms) <= KeyBody(body, old)[i].type.levels
<1> DEFINE shifted == {g + groupOffset : g \in DOMAIN body.lists} \cup {0}
           n == AtLeast(Max(shifted) + 1, Len(old))
<1>1. DOMAIN body.lists \subseteq Nat /\ IsFiniteSet(DOMAIN body.lists)
  BY KeymapBuildAssumption
<1>2. Max(shifted) \in Nat /\ \A g \in shifted : g <= Max(shifted)
  <2>1. shifted \in SUBSET Nat /\ shifted # {}
    BY <1>1
  <2>2. PICK b \in Nat : \A g \in DOMAIN body.lists : g <= b
    BY <1>1, FiniteBounded
  <2>3. PICK d \in Nat : \A g \in shifted : g <= d
    <3>1. \A g \in shifted : g <= b + groupOffset
      BY <1>1, <2>2
    <3>2. b + groupOffset \in Nat
      OBVIOUS
    <3> HIDE DEF shifted
    <3> QED
      BY <3>1, <3>2
  <2> HIDE DEF shifted
  <2>4. IsFiniteSet(shifted)
    BY <2>1, <2>3, FS_BoundedSetOfNaturals
  <2> QED
    BY <2>1, <2>4, MaxBound
<1>3. \A g \in DOMAIN body.lists : g + groupOffset <= Max(shifted)
  BY <1>2
<1>4. Len(old) \in Nat
  BY DEF GroupsOK
<1> HIDE DEF shifted
<1>5. n \in Nat \ {0} /\ Len(old) <= n /\ Max(shifted) + 1 <= n
  BY <1>2, <1>4 DEF AtLeast
<1>6. \A g \in DOMAIN body.lists : g + groupOffset + 1 <= n
  BY <1>1, <1>2, <1>3, <1>5
<1>7. KeyBody(body, old) = [i \in 1..n |-> NewGroup(body, i - 1, old)]
  BY DEF KeyBody, shifted
<1> HIDE DEF n
<1>8. KeyBody(body, old) = [i \in 1..n |-> KeyBody(body, old)[i]]
  BY <1>7
<1>9. /\ KeyBody(body, old) \in Seq(Range(KeyBody(body, old)))
      /\ Len(KeyBody(body, old)) = n /\ DOMAIN KeyBody(body, old) = 1..n
  BY <1>5, <1>8, SequenceFacts
<1>10. \A i \in 1..n : KeyBody(body, old)[i] = NewGroup(body, i - 1, old)
  BY <1>7
<1>11. GroupsOK(KeyBody(body, old))
  BY <1>9, <1>10, NewGroupFacts DEF GroupsOK
<1> QED
  BY <1>5, <1>6, <1>9, <1>10, <1>11, NewGroupFacts

-----------------------------------------------------------------------------
(* Each action preserves the invariant.                                     *)

(* What an action leaves alone stays as it is.                              *)
LEMMA FrameFacts ==
  /\ CodesTyped /\ UNCHANGED codes => CodesTyped'
  /\ TablesTyped /\ UNCHANGED <<types, modifiers>> => TablesTyped'
  /\ SymbolsTyped /\ UNCHANGED symbols => SymbolsTyped'
  /\ CompatTyped /\ UNCHANGED compat => CompatTyped'
  /\ EverythingReachable /\ UNCHANGED <<codes, symbols>> => EverythingReachable'
  /\ Fit /\ UNCHANGED <<section, saw, done, types, keys>> => Fit'
<1>1. CodesTyped /\ UNCHANGED codes => CodesTyped'
  BY DEF CodesTyped, codes
<1>2. TablesTyped /\ UNCHANGED <<types, modifiers>> => TablesTyped'
  BY DEF TablesTyped, modifiers
<1>3. SymbolsTyped /\ UNCHANGED symbols => SymbolsTyped'
  BY DEF SymbolsTyped, symbols
<1>4. CompatTyped /\ UNCHANGED compat => CompatTyped'
  BY DEF CompatTyped, compat
<1>5. EverythingReachable /\ UNCHANGED <<codes, symbols>> => EverythingReachable'
  BY DEF EverythingReachable, codes, symbols
<1>6. Fit /\ UNCHANGED <<section, saw, done, types, keys>> => Fit'
  BY DEF Fit, LevelsFit, StandardTypesFit
<1> QED
  BY <1>1, <1>2, <1>3, <1>4, <1>5, <1>6

(* A good statement leaves the control as it is.                            *)
LEMMA GoodStatementFacts ==
  ASSUME NEW s
  PROVE  /\ ControlTyped /\ GoodStatement(s) => ControlTyped'
         /\ GoodStatement(s) => section = s /\ UNCHANGED <<section, saw, done, failed>>
         /\ Statement(s) => GoodStatement(s) /\ UNCHANGED modifiers
  BY KeymapBuildAssumption DEF ControlTyped, GoodStatement, Read, Statement

(* The statements that change the range of keycodes or one name.            *)
LEMMA KeycodeInv ==
  ASSUME IInv
  PROVE  /\ \A c \in Ranges : SetMinimum(c) \/ SetMaximum(c) => IInv'
         /\ \A n \in Names, c \in CodeDefs : KeycodeDefinition(n, c) => IInv'
         /\ \A n \in Names, target \in Names : KeycodeAlias(n, target) => IInv'
<1>1. range \in [min : Nat, max : Nat] /\ range.min \in CodeDefs \cup Ranges \cup {8}
  BY DEF IInv, CodesTyped
<1>2. ASSUME NEW c \in Ranges, SetMinimum(c) \/ SetMaximum(c)
      PROVE  IInv'
  <2>1. c \in Nat
    BY KeymapBuildAssumption
  <2>2. /\ Statement("keycodes") /\ UNCHANGED <<nameOf, codeOf, types, symbols, compat>>
        /\ range' = [range EXCEPT !.min = c] \/ range' = [range EXCEPT !.max = c]
    BY <1>2 DEF SetMinimum, SetMaximum
  <2>3. CodesTyped'
    BY <1>1, <2>1, <2>2 DEF IInv, CodesTyped
  <2>4. EverythingReachable'
    BY <2>2 DEF IInv, EverythingReachable, symbols
  <2> QED
    BY <2>2, <2>3, <2>4, FrameFacts, GoodStatementFacts DEF IInv, symbols
<1>3. ASSUME NEW n \in Names, NEW c \in CodeDefs, KeycodeDefinition(n, c)
      PROVE  IInv'
  <2>1. /\ Statement("keycodes") /\ UNCHANGED <<types, symbols, compat>>
        /\ nameOf' = Put(nameOf, c, n) /\ codeOf' = Put(codeOf, n, c) /\ range' = Wider(range, c)
    BY <1>3 DEF KeycodeDefinition
  <2>2. c \in Keycodes /\ c \in Nat
    BY ConstantFacts
  <2>3. CodesTyped'
    <3>1. nameOf' \in [DOMAIN nameOf' -> Names] /\ DOMAIN nameOf' \subseteq Keycodes
      BY <2>1, <2>2 DEF IInv, CodesTyped, Put
    <3>2. codeOf' \in [DOMAIN codeOf' -> Keycodes] /\ DOMAIN codeOf' \subseteq Names
      BY <2>1, <2>2 DEF IInv, CodesTyped, Put
    <3>3. range' \in [min : Nat, max : Nat] /\ range'.min \in CodeDefs \cup Ranges \cup {8}
      BY <1>1, <2>1, <2>2 DEF Wider
    <3> QED
      BY <3>1, <3>2, <3>3 DEF CodesTyped
  <2>4. EverythingReachable'
    <3>1. DOMAIN nameOf \subseteq DOMAIN nameOf' /\ c \in DOMAIN nameOf'
      BY <2>1 DEF Put
    <3>2. Range(codeOf') \subseteq Range(codeOf) \cup {c}
      BY <2>1 DEF Put, Range
    <3> QED
      BY <2>1, <3>1, <3>2 DEF IInv, EverythingReachable, symbols
  <2> QED
    BY <2>1, <2>3, <2>4, FrameFacts, GoodStatementFacts DEF IInv, symbols
<1>4. ASSUME NEW n \in Names, NEW target \in Names, KeycodeAlias(n, target)
      PROVE  IInv'
  <2>1. /\ Statement("keycodes") /\ UNCHANGED <<nameOf, range, types, symbols, compat>>
        /\ codeOf' = IF target \in DOMAIN codeOf THEN Put(codeOf, n, codeOf[target]) ELSE codeOf
    BY <1>4 DEF KeycodeAlias
  <2>2. codeOf' \in [DOMAIN codeOf' -> Keycodes] /\ DOMAIN codeOf' \subseteq Names
    BY <2>1 DEF IInv, CodesTyped, Put
  <2>3. CodesTyped'
    BY <2>1, <2>2 DEF IInv, CodesTyped
  <2>4. Range(codeOf') \subseteq Range(codeOf)
    BY <2>1 DEF Put, Range
  <2>5. EverythingReachable'
    BY <2>1, <2>4 DEF IInv, EverythingReachable, symbols
  <2> QED
    BY <2>1, <2>3, <2>5, FrameFacts, GoodStatementFacts DEF IInv, symbols
<1> QED
  BY <1>2, <1>3, <1>4

(* The statements of types, virtual modifiers, indicators and interprets.   *)
LEMMA TableInv ==
  ASSUME IInv
  PROVE  /\ \A t \in TypeDefs : TypeDefinition(t) => IInv'
         /\ \A s \in Sections, v \in VModDefs : VirtualModifier(s, v.name, v.mask) => IInv'
         /\ \A l \in LedNames, c \in LedCodes : IndicatorName(l, c) => IInv'
         /\ \A l \in LedNames, mods \in LedMods : CompatIndicator(l, mods) => IInv'
         /\ \A b \in BOOLEAN : InterpretDefault(b) => IInv'
         /\ \A i \in Interprets : Interpret(i) => IInv'
<1>1. ASSUME NEW t \in TypeDefs, TypeDefinition(t)
      PROVE  IInv'
  <2>1. /\ Statement("types") /\ types' = Put(types, t.name, TypeOf(t))
        /\ UNCHANGED <<codes, symbols, compat, virtualMods, leds>>
    BY <1>1 DEF TypeDefinition, Statement, modifiers
  <2>2. \A x \in DOMAIN types' : types'[x].levels \in 1..256
    BY <2>1, TypeOfFacts DEF IInv, TablesTyped, Put
  <2>3. TablesTyped'
    BY <2>1, <2>2 DEF IInv, TablesTyped
  <2>4. section = "types" /\ UNCHANGED <<section, saw, done, keys>>
    BY <2>1, GoodStatementFacts DEF symbols
  <2>5. "types" \in saw
    BY <2>4 DEF IInv, ControlTyped, Sections
  <2>6. Fit'
    BY <2>4, <2>5 DEF IInv, Fit, LevelsFit
  <2> QED
    BY <2>1, <2>3, <2>6, FrameFacts, GoodStatementFacts DEF IInv
<1>2. ASSUME NEW s \in Sections, NEW v \in VModDefs, VirtualModifier(s, v.name, v.mask)
      PROVE  IInv'
  <2>1. /\ GoodStatement(s) /\ UNCHANGED <<leds, codes, types, symbols, compat>>
        /\ virtualMods' = IF v.name \in DOMAIN virtualMods THEN virtualMods
                          ELSE Put(virtualMods, v.name, v.mask)
    BY <1>2 DEF VirtualModifier
  <2>2. v.mask \subseteq 0..31
    BY KeymapBuildAssumption
  <2>3. \A x \in DOMAIN virtualMods' : virtualMods'[x] \subseteq 0..31
    BY <2>1, <2>2 DEF IInv, TablesTyped, Put
  <2>4. TablesTyped'
    BY <2>1, <2>3 DEF IInv, TablesTyped
  <2> QED
    BY <2>1, <2>4, FrameFacts, GoodStatementFacts DEF IInv, symbols
<1>3. ASSUME NEW l \in LedNames, NEW index \in LedCodes \cup {0}, NEW mask \in SUBSET (0..31),
             NEW s, GoodStatement(s), UNCHANGED <<virtualMods, codes, types, symbols, compat>>,
             leds' = Put(leds, l, [index |-> index, mods |-> mask])
      PROVE  IInv'
  <2>1. /\ DOMAIN leds' \subseteq LedNames
        /\ \A x \in DOMAIN leds' : leds'[x].index \in LedCodes \cup {0} /\ leds'[x].mods \subseteq 0..31
    BY <1>3 DEF IInv, TablesTyped, Put
  <2>2. TablesTyped'
    BY <1>3, <2>1 DEF IInv, TablesTyped
  <2> QED
    BY <1>3, <2>2, FrameFacts, GoodStatementFacts DEF IInv, symbols
<1>4. ASSUME NEW l \in LedNames, NEW c \in LedCodes, IndicatorName(l, c)
      PROVE  IInv'
  <2>1. {} \in SUBSET (0..31)
    OBVIOUS
  <2> QED
    BY <1>3, <1>4, <2>1 DEF IndicatorName
<1>5. ASSUME NEW l \in LedNames, NEW mods \in LedMods, CompatIndicator(l, mods)
      PROVE  IInv'
  <2> DEFINE index == IF l \in DOMAIN leds THEN leds[l].index ELSE 0
  <2>1. MaskOf(mods) \in SUBSET (0..31)
    BY MaskFacts DEF IInv
  <2>2. index \in LedCodes \cup {0}
    BY DEF IInv, TablesTyped
  <2>3. /\ GoodStatement("compat") /\ UNCHANGED <<virtualMods, codes, types, symbols, compat>>
        /\ leds' = Put(leds, l, [index |-> index, mods |-> MaskOf(mods)])
    BY <1>5 DEF CompatIndicator
  <2> HIDE DEF index
  <2> QED
    BY <1>3, <2>1, <2>2, <2>3
<1>6. ASSUME NEW b \in BOOLEAN, InterpretDefault(b)
      PROVE  IInv'
  <2>1. /\ Statement("compat") /\ default' = [repeat |-> b, set |-> TRUE]
        /\ UNCHANGED <<codes, types, symbols, interprets>>
    BY <1>6 DEF InterpretDefault
  <2>2. CompatTyped'
    BY <2>1 DEF IInv, CompatTyped
  <2> QED
    BY <2>1, <2>2, FrameFacts, GoodStatementFacts DEF IInv, symbols
<1>7. ASSUME NEW i \in Interprets, Interpret(i)
      PROVE  IInv'
  <2>1. /\ Statement("compat") /\ interprets' = Append(interprets, i)
        /\ UNCHANGED <<codes, types, symbols, default>>
    BY <1>7 DEF Interpret
  <2>2. CompatTyped'
    BY <2>1 DEF IInv, CompatTyped
  <2> QED
    BY <2>1, <2>2, FrameFacts, GoodStatementFacts DEF IInv, symbols
<1> QED
  BY <1>1, <1>2, <1>4, <1>5, <1>6, <1>7

(* Sections and the statements that are not for a key.                      *)
LEMMA SectionInv ==
  ASSUME IInv
  PROVE  /\ \A s \in Sections : OpenSection(s) => IInv'
         /\ RepeatSection => IInv'
<1>1. ASSUME NEW s \in Sections, OpenSection(s)
      PROVE  IInv'
  <2>1. /\ ~done /\ s \notin saw /\ section' = s /\ saw' = saw \cup {s}
        /\ UNCHANGED <<count, codes, types, modifiers, symbols, compat, failed, done>>
    BY <1>1 DEF OpenSection
  <2>2. ControlTyped'
    BY <2>1 DEF IInv, ControlTyped
  <2>3. Fit'
    BY <2>1 DEF IInv, Fit, LevelsFit, StandardTypesFit, symbols
  <2> QED
    BY <2>1, <2>2, <2>3, FrameFacts DEF IInv
<1>2. ASSUME RepeatSection
      PROVE  IInv'
  <2>1. /\ ~done /\ section' = "stopped" /\ failed' = TRUE
        /\ UNCHANGED <<saw, count, codes, types, modifiers, symbols, compat, done>>
    BY <1>2 DEF RepeatSection
  <2>2. ControlTyped'
    BY <2>1 DEF IInv, ControlTyped, Sections
  <2>3. Fit'
    BY <2>1 DEF IInv, Fit, LevelsFit, StandardTypesFit, symbols
  <2> QED
    BY <2>1, <2>2, <2>3, FrameFacts DEF IInv
<1> QED
  BY <1>1, <1>2

(* The statements that shift groups and name them.                          *)
LEMMA GroupInv ==
  ASSUME IInv
  PROVE  /\ \A o \in Offsets : SetGroupOffset(o) => IInv'
         /\ \A g \in GroupNames : GroupName(g) => IInv'
<1>1. ASSUME NEW o \in Offsets, SetGroupOffset(o)
      PROVE  IInv'
  <2>1. /\ Statement("symbols") /\ groupOffset' = o
        /\ UNCHANGED <<codes, types, keys, numGroups, groupNames, compat>>
    BY <1>1 DEF SetGroupOffset
  <2>2. o \in Nat
    BY KeymapBuildAssumption
  <2>3. SymbolsTyped'
    BY <2>1, <2>2 DEF IInv, SymbolsTyped
  <2>4. EverythingReachable'
    BY <2>1 DEF IInv, EverythingReachable, codes
  <2> QED
    BY <2>1, <2>3, <2>4, FrameFacts, GoodStatementFacts DEF IInv
<1>2. ASSUME NEW rel \in GroupNames, GroupName(rel)
      PROVE  IInv'
  <2> DEFINE g == rel + groupOffset
             n == AtLeast(g + 1, Len(groupNames))
  <2>1. /\ Statement("symbols")
        /\ groupNames' = [i \in 1..n |->
             IF i = g + 1 THEN "named" ELSE IF i \in DOMAIN groupNames THEN groupNames[i] ELSE Unnamed]
        /\ numGroups' = AtLeast(g + 1, numGroups)
        /\ UNCHANGED <<codes, types, keys, groupOffset, compat>>
    BY <1>2 DEF GroupName
  <2>2. g \in Nat
    BY KeymapBuildAssumption DEF IInv, SymbolsTyped
  <2>3. groupNames \in Seq({Unnamed, "named"}) /\ numGroups \in Nat
    BY DEF IInv, SymbolsTyped
  <2>4. n \in Nat /\ numGroups' \in Nat /\ numGroups <= numGroups' /\ g + 1 <= numGroups'
    BY <2>1, <2>2, <2>3 DEF AtLeast
  <2> HIDE DEF g, n
  <2>5. groupNames' \in [1..n -> {Unnamed, "named"}]
    BY <2>1, <2>3
  <2>6. groupNames' \in Seq({Unnamed, "named"}) /\ DOMAIN groupNames' = 1..n
    BY <2>4, <2>5, IsASeq
  <2>7. SymbolsTyped'
    BY <2>1, <2>4, <2>6 DEF IInv, SymbolsTyped
  <2>8. \A c \in DOMAIN keys' : Len(keys'[c].groups) <= numGroups'
    <3>1. ASSUME NEW c \in DOMAIN keys
          PROVE  Len(keys[c].groups) <= numGroups'
      <4>1. Len(keys[c].groups) \in Nat /\ Len(keys[c].groups) <= numGroups
        BY DEF IInv, EverythingReachable, SymbolsTyped, KeyOK, GroupsOK
      <4> QED
        BY <2>3, <2>4, <4>1
    <3> QED
      BY <2>1, <3>1
  <2>9. ASSUME NEW i \in DOMAIN groupNames', groupNames'[i] # Unnamed
        PROVE  i <= numGroups'
    <3>1. CASE i = g + 1
      BY <2>4, <3>1
    <3>2. CASE i # g + 1
      <4>1. i \in DOMAIN groupNames /\ groupNames[i] # Unnamed
        BY <2>1, <2>6, <2>9, <3>2
      <4>2. i <= numGroups /\ i \in Nat
        BY <2>3, <4>1 DEF IInv, EverythingReachable
      <4> QED
        BY <2>3, <2>4, <4>2
    <3> QED
      BY <3>1, <3>2
  <2>10. EverythingReachable'
    BY <2>1, <2>8, <2>9 DEF IInv, EverythingReachable, codes
  <2> QED
    BY <2>1, <2>7, <2>10, FrameFacts, GoodStatementFacts DEF IInv
<1> QED
  BY <1>1, <1>2

(* A key statement gives its name a keycode, whatever becomes of the rest.   *)
LEMMA NameKeycodeInv ==
  ASSUME IInv, NEW n \in Names, NameKeycode(n)
  PROVE  /\ CodesTyped'
         /\ DOMAIN nameOf \subseteq DOMAIN nameOf' /\ KeycodeFor(n) \in DOMAIN nameOf'
         /\ Range(codeOf') \subseteq DOMAIN nameOf'
<1> DEFINE c == KeycodeFor(n)
<1>1. c \in Keycodes /\ c \in Nat
  BY ConstantFacts, KeycodeForFacts DEF IInv
<1>2. Range(codeOf) \subseteq DOMAIN nameOf
  BY DEF IInv, EverythingReachable
<1>3. CASE n \in DOMAIN codeOf
  <2>1. UNCHANGED <<nameOf, codeOf, range>>
    BY <1>3 DEF NameKeycode, codes
  <2>2. c \in Range(codeOf)
    BY <1>3 DEF KeycodeFor, Range
  <2> QED
    BY <1>2, <2>1, <2>2 DEF IInv, CodesTyped
<1>4. CASE n \notin DOMAIN codeOf
  <2>1. /\ nameOf' = Put(nameOf, c, n) /\ codeOf' = Put(codeOf, n, c)
        /\ range' = [range EXCEPT !.max = AtLeast(c, range.max)]
    BY <1>4 DEF NameKeycode
  <2> HIDE DEF c
  <2>2. nameOf' \in [DOMAIN nameOf' -> Names] /\ DOMAIN nameOf' \subseteq Keycodes
    BY <1>1, <2>1 DEF IInv, CodesTyped, Put
  <2>3. codeOf' \in [DOMAIN codeOf' -> Keycodes] /\ DOMAIN codeOf' \subseteq Names
    BY <1>1, <2>1 DEF IInv, CodesTyped, Put
  <2>4. range' \in [min : Nat, max : Nat] /\ range'.min = range.min
    <3>1. range \in [min : Nat, max : Nat]
      BY DEF IInv, CodesTyped
    <3> QED
      BY <1>1, <2>1, <3>1 DEF AtLeast
  <2>5. CodesTyped'
    BY <2>2, <2>3, <2>4 DEF IInv, CodesTyped
  <2>6. DOMAIN nameOf' = DOMAIN nameOf \cup {c}
    BY <2>1 DEF Put
  <2>7. Range(codeOf') \subseteq Range(codeOf) \cup {c}
    BY <2>1 DEF Put, Range
  <2> QED
    BY <1>2, <2>5, <2>6, <2>7 DEF c
<1> QED
  BY <1>3, <1>4

(* The groups of the key that a statement is for, before it.                *)
OldGroups(c) == IF c \in DOMAIN keys THEN keys[c].groups ELSE <<>>

(* They have types, and levels that fit them.                               *)
LEMMA OldGroupsFacts ==
  ASSUME IInv, NEW c
  PROVE  /\ GroupsOK(OldGroups(c))
         /\ LevelsFit => \A i \in DOMAIN OldGroups(c) :
              Len(OldGroups(c)[i].syms) <= OldGroups(c)[i].type.levels
<1>1. CASE c \in DOMAIN keys
  BY <1>1 DEF OldGroups, IInv, SymbolsTyped, KeyOK, LevelsFit
<1>2. CASE c \notin DOMAIN keys
  <2>1. <<>> \in Seq(Range(<<>>)) /\ DOMAIN <<>> = {}
    OBVIOUS
  <2> QED
    BY <1>2, <2>1 DEF OldGroups, GroupsOK
<1> QED
  BY <1>1, <1>2

(* What a key statement makes of the key it is for.                         *)
LEMMA KeyDefinitionFacts ==
  ASSUME IInv, NEW n \in Names, NEW body \in Bodies, KeyDefinition(n, body)
  PROVE  LET c == KeycodeFor(n) IN
         /\ Statement("symbols") /\ NameKeycode(n)
         /\ DOMAIN keys' = DOMAIN keys \cup {c}
         /\ \A d \in DOMAIN keys : d # c => keys'[d] = keys[d]
         /\ keys'[c].groups = KeyBody(body, OldGroups(c))
         /\ KeyOK(keys'[c])
         /\ numGroups' = AtLeast(Len(KeyBody(body, OldGroups(c))), numGroups)
         /\ UNCHANGED <<types, groupNames, groupOffset, compat>>
<1> DEFINE c == KeycodeFor(n)
           known == c \in DOMAIN keys
           repeats == IF body.repeat = "none" THEN (IF known THEN keys[c].repeats ELSE TRUE)
                      ELSE body.repeat = "yes"
           groups == KeyBody(body, OldGroups(c))
           key == [name |-> n, groups |-> groups, repeats |-> repeats, mods |-> {}]
<1>1. /\ Statement("symbols") /\ NameKeycode(n)
      /\ keys' = Put(keys, c, key) /\ numGroups' = AtLeast(Len(groups), numGroups)
      /\ UNCHANGED <<types, groupNames, groupOffset, compat>>
  BY DEF KeyDefinition, OldGroups
<1>2. repeats \in BOOLEAN
  BY DEF IInv, SymbolsTyped, KeyOK
<1>3. GroupsOK(groups)
  BY OldGroupsFacts, KeyBodyFacts DEF IInv, SymbolsTyped
<1>4. KeyOK(key)
  <2> HIDE DEF repeats, groups
  <2> QED
    BY <1>2, <1>3 DEF KeyOK
<1>5. key.groups = groups
  OBVIOUS
<1> HIDE DEF c, groups, key
<1>6. /\ DOMAIN keys' = DOMAIN keys \cup {c} /\ keys'[c] = key
      /\ \A d \in DOMAIN keys : d # c => keys'[d] = keys[d]
  BY <1>1 DEF Put
<1> QED
  BY <1>1, <1>4, <1>5, <1>6 DEF c, groups

(* A key statement.                                                         *)
LEMMA KeyDefinitionInv ==
  ASSUME IInv, NEW n \in Names, NEW body \in Bodies, KeyDefinition(n, body)
  PROVE  IInv'
<1>1. PICK c : c = KeycodeFor(n)
  OBVIOUS
<1>2. PICK groups : groups = KeyBody(body, OldGroups(c))
  OBVIOUS
<1>3. /\ Statement("symbols") /\ NameKeycode(n)
      /\ DOMAIN keys' = DOMAIN keys \cup {c} /\ keys'[c].groups = groups /\ KeyOK(keys'[c])
      /\ \A d \in DOMAIN keys : d # c => keys'[d] = keys[d]
      /\ numGroups' = AtLeast(Len(groups), numGroups)
      /\ UNCHANGED <<types, groupNames, groupOffset, compat>>
  BY <1>1, <1>2, KeyDefinitionFacts
<1>4. c \in Keycodes
  BY <1>1, KeycodeForFacts DEF IInv
<1>5. numGroups \in Nat /\ groupOffset \in Nat /\ Len(groups) \in Nat
  BY <1>2, OldGroupsFacts, KeyBodyFacts DEF IInv, SymbolsTyped
<1>6. numGroups' \in Nat /\ numGroups <= numGroups' /\ Len(groups) <= numGroups'
  BY <1>3, <1>5 DEF AtLeast
<1>7. SymbolsTyped'
  BY <1>3, <1>4, <1>6 DEF IInv, SymbolsTyped
<1>8. CodesTyped'
  BY <1>3, NameKeycodeInv
<1>9. EverythingReachable'
  <2>1. DOMAIN keys' \subseteq DOMAIN nameOf' /\ Range(codeOf') \subseteq DOMAIN nameOf'
    BY <1>1, <1>3, NameKeycodeInv DEF IInv, EverythingReachable
  <2>2. ASSUME NEW d \in DOMAIN keys'
        PROVE  Len(keys'[d].groups) <= numGroups'
    <3>1. CASE d = c
      BY <1>3, <1>6, <3>1
    <3>2. CASE d # c
      <4>1. d \in DOMAIN keys /\ keys'[d] = keys[d]
        BY <1>3, <3>2
      <4>2. Len(keys[d].groups) \in Nat /\ Len(keys[d].groups) <= numGroups
        BY <4>1 DEF IInv, EverythingReachable, SymbolsTyped, KeyOK, GroupsOK
      <4> QED
        BY <1>5, <1>6, <4>1, <4>2
    <3> QED
      BY <3>1, <3>2
  <2>3. ASSUME NEW i \in DOMAIN groupNames, groupNames[i] # Unnamed
        PROVE  i <= numGroups'
    <3>1. i \in Nat /\ i <= numGroups
      BY <2>3 DEF IInv, EverythingReachable, SymbolsTyped
    <3> QED
      BY <1>5, <1>6, <3>1
  <2> QED
    BY <1>3, <2>1, <2>2, <2>3 DEF EverythingReachable
<1>10. Fit'
  <2>1. section = "symbols" /\ UNCHANGED <<section, saw, done, types>>
    BY <1>3, GoodStatementFacts
  <2>2. "types" \notin saw => StandardTypesFit
    <3>1. types = Empty => DOMAIN types = {}
      BY DEF Empty
    <3> QED
      BY <3>1 DEF IInv, Fit, StandardTypesFit
  <2>3. ASSUME StandardTypesFit, LevelsFit PROVE LevelsFit'
    <3>1. \A i \in DOMAIN groups : Len(groups[i].syms) <= groups[i].type.levels
      BY <1>2, <1>5, <2>3, OldGroupsFacts, KeyBodyFacts DEF IInv
    <3> QED
      BY <1>3, <2>3, <3>1 DEF LevelsFit
  <2>4. StandardTypesFit' <=> StandardTypesFit
    BY <2>1 DEF StandardTypesFit
  <2> QED
    BY <2>1, <2>2, <2>3, <2>4 DEF IInv, Fit
<1> QED
  BY <1>3, <1>7, <1>8, <1>9, <1>10, FrameFacts, GoodStatementFacts DEF IInv

(* A key statement whose body does not parse.                               *)
LEMMA BadKeyDefinitionInv ==
  ASSUME IInv, NEW n \in Names, BadKeyDefinition(n)
  PROVE  IInv'
<1>1. /\ Read("symbols") /\ section' \in {"symbols", "stopped"} /\ NameKeycode(n)
      /\ failed' = TRUE /\ UNCHANGED <<types, modifiers, symbols, compat>>
  BY DEF BadKeyDefinition
<1>2. section = "symbols" /\ count' = count + 1 /\ count < MaxStatements /\ UNCHANGED <<saw, done>>
  BY <1>1 DEF Read
<1>3. ControlTyped'
  BY <1>1, <1>2, KeymapBuildAssumption DEF IInv, ControlTyped, Sections
<1>4. CodesTyped'
  BY <1>1, NameKeycodeInv
<1>5. EverythingReachable'
  <2>1. DOMAIN nameOf \subseteq DOMAIN nameOf' /\ Range(codeOf') \subseteq DOMAIN nameOf'
    BY <1>1, NameKeycodeInv
  <2> QED
    BY <1>1, <2>1 DEF IInv, EverythingReachable, symbols
<1>6. Fit'
  BY <1>1, <1>2 DEF IInv, Fit, LevelsFit, StandardTypesFit, symbols
<1> QED
  BY <1>1, <1>3, <1>4, <1>5, <1>6, FrameFacts DEF IInv

(* A modifier_map: the keys get modifiers, their groups are as they were.    *)
LEMMA ModifierMapInv ==
  ASSUME IInv, NEW mod \in Mods, NEW names \in SUBSET Names, ModifierMap(mod, names)
  PROVE  IInv'
<1> DEFINE mapped == {codeOf[n] : n \in names \cap DOMAIN codeOf}
<1>1. /\ Statement("symbols")
      /\ keys' = [c \in DOMAIN keys |->
           IF c \in mapped THEN [keys[c] EXCEPT !.mods = @ \cup {mod}] ELSE keys[c]]
      /\ UNCHANGED <<codes, types, numGroups, groupNames, groupOffset, compat>>
  BY DEF ModifierMap
<1> HIDE DEF mapped
<1>2. DOMAIN keys' = DOMAIN keys
  BY <1>1
<1>3. ASSUME NEW c \in DOMAIN keys
      PROVE  KeyOK(keys'[c]) /\ keys'[c].groups = keys[c].groups
  <2>1. KeyOK(keys[c])
    BY DEF IInv, SymbolsTyped
  <2>2. CASE c \in mapped
    <3>1. keys'[c] = [name |-> keys[c].name, groups |-> keys[c].groups,
                      repeats |-> keys[c].repeats, mods |-> keys[c].mods \cup {mod}]
      BY <1>1, <2>1, <2>2 DEF KeyOK
    <3> QED
      BY <2>1, <3>1 DEF KeyOK
  <2>3. CASE c \notin mapped
    BY <1>1, <2>1, <2>3
  <2> QED
    BY <2>2, <2>3
<1>4. SymbolsTyped'
  BY <1>1, <1>2, <1>3 DEF IInv, SymbolsTyped
<1>5. EverythingReachable'
  BY <1>1, <1>2, <1>3 DEF IInv, EverythingReachable, codes
<1>6. Fit'
  <2>1. LevelsFit' <=> LevelsFit
    BY <1>2, <1>3 DEF LevelsFit
  <2>2. UNCHANGED <<section, saw, done, types>>
    BY <1>1, GoodStatementFacts
  <2> QED
    BY <2>1, <2>2 DEF IInv, Fit, StandardTypesFit
<1> QED
  BY <1>1, <1>4, <1>5, <1>6, FrameFacts, GoodStatementFacts DEF IInv

(* The end of the parse: keys repeat or not and groups may change types.     *)
LEMMA FinishFacts ==
  ASSUME IInv, Finish
  PROVE  /\ DOMAIN keys' = DOMAIN keys
         /\ \A c \in DOMAIN keys :
              /\ KeyOK(keys'[c])
              /\ DOMAIN keys'[c].groups = DOMAIN keys[c].groups
              /\ Len(keys'[c].groups) = Len(keys[c].groups)
              /\ \A i \in DOMAIN keys[c].groups : keys'[c].groups[i].syms = keys[c].groups[i].syms
<1>1. keys' = [c \in DOMAIN keys |->
        [keys[c] EXCEPT !.repeats = FinalRepeats(keys[c]), !.groups = FinalGroups(keys[c].groups)]]
  BY DEF Finish
<1>2. DOMAIN keys' = DOMAIN keys
  BY <1>1
<1>3. ASSUME NEW c \in DOMAIN keys
      PROVE  /\ KeyOK(keys'[c])
             /\ DOMAIN keys'[c].groups = DOMAIN keys[c].groups
             /\ Len(keys'[c].groups) = Len(keys[c].groups)
             /\ \A i \in DOMAIN keys[c].groups : keys'[c].groups[i].syms = keys[c].groups[i].syms
  <2> DEFINE groups == keys[c].groups
             final == FinalGroups(groups)
             repeats == FinalRepeats(keys[c])
  <2>1. KeyOK(keys[c]) /\ GroupsOK(groups)
    BY DEF IInv, SymbolsTyped, KeyOK
  <2> HIDE DEF groups, final, repeats
  <2>2. keys'[c] = [name |-> keys[c].name, groups |-> final, repeats |-> repeats, mods |-> keys[c].mods]
    BY <1>1, <2>1 DEF KeyOK, groups, final, repeats
  <2>3. repeats \in BOOLEAN
    BY <2>1 DEF repeats, FinalRepeats, KeyOK, IInv, CompatTyped
  <2>4. Len(groups) \in Nat /\ DOMAIN groups = 1..Len(groups)
    BY <2>1 DEF GroupsOK
  <2>5. final = [i \in 1..Len(groups) |-> [type |-> FinalType(groups[i]), syms |-> groups[i].syms]]
    BY <2>4 DEF final, FinalGroups
  <2>6. final = [i \in 1..Len(groups) |-> final[i]]
    BY <2>5
  <2>7. final \in Seq(Range(final)) /\ Len(final) = Len(groups) /\ DOMAIN final = 1..Len(groups)
    BY <2>4, <2>6, SequenceFacts
  <2>8. ASSUME NEW i \in DOMAIN groups
        PROVE  GroupOK(final[i]) /\ final[i].syms = groups[i].syms
    <3>1. GroupOK(groups[i])
      BY <2>1 DEF GroupsOK
    <3>2. FinalType(groups[i]) = groups[i].type
          \/ \E name \in DOMAIN types : FinalType(groups[i]) = TypeNamed(name)
      BY DEF FinalType
    <3>3. FinalType(groups[i]).levels \in Nat
      BY <3>1, <3>2, NamedTypeFacts DEF GroupOK, IInv
    <3>4. final[i] = [type |-> FinalType(groups[i]), syms |-> groups[i].syms]
      BY <2>4, <2>5
    <3>5. final[i].type = FinalType(groups[i]) /\ final[i].syms = groups[i].syms
      BY <3>4
    <3> QED
      BY <3>1, <3>3, <3>5 DEF GroupOK
  <2>9. GroupsOK(final)
    BY <2>4, <2>7, <2>8 DEF GroupsOK
  <2> QED
    BY <2>1, <2>2, <2>3, <2>4, <2>7, <2>8, <2>9 DEF KeyOK, groups
<1> QED
  BY <1>2, <1>3

(* The end of Parse: repeats and types become definite, maps stay.           *)
LEMMA FinishInv ==
  ASSUME IInv, Finish
  PROVE  IInv'
<1>1. /\ ~done /\ done' = TRUE /\ section' = "stopped" /\ failed' = (failed \/ saw # Sections)
      /\ UNCHANGED <<saw, count, codes, types, modifiers, numGroups, groupNames, groupOffset, compat>>
  BY DEF Finish
<1>2. ControlTyped'
  BY <1>1 DEF IInv, ControlTyped, Sections
<1>3. SymbolsTyped'
  BY <1>1, FinishFacts DEF IInv, SymbolsTyped
<1>4. EverythingReachable'
  BY <1>1, FinishFacts DEF IInv, EverythingReachable, codes
<1>5. Fit'
  BY <1>1 DEF IInv, Fit
<1> QED
  BY <1>1, <1>2, <1>3, <1>4, <1>5, FrameFacts DEF IInv

(* Init establishes the invariant.                                          *)
LEMMA InitInv == Init => IInv
<1> SUFFICES ASSUME Init PROVE IInv
  OBVIOUS
<1>1. DOMAIN Empty = {} /\ \A S : Empty \in [DOMAIN Empty -> S]
  BY DEF Empty
<1>2. ControlTyped
  <2>1. 0 \in 0..MaxStatements
    BY KeymapBuildAssumption
  <2>2. section = "none" /\ saw = {} /\ count = 0 /\ failed = FALSE /\ done = FALSE
    BY DEF Init
  <2> QED
    BY <2>1, <2>2 DEF ControlTyped, Sections
<1>3. CodesTyped
  BY <1>1 DEF Init, CodesTyped
<1>4. TablesTyped
  BY <1>1 DEF Init, TablesTyped
<1>5. SymbolsTyped
  BY <1>1 DEF Init, SymbolsTyped
<1>6. CompatTyped
  BY DEF Init, CompatTyped
<1>7. EverythingReachable
  <2>1. Range(Empty) = {}
    BY <1>1 DEF Range
  <2>2. \A i \in DOMAIN groupNames : groupNames[i] = Unnamed
    BY DEF Init
  <2> QED
    BY <1>1, <2>1, <2>2 DEF Init, EverythingReachable
<1>8. Fit
  BY <1>1 DEF Init, Fit, LevelsFit
<1> QED
  BY <1>2, <1>3, <1>4, <1>5, <1>6, <1>7, <1>8 DEF IInv

(* Every step preserves the invariant.                                      *)
LEMMA StepInv == IInv /\ [Next]_vars => IInv'
<1> SUFFICES ASSUME IInv, [Next]_vars PROVE IInv'
  OBVIOUS
<1>1. CASE (\E s \in Sections : OpenSection(s)) \/ RepeatSection
  BY <1>1, SectionInv
<1>2. CASE \/ \E c \in Ranges : SetMinimum(c) \/ SetMaximum(c)
           \/ \E n \in Names, c \in CodeDefs : KeycodeDefinition(n, c)
           \/ \E n, target \in Names : KeycodeAlias(n, target)
  BY <1>2, KeycodeInv
<1>3. CASE \/ \E t \in TypeDefs : TypeDefinition(t)
           \/ \E s \in Sections, v \in VModDefs : s # "keycodes" /\ VirtualModifier(s, v.name, v.mask)
           \/ \E l \in LedNames, c \in LedCodes : IndicatorName(l, c)
           \/ \E l \in LedNames, mods \in LedMods : CompatIndicator(l, mods)
           \/ \E b \in BOOLEAN : InterpretDefault(b)
           \/ \E i \in Interprets : Interpret(i)
  BY <1>3, TableInv
<1>4. CASE (\E o \in Offsets : SetGroupOffset(o)) \/ (\E g \in GroupNames : GroupName(g))
  BY <1>4, GroupInv
<1>5. CASE \E n \in Names, b \in Bodies : KeyDefinition(n, b)
  BY <1>5, KeyDefinitionInv
<1>6. CASE \E n \in Names : BadKeyDefinition(n)
  BY <1>6, BadKeyDefinitionInv
<1>7. CASE \E m \in Mods, names \in SUBSET Names : ModifierMap(m, names)
  BY <1>7, ModifierMapInv
<1>8. CASE Finish
  BY <1>8, FinishInv
<1>9. CASE UNCHANGED vars
  <2>1. UNCHANGED <<section, saw, count, codes, types, modifiers, symbols, compat, failed, done, keys>>
    BY <1>9 DEF vars, symbols
  <2>2. ControlTyped'
    BY <2>1 DEF IInv, ControlTyped
  <2> QED
    BY <2>1, <2>2, FrameFacts DEF IInv
<1> QED
  BY <1>1, <1>2, <1>3, <1>4, <1>5, <1>6, <1>7, <1>8, <1>9 DEF Next

(* The invariant holds in every state.                                      *)
LEMMA Invariance == Spec => []IInv
  BY InitInv, StepInv, PTL DEF Spec

-----------------------------------------------------------------------------
(* The invariants.                                                          *)

(* Every variable of a keymap under construction holds a value of its Go     *)
(* type, whatever statements the text has.                                  *)
THEOREM TypeCorrect == Spec => []TypeOK
<1>1. IInv => TypeOK
  <2> SUFFICES ASSUME IInv PROVE TypeOK
    OBVIOUS
  <2>1. \A c \in DOMAIN keys :
          /\ keys[c].name \in Names /\ keys[c].repeats \in BOOLEAN /\ keys[c].mods \subseteq Mods
          /\ \A g \in DOMAIN keys[c].groups :
               /\ keys[c].groups[g].type.levels \in Nat
               /\ keys[c].groups[g].syms \in Seq(Entries)
    BY DEF IInv, SymbolsTyped, KeyOK, GroupsOK, GroupOK
  <2>2. \A S, s : s \in Seq(S) => Range(s) \subseteq S
    BY DEF Range
  <2>3. ASSUME NEW c \in DOMAIN keys, NEW g \in DOMAIN keys[c].groups
        PROVE  Range(keys[c].groups[g].syms) \subseteq Syms \cup {NoSymbol, AnySym}
    BY <2>1, <2>2 DEF Entries
  <2>4. Range(groupNames) \subseteq {Unnamed, "named"} /\ Range(interprets) \subseteq Interprets
    BY <2>2 DEF IInv, SymbolsTyped, CompatTyped
  <2>5. default \in [repeat : BOOLEAN, set : BOOLEAN] /\ failed \in BOOLEAN /\ done \in BOOLEAN
    BY DEF IInv, CompatTyped, ControlTyped
  <2> QED
    BY <2>1, <2>3, <2>4, <2>5
    DEF IInv, TypeOK, ControlTyped, CodesTyped, TablesTyped, SymbolsTyped
<1> QED
  BY <1>1, Invariance, PTL

(* A keymap never holds what no state can get at: keys are at keycodes with  *)
(* names, names lead to keycodes with names, and the groups that keys have  *)
(* or that have names are within numGroups.                                 *)
THEOREM Reachable == Spec => []EverythingReachable
<1>1. IInv => EverythingReachable
  BY DEF IInv
<1> QED
  BY <1>1, Invariance, PTL

(* parseKeyBody never leaves a group with more levels than its type selects, *)
(* named, inherited or guessed, when the standard types have their levels.   *)
THEOREM TypesCorrect == Spec => []TypesFit
<1>1. IInv => TypesFit
  BY DEF IInv, Fit, TypesFit
<1> QED
  BY <1>1, Invariance, PTL

-----------------------------------------------------------------------------
(* The range of keycodes.                                                   *)

(* Whatever statement names a keycode or changes the range, a keycode that    *)
(* was in the range, or is new, is in it afterwards, unless the statement is *)
(* a minimum or maximum that narrows the range ("Auto-expand the range").   *)
THEOREM RangeFollows == Spec => RangeGrows
<1> DEFINE Follows == AllInRange /\ range'.min <= range.min /\ range'.max >= range.max => AllInRange'
<1>1. ASSUME IInv, IInv', [Next]_vars
      PROVE  Follows
  <2>1. SUFFICES ASSUME AllInRange, range'.min <= range.min, range'.max >= range.max
                 PROVE  AllInRange'
    OBVIOUS
  <2>2. /\ range.min \in Nat /\ range.max \in Nat /\ range'.min \in Nat /\ range'.max \in Nat
        /\ DOMAIN nameOf \subseteq Nat /\ DOMAIN nameOf' \subseteq Nat
    BY <1>1, ConstantFacts DEF IInv, CodesTyped
  <2>3. ASSUME NEW c \in Nat, DOMAIN nameOf' \subseteq DOMAIN nameOf \cup {c},
               range'.min <= c, c <= range'.max
        PROVE  AllInRange'
    <3> SUFFICES ASSUME NEW d \in DOMAIN nameOf'
                 PROVE  range'.min <= d /\ d <= range'.max
      BY DEF AllInRange
    <3>1. CASE d \in DOMAIN nameOf
      <4>1. range.min <= d /\ d <= range.max /\ d \in Nat
        BY <2>1, <2>2, <3>1 DEF AllInRange
      <4> QED
        BY <2>1, <2>2, <4>1
    <3>2. CASE d = c
      BY <2>3, <3>2
    <3> QED
      BY <2>3, <3>1, <3>2
  <2>4. ASSUME nameOf' = nameOf
        PROVE  AllInRange'
    <3> SUFFICES ASSUME NEW d \in DOMAIN nameOf
                 PROVE  range'.min <= d /\ d <= range'.max
      BY <2>4 DEF AllInRange
    <3>1. range.min <= d /\ d <= range.max /\ d \in Nat
      BY <2>1, <2>2 DEF AllInRange
    <3> QED
      BY <2>1, <2>2, <3>1
  <2>5. ASSUME NEW n \in Names, NEW c \in CodeDefs, KeycodeDefinition(n, c)
        PROVE  AllInRange'
    <3>1. DOMAIN nameOf' = DOMAIN nameOf \cup {c} /\ range' = Wider(range, c)
      BY <2>5 DEF KeycodeDefinition, Put
    <3>2. c \in Nat
      BY KeymapBuildAssumption
    <3>3. range'.min <= c /\ c <= range'.max
      BY <2>2, <3>1, <3>2 DEF Wider
    <3> QED
      BY <2>3, <3>1, <3>2, <3>3
  <2>6. ASSUME NEW n \in Names, NameKeycode(n)
        PROVE  AllInRange'
    <3>1. CASE n \in DOMAIN codeOf
      BY <2>4, <2>6, <3>1 DEF NameKeycode, codes
    <3>2. CASE n \notin DOMAIN codeOf
      <4>1. PICK c \in Nat : c = KeycodeFor(n)
        BY <1>1, ConstantFacts, KeycodeForFacts DEF IInv
      <4>2. range.min <= c
        BY <1>1, <3>2, <4>1, KeycodeForFacts DEF IInv
      <4>3. DOMAIN nameOf' = DOMAIN nameOf \cup {c} /\ range' = [range EXCEPT !.max = AtLeast(c, range.max)]
        BY <2>6, <3>2, <4>1 DEF NameKeycode, Put
      <4>4. range \in [min : Nat, max : Nat]
        BY <1>1 DEF IInv, CodesTyped
      <4>5. c <= range'.max
        BY <2>2, <4>3, <4>4 DEF AtLeast
      <4>6. range'.min <= c
        BY <2>1, <2>2, <4>2
      <4> QED
        BY <2>3, <4>3, <4>5, <4>6
    <3> QED
      BY <3>1, <3>2
  <2>7. CASE Next
    <3>1. \/ nameOf' = nameOf
          \/ \E n \in Names, c \in CodeDefs : KeycodeDefinition(n, c)
          \/ \E n \in Names : NameKeycode(n)
      <4>1. ASSUME NEW n \in Names, NEW b \in Bodies, KeyDefinition(n, b)
            PROVE  NameKeycode(n)
        BY <4>1 DEF KeyDefinition
      <4>2. ASSUME NEW n \in Names, BadKeyDefinition(n)
            PROVE  NameKeycode(n)
        BY <4>2 DEF BadKeyDefinition
      <4>3. \/ \E s \in Sections : OpenSection(s)
            \/ RepeatSection
            \/ \E c \in Ranges : SetMinimum(c) \/ SetMaximum(c)
            \/ \E n, target \in Names : KeycodeAlias(n, target)
            \/ Finish
            => nameOf' = nameOf
        BY DEF OpenSection, RepeatSection, SetMinimum, SetMaximum, KeycodeAlias, Finish, codes
      <4>4. \/ \E t \in TypeDefs : TypeDefinition(t)
            \/ \E s \in Sections, v \in VModDefs : s # "keycodes" /\ VirtualModifier(s, v.name, v.mask)
            \/ \E l \in LedNames, c \in LedCodes : IndicatorName(l, c)
            \/ \E l \in LedNames, mods \in LedMods : CompatIndicator(l, mods)
            \/ \E b \in BOOLEAN : InterpretDefault(b)
            \/ \E i \in Interprets : Interpret(i)
            => nameOf' = nameOf
        BY DEF TypeDefinition, VirtualModifier, IndicatorName, CompatIndicator, InterpretDefault,
               Interpret, codes
      <4>5. \/ \E o \in Offsets : SetGroupOffset(o)
            \/ \E g \in GroupNames : GroupName(g)
            \/ \E m \in Mods, names \in SUBSET Names : ModifierMap(m, names)
            => nameOf' = nameOf
        BY DEF SetGroupOffset, GroupName, ModifierMap, codes
      <4> QED
        BY <2>7, <4>1, <4>2, <4>3, <4>4, <4>5 DEF Next
    <3> QED
      BY <2>4, <2>5, <2>6, <3>1
  <2>8. CASE UNCHANGED vars
    BY <2>4, <2>8 DEF vars, codes
  <2> QED
    BY <1>1, <2>7, <2>8
<1>2. Spec => [][Follows]_vars
  BY <1>1, Invariance, PTL DEF Spec
<1> QED
  BY <1>2 DEF RangeGrows

-----------------------------------------------------------------------------
(* The keymap implements KeyTable.                                          *)

\* What the table has for a group of a key with these groups.
Shown(groups, g) ==
  IF g + 1 \in DOMAIN groups
  THEN [i \in DOMAIN groups[g + 1].syms |->
          IF groups[g + 1].syms[i] \in Syms THEN groups[g + 1].syms[i] ELSE NoSymbol]
  ELSE <<>>

(* What the table shows of a key is what its groups show.                   *)
LEMMA ListedShown ==
  ASSUME NEW c, NEW g
  PROVE  Listed(c, g) = Shown(OldGroups(c), g)
<1>1. CASE c \in DOMAIN keys
  BY <1>1 DEF Listed, Shown, OldGroups
<1>2. CASE c \notin DOMAIN keys
  <2>1. DOMAIN <<>> = {}
    OBVIOUS
  <2> QED
    BY <1>2, <2>1 DEF Listed, Shown, OldGroups
<1> QED
  BY <1>1, <1>2

\* The abstract table.
Bar == [c \in Keycodes |-> [g \in Groups |-> Listed(c, g)]]

(* The table is the same when the keysyms of the keys are.                  *)
LEMMA BarSame ==
  ASSUME DOMAIN keys' = DOMAIN keys,
         \A c \in DOMAIN keys :
           /\ DOMAIN keys'[c].groups = DOMAIN keys[c].groups
           /\ \A i \in DOMAIN keys[c].groups : keys'[c].groups[i].syms = keys[c].groups[i].syms
  PROVE  Bar' = Bar
<1>1. ASSUME NEW c \in Keycodes, NEW g \in Groups
      PROVE  Listed(c, g)' = Listed(c, g)
  BY DEF Listed
<1> QED
  BY <1>1 DEF Bar

(* The group that a statement makes shows what the abstract statement has    *)
(* there: what the group showed, overlaid with what is listed for it.       *)
LEMMA NewGroupShows ==
  ASSUME NEW body \in Bodies, NEW g \in Nat, groupOffset \in Nat, NEW old, GroupsOK(old),
         NEW groups, DOMAIN groups = 1..Len(groups), Len(groups) \in Nat, Len(old) <= Len(groups),
         g + 1 \in DOMAIN groups => groups[g + 1] = NewGroup(body, g, old),
         \A h \in DOMAIN body.lists : h + groupOffset + 1 <= Len(groups)
  PROVE  Shown(groups, g) =
           IF g \in {h + groupOffset : h \in DOMAIN body.lists}
           THEN Abs!Overlay(Shown(old, g), body.lists[g - groupOffset]) ELSE Shown(old, g)
<1> DEFINE syms == At(body.lists, g, <<>>)
           shown == Shown(old, g)
<1>1. DOMAIN body.lists \subseteq Nat
  BY KeymapBuildAssumption
<1>2. g \in {h + groupOffset : h \in DOMAIN body.lists} <=> g - groupOffset \in DOMAIN body.lists
  BY <1>1
<1>3. syms = IF g - groupOffset \in DOMAIN body.lists THEN body.lists[g - groupOffset] ELSE <<>>
  BY DEF At
<1>4. syms \in Seq(Entries)
  BY ListedFacts
<1>5. \A s : Abs!Overlay(s, <<>>) = s
  BY DEF Abs!Overlay
<1> SUFFICES Shown(groups, g) = Abs!Overlay(shown, syms)
  BY <1>2, <1>3, <1>5
<1> HIDE DEF syms
<1>6. Len(old) \in Nat /\ DOMAIN old = 1..Len(old)
  BY DEF GroupsOK
<1>7. CASE syms = <<>>
  <2>1. CASE g + 1 \in DOMAIN old
    <3>1. g + 1 \in DOMAIN groups
      BY <1>6, <2>1
    <3>2. groups[g + 1] = old[g + 1]
      BY <1>7, <2>1, <3>1 DEF NewGroup, syms
    <3> QED
      BY <1>5, <1>7, <2>1, <3>1, <3>2 DEF Shown
  <2>2. CASE g + 1 \notin DOMAIN old
    <3>1. shown = <<>>
      BY <2>2 DEF Shown
    <3>2. g + 1 \in DOMAIN groups => groups[g + 1].syms = <<>>
      BY <1>7, <2>2 DEF NewGroup, syms
    <3>3. Shown(groups, g) = <<>>
      <4>1. DOMAIN <<>> = {}
        OBVIOUS
      <4>2. \A s : s = <<>> => [i \in DOMAIN s |-> IF s[i] \in Syms THEN s[i] ELSE NoSymbol] = <<>>
        BY <4>1
      <4> QED
        BY <3>2, <4>2 DEF Shown
    <3> QED
      BY <1>5, <1>7, <3>1, <3>3
  <2> QED
    BY <2>1, <2>2
<1>8. CASE syms # <<>>
  <2>1. g + 1 \in DOMAIN groups
    <3>1. g - groupOffset \in DOMAIN body.lists
      BY <1>3, <1>8
    <3>2. (g - groupOffset) + groupOffset + 1 <= Len(groups)
      BY <3>1
    <3> QED
      BY <3>2
  <2>2. groups[g + 1] = NewGroup(body, g, old)
    BY <2>1
  <2>3. Abs!Overlay(shown, syms) = [i \in DOMAIN syms |->
          IF syms[i] \in Syms THEN syms[i]
          ELSE IF i \in DOMAIN shown THEN shown[i] ELSE NoSymbol]
    BY <1>8 DEF Abs!Overlay
  <2>4. Shown(groups, g) = [i \in DOMAIN groups[g + 1].syms |->
          IF groups[g + 1].syms[i] \in Syms THEN groups[g + 1].syms[i] ELSE NoSymbol]
    BY <2>1 DEF Shown
  <2>5. NoSymbol \notin Syms /\ AnySym \notin Syms
    BY KeymapBuildAssumption
  <2>6. CASE g + 1 \in DOMAIN old
    <3>1. PICK s : s = old[g + 1].syms
      OBVIOUS
    <3>2. s \in Seq(Entries)
      BY <2>6, <3>1 DEF GroupsOK, GroupOK
    <3>3. groups[g + 1].syms = MergedSyms(s, syms)
      BY <1>8, <2>2, <2>6, <3>1 DEF NewGroup, syms
    <3>4. shown = [i \in DOMAIN s |-> IF s[i] \in Syms THEN s[i] ELSE NoSymbol]
      BY <2>6, <3>1 DEF Shown
    <3>5. DOMAIN MergedSyms(s, syms) = DOMAIN syms
      BY DEF MergedSyms
    <3>6. ASSUME NEW i \in DOMAIN syms
          PROVE  (IF MergedSyms(s, syms)[i] \in Syms THEN MergedSyms(s, syms)[i] ELSE NoSymbol)
                 = IF syms[i] \in Syms THEN syms[i]
                   ELSE IF i \in DOMAIN shown THEN shown[i] ELSE NoSymbol
      <4>1. syms[i] \in Entries
        BY <1>4
      <4>2. MergedSyms(s, syms)[i] =
              IF syms[i] \notin {AnySym, NoSymbol} THEN syms[i]
              ELSE IF i \in DOMAIN s THEN s[i] ELSE NoSymbol
        BY DEF MergedSyms
      <4>3. DOMAIN shown = DOMAIN s
        BY <3>4
      <4>4. i \in DOMAIN s => shown[i] = IF s[i] \in Syms THEN s[i] ELSE NoSymbol
        BY <3>4
      <4> HIDE DEF shown
      <4> QED
        BY <2>5, <4>1, <4>2, <4>3, <4>4 DEF Entries
    <3> HIDE DEF shown
    <3> QED
      BY <2>3, <2>4, <3>3, <3>5, <3>6
  <2>7. CASE g + 1 \notin DOMAIN old
    <3>1. groups[g + 1].syms = syms
      BY <2>2, <2>7 DEF NewGroup, syms
    <3>2. DOMAIN shown = {}
      BY <2>7 DEF Shown
    <3> HIDE DEF shown
    <3> QED
      BY <2>3, <2>4, <3>1, <3>2
  <2> QED
    BY <2>6, <2>7
<1> QED
  BY <1>7, <1>8

(* A key statement is a Define of the abstract table.                       *)
LEMMA KeyDefinitionRefines ==
  ASSUME IInv, NEW n \in Names, NEW body \in Bodies, KeyDefinition(n, body)
  PROVE  Abs!Define(n, body.lists)
<1>1. PICK c : c = KeycodeFor(n)
  OBVIOUS
<1>2. PICK old : old = OldGroups(c)
  OBVIOUS
<1>3. PICK groups : groups = KeyBody(body, old)
  OBVIOUS
<1>4. /\ NameKeycode(n)
      /\ DOMAIN keys' = DOMAIN keys \cup {c} /\ keys'[c].groups = groups
      /\ \A d \in DOMAIN keys : d # c => keys'[d] = keys[d]
      /\ UNCHANGED groupOffset
  BY <1>1, <1>2, <1>3, KeyDefinitionFacts
<1>5. c \in Keycodes
  BY <1>1, KeycodeForFacts DEF IInv
<1>6. groupOffset \in Nat /\ GroupsOK(old)
  BY <1>2, OldGroupsFacts DEF IInv, SymbolsTyped
<1>7. n \in DOMAIN codeOf => c = codeOf[n]
  BY <1>1 DEF KeycodeFor
<1>8. codeOf' = Abs!Called(n, c)
  <2>1. CASE n \in DOMAIN codeOf
    <3>1. codeOf' = codeOf
      BY <1>4, <2>1 DEF NameKeycode, codes
    <3>2. codeOf = [m \in DOMAIN codeOf |-> codeOf[m]]
      BY DEF IInv, CodesTyped
    <3> QED
      BY <1>7, <2>1, <3>1, <3>2 DEF Abs!Called
  <2>2. CASE n \notin DOMAIN codeOf
    BY <1>1, <1>4, <2>2 DEF NameKeycode, Put, Abs!Called
  <2> QED
    BY <2>1, <2>2
<1>9. ASSUME NEW g \in Groups
      PROVE  Listed(c, g)' =
               IF g \in {h + groupOffset : h \in DOMAIN body.lists}
               THEN Abs!Overlay(Listed(c, g), body.lists[g - groupOffset]) ELSE Listed(c, g)
  <2>1. g \in Nat
    <3>1. \A b \in Bodies : DOMAIN b.lists \subseteq Nat
      BY KeymapBuildAssumption
    <3>2. \A o \in Offsets \cup {0} : o \in Nat
      BY KeymapBuildAssumption
    <3>3. Groups \subseteq Nat
      BY <3>1, <3>2 DEF Groups
    <3> QED
      BY <3>3
  <2>2. Listed(c, g)' = Shown(groups, g)
    BY <1>4 DEF Listed, Shown
  <2>3. Listed(c, g) = Shown(old, g)
    BY <1>2, ListedShown
  <2>4. /\ Len(groups) \in Nat /\ DOMAIN groups = 1..Len(groups) /\ Len(old) <= Len(groups)
        /\ \A h \in DOMAIN body.lists : h + groupOffset + 1 <= Len(groups)
        /\ \A i \in DOMAIN groups : groups[i] = NewGroup(body, i - 1, old)
    BY <1>3, <1>6, KeyBodyFacts DEF IInv
  <2>5. g + 1 \in DOMAIN groups => groups[g + 1] = NewGroup(body, g, old)
    <3>1. (g + 1) - 1 = g
      BY <2>1
    <3> QED
      BY <2>4, <3>1
  <2>6. Shown(groups, g) =
          IF g \in {h + groupOffset : h \in DOMAIN body.lists}
          THEN Abs!Overlay(Shown(old, g), body.lists[g - groupOffset]) ELSE Shown(old, g)
    BY <1>6, <2>1, <2>4, <2>5, NewGroupShows
  <2> QED
    BY <2>2, <2>3, <2>6
<1>10. ASSUME NEW d \in Keycodes, d # c, NEW g \in Groups
       PROVE  Listed(d, g)' = Listed(d, g)
  BY <1>4, <1>10 DEF Listed
<1>11. Bar' = [Bar EXCEPT ![c] = [g \in Groups |->
                IF g \in {h + groupOffset : h \in DOMAIN body.lists}
                THEN Abs!Overlay(@[g], body.lists[g - groupOffset]) ELSE @[g]]]
  <2>1. Bar' = [d \in Keycodes |-> [g \in Groups |-> Listed(d, g)']]
    BY DEF Bar
  <2>2. \A d \in Keycodes : Bar[d] = [g \in Groups |-> Listed(d, g)]
    BY DEF Bar
  <2>3. [g \in Groups |-> Listed(c, g)'] =
          [g \in Groups |->
             IF g \in {h + groupOffset : h \in DOMAIN body.lists}
             THEN Abs!Overlay(Bar[c][g], body.lists[g - groupOffset]) ELSE Bar[c][g]]
    BY <1>5, <1>9, <2>2
  <2>4. \A d \in Keycodes : d # c => [g \in Groups |-> Listed(d, g)'] = Bar[d]
    BY <1>10, <2>2
  <2>5. Bar = [d \in Keycodes |-> Bar[d]]
    BY DEF Bar
  <2> QED
    BY <1>5, <2>1, <2>3, <2>4, <2>5
<1> QED
  BY <1>4, <1>5, <1>7, <1>8, <1>11 DEF Abs!Define, Bar

(* A statement that only names a keycode is a Name or no step at all.        *)
LEMMA NamingRefines ==
  ASSUME IInv, NEW n \in Names, NEW c \in Keycodes,
         codeOf' = codeOf \/ codeOf' = Put(codeOf, n, c), UNCHANGED <<groupOffset, keys>>
  PROVE  [Abs!Next]_(Abs!vars)
<1>1. Bar' = Bar
  BY BarSame
<1>2. CASE codeOf' = codeOf
  BY <1>1, <1>2 DEF Abs!vars, Bar
<1>3. CASE codeOf' = Put(codeOf, n, c)
  <2>1. codeOf' = Abs!Called(n, c)
    BY <1>3 DEF Put, Abs!Called
  <2>2. Abs!Name
    BY <1>1, <2>1 DEF Abs!Name, Bar
  <2> QED
    BY <2>2 DEF Abs!Next
<1> QED
  BY <1>2, <1>3

(* Every step is a step of the abstract table or none.                      *)
LEMMA StepRefines == IInv /\ [Next]_vars => [Abs!Next]_(Abs!vars)
<1> SUFFICES ASSUME IInv, [Next]_vars PROVE [Abs!Next]_(Abs!vars)
  OBVIOUS
<1>1. ASSUME UNCHANGED <<codeOf, groupOffset>>, Bar' = Bar
      PROVE  [Abs!Next]_(Abs!vars)
  BY <1>1 DEF Abs!vars, Bar
<1>2. ASSUME UNCHANGED <<codeOf, groupOffset, keys>>
      PROVE  [Abs!Next]_(Abs!vars)
  BY <1>1, <1>2, BarSame
<1>3. CASE \/ \E s \in Sections : OpenSection(s)
           \/ RepeatSection
           \/ \E c \in Ranges : SetMinimum(c) \/ SetMaximum(c)
  BY <1>2, <1>3 DEF OpenSection, RepeatSection, SetMinimum, SetMaximum, codes, symbols
<1>4. CASE \/ \E t \in TypeDefs : TypeDefinition(t)
           \/ \E s \in Sections, v \in VModDefs : s # "keycodes" /\ VirtualModifier(s, v.name, v.mask)
           \/ \E l \in LedNames, c \in LedCodes : IndicatorName(l, c)
           \/ \E l \in LedNames, mods \in LedMods : CompatIndicator(l, mods)
           \/ \E b \in BOOLEAN : InterpretDefault(b)
           \/ \E i \in Interprets : Interpret(i)
  BY <1>2, <1>4 DEF TypeDefinition, VirtualModifier, IndicatorName, CompatIndicator,
                    InterpretDefault, Interpret, codes, symbols
<1>5. CASE \E g \in GroupNames : GroupName(g)
  BY <1>2, <1>5 DEF GroupName, codes
<1>6. ASSUME NEW n \in Names, NEW c \in CodeDefs, KeycodeDefinition(n, c)
      PROVE  [Abs!Next]_(Abs!vars)
  BY <1>6, NamingRefines, ConstantFacts DEF KeycodeDefinition, symbols
<1>7. ASSUME NEW n \in Names, NEW target \in Names, KeycodeAlias(n, target)
      PROVE  [Abs!Next]_(Abs!vars)
  <2>1. target \in DOMAIN codeOf => codeOf[target] \in Keycodes
    BY DEF IInv, CodesTyped
  <2>2. UNCHANGED <<groupOffset, keys>>
    BY <1>7 DEF KeycodeAlias, symbols
  <2>3. CASE target \in DOMAIN codeOf
    BY <1>7, <2>1, <2>2, <2>3, NamingRefines DEF KeycodeAlias
  <2>4. CASE target \notin DOMAIN codeOf
    BY <1>2, <1>7, <2>2, <2>4 DEF KeycodeAlias
  <2> QED
    BY <2>3, <2>4
<1>8. ASSUME NEW n \in Names, BadKeyDefinition(n)
      PROVE  [Abs!Next]_(Abs!vars)
  <2>1. NameKeycode(n) /\ UNCHANGED <<groupOffset, keys>>
    BY <1>8 DEF BadKeyDefinition, symbols
  <2>2. KeycodeFor(n) \in Keycodes
    BY KeycodeForFacts DEF IInv
  <2>3. codeOf' = codeOf \/ codeOf' = Put(codeOf, n, KeycodeFor(n))
    BY <2>1 DEF NameKeycode, codes
  <2> QED
    BY <2>1, <2>2, <2>3, NamingRefines
<1>9. ASSUME NEW o \in Offsets, SetGroupOffset(o)
      PROVE  [Abs!Next]_(Abs!vars)
  <2>1. groupOffset' = o /\ UNCHANGED <<codeOf, keys>>
    BY <1>9 DEF SetGroupOffset, codes
  <2>2. Bar' = Bar
    BY <2>1, BarSame
  <2>3. Abs!Shift
    BY <2>1, <2>2 DEF Abs!Shift, Bar
  <2> QED
    BY <2>3 DEF Abs!Next
<1>10. ASSUME NEW n \in Names, NEW b \in Bodies, KeyDefinition(n, b)
       PROVE  [Abs!Next]_(Abs!vars)
  <2>1. Abs!Define(n, b.lists) /\ b.lists \in {x.lists : x \in Bodies}
    BY <1>10, KeyDefinitionRefines
  <2> QED
    BY <2>1 DEF Abs!Next
<1>11. ASSUME NEW mod \in Mods, NEW names \in SUBSET Names, ModifierMap(mod, names)
       PROVE  [Abs!Next]_(Abs!vars)
  <2> DEFINE mapped == {codeOf[n] : n \in names \cap DOMAIN codeOf}
  <2>1. /\ UNCHANGED <<codeOf, groupOffset>>
        /\ keys' = [c \in DOMAIN keys |->
             IF c \in mapped THEN [keys[c] EXCEPT !.mods = @ \cup {mod}] ELSE keys[c]]
    BY <1>11 DEF ModifierMap, codes
  <2> HIDE DEF mapped
  <2>2. DOMAIN keys' = DOMAIN keys /\ \A c \in DOMAIN keys : keys'[c].groups = keys[c].groups
    BY <2>1
  <2>3. Bar' = Bar
    BY <2>2, BarSame
  <2> QED
    BY <1>1, <2>1, <2>3
<1>12. CASE Finish
  <2>1. Bar' = Bar
    BY <1>12, FinishFacts, BarSame
  <2> QED
    BY <1>1, <1>12, <2>1 DEF Finish, codes
<1>13. CASE UNCHANGED vars
  BY <1>2, <1>13 DEF vars, codes, symbols
<1> QED
  BY <1>3, <1>4, <1>5, <1>6, <1>7, <1>8, <1>9, <1>10, <1>11, <1>12, <1>13 DEF Next

(* The parser implements the abstract table: whatever the order of the       *)
(* statements, the types and the fillers, each statement overlays the       *)
(* groups it lists and changes nothing else of any key.                     *)
THEOREM Refinement == Spec => Implements
<1>1. Init => Abs!Init
  <2> SUFFICES ASSUME Init PROVE Abs!Init
    OBVIOUS
  <2>1. codeOf = [n \in {} |-> 0] /\ groupOffset = 0 /\ DOMAIN keys = {}
    BY DEF Init, Empty
  <2>2. \A c \in Keycodes, g \in Groups : Listed(c, g) = <<>>
    BY <2>1 DEF Listed
  <2> QED
    BY <2>1, <2>2 DEF Abs!Init
<1> QED
  BY <1>1, StepRefines, Invariance, PTL DEF Spec, Implements, Abs!Spec

-----------------------------------------------------------------------------
(* Which keys repeat.                                                       *)

\* One step of applyInterprets, and the fold of it over sets of interprets.
Better(best, i, syms) ==
  IF i.sym = NoSymbol \/ i.sym \notin syms THEN best
  ELSE IF best = <<>> \/ Specificity(i) >= Specificity(best[1]) THEN <<i>>
  ELSE best
BestOf(syms, D) ==
  CHOOSE f : f = [S \in SUBSET D |->
                    IF S = {} THEN <<>> ELSE Better(f[S \ {Max(S)}], interprets[Max(S)], syms)]

LEMMA BestUnfolded ==
  ASSUME NEW syms
  PROVE  BestMatch(syms) = BestOf(syms, DOMAIN interprets)[DOMAIN interprets]
  BY Zenon DEF BestMatch, FoldLeft, MapThenFoldSet, BestOf, Better

(* The fold follows the order of the interprets.                            *)
LEMMA BestSolves ==
  ASSUME NEW syms, NEW n \in Nat
  PROVE  /\ BestOf(syms, 1..n)[{}] = <<>>
         /\ \A k \in 1..n :
              BestOf(syms, 1..n)[1..k] = Better(BestOf(syms, 1..n)[1..(k - 1)], interprets[k], syms)
<1> DEFINE Step(before, k) == Better(before, interprets[k], syms)
           Is(f, m) == f = [S \in SUBSET (1..m) |-> IF S = {} THEN <<>> ELSE Step(f[S \ {Max(S)}], Max(S))]
           Has(m) == \E f : Is(f, m)
           Without == {m \in Nat : ~Has(m)}
<1>1. BestOf(syms, 1..n) = CHOOSE f : Is(f, n)
  BY DEF BestOf
<1> HIDE DEF Step
<1>2. Has(0)
  <2>1. SUBSET (1..0) = {{}}
    OBVIOUS
  <2>2. Is([S \in SUBSET (1..0) |-> <<>>], 0)
    BY <2>1
  <2> QED
    BY <2>2
<1>3. ASSUME NEW m \in Nat, Has(m) PROVE Has(m + 1)
  <2>1. PICK f : Is(f, m)
    BY <1>3
  <2> DEFINE g == [S \in SUBSET (1..(m + 1)) |->
                     IF S \subseteq 1..m THEN f[S] ELSE Step(f[S \ {m + 1}], m + 1)]
             Value(S) == IF S = {} THEN <<>> ELSE Step(g[S \ {Max(S)}], Max(S))
  <2>2. ASSUME NEW S \in SUBSET (1..(m + 1)) PROVE g[S] = Value(S)
    <3>1. CASE S \subseteq 1..m
      <4>1. S \in SUBSET (1..m)
        BY <3>1
      <4>2. g[S] = f[S]
        BY <3>1
      <4>3. f[S] = IF S = {} THEN <<>> ELSE Step(f[S \ {Max(S)}], Max(S))
        BY <2>1, <4>1
      <4>4. S \ {Max(S)} \in SUBSET (1..(m + 1)) /\ S \ {Max(S)} \subseteq 1..m
        BY <3>1
      <4>5. g[S \ {Max(S)}] = f[S \ {Max(S)}]
        BY <4>4
      <4> HIDE DEF g
      <4> QED
        BY <4>2, <4>3, <4>5
    <3>2. CASE ~(S \subseteq 1..m)
      <4>1. m + 1 \in S /\ S # {}
        BY <3>2
      <4>2. Max(S) = m + 1
        BY <4>1, MaxWithin
      <4>3. S \ {m + 1} \in SUBSET (1..(m + 1)) /\ S \ {m + 1} \subseteq 1..m
        OBVIOUS
      <4>4. g[S \ {m + 1}] = f[S \ {m + 1}]
        BY <4>3
      <4>5. g[S] = Step(f[S \ {m + 1}], m + 1)
        BY <3>2
      <4> HIDE DEF g
      <4> QED
        BY <4>1, <4>2, <4>4, <4>5
    <3> QED
      BY <3>1, <3>2
  <2>3. g = [S \in SUBSET (1..(m + 1)) |-> Value(S)]
    <3> DEFINE h(S) == IF S \subseteq 1..m THEN f[S] ELSE Step(f[S \ {m + 1}], m + 1)
    <3>1. \A S \in SUBSET (1..(m + 1)) : h(S) = Value(S)
      BY <2>2
    <3> HIDE DEF h, Value
    <3>2. [S \in SUBSET (1..(m + 1)) |-> h(S)] = [S \in SUBSET (1..(m + 1)) |-> Value(S)]
      BY <3>1
    <3> QED
      BY <3>2 DEF h
  <2>4. Is(g, m + 1)
    BY <2>3
  <2> QED
    BY <2>4
<1> HIDE DEF Has
<1>4. Has(n)
  <2> SUFFICES ASSUME Without # {} PROVE FALSE
    OBVIOUS
  <2>1. Without \in SUBSET Nat
    OBVIOUS
  <2>2. PICK m \in Without : \A k \in Without : m <= k
    <3> HIDE DEF Without
    <3> QED
      BY <2>1, MinMember
  <2>3. m \in Nat /\ ~Has(m) /\ m # 0
    BY <1>2, <2>2
  <2>4. m - 1 \in Nat /\ (m - 1) + 1 = m /\ ~(m <= m - 1)
    BY <2>3
  <2>5. Has(m - 1)
    BY <2>2, <2>4
  <2>6. Has((m - 1) + 1)
    BY <1>3, <2>4, <2>5
  <2> QED
    BY <2>3, <2>4, <2>6
<1>5. Is(BestOf(syms, 1..n), n)
  <2> DEFINE P(f) == Is(f, n)
  <2>1. PICK f : P(f)
    BY <1>4 DEF Has
  <2>2. BestOf(syms, 1..n) = CHOOSE h : P(h)
    BY <1>1
  <2> HIDE DEF P
  <2>3. P(BestOf(syms, 1..n))
    BY <2>1, <2>2
  <2> QED
    BY <2>3 DEF P
<1> DEFINE b == BestOf(syms, 1..n)
<1> HIDE DEF b
<1>6. b = [S \in SUBSET (1..n) |-> IF S = {} THEN <<>> ELSE Step(b[S \ {Max(S)}], Max(S))]
  BY <1>5 DEF b
<1>7. b[{}] = <<>>
  BY <1>6
<1>8. ASSUME NEW k \in 1..n PROVE b[1..k] = Step(b[1..(k - 1)], k)
  <2> DEFINE S == 1..k
  <2>1. S \in SUBSET (1..k) /\ S \in SUBSET (1..n) /\ k \in S /\ S # {} /\ k \in Nat
    OBVIOUS
  <2>2. S \ {k} = 1..(k - 1)
    OBVIOUS
  <2> HIDE DEF S
  <2>3. Max(S) = k
    BY <2>1, MaxWithin
  <2>4. b[S] = Step(b[S \ {k}], k)
    BY <1>6, <2>1, <2>3
  <2> QED
    BY <2>2, <2>4 DEF S
<1> QED
  BY <1>7, <1>8 DEF b, Step

(* Only the end of the text ends the parse.                                 *)
LEMMA OnlyFinish ==
  ASSUME [Next]_vars, done', ~done
  PROVE  Finish
<1>1. ~(UNCHANGED done)
  OBVIOUS
<1>2. ~(\E s \in Sections : OpenSection(s)) /\ ~RepeatSection
  BY <1>1 DEF OpenSection, RepeatSection
<1>3. \A s : ~Read(s) /\ ~GoodStatement(s) /\ ~Statement(s)
  BY <1>1 DEF Statement, GoodStatement, Read
<1>4. \A n, c : ~SetMinimum(c) /\ ~SetMaximum(c) /\ ~KeycodeDefinition(n, c) /\ ~KeycodeAlias(n, c)
  BY <1>3 DEF SetMinimum, SetMaximum, KeycodeDefinition, KeycodeAlias
<1>5. \A s, t, u : ~TypeDefinition(t) /\ ~VirtualModifier(s, t, u) /\ ~IndicatorName(t, u) /\ ~CompatIndicator(t, u)
  BY <1>3 DEF TypeDefinition, VirtualModifier, IndicatorName, CompatIndicator
<1>6. \A b : ~InterpretDefault(b) /\ ~Interpret(b) /\ ~SetGroupOffset(b) /\ ~GroupName(b)
  BY <1>3 DEF InterpretDefault, Interpret, SetGroupOffset, GroupName
<1>7. \A n, b : ~KeyDefinition(n, b) /\ ~BadKeyDefinition(n) /\ ~ModifierMap(n, b)
  BY <1>3 DEF KeyDefinition, BadKeyDefinition, ModifierMap
<1>8. ~UNCHANGED vars
  BY <1>1 DEF vars
<1> QED
  BY <1>2, <1>4, <1>5, <1>6, <1>7, <1>8, Zenon DEF Next

(* The best match of the first k interprets is the last of the strong ones  *)
(* that name one of the keysyms, or else the last of those that do.         *)
NamedIn(k, syms) == {i \in 1..k : interprets[i].sym \in syms}
StrongIn(k, syms) == {i \in NamedIn(k, syms) : interprets[i].cond}
TopIn(k, syms) == Max(IF StrongIn(k, syms) = {} THEN NamedIn(k, syms) ELSE StrongIn(k, syms))
BestIn(k, syms) == IF NamedIn(k, syms) = {} THEN <<>> ELSE <<interprets[TopIn(k, syms)]>>

LEMMA TopFacts ==
  ASSUME NEW k \in Nat, NEW syms, NamedIn(k, syms) # {}
  PROVE  /\ TopIn(k, syms) \in NamedIn(k, syms)
         /\ StrongIn(k, syms) # {} => TopIn(k, syms) \in StrongIn(k, syms)
         /\ k \in StrongIn(k, syms) => TopIn(k, syms) = k
         /\ StrongIn(k, syms) = {} /\ k \in NamedIn(k, syms) => TopIn(k, syms) = k
<1> DEFINE S == IF StrongIn(k, syms) = {} THEN NamedIn(k, syms) ELSE StrongIn(k, syms)
<1>1. S \in SUBSET (1..k) /\ S # {} /\ S \subseteq NamedIn(k, syms)
  BY DEF NamedIn, StrongIn
<1> HIDE DEF S
<1>2. Max(S) \in S /\ (k \in S => Max(S) = k)
  BY <1>1, MaxWithin
<1>3. TopIn(k, syms) = Max(S)
  BY DEF TopIn, S
<1>4. CASE StrongIn(k, syms) = {}
  <2>1. S = NamedIn(k, syms)
    BY <1>4 DEF S
  <2> QED
    BY <1>2, <1>3, <1>4, <2>1
<1>5. CASE StrongIn(k, syms) # {}
  <2>1. S = StrongIn(k, syms)
    BY <1>5 DEF S
  <2> QED
    BY <1>1, <1>2, <1>3, <1>5, <2>1
<1> QED
  BY <1>4, <1>5

LEMMA BestStep ==
  ASSUME NEW k \in Nat, NEW syms, NoSymbol \notin syms
  PROVE  BestIn(k + 1, syms) = Better(BestIn(k, syms), interprets[k + 1], syms)
<1> DEFINE i == interprets[k + 1]
           N == NamedIn(k, syms)
           S == StrongIn(k, syms)
           M == NamedIn(k + 1, syms)
           T == StrongIn(k + 1, syms)
           top == TopIn(k, syms)
           next == TopIn(k + 1, syms)
<1>1. k + 1 \in Nat /\ 1..(k + 1) = 1..k \cup {k + 1}
  OBVIOUS
<1>2. M = N \cup {j \in {k + 1} : i.sym \in syms}
  BY <1>1, Zenon DEF NamedIn
<1>3. T = S \cup {j \in {k + 1} : i.sym \in syms /\ i.cond}
  BY <1>2, Zenon DEF StrongIn
<1>4. N # {} => /\ top \in N
                /\ S # {} => top \in S
  BY TopFacts
<1>5. M # {} => /\ k + 1 \in T => next = k + 1
                /\ T = {} /\ k + 1 \in M => next = k + 1
  BY <1>1, TopFacts
<1>6. N # {} => Specificity(interprets[top]) = IF S = {} THEN 1 ELSE 3
  <2>1. N # {} /\ S = {} => ~interprets[top].cond
    BY <1>4, Zenon DEF StrongIn
  <2>2. N # {} /\ S # {} => interprets[top].cond
    BY <1>4, Zenon DEF StrongIn
  <2> QED
    BY <2>1, <2>2 DEF Specificity
<1>7. Better(BestIn(k, syms), i, syms) =
        IF i.sym \notin syms THEN BestIn(k, syms)
        ELSE IF N = {} \/ Specificity(i) >= Specificity(interprets[top]) THEN <<i>> ELSE <<interprets[top]>>
  <2>1. i.sym = NoSymbol => i.sym \notin syms
    OBVIOUS
  <2>2. N = {} => BestIn(k, syms) = <<>>
    BY DEF BestIn
  <2>3. N # {} => BestIn(k, syms) = <<interprets[top]>>
    BY DEF BestIn
  <2> HIDE DEF N, top, i
  <2>4. <<interprets[top]>> # <<>> /\ <<interprets[top]>>[1] = interprets[top]
    OBVIOUS
  <2> QED
    BY <2>1, <2>2, <2>3, <2>4 DEF Better
<1>8. BestIn(k + 1, syms) = IF M = {} THEN <<>> ELSE <<interprets[next]>>
  BY DEF BestIn
<1>9. BestIn(k, syms) = IF N = {} THEN <<>> ELSE <<interprets[top]>>
  BY DEF BestIn
<1>10. N = M /\ S = T => top = next
  BY DEF TopIn
<1>11. S = T /\ S # {} => top = next
  BY DEF TopIn
<1>12. S \subseteq N /\ T \subseteq M
  BY DEF StrongIn
<1>13. Specificity(i) = IF i.cond THEN 3 ELSE 1
  BY DEF Specificity
<1>14. i = interprets[k + 1]
  OBVIOUS
<1> HIDE DEF i, N, S, M, T, top, next
<1>15. CASE i.sym \notin syms
  <2>1. M = N /\ T = S
    BY <1>2, <1>3, <1>15
  <2>2. BestIn(k + 1, syms) = BestIn(k, syms)
    BY <1>8, <1>9, <1>10, <2>1
  <2>3. Better(BestIn(k, syms), i, syms) = BestIn(k, syms)
    BY <1>7, <1>15
  <2> QED
    BY <1>14, <2>2, <2>3
<1>16. CASE i.sym \in syms /\ i.cond
  <2>1. k + 1 \in T /\ M # {} /\ next = k + 1
    BY <1>2, <1>3, <1>5, <1>16
  <2>2. N # {} => Specificity(i) >= Specificity(interprets[top])
    BY <1>6, <1>13, <1>16
  <2> QED
    BY <1>7, <1>8, <1>14, <1>16, <2>1, <2>2
<1>17. CASE i.sym \in syms /\ ~i.cond
  <2>1. T = S /\ M = N \cup {k + 1}
    BY <1>2, <1>3, <1>17
  <2>2. CASE S = {}
    <3>1. next = k + 1 /\ M # {}
      BY <1>5, <2>1, <2>2
    <3>2. N # {} => Specificity(i) >= Specificity(interprets[top])
      BY <1>6, <1>13, <1>17, <2>2
    <3> QED
      BY <1>7, <1>8, <1>14, <1>17, <3>1, <3>2
  <2>3. CASE S # {}
    <3>1. next = top /\ M # {} /\ N # {}
      BY <1>11, <1>12, <2>1, <2>3
    <3>2. ~(Specificity(i) >= Specificity(interprets[top]))
      BY <1>6, <1>13, <1>17, <2>3, <3>1
    <3>3. BestIn(k + 1, syms) = <<interprets[top]>>
      BY <1>8, <3>1
    <3>4. Better(BestIn(k, syms), i, syms) = <<interprets[top]>>
      BY <1>7, <1>17, <3>1, <3>2
    <3> QED
      BY <1>14, <3>3, <3>4
  <2> QED
    BY <2>2, <2>3
<1> QED
  BY <1>15, <1>16, <1>17

LEMMA BestIsTop ==
  ASSUME CompatTyped, NEW syms, NoSymbol \notin syms
  PROVE  BestMatch(syms) = BestIn(Len(interprets), syms)
<1> DEFINE n == Len(interprets)
           b == BestOf(syms, 1..n)
           Off == {k \in 0..n : b[1..k] # BestIn(k, syms)}
<1>1. DOMAIN interprets = 1..n /\ n \in Nat
  BY DEF CompatTyped
<1>2. BestMatch(syms) = b[1..n]
  BY <1>1, BestUnfolded
<1> HIDE DEF n
<1>3. b[{}] = <<>> /\ \A k \in 1..n : b[1..k] = Better(b[1..(k - 1)], interprets[k], syms)
  BY <1>1, BestSolves
<1> HIDE DEF b
<1> SUFFICES ASSUME Off # {} PROVE FALSE
  BY <1>1, <1>2 DEF n
<1>4. Off \in SUBSET Nat
  OBVIOUS
<1>5. PICK k \in Off : \A j \in Off : k <= j
  <2> HIDE DEF Off
  <2> QED
    BY <1>4, MinMember
<1>6. k \in 0..n /\ b[1..k] # BestIn(k, syms)
  BY <1>5
<1>7. CASE k = 0
  <2>1. 1..0 = {}
    OBVIOUS
  <2>2. BestIn(0, syms) = <<>>
    BY <2>1 DEF BestIn, NamedIn
  <2> QED
    BY <1>3, <1>6, <1>7, <2>1, <2>2
<1>8. CASE k # 0
  <2>1. k - 1 \in 0..n /\ k - 1 \in Nat /\ (k - 1) + 1 = k /\ k \in 1..n /\ ~(k <= k - 1)
    BY <1>1, <1>6, <1>8
  <2>2. b[1..(k - 1)] = BestIn(k - 1, syms)
    BY <1>5, <2>1
  <2>3. BestIn((k - 1) + 1, syms) = Better(BestIn(k - 1, syms), interprets[(k - 1) + 1], syms)
    BY <2>1, BestStep
  <2> QED
    BY <1>3, <1>6, <2>1, <2>2, <2>3
<1> QED
  BY <1>7, <1>8

\* What the end of the parse decides for a key that repeats or not
\* (applyInterprets): the last interpret with a condition that names one of its
\* keysyms, else the last one that does, else what the key said unless
\* interpret.repeat was set for modifier keys; for any number of interprets.
THEOREM Repeats == Spec => RepeatsDecided
<1> DEFINE Decided(c) ==
      LET syms == SymsOf(keys[c])
          named == {i \in DOMAIN interprets : interprets[i].sym \in syms}
          strong == {i \in named : interprets[i].cond}
          top == Max(IF strong = {} THEN named ELSE strong)
      IN keys'[c].repeats =
           IF named # {} /\ interprets[top].repeat # "none"
           THEN interprets[top].repeat = "yes"
           ELSE IF named # {} \/ (default.set /\ syms \cap ModSyms # {})
           THEN default.repeat
           ELSE keys[c].repeats
<1>1. ASSUME IInv, [Next]_vars, done', ~done, NEW c \in DOMAIN keys
      PROVE  Decided(c)
  <2>1. Finish
    BY <1>1, OnlyFinish
  <2>2. KeyOK(keys[c])
    BY <1>1 DEF IInv, SymbolsTyped
  <2>3. keys'[c].repeats = FinalRepeats(keys[c])
    <3>1. keys'[c] = [keys[c] EXCEPT !.repeats = FinalRepeats(keys[c]), !.groups = FinalGroups(keys[c].groups)]
      BY <1>1, <2>1 DEF Finish
    <3> DEFINE r == FinalRepeats(keys[c])
               g == FinalGroups(keys[c].groups)
    <3> HIDE DEF r, g
    <3>2. keys'[c] = [name |-> keys[c].name, groups |-> g, repeats |-> r, mods |-> keys[c].mods]
      BY <2>2, <3>1 DEF KeyOK, r, g
    <3> QED
      BY <3>2 DEF r
  <2> DEFINE syms == SymsOf(keys[c])
             n == Len(interprets)
             named == NamedIn(n, syms)
             top == TopIn(n, syms)
             match == BestMatch(syms)
             weak == default.set /\ syms \cap ModSyms # {}
  <2>4. CompatTyped /\ NoSymbol \notin syms
    BY <1>1 DEF IInv, SymsOf
  <2>5. DOMAIN interprets = 1..n
    BY <2>4 DEF CompatTyped
  <2> HIDE DEF syms, n
  <2>6. match = IF named = {} THEN <<>> ELSE <<interprets[top]>>
    BY <2>4, BestIsTop DEF BestIn, n
  <2>7. FinalRepeats(keys[c]) =
          IF match # <<>>
          THEN IF match[1].repeat = "none" THEN default.repeat ELSE match[1].repeat = "yes"
          ELSE IF weak THEN default.repeat ELSE keys[c].repeats
    BY Zenon DEF FinalRepeats, syms
  <2>8. /\ named = {i \in DOMAIN interprets : interprets[i].sym \in syms}
        /\ top = Max(IF {i \in named : interprets[i].cond} = {} THEN named ELSE {i \in named : interprets[i].cond})
    BY <2>5 DEF NamedIn, StrongIn, TopIn
  <2> HIDE DEF named, top, match, weak
  <2>9. keys'[c].repeats =
          IF named # {} /\ interprets[top].repeat # "none"
          THEN interprets[top].repeat = "yes"
          ELSE IF named # {} \/ weak THEN default.repeat ELSE keys[c].repeats
    <3>1. CASE named = {}
      BY <2>3, <2>6, <2>7, <3>1
    <3>2. CASE named # {}
      <4>1. match # <<>> /\ match[1] = interprets[top]
        BY <2>6, <3>2
      <4> QED
        BY <2>3, <2>7, <3>2, <4>1
    <3> QED
      BY <3>1, <3>2
  <2> QED
    BY <2>8, <2>9, Zenon DEF syms, weak
<1> DEFINE AllDecided == done' /\ ~done => \A c \in DOMAIN keys : Decided(c)
<1>2. ASSUME IInv, IInv', [Next]_vars
      PROVE  AllDecided
  <2> HIDE DEF Decided
  <2> QED
    BY <1>1, <1>2
<1>3. Spec => [][AllDecided]_vars
  BY <1>2, Invariance, PTL DEF Spec
<1> QED
  BY <1>3, PTL DEF RepeatsDecided

-----------------------------------------------------------------------------
(* A keymap that is written and read again.                                 *)

\* What a keymap has beside IInv: finitely many types, virtual modifiers and
\* indicators, entries that fit their levels, and no name for a group behind
\* the last one named.
EntryOK(e) == e = [mods |-> e.mods, level |-> e.level] /\ e.level \in 0..255
TypeWritable(type) == type.entries \in Seq(Range(type.entries)) /\ \A i \in DOMAIN type.entries : EntryOK(type.entries[i])
Writable ==
  /\ IsFiniteSet(DOMAIN types) /\ DOMAIN types \subseteq {t.name : t \in TypeDefs}
  /\ \A n \in DOMAIN types : TypeWritable(types[n])
  /\ IsFiniteSet(DOMAIN leds) /\ IsFiniteSet(DOMAIN virtualMods)
  /\ Len(groupNames) >= 4
  /\ Len(groupNames) > 4 => groupNames[Len(groupNames)] = "named"

\* What is known of the keymap that was written.
Known ==
  /\ first # Empty
  /\ DOMAIN first.nameOf \subseteq Nat /\ first.range \in [min : Nat, max : Nat]
  /\ DOMAIN first.types \subseteq {t.name : t \in TypeDefs}
  /\ \A n \in DOMAIN first.types : TypeWritable(first.types[n])
  /\ \A l \in DOMAIN first.leds : first.leds[l].index \in Nat
  /\ \A c \in DOMAIN first.keys : GroupsOK(first.keys[c].groups)
  /\ first.groupNames \in Seq({Unnamed, "named"}) /\ Len(first.groupNames) >= 4
  /\ Len(first.groupNames) > 4 => first.groupNames[Len(first.groupNames)] = "named"

\* The statements still to be read.
Awaited == Range(text)
Awaits(kind) == \E s \in Awaited : s.is = kind

\* The section of a statement, in the order in which they are written.
Rank(s) == CASE s = "keycodes" -> 1 [] s = "types" -> 2 [] s = "compat" -> 3 [] OTHER -> 4
PartOf(s) ==
  CASE s.is \in {"section", "vmod"} -> Rank(s.section)
    [] s.is \in {"minimum", "maximum", "keycode", "led"} -> 1
    [] s.is = "type" -> 2
    [] s.is = "indicator" -> 3
    [] OTHER -> 4
Sorted(s) == \A i, j \in DOMAIN s : i <= j => PartOf(s[i]) <= PartOf(s[j])

\* A mask of real modifiers does not depend on virtual ones.
RealIn(mask) == {m \in RealNames : Standard(m) \subseteq mask}
Spells(names, mask) == mask \subseteq Real => names = IF RealIn(mask) = {} THEN {"none"} ELSE RealIn(mask)

\* A type as it is written.
Writes(t, was) ==
  LET written == Written(was.entries) IN
  /\ t.named = {}
  /\ Spells(t.mods, was.mods)
  /\ DOMAIN t.entries = DOMAIN written
  /\ \A i \in DOMAIN written :
       t.entries[i].level = (written[i].level + 1) % 256 /\ Spells(t.entries[i].mods, written[i].mods)

\* Each statement says something of the keymap that was written.
Rightful(s) ==
  /\ s.is = "section" => s.section \in Sections
  /\ s.is = "minimum" => s.code = first.range.min
  /\ s.is = "maximum" => s.code = first.range.max
  /\ s.is = "keycode" => s.code \in Kept /\ s.name = first.nameOf[s.code]
  /\ s.is = "led" => s.name \in DOMAIN first.leds /\ s.code = first.leds[s.name].index
  /\ s.is = "type" => s.type.name \in DOMAIN first.types /\ Writes(s.type, first.types[s.type.name])
  /\ s.is = "indicator" => s.name \in DOMAIN first.leds /\ Spells(s.mods, first.leds[s.name].mods)
  /\ s.is = "group" => /\ s.group \in Nat /\ s.group + 1 \in DOMAIN first.groupNames
                       /\ first.groupNames[s.group + 1] = "named"
  /\ s.is = "key" => \E c \in KeptKeys : s.name = first.nameOf[c] /\ s.body = BodyText(first.keys[c].groups)
  /\ s.is = "bad key" => ~Readable

InOrder == text \in Seq(Awaited) /\ Sorted(text) /\ \A s \in Awaited : Rightful(s)

\* What was read is what was written, and what was not is still to come.
ControlBack ==
  /\ groupOffset = 0 /\ saw \subseteq Sections
  /\ \A x \in Sections : x \in saw \/ \E s \in Awaited : s.is = "section" /\ s.section = x
  /\ section = "stopped" => done
  /\ done => text = <<>>

RangeBack ==
  /\ range \in [min : Nat, max : Nat]
  /\ range.min = first.range.min \/ Awaits("minimum")
  /\ range.max = first.range.max \/ Awaits("maximum")
NamesBack ==
  /\ DOMAIN nameOf \subseteq Kept
  /\ \A c \in DOMAIN nameOf : nameOf[c] = first.nameOf[c]
  /\ \A c \in DOMAIN nameOf : nameOf[c] \in DOMAIN codeOf /\ codeOf[nameOf[c]] = c
  /\ \A c \in Kept : c \in DOMAIN nameOf \/ \E s \in Awaited : s.is = "keycode" /\ s.code = c

TypeBack(type, was) ==
  LET written == Written(was.entries) IN
  /\ type.levels \in 1..256
  /\ was.mods \subseteq Real => type.mods = was.mods
  /\ (\A e \in Range(written) : e.mods \subseteq Real) => type.entries = written
  /\ type.levels = Max({1} \cup {e.level + 1 : e \in Range(written)})
TypesBack ==
  /\ DOMAIN types \subseteq DOMAIN first.types
  /\ \A n \in DOMAIN types : TypeBack(types[n], first.types[n])
  /\ \A n \in DOMAIN first.types : n \in DOMAIN types \/ \E s \in Awaited : s.is = "type" /\ s.type.name = n

\* An indicator has its number once the keycodes are read, and its
\* modifiers after the compat section.
LedsBack ==
  /\ DOMAIN leds \subseteq DOMAIN first.leds
  /\ \A l \in DOMAIN leds : leds[l].index = first.leds[l].index
  /\ \A l \in DOMAIN first.leds :
       /\ first.leds[l].index > 0 => l \in DOMAIN leds \/ \E s \in Awaited : s.is = "led" /\ s.name = l
       /\ \/ \E s \in Awaited : s.is = "indicator" /\ s.name = l
          \/ /\ ~Awaits("led") /\ l \in DOMAIN leds
             /\ first.leds[l].mods \subseteq Real => leds[l].mods = first.leds[l].mods

GroupsBack ==
  /\ numGroups \in Nat
  /\ groupNames \in Seq({Unnamed, "named"}) /\ Len(groupNames) >= 4
  /\ \A i \in DOMAIN groupNames : groupNames[i] = Unnamed \/ (i \in DOMAIN first.groupNames /\ first.groupNames[i] = "named")
  /\ \A i \in DOMAIN first.groupNames :
       \/ first.groupNames[i] = Unnamed
       \/ i \in DOMAIN groupNames /\ groupNames[i] = "named"
       \/ \E s \in Awaited : s.is = "group" /\ s.group = i - 1

KeyBack(now, was) ==
  /\ now \in Seq(Range(now)) /\ Len(now) = Len(was)
  /\ \A g \in DOMAIN was : now[g].syms = AsRead(was[g].syms)
  /\ Len(was) = 1 /\ was[1].type.name \in DOMAIN types /\ Len(was[1].syms) <= types[was[1].type.name].levels
     => now[1].type.name = was[1].type.name
KeysBack ==
  /\ DOMAIN keys \subseteq KeptKeys
  /\ \A c \in DOMAIN keys : /\ "groups" \in DOMAIN keys[c] /\ Len(keys[c].groups) <= numGroups
                            /\ KeyBack(keys[c].groups, first.keys[c].groups)
  /\ \A c \in KeptKeys : \/ c \in DOMAIN keys
                         \/ \E s \in Awaited : s.is \in {"key", "bad key"} /\ s.name = first.nameOf[c]
  /\ Awaits("type") => DOMAIN keys = {}

Back == InOrder /\ ControlBack /\ RangeBack /\ NamesBack /\ TypesBack /\ LedsBack /\ GroupsBack /\ KeysBack

SInv ==
  /\ first = Empty => IInv /\ Writable /\ text = <<>>
  /\ first # Empty => Known
  /\ first # Empty /\ OneToOne /\ Readable => ~failed
  /\ first # Empty /\ OneToOne /\ ~failed => Back

-----------------------------------------------------------------------------
(* Numbers and names in sequence.                                           *)

(* Each number of a finite set has its place, and each place its number.    *)
LEMMA NthFacts ==
  ASSUME NEW set \in SUBSET Nat, IsFiniteSet(set)
  PROVE  /\ Cardinality(set) \in Nat
         /\ \A i \in 1..Cardinality(set) : Nth(set, i) \in set
         /\ \A c \in set : \E i \in 1..Cardinality(set) : Nth(set, i) = c
<1> DEFINE n == Cardinality(set)
           Below(c) == {d \in set : d < c}
           place == [c \in set |-> Cardinality(Below(c)) + 1]
<1>1. n \in Nat
  BY FS_CardinalityType
<1>2. ASSUME NEW c \in set PROVE IsFiniteSet(Below(c)) /\ Cardinality(Below(c)) \in 0..(n - 1)
  <2>1. Below(c) \in SUBSET set /\ c \in set /\ c \notin Below(c)
    OBVIOUS
  <2> HIDE DEF Below
  <2>2. IsFiniteSet(Below(c)) /\ Cardinality(Below(c)) <= n /\ Cardinality(Below(c)) # n
    BY <2>1, FS_Subset
  <2>3. Cardinality(Below(c)) \in Nat
    BY <2>2, FS_CardinalityType
  <2> QED
    BY <1>1, <2>2, <2>3
<1>3. ASSUME NEW c \in set, NEW d \in set, c < d PROVE Cardinality(Below(c)) < Cardinality(Below(d))
  <2>1. Below(c) \in SUBSET Below(d) /\ c \in Below(d) /\ c \notin Below(c)
    <3>1. c \in Nat /\ d \in Nat /\ \A x \in set : x \in Nat
      OBVIOUS
    <3>2. \A x \in Nat : x < c => x < d
      BY <1>3, <3>1
    <3>3. ~(c < c)
      BY <3>1
    <3> QED
      BY <1>3, <3>1, <3>2, <3>3
  <2> HIDE DEF Below
  <2>2. /\ IsFiniteSet(Below(d)) /\ Cardinality(Below(c)) \in Nat /\ Cardinality(Below(d)) \in Nat
        /\ Cardinality(Below(c)) <= Cardinality(Below(d)) /\ Cardinality(Below(c)) # Cardinality(Below(d))
    BY <1>2, <2>1, FS_Subset, FS_CardinalityType
  <2> QED
    BY <2>2
<1> HIDE DEF Below
<1>4. \A c, d \in set : Cardinality(Below(c)) = Cardinality(Below(d)) => c = d
  <2> SUFFICES ASSUME NEW c \in set, NEW d \in set, Cardinality(Below(c)) = Cardinality(Below(d)), c # d PROVE FALSE
    OBVIOUS
  <2>1. c \in Nat /\ d \in Nat /\ Cardinality(Below(c)) \in Nat
    BY <1>1, <1>2
  <2>2. c < d \/ d < c
    BY <2>1
  <2> QED
    BY <1>3, <2>1, <2>2
<1>5. ASSUME NEW i \in 1..n PROVE \E c \in set : Cardinality(Below(c)) = i - 1
  <2>1. place \in [set -> 1..n]
    BY <1>1, <1>2
  <2>2. IsFiniteSet(1..n) /\ Cardinality(1..n) = n
    BY <1>1, FS_Interval
  <2>3. place \in Injection(set, 1..n)
    BY <1>1, <1>2, <1>4, <2>1 DEF Injection, IsInjective
  <2>4. place \in Surjection(set, 1..n)
    <3> HIDE DEF place
    <3> QED
      BY <2>2, <2>3, FS_Injection
  <2>5. PICK c \in set : place[c] = i
    BY <2>4 DEF Surjection
  <2> QED
    BY <1>2, <2>5
<1>6. \A i : Nth(set, i) = CHOOSE c \in set : Cardinality(Below(c)) = i - 1
  BY DEF Nth, Below
<1>7. ASSUME NEW i \in 1..n PROVE Nth(set, i) \in set
  <2>1. PICK c \in set : Cardinality(Below(c)) = i - 1
    BY <1>5
  <2> QED
    BY <1>6, <2>1
<1>8. ASSUME NEW c \in set PROVE \E i \in 1..n : Nth(set, i) = c
  <2> DEFINE i == Cardinality(Below(c)) + 1
  <2>1. i \in 1..n /\ Cardinality(Below(c)) = i - 1
    BY <1>1, <1>2
  <2> HIDE DEF i
  <2>2. Nth(set, i) \in set /\ Cardinality(Below(Nth(set, i))) = i - 1
    BY <1>6, <2>1
  <2>3. Nth(set, i) = c
    BY <1>4, <2>1, <2>2
  <2> QED
    BY <2>1, <2>3
<1> QED
  BY <1>1, <1>7, <1>8

(* So it is with the members of any finite set.                             *)
LEMMA SetToSeqFacts ==
  ASSUME NEW S, IsFiniteSet(S)
  PROVE  /\ Cardinality(S) \in Nat
         /\ \A i \in 1..Cardinality(S) : SetToSeq(S)[i] \in S
         /\ \A x \in S : \E i \in 1..Cardinality(S) : SetToSeq(S)[i] = x
<1> DEFINE n == Cardinality(S)
           f == SetToSeq(S)
<1>1. n \in Nat /\ ExistsBijection(1..n, S)
  BY FS_CardinalityType
<1>2. PICK g \in Bijection(1..n, S) : TRUE
  BY <1>1 DEF ExistsBijection
<1>3. g \in [1..n -> S] /\ \A i, j \in 1..n : g[i] = g[j] => i = j
  BY <1>2 DEF Bijection, Injection, IsInjective
<1> DEFINE Chosen(h) == h \in [1..n -> S] /\ IsInjective(h)
<1>4. f \in [1..n -> S] /\ \A i, j \in 1..n : f[i] = f[j] => i = j
  <2>1. Chosen(g)
    BY <1>3 DEF IsInjective
  <2>2. f = CHOOSE h : Chosen(h)
    BY DEF SetToSeq
  <2> HIDE DEF Chosen, f
  <2>3. Chosen(f)
    BY <2>1, <2>2
  <2> QED
    BY <2>3 DEF Chosen, IsInjective
<1> HIDE DEF f
<1>5. f \in Injection(1..n, S)
  BY <1>4 DEF Injection, IsInjective
<1>6. IsFiniteSet(1..n) /\ Cardinality(1..n) = n
  BY <1>1, FS_Interval
<1>7. f \in Surjection(1..n, S)
  BY <1>5, <1>6, FS_Injection
<1>8. \A x \in S : \E i \in 1..n : f[i] = x
  BY <1>7 DEF Surjection
<1> QED
  BY <1>1, <1>4, <1>8 DEF f

(* Sequences that are put together.                                         *)
LEMMA JoinFacts ==
  ASSUME NEW s, NEW t, s \in Seq(Range(s)), t \in Seq(Range(t))
  PROVE  /\ s \o t \in Seq(Range(s \o t))
         /\ Range(s \o t) = Range(s) \cup Range(t)
         /\ Sorted(s) /\ Sorted(t) /\ (\A x \in Range(s), y \in Range(t) : PartOf(x) <= PartOf(y))
              => Sorted(s \o t)
<1> DEFINE m == Len(s)
           n == Len(t)
           u == s \o t
<1>1. m \in Nat /\ n \in Nat /\ DOMAIN s = 1..m /\ DOMAIN t = 1..n
  OBVIOUS
<1>2. Len(u) = m + n /\ u \in Seq(Range(s) \cup Range(t))
  <2>1. s \in Seq(Range(s) \cup Range(t)) /\ t \in Seq(Range(s) \cup Range(t))
    OBVIOUS
  <2> QED
    BY <2>1, ConcatProperties
<1>3. \A i \in 1..(m + n) : u[i] = IF i <= m THEN s[i] ELSE t[i - m]
  BY ConcatProperties
<1> HIDE DEF u, m, n
<1>4. DOMAIN u = 1..(m + n) /\ u = [i \in 1..(m + n) |-> u[i]]
  BY <1>2
<1>5. u \in Seq(Range(u))
  BY <1>1, <1>4, SequenceFacts
<1>6. Range(u) = Range(s) \cup Range(t)
  <2>1. ASSUME NEW i \in 1..(m + n) PROVE u[i] \in Range(s) \cup Range(t)
    BY <1>1, <1>3 DEF Range
  <2>2. ASSUME NEW i \in 1..m PROVE s[i] \in Range(u)
    <3>1. i \in 1..(m + n) /\ u[i] = s[i]
      BY <1>1, <1>3
    <3> QED
      BY <1>4, <3>1 DEF Range
  <2>3. ASSUME NEW i \in 1..n PROVE t[i] \in Range(u)
    <3>1. i + m \in 1..(m + n) /\ u[i + m] = t[i]
      BY <1>1, <1>3
    <3> QED
      BY <1>4, <3>1 DEF Range
  <2> QED
    BY <1>1, <1>4, <2>1, <2>2, <2>3 DEF Range
<1>7. ASSUME Sorted(s), Sorted(t), \A x \in Range(s), y \in Range(t) : PartOf(x) <= PartOf(y)
      PROVE  Sorted(u)
  <2> SUFFICES ASSUME NEW i \in 1..(m + n), NEW j \in 1..(m + n), i <= j PROVE PartOf(u[i]) <= PartOf(u[j])
    BY <1>4 DEF Sorted
  <2>1. CASE j <= m
    BY <1>1, <1>3, <1>7, <2>1 DEF Sorted
  <2>2. CASE i <= m /\ ~(j <= m)
    <3>1. i \in 1..m /\ j - m \in 1..n /\ u[i] = s[i] /\ u[j] = t[j - m]
      BY <1>1, <1>3, <2>2
    <3>2. s[i] \in Range(s) /\ t[j - m] \in Range(t)
      BY <1>1, <3>1 DEF Range
    <3> QED
      BY <1>7, <3>1, <3>2
  <2>3. CASE ~(i <= m)
    <3>1. i - m \in 1..n /\ j - m \in 1..n /\ i - m <= j - m /\ u[i] = t[i - m] /\ u[j] = t[j - m]
      BY <1>1, <1>3, <2>3
    <3> QED
      BY <1>1, <1>7, <3>1 DEF Sorted
  <2> QED
    BY <1>1, <2>1, <2>2, <2>3
<1> QED
  BY <1>5, <1>6, <1>7 DEF u

(* The statement that is read next, and what is left.                       *)
LEMMA HeadFacts ==
  ASSUME InOrder, text # <<>>
  PROVE  /\ Tail(text) \in Seq(Range(Tail(text))) /\ Sorted(Tail(text))
         /\ Awaited = {Head(text)} \cup Range(Tail(text))
         /\ Rightful(Head(text))
         /\ \A s \in Awaited : PartOf(Head(text)) <= PartOf(s)
<1> DEFINE n == Len(text)
           rest == Tail(text)
<1>1. text \in Seq(Awaited) /\ n \in Nat /\ n # 0 /\ DOMAIN text = 1..n /\ Head(text) = text[1]
  BY DEF InOrder
<1>2. /\ rest \in Seq(Awaited) /\ Len(rest) = n - 1 /\ DOMAIN rest = 1..(n - 1)
      /\ \A i \in 1..(n - 1) : rest[i] = text[i + 1]
  BY <1>1
<1> HIDE DEF n, rest
<1>3. rest \in Seq(Range(rest))
  BY <1>1, <1>2, SequenceFacts
<1>4. \A i, j \in 1..n : i <= j => PartOf(text[i]) <= PartOf(text[j])
  BY <1>1 DEF InOrder, Sorted
<1>5. Sorted(rest)
  <2> SUFFICES ASSUME NEW i \in 1..(n - 1), NEW j \in 1..(n - 1), i <= j PROVE PartOf(rest[i]) <= PartOf(rest[j])
    BY <1>2 DEF Sorted
  <2>1. i + 1 \in 1..n /\ j + 1 \in 1..n /\ i + 1 <= j + 1
    BY <1>1
  <2> QED
    BY <1>2, <1>4, <2>1
<1>6. Awaited = {text[1]} \cup Range(rest)
  <2>1. ASSUME NEW i \in 1..n PROVE text[i] \in {text[1]} \cup Range(rest)
    <3>1. CASE i = 1
      BY <3>1
    <3>2. CASE i # 1
      <4>1. i - 1 \in 1..(n - 1) /\ (i - 1) + 1 = i
        BY <1>1, <3>2
      <4>2. rest[i - 1] = text[i]
        BY <1>2, <4>1
      <4> QED
        BY <1>2, <4>1, <4>2 DEF Range
    <3> QED
      BY <3>1, <3>2
  <2>2. ASSUME NEW i \in 1..(n - 1) PROVE rest[i] \in Awaited
    BY <1>1, <1>2 DEF Awaited, Range
  <2>3. text[1] \in Awaited
    <3>1. 1 \in 1..n
      BY <1>1
    <3> QED
      BY <1>1, <3>1 DEF Awaited, Range
  <2> QED
    BY <1>1, <1>2, <2>1, <2>2, <2>3 DEF Awaited, Range
<1>7. \A s \in Awaited : PartOf(text[1]) <= PartOf(s)
  <2> SUFFICES ASSUME NEW i \in 1..n PROVE PartOf(text[1]) <= PartOf(text[i])
    BY <1>1 DEF Awaited, Range
  <2>1. 1 \in 1..n /\ 1 <= i
    BY <1>1
  <2> QED
    BY <1>4, <2>1
<1> QED
  BY <1>1, <1>3, <1>5, <1>6, <1>7 DEF rest, InOrder

-----------------------------------------------------------------------------
(* What is written of masks, types and keys, and what they are read as.     *)

(* Every real modifier has a name.                                          *)
LEMMA RealNamesFacts ==
  /\ \A m \in RealNames : Standard(m) # {} /\ Standard(m) \subseteq Real /\ m # "none"
  /\ \A b \in Real : \E m \in RealNames : Standard(m) = {b}
<1>1. \A m \in RealNames : Standard(m) # {} /\ Standard(m) \subseteq Real /\ m # "none"
  BY DEF RealNames, Standard, Real
<1>2. /\ Standard("Shift") = {0} /\ Standard("Lock") = {1} /\ Standard("Control") = {2} /\ Standard("Mod1") = {3}
      /\ Standard("Mod2") = {4} /\ Standard("Mod3") = {5} /\ Standard("Mod4") = {6} /\ Standard("Mod5") = {7}
  BY DEF Standard
<1>3. \A b \in Real : b \in {0, 1, 2, 3, 4, 5, 6, 7}
  BY DEF Real
<1> QED
  BY <1>1, <1>2, <1>3 DEF RealNames

(* A mask of real modifiers is written as their names ...                   *)
LEMMA MaskWritten ==
  ASSUME NEW mask
  PROVE  Spells(MaskText(mask), mask)
<1> SUFFICES ASSUME mask \subseteq Real PROVE Spells(MaskText(mask), mask)
  BY DEF Spells
<1>1. {v \in DOMAIN virtualMods : virtualMods[v] \cap mask # {} /\ virtualMods[v] \cap mask \cap Real = {}} = {}
  OBVIOUS
<1>2. MaskText(mask) = IF RealIn(mask) = {} THEN {"none"} ELSE RealIn(mask)
  BY <1>1 DEF MaskText, RealIn
<1> QED
  BY <1>2 DEF Spells

(* ... and read as it was.                                                  *)
LEMMA MaskRead ==
  ASSUME NEW names, NEW mask, Spells(names, mask), mask \subseteq Real
  PROVE  MaskOf(names) = mask
<1>1. CASE RealIn(mask) = {}
  <2>1. names = {"none"}
    BY <1>1 DEF Spells
  <2>2. mask = {}
    <3> SUFFICES ASSUME NEW b \in mask PROVE FALSE
      OBVIOUS
    <3>1. PICK m \in RealNames : Standard(m) = {b}
      BY RealNamesFacts
    <3>2. m \in RealIn(mask)
      BY <3>1 DEF RealIn
    <3> QED
      BY <1>1, <3>2
  <2> QED
    BY <2>1, <2>2 DEF MaskOf
<1>2. CASE RealIn(mask) # {}
  <2>1. names = RealIn(mask)
    BY <1>2 DEF Spells
  <2>2. \A m \in names : m \in RealNames /\ m # "none" /\ ModMask(m) = Standard(m) /\ Standard(m) \subseteq mask
    BY <2>1, RealNamesFacts DEF RealIn, ModMask
  <2>3. MaskOf(names) = UNION {ModMask(m) : m \in names}
    BY <2>2 DEF MaskOf
  <2>4. \A b \in mask : \E m \in names : ModMask(m) = {b}
    <3> SUFFICES ASSUME NEW b \in mask PROVE \E m \in names : ModMask(m) = {b}
      OBVIOUS
    <3>1. PICK m \in RealNames : Standard(m) = {b}
      BY RealNamesFacts
    <3>2. m \in names
      BY <2>1, <3>1 DEF RealIn
    <3> QED
      BY <2>2, <3>1, <3>2
  <2> QED
    BY <2>2, <2>3, <2>4
<1> QED
  BY <1>1, <1>2

(* The entries that are written are some of the entries.                    *)
LEMMA WrittenFacts ==
  ASSUME NEW entries, entries \in Seq(Range(entries))
  PROVE  /\ Written(entries) \in Seq(Range(Written(entries)))
         /\ DOMAIN Written(entries) = 1..Len(Written(entries)) /\ Len(Written(entries)) \in Nat
         /\ \A i \in DOMAIN Written(entries) : \E j \in DOMAIN entries : Written(entries)[i] = entries[j]
<1> DEFINE set == {i \in DOMAIN entries : entries[i].mods # {}}
           n == Cardinality(set)
           w == Written(entries)
<1>1. set \in SUBSET Nat /\ IsFiniteSet(set)
  <2>1. set \in SUBSET (1..Len(entries)) /\ Len(entries) \in Nat
    OBVIOUS
  <2>2. IsFiniteSet(1..Len(entries))
    BY <2>1, FS_Interval
  <2> QED
    BY <2>1, <2>2, FS_Subset
<1>2. w = [i \in 1..n |-> entries[Nth(set, i)]]
  BY DEF Written, EachCode
<1>3. set \subseteq DOMAIN entries
  OBVIOUS
<1> HIDE DEF set, w
<1>4. n \in Nat /\ \A i \in 1..n : Nth(set, i) \in set
  BY <1>1, NthFacts
<1> HIDE DEF n
<1>5. w = [i \in 1..n |-> w[i]]
  BY <1>2
<1>6. w \in Seq(Range(w)) /\ Len(w) = n /\ DOMAIN w = 1..n
  BY <1>4, <1>5, SequenceFacts
<1> QED
  BY <1>2, <1>3, <1>4, <1>6 DEF w

(* The greatest level, counted from 1 and from 0.                           *)
LEMMA MaxShift ==
  ASSUME NEW b \in Nat, NEW S \in SUBSET (0..b)
  PROVE  Max({0} \cup S) + 1 = Max({1} \cup {x + 1 : x \in S}) /\ Max({0} \cup S) \in 0..b
<1> DEFINE low == {0} \cup S
           high == {1} \cup {x + 1 : x \in S}
<1>1. low \in SUBSET (0..b) /\ high \in SUBSET (0..(b + 1)) /\ 0 \in low /\ 1 \in high
  OBVIOUS
<1>2. \A x \in low : x + 1 \in high
  OBVIOUS
<1>3. \A y \in high : y \in Nat /\ y - 1 \in low
  OBVIOUS
<1> HIDE DEF low, high
<1>4. IsFiniteSet(low) /\ IsFiniteSet(high) /\ low \in SUBSET Nat /\ high \in SUBSET Nat /\ low # {} /\ high # {}
  <2>1. IsFiniteSet(0..b) /\ IsFiniteSet(0..(b + 1))
    BY FS_Interval
  <2>2. IsFiniteSet(low) /\ IsFiniteSet(high)
    BY <1>1, <2>1, FS_Subset
  <2> QED
    BY <1>1, <2>2
<1>5. /\ Max(low) \in low /\ \A x \in low : x <= Max(low)
      /\ Max(high) \in high /\ \A y \in high : y <= Max(high)
  BY <1>4, MaxBound
<1>6. Max(low) + 1 <= Max(high)
  BY <1>2, <1>5
<1>7. Max(high) - 1 <= Max(low)
  BY <1>3, <1>5
<1>8. Max(low) \in 0..b /\ Max(high) \in Nat
  BY <1>1, <1>4, <1>5
<1> QED
  BY <1>6, <1>7, <1>8 DEF low, high

(* A type that is written and read has its levels and entries again.        *)
LEMMA TypeRead ==
  ASSUME NEW t, NEW was, TypeWritable(was), Writes(t, was)
  PROVE  TypeBack(TypeOf(t), was)
<1> DEFINE w == Written(was.entries)
           n == Len(w)
           again == TypeOf(t)
           S == {w[i].level : i \in 1..n}
<1>1. n \in Nat /\ DOMAIN w = 1..n /\ w = [i \in 1..n |-> w[i]] /\ \A i \in 1..n : EntryOK(w[i])
  <2>1. was.entries \in Seq(Range(was.entries))
    BY DEF TypeWritable
  <2>2. /\ w \in Seq(Range(w)) /\ n \in Nat /\ DOMAIN w = 1..n
        /\ \A i \in DOMAIN w : \E j \in DOMAIN was.entries : w[i] = was.entries[j]
    BY <2>1, WrittenFacts
  <2> HIDE DEF w
  <2>3. w = [i \in 1..n |-> w[i]]
    BY <2>2
  <2> QED
    BY <2>2, <2>3 DEF TypeWritable
<1>2. /\ t.named = {} /\ Spells(t.mods, was.mods) /\ DOMAIN t.entries = 1..n
      /\ \A i \in 1..n : t.entries[i].level = (w[i].level + 1) % 256 /\ Spells(t.entries[i].mods, w[i].mods)
  BY <1>1 DEF Writes
<1> HIDE DEF w, n
<1>3. \A i \in 1..n : LevelOf(t.entries[i].level) = w[i].level /\ w[i].level \in 0..255
  <2> SUFFICES ASSUME NEW i \in 1..n PROVE LevelOf(t.entries[i].level) = w[i].level /\ w[i].level \in 0..255
    OBVIOUS
  <2>1. PICK l \in 0..255 : l = w[i].level
    BY <1>1 DEF EntryOK
  <2>2. t.entries[i].level = (l + 1) % 256
    BY <1>2, <2>1
  <2>3. (((l + 1) % 256) + 255) % 256 = l
    <3>1. CASE l = 255
      BY <3>1
    <3>2. CASE l # 255
      <4>1. l + 1 \in 0..255 /\ (l + 1) % 256 = l + 1
        BY <3>2
      <4>2. (l + 1 + 255) % 256 = l
        OBVIOUS
      <4> QED
        BY <4>1, <4>2
    <3> QED
      BY <3>1, <3>2
  <2> QED
    BY <2>1, <2>2, <2>3 DEF LevelOf
<1>4. {LevelOf(t.entries[i].level) : i \in DOMAIN t.entries} \cup {LevelOf(k) : k \in t.named} = S
  <2>1. {LevelOf(k) : k \in t.named} = {}
    BY <1>2
  <2>2. {LevelOf(t.entries[i].level) : i \in DOMAIN t.entries} = S
    BY <1>2, <1>3
  <2> QED
    BY <2>1, <2>2
<1>5. again.levels = Max({0} \cup S) + 1
  BY <1>4 DEF TypeOf
<1>6. S \in SUBSET (0..255) /\ {e.level + 1 : e \in Range(w)} = {x + 1 : x \in S}
  <2>1. \A x \in S : x \in 0..255
    BY <1>3
  <2>2. Range(w) = {w[i] : i \in 1..n}
    BY <1>1 DEF Range
  <2>3. {e.level + 1 : e \in Range(w)} = {x + 1 : x \in S}
    BY <2>2
  <2> QED
    BY <2>1, <2>3
<1> HIDE DEF S
<1>7. again.levels \in 1..256 /\ again.levels = Max({1} \cup {e.level + 1 : e \in Range(w)})
  <2>1. PICK b \in Nat : b = 255
    OBVIOUS
  <2>2. S \in SUBSET (0..b)
    BY <1>6, <2>1
  <2>3. Max({0} \cup S) + 1 = Max({1} \cup {x + 1 : x \in S}) /\ Max({0} \cup S) \in 0..b
    BY <2>2, MaxShift
  <2> HIDE DEF again
  <2>4. again.levels \in 1..(b + 1)
    BY <1>5, <2>3
  <2>5. b + 1 = 256
    BY <2>1
  <2>6. again.levels \in 1..256
    BY <2>4, <2>5
  <2>7. {e.level + 1 : e \in Range(w)} = {x + 1 : x \in S}
    BY <1>6
  <2>8. again.levels = Max({1} \cup {e.level + 1 : e \in Range(w)})
    BY Zenon, <1>5, <2>3, <2>7
  <2> QED
    BY <2>6, <2>8
<1>8. again.mods = MaskOf(t.mods)
  BY DEF TypeOf
<1>9. was.mods \subseteq Real => again.mods = was.mods
  BY <1>2, <1>8, MaskRead
<1>10. ASSUME \A e \in Range(w) : e.mods \subseteq Real
       PROVE  again.entries = w
  <2>1. again.entries = [i \in 1..n |-> [mods |-> MaskOf(t.entries[i].mods), level |-> LevelOf(t.entries[i].level)]]
    BY <1>2 DEF TypeOf
  <2>2. ASSUME NEW i \in 1..n
        PROVE  [mods |-> MaskOf(t.entries[i].mods), level |-> LevelOf(t.entries[i].level)] = w[i]
    <3>1. w[i] \in Range(w)
      BY <1>1 DEF Range
    <3>2. w[i].mods \subseteq Real /\ Spells(t.entries[i].mods, w[i].mods)
      BY <1>2, <1>10, <3>1
    <3>3. MaskOf(t.entries[i].mods) = w[i].mods
      BY <3>2, MaskRead
    <3>4. w[i] = [mods |-> w[i].mods, level |-> w[i].level]
      BY <1>1 DEF EntryOK
    <3> QED
      BY <1>3, <3>3, <3>4
  <2> QED
    BY <1>1, <2>1, <2>2
<1> HIDE DEF again
<1> QED
  BY <1>7, <1>9, <1>10 DEF TypeBack, w, again

(* The list that is read of one that was written is no longer.              *)
LEMMA AsReadFacts ==
  ASSUME NEW syms \in Seq(Entries)
  PROVE  /\ Len(AsRead(syms)) \in Nat /\ Len(AsRead(syms)) <= Len(syms)
         /\ DOMAIN AsRead(syms) = 1..Len(AsRead(syms))
<1> DEFINE e == AsRead(syms)
           n == ReadLength(syms)
<1>1. Len(syms) \in Nat /\ (syms # <<>> => Len(syms) > 0)
  OBVIOUS
<1>2. n \in Nat /\ n <= Len(syms)
  BY <1>1 DEF ReadLength
<1>3. e = [i \in 1..n |-> ReadsAs(syms[i])]
  BY DEF AsRead
<1> HIDE DEF e, n
<1>4. e = [i \in 1..n |-> e[i]]
  BY <1>3
<1>5. Len(e) = n /\ DOMAIN e = 1..n
  BY <1>2, <1>4, SequenceFacts
<1> QED
  BY <1>2, <1>5 DEF e

(* What a key statement makes of a key that was written, whether it is read *)
(* for the first time or once more.                                         *)
LEMMA KeyRead ==
  ASSUME groupOffset = 0, TypesBack, Known, NEW was, GroupsOK(was), was # <<>>,
         NEW old, old = <<>> \/ KeyBack(old, was)
  PROVE  KeyBack(KeyBody(BodyText(was), old), was)
<1> DEFINE n == Len(was)
           body == BodyText(was)
           new == KeyBody(body, old)
           back(g) == AsRead(was[g].syms)
           shifted == {g + groupOffset : g \in DOMAIN body.lists} \cup {0}
           name == was[1].type.name
<1>1. n \in Nat /\ n # 0 /\ DOMAIN was = 1..n /\ was \in Seq(Range(was))
  BY DEF GroupsOK
<1>2. /\ DOMAIN body.lists = 0..(n - 1) /\ \A g \in 0..(n - 1) : body.lists[g] = back(g + 1)
      /\ DOMAIN body.types = {0} /\ body.types[0] = was[n].type.name
  <2>1. body.lists = [g \in 0..(n - 1) |-> back(g + 1)]
    BY DEF BodyText
  <2>2. body.types = [g \in {0} |-> was[n].type.name]
    BY DEF BodyText, Last
  <2> HIDE DEF n, body, back
  <2> QED
    BY <2>1, <2>2
<1> HIDE DEF n, body, back
<1>3. Len(old) \in {0, n} /\ (old = <<>> => DOMAIN old = {}) /\ (old # <<>> => DOMAIN old = 1..n /\ KeyBack(old, was))
  BY <1>1 DEF KeyBack, n
<1>4. Max(shifted) + 1 = n
  <2>1. shifted = 0..(n - 1)
    BY <1>1, <1>2
  <2>2. IsFiniteSet(0..(n - 1)) /\ (0..(n - 1)) \in SUBSET Nat /\ 0 \in 0..(n - 1) /\ n - 1 \in 0..(n - 1)
    BY <1>1, FS_Interval
  <2>3. Max(0..(n - 1)) \in 0..(n - 1) /\ \A x \in 0..(n - 1) : x <= Max(0..(n - 1))
    BY <2>2, MaxBound
  <2>4. Max(0..(n - 1)) = n - 1
    BY <1>1, <2>2, <2>3
  <2> HIDE DEF shifted
  <2>5. Max(shifted) = n - 1
    BY <2>1, <2>4
  <2> QED
    BY <1>1, <2>5
<1>5. new = [i \in 1..n |-> NewGroup(body, i - 1, old)]
  <2>1. new = [i \in 1..AtLeast(Max(shifted) + 1, Len(old)) |-> NewGroup(body, i - 1, old)]
    BY DEF KeyBody
  <2>2. AtLeast(n, Len(old)) = n
    BY <1>1, <1>3 DEF AtLeast
  <2> HIDE DEF shifted, new
  <2> QED
    BY <1>4, <2>1, <2>2
<1> HIDE DEF new, shifted
<1>6. new \in Seq(Range(new)) /\ Len(new) = n /\ \A i \in 1..n : new[i] = NewGroup(body, i - 1, old)
  <2>1. new = [i \in 1..n |-> new[i]]
    BY <1>5
  <2> QED
    BY <1>1, <1>5, <2>1, SequenceFacts
<1>7. ASSUME NEW i \in 1..n
      PROVE  At(body.lists, i - 1, <<>>) = back(i)
  <2>1. i - 1 \in 0..(n - 1) /\ (i - 1) - groupOffset = i - 1 /\ (i - 1) + 1 = i
    BY <1>1
  <2> QED
    BY <1>2, <2>1 DEF At
<1>8. ASSUME NEW i \in 1..n, i \in DOMAIN old PROVE old[i].syms = back(i)
  BY <1>1, <1>3, <1>8 DEF KeyBack, back
<1>9. ASSUME NEW i \in 1..n PROVE MergedSyms(back(i), back(i)) = back(i)
  BY DEF MergedSyms, back, AsRead
<1>10. ASSUME NEW i \in 1..n PROVE new[i].syms = back(i)
  <2>1. (i - 1) + 1 = i
    BY <1>1
  <2>2. CASE i \in DOMAIN old
    BY <1>6, <1>7, <1>8, <1>9, <2>1, <2>2 DEF NewGroup
  <2>3. CASE i \notin DOMAIN old
    BY <1>6, <1>7, <2>1, <2>3 DEF NewGroup
  <2> QED
    BY <2>2, <2>3
<1>11. ASSUME n = 1, name \in DOMAIN types, Len(was[1].syms) <= types[name].levels
       PROVE  new[1].type.name = name
  <2>1. 1 \in 1..n /\ 1 - 1 = 0 /\ 0 - groupOffset = 0 /\ 0 + 1 = 1
    BY <1>11
  <2>2. At(body.types, 0, NoType) = name
    BY <1>2, <1>11, <2>1 DEF At
  <2>3. TypeNamed(name) # NoType /\ types[name].levels \in Nat
    <3>1. name \in {t.name : t \in TypeDefs} /\ types[name].levels \in 1..256
      BY <1>11 DEF TypesBack, Known, TypeBack
    <3>2. TypeNamed(name) \in [name : {t.name : t \in TypeDefs}, levels : 1..256]
      BY Zenon, <3>1 DEF TypeNamed
    <3>3. NoType \notin [name : {t.name : t \in TypeDefs}, levels : 1..256]
      BY SerializeAssumption
    <3>4. TypeNamed(name) # NoType
      BY Zenon, <3>2, <3>3
    <3>5. 1..256 \subseteq Nat
      OBVIOUS
    <3>6. types[name].levels \in Nat
      BY Zenon, <3>1, <3>5
    <3> QED
      BY <3>4, <3>6
  <2>4. Len(back(1)) \in Nat /\ Len(was[1].syms) \in Nat /\ Len(back(1)) <= Len(was[1].syms)
    <3>1. was[1].syms \in Seq(Entries)
      BY <1>1, <2>1 DEF GroupsOK, GroupOK
    <3> QED
      BY <3>1, AsReadFacts DEF back
  <2>5. ASSUME NEW inherited PROVE FitType(name, inherited, back(1)) = TypeNamed(name)
    <3>1. TypeNamed(name).levels = types[name].levels
      BY DEF TypeNamed
    <3>2. ~(Len(back(1)) > types[name].levels)
      BY <1>11, <2>3, <2>4
    <3> QED
      BY <1>11, <2>3, <3>1, <3>2 DEF FitType
  <2>6. TypeNamed(name).name = name
    BY DEF TypeNamed
  <2>7. CASE 1 \in DOMAIN old
    <3>1. old[1].type.name = name
      BY <1>3, <1>11, <2>7 DEF KeyBack, n
    <3> QED
      BY <1>6, <1>7, <1>8, <1>9, <2>1, <2>2, <2>5, <2>6, <2>7, <3>1 DEF NewGroup
  <2>8. CASE 1 \notin DOMAIN old
    BY <1>6, <1>7, <2>1, <2>2, <2>5, <2>6, <2>8 DEF NewGroup
  <2> QED
    BY <2>7, <2>8
<1> QED
  BY <1>1, <1>6, <1>10, <1>11 DEF KeyBack, back, n, new, body

-----------------------------------------------------------------------------
(* The keymap that the first text makes can be written.                     *)

LEMMA WritableInit == Init => Writable
<1> SUFFICES ASSUME Init PROVE Writable
  OBVIOUS
<1>1. types = Empty /\ leds = Empty /\ virtualMods = Empty /\ groupNames = <<Unnamed, Unnamed, Unnamed, Unnamed>>
  BY DEF Init
<1>2. DOMAIN Empty = {} /\ IsFiniteSet({})
  BY FS_EmptySet DEF Empty
<1>3. Len(groupNames) = 4
  BY <1>1
<1> QED
  BY <1>1, <1>2, <1>3 DEF Writable

(* One more entry keeps a map finite.                                       *)
LEMMA PutFinite ==
  ASSUME NEW m, NEW k, NEW v, IsFiniteSet(DOMAIN m)
  PROVE  IsFiniteSet(DOMAIN Put(m, k, v))
<1>1. DOMAIN Put(m, k, v) = DOMAIN m \cup {k}
  BY PutFacts
<1>2. IsFiniteSet(DOMAIN m \cup {k})
  BY FS_AddElement
<1> QED
  BY <1>1, <1>2

LEMMA TypeOfWritable ==
  ASSUME NEW t \in TypeDefs
  PROVE  TypeWritable(TypeOf(t))
<1> DEFINE e == TypeOf(t).entries
           n == Len(t.entries)
<1>1. t.entries \in Seq(Range(t.entries))
  BY SerializeAssumption
<1>2. n \in Nat /\ DOMAIN t.entries = 1..n
  BY <1>1
<1> HIDE DEF n
<1>3. e = [i \in 1..n |-> [mods |-> MaskOf(t.entries[i].mods), level |-> LevelOf(t.entries[i].level)]]
  BY <1>2 DEF TypeOf
<1>4. \A i \in 1..n : LevelOf(t.entries[i].level) \in 0..255
  <2>1. \A i \in 1..n : t.entries[i].level \in Nat
    BY <1>2, KeymapBuildAssumption
  <2>2. \A l \in Nat : LevelOf(l) \in 0..255
    BY DEF LevelOf
  <2> QED
    BY <2>1, <2>2
<1> HIDE DEF e
<1>5. e \in Seq(Range(e)) /\ DOMAIN e = 1..n
  <2>1. e = [i \in 1..n |-> e[i]]
    BY <1>3
  <2> QED
    BY <1>2, <2>1, SequenceFacts
<1>6. ASSUME NEW i \in 1..n PROVE EntryOK(e[i])
  <2>1. e[i] = [mods |-> MaskOf(t.entries[i].mods), level |-> LevelOf(t.entries[i].level)]
    BY <1>3
  <2>2. e[i].mods = MaskOf(t.entries[i].mods) /\ e[i].level = LevelOf(t.entries[i].level)
    BY <2>1
  <2> QED
    BY Zenon, <1>4, <2>1, <2>2 DEF EntryOK
<1> QED
  BY <1>5, <1>6 DEF TypeWritable, e

LEMMA WritableStep ==
  ASSUME IInv, Writable, Next
  PROVE  Writable'
<1>1. ASSUME UNCHANGED <<types, modifiers, groupNames>>
      PROVE  Writable'
  BY <1>1 DEF Writable, modifiers
<1>2. ASSUME NEW t \in TypeDefs, TypeDefinition(t)
      PROVE  Writable'
  <2>1. types' = Put(types, t.name, TypeOf(t)) /\ UNCHANGED <<leds, virtualMods, groupNames>>
    BY <1>2 DEF TypeDefinition, Statement, modifiers, symbols
  <2>2. IsFiniteSet(DOMAIN types') /\ DOMAIN types' = DOMAIN types \cup {t.name}
    BY <2>1, PutFinite, PutFacts DEF Writable
  <2>3. ASSUME NEW n \in DOMAIN types' PROVE TypeWritable(types'[n])
    <3>1. TypeWritable(TypeOf(t)) /\ (n \in DOMAIN types => TypeWritable(types[n]))
      BY TypeOfWritable DEF Writable
    <3>2. types'[n] = IF n = t.name THEN TypeOf(t) ELSE types[n]
      BY <2>1, <2>2 DEF Put
    <3> QED
      BY <2>2, <3>1, <3>2
  <2> QED
    BY <2>1, <2>2, <2>3 DEF Writable
<1>3. ASSUME NEW l, NEW v, leds' = Put(leds, l, v), UNCHANGED <<types, virtualMods, groupNames>>
      PROVE  Writable'
  <2>1. IsFiniteSet(DOMAIN leds')
    BY <1>3, PutFinite DEF Writable
  <2> QED
    BY <1>3, <2>1 DEF Writable
<1>4. ASSUME NEW rel \in GroupNames, GroupName(rel)
      PROVE  Writable'
  <2> DEFINE g == rel + groupOffset
             m == Len(groupNames)
             n == AtLeast(g + 1, m)
  <2>1. /\ groupNames' = [i \in 1..n |->
             IF i = g + 1 THEN "named" ELSE IF i \in DOMAIN groupNames THEN groupNames[i] ELSE Unnamed]
        /\ UNCHANGED <<types, leds, virtualMods>>
    BY <1>4 DEF GroupName, Statement, modifiers
  <2>2. g \in Nat
    BY KeymapBuildAssumption DEF IInv, SymbolsTyped
  <2>3. groupNames \in Seq({Unnamed, "named"}) /\ m \in Nat /\ DOMAIN groupNames = 1..m
    BY DEF IInv, SymbolsTyped
  <2>4. n \in Nat /\ n >= m /\ (n = g + 1 \/ n = m)
    BY <2>2, <2>3 DEF AtLeast
  <2> HIDE DEF g, m, n
  <2>5. Len(groupNames') = n /\ DOMAIN groupNames' = 1..n
    <3>1. groupNames' = [i \in 1..n |-> groupNames'[i]]
      BY <2>1
    <3> QED
      BY <2>4, <3>1, SequenceFacts
  <2>6. m >= 4 /\ (m > 4 => groupNames[m] = "named")
    BY DEF Writable, m
  <2>7. n >= 4 /\ n \in 1..n
    BY <2>3, <2>4, <2>6
  <2>8. groupNames'[n] = IF n = g + 1 THEN "named" ELSE IF n \in DOMAIN groupNames THEN groupNames[n] ELSE Unnamed
    BY <2>1, <2>7
  <2>9. n > 4 => groupNames'[n] = "named"
    <3>1. CASE n = g + 1
      BY <2>8, <3>1
    <3>2. CASE n # g + 1
      <4>1. n = m /\ n \in DOMAIN groupNames
        BY <2>3, <2>4, <2>7, <3>2
      <4> QED
        BY <2>6, <2>8, <3>2, <4>1
    <3> QED
      BY <3>1, <3>2
  <2> QED
    BY <2>1, <2>5, <2>7, <2>9 DEF Writable
<1>5. ASSUME NEW l \in LedNames, NEW c \in LedCodes, IndicatorName(l, c)
      PROVE  Writable'
  BY <1>3, <1>5 DEF IndicatorName, symbols
<1>6. ASSUME NEW l \in LedNames, NEW mods \in LedMods, CompatIndicator(l, mods)
      PROVE  Writable'
  BY <1>3, <1>6 DEF CompatIndicator, symbols
<1>7. \/ \E s \in Sections : OpenSection(s)
      \/ RepeatSection
      \/ \E c \in Ranges : SetMinimum(c) \/ SetMaximum(c)
      \/ \E n \in Names, c \in CodeDefs : KeycodeDefinition(n, c)
      \/ \E n, target \in Names : KeycodeAlias(n, target)
      => UNCHANGED <<types, modifiers, groupNames>>
  BY DEF OpenSection, RepeatSection, SetMinimum, SetMaximum, KeycodeDefinition, KeycodeAlias,
         Statement, modifiers, symbols
<1>8. \/ \E b \in BOOLEAN : InterpretDefault(b)
      \/ \E i \in Interprets : Interpret(i)
      \/ \E o \in Offsets : SetGroupOffset(o)
      \/ \E n \in Names, b \in Bodies : KeyDefinition(n, b)
      \/ \E n \in Names : BadKeyDefinition(n)
      \/ \E m \in Mods, names \in SUBSET Names : ModifierMap(m, names)
      \/ Finish
      => UNCHANGED <<types, modifiers, groupNames>>
  BY DEF InterpretDefault, Interpret, SetGroupOffset, KeyDefinition, BadKeyDefinition, ModifierMap, Finish,
         Statement, modifiers, symbols
<1>9. ASSUME NEW sec \in Sections, NEW v \in VModDefs, VirtualModifier(sec, v.name, v.mask)
      PROVE  Writable'
  <2>1. /\ virtualMods' = IF v.name \in DOMAIN virtualMods THEN virtualMods ELSE Put(virtualMods, v.name, v.mask)
        /\ UNCHANGED <<types, leds, groupNames>>
    BY <1>9 DEF VirtualModifier, symbols
  <2>2. IsFiniteSet(DOMAIN virtualMods')
    BY <2>1, PutFinite DEF Writable
  <2> QED
    BY <2>1, <2>2 DEF Writable
<1> QED
  BY <1>1, <1>2, <1>4, <1>5, <1>6, <1>7, <1>8, <1>9 DEF Next

-----------------------------------------------------------------------------
(* One statement is read.                                                   *)

(* The parts of the text.                                                   *)
LEMMA PartFacts ==
  ASSUME NEW s
  PROVE  /\ s.is \in {"minimum", "maximum", "keycode", "led"} => PartOf(s) = 1
         /\ s.is = "type" => PartOf(s) = 2
         /\ s.is = "indicator" => PartOf(s) = 3
         /\ s.is \in {"group", "key", "bad key"} => PartOf(s) = 4
         /\ PartOf(s) \in 1..4
<1>1. \A x : Rank(x) \in 1..4
  BY DEF Rank
<1>2. ASSUME s.is \in {"minimum", "maximum", "keycode", "led"} PROVE PartOf(s) = 1
  BY <1>2, Zenon DEF PartOf
<1>3. ASSUME s.is = "type" PROVE PartOf(s) = 2
  BY <1>3, Zenon DEF PartOf
<1>4. ASSUME s.is = "indicator" PROVE PartOf(s) = 3
  BY <1>4, Zenon DEF PartOf
<1>5. ASSUME s.is \in {"group", "key", "bad key"} PROVE PartOf(s) = 4
  BY <1>5, Zenon DEF PartOf
<1>6. PartOf(s) \in 1..4
  BY <1>1 DEF PartOf
<1> QED
  BY <1>2, <1>3, <1>4, <1>5, <1>6

(* What is rightful does not change while the text is read.                 *)
LEMMA StaysRightful ==
  ASSUME first' = first, NEW s, Rightful(s)
  PROVE  Rightful(s)'
<1>1. KeptKeys' = KeptKeys /\ Kept' = Kept
  BY DEF Kept, KeptKeys
<1>2. Readable' <=> Readable
  BY <1>1 DEF Readable
<1>3. s.is = "key" => \E c \in KeptKeys : s.name = first.nameOf[c] /\ s.body = BodyText(first.keys[c].groups)
  BY DEF Rightful
<1>4. (s.is = "key" => \E c \in KeptKeys : s.name = first.nameOf[c] /\ s.body = BodyText(first.keys[c].groups))'
  BY <1>1, <1>3
<1> QED
  BY <1>1, <1>2, <1>4 DEF Rightful

(* The statement that is read, what comes after it, and what is unchanged.  *)
Consumes == text # <<>> /\ text' = Tail(text) /\ first' = first

LEMMA AfterHead ==
  ASSUME InOrder, Consumes
  PROVE  /\ InOrder'
         /\ Awaited = {Head(text)} \cup Awaited'
         /\ \A kind : Awaits(kind)' => Awaits(kind)
         /\ \A kind : Awaits(kind) /\ Head(text).is # kind => Awaits(kind)'
         /\ \A s \in Awaited' : s \in Awaited
         /\ \A s \in Awaited : s # Head(text) => s \in Awaited'
         /\ Rightful(Head(text))
         /\ \A s \in Awaited : PartOf(Head(text)) <= PartOf(s)
<1>1. /\ Tail(text) \in Seq(Range(Tail(text))) /\ Sorted(Tail(text))
      /\ Awaited = {Head(text)} \cup Range(Tail(text))
      /\ Rightful(Head(text))
      /\ \A s \in Awaited : PartOf(Head(text)) <= PartOf(s)
  BY HeadFacts DEF Consumes
<1> DEFINE rest == Tail(text)
<1>2. text' = rest /\ first' = first
  BY DEF Consumes
<1> HIDE DEF rest
<1>3. Awaited' = Range(rest)
  BY <1>2 DEF Awaited
<1>4. rest \in Seq(Range(rest)) /\ Sorted(rest) /\ Awaited = {Head(text)} \cup Range(rest)
  BY <1>1 DEF rest
<1>5. ASSUME NEW s \in Range(rest) PROVE Rightful(s)'
  <2>1. Rightful(s)
    BY <1>4 DEF InOrder
  <2> QED
    BY <1>2, <2>1, StaysRightful
<1>6. Sorted(text)'
  BY <1>2, <1>4 DEF Sorted
<1>7. InOrder'
  BY <1>2, <1>3, <1>4, <1>5, <1>6 DEF InOrder
<1>8. \A kind : Awaits(kind)' => Awaits(kind)
  BY <1>3, <1>4 DEF Awaits
<1>9. \A kind : Awaits(kind) /\ Head(text).is # kind => Awaits(kind)'
  BY <1>3, <1>4 DEF Awaits
<1> QED
  BY <1>1, <1>3, <1>4, <1>7, <1>8, <1>9

(* What a statement is not about stays as it is.                            *)
LEMMA PartsStay ==
  ASSUME InOrder, Consumes
  PROVE  /\ ControlBack /\ UNCHANGED <<section, saw, groupOffset, done>> /\ Head(text).is # "section" => ControlBack'
         /\ RangeBack /\ range' = range /\ Head(text).is \notin {"minimum", "maximum"} => RangeBack'
         /\ NamesBack /\ UNCHANGED <<nameOf, codeOf>> /\ Head(text).is # "keycode" => NamesBack'
         /\ TypesBack /\ types' = types /\ Head(text).is # "type" => TypesBack'
         /\ LedsBack /\ leds' = leds /\ Head(text).is \notin {"led", "indicator"} => LedsBack'
         /\ GroupsBack /\ UNCHANGED <<numGroups, groupNames>> /\ Head(text).is # "group" => GroupsBack'
         /\ KeysBack /\ UNCHANGED <<keys, numGroups, types>> /\ Head(text).is \notin {"key", "bad key"} => KeysBack'
<1> DEFINE is == Head(text).is
<1>1. /\ \A kind : Awaits(kind)' => Awaits(kind)
      /\ \A kind : Awaits(kind) /\ is # kind => Awaits(kind)'
      /\ \A s \in Awaited : s.is # is => s \in Awaited'
  BY AfterHead
<1>2. first' = first /\ text # <<>>
  BY DEF Consumes
<1> HIDE DEF is
<1>3. Kept' = Kept /\ KeptKeys' = KeptKeys
  BY <1>2 DEF Kept, KeptKeys
<1>4. ControlBack /\ UNCHANGED <<section, saw, groupOffset, done>> /\ is # "section" => ControlBack'
  BY <1>1, <1>2 DEF ControlBack
<1>5. RangeBack /\ range' = range /\ is \notin {"minimum", "maximum"} => RangeBack'
  BY <1>1, <1>2 DEF RangeBack
<1>6. NamesBack /\ UNCHANGED <<nameOf, codeOf>> /\ is # "keycode" => NamesBack'
  BY <1>1, <1>2, <1>3 DEF NamesBack
<1>7. TypesBack /\ types' = types /\ is # "type" => TypesBack'
  BY <1>1, <1>2 DEF TypesBack
<1>8. LedsBack /\ leds' = leds /\ is \notin {"led", "indicator"} => LedsBack'
  BY <1>1, <1>2 DEF LedsBack
<1>9. GroupsBack /\ UNCHANGED <<numGroups, groupNames>> /\ is # "group" => GroupsBack'
  BY <1>1, <1>2 DEF GroupsBack
<1>10. KeysBack /\ UNCHANGED <<keys, numGroups, types>> /\ is \notin {"key", "bad key"} => KeysBack'
  <2> SUFFICES ASSUME KeysBack, UNCHANGED <<keys, numGroups, types>>, is \notin {"key", "bad key"}
               PROVE  KeysBack'
    OBVIOUS
  <2>1. ASSUME NEW c \in DOMAIN keys
        PROVE  KeyBack(keys[c].groups, first.keys[c].groups)'
    <3>1. KeyBack(keys[c].groups, first.keys[c].groups)
      BY DEF KeysBack
    <3>2. keys'[c].groups = keys[c].groups /\ first'.keys[c].groups = first.keys[c].groups /\ types' = types
      BY <1>2
    <3> QED
      BY <3>1, <3>2 DEF KeyBack
  <2> QED
    BY <1>1, <1>2, <1>3, <2>1 DEF KeysBack
<1> QED
  BY Zenon, <1>4, <1>5, <1>6, <1>7, <1>8, <1>9, <1>10 DEF is

LEMMA SectionRead ==
  ASSUME Back, Consumes, NEW h, h = Head(text), h.is = "section", OpenSection(h.section)
  PROVE  Back'
<1>1. InOrder' /\ Rightful(h) /\ \A s \in Awaited : s # h => s \in Awaited'
  BY AfterHead DEF Back
<1>2. h.section \in Sections
  BY <1>1 DEF Rightful
<1>3. /\ section' = h.section /\ saw' = saw \cup {h.section} /\ ~done /\ done' = done
      /\ UNCHANGED <<codes, types, modifiers, symbols>>
  BY DEF OpenSection
<1>4. ControlBack'
  <2>1. groupOffset = 0 /\ saw \subseteq Sections
    BY DEF Back, ControlBack
  <2>2. ASSUME NEW x \in Sections PROVE x \in saw' \/ \E s \in Awaited' : s.is = "section" /\ s.section = x
    <3>1. x \in saw \/ \E s \in Awaited : s.is = "section" /\ s.section = x
      BY DEF Back, ControlBack
    <3>2. CASE x = h.section
      BY <1>3, <3>2
    <3>3. CASE x # h.section
      <4>1. \A s \in Awaited : s.section = x => s # h
        BY <3>3
      <4> QED
        BY <1>1, <1>3, <3>1, <4>1
    <3> QED
      BY <3>2, <3>3
  <2>3. groupOffset' = 0 /\ saw' \subseteq Sections
    BY <1>2, <1>3, <2>1 DEF symbols
  <2>4. section' # "stopped" /\ ~done'
    BY <1>2, <1>3 DEF Sections
  <2> QED
    BY <2>2, <2>3, <2>4 DEF ControlBack
<1> QED
  BY <1>1, <1>3, <1>4, PartsStay DEF Back, codes, modifiers, symbols

LEMMA RangeRead ==
  ASSUME Known, Back, Consumes, NEW h, h = Head(text),
         \/ h.is = "minimum" /\ SetMinimum(h.code)
         \/ h.is = "maximum" /\ SetMaximum(h.code)
  PROVE  Back'
<1>1. InOrder' /\ Rightful(h) /\ \A kind : Awaits(kind) /\ h.is # kind => Awaits(kind)'
  BY AfterHead DEF Back
<1>2. /\ UNCHANGED <<section, saw, done>> /\ UNCHANGED <<nameOf, codeOf, types, leds>>
      /\ UNCHANGED <<keys, numGroups, groupNames, groupOffset>>
  BY GoodStatementFacts DEF SetMinimum, SetMaximum, modifiers, symbols
<1>3. range \in [min : Nat, max : Nat] /\ first.range \in [min : Nat, max : Nat] /\ first' = first
  BY DEF Back, RangeBack, Known, Consumes
<1>4. ASSUME h.is = "minimum", SetMinimum(h.code)
      PROVE  RangeBack' /\ h.is \in {"minimum", "maximum"}
  <2>1. range' = [range EXCEPT !.min = h.code] /\ h.code = first.range.min
    BY <1>1, <1>4 DEF SetMinimum, Rightful
  <2>2. RangeBack'
    BY <1>1, <1>3, <1>4, <2>1 DEF RangeBack, Back
  <2> QED
    BY <1>4, <2>2
<1>5. ASSUME h.is = "maximum", SetMaximum(h.code)
      PROVE  RangeBack' /\ h.is \in {"minimum", "maximum"}
  <2>1. range' = [range EXCEPT !.max = h.code] /\ h.code = first.range.max
    BY <1>1, <1>5 DEF SetMaximum, Rightful
  <2>2. RangeBack'
    BY <1>1, <1>3, <1>5, <2>1 DEF RangeBack, Back
  <2> QED
    BY <1>5, <2>2
<1>6. RangeBack' /\ h.is \in {"minimum", "maximum"}
  BY <1>4, <1>5
<1> QED
  BY Zenon, <1>1, <1>2, <1>6, PartsStay DEF Back

LEMMA VModRead ==
  ASSUME Back, Consumes, NEW h, h = Head(text), h.is = "vmod", NEW mask, VirtualModifier(h.section, h.name, mask)
  PROVE  Back'
<1>1. InOrder'
  BY AfterHead DEF Back
<1>2. /\ UNCHANGED <<section, saw, done>> /\ UNCHANGED <<nameOf, codeOf, range, types, leds>>
      /\ UNCHANGED <<keys, numGroups, groupNames, groupOffset>>
  BY GoodStatementFacts DEF VirtualModifier, codes, symbols
<1> QED
  BY Zenon, <1>1, <1>2, PartsStay DEF Back

(* A keycode takes its name from no other, as names are different.          *)
LEMMA KeycodeRead ==
  ASSUME Known, OneToOne, Back, Consumes, NEW h, h = Head(text), h.is = "keycode",
         KeycodeDefinition(h.name, h.code)
  PROVE  Back'
<1> DEFINE c == h.code
<1>1. /\ InOrder' /\ Rightful(h) /\ \A s \in Awaited : s # h => s \in Awaited'
      /\ \A kind : Awaits(kind) /\ h.is # kind => Awaits(kind)'
  BY AfterHead DEF Back
<1>2. /\ UNCHANGED <<section, saw, done>> /\ UNCHANGED <<types, leds>>
      /\ UNCHANGED <<keys, numGroups, groupNames, groupOffset>>
      /\ nameOf' = Put(nameOf, c, h.name) /\ codeOf' = Put(codeOf, h.name, c) /\ range' = Wider(range, c)
  BY GoodStatementFacts DEF KeycodeDefinition, modifiers, symbols, Statement
<1>3. first' = first /\ Kept' = Kept
  BY DEF Consumes, Kept
<1>4. /\ c \in Kept /\ h.name = first.nameOf[c] /\ c \in Nat
      /\ first.range \in [min : Nat, max : Nat] /\ first.range.min <= c /\ c <= first.range.max
  BY <1>1 DEF Rightful, Kept, Known
<1>5. RangeBack'
  <2>1. range \in [min : Nat, max : Nat]
    BY DEF Back, RangeBack
  <2>2. range'.min = (IF c < range.min THEN c ELSE range.min) /\ range'.max = (IF c > range.max THEN c ELSE range.max)
        /\ range' \in [min : Nat, max : Nat]
    BY <1>2, <1>4, <2>1 DEF Wider
  <2>3. range.min = first.range.min => range'.min = first.range.min
    BY <1>4, <2>1, <2>2
  <2>4. range.max = first.range.max => range'.max = first.range.max
    BY <1>4, <2>1, <2>2
  <2>5. range.min = first.range.min \/ Awaits("minimum")'
    BY <1>1 DEF Back, RangeBack
  <2>6. range.max = first.range.max \/ Awaits("maximum")'
    BY <1>1 DEF Back, RangeBack
  <2> QED
    BY <1>3, <2>2, <2>3, <2>4, <2>5, <2>6 DEF RangeBack
<1>6. NamesBack'
  <2>1. NamesBack
    BY DEF Back
  <2>2. DOMAIN nameOf' = DOMAIN nameOf \cup {c} /\ nameOf'[c] = h.name /\ \A d \in DOMAIN nameOf : d # c => nameOf'[d] = nameOf[d]
    BY <1>2 DEF Put
  <2>3. /\ DOMAIN codeOf' = DOMAIN codeOf \cup {h.name} /\ codeOf'[h.name] = c
        /\ \A n \in DOMAIN codeOf : n # h.name => codeOf'[n] = codeOf[n]
    BY <1>2 DEF Put
  <2>4. ASSUME NEW d \in DOMAIN nameOf'
        PROVE  d \in Kept /\ nameOf'[d] = first.nameOf[d] /\ nameOf'[d] \in DOMAIN codeOf' /\ codeOf'[nameOf'[d]] = d
    <3>1. CASE d = c
      BY <1>4, <2>2, <2>3, <3>1
    <3>2. CASE d # c
      <4>1. /\ d \in Kept /\ nameOf'[d] = nameOf[d] /\ nameOf[d] = first.nameOf[d]
            /\ nameOf[d] \in DOMAIN codeOf /\ codeOf[nameOf[d]] = d
        BY <2>1, <2>2, <3>2 DEF NamesBack
      <4>2. nameOf[d] # h.name
        BY <1>4, <3>2, <4>1 DEF OneToOne
      <4> QED
        BY <2>3, <4>1, <4>2
    <3> QED
      BY <3>1, <3>2
  <2>5. ASSUME NEW d \in Kept PROVE d \in DOMAIN nameOf' \/ \E s \in Awaited' : s.is = "keycode" /\ s.code = d
    <3>1. d \in DOMAIN nameOf \/ \E s \in Awaited : s.is = "keycode" /\ s.code = d
      BY <2>1 DEF NamesBack
    <3>2. \A s \in Awaited : s.code = d /\ d # c => s \in Awaited'
      BY <1>1
    <3> QED
      BY <2>2, <3>1, <3>2
  <2> QED
    BY <1>3, <2>4, <2>5 DEF NamesBack
<1> QED
  BY Zenon, <1>1, <1>2, <1>5, <1>6, PartsStay DEF Back

(* An indicator of the keycodes section is one that the compat section has  *)
(* still to give its modifiers.                                             *)
LEMMA LedRead ==
  ASSUME Back, Consumes, NEW h, h = Head(text), h.is = "led", IndicatorName(h.name, h.code)
  PROVE  Back'
<1> DEFINE l == h.name
<1>1. InOrder' /\ Rightful(h) /\ (\A s \in Awaited : s # h => s \in Awaited') /\ Awaits("led")
  <2>1. h \in Awaited
    BY AfterHead DEF Back
  <2> QED
    BY <2>1, AfterHead DEF Back, Awaits
<1>2. /\ UNCHANGED <<section, saw, done>> /\ UNCHANGED <<nameOf, codeOf, range, types>>
      /\ UNCHANGED <<keys, numGroups, groupNames, groupOffset>>
      /\ leds' = Put(leds, l, [index |-> h.code, mods |-> {}])
  BY GoodStatementFacts DEF IndicatorName, codes, symbols
<1>3. l \in DOMAIN first.leds /\ h.code = first.leds[l].index /\ first' = first
  BY <1>1 DEF Rightful, Consumes
<1>4. LedsBack
  BY DEF Back
<1>5. DOMAIN leds' = DOMAIN leds \cup {l} /\ leds'[l].index = h.code /\ \A k \in DOMAIN leds : k # l => leds'[k] = leds[k]
  BY <1>2 DEF Put
<1>6. ASSUME NEW k \in DOMAIN leds' PROVE k \in DOMAIN first.leds /\ leds'[k].index = first.leds[k].index
  BY <1>3, <1>4, <1>5 DEF LedsBack
<1>7. ASSUME NEW k \in DOMAIN first.leds, first.leds[k].index > 0
      PROVE  k \in DOMAIN leds' \/ \E s \in Awaited' : s.is = "led" /\ s.name = k
  <2>1. k \in DOMAIN leds \/ \E s \in Awaited : s.is = "led" /\ s.name = k
    BY <1>4, <1>7 DEF LedsBack
  <2>2. \A s \in Awaited : s.name = k /\ k # l => s \in Awaited'
    BY <1>1
  <2> QED
    BY <1>5, <2>1, <2>2
<1>8. ASSUME NEW k \in DOMAIN first.leds PROVE \E s \in Awaited' : s.is = "indicator" /\ s.name = k
  <2>1. \E s \in Awaited : s.is = "indicator" /\ s.name = k
    BY <1>1, <1>4 DEF LedsBack
  <2>2. \A s \in Awaited : s.is = "indicator" => s # h
    OBVIOUS
  <2> QED
    BY <1>1, <2>1, <2>2
<1>9. LedsBack'
  BY <1>3, <1>6, <1>7, <1>8 DEF LedsBack
<1> QED
  BY Zenon, <1>1, <1>2, <1>9, PartsStay DEF Back

(* The compat section has the modifiers of every indicator, and is read     *)
(* after all their numbers.                                                 *)
LEMMA IndicatorRead ==
  ASSUME Known, Back, Consumes, NEW h, h = Head(text), h.is = "indicator", CompatIndicator(h.name, h.mods)
  PROVE  Back'
<1> DEFINE l == h.name
           number == IF l \in DOMAIN leds THEN leds[l].index ELSE 0
<1>1. InOrder' /\ Rightful(h) /\ (\A s \in Awaited : s # h => s \in Awaited') /\ ~Awaits("led") /\ ~Awaits("led")'
  <2>1. \A s \in Awaited : PartOf(h) <= PartOf(s)
    BY AfterHead DEF Back
  <2>2. ASSUME NEW s \in Awaited, s.is = "led" PROVE FALSE
    <3>1. PartOf(s) = 1 /\ PartOf(h) = 3
      BY Zenon, <2>2, PartFacts
    <3> QED
      BY <2>1, <3>1
  <2>3. ~Awaits("led")
    BY <2>2 DEF Awaits
  <2> QED
    BY <2>3, AfterHead DEF Back
<1>2. /\ UNCHANGED <<section, saw, done>> /\ UNCHANGED <<nameOf, codeOf, range, types>>
      /\ UNCHANGED <<keys, numGroups, groupNames, groupOffset>>
      /\ leds' = Put(leds, l, [index |-> number, mods |-> MaskOf(h.mods)])
  BY GoodStatementFacts DEF CompatIndicator, codes, symbols
<1>3. l \in DOMAIN first.leds /\ Spells(h.mods, first.leds[l].mods) /\ first' = first /\ first.leds[l].index \in Nat
  BY <1>1 DEF Rightful, Consumes, Known
<1>4. LedsBack
  BY DEF Back
<1>5. number = first.leds[l].index
  <2>1. CASE l \in DOMAIN leds
    BY <1>4, <2>1 DEF LedsBack
  <2>2. CASE l \notin DOMAIN leds
    <3>1. ~\E s \in Awaited : s.is = "led" /\ s.name = l
      BY <1>1 DEF Awaits
    <3>2. ~(first.leds[l].index > 0)
      BY <1>3, <1>4, <2>2, <3>1 DEF LedsBack
    <3> QED
      BY <1>3, <2>2, <3>2
  <2> QED
    BY <2>1, <2>2
<1> HIDE DEF number
<1>6. /\ DOMAIN leds' = DOMAIN leds \cup {l} /\ leds'[l].index = number /\ leds'[l].mods = MaskOf(h.mods)
      /\ \A k \in DOMAIN leds : k # l => leds'[k] = leds[k]
  BY <1>2 DEF Put
<1>7. ASSUME NEW k \in DOMAIN leds' PROVE k \in DOMAIN first.leds /\ leds'[k].index = first.leds[k].index
  BY <1>3, <1>4, <1>5, <1>6 DEF LedsBack
<1>8. ASSUME NEW k \in DOMAIN first.leds, first.leds[k].index > 0 PROVE k \in DOMAIN leds'
  <2>1. k \in DOMAIN leds
    BY <1>1, <1>4, <1>8 DEF LedsBack, Awaits
  <2> QED
    BY <1>6, <2>1
<1>9. ASSUME NEW k \in DOMAIN first.leds
      PROVE  \/ \E s \in Awaited' : s.is = "indicator" /\ s.name = k
             \/ k \in DOMAIN leds' /\ (first.leds[k].mods \subseteq Real => leds'[k].mods = first.leds[k].mods)
  <2>1. CASE k = l
    BY <1>3, <1>6, <2>1, MaskRead
  <2>2. CASE k # l
    <3>1. \/ \E s \in Awaited : s.is = "indicator" /\ s.name = k
          \/ k \in DOMAIN leds /\ (first.leds[k].mods \subseteq Real => leds[k].mods = first.leds[k].mods)
      BY <1>4 DEF LedsBack
    <3>2. \A s \in Awaited : s.name = k => s \in Awaited'
      BY <1>1, <2>2
    <3> QED
      BY <1>6, <2>2, <3>1, <3>2
  <2> QED
    BY <2>1, <2>2
<1>10. LedsBack'
  BY <1>1, <1>3, <1>7, <1>8, <1>9 DEF LedsBack
<1> QED
  BY Zenon, <1>1, <1>2, <1>10, PartsStay DEF Back

LEMMA TypeStatementRead ==
  ASSUME Known, Back, Consumes, NEW h, h = Head(text), h.is = "type", TypeDefinition(h.type)
  PROVE  Back'
<1> DEFINE n == h.type.name
<1>1. /\ InOrder' /\ Rightful(h) /\ Awaits("type") /\ (\A s \in Awaited : s # h => s \in Awaited')
      /\ \A kind : Awaits(kind)' => Awaits(kind)
  <2>1. h \in Awaited
    BY AfterHead DEF Back
  <2> QED
    BY <2>1, AfterHead DEF Back, Awaits
<1>2. /\ UNCHANGED <<section, saw, done>> /\ UNCHANGED <<nameOf, codeOf, range, leds>>
      /\ UNCHANGED <<keys, numGroups, groupNames, groupOffset>>
      /\ types' = Put(types, n, TypeOf(h.type))
  BY GoodStatementFacts DEF TypeDefinition, codes, symbols, modifiers
<1>3. n \in DOMAIN first.types /\ Writes(h.type, first.types[n]) /\ first' = first /\ KeptKeys' = KeptKeys
  BY <1>1 DEF Rightful, Consumes, KeptKeys, Kept
<1>4. TypeBack(TypeOf(h.type), first.types[n])
  BY <1>3, TypeRead DEF Known
<1>5. TypesBack'
  <2>1. TypesBack
    BY DEF Back
  <2>2. DOMAIN types' = DOMAIN types \cup {n} /\ types'[n] = TypeOf(h.type) /\ \A k \in DOMAIN types : k # n => types'[k] = types[k]
    BY <1>2 DEF Put
  <2>3. ASSUME NEW k \in DOMAIN types' PROVE k \in DOMAIN first.types /\ TypeBack(types'[k], first.types[k])
    BY <1>3, <1>4, <2>1, <2>2 DEF TypesBack
  <2>4. ASSUME NEW k \in DOMAIN first.types
        PROVE  k \in DOMAIN types' \/ \E s \in Awaited' : s.is = "type" /\ s.type.name = k
    <3>1. k \in DOMAIN types \/ \E s \in Awaited : s.is = "type" /\ s.type.name = k
      BY <2>1 DEF TypesBack
    <3>2. \A s \in Awaited : s.type.name = k /\ k # n => s \in Awaited'
      BY <1>1
    <3> QED
      BY <2>2, <3>1, <3>2
  <2> QED
    BY <1>3, <2>3, <2>4 DEF TypesBack
<1>6. KeysBack'
  <2>1. KeysBack /\ DOMAIN keys = {}
    BY <1>1 DEF Back, KeysBack
  <2>2. ASSUME NEW c \in KeptKeys
        PROVE  \E s \in Awaited' : s.is \in {"key", "bad key"} /\ s.name = first.nameOf[c]
    <3>1. PICK s \in Awaited : s.is \in {"key", "bad key"} /\ s.name = first.nameOf[c]
      BY <2>1 DEF KeysBack
    <3>2. s # h
      BY <3>1
    <3> QED
      BY <1>1, <3>1, <3>2
  <2> QED
    BY <1>2, <1>3, <2>1, <2>2 DEF KeysBack
<1> QED
  BY Zenon, <1>1, <1>2, <1>5, <1>6, PartsStay DEF Back

LEMMA GroupRead ==
  ASSUME Known, Back, Consumes, NEW h, h = Head(text), h.is = "group", GroupName(h.group)
  PROVE  Back'
<1> DEFINE g == h.group
           m == Len(groupNames)
           n == AtLeast(g + 1, m)
<1>1. /\ InOrder' /\ Rightful(h) /\ (\A s \in Awaited : s # h => s \in Awaited')
      /\ \A kind : Awaits(kind)' => Awaits(kind)
  BY AfterHead DEF Back
<1>2. /\ groupOffset = 0 /\ numGroups \in Nat /\ groupNames \in Seq({Unnamed, "named"}) /\ m >= 4
      /\ m \in Nat /\ DOMAIN groupNames = 1..m
  BY DEF Back, ControlBack, GroupsBack
<1>3. g \in Nat /\ g + 1 \in DOMAIN first.groupNames /\ first.groupNames[g + 1] = "named" /\ g + groupOffset = g
  <2>1. g \in Nat /\ g + 1 \in DOMAIN first.groupNames /\ first.groupNames[g + 1] = "named"
    BY Zenon, <1>1 DEF Rightful
  <2>2. g + groupOffset = g
    BY <1>2, <2>1
  <2> QED
    BY <2>1, <2>2
<1>4. /\ UNCHANGED <<section, saw, done>> /\ UNCHANGED <<nameOf, codeOf, range, types, leds>>
      /\ UNCHANGED <<keys, groupOffset>>
      /\ numGroups' = AtLeast(g + 1, numGroups) /\ first' = first
      /\ groupNames' = [i \in 1..n |-> IF i = g + 1 THEN "named" ELSE IF i \in DOMAIN groupNames THEN groupNames[i] ELSE Unnamed]
  BY <1>3, GoodStatementFacts DEF GroupName, codes, modifiers, Consumes
<1>5. n \in Nat /\ n >= m /\ g + 1 \in 1..n /\ n >= 4
  BY <1>2, <1>3 DEF AtLeast
<1>6. numGroups' \in Nat /\ numGroups <= numGroups'
  BY <1>2, <1>3, <1>4 DEF AtLeast
<1> HIDE DEF n, m
<1>7. GroupsBack'
  <2>1. GroupsBack
    BY DEF Back
  <2>2. groupNames' \in Seq({Unnamed, "named"}) /\ Len(groupNames') = n /\ DOMAIN groupNames' = 1..n
    <3>1. \A i \in 1..n : groupNames'[i] \in {Unnamed, "named"}
      BY <1>2, <1>4
    <3>2. groupNames' = [i \in 1..n |-> groupNames'[i]]
      BY <1>4
    <3> QED
      BY <1>5, <3>1, <3>2, SequenceFacts
  <2>3. groupNames'[g + 1] = "named" /\ \A i \in DOMAIN groupNames : i \in 1..n /\ (i # g + 1 => groupNames'[i] = groupNames[i])
    BY <1>2, <1>4, <1>5
  <2>4. ASSUME NEW i \in DOMAIN groupNames'
        PROVE  groupNames'[i] = Unnamed \/ (i \in DOMAIN first.groupNames /\ first.groupNames[i] = "named")
    <3>1. CASE i = g + 1
      BY <1>3, <3>1
    <3>2. CASE i # g + 1 /\ i \in DOMAIN groupNames
      BY <2>1, <2>3, <3>2 DEF GroupsBack
    <3>3. CASE i # g + 1 /\ i \notin DOMAIN groupNames
      BY <1>4, <2>2, <3>3
    <3> QED
      BY <3>1, <3>2, <3>3
  <2>5. ASSUME NEW i \in DOMAIN first.groupNames
        PROVE  \/ first.groupNames[i] = Unnamed
               \/ i \in DOMAIN groupNames' /\ groupNames'[i] = "named"
               \/ \E s \in Awaited' : s.is = "group" /\ s.group = i - 1
    <3>1. CASE i = g + 1
      BY <1>5, <2>2, <2>3, <3>1
    <3>2. CASE i # g + 1
      <4>1. \/ first.groupNames[i] = Unnamed
            \/ i \in DOMAIN groupNames /\ groupNames[i] = "named"
            \/ \E s \in Awaited : s.is = "group" /\ s.group = i - 1
        BY <2>1 DEF GroupsBack
      <4>2. i - 1 # g
        <5>1. i \in Nat
          BY DEF Known
        <5> QED
          BY <1>3, <3>2, <5>1
      <4>3. \A s \in Awaited : s.group = i - 1 => s \in Awaited'
        BY <1>1, <4>2
      <4> QED
        BY <2>2, <2>3, <3>2, <4>1, <4>3
    <3> QED
      BY <3>1, <3>2
  <2> QED
    BY <1>4, <1>5, <1>6, <2>2, <2>4, <2>5 DEF GroupsBack
<1>8. KeysBack'
  <2>1. KeysBack /\ Kept' = Kept /\ KeptKeys' = KeptKeys
    BY <1>4 DEF Back, Kept, KeptKeys
  <2>2. ASSUME NEW c \in DOMAIN keys
        PROVE  KeyBack(keys[c].groups, first.keys[c].groups)' /\ Len(keys'[c].groups) <= numGroups'
    <3>1. KeyBack(keys[c].groups, first.keys[c].groups) /\ Len(keys[c].groups) <= numGroups
      BY <2>1 DEF KeysBack
    <3>2. keys'[c].groups = keys[c].groups /\ first'.keys[c].groups = first.keys[c].groups /\ types' = types
      BY <1>4
    <3>3. KeyBack(keys[c].groups, first.keys[c].groups)'
      BY <3>1, <3>2 DEF KeyBack
    <3>4. Len(keys[c].groups) \in Nat
      BY <3>1 DEF KeyBack
    <3>5. Len(keys[c].groups) <= numGroups'
      BY <1>2, <1>6, <3>1, <3>4
    <3> QED
      BY <3>2, <3>3, <3>5
  <2>3. ASSUME NEW c \in KeptKeys, c \notin DOMAIN keys
        PROVE  \E s \in Awaited' : s.is \in {"key", "bad key"} /\ s.name = first.nameOf[c]
    <3>1. PICK s \in Awaited : s.is \in {"key", "bad key"} /\ s.name = first.nameOf[c]
      BY <2>1, <2>3 DEF KeysBack
    <3>2. s # h
      BY <3>1
    <3> QED
      BY <1>1, <3>1, <3>2
  <2> QED
    BY <1>1, <1>4, <2>1, <2>2, <2>3 DEF KeysBack
<1> QED
  BY Zenon, <1>1, <1>4, <1>7, <1>8, PartsStay DEF Back

(* A key is read when all keycodes and types are, into its own keycode; a   *)
(* statement of the same key that is read again says the same once more.    *)
LEMMA KeyStatementRead ==
  ASSUME Known, OneToOne, Back, Consumes, NEW h, h = Head(text), h.is = "key", KeyDefinition(h.name, h.body)
  PROVE  Back'
<1>1. /\ InOrder' /\ Rightful(h) /\ (\A s \in Awaited : s # h => s \in Awaited')
      /\ \A kind : Awaits(kind)' => Awaits(kind)
      /\ \A s \in Awaited : PartOf(h) <= PartOf(s)
  BY AfterHead DEF Back
<1>2. ControlBack /\ NamesBack /\ TypesBack /\ GroupsBack /\ KeysBack /\ groupOffset = 0
  BY DEF Back, ControlBack
<1>3. PICK d \in KeptKeys : h.name = first.nameOf[d] /\ h.body = BodyText(first.keys[d].groups)
  BY Zenon, <1>1 DEF Rightful
<1> DEFINE was == first.keys[d].groups
           old == IF d \in DOMAIN keys THEN keys[d].groups ELSE <<>>
           new == KeyBody(h.body, old)
<1>4. d \in Kept /\ d \in DOMAIN first.keys /\ was # <<>> /\ GroupsOK(was)
  BY DEF KeptKeys, Known
<1>5. ASSUME NEW s \in Awaited, s.is \in {"keycode", "type"}
      PROVE  FALSE
  <2>1. PartOf(h) = 4 /\ PartOf(s) \in {1, 2}
    BY Zenon, <1>5, PartFacts
  <2> QED
    BY <1>1, <2>1
<1>6. d \in DOMAIN nameOf
  BY <1>2, <1>4, <1>5 DEF NamesBack
<1>7. h.name \in DOMAIN codeOf /\ codeOf[h.name] = d /\ KeycodeFor(h.name) = d
  BY <1>2, <1>3, <1>6 DEF NamesBack, KeycodeFor
<1>8. /\ UNCHANGED <<section, saw, done>> /\ UNCHANGED <<nameOf, codeOf, range, types, leds>>
      /\ UNCHANGED <<groupNames, groupOffset>> /\ first' = first /\ KeptKeys' = KeptKeys /\ Kept' = Kept
  BY <1>7, GoodStatementFacts DEF KeyDefinition, NameKeycode, codes, modifiers, Consumes, Kept, KeptKeys
<1>9. /\ DOMAIN keys' = DOMAIN keys \cup {d} /\ keys'[d].groups = new /\ "groups" \in DOMAIN keys'[d]
      /\ \A c \in DOMAIN keys : c # d => keys'[c] = keys[c]
      /\ numGroups' = AtLeast(Len(new), numGroups)
  BY <1>7 DEF KeyDefinition, Put
<1>10. KeyBack(new, was)
  <2>1. old = <<>> \/ KeyBack(old, was)
    BY <1>2 DEF KeysBack
  <2> HIDE DEF old
  <2> QED
    BY <1>2, <1>3, <1>4, <2>1, KeyRead
<1> HIDE DEF new, was, old
<1>11. Len(new) \in Nat /\ numGroups \in Nat
  BY <1>2, <1>10 DEF KeyBack, GroupsBack
<1>12. numGroups' \in Nat /\ numGroups <= numGroups' /\ Len(new) <= numGroups'
  BY <1>9, <1>11 DEF AtLeast
<1>13. GroupsBack'
  <2>1. \A s \in Awaited : s.is = "group" => s \in Awaited'
    BY <1>1
  <2> QED
    BY <1>2, <1>8, <1>12, <2>1 DEF GroupsBack
<1>14. KeysBack'
  <2>1. ASSUME NEW c \in DOMAIN keys'
        PROVE  /\ c \in KeptKeys /\ KeyBack(keys'[c].groups, first.keys[c].groups)
               /\ Len(keys'[c].groups) <= numGroups' /\ "groups" \in DOMAIN keys'[c]
    <3>1. CASE c = d
      BY <1>9, <1>10, <1>12, <3>1 DEF was
    <3>2. CASE c # d
      <4>1. c \in KeptKeys /\ KeyBack(keys[c].groups, first.keys[c].groups) /\ Len(keys[c].groups) <= numGroups /\ keys'[c] = keys[c]
        BY <1>2, <1>9, <3>2 DEF KeysBack
      <4>4. "groups" \in DOMAIN keys'[c]
        BY <1>2, <1>9, <3>2 DEF KeysBack
      <4>2. Len(keys[c].groups) \in Nat
        BY <4>1 DEF KeyBack
      <4>3. Len(keys[c].groups) <= numGroups'
        BY <1>11, <1>12, <4>1, <4>2
      <4> QED
        BY <4>1, <4>3, <4>4
    <3> QED
      BY <3>1, <3>2
  <2>2. ASSUME NEW c \in DOMAIN keys'
        PROVE  KeyBack(keys[c].groups, first.keys[c].groups)'
    <3>1. KeyBack(keys'[c].groups, first.keys[c].groups)
      BY <2>1
    <3>2. types' = types /\ first'.keys[c].groups = first.keys[c].groups
      BY <1>8
    <3> QED
      BY <3>1, <3>2 DEF KeyBack
  <2>3. ASSUME NEW c \in KeptKeys, c \notin DOMAIN keys'
        PROVE  \E s \in Awaited' : s.is \in {"key", "bad key"} /\ s.name = first.nameOf[c]
    <3>1. PICK s \in Awaited : s.is \in {"key", "bad key"} /\ s.name = first.nameOf[c]
      BY <1>2, <1>9, <2>3 DEF KeysBack
    <3>2. c \in Kept /\ c # d
      BY <1>9, <2>3 DEF KeptKeys
    <3>3. s # h
      BY <1>3, <1>4, <3>1, <3>2 DEF OneToOne
    <3> QED
      BY <1>1, <3>1, <3>3
  <2>4. ~Awaits("type")'
    BY <1>1, <1>5 DEF Awaits
  <2> QED
    BY <1>8, <2>1, <2>2, <2>3, <2>4 DEF KeysBack
<1> QED
  BY Zenon, <1>1, <1>8, <1>13, <1>14, PartsStay DEF Back

(* Only the statement of a key that does not parse is an error.             *)
LEMMA OnlyBadKeysFail ==
  ASSUME NEW h, Reads(h)
  PROVE  failed' = failed \/ (h.is = "bad key" /\ failed')
<1>1. ASSUME NEW s PROVE OpenSection(s) => failed' = failed
  BY DEF OpenSection
<1>2. ASSUME NEW n, NEW c
      PROVE  /\ SetMinimum(c) \/ SetMaximum(c) \/ KeycodeDefinition(n, c) \/ IndicatorName(n, c) => failed' = failed
             /\ VirtualModifier(n, c, {}) \/ TypeDefinition(c) \/ CompatIndicator(n, c) => failed' = failed
             /\ GroupName(c) \/ KeyDefinition(n, c) => failed' = failed
  BY GoodStatementFacts DEF SetMinimum, SetMaximum, KeycodeDefinition, IndicatorName, VirtualModifier, TypeDefinition,
     CompatIndicator, GroupName, KeyDefinition
<1>3. BadKeyDefinition(h.name) => failed'
  BY DEF BadKeyDefinition
<1>4. section = "stopped" /\ UNCHANGED vars => failed' = failed
  BY DEF vars
<1> QED
  BY Zenon, <1>1, <1>2, <1>3, <1>4 DEF Reads

LEMMA StatementRead ==
  ASSUME Known, OneToOne, Back, ReadStatement
  PROVE  /\ ~failed' => Back'
         /\ ~failed /\ Readable => ~failed'
<1>1. PICK h : h = Head(text)
  OBVIOUS
<1>2. Consumes /\ Reads(h)
  BY <1>1 DEF ReadStatement, Consumes
<1>3. section # "stopped"
  BY <1>2 DEF Consumes, Back, ControlBack
<1>4. ASSUME ~failed' PROVE Back'
  <2>1. CASE h.is = "section" /\ OpenSection(h.section)
    BY <1>1, <1>2, <2>1, SectionRead
  <2>2. CASE (h.is = "minimum" /\ SetMinimum(h.code)) \/ (h.is = "maximum" /\ SetMaximum(h.code))
    BY <1>1, <1>2, <2>2, RangeRead
  <2>3. CASE h.is = "keycode" /\ KeycodeDefinition(h.name, h.code)
    BY <1>1, <1>2, <2>3, KeycodeRead
  <2>4. CASE h.is = "led" /\ IndicatorName(h.name, h.code)
    BY <1>1, <1>2, <2>4, LedRead
  <2>5. CASE h.is = "vmod" /\ VirtualModifier(h.section, h.name, {})
    BY <1>1, <1>2, <2>5, VModRead
  <2>6. CASE h.is = "type" /\ TypeDefinition(h.type)
    BY <1>1, <1>2, <2>6, TypeStatementRead
  <2>7. CASE h.is = "indicator" /\ CompatIndicator(h.name, h.mods)
    BY <1>1, <1>2, <2>7, IndicatorRead
  <2>8. CASE h.is = "group" /\ GroupName(h.group)
    BY <1>1, <1>2, <2>8, GroupRead
  <2>9. CASE h.is = "key" /\ KeyDefinition(h.name, h.body)
    BY <1>1, <1>2, <2>9, KeyStatementRead
  <2>10. ~BadKeyDefinition(h.name)
    BY <1>4 DEF BadKeyDefinition
  <2> QED
    BY Zenon, <1>2, <1>3, <2>1, <2>2, <2>3, <2>4, <2>5, <2>6, <2>7, <2>8, <2>9, <2>10 DEF Reads
<1>5. ASSUME ~failed, Readable PROVE ~failed'
  <2>1. Rightful(h)
    BY <1>1, <1>2, AfterHead DEF Back
  <2>2. h.is # "bad key"
    BY Zenon, <1>5, <2>1 DEF Rightful
  <2> QED
    BY <1>2, <1>5, <2>2, OnlyBadKeysFail
<1> QED
  BY <1>4, <1>5

-----------------------------------------------------------------------------
(* The end of the text.                                                     *)

(* Passes over the keymap change no keysym and no type that the keymap has. *)
LEMMA EndRead ==
  ASSUME Known, Back, EndOfText
  PROVE  Back' /\ (~failed => ~failed')
<1>1. /\ text = <<>> /\ text' = text /\ first' = first
      /\ UNCHANGED <<saw, codes, types, modifiers, numGroups, groupNames, groupOffset>>
      /\ section' = "stopped" /\ done' /\ failed' = (failed \/ saw # Sections)
      /\ keys' = [c \in DOMAIN keys |->
           [keys[c] EXCEPT !.repeats = FinalRepeats(keys[c]), !.groups = FinalGroups(keys[c].groups)]]
  BY DEF EndOfText, Finish
<1>2. Awaited = {} /\ Awaited' = {}
  <2>1. text = <<>> /\ text' = <<>>
    BY <1>1
  <2>2. Range(<<>>) = {}
    BY DEF Range
  <2> QED
    BY <2>1, <2>2 DEF Awaited
<1>3. ~failed => ~failed'
  <2>1. \A x \in Sections : x \in saw
    BY <1>2 DEF Back, ControlBack
  <2>2. saw \subseteq Sections
    BY DEF Back, ControlBack
  <2>3. saw = Sections /\ failed' = (failed \/ saw # Sections)
    BY <1>1, <2>1, <2>2
  <2> QED
    BY <2>3
<1>4. Kept' = Kept /\ KeptKeys' = KeptKeys
  BY <1>1 DEF Kept, KeptKeys
<1>5. InOrder' /\ ControlBack'
  BY <1>1, <1>2 DEF Back, InOrder, ControlBack, Sorted
<1>6. RangeBack' /\ NamesBack' /\ LedsBack' /\ GroupsBack' /\ TypesBack'
  <2>1. RangeBack'
    BY <1>1, <1>2 DEF Back, RangeBack, Awaits, codes
  <2>2. NamesBack'
    BY <1>1, <1>2, <1>4 DEF Back, NamesBack, codes
  <2>3. LedsBack'
    BY <1>1, <1>2 DEF Back, LedsBack, Awaits, modifiers
  <2>4. GroupsBack'
    BY <1>1, <1>2 DEF Back, GroupsBack
  <2>5. TypesBack'
    BY <1>1, <1>2 DEF Back, TypesBack
  <2> QED
    BY <2>1, <2>2, <2>3, <2>4, <2>5
<1>7. ASSUME NEW c \in DOMAIN keys
      PROVE  /\ c \in KeptKeys /\ KeyBack(keys[c].groups, first.keys[c].groups)
             /\ Len(keys[c].groups) <= numGroups /\ "groups" \in DOMAIN keys[c]
  BY DEF Back, KeysBack
<1>8. ASSUME NEW now, NEW was, KeyBack(now, was), GroupsOK(was)
      PROVE  KeyBack(FinalGroups(now), was) /\ Len(FinalGroups(now)) = Len(now)
  <2> DEFINE n == Len(was)
             end == FinalGroups(now)
  <2>1. n \in Nat /\ DOMAIN was = 1..n /\ DOMAIN now = 1..n /\ Len(now) = n
    BY <1>8 DEF GroupsOK, KeyBack
  <2> HIDE DEF n
  <2>2. end = [g \in 1..n |-> [type |-> FinalType(now[g]), syms |-> now[g].syms]]
    BY <2>1 DEF FinalGroups
  <2> HIDE DEF end
  <2>3. end \in Seq(Range(end)) /\ Len(end) = n
    <3>1. end = [g \in 1..n |-> end[g]]
      BY <2>2
    <3> QED
      BY <2>1, <3>1, SequenceFacts
  <2>4. \A g \in 1..n : end[g].syms = now[g].syms /\ end[g].type = FinalType(now[g])
    BY <2>2
  <2>5. \A g \in 1..n : now[g].type.name \in DOMAIN types => end[g].type = now[g].type
    BY <2>4 DEF FinalType
  <2>6. \A g \in DOMAIN was : end[g].syms = AsRead(was[g].syms)
    BY <1>8, <2>1, <2>4 DEF KeyBack
  <2>7. ASSUME n = 1, was[1].type.name \in DOMAIN types, Len(was[1].syms) <= types[was[1].type.name].levels
        PROVE  end[1].type.name = was[1].type.name
    <3>1. now[1].type.name = was[1].type.name
      BY <1>8, <2>7 DEF KeyBack, n
    <3> QED
      BY <2>5, <2>7, <3>1
  <2> QED
    BY <2>1, <2>3, <2>6, <2>7 DEF KeyBack, n, end
<1>9. ASSUME NEW c \in DOMAIN keys
      PROVE  /\ KeyBack(keys[c].groups, first.keys[c].groups)' /\ Len(keys'[c].groups) <= numGroups'
             /\ "groups" \in DOMAIN keys'[c]
  <2>1. GroupsOK(first.keys[c].groups)
    BY <1>7 DEF Known, KeptKeys
  <2>2. keys'[c].groups = FinalGroups(keys[c].groups)
    <3>1. keys'[c] = [keys[c] EXCEPT !.repeats = FinalRepeats(keys[c]), !.groups = FinalGroups(keys[c].groups)]
      BY <1>1
    <3> QED
      BY <1>7, <3>1
  <2>3. KeyBack(keys'[c].groups, first.keys[c].groups) /\ Len(keys'[c].groups) = Len(keys[c].groups)
    BY <1>7, <1>8, <2>1, <2>2
  <2>4. "groups" \in DOMAIN keys'[c]
    BY <1>1, <1>7
  <2> QED
    BY <1>1, <1>7, <2>3, <2>4 DEF KeyBack
<1>10. KeysBack'
  BY <1>1, <1>2, <1>4, <1>7, <1>9 DEF Back, KeysBack, Awaits
<1> QED
  BY <1>3, <1>5, <1>6, <1>10 DEF Back

(* At the end everything is back.                                           *)
LEMMA AllBack == SInv => RoundTrip
<1> SUFFICES ASSUME SInv, first # Empty, done, OneToOne, ~failed
             PROVE  NamesSurvive /\ KeysymsSurvive /\ TypesSurvive /\ LedsSurvive
  BY DEF SInv, RoundTrip
<1>1. Back /\ Known
  BY DEF SInv
<1>2. text = <<>>
  BY <1>1 DEF Back, ControlBack
<1>3. Awaited = {}
  <2>1. Range(<<>>) = {}
    BY DEF Range
  <2> QED
    BY <1>2, <2>1 DEF Awaited
<1>4. \A kind : ~Awaits(kind)
  BY <1>3 DEF Awaits
<1>5. NamesSurvive
  <2>1. range = first.range
    <3>1. range.min = first.range.min /\ range.max = first.range.max
      BY <1>1, <1>4 DEF Back, RangeBack
    <3>2. range \in [min : Nat, max : Nat] /\ first.range \in [min : Nat, max : Nat]
      BY <1>1 DEF Back, RangeBack, Known
    <3> QED
      BY <3>1, <3>2
  <2>2. DOMAIN nameOf = Kept /\ \A c \in Kept : nameOf[c] = first.nameOf[c] /\ codeOf[nameOf[c]] = c
    BY <1>1, <1>3 DEF Back, NamesBack
  <2>3. ASSUME NEW i \in DOMAIN first.groupNames PROVE groupNames[i] = first.groupNames[i]
    <3>1. GroupsBack
      BY <1>1 DEF Back
    <3>2. first.groupNames[i] = Unnamed \/ first.groupNames[i] = "named"
      BY <1>1 DEF Known
    <3>3. CASE first.groupNames[i] = "named"
      BY <1>3, <3>1, <3>3 DEF GroupsBack, Unnamed
    <3>4. CASE first.groupNames[i] = Unnamed
      <4>1. i \in DOMAIN groupNames
        <5> DEFINE m == Len(first.groupNames)
                   k == Len(groupNames)
        <5>1. m \in Nat /\ m >= 4 /\ DOMAIN first.groupNames = 1..m /\ (m > 4 => first.groupNames[m] = "named")
          BY <1>1 DEF Known
        <5>2. k \in Nat /\ k >= 4 /\ DOMAIN groupNames = 1..k
          BY <3>1 DEF GroupsBack
        <5> HIDE DEF m, k
        <5>3. ASSUME m > 4 PROVE m \in 1..k
          <6>1. m \in DOMAIN first.groupNames /\ first.groupNames[m] = "named"
            BY <5>1, <5>3
          <6>2. "named" # Unnamed
            BY DEF Unnamed
          <6>3. m \in DOMAIN groupNames
            BY Zenon, <1>3, <3>1, <6>1, <6>2 DEF GroupsBack
          <6> QED
            BY <5>2, <6>3
        <5> QED
          BY <5>1, <5>2, <5>3 DEF m
      <4> QED
        BY <3>1, <3>4, <4>1 DEF GroupsBack, Unnamed
    <3> QED
      BY <3>2, <3>3, <3>4
  <2> QED
    BY <2>1, <2>2, <2>3 DEF NamesSurvive
<1>6. KeysymsSurvive
  <2>1. DOMAIN keys = KeptKeys
    BY <1>1, <1>3 DEF Back, KeysBack
  <2>2. ASSUME NEW c \in KeptKeys
        PROVE  /\ Len(keys[c].groups) = Len(first.keys[c].groups)
               /\ Len(keys[c].groups) <= numGroups
               /\ \A g \in DOMAIN keys[c].groups :
                    keys[c].groups[g].syms = AsRead(first.keys[c].groups[g].syms)
    <3>1. KeyBack(keys[c].groups, first.keys[c].groups) /\ Len(keys[c].groups) <= numGroups
      BY <1>1, <2>1 DEF Back, KeysBack
    <3>2. GroupsOK(first.keys[c].groups)
      BY <1>1 DEF Known, KeptKeys
    <3>3. DOMAIN keys[c].groups = DOMAIN first.keys[c].groups
      BY <3>1, <3>2 DEF KeyBack, GroupsOK
    <3> QED
      BY <3>1, <3>3 DEF KeyBack
  <2> QED
    BY <2>1, <2>2 DEF KeysymsSurvive
<1>7. TypesSurvive
  <2>1. DOMAIN types = DOMAIN first.types
    BY <1>1, <1>3 DEF Back, TypesBack
  <2>2. ASSUME NEW n \in DOMAIN types,
               first.types[n].mods \subseteq Real, \A e \in Range(Written(first.types[n].entries)) : e.mods \subseteq Real
        PROVE  LET entries == Written(first.types[n].entries) IN
               /\ types[n].mods = first.types[n].mods
               /\ types[n].entries = entries
               /\ types[n].levels = Max({1} \cup {e.level + 1 : e \in Range(entries)})
    BY <1>1, <2>2 DEF Back, TypesBack, TypeBack
  <2>3. ASSUME NEW c \in KeptKeys, Len(first.keys[c].groups) = 1,
               first.keys[c].groups[1].type.name \in DOMAIN types,
               Len(first.keys[c].groups[1].syms) <= types[first.keys[c].groups[1].type.name].levels
        PROVE  keys[c].groups[1].type.name = first.keys[c].groups[1].type.name
    <3>1. KeyBack(keys[c].groups, first.keys[c].groups)
      BY <1>1, <1>3 DEF Back, KeysBack
    <3> QED
      BY <2>3, <3>1 DEF KeyBack
  <2> QED
    BY <2>1, <2>2, <2>3 DEF TypesSurvive
<1>8. LedsSurvive
  BY <1>1, <1>3 DEF Back, LedsBack, LedsSurvive
<1> QED
  BY <1>5, <1>6, <1>7, <1>8

-----------------------------------------------------------------------------
(* The text of a keymap.                                                    *)

\* A piece of the text within one section, and what it says.
Piece(s, part) == s \in Seq(Range(s)) /\ \A x \in Range(s) : PartOf(x) = part
Says(s, lines) == s \in Seq(Range(s)) /\ Range(s) = lines

LEMMA OneSays ==
  ASSUME NEW x
  PROVE  Says(<<x>>, {x})
<1>1. <<x>> = [i \in 1..1 |-> <<x>>[i]] /\ DOMAIN <<x>> = 1..1 /\ <<x>>[1] = x
  OBVIOUS
<1>2. Range(<<x>>) = {x}
  BY <1>1 DEF Range
<1> QED
  BY <1>2 DEF Says

LEMMA TwoSay ==
  ASSUME NEW x, NEW y
  PROVE  Says(<<x, y>>, {x, y})
<1>1. <<x, y>> \in Seq({x, y}) /\ DOMAIN <<x, y>> = {1, 2} /\ <<x, y>>[1] = x /\ <<x, y>>[2] = y
  OBVIOUS
<1>2. Range(<<x, y>>) = {x, y}
  BY <1>1 DEF Range
<1> QED
  BY <1>1, <1>2 DEF Says

(* A statement for each number of a set, and for each name.                 *)
LEMMA CodesSay ==
  ASSUME NEW set \in SUBSET Nat, IsFiniteSet(set), NEW st, NEW A,
         A = [i \in 1..Cardinality(set) |-> st[Nth(set, i)]]
  PROVE  Says(A, {st[c] : c \in set})
<1> DEFINE n == Cardinality(set)
<1>1. n \in Nat /\ (\A i \in 1..n : Nth(set, i) \in set) /\ \A c \in set : \E i \in 1..n : Nth(set, i) = c
  BY NthFacts
<1> HIDE DEF n
<1>2. A = [i \in 1..n |-> st[Nth(set, i)]] /\ A = [i \in 1..n |-> A[i]]
  BY DEF n
<1>3. A \in Seq(Range(A)) /\ DOMAIN A = 1..n
  BY <1>1, <1>2, SequenceFacts
<1>4. \A i \in 1..n : A[i] = st[Nth(set, i)]
  BY <1>2
<1>5. Range(A) = {A[i] : i \in 1..n}
  BY <1>3 DEF Range
<1>6. Range(A) = {st[c] : c \in set}
  <2>1. \A c \in set : st[c] \in Range(A)
    BY <1>1, <1>4, <1>5
  <2>2. \A i \in 1..n : A[i] \in {st[c] : c \in set}
    BY <1>1, <1>4
  <2> QED
    BY <1>5, <2>1, <2>2
<1> QED
  BY <1>3, <1>6 DEF Says

LEMMA NamesSay ==
  ASSUME NEW set, IsFiniteSet(set), NEW st, NEW A,
         A = [i \in 1..Cardinality(set) |-> st[SetToSeq(set)[i]]]
  PROVE  Says(A, {st[x] : x \in set})
<1> DEFINE n == Cardinality(set)
           q == SetToSeq(set)
<1>1. n \in Nat /\ (\A i \in 1..n : q[i] \in set) /\ \A x \in set : \E i \in 1..n : q[i] = x
  BY SetToSeqFacts
<1> HIDE DEF n, q
<1>2. A = [i \in 1..n |-> st[q[i]]] /\ A = [i \in 1..n |-> A[i]]
  BY DEF n, q
<1>3. A \in Seq(Range(A)) /\ DOMAIN A = 1..n
  BY <1>1, <1>2, SequenceFacts
<1>4. \A i \in 1..n : A[i] = st[q[i]]
  BY <1>2
<1>5. Range(A) = {A[i] : i \in 1..n}
  BY <1>3 DEF Range
<1>6. Range(A) = {st[x] : x \in set}
  <2>1. \A x \in set : st[x] \in Range(A)
    BY <1>1, <1>4, <1>5
  <2>2. \A i \in 1..n : A[i] \in {st[x] : x \in set}
    BY <1>1, <1>4
  <2> QED
    BY <1>5, <2>1, <2>2
<1> QED
  BY <1>3, <1>6 DEF Says

LEMMA BothSay ==
  ASSUME NEW s, NEW t, NEW S, NEW T, Says(s, S), Says(t, T)
  PROVE  Says(s \o t, S \cup T)
<1>1. s \in Seq(Range(s)) /\ t \in Seq(Range(t))
  BY DEF Says
<1>2. s \o t \in Seq(Range(s \o t)) /\ Range(s \o t) = Range(s) \cup Range(t)
  BY <1>1, JoinFacts
<1> QED
  BY <1>2 DEF Says

LEMMA PieceSorted ==
  ASSUME NEW s, NEW part \in Nat, Piece(s, part)
  PROVE  Sorted(s)
<1>1. \A i \in DOMAIN s : PartOf(s[i]) = part
  BY DEF Piece, Range
<1> QED
  BY <1>1 DEF Sorted

\* What the four sections say.
SectionLine(s) == [is |-> "section", section |-> s]
VModLines(s) == {[is |-> "vmod", section |-> s, name |-> v] : v \in DOMAIN virtualMods}
KeycodesLines ==
  {SectionLine("keycodes")}
  \cup {[is |-> "minimum", code |-> range.min], [is |-> "maximum", code |-> range.max]}
  \cup {[is |-> "keycode", name |-> nameOf[c], code |-> c] : c \in InRange}
  \cup {[is |-> "led", name |-> l, code |-> leds[l].index] : l \in {k \in DOMAIN leds : leds[k].index > 0}}
TypesLines == {SectionLine("types")} \cup VModLines("types") \cup {TypeText(n) : n \in DOMAIN types}
CompatLines ==
  {SectionLine("compat")} \cup VModLines("compat")
  \cup {[is |-> "indicator", name |-> l, mods |-> MaskText(leds[l].mods)] : l \in DOMAIN leds}
SymbolsLines ==
  {SectionLine("symbols")} \cup {[is |-> "group", group |-> i - 1] : i \in NamedGroups}
  \cup {KeyText(c) : c \in WrittenKeys}

LEMMA InRangeFacts ==
  ASSUME IInv
  PROVE  /\ InRange \in SUBSET Nat /\ IsFiniteSet(InRange)
         /\ WrittenKeys \in SUBSET Nat /\ IsFiniteSet(WrittenKeys)
         /\ NamedGroups \in SUBSET Nat /\ IsFiniteSet(NamedGroups)
<1>1. DOMAIN nameOf \subseteq Nat /\ range \in [min : Nat, max : Nat]
  BY ConstantFacts DEF IInv, CodesTyped
<1>2. InRange \in SUBSET Nat /\ \A c \in InRange : c <= range.max
  BY <1>1 DEF InRange
<1>3. IsFiniteSet(InRange)
  BY <1>1, <1>2, FS_BoundedSetOfNaturals
<1>4. WrittenKeys \in SUBSET InRange
  BY DEF WrittenKeys
<1>5. IsFiniteSet(WrittenKeys)
  BY <1>3, <1>4, FS_Subset
<1>6. Len(groupNames) \in Nat /\ DOMAIN groupNames = 1..Len(groupNames)
  BY DEF IInv, SymbolsTyped
<1>7. NamedGroups \in SUBSET Nat /\ \A i \in NamedGroups : i <= Len(groupNames)
  BY <1>6 DEF NamedGroups
<1>8. IsFiniteSet(NamedGroups)
  BY <1>6, <1>7, FS_BoundedSetOfNaturals
<1> QED
  BY <1>2, <1>3, <1>4, <1>5, <1>7, <1>8

LEMMA KeycodesSay ==
  ASSUME IInv, Writable
  PROVE  Says(KeycodesText, KeycodesLines)
<1> DEFINE code(c) == [is |-> "keycode", name |-> nameOf[c], code |-> c]
           led(l) == [is |-> "led", name |-> l, code |-> leds[l].index]
           codesText == EachCode(InRange, code)
           numbered == {l \in DOMAIN leds : leds[l].index > 0}
           ledsText == Each(numbered, led)
           start == <<[is |-> "minimum", code |-> range.min], [is |-> "maximum", code |-> range.max]>>
<1>1. Says(Section("keycodes"), {SectionLine("keycodes")})
  BY OneSays DEF Section, SectionLine
<1>2. Says(start, {[is |-> "minimum", code |-> range.min], [is |-> "maximum", code |-> range.max]})
  BY TwoSay
<1>3. Says(codesText, {code(c) : c \in InRange})
  <2> DEFINE st == [c \in InRange |-> code(c)]
  <2>1. InRange \in SUBSET Nat /\ IsFiniteSet(InRange) /\ \A i \in 1..Cardinality(InRange) : Nth(InRange, i) \in InRange
    BY InRangeFacts, NthFacts
  <2>2. codesText = [i \in 1..Cardinality(InRange) |-> st[Nth(InRange, i)]]
    BY <2>1 DEF EachCode
  <2>3. {st[c] : c \in InRange} = {code(c) : c \in InRange}
    OBVIOUS
  <2> HIDE DEF st, code, codesText
  <2>4. Says(codesText, {st[c] : c \in InRange})
    BY <2>1, <2>2, CodesSay
  <2> QED
    BY <2>3, <2>4
<1>4. Says(ledsText, {led(l) : l \in numbered})
  <2> DEFINE st == [l \in numbered |-> led(l)]
  <2>1. IsFiniteSet(numbered)
    BY FS_Subset DEF Writable
  <2>2. \A i \in 1..Cardinality(numbered) : SetToSeq(numbered)[i] \in numbered
    <3> HIDE DEF numbered
    <3> QED
      BY <2>1, SetToSeqFacts
  <2>3. ledsText = [i \in 1..Cardinality(numbered) |-> st[SetToSeq(numbered)[i]]]
    BY <2>2 DEF Each
  <2>4. {st[l] : l \in numbered} = {led(l) : l \in numbered}
    OBVIOUS
  <2> HIDE DEF st, led, ledsText, numbered
  <2>5. Says(ledsText, {st[l] : l \in numbered})
    BY <2>1, <2>3, NamesSay
  <2> QED
    BY <2>4, <2>5
<1>5. KeycodesText = ((Section("keycodes") \o start) \o codesText) \o ledsText
  BY DEF KeycodesText
<1>6. KeycodesLines = (({SectionLine("keycodes")}
         \cup {[is |-> "minimum", code |-> range.min], [is |-> "maximum", code |-> range.max]})
         \cup {code(c) : c \in InRange}) \cup {led(l) : l \in numbered}
  BY DEF KeycodesLines
<1> HIDE DEF code, led, codesText, ledsText, start, numbered
<1> QED
  BY <1>1, <1>2, <1>3, <1>4, <1>5, <1>6, BothSay

LEMMA VModsSay ==
  ASSUME Writable, NEW s
  PROVE  Says(VModsText(s), VModLines(s))
<1> DEFINE set == DOMAIN virtualMods
           vmod(v) == [is |-> "vmod", section |-> s, name |-> v]
           st == [v \in set |-> vmod(v)]
<1>1. IsFiniteSet(set)
  BY DEF Writable
<1> HIDE DEF set
<1>2. \A i \in 1..Cardinality(set) : SetToSeq(set)[i] \in set
  BY <1>1, SetToSeqFacts
<1>3. VModsText(s) = [i \in 1..Cardinality(set) |-> st[SetToSeq(set)[i]]]
  BY <1>2 DEF VModsText, Each, set
<1>4. {st[v] : v \in set} = VModLines(s)
  BY DEF VModLines, set
<1> HIDE DEF st
<1>5. Says(VModsText(s), {st[v] : v \in set})
  BY <1>1, <1>3, NamesSay
<1> QED
  BY <1>4, <1>5

LEMMA TypesSay ==
  ASSUME Writable
  PROVE  Says(TypesText, TypesLines)
<1> DEFINE set == DOMAIN types
           st == [n \in set |-> TypeText(n)]
           typesText == Each(set, TypeText)
<1>1. IsFiniteSet(set)
  BY DEF Writable
<1>2. \A i \in 1..Cardinality(set) : SetToSeq(set)[i] \in set
  <2> HIDE DEF set
  <2> QED
    BY <1>1, SetToSeqFacts
<1>3. typesText = [i \in 1..Cardinality(set) |-> st[SetToSeq(set)[i]]]
  BY <1>2 DEF Each
<1>4. {st[n] : n \in set} = {TypeText(n) : n \in DOMAIN types}
  OBVIOUS
<1>5. Says(typesText, {st[n] : n \in set})
  <2> HIDE DEF st, set, typesText
  <2> QED
    BY <1>1, <1>3, NamesSay
<1>6. Says(typesText, {TypeText(n) : n \in DOMAIN types})
  BY <1>4, <1>5
<1>7. Says(Section("types"), {SectionLine("types")}) /\ Says(VModsText("types"), VModLines("types"))
  BY OneSays, VModsSay DEF Section, SectionLine
<1>8. TypesText = (Section("types") \o VModsText("types")) \o typesText
  BY DEF TypesText
<1> HIDE DEF typesText
<1> QED
  BY <1>6, <1>7, <1>8, BothSay DEF TypesLines

LEMMA CompatSays ==
  ASSUME Writable
  PROVE  Says(CompatText, CompatLines)
<1> DEFINE set == DOMAIN leds
           line(l) == [is |-> "indicator", name |-> l, mods |-> MaskText(leds[l].mods)]
           st == [l \in set |-> line(l)]
           ledsText == Each(set, line)
<1>1. IsFiniteSet(set)
  BY DEF Writable
<1>2. \A i \in 1..Cardinality(set) : SetToSeq(set)[i] \in set
  <2> HIDE DEF set
  <2> QED
    BY <1>1, SetToSeqFacts
<1>3. ledsText = [i \in 1..Cardinality(set) |-> st[SetToSeq(set)[i]]]
  BY <1>2 DEF Each
<1>4. {st[l] : l \in set} = {line(l) : l \in DOMAIN leds}
  OBVIOUS
<1>5. Says(ledsText, {st[l] : l \in set})
  <2> HIDE DEF st, set, ledsText
  <2> QED
    BY <1>1, <1>3, NamesSay
<1>6. Says(ledsText, {line(l) : l \in DOMAIN leds})
  BY <1>4, <1>5
<1>7. Says(Section("compat"), {SectionLine("compat")}) /\ Says(VModsText("compat"), VModLines("compat"))
  BY OneSays, VModsSay DEF Section, SectionLine
<1>8. CompatText = (Section("compat") \o VModsText("compat")) \o ledsText
  BY DEF CompatText
<1>9. CompatLines = ({SectionLine("compat")} \cup VModLines("compat")) \cup {line(l) : l \in DOMAIN leds}
  BY DEF CompatLines
<1> HIDE DEF ledsText, line
<1> QED
  BY <1>6, <1>7, <1>8, <1>9, BothSay

LEMMA SymbolsSay ==
  ASSUME IInv
  PROVE  Says(SymbolsText, SymbolsLines)
<1> DEFINE line(i) == [is |-> "group", group |-> i - 1]
           groupsText == EachCode(NamedGroups, line)
           keysText == EachCode(WrittenKeys, KeyText)
<1>1. /\ NamedGroups \in SUBSET Nat /\ IsFiniteSet(NamedGroups)
      /\ WrittenKeys \in SUBSET Nat /\ IsFiniteSet(WrittenKeys)
  BY InRangeFacts
<1>2. Says(groupsText, {line(i) : i \in NamedGroups})
  <2> DEFINE st == [i \in NamedGroups |-> line(i)]
  <2>1. \A i \in 1..Cardinality(NamedGroups) : Nth(NamedGroups, i) \in NamedGroups
    BY <1>1, NthFacts
  <2>2. groupsText = [i \in 1..Cardinality(NamedGroups) |-> st[Nth(NamedGroups, i)]]
    BY <2>1 DEF EachCode
  <2>3. {st[i] : i \in NamedGroups} = {line(i) : i \in NamedGroups}
    OBVIOUS
  <2> HIDE DEF st, line, groupsText
  <2>4. Says(groupsText, {st[i] : i \in NamedGroups})
    BY <1>1, <2>2, CodesSay
  <2> QED
    BY <2>3, <2>4
<1>3. Says(keysText, {KeyText(c) : c \in WrittenKeys})
  <2> DEFINE st == [c \in WrittenKeys |-> KeyText(c)]
  <2>1. \A i \in 1..Cardinality(WrittenKeys) : Nth(WrittenKeys, i) \in WrittenKeys
    BY <1>1, NthFacts
  <2>2. keysText = [i \in 1..Cardinality(WrittenKeys) |-> st[Nth(WrittenKeys, i)]]
    BY <2>1 DEF EachCode
  <2>3. {st[c] : c \in WrittenKeys} = {KeyText(c) : c \in WrittenKeys}
    OBVIOUS
  <2> HIDE DEF st, keysText
  <2>4. Says(keysText, {st[c] : c \in WrittenKeys})
    BY <1>1, <2>2, CodesSay
  <2> QED
    BY <2>3, <2>4
<1>4. Says(Section("symbols"), {SectionLine("symbols")})
  BY OneSays DEF Section, SectionLine
<1>5. SymbolsText = (Section("symbols") \o groupsText) \o keysText
  BY DEF SymbolsText
<1>6. SymbolsLines = ({SectionLine("symbols")} \cup {line(i) : i \in NamedGroups}) \cup {KeyText(c) : c \in WrittenKeys}
  BY DEF SymbolsLines
<1> HIDE DEF groupsText, keysText, line
<1> QED
  BY <1>2, <1>3, <1>4, <1>5, <1>6, BothSay

LEMMA LineParts ==
  /\ \A s \in KeycodesLines : PartOf(s) = 1
  /\ \A s \in TypesLines : PartOf(s) = 2
  /\ \A s \in CompatLines : PartOf(s) = 3
  /\ \A s \in SymbolsLines : PartOf(s) = 4
<1>1. ASSUME NEW x
      PROVE  /\ PartOf(SectionLine(x)) = Rank(x)
             /\ \A v : PartOf([is |-> "vmod", section |-> x, name |-> v]) = Rank(x)
  <2>1. SectionLine(x).is = "section" /\ SectionLine(x).section = x
    BY DEF SectionLine
  <2>2. ASSUME NEW v PROVE PartOf([is |-> "vmod", section |-> x, name |-> v]) = Rank(x)
    <3> DEFINE s == [is |-> "vmod", section |-> x, name |-> v]
    <3>1. s.is = "vmod" /\ s.section = x
      OBVIOUS
    <3> HIDE DEF s
    <3> QED
      BY Zenon, <3>1 DEF PartOf, s
  <2>3. PartOf(SectionLine(x)) = Rank(x)
    BY Zenon, <2>1 DEF PartOf
  <2> QED
    BY <2>2, <2>3
<1>2. Rank("keycodes") = 1 /\ Rank("types") = 2 /\ Rank("compat") = 3 /\ Rank("symbols") = 4
  BY DEF Rank
<1>3. ASSUME NEW s \in KeycodesLines PROVE PartOf(s) = 1
  <2>1. s = SectionLine("keycodes") \/ s.is \in {"minimum", "maximum", "keycode", "led"}
    BY DEF KeycodesLines
  <2> QED
    BY Zenon, <1>1, <1>2, <2>1, PartFacts
<1>4. ASSUME NEW s \in TypesLines PROVE PartOf(s) = 2
  <2>1. \/ s = SectionLine("types")
        \/ \E v : s = [is |-> "vmod", section |-> "types", name |-> v]
        \/ \E n : s = TypeText(n)
    BY Zenon DEF TypesLines, VModLines
  <2>2. \A n : TypeText(n).is = "type"
    BY DEF TypeText
  <2> QED
    BY Zenon, <1>1, <1>2, <2>1, <2>2, PartFacts
<1>5. ASSUME NEW s \in CompatLines PROVE PartOf(s) = 3
  <2>1. \/ s = SectionLine("compat")
        \/ \E v : s = [is |-> "vmod", section |-> "compat", name |-> v]
        \/ s.is = "indicator"
    BY DEF CompatLines, VModLines
  <2> QED
    BY Zenon, <1>1, <1>2, <2>1, PartFacts
<1>6. ASSUME NEW s \in SymbolsLines PROVE PartOf(s) = 4
  <2>1. \A c : KeyText(c).is \in {"group", "key", "bad key"}
    BY DEF KeyText
  <2>2. s = SectionLine("symbols") \/ (\E i : s = [is |-> "group", group |-> i - 1]) \/ \E c : s = KeyText(c)
    BY Zenon DEF SymbolsLines
  <2>3. \A i : [is |-> "group", group |-> i - 1].is = "group"
    OBVIOUS
  <2> QED
    BY Zenon, <1>1, <1>2, <2>1, <2>2, <2>3, PartFacts
<1> QED
  BY <1>3, <1>4, <1>5, <1>6

\* All that GetAsString writes.
Lines == KeycodesLines \cup TypesLines \cup CompatLines \cup SymbolsLines

LEMMA TextSays ==
  ASSUME IInv, Writable, NEW t, t = KeycodesText \o TypesText \o CompatText \o SymbolsText
  PROVE  Says(t, Lines) /\ Sorted(t)
<1> DEFINE a == KeycodesText
           b == TypesText
           c == CompatText
           d == SymbolsText
<1>1. Says(a, KeycodesLines) /\ Says(b, TypesLines) /\ Says(c, CompatLines) /\ Says(d, SymbolsLines)
  BY KeycodesSay, TypesSay, CompatSays, SymbolsSay
<1>2. t = ((a \o b) \o c) \o d
  OBVIOUS
<1> HIDE DEF a, b, c, d
<1>3. Sorted(a) /\ Sorted(b) /\ Sorted(c) /\ Sorted(d)
  <2>1. Piece(a, 1) /\ Piece(b, 2) /\ Piece(c, 3) /\ Piece(d, 4)
    BY Zenon, <1>1, LineParts DEF Says, Piece
  <2> QED
    BY <2>1, PieceSorted
<1>4. ASSUME NEW s, NEW u, NEW S, NEW U, Says(s, S), Says(u, U), Sorted(s), Sorted(u),
             \A x \in S, y \in U : PartOf(x) <= PartOf(y)
      PROVE  Sorted(s \o u) /\ Says(s \o u, S \cup U)
  BY <1>4, JoinFacts, BothSay DEF Says
<1>5. Sorted(a \o b) /\ Says(a \o b, KeycodesLines \cup TypesLines)
  <2>1. \A x \in KeycodesLines, y \in TypesLines : PartOf(x) <= PartOf(y)
    BY LineParts
  <2> QED
    BY <1>1, <1>3, <1>4, <2>1
<1>6. Sorted((a \o b) \o c) /\ Says((a \o b) \o c, (KeycodesLines \cup TypesLines) \cup CompatLines)
  <2>1. \A x \in KeycodesLines \cup TypesLines, y \in CompatLines : PartOf(x) <= PartOf(y)
    BY LineParts
  <2> QED
    BY <1>1, <1>3, <1>4, <1>5, <2>1
<1>7. Sorted(((a \o b) \o c) \o d) /\ Says(((a \o b) \o c) \o d, ((KeycodesLines \cup TypesLines) \cup CompatLines) \cup SymbolsLines)
  <2>1. \A x \in (KeycodesLines \cup TypesLines) \cup CompatLines, y \in SymbolsLines : PartOf(x) <= PartOf(y)
    BY LineParts
  <2> QED
    BY <1>1, <1>3, <1>4, <1>6, <2>1
<1> QED
  BY <1>2, <1>7 DEF Lines

(* What is known of the keymap that is written, in terms of its parts.      *)
LEMMA FirstFacts ==
  ASSUME Write
  PROVE  /\ first'.nameOf = nameOf /\ first'.range = range /\ first'.types = types /\ first'.leds = leds
         /\ first'.keys = keys /\ first'.groupNames = groupNames /\ first' # Empty
         /\ Kept' = InRange /\ KeptKeys' = WrittenKeys
<1>1. first' = Keymap
  BY DEF Write
<1>2. /\ first'.nameOf = nameOf /\ first'.range = range /\ first'.types = types /\ first'.leds = leds
      /\ first'.keys = keys /\ first'.groupNames = groupNames
  BY <1>1 DEF Keymap
<1>3. first' # Empty
  <2>1. "nameOf" \in DOMAIN first' /\ DOMAIN Empty = {}
    BY <1>1 DEF Keymap, Empty
  <2> QED
    BY <2>1
<1>4. Kept' = InRange
  BY <1>2 DEF Kept, InRange
<1>5. KeptKeys' = WrittenKeys
  BY <1>2, <1>4 DEF KeptKeys, WrittenKeys
<1> QED
  BY <1>2, <1>3, <1>4, <1>5

LEMMA WriteKnown ==
  ASSUME IInv, Writable, Write
  PROVE  Known'
<1>1. /\ first'.nameOf = nameOf /\ first'.range = range /\ first'.types = types /\ first'.leds = leds
      /\ first'.keys = keys /\ first'.groupNames = groupNames /\ first' # Empty
  BY FirstFacts
<1>2. DOMAIN nameOf \subseteq Nat /\ range \in [min : Nat, max : Nat]
  BY ConstantFacts DEF IInv, CodesTyped
<1>3. \A l \in DOMAIN leds : leds[l].index \in Nat
  <2>1. \A l \in DOMAIN leds : leds[l].index \in LedCodes \cup {0}
    BY DEF IInv, TablesTyped
  <2>2. LedCodes \cup {0} \subseteq Nat
    BY KeymapBuildAssumption
  <2> QED
    BY <2>1, <2>2
<1>4. \A c \in DOMAIN keys : GroupsOK(keys[c].groups)
  BY DEF IInv, SymbolsTyped, KeyOK
<1>5. groupNames \in Seq({Unnamed, "named"})
  BY DEF IInv, SymbolsTyped
<1>6. /\ DOMAIN types \subseteq {t.name : t \in TypeDefs}
      /\ \A n \in DOMAIN types : TypeWritable(types[n])
      /\ Len(groupNames) >= 4
      /\ Len(groupNames) > 4 => groupNames[Len(groupNames)] = "named"
  BY DEF Writable
<1>7. \A c \in DOMAIN first'.keys : GroupsOK(first.keys[c].groups)'
  <2>1. ASSUME NEW c \in DOMAIN keys PROVE GroupsOK(first.keys[c].groups)'
    BY <1>1, <1>4 DEF GroupsOK, GroupOK
  <2> QED
    BY <1>1, <2>1
<1>8. \A n \in DOMAIN first'.types : TypeWritable(first.types[n])'
  <2>1. ASSUME NEW n \in DOMAIN types PROVE TypeWritable(first.types[n])'
    BY <1>1, <1>6 DEF TypeWritable, EntryOK
  <2> QED
    BY <1>1, <2>1
<1> QED
  BY <1>1, <1>2, <1>3, <1>5, <1>6, <1>7, <1>8 DEF Known

(* The kinds of keysyms are different ones.                                 *)
LEMMA ReadsAsCases ==
  ASSUME NEW sym
  PROVE  /\ sym \in DOMAIN Namesakes => ReadsAs(sym) = Namesakes[sym]
         /\ sym \in UnicodeLetters => ReadsAs(sym) = NoSymbol
         /\ sym \in Blanks => ReadsAs(sym) = Blank
         /\ sym \notin DOMAIN Namesakes \cup UnicodeLetters \cup Blanks \cup Garbled => ReadsAs(sym) = sym
<1>1. /\ sym \in DOMAIN Namesakes => sym \notin UnicodeLetters /\ sym \notin Blanks /\ sym \notin Garbled
      /\ sym \in UnicodeLetters => sym \notin Blanks /\ sym \notin Garbled
      /\ sym \in Blanks => sym \notin Garbled
  BY SerializeAssumption
<1>2. CASE sym \in DOMAIN Namesakes
  BY Zenon, <1>1, <1>2 DEF ReadsAs
<1>3. CASE sym \in UnicodeLetters
  BY Zenon, <1>1, <1>3 DEF ReadsAs
<1>4. CASE sym \in Blanks
  BY Zenon, <1>1, <1>4 DEF ReadsAs
<1>5. CASE sym \notin DOMAIN Namesakes \cup UnicodeLetters \cup Blanks
  BY Zenon, <1>5 DEF ReadsAs
<1> QED
  BY <1>2, <1>3, <1>4, <1>5

(* Only the last blank is not read, and nothing else is read as a blank or  *)
(* an error but what makes a list unreadable.                               *)
LEMMA UnreadableSyms ==
  ASSUME NEW syms \in Seq(Entries), Range(AsRead(syms)) \cap {Blank, Unreadable} # {}
  PROVE  ~Listable(syms)
<1> DEFINE n == Len(syms)
<1>1. n \in Nat /\ DOMAIN syms = 1..n /\ Last(syms) = syms[n]
  BY DEF Last
<1>2. PICK i \in 1..ReadLength(syms) : ReadsAs(syms[i]) \in {Blank, Unreadable}
  BY DEF Range, AsRead
<1>3. ReadLength(syms) \in Nat /\ ReadLength(syms) <= n
  BY <1>1 DEF ReadLength
<1>4. i \in 1..n
  BY <1>1, <1>2, <1>3
<1>5. PICK sym : sym = syms[i]
  OBVIOUS
<1>6. sym \in Syms \cup {NoSymbol, AnySym}
  BY <1>1, <1>4, <1>5 DEF Entries
<1>7. /\ Blank \notin Syms \cup {NoSymbol, AnySym} /\ Unreadable \notin Syms \cup {NoSymbol, AnySym}
      /\ Namesakes \in [DOMAIN Namesakes -> Syms] /\ Blank # Unreadable
  BY SerializeAssumption DEF Blank, Unreadable
<1>8. sym \notin DOMAIN Namesakes
  <2>1. ASSUME sym \in DOMAIN Namesakes PROVE FALSE
    <3>1. ReadsAs(sym) = Namesakes[sym] /\ Namesakes[sym] \in Syms
      BY <1>7, <2>1, ReadsAsCases
    <3> QED
      BY <1>2, <1>5, <1>7, <3>1
  <2> QED
    BY <2>1
<1>9. sym \notin UnicodeLetters /\ (sym \in Blanks \/ sym \in Garbled)
  <2>1. NoSymbol \notin {Blank, Unreadable} /\ sym \notin {Blank, Unreadable}
    BY <1>6, <1>7
  <2>2. ReadsAs(sym) # NoSymbol /\ ReadsAs(sym) # sym
    BY <1>2, <1>5, <2>1
  <2> QED
    BY <1>8, <2>2, ReadsAsCases
<1>10. CASE sym \in Garbled
  BY <1>1, <1>4, <1>5, <1>10 DEF Listable
<1>11. CASE sym \in Blanks
  <2>1. ReadsAs(sym) = Blank
    BY <1>11, ReadsAsCases
  <2>2. ASSUME i = n PROVE FALSE
    <3>1. syms # <<>> /\ ReadsAs(Last(syms)) = Blank
      BY <1>1, <1>4, <1>5, <2>1, <2>2
    <3>2. ReadLength(syms) = n - 1
      BY <1>1, <3>1 DEF ReadLength
    <3> QED
      BY <1>1, <1>2, <2>2, <3>2
  <2> QED
    BY <1>1, <1>4, <1>5, <1>11, <2>2 DEF Listable
<1> QED
  BY <1>9, <1>10, <1>11

LEMMA UnreadableGroup ==
  ASSUME NEW groups, GroupsOK(groups), NEW lists, lists = BodyText(groups).lists,
         \E g \in DOMAIN lists : Range(lists[g]) \cap {Blank, Unreadable} # {}
  PROVE  \E g \in DOMAIN groups : ~Listable(groups[g].syms)
<1> DEFINE n == Len(groups)
<1>1. groups \in Seq(Range(groups)) /\ \A g \in DOMAIN groups : GroupOK(groups[g])
  BY DEF GroupsOK
<1>2. n \in Nat /\ DOMAIN groups = 1..n
  BY <1>1
<1> HIDE DEF n
<1>3. lists = [g \in 0..(n - 1) |-> AsRead(groups[g + 1].syms)]
  BY DEF BodyText, n
<1>4. PICK g \in 0..(n - 1) : Range(lists[g]) \cap {Blank, Unreadable} # {}
  BY <1>3
<1>5. PICK k \in 1..n : k = g + 1
  BY <1>2
<1>6. lists[g] = AsRead(groups[k].syms)
  BY <1>3, <1>4, <1>5
<1>7. groups[k].syms \in Seq(Entries)
  BY <1>1, <1>2 DEF GroupOK
<1> QED
  BY <1>2, <1>4, <1>6, <1>7, UnreadableSyms

(* A key whose statement does not parse has a list that cannot be written.  *)
LEMMA BadKeyText ==
  ASSUME IInv, Write, NEW c \in WrittenKeys, KeyText(c).is = "bad key"
  PROVE  ~Readable'
<1> DEFINE groups == keys[c].groups
           lists == BodyText(groups).lists
<1>1. GroupsOK(groups)
  BY DEF WrittenKeys, IInv, SymbolsTyped, KeyOK
<1>2. \E g \in DOMAIN lists : Range(lists[g]) \cap {Blank, Unreadable} # {}
  BY DEF KeyText
<1> HIDE DEF groups
<1>3. \E g \in DOMAIN groups : ~Listable(groups[g].syms)
  BY <1>1, <1>2, UnreadableGroup
<1>4. c \in KeptKeys' /\ first'.keys[c].groups = groups
  BY FirstFacts DEF groups
<1>5. \E g \in DOMAIN first'.keys[c].groups : ~Listable(first'.keys[c].groups[g].syms)
  BY <1>3, <1>4
<1> QED
  BY <1>4, <1>5 DEF Readable, Listable

LEMMA TypeTextFacts ==
  ASSUME Writable, NEW n \in DOMAIN types
  PROVE  TypeText(n).type.name = n /\ Writes(TypeText(n).type, types[n])
<1> DEFINE w == Written(types[n].entries)
           t == TypeText(n).type
           entry(i) == [mods |-> MaskText(w[i].mods), level |-> (w[i].level + 1) % 256]
<1>1. /\ t.name = n /\ t.mods = MaskText(types[n].mods) /\ t.named = {}
      /\ t.entries = [i \in DOMAIN w |-> entry(i)]
  BY DEF TypeText
<1> HIDE DEF w, t
<1>2. \A i \in DOMAIN w : t.entries[i].mods = MaskText(w[i].mods) /\ t.entries[i].level = (w[i].level + 1) % 256
  BY <1>1
<1>3. DOMAIN t.entries = DOMAIN w
  BY <1>1
<1>4. \A i \in DOMAIN w : Spells(t.entries[i].mods, w[i].mods)
  BY <1>2, MaskWritten
<1>5. Spells(t.mods, types[n].mods)
  BY <1>1, MaskWritten
<1>6. Writes(t, types[n])
  BY Zenon, <1>1, <1>2, <1>3, <1>4, <1>5 DEF Writes, w
<1> QED
  BY <1>1, <1>6 DEF t

(* Every line of the text is rightful.                                      *)
LEMMA KeycodesRightful ==
  ASSUME Write, NEW s \in KeycodesLines
  PROVE  Rightful(s)'
<1>1. /\ first'.nameOf = nameOf /\ first'.range = range /\ first'.leds = leds /\ Kept' = InRange
  BY FirstFacts
<1>2. CASE s = SectionLine("keycodes")
  <2>1. s.is = "section" /\ s.section \in Sections
    BY <1>2 DEF SectionLine, Sections
  <2> QED
    BY Zenon, <2>1 DEF Rightful
<1>3. CASE s = [is |-> "minimum", code |-> range.min]
  <2>1. s.is = "minimum" /\ s.code = range.min
    BY <1>3
  <2> QED
    BY Zenon, <1>1, <2>1 DEF Rightful
<1>4. CASE s = [is |-> "maximum", code |-> range.max]
  <2>1. s.is = "maximum" /\ s.code = range.max
    BY <1>4
  <2> QED
    BY Zenon, <1>1, <2>1 DEF Rightful
<1>5. ASSUME NEW c \in InRange, s = [is |-> "keycode", name |-> nameOf[c], code |-> c]
      PROVE  Rightful(s)'
  <2>1. s.is = "keycode" /\ s.code = c /\ s.name = nameOf[c]
    BY <1>5
  <2> QED
    BY Zenon, <1>1, <2>1 DEF Rightful
<1>6. ASSUME NEW l \in DOMAIN leds, s = [is |-> "led", name |-> l, code |-> leds[l].index]
      PROVE  Rightful(s)'
  <2>1. s.is = "led" /\ s.name = l /\ s.code = leds[l].index
    BY <1>6
  <2> QED
    BY Zenon, <1>1, <2>1 DEF Rightful
<1> QED
  BY Zenon, <1>2, <1>3, <1>4, <1>5, <1>6 DEF KeycodesLines

LEMMA TablesRightful ==
  ASSUME Writable, Write, NEW s \in TypesLines \cup CompatLines
  PROVE  Rightful(s)'
<1>1. first'.types = types /\ first'.leds = leds
  BY FirstFacts
<1>2. ASSUME NEW x \in Sections, s = SectionLine(x)
      PROVE  Rightful(s)'
  <2>1. s.is = "section" /\ s.section \in Sections
    BY <1>2 DEF SectionLine
  <2> QED
    BY Zenon, <2>1 DEF Rightful
<1>3. ASSUME NEW x, s \in VModLines(x)
      PROVE  Rightful(s)'
  <2>1. s.is = "vmod"
    BY <1>3 DEF VModLines
  <2> QED
    BY Zenon, <2>1 DEF Rightful
<1>4. ASSUME NEW n \in DOMAIN types, s = TypeText(n)
      PROVE  Rightful(s)'
  <2>1. s.is = "type" /\ s.type.name = n /\ Writes(s.type, types[n])
    BY <1>4, TypeTextFacts DEF TypeText
  <2> QED
    BY Zenon, <1>1, <2>1 DEF Rightful
<1>5. ASSUME NEW l \in DOMAIN leds, s = [is |-> "indicator", name |-> l, mods |-> MaskText(leds[l].mods)]
      PROVE  Rightful(s)'
  <2>1. s.is = "indicator" /\ s.name = l /\ Spells(s.mods, leds[l].mods)
    BY <1>5, MaskWritten
  <2> QED
    BY Zenon, <1>1, <2>1 DEF Rightful
<1>6. "types" \in Sections /\ "compat" \in Sections
  BY DEF Sections
<1> QED
  BY Zenon, <1>2, <1>3, <1>4, <1>5, <1>6 DEF TypesLines, CompatLines

LEMMA SymbolsRightful ==
  ASSUME IInv, Write, NEW s \in SymbolsLines
  PROVE  Rightful(s)'
<1>1. /\ first'.nameOf = nameOf /\ first'.keys = keys /\ first'.groupNames = groupNames /\ KeptKeys' = WrittenKeys
  BY FirstFacts
<1>2. CASE s = SectionLine("symbols")
  <2>1. s.is = "section" /\ s.section \in Sections
    BY <1>2 DEF SectionLine, Sections
  <2> QED
    BY Zenon, <2>1 DEF Rightful
<1>3. ASSUME NEW i \in NamedGroups, s = [is |-> "group", group |-> i - 1]
      PROVE  Rightful(s)'
  <2>1. groupNames \in Seq({Unnamed, "named"})
    BY DEF IInv, SymbolsTyped
  <2>2. i \in DOMAIN groupNames /\ groupNames[i] = "named" /\ i \in Nat /\ i >= 1
    BY <2>1 DEF NamedGroups
  <2>3. i - 1 \in Nat /\ (i - 1) + 1 = i
    BY <2>2
  <2>4. s.is = "group" /\ s.group = i - 1
    BY <1>3
  <2> QED
    BY Zenon, <1>1, <2>2, <2>3, <2>4 DEF Rightful
<1>4. ASSUME NEW c \in WrittenKeys, s = KeyText(c), s.is = "key"
      PROVE  Rightful(s)'
  <2>1. s.name = nameOf[c] /\ s.body = BodyText(keys[c].groups)
    BY <1>4 DEF KeyText
  <2> QED
    BY Zenon, <1>1, <1>4, <2>1 DEF Rightful
<1>5. ASSUME NEW c \in WrittenKeys, s = KeyText(c), s.is = "bad key"
      PROVE  Rightful(s)'
  BY Zenon, <1>5, BadKeyText DEF Rightful
<1>6. \A c : KeyText(c).is = "key" \/ KeyText(c).is = "bad key"
  BY DEF KeyText
<1> QED
  BY Zenon, <1>2, <1>3, <1>4, <1>5, <1>6 DEF SymbolsLines

(* Nothing is read yet, and everything is still to come.                    *)
LEMMA WriteBack ==
  ASSUME IInv, Writable, Write
  PROVE  Back' /\ ~failed'
<1>1. /\ first'.nameOf = nameOf /\ first'.range = range /\ first'.types = types /\ first'.leds = leds
      /\ first'.keys = keys /\ first'.groupNames = groupNames
      /\ Kept' = InRange /\ KeptKeys' = WrittenKeys
  BY FirstFacts
<1>2. /\ section' = "none" /\ saw' = {} /\ nameOf' = Empty /\ codeOf' = Empty /\ range' = [min |-> 8, max |-> 255]
      /\ types' = Empty /\ leds' = Empty /\ keys' = Empty /\ numGroups' = 1 /\ groupOffset' = 0
      /\ groupNames' = <<Unnamed, Unnamed, Unnamed, Unnamed>> /\ failed' = FALSE /\ done' = FALSE
  BY DEF Write
<1>3. text' = KeycodesText \o TypesText \o CompatText \o SymbolsText
  BY DEF Write
<1>4. PICK t : t = KeycodesText \o TypesText \o CompatText \o SymbolsText
  OBVIOUS
<1>5. text' = t /\ t \in Seq(Range(t)) /\ Range(t) = Lines /\ Sorted(t)
  BY <1>3, <1>4, TextSays DEF Says
<1>6. Awaited' = Lines
  BY <1>5 DEF Awaited
<1>7. DOMAIN Empty = {}
  BY DEF Empty
<1>8. InOrder'
  <2>1. ASSUME NEW s \in Lines PROVE Rightful(s)'
    BY KeycodesRightful, TablesRightful, SymbolsRightful DEF Lines
  <2>2. Sorted(text)'
    BY <1>5 DEF Sorted
  <2> QED
    BY <1>5, <1>6, <2>1, <2>2 DEF InOrder
<1>9. ControlBack'
  <2>1. ASSUME NEW x \in Sections PROVE \E s \in Lines : s.is = "section" /\ s.section = x
    <3>1. SectionLine(x).is = "section" /\ SectionLine(x).section = x
      BY DEF SectionLine
    <3>2. SectionLine(x) \in Lines
      BY DEF Sections, Lines, KeycodesLines, TypesLines, CompatLines, SymbolsLines
    <3> QED
      BY <3>1, <3>2
  <2> QED
    BY <1>2, <1>6, <2>1 DEF ControlBack
<1>10. RangeBack'
  <2> DEFINE a == [is |-> "minimum", code |-> range.min]
             b == [is |-> "maximum", code |-> range.max]
  <2>1. a \in Lines /\ b \in Lines /\ a.is = "minimum" /\ b.is = "maximum"
    BY DEF Lines, KeycodesLines
  <2>2. Awaits("minimum")' /\ Awaits("maximum")'
    BY Zenon, <1>6, <2>1 DEF Awaits
  <2> QED
    BY <1>2, <2>2 DEF RangeBack
<1>11. NamesBack'
  <2>1. ASSUME NEW c \in InRange PROVE \E s \in Lines : s.is = "keycode" /\ s.code = c
    <3> DEFINE s == [is |-> "keycode", name |-> nameOf[c], code |-> c]
    <3>1. s \in Lines /\ s.is = "keycode" /\ s.code = c
      BY DEF Lines, KeycodesLines
    <3> QED
      BY Zenon, <3>1
  <2> QED
    BY <1>1, <1>2, <1>6, <1>7, <2>1 DEF NamesBack
<1>12. TypesBack'
  <2>1. ASSUME NEW n \in DOMAIN types PROVE \E s \in Lines : s.is = "type" /\ s.type.name = n
    <3>1. TypeText(n) \in Lines
      BY Zenon DEF Lines, TypesLines
    <3>2. TypeText(n).is = "type" /\ TypeText(n).type.name = n
      BY DEF TypeText
    <3> QED
      BY Zenon, <3>1, <3>2
  <2> QED
    BY <1>1, <1>2, <1>6, <1>7, <2>1 DEF TypesBack
<1>13. LedsBack'
  <2>1. ASSUME NEW l \in DOMAIN leds, leds[l].index > 0 PROVE \E s \in Lines : s.is = "led" /\ s.name = l
    <3> DEFINE s == [is |-> "led", name |-> l, code |-> leds[l].index]
    <3>1. s \in Lines /\ s.is = "led" /\ s.name = l
      BY <2>1 DEF Lines, KeycodesLines
    <3> QED
      BY Zenon, <3>1
  <2>2. ASSUME NEW l \in DOMAIN leds PROVE \E s \in Lines : s.is = "indicator" /\ s.name = l
    <3> DEFINE s == [is |-> "indicator", name |-> l, mods |-> MaskText(leds[l].mods)]
    <3>1. s \in Lines /\ s.is = "indicator" /\ s.name = l
      BY DEF Lines, CompatLines
    <3> QED
      BY Zenon, <3>1
  <2> QED
    BY <1>1, <1>2, <1>6, <1>7, <2>1, <2>2 DEF LedsBack
<1>14. GroupsBack'
  <2>1. ASSUME NEW i \in NamedGroups PROVE \E s \in Lines : s.is = "group" /\ s.group = i - 1
    <3> DEFINE s == [is |-> "group", group |-> i - 1]
    <3>1. s \in Lines /\ s.is = "group" /\ s.group = i - 1
      BY DEF Lines, SymbolsLines
    <3> QED
      BY Zenon, <3>1
  <2>2. \A i \in DOMAIN groupNames : groupNames[i] = Unnamed \/ i \in NamedGroups
    BY DEF NamedGroups
  <2>3. groupNames' \in Seq({Unnamed, "named"}) /\ Len(groupNames') = 4 /\ \A i \in DOMAIN groupNames' : groupNames'[i] = Unnamed
    BY <1>2
  <2> QED
    BY <1>1, <1>2, <1>6, <2>1, <2>2, <2>3 DEF GroupsBack
<1>15. KeysBack'
  <2>1. ASSUME NEW c \in WrittenKeys PROVE \E s \in Lines : s.is \in {"key", "bad key"} /\ s.name = nameOf[c]
    <3>1. KeyText(c) \in Lines
      BY Zenon DEF Lines, SymbolsLines
    <3>2. KeyText(c).is \in {"key", "bad key"} /\ KeyText(c).name = nameOf[c]
      BY DEF KeyText
    <3> QED
      BY Zenon, <3>1, <3>2
  <2> QED
    BY <1>1, <1>2, <1>6, <1>7, <2>1 DEF KeysBack
<1> QED
  BY <1>2, <1>8, <1>9, <1>10, <1>11, <1>12, <1>13, <1>14, <1>15 DEF Back

-----------------------------------------------------------------------------
(* The invariant of a keymap that is written and read again.                *)

LEMMA SInvInit == SInit => SInv
<1> SUFFICES ASSUME SInit PROVE SInv
  OBVIOUS
<1>1. IInv /\ Writable /\ first = Empty /\ text = <<>>
  BY InitInv, WritableInit DEF SInit
<1> QED
  BY <1>1 DEF SInv

(* A step of the second text leaves the keymap that was written.            *)
LEMMA SameFirst ==
  ASSUME first' = first
  PROVE  /\ Known => Known'
         /\ OneToOne' <=> OneToOne
         /\ Readable' <=> Readable
<1>1. Kept' = Kept /\ KeptKeys' = KeptKeys
  BY DEF Kept, KeptKeys
<1>2. OneToOne' <=> OneToOne
  BY <1>1 DEF OneToOne
<1>3. Readable' <=> Readable
  BY <1>1 DEF Readable
<1>4. ASSUME Known PROVE Known'
  <2>1. \A c \in DOMAIN first'.keys : GroupsOK(first.keys[c].groups)'
    BY <1>4 DEF Known, GroupsOK, GroupOK
  <2>2. \A n \in DOMAIN first'.types : TypeWritable(first.types[n])'
    BY <1>4 DEF Known, TypeWritable, EntryOK
  <2> QED
    BY <1>4, <2>1, <2>2 DEF Known
<1> QED
  BY <1>2, <1>3, <1>4

LEMMA BackStutters == Back /\ UNCHANGED allVars => Back'
<1> SUFFICES ASSUME Back, UNCHANGED allVars PROVE Back'
  OBVIOUS
<1>1. /\ first' = first /\ text' = text /\ UNCHANGED <<section, saw, done>>
      /\ UNCHANGED <<nameOf, codeOf, range, types, leds, keys, numGroups, groupNames, groupOffset>>
  BY DEF allVars, vars, codes, modifiers, symbols
<1>2. Awaited' = Awaited /\ \A kind : Awaits(kind)' <=> Awaits(kind)
  BY <1>1 DEF Awaited, Awaits, Range
<1>3. Kept' = Kept /\ KeptKeys' = KeptKeys
  BY <1>1 DEF Kept, KeptKeys
<1>4. InOrder'
  <2>1. ASSUME NEW s \in Awaited PROVE Rightful(s)'
    BY <1>1, StaysRightful DEF Back, InOrder
  <2>2. Sorted(text)'
    BY <1>1 DEF Back, InOrder, Sorted
  <2> QED
    BY <1>1, <1>2, <2>1, <2>2 DEF Back, InOrder
<1>5. ControlBack' /\ RangeBack' /\ GroupsBack'
  BY <1>1, <1>2 DEF Back, ControlBack, RangeBack, GroupsBack
<1>6. NamesBack'
  BY <1>1, <1>2, <1>3 DEF Back, NamesBack
<1>7. TypesBack'
  BY <1>1, <1>2 DEF Back, TypesBack
<1>8. LedsBack'
  BY <1>1, <1>2 DEF Back, LedsBack
<1>9. KeysBack'
  <2>1. ASSUME NEW c \in DOMAIN keys PROVE KeyBack(keys[c].groups, first.keys[c].groups)'
    <3>1. KeyBack(keys[c].groups, first.keys[c].groups)
      BY DEF Back, KeysBack
    <3>2. keys'[c].groups = keys[c].groups /\ first'.keys[c].groups = first.keys[c].groups /\ types' = types
      BY <1>1
    <3> QED
      BY <3>1, <3>2 DEF KeyBack
  <2> QED
    BY <1>1, <1>2, <1>3, <2>1 DEF Back, KeysBack
<1> QED
  BY <1>4, <1>5, <1>6, <1>7, <1>8, <1>9 DEF Back

LEMMA SInvStep == SInv /\ [SNext]_allVars => SInv'
<1> SUFFICES ASSUME SInv, [SNext]_allVars PROVE SInv'
  OBVIOUS
<1>1. CASE FirstText
  <2>1. first = Empty /\ first' = Empty /\ text' = text /\ IInv /\ Writable /\ text = <<>> /\ Next
    BY <1>1 DEF FirstText, SInv
  <2>2. IInv' /\ Writable'
    BY <2>1, StepInv, WritableStep
  <2> QED
    BY <2>1, <2>2 DEF SInv
<1>2. CASE Write
  <2>1. IInv /\ Writable
    BY <1>2 DEF Write, SInv
  <2>2. Known' /\ Back' /\ ~failed' /\ first' # Empty
    BY <1>2, <2>1, WriteKnown, WriteBack, FirstFacts
  <2>3. first' = Empty => IInv' /\ Writable' /\ text' = <<>>
    BY <2>2
  <2> QED
    BY <2>2, <2>3 DEF SInv
<1>3. ASSUME first # Empty, first' = first,
             OneToOne /\ Readable => ~failed',
             OneToOne /\ ~failed' => Back'
      PROVE  SInv'
  BY <1>3, SameFirst DEF SInv
<1>4. CASE ReadStatement
  <2>1. first # Empty /\ first' = first /\ Known
    BY <1>4 DEF ReadStatement, SInv
  <2>2. ~failed' => ~failed
    <3>1. PICK h : h = Head(text)
      OBVIOUS
    <3>2. Reads(h)
      BY <1>4, <3>1 DEF ReadStatement
    <3> QED
      BY <3>2, OnlyBadKeysFail
  <2>3. OneToOne /\ ~failed => Back
    BY <2>1 DEF SInv
  <2>4. OneToOne /\ ~failed' => Back'
    BY <1>4, <2>1, <2>2, <2>3, StatementRead
  <2>5. OneToOne /\ Readable => ~failed'
    BY <1>4, <2>1, <2>3, StatementRead DEF SInv
  <2> QED
    BY <1>3, <2>1, <2>4, <2>5
<1>5. CASE EndOfText
  <2>1. first # Empty /\ first' = first /\ Known /\ (failed => failed')
    BY <1>5 DEF EndOfText, Finish, SInv
  <2>2. OneToOne /\ ~failed => Back' /\ ~failed'
    BY <1>5, <2>1, EndRead DEF SInv
  <2>3. OneToOne /\ Readable => ~failed
    BY <2>1 DEF SInv
  <2> QED
    BY <1>3, <2>1, <2>2, <2>3
<1>6. CASE UNCHANGED allVars
  <2>1. first' = first /\ text' = text /\ failed' = failed /\ UNCHANGED vars
    BY <1>6 DEF allVars, vars
  <2>2. CASE first = Empty
    <3>1. IInv'
      BY <2>1, <2>2, StepInv DEF SInv
    <3>2. Writable'
      <4>1. UNCHANGED <<types, leds, virtualMods, groupNames>>
        BY <2>1 DEF vars, modifiers, symbols
      <4> QED
        BY <2>2, <4>1 DEF SInv, Writable, TypeWritable, EntryOK
    <3> QED
      BY <2>1, <2>2, <3>1, <3>2 DEF SInv
  <2>3. CASE first # Empty
    BY <1>3, <1>6, <2>1, <2>3, BackStutters DEF SInv
  <2> QED
    BY <2>2, <2>3
<1> QED
  BY <1>1, <1>2, <1>4, <1>5, <1>6 DEF SNext

(* A keymap whose keycodes have different names, and whose lists have no    *)
(* keysym that is written as an error, nor as a blank before the end, is    *)
(* read without an error from the text that GetAsString writes of it; and   *)
(* whenever such a text is read without one, every keycode, keysym, group   *)
(* name, key type and indicator is what it was, except for what cannot be   *)
(* written ("The returned string can be passed to NewKeymapFromString"):    *)
(* each keysym is the one that its name or its rune is read as.             *)
THEOREM RoundTrips == SSpec => []RoundTrip
<1>1. SSpec => []SInv
  BY SInvInit, SInvStep, PTL DEF SSpec
<1> QED
  BY <1>1, AllBack, PTL
=============================================================================

------------------------------ MODULE KeyState ------------------------------
(***************************************************************************)
(* The keyboard state (state.go): the modifier and group components that   *)
(* a compositor's wl_keyboard.modifiers events set through UpdateMask, and *)
(* the queries that translate keycodes under them.                         *)
(*                                                                         *)
(* A ModMask is the set of its bits; indices of groups and levels are      *)
(* 0-based numbers as in the code, and a Go slice is a sequence.           *)
(***************************************************************************)
EXTENDS Naturals, Sequences, FiniteSetsExt

CONSTANTS
  Mods,         \* the modifier bits
  Keysyms,      \* the keysyms
  LEDNames,     \* the names of LEDs
  GroupSize,    \* how many values the type Group has (uint8: 256)
  MaskInputs,   \* the masks an event may carry
  GroupInputs,  \* the groups an event may carry
  Keymaps,      \* the compiled keymaps a state may be made for
  NoType        \* a nil *KeyType

Groups == 0..(GroupSize - 1)

\* KeyType, KeyGroup and LED, as far as a state reads them.
KeyTypes == [mods : SUBSET Mods, entries : Seq([mods : SUBSET Mods, level : Nat])]
KeyGroups == [type : KeyTypes \cup {NoType}, levels : Seq(Seq(Keysyms))]
LEDs == [mods : SUBSET Mods, group : Groups]

\* A keymap has a number of groups, LEDs by name, and keys by keycode, each
\* with as many groups and levels as it pleases.
ASSUME KeyStateAssumption ==
  /\ GroupSize \in Nat \ {0}
  /\ MaskInputs \subseteq SUBSET Mods
  /\ GroupInputs \subseteq Groups
  /\ NoType \notin KeyTypes
  /\ \A km \in Keymaps :
       /\ km.numGroups \in Nat
       /\ DOMAIN km.leds \subseteq LEDNames
       /\ \A name \in DOMAIN km.leds : km.leds[name] \in LEDs
       /\ \A c \in DOMAIN km.keys : km.keys[c] \in Seq(KeyGroups)

VARIABLES
  keymap,       \* State.keymap
  mods,         \* State.baseMods, latchedMods, lockedMods
  groups,       \* State.baseGroup, latchedGroup, lockedGroup
  shown         \* what a client displays that reads the state again only
                \* for the parts UpdateMask reports

vars == <<keymap, mods, groups, shown>>

Parts == {"Depressed", "Latched", "Locked"}
ModBit == [p \in Parts |-> CASE p = "Depressed" -> "ModDepressed"
                             [] p = "Latched"   -> "ModLatched"
                             [] p = "Locked"    -> "ModLocked"]
GroupBit == [p \in Parts |-> CASE p = "Depressed" -> "GroupDepressed"
                               [] p = "Latched"   -> "GroupLatched"
                               [] p = "Locked"    -> "GroupLocked"]

-----------------------------------------------------------------------------
(* Queries.  Those that Next and the properties need take the state they    *)
(* look at as arguments: km is a keymap, m and g are values of mods and     *)
(* groups.                                                                  *)

\* State.effectiveMods.
EffectiveMods(m) == m["Depressed"] \cup m["Latched"] \cup m["Locked"]

\* State.effectiveGroup: the sum is an int, the result a Group.
Sum3(g) == g["Depressed"] + g["Latched"] + g["Locked"]
EffectiveGroup(km, g) ==
  IF km.numGroups = 0 THEN 0 ELSE (Sum3(g) % km.numGroups) % GroupSize

\* A fault of GetLevel: modifiers that the type does not know count.
GetLevelUnmasked(type, m) ==
  LET hits == {i \in DOMAIN type.entries : type.entries[i].mods = EffectiveMods(m)}
  IN IF hits = {} THEN 0 ELSE type.entries[Min(hits)].level

\* State.getLevel: the first entry that matches the modifiers the type knows.
GetLevel(type, m) ==
  LET hits == {i \in DOMAIN type.entries :
                 type.entries[i].mods = EffectiveMods(m) \cap type.mods}
  IN IF hits = {} THEN 0 ELSE type.entries[Min(hits)].level

\* A fault of KeyGroupIndex: the keymap's groups are taken for the key's.
KeyGroupIndexUnwrapped(km, g, n) == EffectiveGroup(km, g)

\* The group of KeyGetSyms that a key with n groups uses.
KeyGroupIndex(km, g, n) ==
  LET eff == EffectiveGroup(km, g) IN IF eff >= n THEN eff % n ELSE eff

\* The level of KeyGetSyms within a group of n levels.
KeyLevelIndex(type, m, n) ==
  LET level == GetLevel(type, m) IN IF level >= n THEN 0 ELSE level

\* State.KeyGetSyms; nil is the empty sequence.
KeyGetSyms(km, m, g, c) ==
  IF c \notin DOMAIN km.keys \/ km.keys[c] = <<>> THEN <<>>
  ELSE LET kg == km.keys[c][KeyGroupIndex(km, g, Len(km.keys[c])) + 1]
       IN IF kg.type = NoType \/ kg.levels = <<>> THEN <<>>
          ELSE kg.levels[KeyLevelIndex(kg.type, m, Len(kg.levels)) + 1]

\* State.SerializeMods and ModIndexIsActive; typ is a set of components.
SerializeMods(m, typ) ==
  {b \in Mods : \/ \E p \in Parts : ModBit[p] \in typ /\ b \in m[p]
                \/ "ModEffective" \in typ /\ b \in EffectiveMods(m)}
ModIndexIsActive(b, m, typ) == b \in SerializeMods(m, typ)

\* A fault of SerializeGroup: the sum of components does not wrap.
SerializeGroupUnwrapped(km, g, typ) ==
  LET Part(p) == IF GroupBit[p] \in typ THEN g[p] ELSE 0
      sum == Part("Depressed") + Part("Latched") + Part("Locked")
  IN IF "GroupEffective" \in typ THEN EffectiveGroup(km, g) ELSE sum % GroupSize

\* State.SerializeGroup.
SerializeGroup(km, g, typ) ==
  LET Part(p) == IF GroupBit[p] \in typ THEN g[p] ELSE 0
      sum == Part("Depressed") + Part("Latched") + Part("Locked")
  IN IF "GroupEffective" \in typ THEN EffectiveGroup(km, g)
     ELSE IF km.numGroups > 0 THEN (sum % km.numGroups) % GroupSize
     ELSE sum % GroupSize

\* State.LEDNameIsActive.
LEDNameIsActive(km, m, g, name) ==
  /\ name \in DOMAIN km.leds
  /\ \/ km.leds[name].mods \cap EffectiveMods(m) # {}
     \/ km.leds[name].group # 0 /\ EffectiveGroup(km, g) = km.leds[name].group

LitLEDs(km, m, g) == {name \in DOMAIN km.leds : LEDNameIsActive(km, m, g, name)}

-----------------------------------------------------------------------------

\* Keymap.NewState, and the client's first look at it.
Init ==
  /\ keymap \in Keymaps
  /\ mods = [p \in Parts |-> {}]
  /\ groups = [p \in Parts |-> 0]
  /\ shown = [mods |-> {}, group |-> 0, leds |-> LitLEDs(keymap, mods, groups)]

\* A fault of ChangedBy: a locked modifier is not seen to be effective.
ChangedByPressed(m, g) ==
  LET modBits == {ModBit[p] : p \in {q \in Parts : mods[q] # m[q]}}
      groupBits == {GroupBit[p] : p \in {q \in Parts : groups[q] # g[q]}}
  IN modBits \cup groupBits
     \cup (IF modBits \ {"ModLocked"} # {} THEN {"ModEffective"} ELSE {})
     \cup (IF groupBits # {} THEN {"GroupEffective"} ELSE {})

\* What UpdateMask reports when it sets the components to m and g.
ChangedBy(m, g) ==
  LET modBits == {ModBit[p] : p \in {q \in Parts : mods[q] # m[q]}}
      groupBits == {GroupBit[p] : p \in {q \in Parts : groups[q] # g[q]}}
  IN modBits \cup groupBits
     \cup (IF modBits # {} THEN {"ModEffective"} ELSE {})
     \cup (IF groupBits # {} THEN {"GroupEffective"} ELSE {})

\* A client that reads the state again for the reported parts only, and lights
\* its LEDs again when anything effective is reported: StateLEDs never is.
Refresh(report) ==
  shown' = [mods |-> IF "ModEffective" \in report THEN EffectiveMods(mods') ELSE shown.mods,
            group |-> IF "GroupEffective" \in report THEN EffectiveGroup(keymap, groups')
                      ELSE shown.group,
            leds |-> IF report \cap {"ModEffective", "GroupEffective"} # {} THEN LitLEDs(keymap, mods', groups')
                     ELSE shown.leds]

\* A fault of UpdateMask: the event's groups are taken for increments.
UpdateMaskAdds(m, g) ==
  /\ mods' = m
  /\ groups' = [p \in Parts |-> groups[p] + g[p]]
  /\ Refresh(ChangedBy(m, g))
  /\ UNCHANGED keymap

\* State.UpdateMask.
UpdateMask(m, g) ==
  /\ mods' = m
  /\ groups' = g
  /\ Refresh(ChangedBy(m, g))
  /\ UNCHANGED keymap

\* State.UpdateKey is a stub: it changes nothing and reports nothing.
UpdateKey ==
  /\ Refresh({})
  /\ UNCHANGED <<keymap, mods, groups>>

Next ==
  \/ \E m \in [Parts -> MaskInputs], g \in [Parts -> GroupInputs] : UpdateMask(m, g)
  \/ UpdateKey

Spec == Init /\ [][Next]_vars

-----------------------------------------------------------------------------
(* Properties.                                                              *)

\* Every variable holds a value of its Go type.
TypeOK ==
  /\ keymap \in Keymaps
  /\ mods \in [Parts -> SUBSET Mods]
  /\ groups \in [Parts -> Groups]
  /\ shown.mods \subseteq Mods
  /\ shown.group \in Groups
  /\ shown.leds \subseteq DOMAIN keymap.leds

\* No slice access of KeyGetSyms leaves its slice, whatever the keymap: a key
\* may have fewer groups than the keymap and fewer levels than its type names.
TranslationInRange ==
  \A c \in DOMAIN keymap.keys :
    LET n == Len(keymap.keys[c])
        gi == KeyGroupIndex(keymap, groups, n)
    IN n > 0 =>
         /\ gi \in 0..(n - 1)
         /\ LET kg == keymap.keys[c][gi + 1]
            IN kg.type # NoType /\ kg.levels # <<>> =>
                 KeyLevelIndex(kg.type, mods, Len(kg.levels)) \in 0..(Len(kg.levels) - 1)

\* A client that reads the effective modifiers and the effective group again
\* only when UpdateMask reports them, and the LEDs when it reports either, is
\* never out of date (UpdateMask: "Returns a bitmask of StateComponent flags
\* indicating what changed").
ShownIsCurrent ==
  /\ shown.leds = LitLEDs(keymap, mods, groups)
  /\ shown.mods = EffectiveMods(mods)
  /\ shown.group = EffectiveGroup(keymap, groups)

\* The three component queries together say what the effective query says,
\* for every keymap that has a group.
ComponentsAddUp ==
  /\ \A b \in Mods :
       ModIndexIsActive(b, mods, {"ModDepressed", "ModLatched", "ModLocked"})
         <=> ModIndexIsActive(b, mods, {"ModEffective"})
  /\ keymap.numGroups > 0 =>
       SerializeGroup(keymap, groups, {"GroupDepressed", "GroupLatched", "GroupLocked"})
         = SerializeGroup(keymap, groups, {"GroupEffective"})

\* A key changes what it produces only when the effective group changes or a
\* modifier that the key's type knows does: moving a modifier between
\* components, or touching one the type ignores, is invisible.
OnlyKnownModsMatter ==
  [][\A c \in DOMAIN keymap.keys :
       LET n == Len(keymap.keys[c])
           type == keymap.keys[c][KeyGroupIndex(keymap, groups, n) + 1].type
       IN /\ n > 0
          /\ type # NoType
          /\ EffectiveGroup(keymap, groups') = EffectiveGroup(keymap, groups)
          /\ EffectiveMods(mods') \cap type.mods = EffectiveMods(mods) \cap type.mods
          => KeyGetSyms(keymap, mods', groups', c) = KeyGetSyms(keymap, mods, groups, c)]_vars
=============================================================================

--------------------------- MODULE KeyStateProofs ---------------------------
(***************************************************************************)
(* Theorems of KeyState, for every set of modifiers, every width of the    *)
(* type Group and every keymap.                                            *)
(***************************************************************************)
EXTENDS KeyState, Lemmas

(* Whatever the components sum to, the effective group is a Group, and one  *)
(* of the keymap's when the keymap has any (State.effectiveGroup).          *)
LEMMA EffectiveGroupRange ==
  ASSUME NEW km, km.numGroups \in Nat, NEW g \in [Parts -> Groups]
  PROVE  /\ Sum3(g) \in Nat
         /\ EffectiveGroup(km, g) \in Groups
         /\ km.numGroups > 0 => EffectiveGroup(km, g) < km.numGroups
<1>1. GroupSize \in Nat /\ GroupSize > 0
  BY KeyStateAssumption
<1>2. Sum3(g) \in Nat
  BY <1>1 DEF Sum3, Groups, Parts
<1>3. \A a \in Nat, n \in Nat : n > 0 => a % n \in 0..(n - 1) /\ a % n <= a
  OBVIOUS
<1>4. CASE km.numGroups = 0
  BY <1>1, <1>2, <1>4 DEF EffectiveGroup, Groups
<1>5. CASE km.numGroups > 0
  <2>1. Sum3(g) % km.numGroups \in 0..(km.numGroups - 1)
    BY <1>2, <1>3, <1>5
  <2>2. (Sum3(g) % km.numGroups) % GroupSize \in 0..(GroupSize - 1)
    BY <2>1, <1>1, <1>3
  <2>3. (Sum3(g) % km.numGroups) % GroupSize <= Sum3(g) % km.numGroups
    BY <2>1, <1>1, <1>3
  <2> QED
    BY <1>1, <1>2, <1>5, <2>1, <2>2, <2>3 DEF EffectiveGroup, Groups
<1> QED
  BY <1>4, <1>5

-----------------------------------------------------------------------------

(* The initial state is of its type.                                        *)
LEMMA InitType == Init => TypeOK
<1> SUFFICES ASSUME Init PROVE TypeOK
  OBVIOUS
<1>1. GroupSize \in Nat /\ GroupSize > 0
  BY KeyStateAssumption
<1>2. groups \in [Parts -> Groups] /\ mods \in [Parts -> SUBSET Mods]
  BY <1>1 DEF Init, Groups
<1>3. LitLEDs(keymap, mods, groups) \subseteq DOMAIN keymap.leds
  BY DEF LitLEDs
<1>4. /\ keymap \in Keymaps
      /\ shown.mods = {} /\ shown.group = 0 /\ shown.leds = LitLEDs(keymap, mods, groups)
  BY DEF Init
<1>5. 0 \in Groups
  BY <1>1 DEF Groups
<1> QED
  BY <1>2, <1>3, <1>4, <1>5 DEF TypeOK

(* UpdateMask and UpdateKey keep every variable in its type.                *)
LEMMA StepType == TypeOK /\ [Next]_vars => TypeOK'
<1> SUFFICES ASSUME TypeOK, [Next]_vars PROVE TypeOK'
  OBVIOUS
<1>1. keymap.numGroups \in Nat
  BY KeyStateAssumption DEF TypeOK
<1>2. ASSUME keymap' = keymap, mods' \in [Parts -> SUBSET Mods], groups' \in [Parts -> Groups],
             NEW report, Refresh(report)
      PROVE  TypeOK'
  <2>1. EffectiveMods(mods') \subseteq Mods
    BY <1>2 DEF EffectiveMods, Parts
  <2>2. EffectiveGroup(keymap, groups') \in Groups
    BY <1>1, <1>2, EffectiveGroupRange
  <2>3. LitLEDs(keymap, mods', groups') \subseteq DOMAIN keymap.leds
    BY DEF LitLEDs
  <2> QED
    BY <1>2, <2>1, <2>2, <2>3 DEF TypeOK, Refresh
<1>3. ASSUME NEW m \in [Parts -> MaskInputs], NEW g \in [Parts -> GroupInputs], UpdateMask(m, g)
      PROVE  TypeOK'
  <2>1. m \in [Parts -> SUBSET Mods] /\ g \in [Parts -> Groups]
    BY KeyStateAssumption
  <2> QED
    BY <1>2, <1>3, <2>1 DEF UpdateMask
<1>4. ASSUME UpdateKey PROVE TypeOK'
  BY <1>2, <1>4 DEF UpdateKey, TypeOK
<1>5. ASSUME UNCHANGED vars PROVE TypeOK'
  BY <1>5 DEF vars, TypeOK
<1> QED
  BY <1>3, <1>4, <1>5 DEF Next

(* Every reachable state holds values of the Go types (state.go, State).    *)
THEOREM TypeCorrect == Spec => []TypeOK
<1> QED
  BY InitType, StepType, PTL DEF Spec

-----------------------------------------------------------------------------

(* getLevel returns a level of the type's table or 0, so a number.          *)
LEMMA GetLevelNat ==
  ASSUME NEW type \in KeyTypes, NEW m
  PROVE  GetLevel(type, m) \in Nat
<1> DEFINE hits == {i \in DOMAIN type.entries :
                      type.entries[i].mods = EffectiveMods(m) \cap type.mods}
<1>1. type.entries \in Seq([mods : SUBSET Mods, level : Nat])
  BY DEF KeyTypes
<1>2. hits \in SUBSET Nat /\ hits \subseteq DOMAIN type.entries
  BY <1>1
<1>3. ASSUME hits # {} PROVE type.entries[Min(hits)].level \in Nat
  <2> HIDE DEF hits
  <2>1. Min(hits) \in hits
    BY <1>2, <1>3, MinMember
  <2>2. \A i \in DOMAIN type.entries : type.entries[i] \in [mods : SUBSET Mods, level : Nat]
    <3>1. \A S : \A e \in Seq(S) : \A i \in DOMAIN e : e[i] \in S
      OBVIOUS
    <3> QED
      BY <1>1, <3>1, Zenon
  <2>3. Min(hits) \in DOMAIN type.entries
    BY <1>2, <2>1
  <2> QED
    BY <2>2, <2>3
<1> QED
  BY <1>3 DEF GetLevel

(* In a state of the right types no slice access of KeyGetSyms leaves its   *)
(* slice, whatever the numbers of groups and levels.                        *)
LEMMA TypeInRange == TypeOK => TranslationInRange
<1> SUFFICES ASSUME TypeOK, NEW c \in DOMAIN keymap.keys, Len(keymap.keys[c]) > 0
             PROVE  LET n == Len(keymap.keys[c])
                        gi == KeyGroupIndex(keymap, groups, n)
                    IN /\ gi \in 0..(n - 1)
                       /\ LET kg == keymap.keys[c][gi + 1]
                          IN kg.type # NoType /\ kg.levels # <<>> =>
                               KeyLevelIndex(kg.type, mods, Len(kg.levels)) \in 0..(Len(kg.levels) - 1)
  BY DEF TranslationInRange
<1> DEFINE n == Len(keymap.keys[c])
           gi == KeyGroupIndex(keymap, groups, n)
           kg == keymap.keys[c][gi + 1]
<1>1. /\ keymap.numGroups \in Nat
      /\ keymap.keys[c] \in Seq(KeyGroups)
      /\ groups \in [Parts -> Groups]
  BY KeyStateAssumption DEF TypeOK
<1>2. n \in Nat /\ n > 0
  BY <1>1
<1>3. EffectiveGroup(keymap, groups) \in Nat
  <2>1. EffectiveGroup(keymap, groups) \in Groups
    BY <1>1, EffectiveGroupRange
  <2> QED
    BY <2>1, KeyStateAssumption DEF Groups
<1>4. gi \in 0..(n - 1)
  <2> HIDE DEF n
  <2>1. \A a \in Nat : a % n \in 0..(n - 1)
    BY <1>2
  <2> QED
    BY <1>2, <1>3, <2>1 DEF KeyGroupIndex
<1>5. kg \in KeyGroups
  <2> HIDE DEF gi
  <2> QED
    BY <1>1, <1>4
<1>6. ASSUME kg.type # NoType, kg.levels # <<>>
      PROVE  KeyLevelIndex(kg.type, mods, Len(kg.levels)) \in 0..(Len(kg.levels) - 1)
  <2> HIDE DEF kg
  <2>1. kg.type \in KeyTypes /\ kg.levels \in Seq(Seq(Keysyms))
    BY <1>5, <1>6 DEF KeyGroups
  <2>2. Len(kg.levels) \in Nat /\ Len(kg.levels) > 0
    BY <1>6, <2>1
  <2>3. GetLevel(kg.type, mods) \in Nat
    BY <2>1, GetLevelNat
  <2> QED
    BY <2>2, <2>3 DEF KeyLevelIndex
<1> QED
  BY <1>4, <1>6

(* Translation never leaves the slices of the keymap (State.KeyGetSyms).    *)
THEOREM InRange == Spec => []TranslationInRange
<1> QED
  BY TypeCorrect, TypeInRange, PTL

-----------------------------------------------------------------------------

(* A report without the effective modifiers means that no component of them *)
(* changed, and the same for groups.                                        *)
LEMMA ReportComplete ==
  ASSUME TypeOK, NEW m \in [Parts -> SUBSET Mods], NEW g \in [Parts -> Groups]
  PROVE  /\ "ModEffective" \notin ChangedBy(m, g) => m = mods
         /\ "GroupEffective" \notin ChangedBy(m, g) => g = groups
<1>1. mods \in [Parts -> SUBSET Mods] /\ groups \in [Parts -> Groups]
  BY DEF TypeOK
<1>2. ASSUME "ModEffective" \notin ChangedBy(m, g) PROVE m = mods
  <2>1. {ModBit[p] : p \in {q \in Parts : mods[q] # m[q]}} = {}
    BY <1>2 DEF ChangedBy
  <2>2. \A q \in Parts : mods[q] = m[q]
    BY <2>1
  <2> QED
    BY <1>1, <2>2
<1>3. ASSUME "GroupEffective" \notin ChangedBy(m, g) PROVE g = groups
  <2>1. {GroupBit[p] : p \in {q \in Parts : groups[q] # g[q]}} = {}
    BY <1>3 DEF ChangedBy
  <2>2. \A q \in Parts : groups[q] = g[q]
    BY <2>1
  <2> QED
    BY <1>1, <2>2
<1> QED
  BY <1>2, <1>3

(* At the start the client shows the effective modifiers and group.         *)
LEMMA InitShown == Init => ShownIsCurrent
<1> SUFFICES ASSUME Init PROVE ShownIsCurrent
  OBVIOUS
<1>1. shown.mods = {} /\ shown.group = 0
  BY DEF Init
<1>2. EffectiveMods(mods) = {}
  BY DEF Init, EffectiveMods, Parts
<1>3. EffectiveGroup(keymap, groups) = 0
  <2>1. Sum3(groups) = 0
    BY DEF Init, Sum3, Parts
  <2>2. GroupSize \in Nat /\ GroupSize > 0 /\ keymap.numGroups \in Nat
    BY KeyStateAssumption DEF Init
  <2>3. \A n \in Nat : n > 0 => 0 % n = 0
    OBVIOUS
  <2> QED
    BY <2>1, <2>2, <2>3 DEF EffectiveGroup
<1>4. shown.leds = LitLEDs(keymap, mods, groups)
  BY DEF Init
<1> QED
  BY <1>1, <1>2, <1>3, <1>4 DEF ShownIsCurrent

(* A step leaves what the client shows current: the parts it does not read  *)
(* again have not changed.                                                  *)
LEMMA StepShown == TypeOK /\ ShownIsCurrent /\ [Next]_vars => ShownIsCurrent'
<1> SUFFICES ASSUME TypeOK, ShownIsCurrent, [Next]_vars PROVE ShownIsCurrent'
  OBVIOUS
<1>1. ASSUME NEW m \in [Parts -> MaskInputs], NEW g \in [Parts -> GroupInputs], UpdateMask(m, g)
      PROVE  ShownIsCurrent'
  <2>1. m \in [Parts -> SUBSET Mods] /\ g \in [Parts -> Groups]
    BY KeyStateAssumption
  <2>2. mods' = m /\ groups' = g /\ keymap' = keymap
    BY <1>1 DEF UpdateMask
  <2> DEFINE report == ChangedBy(m, g)
  <2>3. /\ shown'.mods = IF "ModEffective" \in report THEN EffectiveMods(mods') ELSE shown.mods
        /\ shown'.group = IF "GroupEffective" \in report
                          THEN EffectiveGroup(keymap, groups') ELSE shown.group
        /\ shown'.leds = IF report \cap {"ModEffective", "GroupEffective"} # {}
                         THEN LitLEDs(keymap, mods', groups') ELSE shown.leds
    BY <1>1 DEF UpdateMask, Refresh
  <2>4. /\ "ModEffective" \notin report => mods' = mods
        /\ "GroupEffective" \notin report => groups' = groups
    BY <2>1, <2>2, ReportComplete
  <2>5. shown'.mods = EffectiveMods(mods')
    BY <2>3, <2>4 DEF ShownIsCurrent
  <2>6. shown'.group = EffectiveGroup(keymap', groups')
    BY <2>2, <2>3, <2>4 DEF ShownIsCurrent
  <2>7. shown'.leds = LitLEDs(keymap', mods', groups')
    <3>1. CASE report \cap {"ModEffective", "GroupEffective"} # {}
      BY <2>2, <2>3, <3>1
    <3>2. CASE report \cap {"ModEffective", "GroupEffective"} = {}
      <4>1. mods' = mods /\ groups' = groups
        BY <2>4, <3>2
      <4> QED
        BY <2>2, <2>3, <3>2, <4>1 DEF ShownIsCurrent
    <3> QED
      BY <3>1, <3>2
  <2>8. (LitLEDs(keymap, mods, groups))' = LitLEDs(keymap', mods', groups')
    BY DEF LitLEDs, LEDNameIsActive, EffectiveMods, EffectiveGroup, Sum3
  <2> QED
    BY <2>5, <2>6, <2>7, <2>8 DEF ShownIsCurrent
<1>2. ASSUME UpdateKey PROVE ShownIsCurrent'
  BY <1>2 DEF UpdateKey, Refresh, ShownIsCurrent, LitLEDs, LEDNameIsActive
<1>3. ASSUME UNCHANGED vars PROVE ShownIsCurrent'
  BY <1>3 DEF vars, ShownIsCurrent, LitLEDs, LEDNameIsActive
<1> QED
  BY <1>1, <1>2, <1>3 DEF Next

(* A client that reads the effective modifiers and group again only when    *)
(* UpdateMask reports them, and the LEDs when it reports either, is never   *)
(* out of date.                                                             *)
THEOREM ReportsMissNothing == Spec => []ShownIsCurrent
<1> QED
  BY TypeCorrect, InitShown, StepShown, PTL DEF Spec

-----------------------------------------------------------------------------

(* In a state of the right types the components add up to the effective     *)
(* value.                                                                   *)
LEMMA TypeAddsUp == TypeOK => ComponentsAddUp
<1> SUFFICES ASSUME TypeOK PROVE ComponentsAddUp
  OBVIOUS
<1>1. groups \in [Parts -> Groups]
  BY DEF TypeOK
<1>2. ASSUME NEW b \in Mods
      PROVE  ModIndexIsActive(b, mods, {"ModDepressed", "ModLatched", "ModLocked"})
               <=> ModIndexIsActive(b, mods, {"ModEffective"})
  <2>1. ModIndexIsActive(b, mods, {"ModEffective"}) <=> b \in EffectiveMods(mods)
    BY DEF ModIndexIsActive, SerializeMods, Parts, ModBit
  <2>2. ModIndexIsActive(b, mods, {"ModDepressed", "ModLatched", "ModLocked"})
          <=> \E p \in Parts : b \in mods[p]
    BY DEF ModIndexIsActive, SerializeMods, Parts, ModBit
  <2> QED
    BY <2>1, <2>2 DEF EffectiveMods, Parts
<1>3. ASSUME keymap.numGroups > 0
      PROVE  SerializeGroup(keymap, groups, {"GroupDepressed", "GroupLatched", "GroupLocked"})
               = SerializeGroup(keymap, groups, {"GroupEffective"})
  <2>1. keymap.numGroups \in Nat
    BY KeyStateAssumption DEF TypeOK
  <2>2. /\ GroupBit["Depressed"] = "GroupDepressed"
        /\ GroupBit["Latched"] = "GroupLatched"
        /\ GroupBit["Locked"] = "GroupLocked"
    BY DEF GroupBit, Parts
  <2>3. SerializeGroup(keymap, groups, {"GroupEffective"}) = EffectiveGroup(keymap, groups)
    BY DEF SerializeGroup
  <2>4. SerializeGroup(keymap, groups, {"GroupDepressed", "GroupLatched", "GroupLocked"})
          = (Sum3(groups) % keymap.numGroups) % GroupSize
    BY <1>3, <2>2 DEF SerializeGroup, Sum3
  <2> QED
    BY <1>3, <2>1, <2>3, <2>4 DEF EffectiveGroup
<1> QED
  BY <1>2, <1>3 DEF ComponentsAddUp

(* The component queries and the effective query agree in every state       *)
(* (State.SerializeMods, ModIndexIsActive and SerializeGroup).              *)
THEOREM QueriesAgree == Spec => []ComponentsAddUp
<1> QED
  BY TypeCorrect, TypeAddsUp, PTL

(* A key's keysyms depend on the effective group and on the modifiers its   *)
(* type knows, and on nothing else of the state.                            *)
LEMMA SymsDependOn ==
  ASSUME NEW km, NEW m, NEW n, NEW g, NEW h, NEW c,
         EffectiveGroup(km, h) = EffectiveGroup(km, g),
         LET type == km.keys[c][KeyGroupIndex(km, g, Len(km.keys[c])) + 1].type
         IN EffectiveMods(n) \cap type.mods = EffectiveMods(m) \cap type.mods
  PROVE  KeyGetSyms(km, n, h, c) = KeyGetSyms(km, m, g, c)
<1> DEFINE gi == KeyGroupIndex(km, g, Len(km.keys[c]))
           kg == km.keys[c][gi + 1]
<1>1. KeyGroupIndex(km, h, Len(km.keys[c])) = gi
  BY DEF KeyGroupIndex
<1>2. GetLevel(kg.type, n) = GetLevel(kg.type, m)
  BY DEF GetLevel
<1>3. KeyLevelIndex(kg.type, n, Len(kg.levels)) = KeyLevelIndex(kg.type, m, Len(kg.levels))
  BY <1>2 DEF KeyLevelIndex
<1> QED
  BY <1>1, <1>3 DEF KeyGetSyms

(* No step changes what a key produces unless it changes the effective      *)
(* group or a modifier that the key's type knows (State.getLevel).          *)
THEOREM OnlyKnownModifiers == Spec => OnlyKnownModsMatter
<1>1. [Next]_vars =>
        [\A c \in DOMAIN keymap.keys :
           LET n == Len(keymap.keys[c])
               type == keymap.keys[c][KeyGroupIndex(keymap, groups, n) + 1].type
           IN /\ n > 0
              /\ type # NoType
              /\ EffectiveGroup(keymap, groups') = EffectiveGroup(keymap, groups)
              /\ EffectiveMods(mods') \cap type.mods = EffectiveMods(mods) \cap type.mods
              => KeyGetSyms(keymap, mods', groups', c) = KeyGetSyms(keymap, mods, groups, c)]_vars
  BY SymsDependOn
<1> QED
  BY <1>1, PTL DEF Spec, OnlyKnownModsMatter
=============================================================================

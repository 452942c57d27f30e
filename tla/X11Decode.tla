----------------------------- MODULE X11Decode -----------------------------
(***************************************************************************)
(* The decoder of XKB replies (x11.go): the bytes of a GetMap, a GetNames  *)
(* and a GetControls reply, read section by section behind a cursor, and   *)
(* the keymap that NewKeymapFromX11Replies makes of them.                  *)
(*                                                                         *)
(* The bytes are those a server writes for a keyboard, or the same cut     *)
(* short or with one byte changed.  How long the fixed part of a GetMap    *)
(* reply is depends on whom one asks, see Unused.  A mask is the set of    *)
(* its bits; a keysym and an atom are the four bytes that stand for them.  *)
(***************************************************************************)
EXTENDS Naturals, Sequences, SequencesExt

CONSTANTS
  Keyboards,  \* what servers have, see the wire below
  AtomNames,  \* the names of the atoms that have one, as tuples of parts
  BadBytes,   \* what a changed byte is changed to
  Unused      \* how many unused bytes of GetMap precede the first keycode: none
              \* in x11_test.go, two in the XKB protocol

VARIABLES
  keyboard,   \* the server's keyboard
  fault,      \* what happened to its replies: "none", "cut" or "changed"
  wire,       \* the replies as they are received: map, names, controls
  pc,         \* the section that is read next, "failed" or "done"
  b,          \* the cursor
  read,       \* how far each reply has been looked at
  raw,        \* the GetMap reply being read: counts, raw types, keysyms
  map,        \* X11MapReply
  names,      \* X11NamesReply
  controls,   \* X11ControlsReply
  km          \* the Keymap

vars == <<keyboard, fault, wire, pc, b, read, raw, map, names, controls, km>>

Bits(n) == {i \in 0..15 : (n \div 2^i) % 2 = 1}
Mask(bits) == MapThenSumSet(LAMBDA i : 2^i, bits)
Pad4(n) == n + ((4 - (n % 4)) % 4)
Put(m, k, v) == [x \in DOMAIN m \cup {k} |-> IF x = k THEN v ELSE m[x]]
Empty == [x \in {} |-> 0]

-----------------------------------------------------------------------------
(* The wire, as x11_test.go has it if Unused is 0.  A keyboard is a record *)
(* of                                                                      *)
(*   min        the first keycode                                          *)
(*   parts      the optional sections of its replies                       *)
(*   types      key types: mods, vmods, levels, entries and whether they   *)
(*              have preserve lists                                        *)
(*   keys       for each keycode: types (of its groups), width, syms, name *)
(*   vmods      the real modifiers of each virtual one in use              *)
(*   modmap     keycodes and their modifiers                               *)
(*   typeNames, vmodNames, groupNames   atoms                              *)
(*   aliases    pairs of a real name and its alias                         *)
(*   groups     how many groups there are                                  *)
(*   repeats    the keycodes that repeat                                   *)

KeyTypes == 0
KeySyms == 1
ModifierMaps == 2
VirtualMods == 6
TypeNames == 6
KeyNames == 9
KeyAliases == 10
VirtualModNames == 11
GroupNames == 12

Zeros(n) == [i \in 1..n |-> 0]
Word16(n) == <<n % 256, n \div 256>>
Wires(seq, W(_)) == FlattenSeq([i \in DOMAIN seq |-> W(seq[i])])
PadTo4(bytes) == bytes \o Zeros(Pad4(Len(bytes)) - Len(bytes))
InOrder(f) == [i \in 1..Cardinality(DOMAIN f) |-> f[SetToSortSeq(DOMAIN f, <)[i]]]
LastCode(kb) == kb.min + Len(kb.keys) - 1

WireEntry(e) == <<1, 0, e.level, Mask(e.mods)>> \o Word16(Mask(e.vmods)) \o <<0, 0>>
WirePreserve(e) == <<0, Mask(e.keeps)>> \o Word16(Mask(e.vkeeps))
WireType(t) ==
  <<0, Mask(t.mods)>> \o Word16(Mask(t.vmods)) \o
  <<t.levels, Len(t.entries), IF t.preserve THEN 1 ELSE 0, 0>> \o
  Wires(t.entries, WireEntry) \o (IF t.preserve THEN Wires(t.entries, WirePreserve) ELSE <<>>)
WireKey(k) ==
  k.types \o Zeros(4 - Len(k.types)) \o <<Len(k.types), k.width>> \o Word16(Len(k.syms)) \o
  FlattenSeq(k.syms)
WireName(n) == n \o Zeros(4 - Len(n))

WireMap(kb) ==
  LET header ==
        <<1>> \o Zeros(7 + Unused) \o <<kb.min, LastCode(kb)>> \o
        Word16(Mask(kb.parts \ {GroupNames, KeyAliases})) \o
        <<0, Len(kb.types)>> \o Zeros(4) \o <<Len(kb.keys)>> \o Zeros(12) \o
        <<Len(kb.modmap)>> \o Zeros(4) \o Word16(Mask(DOMAIN kb.vmods))
      withSyms == header \o Wires(kb.types, WireType) \o Wires(kb.keys, WireKey)
      withVMods == IF VirtualMods \in kb.parts
                   THEN PadTo4(withSyms \o Wires(InOrder(kb.vmods), LAMBDA m : <<Mask(m)>>))
                   ELSE withSyms
  IN IF ModifierMaps \in kb.parts
     THEN PadTo4(withVMods \o Wires(kb.modmap, LAMBDA m : <<m.code, Mask(m.mods)>>))
     ELSE withVMods

WireNames(kb) ==
  LET which == {TypeNames, KeyNames, VirtualModNames} \cup (kb.parts \cap {KeyAliases, GroupNames})
  IN <<1>> \o Zeros(7) \o Word16(Mask(which)) \o <<0, 0, kb.min, LastCode(kb)>> \o
     <<Len(kb.typeNames), Mask(DOMAIN kb.groupNames)>> \o Word16(Mask(DOMAIN kb.vmodNames)) \o
     <<kb.min, Len(kb.keys)>> \o Zeros(5) \o <<Len(kb.aliases)>> \o Zeros(6) \o
     FlattenSeq(kb.typeNames) \o FlattenSeq(InOrder(kb.vmodNames)) \o
     (IF GroupNames \in which THEN FlattenSeq(InOrder(kb.groupNames)) ELSE <<>>) \o
     Wires(kb.keys, LAMBDA k : WireName(k.name)) \o
     (IF KeyAliases \in which
      THEN Wires(kb.aliases, LAMBDA a : WireName(a.real) \o WireName(a.alias)) ELSE <<>>)

WireControls(kb) ==
  <<1>> \o Zeros(8) \o <<kb.groups>> \o Zeros(50) \o
  [i \in 1..32 |-> Mask({c % 8 : c \in {d \in kb.repeats : d \div 8 = i - 1}})]

Wire(kb) == [map |-> WireMap(kb), names |-> WireNames(kb), controls |-> WireControls(kb)]

ASSUME X11DecodeAssumption ==
  /\ BadBytes \subseteq 0..255 /\ Unused \in Nat
  /\ \A kb \in Keyboards : \A r \in DOMAIN Wire(kb) : Wire(kb)[r] \in Seq(0..255)

-----------------------------------------------------------------------------
(* Reading.                                                                 *)

\* The reply that pc is in, its bytes, and how far they have been looked at.
MapSections == {"map", "types", "syms", "vmods", "modmap", "resolve"}
NamesSections == {"names", "typeNames", "vmodNames", "groupNames", "keyNames", "aliases"}
Reply == CASE pc \in MapSections -> "map"
           [] pc \in NamesSections -> "names"
           [] OTHER -> "controls"
Buffer == wire[Reply]
LooksTo(n) == read' = [read EXCEPT ![Reply] = n]

Byte(i) == IF i < Len(Buffer) THEN Buffer[i + 1] ELSE 0
Uint16(i) == Byte(i) + 256 * Byte(i + 1)
Uint32(i) == <<Byte(i), Byte(i + 1), Byte(i + 2), Byte(i + 3)>>
Name4(i) == LET n == Min({k \in 0..3 : Byte(i + k) = 0} \cup {4})
            IN [k \in 1..n |-> Byte(i + k - 1)]

Has(bytes) == b + bytes <= Len(Buffer)

Fail ==
  /\ pc' = "failed"
  /\ UNCHANGED <<keyboard, fault, wire, b, read, raw, map, names, controls, km>>

\* A section that takes so many bytes has been read; next is what follows.
Took(bytes, next) ==
  /\ b' = b + bytes
  /\ LooksTo(b + bytes)
  /\ pc' = next
  /\ UNCHANGED <<keyboard, fault, wire, controls, km>>

\* A section that is not there: nothing is read, and b may be behind the end
\* since what pads a section is not measured.
Without(next) ==
  /\ pc' = next
  /\ UNCHANGED <<keyboard, fault, wire, b, read, raw, map, names, controls, km>>

\* A reply begins behind its fixed part.
Begin(fixed, next) ==
  /\ b' = fixed
  /\ LooksTo(fixed)
  /\ pc' = next
  /\ UNCHANGED <<keyboard, fault, wire, controls, km>>

Init ==
  /\ keyboard \in Keyboards
  /\ \/ /\ fault = "none"
        /\ wire = Wire(keyboard)
     \/ /\ fault = "cut"
        /\ \E r \in {"map", "names", "controls"} : \E n \in 0..Len(Wire(keyboard)[r]) - 1 :
             wire = [Wire(keyboard) EXCEPT ![r] = SubSeq(@, 1, n)]
     \/ /\ fault = "changed"
        /\ \E r \in {"map", "names", "controls"} :
             \E i \in DOMAIN Wire(keyboard)[r] : \E v \in BadBytes \ {Wire(keyboard)[r][i]} :
               wire = [Wire(keyboard) EXCEPT ![r][i] = v]
  /\ pc = "map"
  /\ b = 0
  /\ read = [map |-> 0, names |-> 0, controls |-> 0]
  /\ raw = [types |-> <<>>, syms |-> <<>>, vmods |-> Empty, modmap |-> <<>>]
  /\ map = Empty
  /\ names = Empty
  /\ controls = Empty
  /\ km = Empty

-----------------------------------------------------------------------------
(* ParseX11GetMapReply.  The counts stay where they are in the fixed part.  *)

Present == Bits(Uint16(10))
NTypes == Byte(13)
NKeySyms == Byte(18)
ModMapKeys == Byte(31)
VModSlots == Bits(Uint16(36))

MapHeader ==
  /\ pc = "map"
  /\ IF \/ Len(Buffer) < 38
        \/ Byte(0) # 1
        \/ Byte(8) > Byte(9)
        \/ ~({KeyTypes, KeySyms} \subseteq Present)
     THEN Fail
     ELSE Begin(38, "types") /\ UNCHANGED <<raw, map, names>>

\* One entry of a key type, and what it preserves if there is a list.
Entry(at, keepsAt) ==
  [level |-> Byte(at + 2), mods |-> Bits(Byte(at + 3)), vmods |-> Bits(Uint16(at + 4)),
   keeps |-> IF keepsAt = 0 THEN {} ELSE Bits(Byte(keepsAt + 1)),
   vkeeps |-> IF keepsAt = 0 THEN {} ELSE Bits(Uint16(keepsAt + 2))]

KeyType ==
  /\ pc = "types"
  /\ Len(raw.types) < NTypes
  /\ LET entries == Byte(b + 5)
         preserve == Byte(b + 6) # 0
         size == 8 + entries * (IF preserve THEN 12 ELSE 8)
         Keeps(i) == IF preserve THEN b + 8 + entries * 8 + (i - 1) * 4 ELSE 0
     IN IF ~Has(8) \/ Byte(b + 4) = 0 \/ ~Has(size) THEN Fail
        ELSE /\ raw' = [raw EXCEPT !.types = Append(@,
                  [mods |-> Bits(Byte(b + 1)), vmods |-> Bits(Uint16(b + 2)), levels |-> Byte(b + 4),
                   entries |-> [i \in 1..entries |-> Entry(b + i * 8, Keeps(i))]])]
             /\ Took(size, "types")
             /\ UNCHANGED <<map, names>>

EndTypes ==
  /\ pc = "types"
  /\ Len(raw.types) = NTypes
  /\ Took(0, "syms")
  /\ UNCHANGED <<raw, map, names>>

\* A fault of KeySymsFit: the symbol list is taken for granted.
KeySymsFitUnchecked(groups, width, n) == groups <= 4 /\ n = width * groups

\* The count agrees with the layout of the key, and the list is all there.
KeySymsFit(groups, width, n) == groups <= 4 /\ n = width * groups /\ Has(8 + n * 4)

KeySymMap ==
  /\ pc = "syms"
  /\ Len(raw.syms) < NKeySyms
  /\ LET groups == Byte(b + 4) % 16
         width == Byte(b + 5)
         n == Uint16(b + 6)
     IN IF ~Has(8) \/ ~KeySymsFit(groups, width, n) THEN Fail
        ELSE /\ raw' = [raw EXCEPT !.syms = Append(@,
                  [types |-> [g \in 1..groups |-> Byte(b + g - 1)], width |-> width,
                   syms |-> [i \in 1..n |-> Uint32(b + 4 + i * 4)]])]
             /\ Took(8 + n * 4, "syms")
             /\ UNCHANGED <<map, names>>

EndSyms ==
  /\ pc = "syms"
  /\ Len(raw.syms) = NKeySyms
  /\ IF NKeySyms # Byte(9) - Byte(8) + 1 THEN Fail
     ELSE Took(0, "vmods") /\ UNCHANGED <<raw, map, names>>

\* A fault of Aligned: what a section is followed by is not skipped.
AlignedNot(n) == n

\* A section of bytes ends at a multiple of four in the reply.
Aligned(n) == Pad4(n)

SlotsBelow(i) == Cardinality({j \in VModSlots : j < i})

ReadVirtualMods ==
  /\ pc = "vmods"
  /\ LET n == Cardinality(VModSlots) IN
     CASE VirtualMods \notin Present -> Without("modmap")
       [] VirtualMods \in Present /\ ~Has(n) -> Fail
       [] OTHER ->
            /\ raw' = [raw EXCEPT !.vmods = [i \in VModSlots |-> Bits(Byte(b + SlotsBelow(i)))]]
            /\ LooksTo(b + n)
            /\ b' = Aligned(b + n)
            /\ pc' = "modmap"
            /\ UNCHANGED <<keyboard, fault, wire, map, names, controls, km>>

ReadModifierMap ==
  /\ pc = "modmap"
  /\ LET n == ModMapKeys IN
     CASE ModifierMaps \notin Present -> Without("resolve")
       [] ModifierMaps \in Present /\ ~Has(n * 2) -> Fail
       [] OTHER ->
            /\ raw' = [raw EXCEPT !.modmap =
                 [i \in 1..n |-> [code |-> Byte(b + 2 * i - 2), mods |-> Bits(Byte(b + 2 * i - 1))]]]
            /\ IF n = 0 THEN UNCHANGED read ELSE LooksTo(b + n * 2)
            /\ b' = Aligned(b + n * 2)
            /\ pc' = "resolve"
            /\ UNCHANGED <<keyboard, fault, wire, map, names, controls, km>>

\* Real modifiers together with those that the virtual ones are bound to.
Combine(real, virtual) == real \cup UNION {raw.vmods[i] : i \in virtual \cap DOMAIN raw.vmods}

Resolve ==
  /\ pc = "resolve"
  /\ IF b > Len(Buffer) THEN Fail
     ELSE LET Final(e) == [mods |-> Combine(e.mods, e.vmods), level |-> e.level,
                           preserve |-> Combine(e.keeps, e.vkeeps)]
          IN /\ map' = [min |-> Byte(8), max |-> Byte(9), syms |-> raw.syms,
                        modmap |-> raw.modmap, vmods |-> raw.vmods,
                        types |-> [i \in DOMAIN raw.types |->
                          LET t == raw.types[i] IN
                          [mods |-> Combine(t.mods, t.vmods), levels |-> t.levels,
                           entries |-> [j \in DOMAIN t.entries |-> Final(t.entries[j])]]]]
             /\ b' = 0
             /\ pc' = "names"
             /\ UNCHANGED <<keyboard, fault, wire, read, raw, names, controls, km>>

-----------------------------------------------------------------------------
(* ParseX11GetNamesReply.                                                   *)

Which == Bits(Uint16(8))
NKeys == Byte(19)

NamesHeader ==
  /\ pc = "names"
  /\ IF \/ Len(Buffer) < 32
        \/ Byte(0) # 1
        \/ ~({TypeNames, KeyNames, VirtualModNames} \subseteq Which)
        \/ NKeys # Byte(13) - Byte(12) + 1
     THEN Fail
     ELSE /\ names' = [min |-> Byte(12), max |-> Byte(13), first |-> Byte(18),
                       groupMask |-> Bits(Byte(15)), vmodMask |-> Bits(Uint16(16)),
                       types |-> <<>>, vmods |-> <<>>, groups |-> <<>>,
                       keys |-> <<>>, aliases |-> <<>>]
          /\ Begin(32, "typeNames")
          /\ UNCHANGED <<raw, map>>

\* readAtoms: n atoms for the field f of the reply.
ReadAtoms(n, f, next) ==
  IF ~Has(n * 4) THEN Fail
  ELSE /\ names' = [names EXCEPT ![f] = [i \in 1..n |-> Uint32(b + i * 4 - 4)]]
       /\ Took(n * 4, next)
       /\ UNCHANGED <<raw, map>>

ReadTypeNames == pc = "typeNames" /\ ReadAtoms(Byte(14), "types", "vmodNames")

ReadVModNames ==
  pc = "vmodNames" /\ ReadAtoms(Cardinality(names.vmodMask), "vmods", "groupNames")

ReadGroupNames ==
  /\ pc = "groupNames"
  /\ ReadAtoms(IF GroupNames \in Which THEN Cardinality(names.groupMask) ELSE 0, "groups", "keyNames")

ReadKeyNames ==
  /\ pc = "keyNames"
  /\ IF ~Has(NKeys * 4) THEN Fail
     ELSE /\ names' = [names EXCEPT !.keys = [i \in 1..NKeys |-> Name4(b + i * 4 - 4)]]
          /\ Took(NKeys * 4, "aliases")
          /\ UNCHANGED <<raw, map>>

ReadAliases ==
  /\ pc = "aliases"
  /\ LET n == IF KeyAliases \in Which THEN Byte(25) ELSE 0 IN
     IF ~Has(n * 8) THEN Fail
     ELSE /\ names' = [names EXCEPT !.aliases =
               [i \in 1..n |-> [real |-> Name4(b + i * 8 - 8), alias |-> Name4(b + i * 8 - 4)]]]
          /\ Took(n * 8, "controls")
          /\ UNCHANGED <<raw, map>>

-----------------------------------------------------------------------------
(* ParseX11GetControlsReply.                                                *)

ReadControls ==
  /\ pc = "controls"
  /\ IF Len(Buffer) < 92 \/ Byte(0) # 1 \/ Byte(9) = 0 \/ Byte(9) > 4 THEN Fail
     ELSE /\ controls' = [groups |-> Byte(9), perKeyRepeat |-> [i \in 0..31 |-> Bits(Byte(60 + i))]]
          /\ b' = 0
          /\ LooksTo(92)
          /\ pc' = "keymap"
          /\ UNCHANGED <<keyboard, fault, wire, raw, map, names, km>>

-----------------------------------------------------------------------------
(* NewKeymapFromX11Replies.                                                 *)

\* The name an atom is resolved to, and the name of something that has the
\* i-th of a list of atoms.
Resolved(atom) == IF atom \in DOMAIN AtomNames THEN AtomNames[atom] ELSE <<>>
NamedBy(atoms, i, otherwise) ==
  IF i \in DOMAIN atoms /\ Resolved(atoms[i]) # <<>> THEN Resolved(atoms[i]) ELSE otherwise

\* The place of a bit among the bits of a mask, from 1.
Rank(i, mask) == Cardinality({j \in mask : j <= i})

\* Names that the code makes for types and virtual modifiers without one.
TypeName(i) == NamedBy(names.types, i, <<"TYPE", i - 1>>)
VModName(i) == NamedBy(names.vmods, Rank(i, names.vmodMask), <<"VMod", i>>)

RealMods(i) == IF i \in DOMAIN map.vmods THEN map.vmods[i] ELSE {}
NamedVMods ==
  FoldLeft(LAMBDA m, i : Put(m, VModName(i), RealMods(i)), Empty, SetToSortSeq(names.vmodMask, <))

BeginKeymap ==
  /\ pc = "keymap"
  /\ IF \/ map.min # names.min \/ map.max # names.max
        \/ names.first # map.min
        \/ Len(map.syms) # map.max - map.min + 1
        \/ Len(names.keys) # Len(map.syms)
     THEN Fail
     ELSE /\ km' = [min |-> map.min, max |-> map.max, groups |-> controls.groups,
                    types |-> [i \in DOMAIN map.types |->
                                 [name |-> TypeName(i), mods |-> map.types[i].mods,
                                  levels |-> map.types[i].levels, entries |-> map.types[i].entries]],
                    vmods |-> NamedVMods,
                    groupNames |-> [g \in 0..3 |->
                                      IF g \in names.groupMask
                                      THEN NamedBy(names.groups, Rank(g, names.groupMask), <<>>) ELSE <<>>],
                    nameOf |-> Empty, codeOf |-> Empty, keys |-> Empty]
          /\ pc' = "keys"
          /\ UNCHANGED <<keyboard, fault, wire, b, read, raw, map, names, controls>>

Repeats(c) == c % 8 \in controls.perKeyRepeat[c \div 8]

\* A fault of TypesKnown: off by one at the end of the list of types.
TypesKnownOrNext(key) == \A g \in DOMAIN key.types : key.types[g] <= Len(km.types)

TypesKnown(key) == \A g \in DOMAIN key.types : key.types[g] < Len(km.types)

\* The levels of a group: as many as the key is wide, and empty ones where the
\* list of keysyms has ended.
NoSymbol == <<0, 0, 0, 0>>
GroupLevels(key, g) ==
  [l \in 1..key.width |-> LET i == (g - 1) * key.width + l
                          IN IF i <= Len(key.syms) THEN key.syms[i] ELSE NoSymbol]

AddKey ==
  LET i == Cardinality(DOMAIN km.keys) + 1
      c == map.min + i - 1
      key == map.syms[i]
      name == names.keys[i]
  IN /\ pc = "keys"
     /\ i <= Len(map.syms)
     /\ IF ~TypesKnown(key) THEN Fail
        ELSE /\ km' = [km EXCEPT
                  !.keys = Put(@, c, [name |-> name, repeats |-> Repeats(c), mods |-> {},
                                      groups |-> [g \in DOMAIN key.types |->
                                        [type |-> key.types[g] + 1, levels |-> GroupLevels(key, g)]]]),
                  !.nameOf = IF name = <<>> THEN @ ELSE Put(@, c, name),
                  !.codeOf = IF name = <<>> THEN @ ELSE Put(@, name, c)]
             /\ UNCHANGED <<keyboard, fault, wire, pc, b, read, raw, map, names, controls>>

\* The modifier map, once all keys are there.
AddModifiers ==
  /\ pc = "keys"
  /\ Cardinality(DOMAIN km.keys) = Len(map.syms)
  /\ km' = [km EXCEPT !.keys = [c \in DOMAIN @ |-> [@[c] EXCEPT !.mods =
               UNION {m.mods : m \in {n \in Range(map.modmap) : n.code = c}}]]]
  /\ pc' = "links"
  /\ UNCHANGED <<keyboard, fault, wire, b, read, raw, map, names, controls>>

\* An alias leads to the key of its real name, if that has one by now.
WithAlias(codes, alias) ==
  IF alias.real \in DOMAIN codes /\ alias.alias # <<>>
  THEN Put(codes, alias.alias, codes[alias.real]) ELSE codes

\* names.aliases are now those that are left.
AddAlias ==
  /\ pc = "links"
  /\ names.aliases # <<>>
  /\ km' = [km EXCEPT !.codeOf = WithAlias(@, Head(names.aliases))]
  /\ names' = [names EXCEPT !.aliases = Tail(@)]
  /\ UNCHANGED <<keyboard, fault, wire, pc, b, read, raw, map, controls>>

EndKeymap ==
  /\ pc = "links"
  /\ names.aliases = <<>>
  /\ pc' = "done"
  /\ UNCHANGED <<keyboard, fault, wire, b, read, raw, map, names, controls, km>>

Next ==
  \/ MapHeader \/ KeyType \/ EndTypes \/ KeySymMap \/ EndSyms
  \/ ReadVirtualMods \/ ReadModifierMap \/ Resolve
  \/ NamesHeader \/ ReadTypeNames \/ ReadVModNames \/ ReadGroupNames
  \/ ReadKeyNames \/ ReadAliases
  \/ ReadControls
  \/ BeginKeymap \/ AddKey \/ AddModifiers \/ AddAlias \/ EndKeymap

Spec == Init /\ [][Next]_vars

-----------------------------------------------------------------------------
(* Properties.                                                              *)

\* No byte behind the end of a reply is ever looked at (an index out of
\* range), wherever a reply is cut and whatever one of its counts or masks
\* is changed to: each section is measured before it is read.
NeverPastEnd == \A r \in DOMAIN wire : read[r] <= Len(wire[r])

\* What a keyboard's virtual modifier stands for, as far as it was sent.
Sent(kb, i) == IF VirtualMods \in kb.parts /\ i \in DOMAIN kb.vmods THEN kb.vmods[i] ELSE {}
Meant(kb, real, virtual) == real \cup UNION {Sent(kb, i) : i \in virtual}
NameOfAtom(a) == IF a \in DOMAIN AtomNames THEN AtomNames[a] ELSE <<>>

TypesAsServed(kb) ==
  /\ Len(km.types) = Len(kb.types)
  /\ \A i \in DOMAIN kb.types :
       LET t == kb.types[i] IN
       /\ i \in DOMAIN kb.typeNames /\ NameOfAtom(kb.typeNames[i]) # <<>>
            => km.types[i].name = NameOfAtom(kb.typeNames[i])
       /\ km.types[i].mods = Meant(kb, t.mods, t.vmods)
       /\ km.types[i].levels = t.levels
       /\ Len(km.types[i].entries) = Len(t.entries)
       /\ \A j \in DOMAIN t.entries :
            LET e == t.entries[j] IN
            km.types[i].entries[j] =
              [mods |-> Meant(kb, e.mods, e.vmods), level |-> e.level,
               preserve |-> IF t.preserve THEN Meant(kb, e.keeps, e.vkeeps) ELSE {}]

KeysAsServed(kb) ==
  \A i \in DOMAIN kb.keys :
    LET c == kb.min + i - 1
        k == kb.keys[i]
    IN /\ Len(km.keys[c].groups) = Len(k.types)
       /\ \A g \in DOMAIN k.types :
            /\ km.keys[c].groups[g].type = k.types[g] + 1
            /\ km.keys[c].groups[g].levels = SubSeq(k.syms, (g - 1) * k.width + 1, g * k.width)
       /\ km.keys[c].repeats = (c \in kb.repeats)
       /\ km.keys[c].mods = IF ModifierMaps \in kb.parts
                            THEN UNION {m.mods : m \in {n \in Range(kb.modmap) : n.code = c}} ELSE {}
       /\ k.name # <<>> => km.nameOf[c] = k.name /\ km.codeOf[k.name] = c

NamesAsServed(kb) ==
  /\ km.groups = kb.groups
  /\ \A i \in DOMAIN kb.vmodNames : NameOfAtom(kb.vmodNames[i]) # <<>> =>
       km.vmods[NameOfAtom(kb.vmodNames[i])] = Sent(kb, i)
  /\ GroupNames \in kb.parts => \A g \in DOMAIN kb.groupNames :
       km.groupNames[g] = NameOfAtom(kb.groupNames[g])
  /\ KeyAliases \in kb.parts => \A a \in Range(kb.aliases) :
       a.real \in DOMAIN km.codeOf => km.codeOf[a.alias] = km.codeOf[a.real]

\* Replies of the layout that x11_test.go gives them, a GetMap with a fixed
\* part of 38 bytes (Unused is 0), are decoded, whichever optional sections
\* they have and however their odd lengths are padded, and the keymap says of
\* every key, type, modifier and name what the keyboard has; a reply that lost
\* its end is refused, wherever it was cut, and gives no keymap at all
\* (x11_test.go tests both on one keyboard, GetMap only).  Of the layout of
\* the XKB protocol it does not hold: those replies are refused whole.
KeymapAsServed ==
  /\ fault = "none" => pc # "failed"
  /\ fault = "cut" => pc # "done"
  /\ fault = "none" /\ pc = "done" =>
       TypesAsServed(keyboard) /\ KeysAsServed(keyboard) /\ NamesAsServed(keyboard)

\* Every group has a type of the keymap, as many levels as the key is wide,
\* and on each of them the keysym that the reply has for it, of a list that
\* ends with the last level of the last group.
GroupsHold(key, groups) ==
  /\ DOMAIN groups = DOMAIN key.types
  /\ Len(key.syms) = key.width * Len(key.types)
  /\ \A g \in DOMAIN groups :
       /\ groups[g].type \in DOMAIN km.types
       /\ Len(groups[g].levels) = key.width
       /\ \A l \in 1..key.width : groups[g].levels[l] = key.syms[(g - 1) * key.width + l]

\* No reply gives a keymap that leads out of itself: there is a key for every
\* keycode, every name and alias leads to one, and its groups have a known
\* type and all their levels, even if a byte of the reply is wrong.
HoldsTogether ==
  pc = "done" =>
    /\ DOMAIN km.keys = km.min..km.max
    /\ Range(km.codeOf) \subseteq DOMAIN km.nameOf
    /\ \A c \in DOMAIN km.keys : GroupsHold(map.syms[c - km.min + 1], km.keys[c].groups)
=============================================================================

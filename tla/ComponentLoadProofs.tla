------------------------- MODULE ComponentLoadProofs -------------------------
(***************************************************************************)
(* Theorems of ComponentLoad, for any files, requests and include paths,   *)
(* and any number of changes of the Context.                               *)
(***************************************************************************)
EXTENDS ComponentLoad, SequenceTheorems, Lemmas, TLAPS

-----------------------------------------------------------------------------
(* The inductive invariant.                                                 *)

Entries == [spec : Specs, lines : Seq(Lines)]
Items == [is : {"offset"}, to : Nat] \cup [is : {"line"}, text : {l.text : l \in Lines}, meant : Nat]

\* TypeOK, and what the files on the stack and the text are made of; a load
\* that goes on has a component to load.
Types ==
  /\ TypeOK
  /\ stack \in Seq(Entries)
  /\ out \in Seq(Items)
  /\ status = "loading" => kind \in DOMAIN Kinds

\* The first of the paths ps that has the file of f is the directory where f
\* was found.
FirstIn(ps, f) ==
  \E i \in DOMAIN ps :
    /\ ps[i] = f.dir
    /\ <<f.kind, f.file>> \in DOMAIN Disk[f.dir]
    /\ \A j \in 1..(i - 1) : <<f.kind, f.file>> \notin DOMAIN Disk[ps[j]]

\* Unless the paths changed otherwise, every file was found where it would be
\* found now.
FoundFirst == meddled # "otherwise" => \A f \in found : FirstIn(paths, f)

\* The files being read that shift their groups.
ShiftedFiles == {i \in DOMAIN stack : Shift(Kind, stack[i].spec) > 0}

\* As long as no shifted include is inside a shifted part, at most one of the
\* files being read shifts, and the offset written last is the one that the
\* next line is meant for.
Shifted ==
  ~Nested =>
    /\ GroupsAsAsked
    /\ OffsetAt(Len(out)) = Meant
    /\ \A i, j \in ShiftedFiles : i = j

IInv == Types /\ FoundFirst /\ Shifted

-----------------------------------------------------------------------------
(* Facts about the files and the loader's types.                            *)

(* The directory a file is found in is the first of the paths that has it.  *)
LEMMA HomeIsFirst ==
  ASSUME NEW k, NEW spec, NEW ps \in Seq(Dirs), Homes(k, spec, ps) # {}
  PROVE  \E i \in DOMAIN ps :
           /\ ps[i] = Home(k, spec, ps)
           /\ <<k, spec.file>> \in DOMAIN Disk[ps[i]]
           /\ \A j \in 1..(i - 1) : <<k, spec.file>> \notin DOMAIN Disk[ps[j]]
<1> DEFINE H == Homes(k, spec, ps)
<1>1. H \in SUBSET Nat /\ H # {}
  BY DEF Homes
<1>2. PICK i \in H : i = Min(H) /\ \A y \in H : i <= y
  <2> HIDE DEF H
  <2> QED
    BY <1>1, MinMember
<1>3. ASSUME NEW j \in 1..(i - 1) PROVE <<k, spec.file>> \notin DOMAIN Disk[ps[j]]
  <2>1. i \in 1..Len(ps) /\ DOMAIN ps = 1..Len(ps)
    BY <1>2 DEF Homes
  <2>2. j \in DOMAIN ps /\ ~(i <= j)
    BY <2>1
  <2> QED
    BY <1>2, <2>2 DEF Homes
<1> QED
  BY <1>2, <1>3 DEF Homes, Home

(* What is read is a sequence of lines of the files, and it is read only    *)
(* where the depth allows it.                                               *)
LEMMA ContentsTyped ==
  ASSUME NEW k, NEW spec, NEW depth \in Nat, NEW ps \in Seq(Dirs),
         Contents(k, spec, depth, ps) # Missing
  PROVE  depth <= MaxDepth /\ Contents(k, spec, depth, ps) \in Seq(Lines)
<1>1. depth <= MaxDepth
  BY ComponentLoadAssumption DEF Contents
<1>2. CASE spec.file = NoFile
  BY <1>1, <1>2, ComponentLoadAssumption DEF Contents
<1>3. CASE spec.file # NoFile
  <2>1. Homes(k, spec, ps) # {}
    BY <1>1, <1>3, ComponentLoadAssumption DEF Contents
  <2>2. PICK d \in Dirs : d = Home(k, spec, ps) /\ <<k, spec.file>> \in DOMAIN Disk[d]
    BY <2>1, HomeIsFirst
  <2> DEFINE sections == Disk[d][<<k, spec.file>>]
             fit == {i \in DOMAIN sections : spec.section \in {Default, sections[i].name}}
  <2>3. sections \in Seq(SectionsOnDisk)
    BY <2>2, ComponentLoadAssumption
  <2>4. Contents(k, spec, depth, ps) = Section(sections, spec.section)
    BY <1>1, <1>3, <2>1, <2>2, ComponentLoadAssumption DEF Contents
  <2>5. fit # {} /\ Section(sections, spec.section) = sections[Min(fit)].lines
    BY <2>4 DEF Section
  <2>6. Min(fit) \in fit
    <3>1. fit \in SUBSET Nat
      BY <2>3
    <3> HIDE DEF fit
    <3> QED
      BY <2>5, <3>1, MinMember
  <2>7. PICK s \in SectionsOnDisk : s.lines = Contents(k, spec, depth, ps)
    <3>1. PICK i \in DOMAIN sections : i = Min(fit)
      BY <2>6
    <3>2. sections[i] \in SectionsOnDisk
      BY <2>3
    <3> HIDE DEF sections, fit
    <3> QED
      BY <2>4, <2>5, <3>1, <3>2
  <2>8. s.lines # Missing /\ s.lines \in Seq(Range(s.lines))
    BY <2>7, ComponentLoadAssumption
  <2>9. Range(s.lines) \subseteq Lines
    BY <2>8 DEF Lines
  <2> QED
    BY <1>1, <2>7, <2>8, <2>9
<1> QED
  BY <1>2, <1>3

(* While a load goes on, its component has parts to load.                   *)
LEMMA KindFacts ==
  ASSUME Types, Loading
  PROVE  Kind \in Range(Kinds) /\ Parts \in Seq(Specs) /\ kind \in 1..4 /\ Len(Kinds) = 4
<1>1. kind \in DOMAIN Kinds /\ Kind \in Range(Kinds)
  BY DEF Types, Loading, Kind, Range
<1>2. Len(Kinds) = 4 /\ DOMAIN Kinds = 1..4
  BY DEF Kinds
<1>3. request \in Requests /\ Kind \in DOMAIN request
  BY <1>1, ComponentLoadAssumption DEF Types, TypeOK
<1>4. Range(Parts) \subseteq Specs
  <2>1. Parts = request[Kind] /\ Range(Parts) \in {Range(request[k]) : k \in DOMAIN request}
    BY <1>3 DEF Parts
  <2> QED
    BY <1>3, <2>1 DEF Specs
<1>5. Parts \in Seq(Range(Parts))
  BY <1>3, ComponentLoadAssumption DEF Parts
<1> QED
  BY <1>1, <1>2, <1>4, <1>5

(* Every part shifts its groups by a whole number.                          *)
LEMMA ShiftTyped ==
  ASSUME NEW k, NEW spec \in Specs
  PROVE  Shift(k, spec) \in Int
  BY ComponentLoadAssumption DEF Shift

(* An include of a line is a part.                                          *)
LEMMA IncludeTyped ==
  ASSUME NEW l \in Lines, l.include # NoInclude
  PROVE  l.include \in Specs
  BY DEF Specs

(* A line that is done leaves the files as they were but for itself.        *)
LEMMA AdvancedTyped ==
  ASSUME stack \in Seq(Entries), stack # <<>>, stack[1].lines # <<>>
  PROVE  /\ Advanced \in Seq(Entries)
         /\ Len(Advanced) = Len(stack)
         /\ \A i \in DOMAIN stack : Advanced[i].spec = stack[i].spec
         /\ Line \in Lines
<1>1. stack[1] \in Entries /\ 1 \in DOMAIN stack
  OBVIOUS
<1>2. PICK e \in Entries : e = stack[1]
  BY <1>1
<1>3. e.lines \in Seq(Lines) /\ e.lines # <<>>
  BY <1>2 DEF Entries
<1> DEFINE n == [e EXCEPT !.lines = Tail(e.lines)]
<1>4. n \in Entries /\ n.spec = e.spec
  <2>1. Tail(e.lines) \in Seq(Lines)
    BY <1>3
  <2> DEFINE t == Tail(e.lines)
  <2> HIDE DEF t
  <2>2. [e EXCEPT !.lines = t] \in Entries /\ [e EXCEPT !.lines = t].spec = e.spec
    BY <2>1 DEF Entries, t
  <2> QED
    BY <2>2 DEF t
<1>5. Advanced = [stack EXCEPT ![1] = n]
  BY <1>2, Zenon DEF Advanced
<1> HIDE DEF n
<1>6. Advanced \in Seq(Entries) /\ Len(Advanced) = Len(stack)
  BY <1>1, <1>4, <1>5
<1>7. ASSUME NEW i \in DOMAIN stack PROVE Advanced[i].spec = stack[i].spec
  <2>1. CASE i = 1
    BY <1>1, <1>2, <1>4, <1>5, <2>1
  <2>2. CASE i # 1
    BY <1>5, <2>2
  <2> QED
    BY <2>1, <2>2
<1>8. Line \in Lines
  BY <1>2, <1>3 DEF Line
<1> QED
  BY <1>6, <1>7, <1>8

(* The marks around a part.                                                 *)
LEMMA MarksTyped ==
  ASSUME NEW k, NEW spec \in Specs
  PROVE  /\ Before(k, spec) = <<>> \/ /\ Shift(k, spec) \in Nat \ {0}
                                      /\ Mark(Shift(k, spec)) \in Items
                                      /\ Before(k, spec) = <<Mark(Shift(k, spec))>>
         /\ After(k, spec) \in {<<>>, <<Mark(0)>>}
         /\ Mark(0) \in Items
         /\ Shift(k, spec) > 0 <=> Before(k, spec) # <<>>
         /\ Shift(k, spec) > 0 <=> After(k, spec) # <<>>
  BY ShiftTyped DEF Before, After, Mark, Items

(* A file that is opened keeps the stack and the text what they are.        *)
LEMMA OpenTyped ==
  ASSUME Types, Loading, NEW spec \in Specs, NEW rest \in Seq(Entries), Open(spec, Len(rest), rest)
  PROVE  /\ stack' \in Seq(Entries)
         /\ Len(stack') = Len(rest) + 1 /\ Len(rest) <= MaxDepth
         /\ stack'[1].spec = spec
         /\ \A i \in DOMAIN rest : stack'[i + 1] = rest[i]
         /\ out' \in Seq(Items)
<1> DEFINE lines == Contents(Kind, spec, Len(rest), paths)
           e == [spec |-> spec, lines |-> lines]
<1>1. Len(rest) \in Nat /\ paths \in Seq(Dirs) /\ out \in Seq(Items)
  BY DEF Types, TypeOK
<1>2. lines # Missing /\ stack' = <<e>> \o rest /\ out' = out \o Before(Kind, spec)
  BY DEF Open
<1>3. Len(rest) <= MaxDepth /\ lines \in Seq(Lines)
  BY <1>1, <1>2, ContentsTyped
<1>4. e \in Entries
  BY <1>3 DEF Entries
<1>5. Before(Kind, spec) \in Seq(Items)
  <2> HIDE DEF e
  <2>1. CASE Before(Kind, spec) = <<>>
    BY <2>1
  <2>2. CASE Before(Kind, spec) # <<>>
    <3>1. Before(Kind, spec) = <<Mark(Shift(Kind, spec))>> /\ Mark(Shift(Kind, spec)) \in Items
      BY <2>2, MarksTyped
    <3> QED
      BY <3>1
  <2> QED
    BY <2>1, <2>2
<1> HIDE DEF e
<1>6. e.spec = spec
  BY DEF e
<1> QED
  BY <1>1, <1>2, <1>3, <1>4, <1>5, <1>6

-----------------------------------------------------------------------------
(* The types are kept.                                                      *)

(* The types hold at the beginning.                                         *)
LEMMA TypesInit ==
  ASSUME Init
  PROVE  Types
<1>1. 1 \in DOMAIN Kinds /\ 1 \in 1..(Len(Kinds) + 1)
  BY DEF Kinds
<1>2. paths \in Seq(Dirs) /\ 0 \in 0..MaxChanges /\ Len(<<>>) <= MaxDepth + 1
  BY ComponentLoadAssumption DEF Init
<1>3. stack \in Seq(Entries) /\ out \in Seq(Items) /\ stack = <<>>
  BY DEF Init
<1> QED
  BY <1>1, <1>2, <1>3 DEF Init, Types, TypeOK

(* The stack's part of TypeOK follows from its elements' types.             *)
LEMMA StackTyped ==
  ASSUME NEW st \in Seq(Entries)
  PROVE  \A i \in DOMAIN st : st[i].spec \in Specs /\ Range(st[i].lines) \subseteq Lines
<1> TAKE i \in DOMAIN st
<1>1. st[i] \in Entries
  OBVIOUS
<1>2. st[i].spec \in Specs /\ st[i].lines \in Seq(Lines)
  BY <1>1 DEF Entries
<1> QED
  BY <1>2 DEF Range

(* Every step keeps the types.                                              *)
LEMMA TypesStep ==
  ASSUME Types, [Next]_vars
  PROVE  Types'
<1> USE DEF Types, TypeOK, context
<1> SUFFICES
      /\ paths' \in Seq(Dirs)
      /\ logger' \in {"set", "nil"}
      /\ status' \in {"loading", "done", "failed", "crashed"}
      /\ request' = request
      /\ kind' \in 1..(Len(Kinds) + 1)
      /\ status' = "loading" => kind' \in DOMAIN Kinds
      /\ part' \in Nat \ {0}
      /\ stack' \in Seq(Entries) /\ Len(stack') <= MaxDepth + 1
      /\ out' \in Seq(Items)
      /\ changes' \in 0..MaxChanges
      /\ meddled' \in {"no", "appended", "otherwise"}
  BY StackTyped
<1>1. CASE LoadPart
  <2>1. Loading /\ Parts[part] \in Specs
    BY <1>1, KindFacts DEF LoadPart
  <2>2. Open(Parts[part], Len(<<>>), <<>>) /\ <<>> \in Seq(Entries)
    BY <1>1 DEF LoadPart
  <2>3. stack' \in Seq(Entries) /\ Len(stack') = Len(<<>>) + 1 /\ Len(<<>>) <= MaxDepth /\ out' \in Seq(Items)
    BY <2>1, <2>2, OpenTyped
  <2> QED
    BY <1>1, <2>3, ComponentLoadAssumption DEF LoadPart
<1>2. CASE Fail
  BY <1>2 DEF Fail
<1>3. CASE EndComponent
  <2>1. kind \in 1..4 /\ Len(Kinds) = 4 /\ DOMAIN Kinds = 1..4
    BY <1>3, KindFacts DEF EndComponent, Kinds
  <2> QED
    BY <1>3, <2>1 DEF EndComponent
<1>4. CASE Copy
  <2>1. Advanced \in Seq(Entries) /\ Len(Advanced) = Len(stack) /\ Line \in Lines
    BY <1>4, AdvancedTyped DEF Copy, Reading
  <2>2. Meant \in Nat
    <3> DEFINE shifted == {i \in DOMAIN stack : Shift(Kind, stack[i].spec) > 0}
    <3>1. CASE shifted = {}
      BY <3>1 DEF Meant
    <3>2. CASE shifted # {}
      <4>1. Min(shifted) \in shifted
        <5>1. shifted \in SUBSET Nat
          OBVIOUS
        <5> HIDE DEF shifted
        <5> QED
          BY <3>2, <5>1, MinMember
      <4>2. PICK i \in DOMAIN stack : i = Min(shifted) /\ Shift(Kind, stack[i].spec) > 0
        BY <4>1
      <4>3. stack[i].spec \in Specs
        BY <4>2
      <4>4. Shift(Kind, stack[i].spec) \in Int
        BY <4>3, ShiftTyped
      <4> QED
        BY <3>2, <4>2, <4>4 DEF Meant
    <3> QED
      BY <3>1, <3>2
  <2>3. [is |-> "line", text |-> Line.text, meant |-> Meant] \in Items
    BY <2>1, <2>2 DEF Items
  <2>4. out' \in Seq(Items)
    BY <1>4, <2>3 DEF Copy
  <2> QED
    BY <1>4, <2>1, <2>4 DEF Copy
<1>5. CASE Include
  <2>1. Loading /\ Advanced \in Seq(Entries) /\ Len(Advanced) = Len(stack) /\ Line.include \in Specs
    BY <1>5, AdvancedTyped, IncludeTyped DEF Include, Reading
  <2>2. Open(Line.include, Len(Advanced), Advanced)
    BY <1>5, <2>1 DEF Include
  <2>3. stack' \in Seq(Entries) /\ Len(stack') <= MaxDepth + 1 /\ out' \in Seq(Items)
    BY <2>1, <2>2, OpenTyped, ComponentLoadAssumption
  <2> QED
    BY <1>5, <2>3 DEF Include
<1>6. CASE DropInclude
  <2>1. Advanced \in Seq(Entries) /\ Len(Advanced) = Len(stack)
    BY <1>6, AdvancedTyped DEF DropInclude, Reading
  <2> QED
    BY <1>6, <2>1 DEF DropInclude
<1>7. CASE EndFile
  <2>1. After(Kind, stack[1].spec) \in Seq(Items)
    <3>1. stack[1] \in Entries
      BY <1>7 DEF EndFile
    <3>2. stack[1].spec \in Specs
      BY <3>1 DEF Entries
    <3>3. After(Kind, stack[1].spec) \in {<<>>, <<Mark(0)>>} /\ Mark(0) \in Items
      BY <3>2, MarksTyped
    <3>4. CASE After(Kind, stack[1].spec) = <<>>
      BY <3>4
    <3>5. CASE After(Kind, stack[1].spec) = <<Mark(0)>>
      BY <3>3, <3>5
    <3> QED
      BY <3>3, <3>4, <3>5
  <2>2. Tail(stack) \in Seq(Entries) /\ Len(Tail(stack)) <= MaxDepth + 1
    BY <1>7, ComponentLoadAssumption DEF EndFile
  <2> QED
    BY <1>7, <2>1, <2>2 DEF EndFile
<1>8. CASE \E d \in Dirs : AppendIncludePath(d) \/ PrependIncludePath(d)
  <2>1. PICK d \in Dirs : AppendIncludePath(d) \/ PrependIncludePath(d)
    BY <1>8
  <2>2. Append(paths, d) \in Seq(Dirs) /\ <<d>> \o paths \in Seq(Dirs)
    OBVIOUS
  <2>3. paths' \in Seq(Dirs) /\ meddled' \in {"no", "appended", "otherwise"}
    BY <2>1, <2>2 DEF AppendIncludePath, PrependIncludePath
  <2>4. UNCHANGED <<logger, status, request, kind, part, stack, out>> /\ changes' \in 0..MaxChanges
    BY <2>1, ComponentLoadAssumption DEF AppendIncludePath, PrependIncludePath, Change
  <2> QED
    BY <2>3, <2>4
<1>9. CASE ClearIncludePaths
  BY <1>9, ComponentLoadAssumption DEF ClearIncludePaths, Change
<1>10. CASE \E l \in {"set", "nil"} : SetLogger(l)
  BY <1>10, ComponentLoadAssumption DEF SetLogger, Change
<1>11. CASE UNCHANGED vars
  BY <1>11 DEF vars
<1> QED
  BY <1>1, <1>2, <1>3, <1>4, <1>5, <1>6, <1>7, <1>8, <1>9, <1>10, <1>11 DEF Next, Load

-----------------------------------------------------------------------------
(* Files are found where they were found before.                            *)

(* A path that is appended comes after the ones that have the file.         *)
LEMMA FirstAfterAppend ==
  ASSUME NEW ps \in Seq(Dirs), NEW d \in Dirs, NEW f, FirstIn(ps, f)
  PROVE  FirstIn(Append(ps, d), f)
<1>1. PICK i \in DOMAIN ps :
        /\ ps[i] = f.dir
        /\ <<f.kind, f.file>> \in DOMAIN Disk[f.dir]
        /\ \A j \in 1..(i - 1) : <<f.kind, f.file>> \notin DOMAIN Disk[ps[j]]
  BY DEF FirstIn
<1> DEFINE qs == Append(ps, d)
<1>2. i \in DOMAIN qs /\ qs[i] = ps[i] /\ \A j \in 1..(i - 1) : qs[j] = ps[j]
  OBVIOUS
<1> HIDE DEF qs
<1>3. FirstIn(qs, f)
  BY <1>1, <1>2 DEF FirstIn
<1> QED
  BY <1>3 DEF qs

(* Only one directory has a file first.                                     *)
LEMMA FirstIsOne ==
  ASSUME NEW ps \in Seq(Dirs), NEW f, NEW g, f.kind = g.kind, f.file = g.file,
         FirstIn(ps, f), FirstIn(ps, g)
  PROVE  f.dir = g.dir
<1>1. PICK i \in DOMAIN ps :
        /\ ps[i] = f.dir
        /\ <<f.kind, f.file>> \in DOMAIN Disk[f.dir]
        /\ \A j \in 1..(i - 1) : <<f.kind, f.file>> \notin DOMAIN Disk[ps[j]]
  BY DEF FirstIn
<1>2. PICK l \in DOMAIN ps :
        /\ ps[l] = g.dir
        /\ <<f.kind, f.file>> \in DOMAIN Disk[g.dir]
        /\ \A j \in 1..(l - 1) : <<f.kind, f.file>> \notin DOMAIN Disk[ps[j]]
  BY DEF FirstIn
<1>3. i \notin 1..(l - 1) /\ l \notin 1..(i - 1)
  BY <1>1, <1>2
<1>4. i = l
  BY <1>3
<1> QED
  BY <1>1, <1>2, <1>4

(* A file that is opened is found in the first of the paths that has it.    *)
LEMMA OpenFindsFirst ==
  ASSUME NEW spec, NEW depth \in Nat, NEW rest, paths \in Seq(Dirs), Open(spec, depth, rest)
  PROVE  \A f \in found' : f \in found \/ FirstIn(paths, f)
<1>1. CASE spec.file = NoFile
  BY <1>1 DEF Open
<1>2. CASE spec.file # NoFile
  <2> DEFINE h == [kind |-> Kind, file |-> spec.file, dir |-> Home(Kind, spec, paths)]
  <2>1. Homes(Kind, spec, paths) # {}
    BY <1>2 DEF Open, Contents
  <2>2. found' = found \cup {h}
    BY <1>2 DEF Open
  <2>3. h.kind = Kind /\ h.file = spec.file /\ h.dir = Home(Kind, spec, paths)
    OBVIOUS
  <2> HIDE DEF h
  <2>4. FirstIn(paths, h)
    BY <2>1, <2>3, HomeIsFirst DEF FirstIn
  <2> QED
    BY <2>2, <2>4
<1> QED
  BY <1>1, <1>2

(* Every step finds files where they are found first, and keeps the others  *)
(* first.                                                                   *)
LEMMA FoundStep ==
  ASSUME Types, FoundFirst, [Next]_vars
  PROVE  FoundFirst'
<1>1. meddled # "otherwise" => \A f \in found : FirstIn(paths, f)
  BY DEF FoundFirst
<1>2. SUFFICES ASSUME meddled' # "otherwise", NEW f \in found' PROVE FirstIn(paths', f)
  BY DEF FoundFirst
<1>3. paths \in Seq(Dirs)
  BY DEF Types, TypeOK
<1>4. CASE LoadPart
  <2>1. Open(Parts[part], 0, <<>>) /\ UNCHANGED <<paths, meddled>>
    BY <1>4 DEF LoadPart, context
  <2> QED
    BY <1>1, <1>2, <1>3, <2>1, OpenFindsFirst
<1>5. CASE Include
  <2>1. Open(Line.include, Len(stack), Advanced) /\ UNCHANGED <<paths, meddled>> /\ Len(stack) \in Nat
    BY <1>5 DEF Include, context, Types
  <2> QED
    BY <1>1, <1>2, <1>3, <2>1, OpenFindsFirst
<1>6. CASE Fail \/ EndComponent \/ Copy \/ DropInclude \/ EndFile
  <2>1. UNCHANGED <<paths, meddled, found>>
    BY <1>6 DEF Fail, EndComponent, Copy, DropInclude, EndFile, context
  <2> QED
    BY <1>1, <1>2, <2>1
<1>7. CASE \E d \in Dirs : AppendIncludePath(d) \/ PrependIncludePath(d)
  <2>1. PICK d \in Dirs : AppendIncludePath(d)
    BY <1>2, <1>7 DEF PrependIncludePath
  <2>2. paths' = Append(paths, d) /\ found' = found /\ meddled # "otherwise"
    BY <1>2, <2>1 DEF AppendIncludePath, Change
  <2> QED
    BY <1>1, <1>2, <1>3, <2>2, FirstAfterAppend
<1>8. CASE ClearIncludePaths
  BY <1>2, <1>8 DEF ClearIncludePaths
<1>9. CASE (\E l \in {"set", "nil"} : SetLogger(l)) \/ UNCHANGED vars
  <2>1. UNCHANGED <<paths, meddled, found>>
    BY <1>9 DEF SetLogger, Change, vars, context
  <2> QED
    BY <1>1, <1>2, <2>1
<1> QED
  BY <1>4, <1>5, <1>6, <1>7, <1>8, <1>9 DEF Next, Load

-----------------------------------------------------------------------------
(* The offsets written into the text.                                       *)

\* OffsetAt, Nested and GroupsAsAsked of a text t, and Meant and ShiftedFiles
\* of a stack st.
MarksIn(t, i) == {j \in 1..i : t[j].is = "offset"}
OffsetIn(t, i) == IF MarksIn(t, i) = {} THEN 0 ELSE t[Max(MarksIn(t, i))].to
NestedIn(t) == \E i \in DOMAIN t : t[i].is = "offset" /\ t[i].to > 0 /\ OffsetIn(t, i - 1) > 0
GroupsIn(t) == \A i \in DOMAIN t : t[i].is = "line" => t[i].meant = OffsetIn(t, i)
ShiftedIn(k, st) == {i \in DOMAIN st : Shift(k, st[i].spec) > 0}
MeantIn(k, st) ==
  IF ShiftedIn(k, st) = {} THEN 0 ELSE Shift(k, st[Min(ShiftedIn(k, st))].spec)
Fits(k, st, t) ==
  ~NestedIn(t) =>
    /\ GroupsIn(t)
    /\ OffsetIn(t, Len(t)) = MeantIn(k, st)
    /\ \A i, j \in ShiftedIn(k, st) : i = j

(* Shifted is about the files being read and the text so far.               *)
LEMMA ShiftedIsFits ==
  /\ Shifted <=> Fits(Kind, stack, out)
  /\ Shifted' <=> Fits(Kind', stack', out')
  BY DEF Shifted, Fits, Nested, NestedIn, GroupsAsAsked, GroupsIn, OffsetAt, OffsetIn, Marks, MarksIn,
         Meant, MeantIn, ShiftedFiles, ShiftedIn

(* The marks of a text are finitely many numbers.                           *)
LEMMA MarksFinite ==
  ASSUME NEW t, NEW i \in Nat
  PROVE  MarksIn(t, i) \in SUBSET Nat /\ IsFiniteSet(MarksIn(t, i))
<1>1. MarksIn(t, i) \subseteq 1..i /\ IsFiniteSet(1..i)
  BY FS_Interval DEF MarksIn
<1> QED
  BY <1>1, FS_Subset

(* What is appended changes no offset before it.                            *)
LEMMA OffsetKept ==
  ASSUME NEW t \in Seq(Items), NEW x \in Items, NEW i \in 0..Len(t)
  PROVE  OffsetIn(Append(t, x), i) = OffsetIn(t, i)
<1> DEFINE u == Append(t, x)
<1>1. \A j \in 1..i : u[j] = t[j]
  OBVIOUS
<1> HIDE DEF u
<1>2. MarksIn(u, i) = MarksIn(t, i)
  BY <1>1 DEF MarksIn
<1>3. CASE MarksIn(t, i) = {}
  BY <1>2, <1>3 DEF OffsetIn, u
<1>4. CASE MarksIn(t, i) # {}
  <2>1. Max(MarksIn(t, i)) \in MarksIn(t, i)
    BY <1>4, MarksFinite, MaxBound
  <2>2. u[Max(MarksIn(t, i))] = t[Max(MarksIn(t, i))]
    BY <1>1, <2>1 DEF MarksIn
  <2> QED
    BY <1>2, <1>4, <2>2 DEF OffsetIn, u
<1> QED
  BY <1>3, <1>4

(* A mark that is appended sets the offset, and a line leaves it.           *)
LEMMA OffsetOfLast ==
  ASSUME NEW t \in Seq(Items), NEW x \in Items
  PROVE  /\ x.is = "offset" => OffsetIn(Append(t, x), Len(t) + 1) = x.to
         /\ x.is = "line" => OffsetIn(Append(t, x), Len(t) + 1) = OffsetIn(t, Len(t))
<1> DEFINE u == Append(t, x)
           n == Len(t)
<1>1. n \in Nat /\ n + 1 \in Nat /\ u[n + 1] = x
  OBVIOUS
<1>2. OffsetIn(u, n) = OffsetIn(t, n)
  BY OffsetKept
<1> HIDE DEF u, n
<1>3. ASSUME x.is = "offset" PROVE OffsetIn(u, n + 1) = x.to
  <2>1. n + 1 \in MarksIn(u, n + 1) /\ MarksIn(u, n + 1) \subseteq 1..(n + 1)
    BY <1>1, <1>3 DEF MarksIn
  <2>2. Max(MarksIn(u, n + 1)) \in MarksIn(u, n + 1) /\ n + 1 <= Max(MarksIn(u, n + 1))
    BY <1>1, <2>1, MarksFinite, MaxBound
  <2>3. Max(MarksIn(u, n + 1)) = n + 1
    BY <1>1, <2>1, <2>2
  <2> QED
    BY <1>1, <2>1, <2>3 DEF OffsetIn
<1>4. ASSUME x.is = "line" PROVE OffsetIn(u, n + 1) = OffsetIn(u, n)
  <2>1. n + 1 \notin MarksIn(u, n + 1)
    BY <1>1, <1>4 DEF MarksIn
  <2>2. MarksIn(u, n + 1) = MarksIn(u, n)
    BY <1>1, <2>1 DEF MarksIn
  <2> QED
    BY <2>2 DEF OffsetIn
<1> QED
  BY <1>2, <1>3, <1>4 DEF u, n

(* A text stays nested, and a shift within a shift makes it so.             *)
LEMMA NestedAfter ==
  ASSUME NEW t \in Seq(Items), NEW x \in Items
  PROVE  /\ NestedIn(t) => NestedIn(Append(t, x))
         /\ x.is = "offset" /\ x.to > 0 /\ OffsetIn(t, Len(t)) > 0 => NestedIn(Append(t, x))
<1> DEFINE u == Append(t, x)
           n == Len(t)
<1>1. n \in Nat /\ u[n + 1] = x /\ DOMAIN u = 1..(n + 1) /\ DOMAIN t = 1..n
  OBVIOUS
<1>2. \A i \in DOMAIN t : u[i] = t[i]
  OBVIOUS
<1>3. \A i \in 0..n : OffsetIn(u, i) = OffsetIn(t, i)
  BY OffsetKept
<1> HIDE DEF u, n
<1>4. ASSUME NestedIn(t) PROVE NestedIn(u)
  <2>1. PICK i \in DOMAIN t : t[i].is = "offset" /\ t[i].to > 0 /\ OffsetIn(t, i - 1) > 0
    BY <1>4 DEF NestedIn
  <2>2. i - 1 \in 0..n /\ i \in DOMAIN u
    BY <1>1, <2>1
  <2> QED
    BY <1>2, <1>3, <2>1, <2>2 DEF NestedIn
<1>5. ASSUME x.is = "offset", x.to > 0, OffsetIn(t, n) > 0 PROVE NestedIn(u)
  <2>1. n + 1 \in DOMAIN u /\ (n + 1) - 1 = n /\ n \in 0..n
    BY <1>1
  <2> QED
    BY <1>1, <1>3, <1>5, <2>1 DEF NestedIn
<1> QED
  BY <1>4, <1>5 DEF u, n

(* Lines keep their offsets, and one that is meant for the current offset   *)
(* has it.                                                                  *)
LEMMA GroupsAfter ==
  ASSUME NEW t \in Seq(Items), NEW x \in Items, GroupsIn(t),
         x.is = "line" => x.meant = OffsetIn(t, Len(t))
  PROVE  GroupsIn(Append(t, x))
<1> DEFINE u == Append(t, x)
           n == Len(t)
<1>1. n \in Nat /\ u[n + 1] = x /\ DOMAIN u = 1..(n + 1) /\ DOMAIN t = 1..n
  OBVIOUS
<1>2. \A i \in DOMAIN t : u[i] = t[i]
  OBVIOUS
<1>3. \A i \in 0..n : OffsetIn(u, i) = OffsetIn(t, i)
  BY OffsetKept
<1>4. x.is = "line" => x.meant = OffsetIn(u, n + 1)
  BY OffsetOfLast
<1> HIDE DEF u, n
<1>5. ASSUME NEW i \in DOMAIN u, u[i].is = "line" PROVE u[i].meant = OffsetIn(u, i)
  <2>1. CASE i = n + 1
    BY <1>1, <1>4, <1>5, <2>1
  <2>2. CASE i \in DOMAIN t
    <3>1. i \in 0..n
      BY <1>1, <2>2
    <3> QED
      BY <1>2, <1>3, <1>5, <2>2, <3>1 DEF GroupsIn
  <2> QED
    BY <1>1, <2>1, <2>2
<1> QED
  BY <1>5 DEF GroupsIn, u

-----------------------------------------------------------------------------
(* The offset written last is the one that the next line is meant for.      *)

(* The next line is meant for the only file that shifts.                    *)
LEMMA MeantOne ==
  ASSUME NEW k, NEW st \in Seq(Entries), NEW i \in ShiftedIn(k, st),
         \A j \in ShiftedIn(k, st) : j = i
  PROVE  MeantIn(k, st) = Shift(k, st[i].spec) /\ MeantIn(k, st) > 0
<1>1. ShiftedIn(k, st) \in SUBSET Nat /\ ShiftedIn(k, st) # {}
  BY DEF ShiftedIn
<1>2. Min(ShiftedIn(k, st)) = i
  BY <1>1, MinMember
<1> QED
  BY <1>1, <1>2 DEF MeantIn, ShiftedIn

(* A file on top that shifts nothing makes no difference.                   *)
LEMMA PlainOnTop ==
  ASSUME NEW k, NEW a \in Seq(Entries), NEW b \in Seq(Entries), Len(b) = Len(a) + 1,
         \A i \in DOMAIN a : b[i + 1] = a[i], ~(Shift(k, b[1].spec) > 0)
  PROVE  /\ (\A i, j \in ShiftedIn(k, a) : i = j) <=> (\A i, j \in ShiftedIn(k, b) : i = j)
         /\ (\A i, j \in ShiftedIn(k, a) : i = j) => MeantIn(k, a) = MeantIn(k, b)
<1>1. DOMAIN a = 1..Len(a) /\ DOMAIN b = 1..(Len(a) + 1) /\ Len(a) \in Nat
  OBVIOUS
<1>2. \A i \in ShiftedIn(k, a) : i + 1 \in ShiftedIn(k, b) /\ i \in Nat
  BY <1>1 DEF ShiftedIn
<1>3. ASSUME NEW i \in ShiftedIn(k, b) PROVE i \in Nat /\ i - 1 \in ShiftedIn(k, a)
  <2>1. i \in 1..(Len(a) + 1) /\ i # 1 /\ Shift(k, b[i].spec) > 0
    BY <1>1 DEF ShiftedIn
  <2>2. i - 1 \in DOMAIN a /\ (i - 1) + 1 = i
    BY <1>1, <2>1
  <2>3. b[i] = a[i - 1]
    BY <2>2
  <2> QED
    BY <2>1, <2>2, <2>3 DEF ShiftedIn
<1>4. (\A i, j \in ShiftedIn(k, a) : i = j) <=> (\A i, j \in ShiftedIn(k, b) : i = j)
  <2>1. ASSUME \A i, j \in ShiftedIn(k, a) : i = j, NEW i \in ShiftedIn(k, b), NEW j \in ShiftedIn(k, b)
        PROVE  i = j
    <3>1. i \in Nat /\ j \in Nat /\ i - 1 = j - 1
      BY <1>3, <2>1
    <3> QED
      BY <3>1
  <2>2. ASSUME \A i, j \in ShiftedIn(k, b) : i = j, NEW i \in ShiftedIn(k, a), NEW j \in ShiftedIn(k, a)
        PROVE  i = j
    <3>1. i \in Nat /\ j \in Nat /\ i + 1 = j + 1
      BY <1>2, <2>2
    <3> QED
      BY <3>1
  <2> QED
    BY <2>1, <2>2
<1>5. ASSUME \A i, j \in ShiftedIn(k, a) : i = j PROVE MeantIn(k, a) = MeantIn(k, b)
  <2>1. CASE ShiftedIn(k, a) = {}
    <3>1. ShiftedIn(k, b) = {}
      BY <1>3, <2>1
    <3> QED
      BY <2>1, <3>1 DEF MeantIn
  <2>2. CASE ShiftedIn(k, a) # {}
    <3>1. PICK i \in ShiftedIn(k, a) : \A j \in ShiftedIn(k, a) : j = i
      BY <1>5, <2>2
    <3>2. i + 1 \in ShiftedIn(k, b) /\ \A j \in ShiftedIn(k, b) : j = i + 1
      BY <1>2, <1>4, <1>5, <3>1
    <3>3. MeantIn(k, a) = Shift(k, a[i].spec)
      BY <3>1, MeantOne
    <3>4. MeantIn(k, b) = Shift(k, b[i + 1].spec)
      BY <3>2, MeantOne
    <3>5. b[i + 1] = a[i]
      BY DEF ShiftedIn
    <3> QED
      BY <3>3, <3>4, <3>5
  <2> QED
    BY <2>1, <2>2
<1> QED
  BY <1>4, <1>5

(* A line that is done makes no difference either.                          *)
LEMMA SameSpecs ==
  ASSUME NEW k, NEW a \in Seq(Entries), NEW b \in Seq(Entries), Len(a) = Len(b),
         \A i \in DOMAIN a : a[i].spec = b[i].spec
  PROVE  ShiftedIn(k, a) = ShiftedIn(k, b) /\ MeantIn(k, a) = MeantIn(k, b)
<1>1. DOMAIN a = DOMAIN b
  OBVIOUS
<1>2. ShiftedIn(k, a) = ShiftedIn(k, b)
  BY <1>1 DEF ShiftedIn
<1>3. CASE ShiftedIn(k, a) = {}
  BY <1>2, <1>3 DEF MeantIn
<1>4. CASE ShiftedIn(k, a) # {}
  <2>1. ShiftedIn(k, a) \in SUBSET Nat
    BY DEF ShiftedIn
  <2>2. Min(ShiftedIn(k, a)) \in DOMAIN a
    BY <1>4, <2>1, MinMember DEF ShiftedIn
  <2> QED
    BY <1>2, <2>2 DEF MeantIn
<1> QED
  BY <1>2, <1>3, <1>4

(* Opening a file writes the offset that its lines are meant for.           *)
LEMMA FitsOpen ==
  ASSUME NEW k, NEW spec \in Specs, NEW t \in Seq(Items),
         NEW a \in Seq(Entries), NEW b \in Seq(Entries), Len(b) = Len(a) + 1,
         b[1].spec = spec, \A i \in DOMAIN a : b[i + 1] = a[i], Fits(k, a, t)
  PROVE  Fits(k, b, t \o Before(k, spec))
<1>1. CASE ~(Shift(k, spec) > 0)
  <2>1. t \o Before(k, spec) = t
    BY <1>1 DEF Before
  <2> QED
    BY <1>1, <2>1, PlainOnTop DEF Fits
<1>2. CASE Shift(k, spec) > 0
  <2> DEFINE m == Mark(Shift(k, spec))
             u == Append(t, m)
  <2>1. m \in Items /\ m.is = "offset" /\ m.to = Shift(k, spec) /\ t \o Before(k, spec) = u
    <3>1. Before(k, spec) = <<m>>
      BY <1>2 DEF Before
    <3>2. m \in Items
      BY <1>2, MarksTyped
    <3>3. t \o <<m>> = u
      BY <3>2
    <3> QED
      BY <3>1, <3>2, <3>3 DEF Mark
  <2> HIDE DEF m
  <2>2. SUFFICES ASSUME ~NestedIn(u) PROVE
          /\ GroupsIn(u)
          /\ OffsetIn(u, Len(u)) = MeantIn(k, b)
          /\ \A i, j \in ShiftedIn(k, b) : i = j
    BY <2>1 DEF Fits
  <2>3. ~NestedIn(t) /\ ~(OffsetIn(t, Len(t)) > 0)
    BY <1>2, <2>1, <2>2, NestedAfter
  <2>4. GroupsIn(t) /\ ~(MeantIn(k, a) > 0) /\ \A i, j \in ShiftedIn(k, a) : i = j
    BY <2>3 DEF Fits
  <2>5. ShiftedIn(k, a) = {}
    BY <2>4, MeantOne
  <2>6. GroupsIn(u)
    BY <2>1, <2>4, GroupsAfter
  <2>7. ASSUME NEW i \in ShiftedIn(k, b) PROVE i = 1
    <3>1. SUFFICES ASSUME i # 1 PROVE FALSE
      OBVIOUS
    <3>2. i - 1 \in DOMAIN a /\ (i - 1) + 1 = i
      BY <3>1 DEF ShiftedIn
    <3>3. b[i] = a[i - 1]
      BY <3>2
    <3>4. i - 1 \in ShiftedIn(k, a)
      BY <3>2, <3>3 DEF ShiftedIn
    <3> QED
      BY <2>5, <3>4
  <2>8. 1 \in ShiftedIn(k, b)
    BY <1>2 DEF ShiftedIn
  <2>9. MeantIn(k, b) = Shift(k, spec)
    BY <2>7, <2>8, MeantOne
  <2>10. OffsetIn(u, Len(u)) = Shift(k, spec)
    <3>1. Len(u) = Len(t) + 1
      BY <2>1
    <3> QED
      BY <2>1, <3>1, OffsetOfLast
  <2> QED
    BY <2>6, <2>7, <2>9, <2>10
<1> QED
  BY <1>1, <1>2

(* Closing a file that shifted ends the shift.                              *)
LEMMA FitsEnd ==
  ASSUME NEW k, NEW t \in Seq(Items), NEW st \in Seq(Entries), st # <<>>, Fits(k, st, t)
  PROVE  Fits(k, Tail(st), t \o After(k, st[1].spec))
<1> DEFINE a == Tail(st)
           spec == st[1].spec
<1>1. a \in Seq(Entries) /\ Len(st) = Len(a) + 1 /\ \A i \in DOMAIN a : st[i + 1] = a[i]
  OBVIOUS
<1> HIDE DEF a
<1>2. CASE ~(Shift(k, spec) > 0)
  <2>1. t \o After(k, spec) = t
    BY <1>2 DEF After
  <2>2. Fits(k, a, t)
    BY <1>1, <1>2, PlainOnTop DEF Fits
  <2> QED
    BY <2>1, <2>2 DEF a
<1>3. CASE Shift(k, spec) > 0
  <2> DEFINE m == Mark(0)
             u == Append(t, m)
  <2>1. m \in Items /\ m.is = "offset" /\ m.to = 0 /\ t \o After(k, spec) = u
    <3>1. After(k, spec) = <<m>>
      BY <1>3 DEF After
    <3>2. m \in Items
      BY DEF Items, Mark
    <3>3. t \o <<m>> = u
      BY <3>2
    <3> QED
      BY <3>1, <3>2, <3>3 DEF Mark
  <2> HIDE DEF m
  <2>2. ASSUME ~NestedIn(u)
        PROVE  /\ GroupsIn(u)
               /\ OffsetIn(u, Len(u)) = MeantIn(k, a)
               /\ \A i, j \in ShiftedIn(k, a) : i = j
    <3>1. ~NestedIn(t)
      BY <2>1, <2>2, NestedAfter
    <3>2. GroupsIn(t) /\ \A i, j \in ShiftedIn(k, st) : i = j
      BY <3>1 DEF Fits
    <3>3. 1 \in ShiftedIn(k, st)
      BY <1>3 DEF ShiftedIn
    <3>4. ASSUME NEW i \in ShiftedIn(k, a) PROVE FALSE
      <4>1. i \in 1..Len(a) /\ Shift(k, a[i].spec) > 0
        BY <1>1 DEF ShiftedIn
      <4>2. i + 1 \in DOMAIN st /\ st[i + 1] = a[i] /\ i + 1 # 1
        BY <1>1, <4>1
      <4>3. i + 1 \in ShiftedIn(k, st)
        BY <4>1, <4>2 DEF ShiftedIn
      <4> QED
        BY <3>2, <3>3, <4>2, <4>3
    <3>5. MeantIn(k, a) = 0
      BY <3>4 DEF MeantIn
    <3>6. Len(u) = Len(t) + 1
      BY <2>1
    <3>7. OffsetIn(u, Len(u)) = 0
      BY <2>1, <3>6, OffsetOfLast
    <3>8. GroupsIn(u)
      BY <2>1, <3>2, GroupsAfter
    <3> QED
      BY <3>4, <3>5, <3>7, <3>8
  <2> QED
    BY <2>1, <2>2 DEF Fits, a
<1> QED
  BY <1>2, <1>3

(* A text of nothing, and no file to read.                                  *)
LEMMA FitsNothing ==
  ASSUME NEW k
  PROVE  Fits(k, <<>>, <<>>)
<1>1. ShiftedIn(k, <<>>) = {} /\ MarksIn(<<>>, 0) = {}
  BY DEF ShiftedIn, MarksIn
<1> QED
  BY <1>1 DEF Fits, GroupsIn, OffsetIn, MeantIn

(* Every step keeps the text and the stack fitting.                         *)
LEMMA ShiftedStep ==
  ASSUME Types, Shifted, [Next]_vars
  PROVE  Shifted'
<1>1. Fits(Kind, stack, out) /\ stack \in Seq(Entries) /\ out \in Seq(Items)
  BY ShiftedIsFits DEF Types
<1>2. SUFFICES Fits(Kind', stack', out')
  BY ShiftedIsFits
<1>3. CASE LoadPart
  <2>1. Loading /\ Open(Parts[part], Len(stack), stack) /\ stack = <<>> /\ Kind' = Kind
    BY <1>3 DEF LoadPart, Kind
  <2>2. Parts[part] \in Specs
    BY <1>3, <2>1, KindFacts DEF LoadPart, Types, TypeOK
  <2>3. out' = out \o Before(Kind, Parts[part])
    BY <2>1 DEF Open
  <2>4. /\ stack' \in Seq(Entries) /\ Len(stack') = Len(stack) + 1
        /\ stack'[1].spec = Parts[part] /\ \A i \in DOMAIN stack : stack'[i + 1] = stack[i]
    BY <1>1, <2>1, <2>2, OpenTyped
  <2>5. Fits(Kind, stack', out \o Before(Kind, Parts[part]))
    BY <1>1, <2>2, <2>4, FitsOpen
  <2> QED
    BY <2>1, <2>3, <2>5
<1>4. CASE Fail
  <2>1. stack' = <<>> /\ out' = <<>>
    BY <1>4 DEF Fail
  <2> QED
    BY <2>1, FitsNothing
<1>5. CASE EndComponent
  <2>1. stack = <<>> /\ stack' = <<>> /\ out' = out
    BY <1>5 DEF EndComponent
  <2>2. \A k : ShiftedIn(k, <<>>) = {}
    BY DEF ShiftedIn
  <2>3. \A k : MeantIn(k, <<>>) = 0
    BY <2>2 DEF MeantIn
  <2> QED
    BY <1>1, <2>1, <2>2, <2>3 DEF Fits
<1>6. ASSUME stack # <<>>, stack[1].lines # <<>>
      PROVE  /\ Advanced \in Seq(Entries) /\ Line \in Lines /\ Len(Advanced) = Len(stack)
             /\ ShiftedIn(Kind, Advanced) = ShiftedIn(Kind, stack)
             /\ MeantIn(Kind, Advanced) = MeantIn(Kind, stack)
  <2>1. /\ Advanced \in Seq(Entries) /\ Line \in Lines /\ Len(Advanced) = Len(stack)
        /\ \A i \in DOMAIN stack : Advanced[i].spec = stack[i].spec
    BY <1>1, <1>6, AdvancedTyped
  <2>2. \A i \in DOMAIN Advanced : Advanced[i].spec = stack[i].spec
    BY <1>1, <2>1
  <2> QED
    BY <1>1, <2>1, <2>2, SameSpecs
<1>7. CASE Copy
  <2> DEFINE x == [is |-> "line", text |-> Line.text, meant |-> Meant]
  <2>1. /\ stack # <<>> /\ stack[1].lines # <<>> /\ stack' = Advanced /\ Kind' = Kind
        /\ out' = Append(out, x)
    BY <1>7 DEF Copy, Reading, Kind
  <2>2. x.is = "line" /\ x.meant = MeantIn(Kind, stack) /\ Len(out') = Len(out) + 1
    BY <1>1, <2>1 DEF Meant, MeantIn, ShiftedIn
  <2>3. out' \in Seq(Items)
    BY TypesStep DEF Types
  <2>4. x \in Items
    <3>1. out'[Len(out) + 1] = x
      BY <1>1, <2>1
    <3> QED
      BY <1>1, <2>2, <2>3, <3>1
  <2> HIDE DEF x
  <2>5. ASSUME ~NestedIn(out')
        PROVE  /\ GroupsIn(out')
               /\ OffsetIn(out', Len(out')) = MeantIn(Kind, stack)
               /\ \A i, j \in ShiftedIn(Kind, stack) : i = j
    <3>1. ~NestedIn(out)
      BY <1>1, <2>1, <2>4, <2>5, NestedAfter
    <3>2. GroupsIn(out) /\ OffsetIn(out, Len(out)) = MeantIn(Kind, stack)
          /\ \A i, j \in ShiftedIn(Kind, stack) : i = j
      BY <1>1, <3>1 DEF Fits
    <3>3. GroupsIn(out')
      BY <1>1, <2>1, <2>2, <2>4, <3>2, GroupsAfter
    <3>4. OffsetIn(out', Len(out')) = OffsetIn(out, Len(out))
      BY <1>1, <2>1, <2>2, <2>4, OffsetOfLast
    <3> QED
      BY <3>2, <3>3, <3>4
  <2> QED
    BY <1>6, <2>1, <2>5 DEF Fits
<1>8. CASE Include
  <2>1. /\ Loading /\ stack # <<>> /\ stack[1].lines # <<>> /\ Line.include # NoInclude
        /\ Open(Line.include, Len(stack), Advanced) /\ Kind' = Kind
    BY <1>8 DEF Include, Reading, Kind
  <2>2. Line.include \in Specs /\ Open(Line.include, Len(Advanced), Advanced)
    BY <1>6, <2>1, IncludeTyped
  <2>3. out' = out \o Before(Kind, Line.include)
    BY <2>1 DEF Open
  <2>4. /\ stack' \in Seq(Entries) /\ Len(stack') = Len(Advanced) + 1
        /\ stack'[1].spec = Line.include /\ \A i \in DOMAIN Advanced : stack'[i + 1] = Advanced[i]
    BY <1>6, <2>1, <2>2, OpenTyped
  <2>5. Fits(Kind, Advanced, out)
    BY <1>1, <1>6, <2>1 DEF Fits
  <2>6. Fits(Kind, stack', out \o Before(Kind, Line.include))
    BY <1>1, <1>6, <2>1, <2>2, <2>4, <2>5, FitsOpen
  <2> QED
    BY <2>1, <2>3, <2>6
<1>9. CASE DropInclude
  <2>1. stack # <<>> /\ stack[1].lines # <<>> /\ stack' = Advanced /\ out' = out /\ Kind' = Kind
    BY <1>9 DEF DropInclude, Reading, Kind
  <2> QED
    BY <1>1, <1>6, <2>1 DEF Fits
<1>10. CASE EndFile
  <2>1. /\ stack # <<>> /\ stack' = Tail(stack) /\ out' = out \o After(Kind, stack[1].spec)
        /\ Kind' = Kind
    BY <1>10 DEF EndFile, Kind
  <2>2. Fits(Kind, Tail(stack), out \o After(Kind, stack[1].spec))
    BY <1>1, <2>1, FitsEnd
  <2> QED
    BY <2>1, <2>2
<1>11. ASSUME UNCHANGED <<kind, stack, out>> PROVE Fits(Kind', stack', out')
  BY <1>1, <1>11 DEF Kind
<1>12. CASE \E d \in Dirs : AppendIncludePath(d) \/ PrependIncludePath(d)
  BY <1>11, <1>12 DEF AppendIncludePath, PrependIncludePath, Change
<1>13. CASE ClearIncludePaths
  BY <1>11, <1>13 DEF ClearIncludePaths, Change
<1>14. CASE \E l \in {"set", "nil"} : SetLogger(l)
  BY <1>11, <1>14 DEF SetLogger, Change
<1>15. CASE UNCHANGED vars
  BY <1>11, <1>15 DEF vars
<1> QED
  BY <1>3, <1>4, <1>5, <1>7, <1>8, <1>9, <1>10, <1>12, <1>13, <1>14, <1>15 DEF Next, Load

-----------------------------------------------------------------------------
(* The theorems.                                                            *)

(* IInv is inductive.                                                       *)
LEMMA Inductive == Spec => []IInv
<1>1. ASSUME Init PROVE IInv
  <2>1. Types
    BY <1>1, TypesInit
  <2>2. FoundFirst
    BY <1>1 DEF Init, FoundFirst
  <2>3. Shifted
    BY <1>1, FitsNothing, ShiftedIsFits DEF Init
  <2> QED
    BY <2>1, <2>2, <2>3 DEF IInv
<1>2. ASSUME IInv, [Next]_vars PROVE IInv'
  BY <1>2, TypesStep, FoundStep, ShiftedStep DEF IInv
<1> QED
  BY <1>1, <1>2, PTL DEF Spec

(* Every reachable state of a load is well-typed, and its includes are no   *)
(* deeper than the limit, for any files, requests and include paths.        *)
THEOREM TypeCorrect == Spec => []TypeOK
<1>1. ASSUME IInv PROVE TypeOK
  BY <1>1 DEF IInv, Types
<1> QED
  BY <1>1, Inductive, PTL

(* A load reads a file it needs twice from the same directory both times,   *)
(* whichever paths other goroutines append meanwhile: findComponentFile     *)
(* takes the first that has it, and AppendIncludePath adds behind it.       *)
THEOREM SameFile == Spec => []SameFileAgain
<1>1. ASSUME IInv PROVE SameFileAgain
  <2>1. SUFFICES ASSUME meddled # "otherwise", NEW f \in found, NEW g \in found,
                        f.kind = g.kind, f.file = g.file
                 PROVE  f.dir = g.dir
    BY DEF SameFileAgain
  <2>2. paths \in Seq(Dirs) /\ FirstIn(paths, f) /\ FirstIn(paths, g)
    BY <1>1, <2>1 DEF IInv, Types, TypeOK, FoundFirst
  <2> QED
    BY <2>1, <2>2, FirstIsOne
<1> QED
  BY <1>1, Inductive, PTL

(* Every line of a layout is parsed for the group the layout was asked for, *)
(* as long as no shifted include is inside a shifted part: the group_offset *)
(* statements that loadComponentPartWithDepth writes pair up.               *)
THEOREM Groups == Spec => []GroupsAsAsked
<1>1. ASSUME IInv PROVE GroupsAsAsked
  BY <1>1 DEF IInv, Shifted, GroupsAsAsked
<1> QED
  BY <1>1, Inductive, PTL

-----------------------------------------------------------------------------
(* What a text put together of texts is.                                    *)

\* The first n elements.
Take(s, n) == [i \in 1..n |-> s[i]]

\* Texts are joined in any order: named, so that the provers do not go round in
\* equations.
AnyOrder(u, v, w) == (u \o v) \o w = u \o (v \o w)

LEMMA JoinedAnyhow ==
  ASSUME NEW T, NEW u \in Seq(T), NEW v \in Seq(T), NEW w \in Seq(T)
  PROVE  AnyOrder(u, v, w)
  BY ConcatAssociative DEF AnyOrder

LEMMA FlattenIs ==
  ASSUME NEW s, Len(s) # 0
  PROVE  FlattenSeq(s) = (CHOOSE f : f = [i \in 1..Len(s) |-> IF i = 1 THEN s[i] ELSE f[i - 1] \o s[i]])[Len(s)]
  BY DEF FlattenSeq

(* There is such a function, and what it gives is a sequence.               *)
LEMMA JoinedExists ==
  ASSUME NEW T, NEW s \in Seq(Seq(T)), s # <<>>
  PROVE  \E f \in [1..Len(s) -> Seq(T)] : \A i \in 1..Len(s) : f[i] = IF i = 1 THEN s[i] ELSE f[i - 1] \o s[i]
<1> DEFINE Body(f, i) == IF i = 1 THEN s[i] ELSE f[i - 1] \o s[i]
           Has(m) == \E f \in [1..m -> Seq(T)] : \A i \in 1..m : f[i] = Body(f, i)
           Without == {m \in 1..Len(s) : ~Has(m)}
<1>1. Len(s) \in Nat /\ Len(s) # 0 /\ \A i \in 1..Len(s) : s[i] \in Seq(T)
  BY EmptySeq
<1>2. Has(1)
  <2> DEFINE f == [i \in 1..1 |-> s[1]]
  <2>1. s[1] \in Seq(T)
    BY <1>1
  <2>2. f \in [1..1 -> Seq(T)]
    BY <2>1
  <2>3. \A i \in 1..1 : f[i] = Body(f, i)
    OBVIOUS
  <2> HIDE DEF f
  <2> QED
    BY <2>2, <2>3
<1>3. ASSUME NEW m \in Nat, m + 1 \in 1..Len(s), m # 0, Has(m) PROVE Has(m + 1)
  <2>1. PICK f \in [1..m -> Seq(T)] : \A i \in 1..m : f[i] = Body(f, i)
    BY <1>3
  <2> DEFINE last == f[m] \o s[m + 1]
             g == [i \in 1..(m + 1) |-> IF i <= m THEN f[i] ELSE last]
  <2>2. m \in 1..m /\ f[m] \in Seq(T) /\ s[m + 1] \in Seq(T)
    BY <1>1, <1>3, <2>1
  <2>3. last \in Seq(T)
    BY <2>2, ConcatProperties
  <2> HIDE DEF last
  <2>4. g \in [1..(m + 1) -> Seq(T)]
    BY <2>1, <2>3
  <2>5. ASSUME NEW i \in 1..(m + 1) PROVE g[i] = Body(g, i)
    <3>1. CASE i <= m
      <4>1. i \in 1..m /\ g[i] = f[i]
        BY <3>1
      <4>2. f[i] = Body(f, i)
        BY <2>1, <4>1
      <4>3. i # 1 => g[i - 1] = f[i - 1]
        BY <4>1
      <4> HIDE DEF g
      <4> QED
        BY <4>1, <4>2, <4>3
    <3>2. CASE i = m + 1
      <4>1. g[i] = last /\ g[i - 1] = f[m] /\ i # 1 /\ i - 1 = m
        BY <1>3, <3>2
      <4> HIDE DEF g
      <4> QED
        BY <3>2, <4>1 DEF last
    <3> QED
      BY <3>1, <3>2
  <2> HIDE DEF g
  <2> QED
    BY <2>4, <2>5
<1> HIDE DEF Has
<1>4. ASSUME Without # {} PROVE FALSE
  <2>1. Without \in SUBSET Nat
    OBVIOUS
  <2>2. PICK m \in Without : \A x \in Without : m <= x
    <3> HIDE DEF Without
    <3> QED
      BY <1>4, <2>1, MinMember
  <2>3. m \in 1..Len(s) /\ ~Has(m) /\ m # 1
    BY <1>2, <2>2
  <2>4. m - 1 \in Nat /\ m - 1 \in 1..Len(s) /\ m - 1 # 0 /\ (m - 1) + 1 = m /\ ~(m <= m - 1)
    BY <1>1, <2>3
  <2>5. Has(m - 1)
    BY <2>2, <2>4
  <2>6. Has((m - 1) + 1)
    BY <1>3, <2>3, <2>4, <2>5
  <2> QED
    BY <2>3, <2>4, <2>6
<1>5. Len(s) \in 1..Len(s)
  BY <1>1
<1>6. Has(Len(s))
  BY <1>4, <1>5
<1> QED
  BY <1>6 DEF Has

(* FlattenSeq is what its recursion says.                                   *)
LEMMA FlattenWith ==
  ASSUME NEW T, NEW s \in Seq(Seq(T)), s # <<>>
  PROVE  \E f \in [1..Len(s) -> Seq(T)] :
           /\ \A i \in 1..Len(s) : f[i] = IF i = 1 THEN s[i] ELSE f[i - 1] \o s[i]
           /\ FlattenSeq(s) = f[Len(s)]
<1>1. PICK g \in [1..Len(s) -> Seq(T)] :
             \A i \in 1..Len(s) : g[i] = IF i = 1 THEN s[i] ELSE g[i - 1] \o s[i]
  BY JoinedExists
<1> DEFINE Is(f) == f = [i \in 1..Len(s) |-> IF i = 1 THEN s[i] ELSE f[i - 1] \o s[i]]
           f == CHOOSE h : Is(h)
<1>2. Is(g)
  <2>1. g = [i \in 1..Len(s) |-> g[i]]
    OBVIOUS
  <2> QED
    BY <1>1, <2>1
<1>3. Is(f)
  <2> HIDE DEF Is
  <2> QED
    BY <1>2
<1>4. FlattenSeq(s) = f[Len(s)]
  <2>1. Len(s) # 0
    BY EmptySeq
  <2> QED
    BY <2>1, FlattenIs
<1> HIDE DEF f
<1>5. DOMAIN f = 1..Len(s) /\ \A i \in 1..Len(s) : f[i] = IF i = 1 THEN s[i] ELSE f[i - 1] \o s[i]
  BY <1>3
<1>6. \A i \in 1..Len(s) : f[i] = g[i]
  <2> DEFINE Off == {i \in 1..Len(s) : f[i] # g[i]}
  <2>0. Len(s) \in Nat /\ Off \in SUBSET Nat
    OBVIOUS
  <2> SUFFICES ASSUME Off # {} PROVE FALSE
    OBVIOUS
  <2>1. PICK i \in Off : \A j \in Off : i <= j
    <3> HIDE DEF Off
    <3> QED
      BY <2>0, MinMember
  <2>2. i \in 1..Len(s) /\ f[i] # g[i]
    BY <2>1
  <2>3. i # 1 => i - 1 \in 1..Len(s) /\ ~(i <= i - 1)
    BY <2>0, <2>2
  <2>4. i # 1 => f[i - 1] = g[i - 1]
    BY <2>1, <2>3
  <2>5. f[i] = g[i]
    BY <1>1, <1>5, <2>2, <2>4
  <2> QED
    BY <2>2, <2>5
<1>7. Len(s) \in 1..Len(s)
  BY EmptySeq
<1> QED
  BY <1>1, <1>4, <1>6, <1>7

(* And any function that follows the recursion gives it.                    *)
LEMMA FlattenUnique ==
  ASSUME NEW T, NEW s \in Seq(Seq(T)), s # <<>>, NEW g,
         \A i \in 1..Len(s) : g[i] = IF i = 1 THEN s[i] ELSE g[i - 1] \o s[i]
  PROVE  FlattenSeq(s) = g[Len(s)]
<1>1. PICK f \in [1..Len(s) -> Seq(T)] :
             /\ \A i \in 1..Len(s) : f[i] = IF i = 1 THEN s[i] ELSE f[i - 1] \o s[i]
             /\ FlattenSeq(s) = f[Len(s)]
  BY FlattenWith
<1> DEFINE Off == {i \in 1..Len(s) : f[i] # g[i]}
<1>2. Len(s) \in Nat /\ Off \in SUBSET Nat /\ Len(s) \in 1..Len(s)
  BY EmptySeq
<1>3. ASSUME Off # {} PROVE FALSE
  <2>1. PICK i \in Off : \A j \in Off : i <= j
    <3> HIDE DEF Off
    <3> QED
      BY <1>2, <1>3, MinMember
  <2>2. i \in 1..Len(s) /\ f[i] # g[i]
    BY <2>1
  <2>3. i # 1 => i - 1 \in 1..Len(s) /\ ~(i <= i - 1)
    BY <1>2, <2>2
  <2>4. i # 1 => f[i - 1] = g[i - 1]
    BY <2>1, <2>3
  <2>5. f[i] = g[i]
    BY <1>1, <2>2, <2>4
  <2> QED
    BY <2>2, <2>5
<1> QED
  BY <1>1, <1>2, <1>3

LEMMA FlattenType ==
  ASSUME NEW T, NEW s \in Seq(Seq(T))
  PROVE  FlattenSeq(s) \in Seq(T) /\ (s = <<>> => FlattenSeq(s) = <<>>)
<1>1. CASE s = <<>>
  <2>1. Len(s) = 0 /\ s \in Seq(T)
    BY <1>1
  <2> QED
    BY <1>1, <2>1 DEF FlattenSeq
<1>2. CASE s # <<>>
  <2>1. PICK f \in [1..Len(s) -> Seq(T)] : FlattenSeq(s) = f[Len(s)]
    BY <1>2, FlattenWith
  <2>2. Len(s) \in 1..Len(s)
    BY <1>2, EmptySeq
  <2> QED
    BY <1>2, <2>1, <2>2
<1> QED
  BY <1>1, <1>2

(* One more at the end.                                                     *)
LEMMA FlattenTake ==
  ASSUME NEW T, NEW s \in Seq(Seq(T)), NEW n \in Nat, n + 1 <= Len(s)
  PROVE  /\ Take(s, n) \in Seq(Seq(T))
         /\ FlattenSeq(Take(s, n + 1)) = FlattenSeq(Take(s, n)) \o s[n + 1]
<1> DEFINE more == Take(s, n + 1)
           less == Take(s, n)
<1>1. \A i \in 1..(n + 1) : s[i] \in Seq(T)
  OBVIOUS
<1>2. /\ more \in Seq(Seq(T)) /\ Len(more) = n + 1 /\ \A i \in 1..(n + 1) : more[i] = s[i]
      /\ less \in Seq(Seq(T)) /\ Len(less) = n /\ \A i \in 1..n : less[i] = s[i]
  BY <1>1 DEF Take
<1> HIDE DEF more, less
<1>3. more # <<>>
  BY <1>2, EmptySeq
<1>4. PICK f \in [1..(n + 1) -> Seq(T)] :
             /\ \A i \in 1..(n + 1) : f[i] = IF i = 1 THEN s[i] ELSE f[i - 1] \o s[i]
             /\ FlattenSeq(more) = f[n + 1]
  <2>1. PICK f \in [1..Len(more) -> Seq(T)] :
               /\ \A i \in 1..Len(more) : f[i] = IF i = 1 THEN more[i] ELSE f[i - 1] \o more[i]
               /\ FlattenSeq(more) = f[Len(more)]
    BY <1>2, <1>3, FlattenWith
  <2> QED
    BY <1>2, <2>1
<1>5. CASE n = 0
  <2>1. less = <<>>
    BY <1>2, <1>5, EmptySeq
  <2>2. FlattenSeq(less) = <<>>
    BY <1>2, <2>1, FlattenType
  <2>3. f[n + 1] = s[n + 1] /\ s[n + 1] \in Seq(T)
    BY <1>1, <1>4, <1>5
  <2>4. <<>> \o s[n + 1] = s[n + 1]
    BY <2>3, ConcatEmptySeq
  <2> QED
    BY <1>2, <1>4, <2>2, <2>3, <2>4 DEF more, less
<1>6. CASE n # 0
  <2>1. less # <<>>
    BY <1>2, <1>6, EmptySeq
  <2>2. \A i \in 1..Len(less) : f[i] = IF i = 1 THEN less[i] ELSE f[i - 1] \o less[i]
    <3> SUFFICES ASSUME NEW i \in 1..n PROVE f[i] = IF i = 1 THEN less[i] ELSE f[i - 1] \o less[i]
      BY <1>2
    <3>1. i \in 1..(n + 1)
      OBVIOUS
    <3>2. f[i] = IF i = 1 THEN s[i] ELSE f[i - 1] \o s[i]
      BY <1>4, <3>1
    <3> QED
      BY <1>2, <3>2
  <2>3. FlattenSeq(less) = f[n]
    BY <1>2, <2>1, <2>2, FlattenUnique
  <2>4. f[n + 1] = f[n] \o s[n + 1]
    <3> DEFINE i == n + 1
    <3>1. i \in 1..(n + 1) /\ i # 1 /\ i - 1 = n
      BY <1>6
    <3> HIDE DEF i
    <3>2. f[i] = f[i - 1] \o s[i]
      BY <1>4, <3>1
    <3> QED
      BY <3>1, <3>2 DEF i
  <2> QED
    BY <1>2, <1>4, <2>3, <2>4 DEF more, less
<1> QED
  BY <1>5, <1>6

(* And one more at the beginning.                                           *)
LEMMA FlattenHead ==
  ASSUME NEW T, NEW x \in Seq(T), NEW s \in Seq(Seq(T))
  PROVE  FlattenSeq(<<x>> \o s) = x \o FlattenSeq(s)
<1> DEFINE n == Len(s)
           high == <<x>> \o s
<1>1. n \in Nat /\ <<x>> \in Seq(Seq(T)) /\ Len(<<x>>) = 1 /\ <<x>>[1] = x
  OBVIOUS
<1>2. /\ high \in Seq(Seq(T)) /\ Len(high) = n + 1
      /\ \A i \in 1..(n + 1) : high[i] = IF i <= 1 THEN <<x>>[i] ELSE s[i - 1]
  BY <1>1, ConcatProperties
<1>3. high # <<>> /\ high[1] = x
  BY <1>1, <1>2, EmptySeq
<1>4. CASE s = <<>>
  <2>1. FlattenSeq(s) = <<>> /\ x \o <<>> = x /\ n = 0
    BY <1>4, FlattenType, ConcatEmptySeq
  <2> DEFINE g == [i \in 1..1 |-> x]
  <2> HIDE DEF n, high
  <2>2. \A i \in 1..Len(high) : g[i] = IF i = 1 THEN high[i] ELSE g[i - 1] \o high[i]
    BY <1>2, <1>3, <2>1
  <2>3. Len(high) = 1 /\ g[1] = x
    BY <1>2, <2>1
  <2> HIDE DEF g
  <2>4. FlattenSeq(high) = g[Len(high)]
    BY <1>2, <1>3, <2>2, FlattenUnique
  <2> QED
    BY <2>1, <2>3, <2>4 DEF high
<1>5. CASE s # <<>>
  <2>1. PICK f \in [1..n -> Seq(T)] :
               /\ \A i \in 1..n : f[i] = IF i = 1 THEN s[i] ELSE f[i - 1] \o s[i]
               /\ FlattenSeq(s) = f[n]
    BY <1>5, FlattenWith
  <2>2. n # 0
    BY <1>5, EmptySeq
  <2> DEFINE g == [i \in 1..(n + 1) |-> IF i = 1 THEN x ELSE x \o f[i - 1]]
  <2> HIDE DEF n, high
  <2>3. ASSUME NEW i \in 1..(n + 1) PROVE g[i] = IF i = 1 THEN high[i] ELSE g[i - 1] \o high[i]
    <3>1. CASE i = 1
      BY <1>3, <3>1
    <3>2. CASE i = 2
      <4>1. i - 1 = 1 /\ i \in 1..(n + 1) /\ 1 \in 1..n /\ 1 \in 1..(n + 1) /\ ~(i <= 1) /\ i # 1
        BY <1>1, <2>2, <3>2
      <4>2. g[i] = x \o f[1] /\ g[1] = x
        BY <4>1
      <4>3. f[1] = s[1] /\ high[i] = s[1]
        BY <1>2, <2>1, <4>1
      <4> HIDE DEF g
      <4>4. g[i] = g[i - 1] \o high[i]
        BY <4>1, <4>2, <4>3
      <4> QED
        BY <4>1, <4>4
    <3>3. CASE i # 1 /\ i # 2
      <4>1. i - 1 \in 1..n /\ i - 2 \in 1..n /\ (i - 1) - 1 = i - 2 /\ i - 1 # 1 /\ i - 1 \in 1..(n + 1) /\ ~(i <= 1)
        BY <1>1, <3>3
      <4>2. g[i] = x \o f[i - 1] /\ g[i - 1] = x \o f[i - 2] /\ high[i] = s[i - 1]
        BY <1>2, <3>3, <4>1
      <4>3. f[i - 1] = f[i - 2] \o s[i - 1]
        <5> DEFINE j == i - 1
        <5>1. j \in 1..n /\ j # 1 /\ j - 1 = i - 2
          BY <4>1
        <5> HIDE DEF j
        <5>2. f[j] = f[j - 1] \o s[j]
          BY <2>1, <5>1
        <5> QED
          BY <5>1, <5>2 DEF j
      <4>4. f[i - 2] \in Seq(T) /\ s[i - 1] \in Seq(T)
        <5>1. \A j \in 1..n : s[j] \in Seq(T)
          BY DEF n
        <5> QED
          BY <2>1, <4>1, <5>1
      <4>5. x \o (f[i - 2] \o s[i - 1]) = (x \o f[i - 2]) \o s[i - 1]
        <5> DEFINE a == f[i - 2]
                   b == s[i - 1]
        <5>1. a \in Seq(T) /\ b \in Seq(T)
          BY <4>4
        <5> HIDE DEF a, b
        <5>2. AnyOrder(x, a, b)
          BY <5>1, JoinedAnyhow
        <5> QED
          BY <5>2, Zenon DEF AnyOrder, a, b
      <4> HIDE DEF g
      <4> QED
        BY <3>3, <4>2, <4>3, <4>5
    <3> QED
      BY <3>1, <3>2, <3>3
  <2>4. g[n + 1] = x \o f[n]
    <3>1. n + 1 \in 1..(n + 1) /\ n + 1 # 1 /\ (n + 1) - 1 = n
      BY <1>1, <2>2
    <3> QED
      BY <3>1
  <2> HIDE DEF g
  <2>5. FlattenSeq(high) = g[n + 1]
    <3>1. \A i \in 1..Len(high) : g[i] = IF i = 1 THEN high[i] ELSE g[i - 1] \o high[i]
      BY <1>2, <2>3
    <3>2. FlattenSeq(high) = g[Len(high)]
      BY <1>2, <1>3, <3>1, FlattenUnique
    <3> QED
      BY <1>2, <3>2
  <2> QED
    BY <2>1, <2>4, <2>5 DEF high
<1> QED
  BY <1>4, <1>5

-----------------------------------------------------------------------------
(* The text that LoadsWhatIsThere compares with, unfolded by one include.   *)

\* What a text is made of, what a line of a file gives when g tells of the
\* includes, and what the lines and the part give.
Things == [is : {"offset"}, to : Nat] \cup [is : {"line"}, text : {l.text : l \in Lines}]
LineOf(g, n, k, line) ==
  IF line.include = NoInclude THEN <<[is |-> "line", text |-> line.text]>>
  ELSE g[<<n - 1, k, line.include>>]
LinesOf(g, n, k, lines) == [i \in DOMAIN lines |-> LineOf(g, n, k, lines[i])]
PartOf(ps, g, n, k, spec) ==
  LET lines == Contents(k, spec, 0, ps)
  IN IF n = 0 \/ lines = Missing THEN <<>>
     ELSE Before(k, spec) \o FlattenSeq(LinesOf(g, n, k, lines)) \o After(k, spec)
AllParts(n) == (0..n) \X Range(Kinds) \X Specs

\* Two functions agree on what the body with n uses.
AgreeBefore(g, h, n) ==
  n # 0 => \A k \in Range(Kinds), spec \in Specs :
             g[<<n - 1, k, spec>>] = h[<<n - 1, k, spec>>] /\ g[<<n - 1, k, spec>>] \in Seq(Things)

LEMMA TextIs ==
  ASSUME NEW ps
  PROVE  Text(ps) = CHOOSE g : g = [x \in AllParts(MaxDepth + 1) |-> PartOf(ps, g, x[1], x[2], x[3])]
  BY DEF Text, PartOf, LinesOf, LineOf, AllParts

(* The offsets around a part are of a text.                                 *)
LEMMA MarksAreThings ==
  ASSUME NEW k, NEW spec \in Specs
  PROVE  Before(k, spec) \in Seq(Things) /\ After(k, spec) \in Seq(Things)
<1>1. ASSUME NEW n \in Nat PROVE <<Mark(n)>> \in Seq(Things)
  <2>1. Mark(n) \in Things
    BY DEF Mark, Things
  <2> QED
    BY <2>1
<1>2. Shift(k, spec) > 0 => Shift(k, spec) \in Nat
  BY ShiftTyped
<1>3. <<>> \in Seq(Things)
  OBVIOUS
<1> QED
  BY <1>1, <1>2, <1>3 DEF Before, After

(* Lines give texts.                                                        *)
LEMMA LinesTexts ==
  ASSUME NEW g, NEW n, NEW k \in Range(Kinds), NEW lines \in Seq(Lines),
         \A spec \in Specs : g[<<n - 1, k, spec>>] \in Seq(Things)
  PROVE  /\ LinesOf(g, n, k, lines) \in Seq(Seq(Things))
         /\ Len(LinesOf(g, n, k, lines)) = Len(lines)
         /\ \A i \in 1..Len(lines) : LinesOf(g, n, k, lines)[i] = LineOf(g, n, k, lines[i])
<1>1. ASSUME NEW line \in Lines PROVE LineOf(g, n, k, line) \in Seq(Things)
  <2>1. CASE line.include = NoInclude
    <3>1. [is |-> "line", text |-> line.text] \in Things
      BY DEF Things
    <3> QED
      BY <2>1, <3>1 DEF LineOf
  <2>2. CASE line.include # NoInclude
    BY <2>2, IncludeTyped DEF LineOf
  <2> QED
    BY <2>1, <2>2
<1>2. DOMAIN lines = 1..Len(lines) /\ Len(lines) \in Nat /\ \A i \in 1..Len(lines) : lines[i] \in Lines
  OBVIOUS
<1>3. \A i \in 1..Len(lines) : LineOf(g, n, k, lines[i]) \in Seq(Things)
  BY <1>1, <1>2
<1> QED
  BY <1>2, <1>3 DEF LinesOf

(* A part gives a text, and the same one with functions that agree.         *)
LEMMA PartSame ==
  ASSUME NEW ps \in Seq(Dirs), NEW n \in Nat, NEW k \in Range(Kinds), NEW spec \in Specs,
         NEW g, NEW h, AgreeBefore(g, h, n)
  PROVE  PartOf(ps, g, n, k, spec) = PartOf(ps, h, n, k, spec) /\ PartOf(ps, g, n, k, spec) \in Seq(Things)
<1> DEFINE lines == Contents(k, spec, 0, ps)
<1>1. CASE n = 0 \/ lines = Missing
  BY <1>1 DEF PartOf
<1>2. CASE n # 0 /\ lines # Missing
  <2>1. lines \in Seq(Lines)
    BY <1>2, ContentsTyped
  <2>2. \A s \in Specs : g[<<n - 1, k, s>>] = h[<<n - 1, k, s>>] /\ g[<<n - 1, k, s>>] \in Seq(Things)
    BY <1>2 DEF AgreeBefore
  <2> HIDE DEF lines
  <2>3. LinesOf(g, n, k, lines) \in Seq(Seq(Things))
    BY <2>1, <2>2, LinesTexts
  <2>4. LinesOf(g, n, k, lines) = LinesOf(h, n, k, lines)
    <3>1. ASSUME NEW i \in DOMAIN lines PROVE LineOf(g, n, k, lines[i]) = LineOf(h, n, k, lines[i])
      <4>1. lines[i] \in Lines
        BY <2>1
      <4> QED
        BY <2>2, <4>1, IncludeTyped DEF LineOf
    <3> QED
      BY <3>1 DEF LinesOf
  <2>5. PartOf(ps, g, n, k, spec) = Before(k, spec) \o FlattenSeq(LinesOf(g, n, k, lines)) \o After(k, spec)
    BY <1>2 DEF PartOf, lines
  <2>6. PartOf(ps, h, n, k, spec) = Before(k, spec) \o FlattenSeq(LinesOf(h, n, k, lines)) \o After(k, spec)
    BY <1>2 DEF PartOf, lines
  <2>7. FlattenSeq(LinesOf(g, n, k, lines)) \in Seq(Things)
    BY <2>3, FlattenType
  <2> DEFINE t == FlattenSeq(LinesOf(g, n, k, lines))
             b == Before(k, spec)
             a == After(k, spec)
  <2>8. t \in Seq(Things) /\ b \in Seq(Things) /\ a \in Seq(Things)
    BY <2>7, MarksAreThings
  <2>9. b \o t \o a \in Seq(Things)
    <3> HIDE DEF t, a, b
    <3> QED
      BY <2>8
  <2> QED
    BY <2>4, <2>5, <2>6, <2>9
<1> QED
  BY <1>1, <1>2

(* There is such a function, however deep the includes.                     *)
LEMMA TextExists ==
  ASSUME NEW ps \in Seq(Dirs), NEW d \in Nat
  PROVE  \E g \in [AllParts(d) -> Seq(Things)] :
           \A n \in 0..d, k \in Range(Kinds), spec \in Specs :
             g[<<n, k, spec>>] = PartOf(ps, g, n, k, spec)
<1> DEFINE K == Range(Kinds)
           Space(m) == [(0..m) \X K \X Specs -> Seq(Things)]
           Solves(g, m) == \A n \in 0..m, k \in K, spec \in Specs : g[<<n, k, spec>>] = PartOf(ps, g, n, k, spec)
           Has(m) == \E g \in Space(m) : Solves(g, m)
           Without == {m \in Nat : ~Has(m)}
<1> HIDE DEF K
<1>1. Has(0)
  <2> DEFINE g == [a \in (0..0) \X K \X Specs |-> <<>>]
  <2>1. g \in Space(0)
    <3>1. <<>> \in Seq(Things)
      OBVIOUS
    <3> QED
      BY <3>1
  <2>2. ASSUME NEW n \in 0..0, NEW k \in K, NEW spec \in Specs
        PROVE  g[<<n, k, spec>>] = PartOf(ps, g, n, k, spec)
    <3>1. n = 0 /\ g[<<n, k, spec>>] = <<>>
      OBVIOUS
    <3> QED
      BY <3>1 DEF PartOf
  <2>3. Solves(g, 0)
    BY <2>2
  <2> HIDE DEF g, Space, Solves
  <2> QED
    BY <2>1, <2>3
<1>2. ASSUME NEW m \in Nat, Has(m) PROVE Has(m + 1)
  <2>1. PICK g \in Space(m) : Solves(g, m)
    BY <1>2
  <2> DEFINE h == [a \in (0..(m + 1)) \X K \X Specs |->
                     IF a[1] <= m THEN g[<<a[1], a[2], a[3]>>] ELSE PartOf(ps, g, a[1], a[2], a[3])]
  <2>2. ASSUME NEW n \in 0..(m + 1), NEW k \in K, NEW spec \in Specs
        PROVE  h[<<n, k, spec>>] = IF n <= m THEN g[<<n, k, spec>>] ELSE PartOf(ps, g, n, k, spec)
    OBVIOUS
  <2>3. ASSUME NEW n \in 0..m, NEW k \in K, NEW spec \in Specs
        PROVE  g[<<n, k, spec>>] \in Seq(Things)
    BY <2>1
  <2>4. ASSUME NEW n \in 0..(m + 1), NEW k \in K, NEW spec \in Specs
        PROVE  PartOf(ps, g, n, k, spec) \in Seq(Things)
    <3>1. n # 0 => n - 1 \in 0..m
      OBVIOUS
    <3>2. AgreeBefore(g, g, n)
      BY <2>3, <3>1 DEF AgreeBefore, K
    <3>3. n \in Nat /\ k \in Range(Kinds)
      BY DEF K
    <3> QED
      BY <3>2, <3>3, PartSame
  <2>5. h \in Space(m + 1)
    <3>1. ASSUME NEW a \in (0..(m + 1)) \X K \X Specs
          PROVE  (IF a[1] <= m THEN g[<<a[1], a[2], a[3]>>] ELSE PartOf(ps, g, a[1], a[2], a[3])) \in Seq(Things)
      <4>1. a[1] \in 0..(m + 1) /\ a[2] \in K /\ a[3] \in Specs
        OBVIOUS
      <4>2. a[1] <= m => a[1] \in 0..m
        BY <4>1
      <4> QED
        BY <2>3, <2>4, <4>1, <4>2
    <3> QED
      BY <3>1
  <2>6. ASSUME NEW n \in 0..(m + 1), NEW k \in K, NEW spec \in Specs
        PROVE  h[<<n, k, spec>>] = PartOf(ps, h, n, k, spec)
    <3> HIDE DEF h, Space
    <3>1. n # 0 => n - 1 \in 0..m /\ n - 1 \in 0..(m + 1) /\ n - 1 <= m
      OBVIOUS
    <3>2. AgreeBefore(g, h, n)
      BY <2>2, <2>3, <3>1 DEF AgreeBefore, K
    <3>3. PartOf(ps, g, n, k, spec) = PartOf(ps, h, n, k, spec)
      <4>1. n \in Nat /\ k \in Range(Kinds)
        BY DEF K
      <4> QED
        BY <3>2, <4>1, PartSame
    <3>4. n <= m => g[<<n, k, spec>>] = PartOf(ps, g, n, k, spec)
      <4>1. n <= m => n \in 0..m
        OBVIOUS
      <4> QED
        BY <2>1, <4>1
    <3> QED
      BY <2>2, <3>3, <3>4
  <2>7. Solves(h, m + 1)
    <3> HIDE DEF h
    <3> QED
      BY <2>6
  <2> HIDE DEF h, Space, Solves
  <2> QED
    BY <2>5, <2>7
<1> HIDE DEF Has
<1>3. ASSUME Without # {} PROVE FALSE
  <2>1. Without \in SUBSET Nat
    OBVIOUS
  <2>2. Min(Without) \in Without /\ \A m \in Without : Min(Without) <= m
    BY <1>3, <2>1, MinMember
  <2> DEFINE m == Min(Without)
  <2>3. m \in Nat /\ ~Has(m) /\ m # 0
    BY <1>1, <2>2
  <2>4. m - 1 \in Nat /\ m - 1 \notin Without /\ (m - 1) + 1 = m
    BY <2>2, <2>3
  <2>5. Has(m - 1)
    BY <2>4
  <2> QED
    BY <1>2, <2>3, <2>4, <2>5
<1> QED
  BY <1>3 DEF Has, AllParts, K

(* Text(ps) is such a function.                                             *)
LEMMA TextSolves ==
  ASSUME NEW ps \in Seq(Dirs), NEW n \in 0..(MaxDepth + 1), NEW k \in Range(Kinds), NEW spec \in Specs
  PROVE  /\ Text(ps)[<<n, k, spec>>] = PartOf(ps, Text(ps), n, k, spec)
         /\ Text(ps)[<<n, k, spec>>] \in Seq(Things)
<1> DEFINE D == MaxDepth + 1
           A == AllParts(D)
           Is(f) == f = [x \in A |-> PartOf(ps, f, x[1], x[2], x[3])]
<1>0. D \in Nat
  BY ComponentLoadAssumption
<1>1. PICK g \in [A -> Seq(Things)] :
             \A m \in 0..D, j \in Range(Kinds), s \in Specs : g[<<m, j, s>>] = PartOf(ps, g, m, j, s)
  BY <1>0, TextExists
<1>2. Is(g)
  <2>1. ASSUME NEW x \in A PROVE g[x] = PartOf(ps, g, x[1], x[2], x[3])
    <3>1. x = <<x[1], x[2], x[3]>> /\ x[1] \in 0..D /\ x[2] \in Range(Kinds) /\ x[3] \in Specs
      BY DEF AllParts
    <3> QED
      BY <1>1, <3>1
  <2>2. g = [x \in A |-> g[x]]
    OBVIOUS
  <2> QED
    BY <2>1, <2>2
<1>3. Is(Text(ps))
  <2>1. Text(ps) = CHOOSE f : Is(f)
    BY TextIs
  <2> HIDE DEF Is
  <2> QED
    BY <1>2, <2>1
<1> DEFINE f == Text(ps)
<1>4. ASSUME NEW m \in 0..D, NEW j \in Range(Kinds), NEW s \in Specs
      PROVE  f[<<m, j, s>>] = PartOf(ps, f, m, j, s)
  <2> DEFINE x == <<m, j, s>>
  <2>1. x \in A /\ x[1] = m /\ x[2] = j /\ x[3] = s
    BY DEF AllParts
  <2> HIDE DEF f, A
  <2>2. f = [y \in A |-> PartOf(ps, f, y[1], y[2], y[3])]
    BY <1>3 DEF f
  <2> HIDE DEF x
  <2>3. f[x] = PartOf(ps, f, x[1], x[2], x[3])
    BY <2>1, <2>2
  <2> QED
    BY <2>1, <2>3 DEF x
<1> HIDE DEF f, D, Is, A
<1>5. ASSUME NEW m \in 0..D, NEW j \in Range(Kinds), NEW s \in Specs
      PROVE  f[<<m, j, s>>] \in Seq(Things)
  <2> DEFINE Bad == {b \in 0..D : \E i \in Range(Kinds), q \in Specs : f[<<b, i, q>>] \notin Seq(Things)}
  <2> SUFFICES ASSUME Bad # {} PROVE FALSE
    OBVIOUS
  <2>1. Bad \in SUBSET Nat
    OBVIOUS
  <2>2. PICK b \in Bad : \A y \in Bad : b <= y
    <3> HIDE DEF Bad
    <3> QED
      BY <2>1, MinMember
  <2>3. PICK i \in Range(Kinds), q \in Specs : b \in 0..D /\ f[<<b, i, q>>] \notin Seq(Things)
    BY <2>2
  <2>4. b # 0 => b - 1 \in 0..D /\ ~(b <= b - 1)
    BY <1>0, <2>3
  <2>5. b # 0 => \A z \in Range(Kinds), y \in Specs : f[<<b - 1, z, y>>] \in Seq(Things)
    BY <2>2, <2>4
  <2>6. AgreeBefore(f, f, b) /\ b \in Nat
    BY <2>1, <2>5 DEF AgreeBefore
  <2>7. PartOf(ps, f, b, i, q) \in Seq(Things)
    BY <2>6, PartSame
  <2> QED
    BY <1>4, <2>3, <2>7
<1> QED
  BY <1>4, <1>5 DEF f, D

-----------------------------------------------------------------------------
(* What a load will give.                                                   *)

\* What the lines of a file give with includes that are less than n deep, and
\* the end of an open file; n is what its place on the stack st allows.
Left(ps, n, k, lines) == FlattenSeq(LinesOf(Text(ps), n, k, lines))
EndOf(ps, n, k, file) == Left(ps, n, k, file.lines) \o After(k, file.spec)
Level(st, i) == MaxDepth + 1 - (Len(st) - i)

\* With the files of st read to their end, the innermost first, the text now
\* becomes whole: ends are the texts after each of them.
Gives(ends, st, ps, k, now, whole) ==
  /\ Len(ends) = Len(st)
  /\ \A i \in 1..Len(st) : ends[i] = (IF i = 1 THEN now ELSE ends[i - 1]) \o EndOf(ps, Level(st, i), k, st[i])
  /\ whole = IF st = <<>> THEN now ELSE ends[Len(st)]

\* The texts of the parts of a kind, and of the kinds; the text of the parts
\* before part p of kind j.
PartTexts(ps, j) ==
  [p \in DOMAIN request[Kinds[j]] |-> Text(ps)[<<MaxDepth + 1, Kinds[j], request[Kinds[j]][p]>>]]
KindTexts(ps) == [j \in DOMAIN Kinds |-> FlattenSeq(PartTexts(ps, j))]
UpTo(ps, j, p) == FlattenSeq(Take(KindTexts(ps), j - 1)) \o FlattenSeq(Take(PartTexts(ps, j), p - 1))

CanLoad(j, p) == Contents(Kinds[j], request[Kinds[j]][p], 0, paths) # Missing

\* As long as nobody changes the include paths, all the parts before this one
\* could be loaded, and the open files read to their end give the text of
\* these parts.
LoadInv ==
  meddled = "no" =>
    /\ \A j \in 1..(kind - 1) : /\ request[Kinds[j]] # <<>>
                                /\ \A p \in DOMAIN request[Kinds[j]] : CanLoad(j, p)
    /\ status = "loading" =>
         /\ part <= Len(request[Kinds[kind]]) + 1
         /\ \A p \in 1..(part - 1) : CanLoad(kind, p)
         /\ \E ends \in Seq(Seq(Things)) :
              Gives(ends, stack, paths, Kinds[kind], Bare(out), UpTo(paths, kind, part))
    /\ status = "done" => kind = Len(Kinds) + 1 /\ Bare(out) = FlattenSeq(KindTexts(paths))
    /\ status = "failed" =>
         \E k \in Range(Kinds) :
           request[k] = <<>> \/ \E spec \in Range(request[k]) : Contents(k, spec, 0, paths) = Missing

(* How deep an include is only decides whether it is read.                  *)
LEMMA ContentsDepth ==
  ASSUME NEW k, NEW spec, NEW depth \in Nat, NEW ps
  PROVE  Contents(k, spec, depth, ps) = IF depth > MaxDepth THEN Missing ELSE Contents(k, spec, 0, ps)
  BY ComponentLoadAssumption DEF Contents

(* What the lines of a file give, one line at a time.                       *)
LEMMA LeftFacts ==
  ASSUME NEW ps \in Seq(Dirs), NEW n \in 1..(MaxDepth + 1), NEW k \in Range(Kinds), NEW lines \in Seq(Lines)
  PROVE  /\ Left(ps, n, k, lines) \in Seq(Things)
         /\ lines = <<>> => Left(ps, n, k, lines) = <<>>
         /\ lines # <<>> => /\ LineOf(Text(ps), n, k, lines[1]) \in Seq(Things)
                            /\ Left(ps, n, k, Tail(lines)) \in Seq(Things)
                            /\ Left(ps, n, k, lines) = LineOf(Text(ps), n, k, lines[1]) \o Left(ps, n, k, Tail(lines))
<1> DEFINE g == Text(ps)
           all == LinesOf(g, n, k, lines)
<1>1. \A spec \in Specs : g[<<n - 1, k, spec>>] \in Seq(Things)
  <2>1. n - 1 \in 0..(MaxDepth + 1)
    BY ComponentLoadAssumption
  <2> QED
    BY <2>1, TextSolves
<1> HIDE DEF g
<1>2. /\ all \in Seq(Seq(Things)) /\ Len(all) = Len(lines)
      /\ \A i \in 1..Len(lines) : all[i] = LineOf(g, n, k, lines[i])
  BY <1>1, LinesTexts
<1>3. FlattenSeq(all) \in Seq(Things) /\ (all = <<>> => FlattenSeq(all) = <<>>)
  BY <1>2, FlattenType
<1>4. ASSUME lines # <<>>
      PROVE  /\ LineOf(g, n, k, lines[1]) \in Seq(Things)
             /\ FlattenSeq(LinesOf(g, n, k, Tail(lines))) \in Seq(Things)
             /\ FlattenSeq(all) = LineOf(g, n, k, lines[1]) \o FlattenSeq(LinesOf(g, n, k, Tail(lines)))
  <2> DEFINE rest == LinesOf(g, n, k, Tail(lines))
             x == LineOf(g, n, k, lines[1])
             m == Len(lines)
  <2>1. m \in Nat /\ m # 0 /\ 1 \in 1..m
    BY <1>4, EmptySeq
  <2>2. /\ Tail(lines) \in Seq(Lines) /\ Len(Tail(lines)) = m - 1
        /\ \A i \in 1..(m - 1) : Tail(lines)[i] = lines[i + 1]
    BY <1>4, HeadTailProperties
  <2>3. /\ rest \in Seq(Seq(Things)) /\ Len(rest) = m - 1
        /\ \A i \in 1..(m - 1) : rest[i] = LineOf(g, n, k, lines[i + 1])
    <3>1. /\ rest \in Seq(Seq(Things)) /\ Len(rest) = Len(Tail(lines))
          /\ \A i \in 1..Len(Tail(lines)) : rest[i] = LineOf(g, n, k, Tail(lines)[i])
      BY <1>1, <2>2, LinesTexts
    <3> HIDE DEF rest
    <3> QED
      BY <2>2, <3>1
  <2>4. x = all[1] /\ x \in Seq(Things)
    BY <1>2, <2>1
  <2> HIDE DEF all, rest, x, m
  <2>5. all = <<x>> \o rest
    <3> DEFINE high == <<x>> \o rest
    <3>1. <<x>> \in Seq(Seq(Things)) /\ Len(<<x>>) = 1 /\ <<x>>[1] = x
      BY <2>4
    <3>2. /\ high \in Seq(Seq(Things)) /\ Len(high) = m
          /\ \A i \in 1..m : high[i] = IF i <= 1 THEN <<x>>[i] ELSE rest[i - 1]
      BY <2>1, <2>3, <3>1, ConcatProperties
    <3> HIDE DEF high
    <3>3. ASSUME NEW i \in 1..m PROVE all[i] = high[i]
      <4>1. CASE i = 1
        BY <2>4, <3>1, <3>2, <4>1
      <4>2. CASE i # 1
        <5>1. i - 1 \in 1..(m - 1) /\ (i - 1) + 1 = i /\ ~(i <= 1)
          BY <2>1, <4>2
        <5>2. rest[i - 1] = LineOf(g, n, k, lines[i]) /\ high[i] = rest[i - 1]
          BY <2>3, <3>2, <5>1
        <5> QED
          BY <1>2, <5>2 DEF m
      <4> QED
        BY <4>1, <4>2
    <3>4. Len(all) = m
      BY <1>2 DEF m
    <3>5. all = high
      BY <1>2, <3>2, <3>3, <3>4, SeqEqual
    <3> QED
      BY <3>5 DEF high
  <2>6. FlattenSeq(<<x>> \o rest) = x \o FlattenSeq(rest)
    BY <2>3, <2>4, FlattenHead
  <2>7. FlattenSeq(rest) \in Seq(Things)
    BY <2>3, FlattenType
  <2> QED
    BY <2>4, <2>5, <2>6, <2>7 DEF rest, x
<1>5. lines = <<>> => all = <<>>
  BY <1>2, EmptySeq
<1> QED
  BY <1>3, <1>4, <1>5 DEF Left, g

(* The text without its ghosts is put together as the text is.              *)
LEMMA BareType ==
  ASSUME NEW o \in Seq(Items)
  PROVE  Bare(o) \in Seq(Things) /\ Len(Bare(o)) = Len(o)
<1>1. ASSUME NEW i \in 1..Len(o)
      PROVE  (IF o[i].is = "line" THEN [is |-> "line", text |-> o[i].text] ELSE o[i]) \in Things
  <2>1. o[i] \in Items
    OBVIOUS
  <2> QED
    BY <2>1 DEF Items, Things
<1>2. DOMAIN o = 1..Len(o) /\ Len(o) \in Nat
  OBVIOUS
<1>3. Bare(o) = [i \in 1..Len(o) |-> IF o[i].is = "line" THEN [is |-> "line", text |-> o[i].text] ELSE o[i]]
  BY <1>2 DEF Bare
<1> QED
  BY <1>1, <1>2, <1>3

LEMMA BareConcat ==
  ASSUME NEW o \in Seq(Items), NEW q \in Seq(Items)
  PROVE  Bare(o \o q) = Bare(o) \o Bare(q)
<1> DEFINE m == Len(o)
           n == Len(q)
           all == o \o q
           both == Bare(o) \o Bare(q)
           bare(x) == IF x.is = "line" THEN [is |-> "line", text |-> x.text] ELSE x
<1>1. /\ m \in Nat /\ n \in Nat /\ all \in Seq(Items) /\ Len(all) = m + n
      /\ \A i \in 1..(m + n) : all[i] = IF i <= m THEN o[i] ELSE q[i - m]
  BY ConcatProperties
<1>2. /\ \A i \in 1..m : Bare(o)[i] = bare(o[i])
      /\ \A i \in 1..n : Bare(q)[i] = bare(q[i])
  BY DEF Bare
<1>3. Len(Bare(o)) = m /\ Len(Bare(q)) = n /\ Bare(o) \in Seq(Things) /\ Bare(q) \in Seq(Things)
  BY BareType
<1>4. /\ both \in Seq(Things) /\ Len(both) = m + n
      /\ \A i \in 1..(m + n) : both[i] = IF i <= m THEN Bare(o)[i] ELSE Bare(q)[i - m]
  <2> DEFINE a == Bare(o)
             b == Bare(q)
  <2>1. a \in Seq(Things) /\ b \in Seq(Things) /\ Len(a) = m /\ Len(b) = n
    BY <1>3
  <2> HIDE DEF a, b, m, n
  <2>2. /\ a \o b \in Seq(Things) /\ Len(a \o b) = m + n
        /\ \A i \in 1..(m + n) : (a \o b)[i] = IF i <= m THEN a[i] ELSE b[i - m]
    BY <2>1, ConcatProperties
  <2> QED
    BY <2>2 DEF a, b
<1> HIDE DEF all, both, m, n
<1>5. Bare(all) \in Seq(Things) /\ Len(Bare(all)) = m + n
  BY <1>1, BareType
<1>6. \A i \in 1..(m + n) : Bare(all)[i] = bare(all[i])
  <2>1. DOMAIN all = 1..(m + n)
    BY <1>1
  <2> QED
    BY <2>1 DEF Bare
<1> HIDE DEF bare
<1>7. ASSUME NEW i \in 1..(m + n) PROVE Bare(all)[i] = both[i]
  <2>1. CASE i <= m
    <3>1. i \in 1..m
      BY <1>1, <2>1
    <3> QED
      BY <1>1, <1>2, <1>4, <1>6, <2>1, <3>1
  <2>2. CASE ~(i <= m)
    <3>1. i - m \in 1..n
      BY <1>1, <2>2
    <3> QED
      BY <1>1, <1>2, <1>4, <1>6, <2>2, <3>1
  <2> QED
    BY <2>1, <2>2
<1>8. Bare(all) = both
  BY <1>4, <1>5, <1>7, SeqEqual
<1> QED
  BY <1>8 DEF all, both

(* An offset has no ghost, and a line loses it.                             *)
LEMMA BareOne ==
  ASSUME NEW x \in Items
  PROVE  /\ x.is = "offset" => Bare(<<x>>) = <<x>>
         /\ x.is = "line" => Bare(<<x>>) = <<[is |-> "line", text |-> x.text]>>
<1> DEFINE y == IF x.is = "line" THEN [is |-> "line", text |-> x.text] ELSE x
<1>1. Bare(<<x>>) = [i \in 1..1 |-> y]
  <2>1. DOMAIN <<x>> = 1..1 /\ \A i \in 1..1 : <<x>>[i] = x
    OBVIOUS
  <2> QED
    BY <2>1 DEF Bare
<1> HIDE DEF y
<1>2. [i \in 1..1 |-> y] = <<y>>
  <2> DEFINE f == [i \in 1..1 |-> y]
  <2>1. f \in Seq({y}) /\ <<y>> \in Seq({y}) /\ Len(f) = 1 /\ Len(<<y>>) = 1
    OBVIOUS
  <2>2. \A i \in 1..1 : f[i] = <<y>>[i]
    OBVIOUS
  <2> HIDE DEF f
  <2>3. f = <<y>>
    BY <2>1, <2>2, SeqEqual
  <2> QED
    BY <2>3 DEF f
<1> QED
  BY <1>1, <1>2 DEF y

LEMMA BareMarks ==
  ASSUME NEW o \in Seq(Items), NEW k, NEW spec \in Specs
  PROVE  /\ Bare(o \o Before(k, spec)) = Bare(o) \o Before(k, spec)
         /\ Bare(o \o After(k, spec)) = Bare(o) \o After(k, spec)
<1>1. ASSUME NEW n \in Nat PROVE Bare(o \o <<Mark(n)>>) = Bare(o) \o <<Mark(n)>>
  <2>1. Mark(n) \in Items /\ Mark(n).is = "offset"
    BY DEF Mark, Items
  <2>2. <<Mark(n)>> \in Seq(Items)
    BY <2>1
  <2>3. Bare(<<Mark(n)>>) = <<Mark(n)>>
    BY <2>1, BareOne
  <2> QED
    BY <2>2, <2>3, BareConcat
<1>2. Bare(o \o <<>>) = Bare(o) \o <<>>
  <2>1. Bare(o) \in Seq(Things)
    BY BareType
  <2>2. o \o <<>> = o /\ Bare(o) \o <<>> = Bare(o)
    BY <2>1, ConcatEmptySeq
  <2> QED
    BY <2>2
<1>3. Shift(k, spec) > 0 => Shift(k, spec) \in Nat
  BY ShiftTyped
<1> QED
  BY <1>1, <1>2, <1>3 DEF Before, After

(* The texts after the files are the same when the innermost has another    *)
(* line to go but gives the same text.                                      *)
LEMMA GivesSame ==
  ASSUME NEW ends, NEW st, NEW other, NEW ps, NEW k, NEW now, NEW later, NEW whole,
         Gives(ends, st, ps, k, now, whole),
         st # <<>>, other # <<>>, Len(other) = Len(st),
         \A i \in 1..Len(st) : i # 1 => other[i] = st[i],
         later \o EndOf(ps, Level(st, 1), k, other[1]) = now \o EndOf(ps, Level(st, 1), k, st[1])
  PROVE  Gives(ends, other, ps, k, later, whole)
<1>1. ASSUME NEW i \in 1..Len(st)
      PROVE  ends[i] = (IF i = 1 THEN later ELSE ends[i - 1]) \o EndOf(ps, Level(other, i), k, other[i])
  <2>1. ends[i] = (IF i = 1 THEN now ELSE ends[i - 1]) \o EndOf(ps, Level(st, i), k, st[i])
    BY DEF Gives
  <2>2. Level(other, i) = Level(st, i)
    BY DEF Level
  <2>3. CASE i = 1
    BY <2>1, <2>2, <2>3
  <2>4. CASE i # 1
    BY <2>1, <2>2, <2>4
  <2> QED
    BY <2>3, <2>4
<1> QED
  BY <1>1 DEF Gives

(* A file that is opened: at its end the text is what it was to be.         *)
LEMMA GivesPush ==
  ASSUME NEW T, NEW ends \in Seq(T), NEW st \in Seq(Entries), NEW file \in Entries,
         NEW ps, NEW k, NEW now \in T, NEW later, NEW whole,
         Gives(ends, st, ps, k, now, whole),
         now = later \o EndOf(ps, MaxDepth + 1 - Len(st), k, file)
  PROVE  /\ <<now>> \o ends \in Seq(T)
         /\ Gives(<<now>> \o ends, <<file>> \o st, ps, k, later, whole)
<1> DEFINE more == <<now>> \o ends
           high == <<file>> \o st
           n == Len(st)
<1>1. n \in Nat /\ Len(ends) = n /\ MaxDepth \in Nat
  BY ComponentLoadAssumption DEF Gives
<1>2. /\ <<now>> \in Seq(T) /\ Len(<<now>>) = 1 /\ <<now>>[1] = now
      /\ <<file>> \in Seq(Entries) /\ Len(<<file>>) = 1 /\ <<file>>[1] = file
  OBVIOUS
<1>3. /\ more \in Seq(T) /\ high \in Seq(Entries) /\ Len(more) = n + 1 /\ Len(high) = n + 1
      /\ \A i \in 1..(n + 1) : more[i] = IF i <= 1 THEN <<now>>[i] ELSE ends[i - 1]
      /\ \A i \in 1..(n + 1) : high[i] = IF i <= 1 THEN <<file>>[i] ELSE st[i - 1]
  BY <1>1, <1>2, ConcatProperties
<1>4. more[1] = now /\ high[1] = file /\ high # <<>>
  BY <1>1, <1>2, <1>3, EmptySeq
<1> HIDE DEF more, high, n
<1>5. ASSUME NEW i \in 1..(n + 1)
      PROVE  more[i] = (IF i = 1 THEN later ELSE more[i - 1]) \o EndOf(ps, Level(high, i), k, high[i])
  <2>1. CASE i = 1
    <3>1. Level(high, 1) = MaxDepth + 1 - n
      BY <1>1, <1>3 DEF Level
    <3> QED
      BY <1>4, <2>1, <3>1 DEF n
  <2>2. CASE i # 1
    <3> DEFINE j == i - 1
    <3>1. j \in 1..n /\ j \in 1..(n + 1) /\ ~(i <= 1)
      BY <1>1, <2>2
    <3>2. more[i] = ends[j] /\ high[i] = st[j]
      BY <1>3, <3>1
    <3>3. Level(high, i) = Level(st, j)
      BY <1>1, <1>3, <2>2 DEF Level, n
    <3>4. more[j] = IF j = 1 THEN now ELSE ends[j - 1]
      <4>1. j # 1 => ~(j <= 1)
        BY <1>1, <3>1
      <4> HIDE DEF j
      <4> QED
        BY <1>3, <1>4, <3>1, <4>1
    <3> HIDE DEF j
    <3>5. ends[j] = (IF j = 1 THEN now ELSE ends[j - 1]) \o EndOf(ps, Level(st, j), k, st[j])
      BY <3>1 DEF Gives, n
    <3>6. more[i] = more[j] \o EndOf(ps, Level(high, i), k, high[i])
      BY <3>2, <3>3, <3>4, <3>5
    <3> QED
      BY <2>2, <3>6 DEF j
  <2> QED
    BY <2>1, <2>2
<1>6. more[n + 1] = whole
  <2>1. CASE st = <<>>
    <3>1. n = 0 /\ whole = now
      BY <2>1 DEF n, Gives
    <3> QED
      BY <1>4, <3>1
  <2>2. CASE st # <<>>
    <3>1. n # 0
      BY <2>2, EmptySeq DEF n
    <3>2. n + 1 \in 1..(n + 1) /\ ~(n + 1 <= 1) /\ (n + 1) - 1 = n
      BY <1>1, <3>1
    <3>3. whole = ends[n]
      BY <2>2 DEF Gives, n
    <3> QED
      BY <1>3, <3>2, <3>3
  <2> QED
    BY <2>1, <2>2
<1>7. Gives(more, high, ps, k, later, whole)
  BY <1>3, <1>4, <1>5, <1>6 DEF Gives
<1> QED
  BY <1>3, <1>7 DEF more, high

(* A file that has ended: the text is what it was to be.                    *)
LEMMA GivesPop ==
  ASSUME NEW T, NEW ends \in Seq(T), NEW st \in Seq(Entries), NEW ps, NEW k, NEW now, NEW whole,
         st # <<>>, Gives(ends, st, ps, k, now, whole)
  PROVE  /\ ends[1] = now \o EndOf(ps, Level(st, 1), k, st[1])
         /\ Tail(ends) \in Seq(T)
         /\ Gives(Tail(ends), Tail(st), ps, k, ends[1], whole)
<1> DEFINE n == Len(st)
           fewer == Tail(ends)
           low == Tail(st)
<1>1. n \in Nat /\ n # 0 /\ Len(ends) = n /\ ends # <<>> /\ MaxDepth \in Nat
  BY EmptySeq, ComponentLoadAssumption DEF Gives
<1>2. /\ fewer \in Seq(T) /\ low \in Seq(Entries) /\ Len(fewer) = n - 1 /\ Len(low) = n - 1
      /\ \A i \in 1..(n - 1) : fewer[i] = ends[i + 1] /\ low[i] = st[i + 1]
  BY <1>1, HeadTailProperties
<1>3. ends[1] = now \o EndOf(ps, Level(st, 1), k, st[1])
  <2>1. 1 \in 1..n
    BY <1>1
  <2> QED
    BY <2>1 DEF Gives
<1> HIDE DEF n, fewer, low
<1>4. ASSUME NEW i \in 1..(n - 1)
      PROVE  fewer[i] = (IF i = 1 THEN ends[1] ELSE fewer[i - 1]) \o EndOf(ps, Level(low, i), k, low[i])
  <2> DEFINE j == i + 1
  <2>1. j \in 1..n /\ j # 1 /\ j - 1 = i
    BY <1>1
  <2>2. Level(low, i) = Level(st, j)
    BY <1>1, <1>2 DEF Level, n
  <2>3. fewer[i] = ends[j] /\ low[i] = st[j]
    BY <1>2
  <2> HIDE DEF j
  <2>4. ends[j] = ends[i] \o EndOf(ps, Level(st, j), k, st[j])
    BY <2>1 DEF Gives, n
  <2>5. ends[i] = IF i = 1 THEN ends[1] ELSE fewer[i - 1]
    <3>1. CASE i = 1
      BY <3>1
    <3>2. CASE i # 1
      <4>1. i - 1 \in 1..(n - 1) /\ (i - 1) + 1 = i
        BY <1>1, <3>2
      <4> QED
        BY <1>2, <3>2, <4>1
    <3> QED
      BY <3>1, <3>2
  <2> QED
    BY <2>2, <2>3, <2>4, <2>5
<1>5. whole = IF low = <<>> THEN ends[1] ELSE fewer[Len(low)]
  <2>0. whole = ends[n]
    BY DEF Gives, n
  <2>1. CASE n = 1
    <3>1. low = <<>>
      BY <1>2, <2>1, EmptySeq
    <3> QED
      BY <2>0, <2>1, <3>1
  <2>2. CASE n # 1
    <3>1. n - 1 \in 1..(n - 1) /\ (n - 1) + 1 = n /\ Len(low) # 0
      BY <1>1, <1>2, <2>2
    <3>2. low # <<>>
      BY <3>1, EmptySeq
    <3> QED
      BY <1>2, <2>0, <3>1, <3>2
  <2> QED
    BY <2>1, <2>2
<1>6. Gives(fewer, low, ps, k, ends[1], whole)
  BY <1>2, <1>4, <1>5 DEF Gives
<1> QED
  BY <1>2, <1>3, <1>6 DEF fewer, low

-----------------------------------------------------------------------------
(* The text up to a part.                                                   *)

LEMMA TakeNone ==
  ASSUME NEW s
  PROVE  Take(s, 0) = <<>> /\ FlattenSeq(Take(s, 0)) = <<>>
<1>1. Take(s, 0) = <<>>
  <2>1. Take(s, 0) \in Seq({}) /\ Len(Take(s, 0)) = 0
    BY DEF Take
  <2> QED
    BY <2>1, EmptySeq
<1>2. Take(s, 0) \in Seq(Seq({}))
  <2>1. <<>> \in Seq(Seq({}))
    BY EmptySeq
  <2> QED
    BY <1>1, <2>1
<1> QED
  BY <1>1, <1>2, FlattenType

(* All of a sequence.                                                       *)
LEMMA TakeAll ==
  ASSUME NEW T, NEW s \in Seq(T)
  PROVE  Take(s, Len(s)) = s
<1>1. Take(s, Len(s)) \in Seq(T) /\ Len(Take(s, Len(s))) = Len(s)
      /\ \A i \in 1..Len(s) : Take(s, Len(s))[i] = s[i]
  BY DEF Take
<1> QED
  BY <1>1, SeqEqual

LEMMA KindsAre ==
  Len(Kinds) = 4 /\ DOMAIN Kinds = 1..4 /\ \A j \in 1..4 : Kinds[j] \in Range(Kinds)
<1>1. Len(Kinds) = 4 /\ DOMAIN Kinds = 1..4
  BY DEF Kinds
<1> QED
  BY <1>1 DEF Range

(* The parts of every kind that was asked for.                              *)
LEMMA PartsTyped ==
  ASSUME Types, NEW j \in 1..4
  PROVE  request[Kinds[j]] \in Seq(Specs)
<1>1. request \in Requests /\ Kinds[j] \in DOMAIN request
  BY KindsAre, ComponentLoadAssumption DEF Types, TypeOK
<1>2. request[Kinds[j]] \in Seq(Range(request[Kinds[j]]))
  BY <1>1, ComponentLoadAssumption
<1>3. Range(request[Kinds[j]]) \subseteq Specs
  <2>1. Range(request[Kinds[j]]) \in {Range(request[k]) : k \in DOMAIN request}
    BY <1>1
  <2> QED
    BY <1>1, <2>1 DEF Specs
<1> QED
  BY <1>2, <1>3

LEMMA PartTextsTyped ==
  ASSUME Types, NEW j \in 1..4
  PROVE  /\ PartTexts(paths, j) \in Seq(Seq(Things))
         /\ Len(PartTexts(paths, j)) = Len(request[Kinds[j]])
         /\ \A p \in 1..Len(request[Kinds[j]]) :
              PartTexts(paths, j)[p] = Text(paths)[<<MaxDepth + 1, Kinds[j], request[Kinds[j]][p]>>]
<1> DEFINE parts == request[Kinds[j]]
           n == MaxDepth + 1
<1>1. parts \in Seq(Specs) /\ paths \in Seq(Dirs) /\ Kinds[j] \in Range(Kinds)
  BY PartsTyped, KindsAre DEF Types, TypeOK
<1>2. n \in 0..(MaxDepth + 1)
  BY ComponentLoadAssumption
<1>3. DOMAIN parts = 1..Len(parts) /\ Len(parts) \in Nat /\ \A p \in 1..Len(parts) : parts[p] \in Specs
  BY <1>1
<1>4. \A p \in 1..Len(parts) : Text(paths)[<<n, Kinds[j], parts[p]>>] \in Seq(Things)
  <2> DEFINE k == Kinds[j]
  <2> HIDE DEF n, parts, k
  <2>1. \A spec \in Specs : Text(paths)[<<n, k, spec>>] \in Seq(Things)
    <3>1. paths \in Seq(Dirs) /\ n \in 0..(MaxDepth + 1) /\ k \in Range(Kinds)
      BY <1>1, <1>2 DEF k
    <3> QED
      BY <3>1, TextSolves
  <2> QED
    BY <1>3, <2>1 DEF k
<1>5. PartTexts(paths, j) = [p \in 1..Len(parts) |-> Text(paths)[<<n, Kinds[j], parts[p]>>]]
  BY <1>3 DEF PartTexts
<1> HIDE DEF parts, n
<1>6. /\ PartTexts(paths, j) \in Seq(Seq(Things)) /\ Len(PartTexts(paths, j)) = Len(parts)
      /\ \A p \in 1..Len(parts) : PartTexts(paths, j)[p] = Text(paths)[<<n, Kinds[j], parts[p]>>]
  BY <1>3, <1>4, <1>5
<1> QED
  BY <1>6 DEF parts, n

LEMMA KindTextsTyped ==
  ASSUME Types
  PROVE  /\ KindTexts(paths) \in Seq(Seq(Things)) /\ Len(KindTexts(paths)) = 4
         /\ \A j \in 1..4 : KindTexts(paths)[j] = FlattenSeq(PartTexts(paths, j))
<1>1. \A j \in 1..4 : FlattenSeq(PartTexts(paths, j)) \in Seq(Things)
  BY PartTextsTyped, FlattenType
<1>2. KindTexts(paths) = [j \in 1..4 |-> FlattenSeq(PartTexts(paths, j))]
  BY KindsAre DEF KindTexts
<1> QED
  BY <1>1, <1>2

(* With one more part.                                                      *)
LEMMA UpToPart ==
  ASSUME Types, kind \in 1..4, part \in 1..Len(request[Kinds[kind]])
  PROVE  /\ UpTo(paths, kind, part) \in Seq(Things)
         /\ UpTo(paths, kind, part + 1)
              = UpTo(paths, kind, part) \o Text(paths)[<<MaxDepth + 1, Kinds[kind], request[Kinds[kind]][part]>>]
<1> DEFINE s == PartTexts(paths, kind)
           K == KindTexts(paths)
           n == part - 1
           a == FlattenSeq(Take(K, kind - 1))
           b == FlattenSeq(Take(s, n))
           c == s[part]
<1>1. /\ s \in Seq(Seq(Things)) /\ Len(s) = Len(request[Kinds[kind]])
      /\ s[part] = Text(paths)[<<MaxDepth + 1, Kinds[kind], request[Kinds[kind]][part]>>]
  BY PartTextsTyped
<1>2. K \in Seq(Seq(Things)) /\ Len(K) = 4
  BY KindTextsTyped
<1>3. Len(request[Kinds[kind]]) \in Nat
  BY PartsTyped
<1>4. n \in Nat /\ n + 1 = part /\ (part + 1) - 1 = part /\ n + 1 <= Len(s)
      /\ kind - 1 \in Nat /\ (kind - 1) + 1 <= Len(K)
  BY <1>1, <1>2, <1>3
<1> HIDE DEF s, K, n
<1>5. Take(s, n) \in Seq(Seq(Things)) /\ FlattenSeq(Take(s, n + 1)) = b \o s[n + 1]
  BY <1>1, <1>4, FlattenTake
<1>6. Take(K, kind - 1) \in Seq(Seq(Things))
  BY <1>2, <1>4, FlattenTake
<1>7. a \in Seq(Things) /\ b \in Seq(Things)
  BY <1>5, <1>6, FlattenType
<1>8. c \in Seq(Things)
  BY <1>1, <1>4
<1>9. FlattenSeq(Take(s, part)) = b \o c
  BY <1>4, <1>5
<1>10. UpTo(paths, kind, part) = a \o b /\ UpTo(paths, kind, part + 1) = a \o FlattenSeq(Take(s, part))
  BY <1>4 DEF UpTo, s, K, n
<1> HIDE DEF a, b, c
<1>11. a \o (b \o c) = (a \o b) \o c
  <2>1. AnyOrder(a, b, c)
    BY <1>7, <1>8, JoinedAnyhow
  <2> QED
    BY <2>1, Zenon DEF AnyOrder
<1>12. a \o b \in Seq(Things)
  BY <1>7, ConcatProperties
<1> QED
  BY <1>1, <1>9, <1>10, <1>11, <1>12 DEF c

(* After the last part of a kind.                                           *)
LEMMA UpToKind ==
  ASSUME Types, kind \in 1..4, part = Len(request[Kinds[kind]]) + 1
  PROVE  UpTo(paths, kind + 1, 1) = UpTo(paths, kind, part)
<1> DEFINE s == PartTexts(paths, kind)
           K == KindTexts(paths)
           n == kind - 1
           a == FlattenSeq(Take(K, n))
           b == FlattenSeq(s)
<1>1. s \in Seq(Seq(Things)) /\ Len(s) = Len(request[Kinds[kind]])
  BY PartTextsTyped
<1>2. K \in Seq(Seq(Things)) /\ Len(K) = 4 /\ K[kind] = FlattenSeq(s)
  BY KindTextsTyped
<1>3. Len(request[Kinds[kind]]) \in Nat
  BY PartsTyped
<1>4. n \in Nat /\ n + 1 = kind /\ (kind + 1) - 1 = kind /\ n + 1 <= Len(K) /\ part - 1 = Len(s) /\ 1 - 1 = 0
  BY <1>1, <1>2, <1>3
<1> HIDE DEF s, K, n
<1>5. Take(K, n) \in Seq(Seq(Things)) /\ FlattenSeq(Take(K, n + 1)) = a \o K[n + 1]
  BY <1>2, <1>4, FlattenTake
<1>6. a \in Seq(Things) /\ b \in Seq(Things)
  BY <1>1, <1>5, FlattenType
<1>7. Take(s, Len(s)) = s
  BY <1>1, TakeAll
<1>8. UpTo(paths, kind, part) = a \o b
  BY <1>4, <1>7 DEF UpTo, s, K, n
<1>9. UpTo(paths, kind + 1, 1) = (a \o b) \o <<>>
  <2>1. UpTo(paths, kind + 1, 1)
          = FlattenSeq(Take(K, kind)) \o FlattenSeq(Take(PartTexts(paths, kind + 1), 0))
    BY <1>4 DEF UpTo, K
  <2>2. FlattenSeq(Take(K, kind)) = a \o b
    BY <1>2, <1>4, <1>5
  <2> QED
    BY <2>1, <2>2, TakeNone
<1> HIDE DEF a, b
<1>10. a \o b \in Seq(Things)
  BY <1>6, ConcatProperties
<1>11. (a \o b) \o <<>> = a \o b
  BY <1>10, ConcatEmptySeq
<1> QED
  BY <1>8, <1>9, <1>11

(* After the last kind, and before the first part.                          *)
LEMMA UpToEnds ==
  ASSUME Types
  PROVE  UpTo(paths, 5, 1) = FlattenSeq(KindTexts(paths)) /\ UpTo(paths, 1, 1) = <<>>
<1> DEFINE K == KindTexts(paths)
<1>1. K \in Seq(Seq(Things)) /\ Len(K) = 4
  BY KindTextsTyped
<1>2. Take(K, 4) = K
  BY <1>1, TakeAll
<1>3. FlattenSeq(K) \in Seq(Things)
  BY <1>1, FlattenType
<1>4. FlattenSeq(K) \o <<>> = FlattenSeq(K)
  BY <1>3, ConcatEmptySeq
<1> HIDE DEF K
<1>5. UpTo(paths, 5, 1) = FlattenSeq(K) \o <<>>
  <2>1. 5 - 1 = 4 /\ 1 - 1 = 0
    OBVIOUS
  <2> QED
    BY <1>2, <2>1, TakeNone DEF UpTo, K
<1>6. UpTo(paths, 1, 1) = <<>> \o <<>>
  <2>1. 1 - 1 = 0
    OBVIOUS
  <2> QED
    BY <2>1, TakeNone DEF UpTo
<1> QED
  BY <1>4, <1>5, <1>6 DEF K

-----------------------------------------------------------------------------
(* LoadInv is inductive.                                                    *)

\* Four texts, joined in pairs or in a row.
InPairs(a, b, c, d) == (a \o b) \o (c \o d) = a \o ((b \o c) \o d)

LEMMA JoinedInPairs ==
  ASSUME NEW T, NEW a \in Seq(T), NEW b \in Seq(T), NEW c \in Seq(T), NEW d \in Seq(T)
  PROVE  InPairs(a, b, c, d)
<1>1. \A u, v, w \in Seq(T) : AnyOrder(u, v, w)
  BY JoinedAnyhow
<1> DEFINE bc == b \o c
           cd == c \o d
<1>2. bc \in Seq(T) /\ cd \in Seq(T)
  BY ConcatProperties
<1>3. AnyOrder(a, b, cd) /\ AnyOrder(b, c, d)
  <2> HIDE DEF bc, cd
  <2> QED
    BY <1>1, <1>2
<1>4. (a \o b) \o cd = a \o (b \o cd) /\ bc \o d = b \o cd
  BY <1>3, Zenon DEF AnyOrder
<1>5. (a \o b) \o cd = a \o (bc \o d)
  <2> HIDE DEF bc, cd
  <2> QED
    BY <1>4, Zenon
<1> QED
  BY <1>5, Zenon DEF InPairs

(* What the lines being read start from.                                    *)
LEMMA ReadingFacts ==
  ASSUME Types, Loading, stack # <<>>
  PROVE  /\ kind \in 1..4 /\ Kind = Kinds[kind] /\ Kind \in Range(Kinds)
         /\ paths \in Seq(Dirs) /\ stack \in Seq(Entries) /\ out \in Seq(Items)
         /\ stack[1].spec \in Specs /\ stack[1].lines \in Seq(Lines)
         /\ Level(stack, 1) \in 1..(MaxDepth + 1)
         /\ Level(stack, 1) - 1 = MaxDepth + 1 - Len(stack)
         /\ Len(stack) \in Nat /\ MaxDepth \in Nat
<1>1. kind \in 1..4 /\ Kind = Kinds[kind] /\ Kind \in Range(Kinds)
  BY KindFacts DEF Kind
<1>2. paths \in Seq(Dirs) /\ stack \in Seq(Entries) /\ out \in Seq(Items) /\ Len(stack) <= MaxDepth + 1
  BY DEF Types, TypeOK
<1>3. stack[1] \in Entries /\ Len(stack) \in Nat \ {0} /\ MaxDepth \in Nat
  BY <1>2, EmptySeq, ComponentLoadAssumption
<1>4. stack[1].spec \in Specs /\ stack[1].lines \in Seq(Lines)
  BY <1>3 DEF Entries
<1>5. Level(stack, 1) \in 1..(MaxDepth + 1) /\ Level(stack, 1) - 1 = MaxDepth + 1 - Len(stack)
  BY <1>2, <1>3 DEF Level
<1> QED
  BY <1>1, <1>2, <1>3, <1>4, <1>5

(* A line that is done: its text belongs to the text now.                   *)
LEMMA LineDone ==
  ASSUME Types, Loading, stack # <<>>, stack[1].lines # <<>>,
         NEW ends, NEW whole, Gives(ends, stack, paths, Kind, Bare(out), whole)
  PROVE  /\ Advanced \in Seq(Entries) /\ Len(Advanced) = Len(stack)
         /\ LineOf(Text(paths), Level(stack, 1), Kind, Line) \in Seq(Things)
         /\ Gives(ends, Advanced, paths, Kind,
                  Bare(out) \o LineOf(Text(paths), Level(stack, 1), Kind, Line), whole)
<1> DEFINE top == stack[1]
           n == Level(stack, 1)
           x == LineOf(Text(paths), n, Kind, Line)
           rest == Left(paths, n, Kind, Tail(top.lines))
           end == After(Kind, top.spec)
           now == Bare(out)
<1>1. /\ Kind \in Range(Kinds) /\ paths \in Seq(Dirs) /\ stack \in Seq(Entries) /\ out \in Seq(Items)
      /\ top.spec \in Specs /\ top.lines \in Seq(Lines) /\ n \in 1..(MaxDepth + 1)
  BY ReadingFacts
<1>2. Line = top.lines[1]
  BY DEF Line
<1>3. /\ x \in Seq(Things) /\ rest \in Seq(Things)
      /\ Left(paths, n, Kind, top.lines) = x \o rest
  <2> HIDE DEF n, top
  <2> QED
    BY <1>1, <1>2, LeftFacts DEF top
<1>4. end \in Seq(Things) /\ now \in Seq(Things)
  BY <1>1, MarksAreThings, BareType
<1>5. /\ Advanced \in Seq(Entries) /\ Len(Advanced) = Len(stack) /\ Advanced # <<>>
      /\ Advanced[1].lines = Tail(top.lines) /\ Advanced[1].spec = top.spec
      /\ \A i \in 1..Len(stack) : i # 1 => Advanced[i] = stack[i]
  <2>1. Advanced \in Seq(Entries) /\ Len(Advanced) = Len(stack)
    BY <1>1, AdvancedTyped
  <2>2. Len(stack) # 0 /\ Len(stack) \in Nat
    BY <1>1, EmptySeq
  <2>3. Advanced # <<>>
    BY <2>1, <2>2, EmptySeq
  <2>4. top \in Entries
    BY <1>1, <2>2
  <2>5. \A e \in Entries : LET f == [e EXCEPT !.lines = Tail(@)] IN f.lines = Tail(e.lines) /\ f.spec = e.spec
    BY DEF Entries
  <2> DEFINE f == [top EXCEPT !.lines = Tail(@)]
  <2>6. f.lines = Tail(top.lines) /\ f.spec = top.spec
    BY <2>4, <2>5
  <2>7. Advanced = [stack EXCEPT ![1] = f]
    BY Zenon DEF Advanced
  <2> HIDE DEF f
  <2>8. Advanced[1] = f /\ \A i \in 1..Len(stack) : i # 1 => Advanced[i] = stack[i]
    BY <1>1, <2>2, <2>7
  <2> QED
    BY <2>1, <2>3, <2>6, <2>8
<1>6. EndOf(paths, n, Kind, top) = (x \o rest) \o end
  BY <1>3 DEF EndOf
<1>7. EndOf(paths, n, Kind, Advanced[1]) = rest \o end
  BY <1>5 DEF EndOf
<1>8. (now \o x) \o (rest \o end) = now \o ((x \o rest) \o end)
  <2> HIDE DEF now, x, rest, end
  <2>1. now \in Seq(Things) /\ x \in Seq(Things) /\ rest \in Seq(Things) /\ end \in Seq(Things)
    BY <1>3, <1>4
  <2>2. InPairs(now, x, rest, end)
    BY <2>1, JoinedInPairs
  <2> QED
    BY <2>2, Zenon DEF InPairs
<1>9. (now \o x) \o EndOf(paths, n, Kind, Advanced[1]) = now \o EndOf(paths, n, Kind, stack[1])
  BY <1>6, <1>7, <1>8
<1>10. Gives(ends, Advanced, paths, Kind, now \o x, whole)
  <2> HIDE DEF now, x, rest, end, top
  <2>1. Gives(ends, stack, paths, Kind, now, whole)
    BY DEF now
  <2> QED
    BY <1>5, <1>9, <2>1, GivesSame DEF n
<1> QED
  BY <1>3, <1>5, <1>10

(* A file that is opened: its text is still to come.                        *)
LEMMA FileOpened ==
  ASSUME Types, Types', Loading, NEW spec \in Specs, NEW rest \in Seq(Entries), Open(spec, Len(rest), rest),
         NEW ends \in Seq(Seq(Things)), NEW now \in Seq(Things), NEW whole,
         now = Bare(out) \o Text(paths)[<<MaxDepth + 1 - Len(rest), Kind, spec>>],
         Gives(ends, rest, paths, Kind, now, whole)
  PROVE  \E es \in Seq(Seq(Things)) : Gives(es, stack', paths, Kind, Bare(out'), whole)
<1> DEFINE depth == Len(rest)
           lines == Contents(Kind, spec, depth, paths)
           file == [spec |-> spec, lines |-> lines]
           n == MaxDepth + 1 - depth
           head == Before(Kind, spec)
           body == Left(paths, n, Kind, lines)
           end == After(Kind, spec)
           bare == Bare(out)
<1>1. /\ paths \in Seq(Dirs) /\ out \in Seq(Items) /\ Kind \in Range(Kinds)
      /\ depth \in Nat /\ MaxDepth \in Nat
  <2>1. paths \in Seq(Dirs) /\ out \in Seq(Items)
    BY DEF Types, TypeOK
  <2>2. Kind \in Range(Kinds)
    BY KindFacts
  <2>3. depth \in Nat
    OBVIOUS
  <2>4. MaxDepth \in Nat
    BY ComponentLoadAssumption
  <2> QED
    BY <2>1, <2>2, <2>3, <2>4
<1>2. lines # Missing /\ stack' = <<file>> \o rest /\ out' = out \o head
  BY DEF Open
<1>3. depth <= MaxDepth /\ lines \in Seq(Lines)
  BY <1>1, <1>2, ContentsTyped
<1>4. Contents(Kind, spec, 0, paths) = lines
  BY <1>1, <1>3, ContentsDepth
<1>5. n \in 1..(MaxDepth + 1) /\ n \in 0..(MaxDepth + 1) /\ n # 0
  BY <1>1, <1>3
<1>6. file \in Entries /\ file.spec = spec /\ file.lines = lines
  BY <1>3 DEF Entries
<1> HIDE DEF lines, file, n, depth
<1>7. Text(paths)[<<n, Kind, spec>>] = head \o body \o end
  <2>1. Text(paths)[<<n, Kind, spec>>] = PartOf(paths, Text(paths), n, Kind, spec)
    BY <1>1, <1>5, TextSolves
  <2> QED
    BY <1>2, <1>4, <1>5, <2>1 DEF PartOf, Left
<1>8. head \in Seq(Things) /\ body \in Seq(Things) /\ end \in Seq(Things) /\ bare \in Seq(Things)
  BY <1>1, <1>3, <1>5, MarksAreThings, LeftFacts, BareType
<1>9. Bare(out') = bare \o head
  BY <1>1, <1>2, BareMarks
<1>10. EndOf(paths, n, Kind, file) = body \o end
  BY <1>6 DEF EndOf
<1>11. bare \o (head \o body \o end) = (bare \o head) \o (body \o end)
  <2> HIDE DEF bare, head, body, end
  <2>1. InPairs(bare, head, body, end)
    BY <1>8, JoinedInPairs
  <2>2. (bare \o head) \o (body \o end) = bare \o ((head \o body) \o end)
    BY <2>1, Zenon DEF InPairs
  <2> QED
    BY <2>2, Zenon
<1>12. now = Bare(out') \o EndOf(paths, n, Kind, file)
  BY <1>7, <1>9, <1>10, <1>11 DEF n, depth
<1>13. /\ <<now>> \o ends \in Seq(Seq(Things))
       /\ Gives(<<now>> \o ends, <<file>> \o rest, paths, Kind, Bare(out'), whole)
  <2> DEFINE later == Bare(out')
             T == Seq(Things)
  <2>1. now = later \o EndOf(paths, MaxDepth + 1 - Len(rest), Kind, file)
    BY <1>12 DEF n, depth
  <2>2. ends \in Seq(T) /\ now \in T
    OBVIOUS
  <2> HIDE DEF later, T
  <2>3. /\ <<now>> \o ends \in Seq(T)
        /\ Gives(<<now>> \o ends, <<file>> \o rest, paths, Kind, later, whole)
    BY <1>6, <2>1, <2>2, GivesPush
  <2> QED
    BY <2>3 DEF later, T
<1> QED
  BY <1>2, <1>13

(* Nothing that LoadInv says of the parts before this one changes while the *)
(* part is read.                                                            *)
LEMMA SamePart ==
  ASSUME LoadInv, Types, Types', Loading, UNCHANGED <<paths, meddled, request, kind, part>>,
         status' \in {"loading", "crashed"},
         meddled = "no" => \E ends \in Seq(Seq(Things)) :
                             Gives(ends, stack', paths, Kinds[kind], Bare(out'), UpTo(paths, kind, part))
  PROVE  LoadInv'
<1> SUFFICES ASSUME meddled = "no"
             PROVE  LoadInv'
  BY DEF LoadInv
<1>1. status = "loading"
  BY DEF Loading
<1>2. UpTo(paths, kind, part)' = UpTo(paths, kind, part)
  BY DEF UpTo, KindTexts, PartTexts
<1>3. /\ \A j \in 1..(kind - 1) : /\ request[Kinds[j]] # <<>>
                                  /\ \A p \in DOMAIN request[Kinds[j]] : CanLoad(j, p)
      /\ part <= Len(request[Kinds[kind]]) + 1
      /\ \A p \in 1..(part - 1) : CanLoad(kind, p)
  BY <1>1 DEF LoadInv
<1>4. \A j, p : CanLoad(j, p)' = CanLoad(j, p)
  BY DEF CanLoad
<1>5. \E ends \in Seq(Seq(Things)) :
        Gives(ends, stack', paths', Kinds[kind'], Bare(out'), UpTo(paths, kind, part)')
  BY <1>2
<1> HIDE DEF UpTo
<1> QED
  BY <1>3, <1>4, <1>5 DEF LoadInv

LEMMA LoadPartKeeps ==
  ASSUME Types, Types', LoadInv, LoadPart
  PROVE  LoadInv'
<1> SUFFICES ASSUME meddled = "no" PROVE LoadInv'
  BY DEF LoadPart, LoadInv
<1> DEFINE spec == Parts[part]
           k == Kinds[kind]
           text == Text(paths)[<<MaxDepth + 1, k, spec>>]
           whole == UpTo(paths, kind, part + 1)
           before == UpTo(paths, kind, part)
           now == Bare(out)
<1>1. /\ Loading /\ status = "loading" /\ kind \in 1..4 /\ Kind = k /\ Parts = request[k]
      /\ stack = <<>> /\ part \in 1..Len(request[k]) /\ spec \in Specs
      /\ Open(spec, Len(<<>>), <<>>)
      /\ part' = part + 1 /\ UNCHANGED <<paths, status, request, kind, meddled>>
  <2>1. Loading /\ part \in Nat \ {0} /\ stack = <<>> /\ part <= Len(Parts)
    BY DEF LoadPart, Types, TypeOK
  <2>2. kind \in 1..4 /\ Kind = k /\ Parts \in Seq(Specs)
    BY <2>1, KindFacts DEF Kind
  <2>3. Parts = request[k]
    BY <2>2 DEF Parts
  <2>4. part \in 1..Len(Parts) /\ spec \in Specs
    BY <2>1, <2>2
  <2> QED
    BY <2>1, <2>2, <2>3, <2>4 DEF LoadPart, Loading, context
<1>2. whole = before \o text /\ before \in Seq(Things)
  BY <1>1, UpToPart
<1>3. PICK ends \in Seq(Seq(Things)) : Gives(ends, stack, paths, k, now, before)
  BY <1>1 DEF LoadInv
<1>4. before = now
  BY <1>1, <1>3 DEF Gives
<1>5. whole \in Seq(Things)
  <2>1. MaxDepth + 1 \in 0..(MaxDepth + 1)
    BY ComponentLoadAssumption
  <2>2. paths \in Seq(Dirs) /\ kind \in 1..4
    BY <1>1 DEF Types, TypeOK
  <2>3. k \in Range(Kinds)
    BY <2>2, KindsAre
  <2>4. text \in Seq(Things)
    <3> HIDE DEF k, spec
    <3>1. spec \in Specs
      BY <1>1
    <3>2. Text(paths)[<<MaxDepth + 1, k, spec>>] \in Seq(Things)
      BY <2>1, <2>2, <2>3, <3>1, TextSolves
    <3> QED
      BY <3>2 DEF k, spec
  <2> HIDE DEF text, before, whole
  <2> QED
    BY <1>2, <2>4, ConcatProperties
<1>6. whole = Bare(out) \o Text(paths)[<<MaxDepth + 1 - Len(<<>>), Kind, spec>>]
  <2>1. MaxDepth + 1 - Len(<<>>) = MaxDepth + 1
    BY ComponentLoadAssumption
  <2> QED
    BY <1>1, <1>2, <1>4, <2>1
<1>7. Gives(<<>>, <<>>, paths, Kind, whole, whole)
  BY DEF Gives
<1>8. \E es \in Seq(Seq(Things)) : Gives(es, stack', paths, Kind, Bare(out'), whole)
  <2>1. <<>> \in Seq(Seq(Things)) /\ <<>> \in Seq(Entries)
    BY EmptySeq
  <2> HIDE DEF whole, spec
  <2> QED
    BY <1>1, <1>5, <1>6, <1>7, <2>1, FileOpened
<1>9. UpTo(paths, kind, part)' = whole
  BY <1>1 DEF UpTo, KindTexts, PartTexts
<1>10. CanLoad(kind, part)
  <2>1. Contents(Kind, spec, 0, paths) # Missing
    BY <1>1 DEF LoadPart, Open
  <2> QED
    BY <1>1, <2>1 DEF CanLoad
<1>11. /\ \A j \in 1..(kind - 1) : /\ request[Kinds[j]] # <<>>
                                   /\ \A p \in DOMAIN request[Kinds[j]] : CanLoad(j, p)
       /\ \A p \in 1..(part - 1) : CanLoad(kind, p)
  BY <1>1 DEF LoadInv
<1>12. \A p \in 1..(part' - 1) : CanLoad(kind, p)
  <2> TAKE p \in 1..(part' - 1)
  <2>1. p = part \/ p \in 1..(part - 1)
    BY <1>1
  <2> QED
    BY <1>10, <1>11, <2>1
<1>13. part' <= Len(request[Kinds[kind]]) + 1
  <2>1. Len(request[k]) \in Nat
    BY <1>1, PartsTyped
  <2> QED
    BY <1>1, <2>1
<1>14. \A j, p : CanLoad(j, p)' = CanLoad(j, p)
  BY <1>1 DEF CanLoad
<1>15. \E es \in Seq(Seq(Things)) :
         Gives(es, stack', paths', Kinds[kind'], Bare(out'), UpTo(paths, kind, part)')
  BY <1>1, <1>8, <1>9
<1> HIDE DEF k, whole, before, now, text, spec
<1> QED
  BY <1>1, <1>11, <1>12, <1>13, <1>14, <1>15 DEF LoadInv

LEMMA EndComponentKeeps ==
  ASSUME Types, Types', LoadInv, EndComponent
  PROVE  LoadInv'
<1> SUFFICES ASSUME meddled = "no" PROVE LoadInv'
  BY DEF EndComponent, LoadInv
<1> DEFINE k == Kinds[kind]
           before == UpTo(paths, kind, part)
<1>1. /\ Loading /\ status = "loading" /\ kind \in 1..4 /\ Parts = request[k]
      /\ stack = <<>> /\ request[k] # <<>> /\ part > Len(request[k])
      /\ kind' = kind + 1 /\ part' = 1 /\ status' = (IF kind = 4 THEN "done" ELSE "loading")
      /\ UNCHANGED <<paths, request, meddled, stack, out>>
  <2>1. Loading
    BY DEF EndComponent
  <2>2. kind \in 1..4 /\ Kind = k /\ Len(Kinds) = 4
    BY <2>1, KindFacts DEF Kind
  <2>3. Parts = request[k]
    BY <2>2 DEF Parts
  <2> QED
    BY <2>1, <2>2, <2>3 DEF EndComponent, Loading, context
<1>2. /\ \A j \in 1..(kind - 1) : /\ request[Kinds[j]] # <<>>
                                  /\ \A p \in DOMAIN request[Kinds[j]] : CanLoad(j, p)
      /\ \A p \in 1..(part - 1) : CanLoad(kind, p)
      /\ part <= Len(request[k]) + 1
  BY <1>1 DEF LoadInv
<1>3. Len(request[k]) \in Nat /\ part \in Nat /\ DOMAIN request[k] = 1..Len(request[k])
  BY <1>1, PartsTyped DEF Types, TypeOK
<1>4. part = Len(request[k]) + 1
  BY <1>1, <1>2, <1>3
<1>5. \A j \in 1..(kind' - 1) : /\ request[Kinds[j]] # <<>>
                                /\ \A p \in DOMAIN request[Kinds[j]] : CanLoad(j, p)
  <2> TAKE j \in 1..(kind' - 1)
  <2>1. CASE j = kind
    <3>1. \A p \in DOMAIN request[k] : p \in 1..(part - 1)
      BY <1>3, <1>4
    <3> QED
      BY <1>1, <1>2, <2>1, <3>1
  <2>2. CASE j # kind
    <3>1. j \in 1..(kind - 1)
      BY <1>1, <2>2
    <3> QED
      BY <1>2, <3>1
  <2> QED
    BY <2>1, <2>2
<1>6. PICK ends \in Seq(Seq(Things)) : Gives(ends, stack, paths, k, Bare(out), before)
  BY <1>1 DEF LoadInv
<1>7. before = Bare(out)
  BY <1>1, <1>6 DEF Gives
<1>8. UpTo(paths, kind + 1, 1) = before
  BY <1>1, <1>4, UpToKind
<1>9. UpTo(paths, kind, part)' = UpTo(paths, kind + 1, 1) /\ KindTexts(paths)' = KindTexts(paths)
  BY <1>1 DEF UpTo, KindTexts, PartTexts
<1>10. \A j, p : CanLoad(j, p)' = CanLoad(j, p)
  BY <1>1 DEF CanLoad
<1>11. CASE kind = 4
  <2>1. Bare(out') = FlattenSeq(KindTexts(paths)')
    <3>1. Bare(out') = Bare(out) /\ kind + 1 = 5
      BY <1>1, <1>11
    <3>2. UpTo(paths, 5, 1) = FlattenSeq(KindTexts(paths))
      BY UpToEnds
    <3> HIDE DEF before
    <3> QED
      BY <1>7, <1>8, <1>9, <3>1, <3>2
  <2>2. kind' = Len(Kinds) + 1 /\ status' = "done"
    BY <1>1, <1>11, KindsAre
  <2> HIDE DEF k, before
  <2> QED
    BY <1>1, <1>5, <1>10, <2>1, <2>2 DEF LoadInv
<1>12. CASE kind # 4
  <2>1. status' = "loading" /\ kind' \in 1..4
    BY <1>1, <1>12
  <2>2. Len(request[Kinds[kind']]) \in Nat
    BY <2>1, PartsTyped
  <2>3. part' <= Len(request[Kinds[kind']]) + 1 /\ \A p \in 1..(part' - 1) : CanLoad(kind', p)
    BY <1>1, <2>2
  <2>4. Gives(<<>>, stack', paths', Kinds[kind'], Bare(out'), UpTo(paths, kind, part)')
    <3>1. UpTo(paths, kind, part)' = Bare(out') /\ stack' = <<>>
      BY <1>1, <1>7, <1>8, <1>9
    <3> QED
      BY <3>1 DEF Gives
  <2>5. <<>> \in Seq(Seq(Things))
    BY EmptySeq
  <2> HIDE DEF k, before
  <2> QED
    BY <1>1, <1>5, <1>10, <2>1, <2>3, <2>4, <2>5 DEF LoadInv
<1> QED
  BY <1>11, <1>12

(* A line that is copied.                                                   *)
LEMMA CopyKeeps ==
  ASSUME Types, Types', LoadInv, Copy
  PROVE  LoadInv'
<1>1. /\ Loading /\ stack # <<>> /\ stack[1].lines # <<>> /\ Line.include = NoInclude
      /\ status' = "loading" /\ UNCHANGED <<paths, meddled, request, kind, part>>
      /\ stack' = Advanced
  BY DEF Copy, Reading, Loading, context
<1>2. ASSUME meddled = "no"
      PROVE  \E es \in Seq(Seq(Things)) :
               Gives(es, stack', paths, Kinds[kind], Bare(out'), UpTo(paths, kind, part))
  <2> DEFINE whole == UpTo(paths, kind, part)
             x == [is |-> "line", text |-> Line.text, meant |-> Meant]
             of == LineOf(Text(paths), Level(stack, 1), Kind, Line)
  <2>1. PICK ends \in Seq(Seq(Things)) : Gives(ends, stack, paths, Kinds[kind], Bare(out), whole)
    BY <1>1, <1>2 DEF LoadInv, Loading
  <2> HIDE DEF whole
  <2>2. Gives(ends, stack, paths, Kind, Bare(out), whole)
    BY <2>1 DEF Kind
  <2>3. Gives(ends, Advanced, paths, Kind, Bare(out) \o of, whole)
    BY <1>1, <2>2, LineDone
  <2>4. x.is = "line" /\ x.text = Line.text
    OBVIOUS
  <2>5. of = <<[is |-> "line", text |-> x.text]>>
    BY <1>1, <2>4 DEF LineOf
  <2>6. out' = Append(out, x)
    BY DEF Copy
  <2> HIDE DEF x
  <2>7. out \in Seq(Items) /\ out' \in Seq(Items)
    BY DEF Types
  <2>8. x \in Items /\ out' = out \o <<x>>
    <3>1. Append(out, x) \in Seq(Items) /\ Len(out) + 1 \in 1..Len(Append(out, x))
      BY <2>6, <2>7
    <3>2. Append(out, x)[Len(out) + 1] = x
      BY <2>7
    <3>3. Append(out, x) = out \o <<x>>
      BY <2>7, AppendIsConcat
    <3> QED
      BY <2>6, <3>1, <3>2, <3>3
  <2>9. Bare(out') = Bare(out) \o of
    <3>1. <<x>> \in Seq(Items)
      BY <2>8
    <3>2. Bare(<<x>>) = of
      BY <2>4, <2>5, <2>8, BareOne DEF x
    <3>3. Bare(out \o <<x>>) = Bare(out) \o Bare(<<x>>)
      BY <2>7, <3>1, BareConcat
    <3> QED
      BY <2>8, <3>2, <3>3
  <2>10. Gives(ends, stack', paths, Kinds[kind], Bare(out'), whole)
    BY <1>1, <2>3, <2>9 DEF Kind
  <2> QED
    BY <2>1, <2>10 DEF whole
<1> QED
  BY <1>1, <1>2, SamePart

(* A file that is included in place of a line.                              *)
LEMMA IncludeKeeps ==
  ASSUME Types, Types', LoadInv, Include
  PROVE  LoadInv'
<1>1. /\ Loading /\ stack # <<>> /\ stack[1].lines # <<>> /\ Line.include # NoInclude
      /\ status' = "loading" /\ UNCHANGED <<paths, meddled, request, kind, part>>
      /\ Open(Line.include, Len(stack), Advanced)
  BY DEF Include, Reading, Loading, context
<1>2. ASSUME meddled = "no"
      PROVE  \E es \in Seq(Seq(Things)) :
               Gives(es, stack', paths, Kinds[kind], Bare(out'), UpTo(paths, kind, part))
  <2> DEFINE whole == UpTo(paths, kind, part)
             spec == Line.include
             of == LineOf(Text(paths), Level(stack, 1), Kind, Line)
             now == Bare(out) \o of
  <2>1. PICK ends \in Seq(Seq(Things)) : Gives(ends, stack, paths, Kinds[kind], Bare(out), whole)
    BY <1>1, <1>2 DEF LoadInv, Loading
  <2> HIDE DEF whole
  <2>2. Gives(ends, stack, paths, Kind, Bare(out), whole)
    BY <2>1 DEF Kind
  <2>3. /\ Advanced \in Seq(Entries) /\ Len(Advanced) = Len(stack)
        /\ of \in Seq(Things) /\ Gives(ends, Advanced, paths, Kind, now, whole)
    BY <1>1, <2>2, LineDone
  <2>4. of = Text(paths)[<<MaxDepth + 1 - Len(Advanced), Kind, spec>>]
    <3>1. Level(stack, 1) - 1 = MaxDepth + 1 - Len(Advanced)
      BY <1>1, <2>3, ReadingFacts
    <3> QED
      BY <1>1, <3>1 DEF LineOf
  <2>5. now \in Seq(Things)
    <3>1. Bare(out) \in Seq(Things)
      BY BareType DEF Types
    <3> HIDE DEF of
    <3> QED
      BY <2>3, <3>1, ConcatProperties
  <2>6. spec \in Specs
    <3>1. stack[1].lines \in Seq(Lines)
      BY <1>1, ReadingFacts
    <3>2. Line \in Lines
      BY <1>1, <3>1, EmptySeq DEF Line
    <3> QED
      BY <1>1, <3>2, IncludeTyped
  <2>7. Open(spec, Len(Advanced), Advanced)
    BY <1>1, <2>3
  <2>8. now = Bare(out) \o Text(paths)[<<MaxDepth + 1 - Len(Advanced), Kind, spec>>]
    BY <2>4
  <2> HIDE DEF spec, of, now
  <2>9. \E es \in Seq(Seq(Things)) : Gives(es, stack', paths, Kind, Bare(out'), whole)
    BY <1>1, <2>1, <2>3, <2>5, <2>6, <2>7, <2>8, FileOpened
  <2> QED
    BY <2>9 DEF whole, Kind
<1> QED
  BY <1>1, <1>2, SamePart

(* An include that cannot be read: it has no text.                          *)
LEMMA DropIncludeKeeps ==
  ASSUME Types, Types', LoadInv, DropInclude
  PROVE  LoadInv'
<1>1. /\ Loading /\ stack # <<>> /\ stack[1].lines # <<>> /\ Line.include # NoInclude
      /\ status' \in {"loading", "crashed"} /\ UNCHANGED <<paths, meddled, request, kind, part, out>>
      /\ stack' = Advanced
      /\ Contents(Kind, Line.include, Len(stack), paths) = Missing
  BY DEF DropInclude, Reading, Loading, context
<1>2. ASSUME meddled = "no"
      PROVE  \E es \in Seq(Seq(Things)) :
               Gives(es, stack', paths, Kinds[kind], Bare(out'), UpTo(paths, kind, part))
  <2> DEFINE whole == UpTo(paths, kind, part)
             spec == Line.include
             n == Level(stack, 1) - 1
             of == LineOf(Text(paths), Level(stack, 1), Kind, Line)
  <2>1. PICK ends \in Seq(Seq(Things)) : Gives(ends, stack, paths, Kinds[kind], Bare(out), whole)
    BY <1>1, <1>2 DEF LoadInv, Loading
  <2> HIDE DEF whole
  <2>2. Gives(ends, stack, paths, Kind, Bare(out), whole)
    BY <2>1 DEF Kind
  <2>3. Gives(ends, Advanced, paths, Kind, Bare(out) \o of, whole)
    BY <1>1, <2>2, LineDone
  <2>4. /\ n \in 0..(MaxDepth + 1) /\ n = MaxDepth + 1 - Len(stack) /\ Len(stack) \in Nat
        /\ MaxDepth \in Nat /\ Kind \in Range(Kinds) /\ paths \in Seq(Dirs)
    BY <1>1, ReadingFacts
  <2>5. spec \in Specs
    <3>1. stack[1].lines \in Seq(Lines)
      BY <1>1, ReadingFacts
    <3>2. Line \in Lines
      BY <1>1, <3>1, EmptySeq DEF Line
    <3> QED
      BY <1>1, <3>2, IncludeTyped
  <2>6. of = Text(paths)[<<n, Kind, spec>>]
    BY <1>1 DEF LineOf
  <2> HIDE DEF n, spec
  <2>7. n = 0 \/ Contents(Kind, spec, 0, paths) = Missing
    <3>1. Contents(Kind, spec, Len(stack), paths) = Missing
      BY <1>1 DEF spec
    <3>2. CASE Len(stack) > MaxDepth
      BY <2>4, <3>2
    <3>3. CASE ~(Len(stack) > MaxDepth)
      BY <2>4, <3>1, <3>3, ContentsDepth
    <3> QED
      BY <3>2, <3>3
  <2>8. Text(paths)[<<n, Kind, spec>>] = PartOf(paths, Text(paths), n, Kind, spec)
    BY <2>4, <2>5, TextSolves
  <2>9. of = <<>>
    BY <2>6, <2>7, <2>8 DEF PartOf
  <2>10. Bare(out) \o of = Bare(out')
    <3>1. Bare(out) \in Seq(Things)
      BY BareType DEF Types
    <3>2. Bare(out) \o <<>> = Bare(out)
      BY <3>1, ConcatEmptySeq
    <3> QED
      BY <1>1, <2>9, <3>2
  <2>11. Gives(ends, stack', paths, Kinds[kind], Bare(out'), whole)
    BY <1>1, <2>3, <2>10 DEF Kind
  <2> QED
    BY <2>1, <2>11 DEF whole
<1> QED
  BY <1>1, <1>2, SamePart

(* The end of a file.                                                       *)
LEMMA EndFileKeeps ==
  ASSUME Types, Types', LoadInv, EndFile
  PROVE  LoadInv'
<1>1. /\ Loading /\ stack # <<>> /\ stack[1].lines = <<>>
      /\ status' = "loading" /\ UNCHANGED <<paths, meddled, request, kind, part>>
      /\ stack' = Tail(stack) /\ out' = out \o After(Kind, stack[1].spec)
  BY DEF EndFile, Loading, context
<1>2. ASSUME meddled = "no"
      PROVE  \E es \in Seq(Seq(Things)) :
               Gives(es, stack', paths, Kinds[kind], Bare(out'), UpTo(paths, kind, part))
  <2> DEFINE whole == UpTo(paths, kind, part)
             n == Level(stack, 1)
             top == stack[1]
             end == After(Kind, top.spec)
             T == Seq(Things)
             now == Bare(out)
  <2>1. PICK ends \in Seq(T) : Gives(ends, stack, paths, Kinds[kind], now, whole)
    BY <1>1, <1>2 DEF LoadInv, Loading
  <2> HIDE DEF whole
  <2>2. Gives(ends, stack, paths, Kind, now, whole)
    BY <2>1 DEF Kind
  <2>3. /\ Kind \in Range(Kinds) /\ paths \in Seq(Dirs) /\ stack \in Seq(Entries) /\ out \in Seq(Items)
        /\ top.spec \in Specs /\ top.lines \in Seq(Lines) /\ n \in 1..(MaxDepth + 1)
    BY <1>1, ReadingFacts
  <2>4. /\ ends[1] = now \o EndOf(paths, n, Kind, top)
        /\ Tail(ends) \in Seq(T)
        /\ Gives(Tail(ends), Tail(stack), paths, Kind, ends[1], whole)
    <3> HIDE DEF T, now
    <3> QED
      BY <1>1, <2>1, <2>2, <2>3, GivesPop
  <2>5. EndOf(paths, n, Kind, top) = end
    <3>1. Left(paths, n, Kind, top.lines) = <<>>
      <4> HIDE DEF n
      <4> QED
        BY <1>1, <2>3, LeftFacts
    <3>2. end \in Seq(Things)
      BY <2>3, MarksAreThings
    <3>3. <<>> \o end = end
      <4> HIDE DEF end
      <4> QED
        BY <3>2, ConcatEmptySeq
    <3> QED
      BY <3>1, <3>3 DEF EndOf
  <2>6. Bare(out') = now \o end
    <3> HIDE DEF top
    <3> QED
      BY <1>1, <2>3, BareMarks DEF top
  <2>7. Gives(Tail(ends), stack', paths, Kinds[kind], Bare(out'), whole)
    BY <1>1, <2>4, <2>5, <2>6 DEF Kind
  <2> QED
    BY <2>4, <2>7 DEF whole
<1> QED
  BY <1>1, <1>2, SamePart

(* A load that fails has met what cannot be loaded.                         *)
LEMMA FailKeeps ==
  ASSUME Types, Types', LoadInv, Fail
  PROVE  LoadInv'
<1> SUFFICES ASSUME meddled = "no" PROVE LoadInv'
  BY DEF Fail, LoadInv
<1>1. /\ Loading /\ kind \in 1..4 /\ Kind \in Range(Kinds) /\ Kind = Kinds[kind]
      /\ Parts = request[Kind] /\ Parts \in Seq(Specs)
      /\ status' = "failed" /\ UNCHANGED <<paths, request, kind, meddled>>
  <2>1. Loading
    BY DEF Fail
  <2> QED
    BY <2>1, KindFacts DEF Fail, Kind, Parts, context
<1>2. request[Kind] = <<>> \/ \E spec \in Range(request[Kind]) : Contents(Kind, spec, 0, paths) = Missing
  <2>1. CASE Parts = <<>>
    BY <1>1, <2>1
  <2>2. CASE part <= Len(Parts) /\ Contents(Kind, Parts[part], 0, paths) = Missing
    <3>1. part \in DOMAIN Parts
      BY <1>1, <2>2 DEF Types, TypeOK
    <3>2. Parts[part] \in Range(Parts)
      BY <3>1 DEF Range
    <3> QED
      BY <1>1, <2>2, <3>2
  <2> QED
    BY <2>1, <2>2 DEF Fail
<1>3. \A j \in 1..(kind - 1) : /\ request[Kinds[j]] # <<>>
                               /\ \A p \in DOMAIN request[Kinds[j]] : CanLoad(j, p)
  BY DEF LoadInv
<1>4. \A j, p : CanLoad(j, p)' = CanLoad(j, p)
  BY <1>1 DEF CanLoad
<1>5. \E k \in Range(Kinds) :
        request'[k] = <<>> \/ \E spec \in Range(request'[k]) : Contents(k, spec, 0, paths') = Missing
  BY <1>1, <1>2
<1> QED
  BY <1>1, <1>3, <1>4, <1>5 DEF LoadInv

(* What leaves the load and the paths alone.                                *)
LEMMA OthersKeep ==
  ASSUME LoadInv, UNCHANGED <<paths, meddled, status, request, kind, part, stack, out>>
  PROVE  LoadInv'
<1>1. UpTo(paths, kind, part)' = UpTo(paths, kind, part) /\ KindTexts(paths)' = KindTexts(paths)
  BY DEF UpTo, KindTexts, PartTexts
<1>2. \A j, p : CanLoad(j, p)' = CanLoad(j, p)
  BY DEF CanLoad
<1> HIDE DEF UpTo, KindTexts, CanLoad
<1>3. /\ meddled' = meddled /\ status' = status /\ request' = request /\ kind' = kind
      /\ part' = part /\ stack' = stack /\ out' = out /\ paths' = paths
  OBVIOUS
<1> QED
  BY <1>1, <1>2, <1>3 DEF LoadInv

LEMMA LoadInvInit ==
  ASSUME Init, Types
  PROVE  LoadInv
<1>1. /\ status = "loading" /\ kind = 1 /\ part = 1 /\ stack = <<>> /\ out = <<>>
  BY DEF Init
<1>2. UpTo(paths, 1, 1) = <<>>
  BY UpToEnds
<1>3. Bare(<<>>) = <<>>
  <2>1. <<>> \in Seq(Items) /\ Len(<<>>) = 0
    OBVIOUS
  <2>2. Bare(<<>>) \in Seq(Things) /\ Len(Bare(<<>>)) = 0
    BY <2>1, BareType
  <2> QED
    BY <2>2, EmptySeq
<1>4. Gives(<<>>, <<>>, paths, Kinds[1], <<>>, <<>>)
  BY DEF Gives
<1>5. <<>> \in Seq(Seq(Things))
  BY EmptySeq
<1>6. part <= Len(request[Kinds[1]]) + 1
  <2>1. Len(request[Kinds[1]]) \in Nat
    BY PartsTyped
  <2> QED
    BY <1>1, <2>1
<1>7. \E ends \in Seq(Seq(Things)) :
        Gives(ends, stack, paths, Kinds[kind], Bare(out), UpTo(paths, kind, part))
  BY <1>1, <1>2, <1>3, <1>4, <1>5
<1>8. 1..(kind - 1) = {} /\ 1..(part - 1) = {}
  BY <1>1
<1> QED
  BY <1>1, <1>6, <1>7, <1>8 DEF LoadInv

LEMMA LoadInvStep ==
  ASSUME Types, Types', LoadInv, [Next]_vars
  PROVE  LoadInv'
<1>1. CASE Load
  BY <1>1, LoadPartKeeps, FailKeeps, EndComponentKeeps, CopyKeeps, IncludeKeeps, DropIncludeKeeps, EndFileKeeps
     DEF Load
<1>2. ASSUME NEW d \in Dirs, AppendIncludePath(d) \/ PrependIncludePath(d)
      PROVE  LoadInv'
  <2>1. meddled' # "no"
    BY <1>2 DEF AppendIncludePath, PrependIncludePath
  <2> QED
    BY <2>1 DEF LoadInv
<1>3. CASE ClearIncludePaths
  BY <1>3 DEF ClearIncludePaths, LoadInv
<1>4. ASSUME NEW l \in {"set", "nil"}, SetLogger(l)
      PROVE  LoadInv'
  BY <1>4, OthersKeep DEF SetLogger, Change
<1>5. CASE UNCHANGED vars
  BY <1>5, OthersKeep DEF vars, context
<1> QED
  BY <1>1, <1>2, <1>3, <1>4, <1>5 DEF Next

(* What a load that is over returned.                                       *)
LEMMA LoadedOrNot ==
  ASSUME Types, LoadInv
  PROVE  LoadsWhatIsThere
<1> DEFINE Missed == \E k \in Range(Kinds) :
                       request[k] = <<>> \/ \E spec \in Range(request[k]) : Contents(k, spec, 0, paths) = Missing
<1> SUFFICES ASSUME meddled = "no", status \in {"done", "failed"}
             PROVE  IF Missed THEN status = "failed"
                    ELSE status = "done" /\ Bare(out) = FlattenSeq(KindTexts(paths))
  BY DEF LoadsWhatIsThere, KindTexts, PartTexts
<1>1. CASE status = "failed"
  BY <1>1 DEF LoadInv
<1>2. CASE status = "done"
  <2>1. kind = Len(Kinds) + 1 /\ Bare(out) = FlattenSeq(KindTexts(paths))
    BY <1>2 DEF LoadInv
  <2>2. \A j \in 1..4 : /\ request[Kinds[j]] # <<>>
                        /\ \A p \in DOMAIN request[Kinds[j]] : CanLoad(j, p)
    <3>1. kind - 1 = 4
      BY <2>1, KindsAre
    <3> QED
      BY <3>1 DEF LoadInv
  <2>3. ~Missed
    <3>1. SUFFICES ASSUME NEW k \in Range(Kinds)
                   PROVE  /\ request[k] # <<>>
                          /\ \A spec \in Range(request[k]) : Contents(k, spec, 0, paths) # Missing
      OBVIOUS
    <3>2. PICK j \in 1..4 : k = Kinds[j]
      BY KindsAre DEF Range
    <3>3. ASSUME NEW spec \in Range(request[k]) PROVE Contents(k, spec, 0, paths) # Missing
      <4>1. PICK p \in DOMAIN request[k] : spec = request[k][p]
        BY <3>3 DEF Range
      <4> QED
        BY <2>2, <3>2, <4>1 DEF CanLoad
    <3> QED
      BY <2>2, <3>2, <3>3
  <2> HIDE DEF Missed
  <2> QED
    BY <1>2, <2>1, <2>3
<1> QED
  BY <1>1, <1>2

\* When nobody changes the include paths, a load fails exactly when one of the
\* parts it was asked for cannot be loaded, and otherwise it returns the parts
\* in order with all their includes that can be loaded (buildKeymapString,
\* loadComponentPartWithDepth and resolveIncludes in rules.go), for any files,
\* requests, paths and depth of includes.
THEOREM Loads == Spec => []LoadsWhatIsThere
<1>1. Init => LoadInv
  BY TypesInit, LoadInvInit
<1>2. IInv /\ IInv' /\ LoadInv /\ [Next]_vars => LoadInv'
  BY LoadInvStep DEF IInv
<1>3. IInv /\ LoadInv => LoadsWhatIsThere
  BY LoadedOrNot DEF IInv
<1> QED
  BY <1>1, <1>2, <1>3, Inductive, PTL DEF Spec

-----------------------------------------------------------------------------
(* The rules, whose components are what is loaded (compileKeymap).          *)
CONSTANTS Calls, LayoutTexts
VARIABLES names, disk, pc, text, at, header, variables, rules, applied, result
Resolve == INSTANCE Rules

\* The operators of the library are the same ones in the instance.
LEMMA SameOperators ==
  ASSUME NEW S
  PROVE  Resolve!Max(S) = Max(S) /\ Resolve!Min(S) = Min(S) /\ Resolve!Range(S) = Range(S)
<1>1. Resolve!Max(S) = Max(S) /\ Resolve!Min(S) = Min(S)
  BY DEF Resolve!Max, Max, Resolve!Min, Min
<1>2. Resolve!Range(S) = Range(S)
  BY DEF Resolve!Range, Range
<1> QED
  BY <1>1, <1>2

\* What RulesAssumption says of the lines of a file.
Readable(file) ==
  /\ file \in Seq(Range(file))
  /\ \A line \in Range(file) :
       /\ line.is = "variable" => line.name # "*"
       /\ line.is = "header" => line.inputs \in Seq(Range(line.inputs))
       /\ line.is = "rule" => line.patterns \in Seq(Range(line.patterns)) /\ "" \notin Range(line.patterns)

\* What was read of the lines before line n: the variables, the header, and a
\* rule for each line that is one; rule r stands on line places[r].
VariableLines(n, v) == {j \in 1..(n - 1) : text[j].is = "variable" /\ text[j].name = v}
VariablesRead(n) ==
  \A v : /\ v \in DOMAIN variables <=> VariableLines(n, v) # {}
         /\ v \in DOMAIN variables => variables[v] = Range(text[Max(VariableLines(n, v))].values)
HeaderRead(n) ==
  header = IF Resolve!HeadersAbove(n) # {} /\ Resolve!Heading(n).is = "header"
           THEN [inputs |-> Resolve!Heading(n).inputs, component |-> Resolve!Heading(n).component]
           ELSE Resolve!NoHeader
RuleAt(i) ==
  [patterns |-> Resolve!PatternsOf(Resolve!Heading(i).inputs, text[i].patterns),
   component |-> Resolve!Heading(i).component, value |-> text[i].value]
RulesRead(n, places) ==
  /\ rules \in Seq({RuleAt(i) : i \in 1..Len(text)})
  /\ places \in [1..Len(rules) -> 1..(n - 1)]
  /\ \A q, r \in 1..Len(rules) : q < r => places[q] < places[r]
  /\ \A r \in 1..Len(rules) : Resolve!IsRule(places[r]) /\ rules[r] = RuleAt(places[r])
  /\ \A i \in 1..(n - 1) : Resolve!IsRule(i) => \E r \in 1..Len(rules) : places[r] = i

\* What the lines of the file give to component c, up to each of them.
JoinedUpTo(last, values) ==
  CHOOSE f : f = [i \in 0..last |->
                    IF i = 0 THEN <<>>
                    ELSE IF i \in DOMAIN values THEN Resolve!Joined(f[i - 1], values[i]) ELSE f[i - 1]]
Firsts(c) == {i \in DOMAIN text : Resolve!GivesFirst(i, c)}
Values(c) == [i \in Firsts(c) |-> Resolve!ValueAt(i)]
MeaningUpTo(c) == JoinedUpTo(Len(text), Values(c))

Applied(n, c) == {Resolve!ValueAt(j) : j \in {i \in 1..n : Resolve!Gives(i, c)}}

NothingYet ==
  /\ applied = [c \in Resolve!Components |-> {}]
  /\ result = [c \in Resolve!Components |-> <<>>]

LinesRead(n) == VariablesRead(n) /\ HeaderRead(n) /\ \E places : RulesRead(n, places)
RulesGive(n) ==
  \A c \in Resolve!Components : applied[c] = Applied(n, c) /\ result[c] = MeaningUpTo(c)[n]

\* Before the end of the file the lines so far were read; after it the rules
\* so far have given what the file means up to the last of them.
RulesInv ==
  /\ paths \in Seq(Range(paths))
  /\ \A f \in DOMAIN disk : Readable(disk[f])
  /\ pc = "find" =>
       at = 1 /\ header = Resolve!NoHeader /\ variables = [v \in {} |-> {}] /\ rules = <<>> /\ NothingYet
  /\ pc = "read" =>
       Readable(text) /\ NothingYet /\ \E n \in 1..(Len(text) + 1) : at = n /\ LinesRead(n)
  /\ pc = "resolve" =>
       /\ Readable(text) /\ at \in 1..(Len(rules) + 1)
       /\ DOMAIN applied = Resolve!Components /\ DOMAIN result = Resolve!Components
       /\ \E end \in Nat, n \in 0..Len(text) : \E places :
            /\ end = Len(text) + 1 /\ VariablesRead(end) /\ RulesRead(end, places)
            /\ n = (IF at = 1 THEN 0 ELSE places[at - 1])
            /\ RulesGive(n)
  /\ pc = "done" => \A c \in Resolve!Components : result[c] = Resolve!Meaning(c)

(* What the lines give follows the recursion.                               *)
LEMMA JoinedSolves ==
  ASSUME NEW last \in Nat, NEW values
  PROVE  /\ JoinedUpTo(last, values)[0] = <<>>
         /\ \A i \in 1..last :
              JoinedUpTo(last, values)[i] = IF i \in DOMAIN values
                                              THEN Resolve!Joined(JoinedUpTo(last, values)[i - 1], values[i])
                                              ELSE JoinedUpTo(last, values)[i - 1]
<1> DEFINE Step(i, before) == IF i \in DOMAIN values THEN Resolve!Joined(before, values[i]) ELSE before
           Is(f, n) == f = [i \in 0..n |-> IF i = 0 THEN <<>> ELSE Step(i, f[i - 1])]
           Has(n) == \E f : Is(f, n)
           Without == {n \in Nat : ~Has(n)}
<1>1. JoinedUpTo(last, values) = CHOOSE f : Is(f, last)
  BY DEF JoinedUpTo
<1> HIDE DEF Step
<1>2. Has(0)
  <2>1. Is([i \in 0..0 |-> <<>>], 0)
    OBVIOUS
  <2> QED
    BY <2>1
<1>3. ASSUME NEW n \in Nat, Has(n) PROVE Has(n + 1)
  <2>1. PICK f : Is(f, n)
    BY <1>3
  <2> DEFINE g == [i \in 0..(n + 1) |-> IF i <= n THEN f[i] ELSE Step(n + 1, f[n])]
             body == [i \in 0..(n + 1) |-> IF i = 0 THEN <<>> ELSE Step(i, g[i - 1])]
  <2>2. ASSUME NEW i \in 0..(n + 1) PROVE g[i] = IF i = 0 THEN <<>> ELSE Step(i, g[i - 1])
    <3>1. CASE i <= n
      <4>1. i \in 0..n /\ g[i] = f[i]
        BY <3>1
      <4>2. f[i] = IF i = 0 THEN <<>> ELSE Step(i, f[i - 1])
        BY <2>1, <4>1
      <4>3. i # 0 => g[i - 1] = f[i - 1]
        BY <4>1
      <4> HIDE DEF g
      <4> QED
        BY <4>1, <4>2, <4>3
    <3>2. CASE i = n + 1
      <4>1. g[i] = Step(n + 1, f[n]) /\ g[i - 1] = f[n] /\ i # 0
        BY <3>2
      <4> HIDE DEF g
      <4> QED
        BY <3>2, <4>1
    <3> QED
      BY <3>1, <3>2
  <2>3. g = body
    <3> DEFINE h(i) == IF i <= n THEN f[i] ELSE Step(n + 1, f[n])
               b(i) == IF i = 0 THEN <<>> ELSE Step(i, g[i - 1])
    <3>1. \A i \in 0..(n + 1) : h(i) = b(i)
      BY <2>2
    <3> HIDE DEF h, b
    <3>2. [i \in 0..(n + 1) |-> h(i)] = [i \in 0..(n + 1) |-> b(i)]
      BY <3>1
    <3> QED
      BY <3>2 DEF h, b
  <2>4. Is(g, n + 1)
    BY <2>3
  <2> QED
    BY <2>4
<1> HIDE DEF Has
<1>4. Has(last)
  <2> SUFFICES ASSUME Without # {} PROVE FALSE
    OBVIOUS
  <2>1. Without \in SUBSET Nat
    OBVIOUS
  <2>2. PICK n \in Without : \A m \in Without : n <= m
    <3> HIDE DEF Without
    <3> QED
      BY <2>1, MinMember
  <2>3. n \in Nat /\ ~Has(n) /\ n # 0
    BY <1>2, <2>2
  <2>4. n - 1 \in Nat /\ (n - 1) + 1 = n /\ ~(n <= n - 1)
    BY <2>3
  <2>5. Has(n - 1)
    BY <2>2, <2>4
  <2>6. Has((n - 1) + 1)
    BY <1>3, <2>4, <2>5
  <2> QED
    BY <2>3, <2>4, <2>6
<1>5. Is(JoinedUpTo(last, values), last)
  <2> DEFINE P(f) == Is(f, last)
  <2>1. PICK f : P(f)
    BY <1>4 DEF Has
  <2>2. JoinedUpTo(last, values) = CHOOSE h : P(h)
    BY <1>1
  <2> HIDE DEF P
  <2>3. P(JoinedUpTo(last, values))
    BY <2>1, <2>2
  <2> QED
    BY <2>3 DEF P
<1> DEFINE m == JoinedUpTo(last, values)
<1> HIDE DEF m
<1>6. m = [i \in 0..last |-> IF i = 0 THEN <<>> ELSE Step(i, m[i - 1])]
  BY <1>5 DEF m
<1>7. m[0] = <<>> /\ \A i \in 1..last : m[i] = Step(i, m[i - 1])
  BY <1>6
<1> QED
  BY <1>7 DEF m, Step

LEMMA MeaningSolves ==
  ASSUME NEW c, NEW T, text \in Seq(T)
  PROVE  /\ Resolve!Meaning(c) = MeaningUpTo(c)[Len(text)]
         /\ MeaningUpTo(c)[0] = <<>>
         /\ \A i \in 1..Len(text) :
              MeaningUpTo(c)[i] = IF Resolve!GivesFirst(i, c)
                                  THEN Resolve!Joined(MeaningUpTo(c)[i - 1], Resolve!ValueAt(i))
                                  ELSE MeaningUpTo(c)[i - 1]
<1>1. DOMAIN text = 1..Len(text) /\ Len(text) \in Nat
  OBVIOUS
<1>2. DOMAIN Values(c) = Firsts(c) /\ \A i \in Firsts(c) : Values(c)[i] = Resolve!ValueAt(i)
  BY DEF Values
<1>3. Resolve!Meaning(c) = MeaningUpTo(c)[Len(text)]
  BY DEF Resolve!Meaning, Resolve!JoinedTo, MeaningUpTo, JoinedUpTo, Firsts, Values
<1>4. \A i \in 1..Len(text) : i \in Firsts(c) <=> Resolve!GivesFirst(i, c)
  BY <1>1 DEF Firsts
<1>5. /\ MeaningUpTo(c)[0] = <<>>
      /\ \A i \in 1..Len(text) :
           MeaningUpTo(c)[i] = IF i \in DOMAIN Values(c)
                               THEN Resolve!Joined(MeaningUpTo(c)[i - 1], Values(c)[i])
                               ELSE MeaningUpTo(c)[i - 1]
  BY <1>1, JoinedSolves DEF MeaningUpTo
<1>6. ASSUME NEW i \in 1..Len(text)
      PROVE  MeaningUpTo(c)[i] = IF Resolve!GivesFirst(i, c)
                                 THEN Resolve!Joined(MeaningUpTo(c)[i - 1], Resolve!ValueAt(i))
                                 ELSE MeaningUpTo(c)[i - 1]
  <2> DEFINE m == MeaningUpTo(c)
             first == i \in Firsts(c)
             more == Resolve!Joined(m[i - 1], Values(c)[i])
  <2>1. m[i] = IF first THEN more ELSE m[i - 1]
    BY <1>2, <1>5
  <2>2. first <=> Resolve!GivesFirst(i, c)
    BY <1>4
  <2>3. first => more = Resolve!Joined(m[i - 1], Resolve!ValueAt(i))
    BY <1>2
  <2> HIDE DEF m, first, more
  <2> QED
    BY <2>1, <2>2, <2>3 DEF m
<1> QED
  BY <1>3, <1>5, <1>6

(* What does not change unless the file or the names do.                    *)
LEMMA TextKept ==
  ASSUME text' = text
  PROVE  \A i : /\ (Resolve!HeadersAbove(i))' = Resolve!HeadersAbove(i)
                /\ (Resolve!Heading(i))' = Resolve!Heading(i)
                /\ (Resolve!IsRule(i))' = Resolve!IsRule(i)
                /\ RuleAt(i)' = RuleAt(i)
<1> TAKE i
<1>1. (Resolve!HeadersAbove(i))' = Resolve!HeadersAbove(i)
  BY DEF Resolve!HeadersAbove
<1>2. (Resolve!Heading(i))' = Resolve!Heading(i)
  BY <1>1 DEF Resolve!Heading
<1>3. (Resolve!IsRule(i))' = Resolve!IsRule(i)
  BY <1>1, <1>2 DEF Resolve!IsRule
<1>4. RuleAt(i)' = RuleAt(i)
  BY <1>2 DEF RuleAt
<1> QED
  BY <1>1, <1>2, <1>3, <1>4

LEMMA SwapsKept ==
  ASSUME names' = names
  PROVE  \A v : (Resolve!Substituted(v))' = Resolve!Substituted(v)
<1>1. \A i : (Resolve!Layout(i))' = Resolve!Layout(i) /\ (Resolve!Variant(i))' = Resolve!Variant(i)
  BY DEF Resolve!Layout, Resolve!Variant
<1>2. \A i : (Resolve!LaterLayout(i))' = Resolve!LaterLayout(i)
  BY <1>1 DEF Resolve!LaterLayout
<1>3. (Resolve!LayoutSwaps)' = Resolve!LayoutSwaps
  BY <1>1, <1>2 DEF Resolve!LayoutSwaps
<1>4. (Resolve!Swaps)' = Resolve!Swaps
  BY <1>1, <1>3 DEF Resolve!Swaps
<1> QED
  BY <1>4 DEF Resolve!Substituted

LEMMA GivesKept ==
  ASSUME text' = text, names' = names
  PROVE  /\ \A i, c : /\ (Resolve!Gives(i, c))' = Resolve!Gives(i, c)
                      /\ (Resolve!GivesFirst(i, c))' = Resolve!GivesFirst(i, c)
                      /\ (Resolve!ValueAt(i))' = Resolve!ValueAt(i)
         /\ \A c : MeaningUpTo(c)' = MeaningUpTo(c) /\ \A n : Applied(n, c)' = Applied(n, c)
<1>1. \A w : (Resolve!Given(w))' = Resolve!Given(w)
  <2>1. \A i : (Resolve!Layout(i))' = Resolve!Layout(i) /\ (Resolve!Variant(i))' = Resolve!Variant(i)
    BY DEF Resolve!Layout, Resolve!Variant
  <2> QED
    BY <2>1 DEF Resolve!Given
<1>2. \A p, v : (Resolve!Fits(p, v))' = Resolve!Fits(p, v)
  BY DEF Resolve!Fits, Resolve!LastDefinition
<1>3. \A i : (Resolve!Applies(i))' = Resolve!Applies(i)
  <2> TAKE i
  <2>1. \A k : (Resolve!Counts(i, k))' = Resolve!Counts(i, k)
    BY TextKept DEF Resolve!Counts
  <2> QED
    BY <1>1, <1>2, <2>1, TextKept DEF Resolve!Applies
<1>4. \A i : (Resolve!ValueAt(i))' = Resolve!ValueAt(i)
  BY SwapsKept DEF Resolve!ValueAt
<1>5. \A i, c : (Resolve!Gives(i, c))' = Resolve!Gives(i, c)
  BY <1>3, TextKept, SwapsKept DEF Resolve!Gives
<1>6. \A i, c : (Resolve!GivesFirst(i, c))' = Resolve!GivesFirst(i, c)
  BY <1>4, <1>5 DEF Resolve!GivesFirst
<1>7. \A c : MeaningUpTo(c)' = MeaningUpTo(c)
  <2> TAKE c
  <2>1. Firsts(c)' = Firsts(c)
    BY <1>6 DEF Firsts
  <2>2. Values(c)' = Values(c)
    BY <1>4, <2>1 DEF Values
  <2> QED
    BY <2>1, <2>2 DEF MeaningUpTo
<1>8. \A n, c : Applied(n, c)' = Applied(n, c)
  <2> TAKE n, c
  <2> DEFINE S == {i \in 1..n : Resolve!Gives(i, c)}
  <2>1. S' = S
    BY <1>5
  <2> HIDE DEF S
  <2>2. {Resolve!ValueAt(j) : j \in S}' = {Resolve!ValueAt(j) : j \in S}
    BY <1>4, <2>1
  <2> QED
    BY <2>2 DEF Applied, S
<1> QED
  BY <1>4, <1>5, <1>6, <1>7, <1>8

(* Lines that give nothing mean nothing.                                    *)
LEMMA Quiet ==
  ASSUME NEW T, text \in Seq(T), NEW c, NEW a \in 0..Len(text), NEW b \in a..Len(text),
         \A i \in (a + 1)..b : ~Resolve!GivesFirst(i, c)
  PROVE  MeaningUpTo(c)[b] = MeaningUpTo(c)[a]
<1> DEFINE m == MeaningUpTo(c)
           Off == {i \in a..b : m[i] # m[a]}
<1>1. Off \in SUBSET Nat
  OBVIOUS
<1>2. \A i \in (a + 1)..b : m[i] = m[i - 1]
  BY MeaningSolves
<1> HIDE DEF m
<1> SUFFICES ASSUME Off # {} PROVE FALSE
  BY DEF m
<1>3. PICK i \in Off : \A j \in Off : i <= j
  <2> HIDE DEF Off
  <2> QED
    BY <1>1, MinMember
<1>4. i \in a..b /\ i # a /\ m[i] # m[a]
  BY <1>3
<1>5. i \in (a + 1)..b /\ i - 1 \in a..b /\ ~(i <= i - 1)
  BY <1>4
<1>6. m[i - 1] = m[a]
  BY <1>3, <1>5
<1> QED
  BY <1>2, <1>4, <1>5, <1>6

LEMMA Places ==
  ASSUME NEW T, NEW s \in Seq(T)
  PROVE  DOMAIN s = 1..Len(s) /\ Len(s) \in Nat
  OBVIOUS

LEMMA ReadableLines ==
  ASSUME NEW file, Readable(file)
  PROVE  file \in Seq(Range(file)) /\ DOMAIN file = 1..Len(file) /\ Len(file) \in Nat
<1>1. file \in Seq(Range(file))
  BY DEF Readable
<1> QED
  BY <1>1, Places

(* A line that is a rule has patterns, and a header with inputs above it.   *)
LEMMA RuleLine ==
  ASSUME Readable(text), NEW i \in 1..Len(text), Resolve!IsRule(i)
  PROVE  /\ text \in Seq(Range(text)) /\ DOMAIN text = 1..Len(text) /\ Len(text) \in Nat
         /\ Resolve!HeadersAbove(i) # {} /\ Resolve!Heading(i).is = "header"
         /\ Resolve!Heading(i).inputs \in Seq(Range(Resolve!Heading(i).inputs))
         /\ text[i].patterns \in Seq(Range(text[i].patterns))
         /\ \A k \in DOMAIN text[i].patterns : text[i].patterns[k] # ""
<1>1. text \in Seq(Range(text)) /\ DOMAIN text = 1..Len(text) /\ Len(text) \in Nat
  <2>1. text \in Seq(Range(text))
    BY DEF Readable
  <2> QED
    BY <2>1, Places
<1>2. Resolve!HeadersAbove(i) # {} /\ Resolve!Heading(i).is = "header" /\ text[i].is = "rule"
  BY DEF Resolve!IsRule
<1>3. Resolve!Heading(i) \in Range(text)
  <2> DEFINE S == Resolve!HeadersAbove(i)
  <2>1. i - 1 \in Nat /\ S \in SUBSET (1..(i - 1))
    BY <1>1 DEF Resolve!HeadersAbove
  <2> HIDE DEF S
  <2>2. Max(S) \in S
    BY <1>2, <2>1, MaxWithin DEF S
  <2> DEFINE m == Max(S)
  <2> HIDE DEF m
  <2>3. m \in DOMAIN text
    <3>1. m \in 1..(i - 1)
      BY <2>1, <2>2 DEF m
    <3> QED
      BY <1>1, <3>1
  <2> QED
    BY <2>3, SameOperators DEF Resolve!Heading, S, m, Range
<1>4. text[i] \in Range(text)
  BY <1>1 DEF Range
<1>5. Resolve!Heading(i).inputs \in Seq(Range(Resolve!Heading(i).inputs))
  BY <1>2, <1>3 DEF Readable
<1>6. text[i].patterns \in Seq(Range(text[i].patterns)) /\ "" \notin Range(text[i].patterns)
  BY <1>2, <1>4 DEF Readable
<1>7. \A k \in DOMAIN text[i].patterns : text[i].patterns[k] # ""
  BY <1>6 DEF Range
<1> QED
  BY <1>1, <1>2, <1>5, <1>6, <1>7

(* A pattern fits as the variables that were read have it.                  *)
LEMMA FitsAsRead ==
  ASSUME Readable(text), VariablesRead(Len(text) + 1), NEW pattern, NEW value
  PROVE  Resolve!PatternMatches(pattern, value) <=> Resolve!Fits(pattern, value)
<1> DEFINE S == VariableLines(Len(text) + 1, pattern)
           known == \E j \in DOMAIN text : text[j].is = "variable" /\ text[j].name = pattern
<1>1. DOMAIN text = 1..Len(text) /\ Len(text) \in Nat /\ (Len(text) + 1) - 1 = Len(text)
  <2>1. text \in Seq(Range(text))
    BY DEF Readable
  <2>2. DOMAIN text = 1..Len(text) /\ Len(text) \in Nat
    BY <2>1, Places
  <2> QED
    BY <2>2
<1>2. S = {j \in DOMAIN text : text[j].is = "variable" /\ text[j].name = pattern}
  BY <1>1 DEF VariableLines
<1>3. known <=> pattern \in DOMAIN variables
  BY <1>2 DEF VariablesRead
<1>4. known => variables[pattern] = Resolve!Range(Resolve!LastDefinition(pattern).values)
  <2>1. Resolve!LastDefinition(pattern) = text[Max(S)]
    BY <1>2, SameOperators DEF Resolve!LastDefinition
  <2> QED
    BY <1>3, <2>1, SameOperators DEF VariablesRead
<1>5. pattern = "*" => ~known
  <2>1. ASSUME NEW j \in DOMAIN text, text[j].is = "variable" PROVE text[j].name # "*"
    <3>1. text[j] \in Range(text)
      BY DEF Range
    <3> QED
      BY <2>1, <3>1 DEF Readable
  <2> QED
    BY <2>1
<1>6. Resolve!Fits(pattern, value) <=> IF known THEN value \in Resolve!Range(Resolve!LastDefinition(pattern).values)
                                       ELSE pattern \in {"*", value}
  BY DEF Resolve!Fits
<1>7. Resolve!PatternMatches(pattern, value) <=>
        pattern = "*" \/ IF pattern \in DOMAIN variables THEN value \in variables[pattern] ELSE pattern = value
  BY DEF Resolve!PatternMatches
<1> HIDE DEF S, known
<1> QED
  BY <1>3, <1>4, <1>5, <1>6, <1>7

(* A rule matches if the pattern of each input fits one of what was given.  *)
LEMMA MatchesGivenInputs ==
  ASSUME NEW p
  PROVE  Resolve!RuleMatches(p) <=>
           \A w \in Resolve!Inputs : p[w] # "" => \E v \in Resolve!Given(w) : Resolve!PatternMatches(p[w], v)
<1> DEFINE Ok(w) == p[w] # "" => \E v \in Resolve!Given(w) : Resolve!PatternMatches(p[w], v)
<1>1. ASSUME NEW w, NEW value, Resolve!Given(w) = {value} \ {""}
      PROVE  Ok(w) <=> Resolve!MatchesGiven(p[w], value)
  BY <1>1 DEF Resolve!MatchesGiven
<1>2. /\ Resolve!Given("layout[1]") = {Resolve!Layout(1)} \ {""} /\ Resolve!Given("layout[2]") = {Resolve!Layout(2)} \ {""}
      /\ Resolve!Given("layout[3]") = {Resolve!Layout(3)} \ {""} /\ Resolve!Given("layout[4]") = {Resolve!Layout(4)} \ {""}
  BY DEF Resolve!Given
<1>3. /\ Resolve!Given("variant[1]") = {Resolve!Variant(1)} \ {""} /\ Resolve!Given("variant[2]") = {Resolve!Variant(2)} \ {""}
      /\ Resolve!Given("variant[3]") = {Resolve!Variant(3)} \ {""} /\ Resolve!Given("variant[4]") = {Resolve!Variant(4)} \ {""}
  BY DEF Resolve!Given
<1>4. Ok("model") <=> (p["model"] # "" => Resolve!PatternMatches(p["model"], names.model))
  <2>1. Resolve!Given("model") = {names.model}
    BY DEF Resolve!Given
  <2> QED
    BY <2>1
<1>5. Ok("option") <=> (p["option"] # "" => /\ names.options # <<"">>
                                             /\ \E o \in Resolve!Range(names.options) : Resolve!PatternMatches(p["option"], o))
  <2>1. Resolve!Given("option") = IF names.options = <<"">> THEN {} ELSE Resolve!Range(names.options)
    BY DEF Resolve!Given
  <2> QED
    BY <2>1
<1> HIDE DEF Ok
<1>6. /\ Ok("layout[1]") <=> Resolve!MatchesGiven(p["layout[1]"], Resolve!Layout(1))
      /\ Ok("layout[2]") <=> Resolve!MatchesGiven(p["layout[2]"], Resolve!Layout(2))
      /\ Ok("layout[3]") <=> Resolve!MatchesGiven(p["layout[3]"], Resolve!Layout(3))
      /\ Ok("layout[4]") <=> Resolve!MatchesGiven(p["layout[4]"], Resolve!Layout(4))
      /\ Ok("variant[1]") <=> Resolve!MatchesGiven(p["variant[1]"], Resolve!Variant(1))
      /\ Ok("variant[2]") <=> Resolve!MatchesGiven(p["variant[2]"], Resolve!Variant(2))
      /\ Ok("variant[3]") <=> Resolve!MatchesGiven(p["variant[3]"], Resolve!Variant(3))
      /\ Ok("variant[4]") <=> Resolve!MatchesGiven(p["variant[4]"], Resolve!Variant(4))
  BY <1>1, <1>2, <1>3
<1>7. Resolve!RuleMatches(p) <=>
        /\ Ok("model") /\ Ok("option")
        /\ Ok("layout[1]") /\ Ok("layout[2]") /\ Ok("layout[3]") /\ Ok("layout[4]")
        /\ Ok("variant[1]") /\ Ok("variant[2]") /\ Ok("variant[3]") /\ Ok("variant[4]")
  BY <1>4, <1>5, <1>6 DEF Resolve!RuleMatches
<1>8. Resolve!RuleMatches(p) <=> \A w \in Resolve!Inputs : Ok(w)
  BY <1>7 DEF Resolve!Inputs
<1> QED
  BY <1>8 DEF Ok

(* What was given for an input does not depend on how it is written.        *)
LEMMA GivenForInput ==
  ASSUME NEW word, Resolve!Input(word) \in Resolve!Inputs
  PROVE  Resolve!Given(word) = Resolve!Given(Resolve!Input(word))
<1>1. CASE word = "layout"
  BY <1>1 DEF Resolve!Given, Resolve!Input
<1>2. CASE word = "variant"
  BY <1>2 DEF Resolve!Given, Resolve!Input
<1>3. CASE word # "layout" /\ word # "variant"
  BY <1>3 DEF Resolve!Input
<1> QED
  BY <1>1, <1>2, <1>3

(* A rule that was read matches exactly when its line applies.              *)
LEMMA MatchesAsWritten ==
  ASSUME Readable(text), VariablesRead(Len(text) + 1), NEW i \in 1..Len(text), Resolve!IsRule(i)
  PROVE  Resolve!RuleMatches(RuleAt(i).patterns) <=> Resolve!Applies(i)
<1> DEFINE inputs == Resolve!Heading(i).inputs
           patterns == text[i].patterns
           D == DOMAIN inputs \cap DOMAIN patterns
           At(w) == {k \in D : Resolve!Input(inputs[k]) = w}
           p == Resolve!PatternsOf(inputs, patterns)
           Fitted(k) == \E value \in Resolve!Given(inputs[k]) : Resolve!Fits(patterns[k], value)
           n == Len(patterns)
<1>1. /\ inputs \in Seq(Range(inputs)) /\ patterns \in Seq(Range(patterns))
      /\ \A k \in DOMAIN patterns : patterns[k] # ""
  BY RuleLine
<1>2. n \in Nat /\ D \subseteq 1..n
  <2> HIDE DEF inputs, patterns
  <2> QED
    BY <1>1, Places
<1>3. RuleAt(i).patterns = p
  BY DEF RuleAt
<1>4. \A w \in Resolve!Inputs : p[w] = IF At(w) = {} THEN "" ELSE patterns[Max(At(w))]
  <2> HIDE DEF inputs, patterns
  <2> QED
    BY SameOperators DEF Resolve!PatternsOf
<1>5. ASSUME NEW w \in Resolve!Inputs, At(w) # {}
      PROVE  Max(At(w)) \in At(w) /\ \A k \in At(w) : k <= Max(At(w))
  <2> DEFINE S == At(w)
  <2>1. S \in SUBSET (1..n)
    BY <1>2
  <2>2. S # {} /\ n \in Nat
    BY <1>2, <1>5
  <2> HIDE DEF S, n
  <2>3. Max(S) \in S /\ \A k \in S : k <= Max(S)
    BY <2>1, <2>2, MaxWithin
  <2> QED
    BY <2>3 DEF S
<1>6. \A k : Resolve!Counts(i, k) <=> /\ Resolve!Input(inputs[k]) \in Resolve!Inputs
                                      /\ \A l \in D : Resolve!Input(inputs[l]) = Resolve!Input(inputs[k]) => l <= k
  BY DEF Resolve!Counts
<1>7. Resolve!Applies(i) <=> \A k \in D : Resolve!Counts(i, k) => Fitted(k)
  BY DEF Resolve!Applies
<1>8. Resolve!RuleMatches(p) <=> \A w \in Resolve!Inputs : p[w] # "" => \E v \in Resolve!Given(w) : Resolve!Fits(p[w], v)
  <2> HIDE DEF p
  <2> QED
    BY MatchesGivenInputs, FitsAsRead
<1>9. ASSUME NEW k \in D, Resolve!Counts(i, k)
      PROVE  /\ Resolve!Input(inputs[k]) \in Resolve!Inputs
             /\ Resolve!Given(inputs[k]) = Resolve!Given(Resolve!Input(inputs[k]))
             /\ p[Resolve!Input(inputs[k])] = patterns[k] /\ patterns[k] # ""
  <2> DEFINE w == Resolve!Input(inputs[k])
             m == Max(At(w))
  <2>1. w \in Resolve!Inputs /\ \A l \in At(w) : l <= k
    BY <1>6, <1>9
  <2>2. k \in At(w) /\ At(w) # {}
    OBVIOUS
  <2>3. m \in At(w) /\ k <= m
    BY <1>5, <2>1, <2>2
  <2>4. m \in D /\ m <= k
    BY <2>1, <2>3
  <2>5. m = k
    <3> HIDE DEF m, D, n
    <3> QED
      BY <1>2, <2>3, <2>4
  <2>6. p[w] = patterns[k]
    <3> HIDE DEF p, m
    <3> QED
      BY <1>4, <2>1, <2>2, <2>5 DEF m
  <2>7. patterns[k] # ""
    BY <1>1
  <2>8. Resolve!Given(inputs[k]) = Resolve!Given(w)
    BY <2>1, GivenForInput
  <2> QED
    BY <2>1, <2>6, <2>7, <2>8
<1>10. ASSUME NEW w \in Resolve!Inputs, p[w] # ""
       PROVE  \E k \in D : Resolve!Counts(i, k) /\ Resolve!Input(inputs[k]) = w
  <2> DEFINE m == Max(At(w))
  <2>1. At(w) # {}
    BY <1>4, <1>10
  <2>2. m \in At(w) /\ \A k \in At(w) : k <= m
    BY <1>5, <2>1
  <2> HIDE DEF m
  <2>3. m \in D /\ Resolve!Input(inputs[m]) = w
    BY <2>2
  <2>4. \A l \in D : Resolve!Input(inputs[l]) = w => l <= m
    BY <2>2
  <2>5. Resolve!Counts(i, m)
    BY <1>6, <2>3, <2>4
  <2> QED
    BY <2>3, <2>5
<1> HIDE DEF inputs, patterns, D, At, p
<1>11. ASSUME Resolve!Applies(i), NEW w \in Resolve!Inputs, p[w] # ""
       PROVE  \E v \in Resolve!Given(w) : Resolve!Fits(p[w], v)
  <2>1. PICK k \in D : Resolve!Counts(i, k) /\ Resolve!Input(inputs[k]) = w
    BY <1>10, <1>11
  <2>2. Fitted(k)
    BY <1>7, <1>11, <2>1
  <2> QED
    BY <1>9, <2>1, <2>2
<1>12. ASSUME Resolve!RuleMatches(p), NEW k \in D, Resolve!Counts(i, k)
       PROVE  Fitted(k)
  <2>1. /\ Resolve!Input(inputs[k]) \in Resolve!Inputs
        /\ Resolve!Given(inputs[k]) = Resolve!Given(Resolve!Input(inputs[k]))
        /\ p[Resolve!Input(inputs[k])] = patterns[k] /\ patterns[k] # ""
    BY <1>9, <1>12
  <2> QED
    BY <1>8, <1>12, <2>1
<1> HIDE DEF Fitted
<1> QED
  BY <1>3, <1>7, <1>8, <1>11, <1>12

(* The first step and the one that finds the file.                          *)
LEMMA RulesInvInit ==
  ASSUME Resolve!RulesAssumption, Resolve!Init
  PROVE  RulesInv
<1>1. PICK call \in Calls : paths = call.paths /\ disk = call.disk
  BY DEF Resolve!Init
<1>2. paths \in Seq(Range(paths)) /\ \A f \in DOMAIN disk : Readable(disk[f])
  <2>1. paths \in Seq(Range(paths))
    <3>1. call.paths \in Seq(Resolve!Range(call.paths))
      BY DEF Resolve!RulesAssumption
    <3>2. Resolve!Range(call.paths) = Range(call.paths)
      BY SameOperators
    <3> QED
      BY <1>1, <3>1, <3>2
  <2>2. ASSUME NEW f \in DOMAIN disk PROVE Readable(disk[f])
    <3> DEFINE file == disk[f]
    <3>1. /\ file \in Seq(Resolve!Range(file))
          /\ \A line \in Resolve!Range(file) :
               /\ line.is = "variable" => line.name # "*"
               /\ line.is = "header" => line.inputs \in Seq(Resolve!Range(line.inputs))
               /\ line.is = "rule" => /\ line.patterns \in Seq(Resolve!Range(line.patterns))
                                      /\ "" \notin Resolve!Range(line.patterns)
      BY <1>1, Zenon DEF Resolve!RulesAssumption
    <3>2. \A g : Resolve!Range(g) = Range(g)
      BY SameOperators
    <3> HIDE DEF file
    <3>3. /\ file \in Seq(Range(file))
          /\ \A line \in Range(file) :
               /\ line.is = "variable" => line.name # "*"
               /\ line.is = "header" => line.inputs \in Seq(Range(line.inputs))
               /\ line.is = "rule" => /\ line.patterns \in Seq(Range(line.patterns))
                                      /\ "" \notin Range(line.patterns)
      BY <3>1, <3>2, Zenon
    <3> QED
      BY <3>3, Zenon DEF Readable, file
  <2> QED
    BY <2>1, <2>2
<1>3. /\ pc = "find" /\ at = 1 /\ header = Resolve!NoHeader /\ variables = [v \in {} |-> {}]
      /\ rules = <<>> /\ NothingYet
  BY DEF Resolve!Init, NothingYet
<1> QED
  BY <1>2, <1>3 DEF RulesInv

LEMMA FindRulesKeeps ==
  ASSUME RulesInv, Resolve!FindRules
  PROVE  RulesInv'
<1>1. /\ pc = "find" /\ pc' \in {"failed", "read"}
      /\ UNCHANGED <<paths, disk, at, header, variables, rules, applied, result>>
  BY DEF Resolve!FindRules
<1>2. /\ at = 1 /\ header = Resolve!NoHeader /\ variables = [v \in {} |-> {}] /\ rules = <<>> /\ NothingYet
      /\ paths \in Seq(Range(paths)) /\ \A f \in DOMAIN disk : Readable(disk[f])
  BY <1>1 DEF RulesInv
<1>3. CASE pc' = "failed"
  BY <1>1, <1>2, <1>3 DEF RulesInv
<1>4. CASE pc' = "read"
  <2> DEFINE name == names'.rules
             homes == Resolve!Homes(name)
  <2>1. homes # {} /\ text' = disk[<<paths[Min(homes)], name>>]
    BY <1>4, SameOperators DEF Resolve!FindRules
  <2>2. homes \in SUBSET Nat
    <3>1. DOMAIN paths = 1..Len(paths) /\ Len(paths) \in Nat
      BY <1>2, Places
    <3> HIDE DEF name
    <3> QED
      BY <3>1 DEF Resolve!Homes
  <2>3. Min(homes) \in homes
    <3> HIDE DEF homes
    <3> QED
      BY <2>1, <2>2, MinMember
  <2>4. <<paths[Min(homes)], name>> \in DOMAIN disk
    BY <2>3 DEF Resolve!Homes
  <2>5. Readable(text')
    <3> HIDE DEF homes, name
    <3> QED
      BY <1>2, <2>1, <2>4
  <2>6. text' \in Seq(Range(text')) /\ Len(text') \in Nat
    BY <2>5, Places DEF Readable
  <2>7. /\ VariableLines(1, 1)' = {} /\ (Resolve!HeadersAbove(1))' = {}
        /\ \A v : VariableLines(1, v)' = {}
    BY DEF VariableLines, Resolve!HeadersAbove
  <2>8. VariablesRead(1)'
    BY <1>1, <1>2, <2>7 DEF VariablesRead
  <2>9. HeaderRead(1)'
    BY <1>1, <1>2, <2>7 DEF HeaderRead, Resolve!NoHeader
  <2>10. \E places : RulesRead(1, places)'
    <3>1. PICK q : q = <<>>
      OBVIOUS
    <3>2. 1..(1 - 1) = {} /\ Len(rules') = 0 /\ 1..0 = {}
      BY <1>1, <1>2
    <3>3. rules' \in Seq({RuleAt(i)' : i \in 1..Len(text')})
      BY <1>1, <1>2
    <3>4. q \in [1..Len(rules') -> 1..(1 - 1)]
      BY <3>1, <3>2
    <3>5. RulesRead(1, q)'
      BY <3>2, <3>3, <3>4 DEF RulesRead
    <3> QED
      BY <3>5
  <2>11. LinesRead(1)'
    BY <2>8, <2>9, <2>10 DEF LinesRead
  <2>12. NothingYet' /\ Readable(text)' /\ 1 \in 1..(Len(text') + 1) /\ at' = 1
    <3>1. NothingYet'
      BY <1>1, <1>2 DEF NothingYet
    <3> QED
      BY <1>1, <1>2, <2>5, <2>6, <3>1
  <2>13. \E n \in 1..(Len(text') + 1) : at' = n /\ LinesRead(n)'
    BY <2>11, <2>12
  <2>14. \A f \in DOMAIN disk' : Readable(disk'[f])
    BY <1>1, <1>2
  <2> QED
    BY <1>1, <1>2, <1>4, <2>12, <2>13, <2>14 DEF RulesInv
<1> QED
  BY <1>1, <1>3, <1>4

(* A line that is read: what it says of variables.                          *)
LEMMA VariableRead ==
  ASSUME Readable(text), NEW n \in 1..Len(text), VariablesRead(n), text' = text,
         variables' = IF text[n].is = "variable"
                      THEN [v \in DOMAIN variables \cup {text[n].name} |->
                              IF v = text[n].name THEN Range(text[n].values) ELSE variables[v]]
                      ELSE variables
  PROVE  VariablesRead(n + 1)'
<1> DEFINE line == text[n]
<1>1. Len(text) \in Nat /\ n \in Nat /\ n \in 1..n /\ (n + 1) - 1 = n /\ ~(n \in 1..(n - 1)) /\ n - 1 \in Nat
  <2>1. Len(text) \in Nat
    BY ReadableLines
  <2> QED
    BY <2>1
<1> SUFFICES ASSUME NEW v
             PROVE  /\ v \in DOMAIN variables' <=> VariableLines(n + 1, v)' # {}
                    /\ v \in DOMAIN variables' =>
                         variables'[v] = Range((text[Max(VariableLines(n + 1, v))])'.values)
  BY DEF VariablesRead
<1>2. VariableLines(n + 1, v)' = VariableLines(n, v) \cup {j \in {n} : line.is = "variable" /\ line.name = v}
  <2>1. 1..n = 1..(n - 1) \cup {n}
    BY <1>1
  <2>2. VariableLines(n + 1, v)' = {j \in 1..n : text[j].is = "variable" /\ text[j].name = v}
    BY <1>1 DEF VariableLines
  <2> QED
    BY <2>1, <2>2 DEF VariableLines
<1>3. /\ v \in DOMAIN variables <=> VariableLines(n, v) # {}
      /\ v \in DOMAIN variables => variables[v] = Range(text[Max(VariableLines(n, v))].values)
  BY DEF VariablesRead
<1>4. CASE line.is = "variable" /\ line.name = v
  <2> DEFINE S == VariableLines(n + 1, v)'
  <2>1. n \in S /\ S \in SUBSET (1..n)
    BY <1>1, <1>2, <1>4 DEF VariableLines
  <2> HIDE DEF S
  <2>2. Max(S) = n
    BY <1>1, <2>1, MaxWithin
  <2>3. v \in DOMAIN variables' /\ variables'[v] = Range(line.values)
    BY <1>4
  <2>4. (text[Max(VariableLines(n + 1, v))])' = line
    BY <2>2 DEF S
  <2> QED
    BY <2>1, <2>3, <2>4 DEF S
<1>5. CASE ~(line.is = "variable" /\ line.name = v)
  <2>1. VariableLines(n + 1, v)' = VariableLines(n, v)
    BY <1>2, <1>5
  <2>2. v \in DOMAIN variables' <=> v \in DOMAIN variables
    BY <1>5
  <2>3. v \in DOMAIN variables => variables'[v] = variables[v]
    BY <1>5
  <2>4. (text[Max(VariableLines(n + 1, v))])' = text[Max(VariableLines(n, v))]
    BY <2>1
  <2> QED
    BY <1>3, <2>1, <2>2, <2>3, <2>4
<1> QED
  BY <1>4, <1>5

(* What it says of the header.                                              *)
LEMMA LineHeader ==
  ASSUME Readable(text), NEW n \in 1..Len(text), HeaderRead(n), text' = text,
         header' = Resolve!HeaderAfter(text[n])
  PROVE  HeaderRead(n + 1)'
<1> DEFINE line == text[n]
           starts == line.is \in {"header", "bare"}
<1>1. Len(text) \in Nat /\ n \in Nat /\ n \in 1..n /\ (n + 1) - 1 = n /\ n - 1 \in Nat
  <2>1. Len(text) \in Nat
    BY ReadableLines
  <2> QED
    BY <2>1
<1>2. (Resolve!HeadersAbove(n + 1))' = Resolve!HeadersAbove(n) \cup {j \in {n} : starts}
  <2>1. 1..n = 1..(n - 1) \cup {n}
    BY <1>1
  <2>2. (Resolve!HeadersAbove(n + 1))' = {j \in 1..n : text[j].is \in {"header", "bare"}}
    BY <1>1 DEF Resolve!HeadersAbove
  <2> QED
    BY <2>1, <2>2 DEF Resolve!HeadersAbove
<1>3. CASE starts
  <2> DEFINE S == (Resolve!HeadersAbove(n + 1))'
  <2>1. n \in S /\ S \in SUBSET (1..n)
    BY <1>1, <1>2, <1>3 DEF Resolve!HeadersAbove
  <2> HIDE DEF S
  <2>2. Max(S) = n
    BY <1>1, <2>1, MaxWithin
  <2>3. (Resolve!Heading(n + 1))' = line
    BY <2>2, SameOperators DEF S, Resolve!Heading
  <2>4. header' = IF line.is = "header" THEN [inputs |-> line.inputs, component |-> line.component]
                  ELSE Resolve!NoHeader
    BY <1>3 DEF Resolve!HeaderAfter
  <2> QED
    BY <2>1, <2>3, <2>4 DEF HeaderRead, S
<1>4. CASE ~starts
  <2>1. (Resolve!HeadersAbove(n + 1))' = Resolve!HeadersAbove(n)
    BY <1>2, <1>4
  <2>2. (Resolve!Heading(n + 1))' = Resolve!Heading(n)
    BY <2>1 DEF Resolve!Heading
  <2>3. header' = header
    BY <1>4 DEF Resolve!HeaderAfter
  <2> QED
    BY <2>1, <2>2, <2>3 DEF HeaderRead
<1> QED
  BY <1>3, <1>4

(* A line is a rule when the code takes it for one.                         *)
Taken(line) == line.is = "rule" /\ header.inputs # <<>> /\ header.component # ""
LEMMA TakenForRule ==
  ASSUME NEW n, HeaderRead(n)
  PROVE  /\ Resolve!IsRule(n) <=> Taken(text[n])
         /\ Resolve!IsRule(n) => Resolve!RuleOf(text[n]) = RuleAt(n)
<1>1. CASE Resolve!HeadersAbove(n) # {} /\ Resolve!Heading(n).is = "header"
  <2>1. header.inputs = Resolve!Heading(n).inputs /\ header.component = Resolve!Heading(n).component
    BY <1>1 DEF HeaderRead
  <2> QED
    BY <1>1, <2>1 DEF Taken, Resolve!IsRule, Resolve!RuleOf, RuleAt
<1>2. CASE ~(Resolve!HeadersAbove(n) # {} /\ Resolve!Heading(n).is = "header")
  <2>1. header.inputs = <<>>
    BY <1>2 DEF HeaderRead, Resolve!NoHeader
  <2> QED
    BY <1>2, <2>1 DEF Taken, Resolve!IsRule
<1> QED
  BY <1>1, <1>2

(* And which rule it is.                                                    *)
LEMMA LineRule ==
  ASSUME Readable(text), NEW n \in 1..Len(text), HeaderRead(n), text' = text,
         NEW places, RulesRead(n, places),
         rules' = IF Taken(text[n]) THEN Append(rules, Resolve!RuleOf(text[n])) ELSE rules
  PROVE  \E more : RulesRead(n + 1, more)'
<1> DEFINE R == {RuleAt(i) : i \in 1..Len(text)}
           m == Len(rules)
<1>1. Len(text) \in Nat /\ n \in Nat /\ (n + 1) - 1 = n /\ n - 1 \in Nat
  <2>1. Len(text) \in Nat
    BY ReadableLines
  <2> QED
    BY <2>1
<1>2. /\ rules \in Seq(R) /\ places \in [1..m -> 1..(n - 1)]
      /\ \A q, r \in 1..m : q < r => places[q] < places[r]
      /\ \A r \in 1..m : Resolve!IsRule(places[r]) /\ rules[r] = RuleAt(places[r])
      /\ \A i \in 1..(n - 1) : Resolve!IsRule(i) => \E r \in 1..m : places[r] = i
  BY DEF RulesRead
<1>3. m \in Nat
  <2> HIDE DEF R
  <2> QED
    BY <1>2, Places
<1>4. {RuleAt(i)' : i \in 1..Len(text')} = R
  BY TextKept
<1>5. \A i : (Resolve!IsRule(i))' = Resolve!IsRule(i) /\ RuleAt(i)' = RuleAt(i)
  BY TextKept
<1>6. RuleAt(n) \in R
  OBVIOUS
<1> HIDE DEF R
<1>7. ASSUME NEW more, NEW k \in Nat, k = Len(rules'), rules' \in Seq(R), more \in [1..k -> 1..n],
             \A q, r \in 1..k : q < r => more[q] < more[r],
             \A r \in 1..k : Resolve!IsRule(more[r]) /\ rules'[r] = RuleAt(more[r]),
             \A i \in 1..n : Resolve!IsRule(i) => \E r \in 1..k : more[r] = i
      PROVE  RulesRead(n + 1, more)'
  <2>1. \A r \in 1..k : (Resolve!IsRule(more[r]))' /\ rules'[r] = RuleAt(more[r])'
    BY <1>5, <1>7
  <2>2. \A i \in 1..n : (Resolve!IsRule(i))' => \E r \in 1..k : more[r] = i
    BY <1>5, <1>7
  <2>3. rules' \in Seq({RuleAt(i)' : i \in 1..Len(text')})
    BY <1>4, <1>7
  <2> QED
    BY <1>1, <1>7, <2>1, <2>2, <2>3 DEF RulesRead
<1>8. CASE Resolve!IsRule(n)
  <2>1. PICK more : more = [r \in 1..(m + 1) |-> IF r <= m THEN places[r] ELSE n]
    OBVIOUS
  <2>2. rules' = Append(rules, RuleAt(n))
    BY <1>8, TakenForRule
  <2>3. /\ rules' \in Seq(R) /\ Len(rules') = m + 1 /\ rules'[m + 1] = RuleAt(n)
        /\ \A r \in 1..m : rules'[r] = rules[r]
    BY <1>2, <1>6, <2>2
  <2>4. /\ more \in [1..(m + 1) -> 1..n] /\ more[m + 1] = n
        /\ \A r \in 1..m : more[r] = places[r] /\ places[r] \in 1..(n - 1)
    <3> HIDE DEF m
    <3>1. \A r \in 1..m : places[r] \in 1..(n - 1) /\ places[r] \in 1..n
      BY <1>1, <1>2
    <3>2. \A r \in 1..(m + 1) : more[r] \in 1..n
      BY <1>1, <1>3, <2>1, <3>1
    <3>3. \A r \in 1..m : more[r] = places[r]
      BY <1>3, <2>1
    <3>4. more[m + 1] = n
      BY <1>3, <2>1
    <3> QED
      BY <2>1, <3>1, <3>2, <3>3, <3>4
  <2> HIDE DEF m
  <2>5. m + 1 \in Nat /\ m + 1 \in 1..(m + 1) /\ \A r \in 1..(m + 1) : r = m + 1 \/ r \in 1..m
    BY <1>3
  <2>6. \A q, r \in 1..(m + 1) : q < r => more[q] < more[r]
    <3> TAKE q, r \in 1..(m + 1)
    <3> HAVE q < r
    <3>1. q \in 1..m
      BY <1>3
    <3>2. CASE r = m + 1
      BY <1>1, <2>4, <3>1, <3>2
    <3>3. CASE r \in 1..m
      BY <1>2, <2>4, <3>1, <3>3
    <3> QED
      BY <2>5, <3>2, <3>3
  <2>7. \A r \in 1..(m + 1) : Resolve!IsRule(more[r]) /\ rules'[r] = RuleAt(more[r])
    BY <1>2, <1>8, <2>3, <2>4, <2>5
  <2>8. \A i \in 1..n : Resolve!IsRule(i) => \E r \in 1..(m + 1) : more[r] = i
    <3> TAKE i \in 1..n
    <3> HAVE Resolve!IsRule(i)
    <3>1. CASE i = n
      BY <2>4, <2>5, <3>1
    <3>2. CASE i # n
      <4>1. i \in 1..(n - 1)
        BY <1>1, <3>2
      <4>2. PICK r \in 1..m : places[r] = i
        BY <1>2, <4>1
      <4>3. r \in 1..(m + 1)
        BY <1>3
      <4> QED
        BY <2>4, <4>2, <4>3
    <3> QED
      BY <3>1, <3>2
  <2> QED
    BY <1>7, <2>3, <2>4, <2>5, <2>6, <2>7, <2>8
<1>9. CASE ~Resolve!IsRule(n)
  <2>1. rules' = rules
    BY <1>9, TakenForRule
  <2> HIDE DEF m
  <2>2. places \in [1..m -> 1..n]
    BY <1>1, <1>2
  <2>3. \A i \in 1..n : Resolve!IsRule(i) => \E r \in 1..m : places[r] = i
    <3> TAKE i \in 1..n
    <3> HAVE Resolve!IsRule(i)
    <3>1. i \in 1..(n - 1)
      BY <1>1, <1>9
    <3> QED
      BY <1>2, <3>1
  <2>4. m = Len(rules')
    BY <2>1 DEF m
  <2>5. rules' \in Seq(R) /\ \A r \in 1..m : Resolve!IsRule(places[r]) /\ rules'[r] = RuleAt(places[r])
    BY <1>2, <2>1
  <2>6. \A q, r \in 1..m : q < r => places[q] < places[r]
    BY <1>2
  <2>7. RulesRead(n + 1, places)'
    BY <1>3, <1>7, <2>2, <2>3, <2>4, <2>5, <2>6
  <2> QED
    BY <2>7
<1> QED
  BY <1>8, <1>9

LEMMA ReadLineKeeps ==
  ASSUME RulesInv, Resolve!ReadLine
  PROVE  RulesInv'
<1> DEFINE line == text[at]
<1>1. /\ pc = "read" /\ pc' = "read" /\ at <= Len(text) /\ at' = at + 1
      /\ UNCHANGED <<paths, disk, text, applied, result>>
      /\ header' = Resolve!HeaderAfter(line)
      /\ variables' = IF line.is = "variable"
                      THEN [v \in DOMAIN variables \cup {line.name} |->
                              IF v = line.name THEN Range(line.values) ELSE variables[v]]
                      ELSE variables
      /\ rules' = IF Taken(line) THEN Append(rules, Resolve!RuleOf(line)) ELSE rules
  BY SameOperators DEF Taken, Resolve!ReadLine
<1>2. /\ paths \in Seq(Range(paths)) /\ \A f \in DOMAIN disk : Readable(disk[f])
      /\ Readable(text) /\ NothingYet
  BY <1>1 DEF RulesInv
<1>3. PICK n \in 1..(Len(text) + 1) : at = n /\ LinesRead(n)
  BY <1>1 DEF RulesInv
<1>4. Len(text) \in Nat
  BY <1>2, ReadableLines
<1>5. n \in 1..Len(text) /\ n + 1 \in 1..(Len(text) + 1)
  BY <1>1, <1>3, <1>4
<1>6. PICK places : RulesRead(n, places)
  BY <1>3 DEF LinesRead
<1>7. VariablesRead(n + 1)'
  BY <1>1, <1>2, <1>3, <1>5, VariableRead DEF LinesRead
<1>8. HeaderRead(n + 1)'
  BY <1>1, <1>2, <1>3, <1>5, LineHeader DEF LinesRead
<1>9. \E more : RulesRead(n + 1, more)'
  BY <1>1, <1>2, <1>3, <1>5, <1>6, LineRule DEF LinesRead
<1>10. at' = n + 1 /\ LinesRead(n + 1)'
  BY <1>1, <1>3, <1>7, <1>8, <1>9 DEF LinesRead
<1>11. /\ Readable(text)' /\ NothingYet' /\ \A f \in DOMAIN disk' : Readable(disk'[f])
  BY <1>1, <1>2 DEF NothingYet
<1>12. \E k \in 1..(Len(text') + 1) : at' = k /\ LinesRead(k)'
  BY <1>1, <1>5, <1>10
<1> QED
  BY <1>1, <1>2, <1>11, <1>12 DEF RulesInv

(* A step that leaves the file, what was read of it and the names.          *)
LEMMA ReadingKept ==
  ASSUME UNCHANGED <<names, text, variables, rules>>
  PROVE  /\ \A n : VariablesRead(n)' <=> VariablesRead(n)
         /\ \A n, places : RulesRead(n, places)' <=> RulesRead(n, places)
         /\ applied' = applied /\ result' = result => \A n : RulesGive(n)' <=> RulesGive(n)
<1>1. \A n, v : VariableLines(n, v)' = VariableLines(n, v)
  BY DEF VariableLines
<1>2. \A n : VariablesRead(n)' <=> VariablesRead(n)
  BY <1>1 DEF VariablesRead
<1>3. \A i : (Resolve!IsRule(i))' = Resolve!IsRule(i) /\ RuleAt(i)' = RuleAt(i)
  BY TextKept
<1>4. \A n, places : RulesRead(n, places)' <=> RulesRead(n, places)
  BY <1>3 DEF RulesRead
<1>5. \A c : MeaningUpTo(c)' = MeaningUpTo(c) /\ \A n : Applied(n, c)' = Applied(n, c)
  BY GivesKept
<1>6. applied' = applied /\ result' = result => \A n : RulesGive(n)' <=> RulesGive(n)
  BY <1>5 DEF RulesGive
<1> QED
  BY <1>2, <1>4, <1>6

LEMMA LongLineKeeps ==
  ASSUME RulesInv, Resolve!LongLine
  PROVE  RulesInv'
<1>1. pc' = "failed" /\ UNCHANGED <<paths, disk>>
  BY DEF Resolve!LongLine
<1> QED
  BY <1>1 DEF RulesInv

LEMMA EndOfFileKeeps ==
  ASSUME RulesInv, Resolve!EndOfFile
  PROVE  RulesInv'
<1>1. /\ pc = "read" /\ pc' = "resolve" /\ at > Len(text) /\ at' = 1
      /\ UNCHANGED <<names, paths, disk, text, header, variables, rules, applied, result>>
  BY DEF Resolve!EndOfFile
<1>2. /\ paths \in Seq(Range(paths)) /\ \A f \in DOMAIN disk : Readable(disk[f])
      /\ Readable(text) /\ NothingYet
  BY <1>1 DEF RulesInv
<1>3. PICK end \in 1..(Len(text) + 1) : at = end /\ LinesRead(end)
  BY <1>1 DEF RulesInv
<1>4. text \in Seq(Range(text)) /\ Len(text) \in Nat
  BY <1>2, ReadableLines
<1>5. end = Len(text) + 1 /\ end \in Nat /\ 0 \in 0..Len(text)
  BY <1>1, <1>3, <1>4
<1>6. PICK places : RulesRead(end, places)
  BY <1>3 DEF LinesRead
<1>7. Len(rules) \in Nat
  <2> DEFINE R == {RuleAt(i) : i \in 1..Len(text)}
  <2>1. rules \in Seq(R)
    BY <1>6 DEF RulesRead
  <2> HIDE DEF R
  <2> QED
    BY <2>1, Places
<1>8. RulesGive(0)
  <2>1. ASSUME NEW c \in Resolve!Components
        PROVE  applied[c] = Applied(0, c) /\ result[c] = MeaningUpTo(c)[0]
    <3>1. applied[c] = {} /\ result[c] = <<>>
      BY <1>2 DEF NothingYet
    <3>2. MeaningUpTo(c)[0] = <<>>
      BY <1>4, MeaningSolves
    <3>3. Applied(0, c) = {}
      BY DEF Applied
    <3> QED
      BY <3>1, <3>2, <3>3
  <2> QED
    BY <2>1 DEF RulesGive
<1>9. VariablesRead(end)' /\ RulesRead(end, places)' /\ RulesGive(0)'
  BY <1>1, <1>3, <1>5, <1>6, <1>8, ReadingKept DEF LinesRead
<1>10. \E e \in Nat, n \in 0..Len(text') : \E p :
            /\ e = Len(text') + 1 /\ VariablesRead(e)' /\ RulesRead(e, p)'
            /\ n = (IF at' = 1 THEN 0 ELSE p[at' - 1])
            /\ RulesGive(n)'
  BY <1>1, <1>5, <1>9
<1>11. /\ Readable(text)' /\ at' \in 1..(Len(rules') + 1)
       /\ DOMAIN applied' = Resolve!Components /\ DOMAIN result' = Resolve!Components
       /\ \A f \in DOMAIN disk' : Readable(disk'[f])
  BY <1>1, <1>2, <1>7 DEF NothingYet
<1> QED
  BY <1>1, <1>2, <1>10, <1>11 DEF RulesInv

(* Lines that are no rules give nothing.                                    *)
LEMMA NoRules ==
  ASSUME NEW T, text \in Seq(T), NEW a \in 0..Len(text), NEW b \in a..Len(text), NEW c,
         \A i \in (a + 1)..b : ~Resolve!IsRule(i)
  PROVE  MeaningUpTo(c)[b] = MeaningUpTo(c)[a] /\ Applied(b, c) = Applied(a, c)
<1>1. \A i \in (a + 1)..b : ~Resolve!Gives(i, c) /\ ~Resolve!GivesFirst(i, c)
  BY DEF Resolve!Applies, Resolve!Gives, Resolve!GivesFirst
<1>2. MeaningUpTo(c)[b] = MeaningUpTo(c)[a]
  BY <1>1, Quiet
<1>3. {i \in 1..b : Resolve!Gives(i, c)} = {i \in 1..a : Resolve!Gives(i, c)}
  <2>1. Len(text) \in Nat
    BY Places
  <2>2. ASSUME NEW i \in 1..b, ~(i \in 1..a) PROVE ~Resolve!Gives(i, c)
    <3>1. i \in (a + 1)..b
      BY <2>1, <2>2
    <3> QED
      BY <1>1, <3>1
  <2>3. 1..a \subseteq 1..b
    BY <2>1
  <2> QED
    BY <2>2, <2>3
<1> QED
  BY <1>2, <1>3 DEF Applied

(* Between the lines of two rules that follow each other there is no rule,  *)
(* nor before the first and after the last.                                 *)
LEMMA BetweenRules ==
  ASSUME Len(text) \in Nat, NEW end, end = Len(text) + 1, NEW places, RulesRead(end, places),
         Len(rules) \in Nat, NEW r \in 1..(Len(rules) + 1),
         NEW n, n = (IF r = 1 THEN 0 ELSE places[r - 1]),
         NEW next, next = (IF r = Len(rules) + 1 THEN Len(text) ELSE places[r] - 1)
  PROVE  /\ n \in 0..Len(text) /\ next \in n..Len(text)
         /\ \A i \in (n + 1)..next : ~Resolve!IsRule(i)
<1> DEFINE m == Len(rules)
<1>1. /\ places \in [1..m -> 1..Len(text)]
      /\ \A q, p \in 1..m : q < p => places[q] < places[p]
      /\ \A i \in 1..Len(text) : Resolve!IsRule(i) => \E q \in 1..m : places[q] = i
  <2>1. end - 1 = Len(text)
    OBVIOUS
  <2> QED
    BY <2>1 DEF RulesRead
<1> HIDE DEF m
<1>2. m \in Nat /\ r \in 1..(m + 1)
  BY DEF m
<1>3. r # 1 => r - 1 \in 1..m /\ n = places[r - 1] /\ places[r - 1] \in 1..Len(text)
  BY <1>1, <1>2
<1>4. r # m + 1 => r \in 1..m /\ next = places[r] - 1 /\ places[r] \in 1..Len(text)
  BY <1>1, <1>2 DEF m
<1>5. n \in 0..Len(text)
  BY <1>3
<1>6. next \in n..Len(text)
  <2>1. CASE r = m + 1
    BY <1>5, <2>1 DEF m
  <2>2. CASE r # m + 1 /\ r = 1
    BY <1>4, <2>2
  <2>3. CASE r # m + 1 /\ r # 1
    <3>1. r - 1 < r
      BY <1>2
    <3>2. places[r - 1] < places[r]
      BY <1>1, <1>3, <1>4, <2>3, <3>1
    <3> QED
      BY <1>3, <1>4, <2>3, <3>2
  <2> QED
    BY <2>1, <2>2, <2>3
<1>7. ASSUME NEW i \in (n + 1)..next, Resolve!IsRule(i) PROVE FALSE
  <2>1. i \in 1..Len(text)
    BY <1>5, <1>6
  <2>2. PICK q \in 1..m : places[q] = i
    BY <1>1, <1>7, <2>1
  <2>3. CASE q < r
    <3>1. r # 1 /\ (q = r - 1 \/ q < r - 1)
      BY <1>2, <2>3
    <3>2. i = places[r - 1] \/ i < places[r - 1]
      BY <1>1, <1>3, <2>2, <3>1
    <3> QED
      BY <1>3, <1>5, <2>1, <3>1, <3>2
  <2>4. CASE ~(q < r)
    <3>1. r # m + 1 /\ (q = r \/ r < q)
      BY <1>2, <2>4
    <3>2. i = places[r] \/ places[r] < i
      BY <1>1, <1>4, <2>2, <3>1
    <3> QED
      BY <1>4, <1>5, <1>6, <2>1, <3>1, <3>2
  <2> QED
    BY <2>3, <2>4
<1> QED
  BY <1>5, <1>6, <1>7

(* A rule gives what its line does.                                         *)
LEMMA RuleGives ==
  ASSUME Readable(text), VariablesRead(Len(text) + 1), NEW i \in 1..Len(text), Resolve!IsRule(i),
         NEW rule, rule = RuleAt(i), NEW c
  PROVE  Resolve!Gives(i, c) <=>
           /\ Resolve!RuleMatches(rule.patterns)
           /\ Resolve!Substituted(rule.value) \notin {<<>>, <<"+">>}
           /\ Resolve!ComponentOf(rule.component) = c
<1>1. Resolve!RuleMatches(rule.patterns) <=> Resolve!Applies(i)
  BY MatchesAsWritten
<1>2. rule.value = text[i].value /\ rule.component = Resolve!Heading(i).component
  BY DEF RuleAt
<1> QED
  BY <1>1, <1>2 DEF Resolve!Gives

(* With the values of the lines before it a rule leaves those up to its     *)
(* own.                                                                     *)
LEMMA RuleApplied ==
  ASSUME Readable(text), VariablesRead(Len(text) + 1), NEW i \in 1..Len(text), Resolve!IsRule(i),
         NEW rule, rule = RuleAt(i), NEW value, value = Resolve!Substituted(rule.value),
         NEW new, new = Resolve!Trimmed(value), NEW d, d = Resolve!ComponentOf(rule.component),
         DOMAIN applied = Resolve!Components, DOMAIN result = Resolve!Components,
         NEW before, before = i - 1, RulesGive(before), UNCHANGED <<names, text>>,
         IF Resolve!RuleMatches(rule.patterns) /\ value \notin {<<>>, <<"+">>}
              /\ d \in Resolve!Components /\ Resolve!Adds(d, new)
         THEN /\ applied' = [applied EXCEPT ![d] = @ \cup {new}]
              /\ result' = [result EXCEPT ![d] = Resolve!Joined(@, new)]
         ELSE UNCHANGED <<applied, result>>
  PROVE  /\ RulesGive(i)'
         /\ DOMAIN applied' = Resolve!Components /\ DOMAIN result' = Resolve!Components
<1> DEFINE Matches == Resolve!RuleMatches(rule.patterns) /\ value \notin {<<>>, <<"+">>}
<1>1. \A c : Resolve!Gives(i, c) <=> Matches /\ d = c
  BY RuleGives
<1>2. Resolve!ValueAt(i) = new
  BY DEF RuleAt, Resolve!ValueAt
<1>3. text \in Seq(Range(text)) /\ Len(text) \in Nat /\ before \in Nat
  <2>1. text \in Seq(Range(text)) /\ Len(text) \in Nat
    BY ReadableLines
  <2> QED
    BY <2>1
<1>4. IF Matches /\ d \in Resolve!Components /\ new \notin applied[d]
      THEN /\ applied' = [applied EXCEPT ![d] = @ \cup {new}]
           /\ result' = [result EXCEPT ![d] = Resolve!Joined(@, new)]
      ELSE applied' = applied /\ result' = result
  BY Zenon DEF Resolve!Adds
<1> HIDE DEF Matches
<1>5. DOMAIN applied' = Resolve!Components /\ DOMAIN result' = Resolve!Components
  BY <1>4
<1>6. ASSUME NEW c \in Resolve!Components
      PROVE  applied'[c] = Applied(i, c)' /\ result'[c] = MeaningUpTo(c)[i]'
  <2>1. applied[c] = Applied(before, c) /\ result[c] = MeaningUpTo(c)[before]
    BY DEF RulesGive
  <2>2. Applied(i, c)' = Applied(i, c) /\ MeaningUpTo(c)' = MeaningUpTo(c)
    BY GivesKept
  <2>3. MeaningUpTo(c)[i] = IF Resolve!GivesFirst(i, c) THEN Resolve!Joined(MeaningUpTo(c)[before], new)
                            ELSE MeaningUpTo(c)[before]
    <3>1. MeaningUpTo(c)[i] = IF Resolve!GivesFirst(i, c)
                              THEN Resolve!Joined(MeaningUpTo(c)[i - 1], Resolve!ValueAt(i))
                              ELSE MeaningUpTo(c)[i - 1]
      BY <1>3, MeaningSolves
    <3> QED
      BY <1>2, <3>1
  <2>4. Resolve!GivesFirst(i, c) <=> Resolve!Gives(i, c) /\ new \notin Applied(before, c)
    <3>1. Resolve!GivesFirst(i, c) <=>
            Resolve!Gives(i, c) /\ ~\E j \in 1..before : Resolve!Gives(j, c) /\ Resolve!ValueAt(j) = new
      BY <1>2 DEF Resolve!GivesFirst
    <3>2. new \in Applied(before, c) <=>
            \E j \in 1..before : Resolve!Gives(j, c) /\ Resolve!ValueAt(j) = new
      BY DEF Applied
    <3> QED
      BY <3>1, <3>2
  <2>5. Applied(i, c) = Applied(before, c) \cup {v \in {new} : Resolve!Gives(i, c)}
    <3>1. 1..i = 1..before \cup {i}
      BY <1>3
    <3>2. Applied(i, c) = {Resolve!ValueAt(j) : j \in {k \in 1..before \cup {i} : Resolve!Gives(k, c)}}
      BY <3>1 DEF Applied
    <3> QED
      BY <1>2, <3>2 DEF Applied
  <2>6. CASE Matches /\ d = c /\ new \notin applied[c]
    <3>1. applied'[c] = applied[c] \cup {new} /\ result'[c] = Resolve!Joined(result[c], new)
      BY <1>4, <2>6
    <3>2. Resolve!Gives(i, c) /\ Resolve!GivesFirst(i, c)
      BY <1>1, <2>1, <2>4, <2>6
    <3> QED
      BY <2>1, <2>2, <2>3, <2>5, <3>1, <3>2
  <2>7. CASE ~(Matches /\ d = c /\ new \notin applied[c])
    <3>1. applied'[c] = applied[c] /\ result'[c] = result[c]
      BY <1>4, <2>7
    <3>2. ~Resolve!GivesFirst(i, c)
      BY <1>1, <2>1, <2>4, <2>7
    <3>3. Applied(i, c) = Applied(before, c)
      BY <1>1, <2>1, <2>5, <2>7
    <3> QED
      BY <2>1, <2>2, <2>3, <3>1, <3>2, <3>3
  <2> QED
    BY <2>6, <2>7
<1>7. RulesGive(i)'
  BY <1>6 DEF RulesGive
<1> QED
  BY <1>5, <1>7

LEMMA MeaningKept ==
  ASSUME text' = text, names' = names
  PROVE  \A c : (Resolve!Meaning(c))' = Resolve!Meaning(c)
<1> TAKE c
<1>1. \A i, d : /\ (Resolve!GivesFirst(i, d))' = Resolve!GivesFirst(i, d)
                /\ (Resolve!ValueAt(i))' = Resolve!ValueAt(i)
  BY GivesKept
<1>2. Firsts(c)' = Firsts(c)
  BY <1>1 DEF Firsts
<1>3. Values(c)' = Values(c)
  BY <1>1, <1>2 DEF Values
<1>4. Resolve!Meaning(c) = Resolve!JoinedTo(Len(text), Values(c))
  BY DEF Resolve!Meaning, Values, Firsts
<1>5. (Resolve!Meaning(c))' = (Resolve!JoinedTo(Len(text), Values(c)))'
  BY DEF Resolve!Meaning, Values, Firsts
<1>6. (Resolve!JoinedTo(Len(text), Values(c)))' = Resolve!JoinedTo(Len(text), Values(c))
  BY <1>3 DEF Resolve!JoinedTo
<1> QED
  BY <1>4, <1>5, <1>6

LEMMA ApplyRuleKeeps ==
  ASSUME RulesInv, Resolve!ApplyRule
  PROVE  RulesInv'
<1>1. /\ pc = "resolve" /\ pc' = "resolve" /\ at <= Len(rules) /\ at' = at + 1
      /\ UNCHANGED <<names, paths, disk, text, header, variables, rules>>
  BY DEF Resolve!ApplyRule
<1>2. /\ paths \in Seq(Range(paths)) /\ \A f \in DOMAIN disk : Readable(disk[f])
      /\ Readable(text) /\ at \in 1..(Len(rules) + 1)
      /\ DOMAIN applied = Resolve!Components /\ DOMAIN result = Resolve!Components
  BY <1>1 DEF RulesInv
<1>3. PICK end \in Nat, n \in 0..Len(text) : \E places :
        /\ end = Len(text) + 1 /\ VariablesRead(end) /\ RulesRead(end, places)
        /\ n = (IF at = 1 THEN 0 ELSE places[at - 1])
        /\ RulesGive(n)
  BY <1>1 DEF RulesInv
<1>4. PICK places : /\ RulesRead(end, places)
                    /\ n = (IF at = 1 THEN 0 ELSE places[at - 1])
  BY <1>3
<1>5. text \in Seq(Range(text)) /\ Len(text) \in Nat
  BY <1>2, ReadableLines
<1>6. Len(rules) \in Nat
  <2> DEFINE R == {RuleAt(i) : i \in 1..Len(text)}
  <2>1. rules \in Seq(R)
    BY <1>4 DEF RulesRead
  <2> HIDE DEF R
  <2> QED
    BY <2>1, Places
<1>7. PICK r \in 1..Len(rules) : at = r
  BY <1>1, <1>2, <1>6
<1>8. r \in 1..(Len(rules) + 1) /\ r # Len(rules) + 1
  BY <1>6
<1>9. PICK i \in 1..Len(text) : i = places[r] /\ Resolve!IsRule(i) /\ rules[r] = RuleAt(i)
  <2>1. end - 1 = Len(text)
    BY <1>3, <1>5
  <2>2. places \in [1..Len(rules) -> 1..Len(text)]
    BY <1>4, <2>1 DEF RulesRead
  <2>3. places[r] \in 1..Len(text)
    BY <2>2
  <2> QED
    BY <1>4, <2>3 DEF RulesRead
<1>10. PICK before : before = i - 1
  OBVIOUS
<1>11. before \in n..Len(text) /\ \A k \in (n + 1)..before : ~Resolve!IsRule(k)
  BY <1>3, <1>4, <1>5, <1>6, <1>7, <1>8, <1>9, <1>10, BetweenRules
<1>12. RulesGive(before)
  <2>1. \A c : MeaningUpTo(c)[before] = MeaningUpTo(c)[n] /\ Applied(before, c) = Applied(n, c)
    BY <1>5, <1>11, NoRules
  <2> QED
    BY <1>3, <2>1 DEF RulesGive
<1>13. PICK rule, value, new, d :
         /\ rule = RuleAt(i) /\ value = Resolve!Substituted(rule.value)
         /\ new = Resolve!Trimmed(value) /\ d = Resolve!ComponentOf(rule.component)
  OBVIOUS
<1>14. IF Resolve!RuleMatches(rule.patterns) /\ value \notin {<<>>, <<"+">>}
            /\ d \in Resolve!Components /\ Resolve!Adds(d, new)
       THEN /\ applied' = [applied EXCEPT ![d] = @ \cup {new}]
            /\ result' = [result EXCEPT ![d] = Resolve!Joined(@, new)]
       ELSE UNCHANGED <<applied, result>>
  <2>1. rules[at] = rule
    BY <1>7, <1>9, <1>13
  <2> QED
    BY <1>13, <2>1, Zenon DEF Resolve!ApplyRule
<1>15. VariablesRead(Len(text) + 1)
  BY <1>3
<1>16. /\ RulesGive(i)'
       /\ DOMAIN applied' = Resolve!Components /\ DOMAIN result' = Resolve!Components
  BY <1>1, <1>2, <1>9, <1>10, <1>12, <1>13, <1>14, <1>15, RuleApplied
<1>17. VariablesRead(end)' /\ RulesRead(end, places)'
  BY <1>1, <1>3, <1>4, ReadingKept
<1>18. at' = r + 1 /\ at' # 1 /\ at' - 1 = r /\ at' \in 1..(Len(rules') + 1)
  BY <1>1, <1>6, <1>7
<1>19. i = (IF at' = 1 THEN 0 ELSE places[at' - 1]) /\ i \in 0..Len(text')
  BY <1>1, <1>9, <1>18
<1>20. end = Len(text') + 1 /\ Readable(text)' /\ \A f \in DOMAIN disk' : Readable(disk'[f])
  BY <1>1, <1>2, <1>3
<1>21. \E e \in Nat, k \in 0..Len(text') : \E p :
            /\ e = Len(text') + 1 /\ VariablesRead(e)' /\ RulesRead(e, p)'
            /\ k = (IF at' = 1 THEN 0 ELSE p[at' - 1])
            /\ RulesGive(k)'
  BY <1>16, <1>17, <1>19, <1>20
<1> QED
  BY <1>1, <1>2, <1>16, <1>18, <1>20, <1>21 DEF RulesInv

LEMMA EndOfRulesKeeps ==
  ASSUME RulesInv, Resolve!EndOfRules
  PROVE  RulesInv'
<1>1. /\ pc = "resolve" /\ pc' = "done" /\ at > Len(rules)
      /\ UNCHANGED <<names, paths, disk, text, header, variables, rules, applied, result>>
  BY DEF Resolve!EndOfRules
<1>2. /\ paths \in Seq(Range(paths)) /\ \A f \in DOMAIN disk : Readable(disk[f])
      /\ Readable(text) /\ at \in 1..(Len(rules) + 1)
  BY <1>1 DEF RulesInv
<1>3. PICK end \in Nat, n \in 0..Len(text) : \E places :
        /\ end = Len(text) + 1 /\ VariablesRead(end) /\ RulesRead(end, places)
        /\ n = (IF at = 1 THEN 0 ELSE places[at - 1])
        /\ RulesGive(n)
  BY <1>1 DEF RulesInv
<1>4. PICK places : /\ RulesRead(end, places)
                    /\ n = (IF at = 1 THEN 0 ELSE places[at - 1])
  BY <1>3
<1>5. text \in Seq(Range(text)) /\ Len(text) \in Nat
  BY <1>2, ReadableLines
<1>6. Len(rules) \in Nat
  <2> DEFINE R == {RuleAt(i) : i \in 1..Len(text)}
  <2>1. rules \in Seq(R)
    BY <1>4 DEF RulesRead
  <2> HIDE DEF R
  <2> QED
    BY <2>1, Places
<1>7. PICK r \in 1..(Len(rules) + 1) : at = r /\ r = Len(rules) + 1
  BY <1>1, <1>2, <1>6
<1>8. PICK last : last = Len(text)
  OBVIOUS
<1>9. last \in n..Len(text) /\ \A k \in (n + 1)..last : ~Resolve!IsRule(k)
  BY <1>3, <1>4, <1>5, <1>6, <1>7, <1>8, BetweenRules
<1>10. ASSUME NEW c \in Resolve!Components PROVE result'[c] = (Resolve!Meaning(c))'
  <2>1. MeaningUpTo(c)[last] = MeaningUpTo(c)[n]
    BY <1>5, <1>9, NoRules
  <2>2. result[c] = MeaningUpTo(c)[n]
    BY <1>3 DEF RulesGive
  <2>3. Resolve!Meaning(c) = MeaningUpTo(c)[Len(text)]
    BY <1>5, MeaningSolves
  <2>4. (Resolve!Meaning(c))' = Resolve!Meaning(c)
    BY <1>1, MeaningKept
  <2> QED
    BY <1>1, <1>8, <2>1, <2>2, <2>3, <2>4
<1> QED
  BY <1>1, <1>2, <1>10 DEF RulesInv

(* A step that leaves all of them.                                          *)
LEMMA RulesStutter ==
  ASSUME RulesInv, UNCHANGED Resolve!vars
  PROVE  RulesInv'
<1>1. UNCHANGED <<names, paths, disk, pc, text, at, header, variables, rules, applied, result>>
  BY DEF Resolve!vars
<1>2. /\ \A n : VariablesRead(n)' <=> VariablesRead(n)
      /\ \A n, places : RulesRead(n, places)' <=> RulesRead(n, places)
      /\ \A n : RulesGive(n)' <=> RulesGive(n)
  BY <1>1, ReadingKept
<1>3. \A n : LinesRead(n)' <=> LinesRead(n)
  <2>1. \A n : HeaderRead(n)' <=> HeaderRead(n)
    BY <1>1, TextKept DEF HeaderRead
  <2> QED
    BY <1>2, <2>1 DEF LinesRead
<1>4. \A c : (Resolve!Meaning(c))' = Resolve!Meaning(c)
  BY <1>1, MeaningKept
<1>5. NothingYet' <=> NothingYet
  BY <1>1 DEF NothingYet
<1>6. pc' = "read" => Readable(text)' /\ NothingYet' /\ \E n \in 1..(Len(text') + 1) : at' = n /\ LinesRead(n)'
  BY <1>1, <1>3, <1>5 DEF RulesInv
<1>7. pc' = "resolve" =>
        /\ Readable(text)' /\ at' \in 1..(Len(rules') + 1)
        /\ DOMAIN applied' = Resolve!Components /\ DOMAIN result' = Resolve!Components
        /\ \E end \in Nat, n \in 0..Len(text') : \E places :
             /\ end = Len(text') + 1 /\ VariablesRead(end)' /\ RulesRead(end, places)'
             /\ n = (IF at' = 1 THEN 0 ELSE places[at' - 1])
             /\ RulesGive(n)'
  BY <1>1, <1>2 DEF RulesInv
<1>8. pc' = "done" => \A c \in Resolve!Components : result'[c] = (Resolve!Meaning(c))'
  BY <1>1, <1>4 DEF RulesInv
<1>9. /\ paths' \in Seq(Range(paths')) /\ \A f \in DOMAIN disk' : Readable(disk'[f])
      /\ pc' = "find" =>
           /\ at' = 1 /\ header' = Resolve!NoHeader /\ variables' = [v \in {} |-> {}]
           /\ rules' = <<>> /\ NothingYet'
  BY <1>1, <1>5 DEF RulesInv
<1> QED
  BY <1>6, <1>7, <1>8, <1>9 DEF RulesInv

\* The components of a keymap are what the text of the rules file says, in the
\* order of its lines and each part once (compileKeymap in rules.go): for any
\* names, search paths and rules files, ResolvedAsWritten of module Rules.
THEOREM Resolved ==
  ASSUME Resolve!RulesAssumption
  PROVE  Resolve!Spec => []Resolve!ResolvedAsWritten
<1>1. Resolve!Init => RulesInv
  BY RulesInvInit
<1>2. RulesInv /\ [Resolve!Next]_Resolve!vars => RulesInv'
  <2> SUFFICES ASSUME RulesInv, [Resolve!Next]_Resolve!vars PROVE RulesInv'
    OBVIOUS
  <2>1. CASE Resolve!FindRules
    BY <2>1, FindRulesKeeps
  <2>2. CASE Resolve!ReadLine
    BY <2>2, ReadLineKeeps
  <2>3. CASE Resolve!LongLine
    BY <2>3, LongLineKeeps
  <2>4. CASE Resolve!EndOfFile
    BY <2>4, EndOfFileKeeps
  <2>5. CASE Resolve!ApplyRule
    BY <2>5, ApplyRuleKeeps
  <2>6. CASE Resolve!EndOfRules
    BY <2>6, EndOfRulesKeeps
  <2>7. CASE UNCHANGED Resolve!vars
    BY <2>7, RulesStutter
  <2> QED
    BY <2>1, <2>2, <2>3, <2>4, <2>5, <2>6, <2>7 DEF Resolve!Next
<1>3. RulesInv => Resolve!ResolvedAsWritten
  BY DEF RulesInv, Resolve!ResolvedAsWritten
<1> QED
  BY <1>1, <1>2, <1>3, PTL DEF Resolve!Spec
=============================================================================

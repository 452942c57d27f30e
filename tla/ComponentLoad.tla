---------------------------- MODULE ComponentLoad ----------------------------
(***************************************************************************)
(* How a Context loads the components of a keymap from files (rules.go):   *)
(* buildKeymapString and the recursion of loadComponentPartWithDepth and   *)
(* resolveIncludes, kept as a stack, while other goroutines change the     *)
(* include paths and the logger of the same Context (context.go).          *)
(*                                                                         *)
(* Files do not change.  A line is an include or it is copied; the text    *)
(* of a keymap is the sequence of the lines copied, with the group_offset  *)
(* statements that the loader writes around a shifted layout.              *)
(***************************************************************************)
EXTENDS Integers, Sequences, SequencesExt

CONSTANTS
  Dirs,         \* directories that include paths may name
  Disk,         \* the files: of each directory, <<kind, file>> to sections
  Requests,     \* what a caller may ask for: of each kind, its parts
  FirstPaths,   \* the include paths a Context may begin with
  NoFile,       \* the empty file name
  Default,      \* the empty section name
  NoInclude,    \* the include of a line that is none
  Missing,      \* a load that fails
  MaxDepth,     \* the depth that includes may have (20)
  MaxChanges    \* bound: changes that other goroutines make

Kinds == <<"keycodes", "types", "compat", "symbols">>

\* A section of a file has a name and lines; its braces may not match.  A
\* part is a file, a section of it, and the shift of its groups.
SectionsOnDisk == UNION {UNION {Range(Disk[d][f]) : f \in DOMAIN Disk[d]} : d \in Dirs}

\* Every line of a file, and every part that a request or a file names.
Lines == UNION {Range(s.lines) : s \in {t \in SectionsOnDisk : t.lines # Missing}}
Specs == (UNION {UNION {Range(r[k]) : k \in DOMAIN r} : r \in Requests})
         \cup {l.include : l \in {m \in Lines : m.include # NoInclude}}

ASSUME ComponentLoadAssumption ==
  /\ MaxDepth \in Nat /\ MaxChanges \in Nat
  /\ FirstPaths \subseteq Seq(Dirs)
  /\ \A d \in Dirs : \A f \in DOMAIN Disk[d] : Disk[d][f] \in Seq(SectionsOnDisk)
  /\ \A s \in SectionsOnDisk :
       /\ DOMAIN s = {"name", "lines"}
       /\ s.lines # Missing => s.lines \in Seq(Range(s.lines))
  /\ \A r \in Requests :
       /\ DOMAIN r = Range(Kinds)
       /\ \A k \in DOMAIN r : r[k] \in Seq(Range(r[k]))
  /\ \A spec \in Specs : spec.offset \in Int

VARIABLES
  paths,        \* Context.includePaths
  logger,       \* Context.logger: "set", or "nil" for the one made for nil
  status,       \* of the load: "loading", "done", "failed", "crashed"
  request,      \* what was asked for
  kind,         \* the component being loaded: an index of Kinds
  part,         \* the part of it that is loaded next
  stack,        \* the files being read, the innermost first
  out,          \* the text so far
  changes,      \* changes of the Context so far
  meddled,      \* ghost: how the paths changed during the load
  found         \* ghost: which directory each file was found in

context == <<paths, logger>>
vars == <<context, status, request, kind, part, stack, out, changes, meddled, found>>

Init ==
  /\ paths \in FirstPaths
  /\ logger \in {"set", "nil"}
  /\ status = "loading"
  /\ request \in Requests
  /\ kind = 1
  /\ part = 1
  /\ stack = <<>>
  /\ out = <<>>
  /\ changes = 0
  /\ meddled = "no"
  /\ found = {}

-----------------------------------------------------------------------------
(* The files.                                                               *)

\* findComponentFile: the paths that have the file, of which the first counts.
Homes(k, spec, ps) == {i \in DOMAIN ps : <<k, spec.file>> \in DOMAIN Disk[ps[i]]}
Home(k, spec, ps) == ps[Min(Homes(k, spec, ps))]

\* extractSection: the first section with the name, or the first of all.
Section(sections, name) ==
  LET fit == {i \in DOMAIN sections : name \in {Default, sections[i].name}}
  IN IF fit = {} THEN Missing ELSE sections[Min(fit)].lines

\* A fault of Contents: includes may be one deeper.
ContentsOneDeeper(k, spec, depth, ps) ==
  IF depth > MaxDepth + 1 THEN Missing
  ELSE IF spec.file = NoFile THEN <<>>
  ELSE IF Homes(k, spec, ps) = {} THEN Missing
  ELSE Section(Disk[Home(k, spec, ps)][<<k, spec.file>>], spec.section)

\* What loadComponentPartWithDepth reads before it looks at any line.
Contents(k, spec, depth, ps) ==
  IF depth > MaxDepth THEN Missing
  ELSE IF spec.file = NoFile THEN <<>>
  ELSE IF Homes(k, spec, ps) = {} THEN Missing
  ELSE Section(Disk[Home(k, spec, ps)][<<k, spec.file>>], spec.section)

\* The group_offset statement that goes before a part that shifts its groups,
\* and the one after it.
Shift(k, spec) == IF k = "symbols" /\ spec.file # NoFile THEN spec.offset ELSE 0
Mark(to) == [is |-> "offset", to |-> to]
Before(k, spec) == IF Shift(k, spec) > 0 THEN <<Mark(Shift(k, spec))>> ELSE <<>>
After(k, spec) == IF Shift(k, spec) > 0 THEN <<Mark(0)>> ELSE <<>>

-----------------------------------------------------------------------------
(* The loader.                                                              *)

Kind == Kinds[kind]
Parts == request[Kind]
Loading == status = "loading" /\ kind <= Len(Kinds)

\* The file of spec is opened, to be read before the files of rest.
Open(spec, depth, rest) ==
  LET lines == Contents(Kind, spec, depth, paths) IN
  /\ lines # Missing
  /\ stack' = <<[spec |-> spec, lines |-> lines]>> \o rest
  /\ out' = out \o Before(Kind, spec)
  /\ found' = IF spec.file = NoFile THEN found
              ELSE found \cup {[kind |-> Kind, file |-> spec.file, dir |-> Home(Kind, spec, paths)]}

\* loadComponent: the next part of the component is opened, or the load fails.
LoadPart ==
  /\ Loading
  /\ stack = <<>>
  /\ part <= Len(Parts)
  /\ Open(Parts[part], 0, <<>>)
  /\ part' = part + 1
  /\ UNCHANGED <<context, status, request, kind, changes, meddled>>

Fail ==
  /\ Loading
  /\ stack = <<>>
  /\ \/ Parts = <<>>
     \/ part <= Len(Parts) /\ Contents(Kind, Parts[part], 0, paths) = Missing
  /\ status' = "failed"
  /\ out' = <<>>
  /\ UNCHANGED <<context, request, kind, part, stack, changes, meddled, found>>

\* loadComponent: all parts are there, and the next component begins.
EndComponent ==
  /\ Loading
  /\ stack = <<>>
  /\ Parts # <<>> /\ part > Len(Parts)
  /\ kind' = kind + 1
  /\ part' = 1
  /\ status' = IF kind = Len(Kinds) THEN "done" ELSE "loading"
  /\ UNCHANGED <<context, request, stack, out, changes, meddled, found>>

Reading == Loading /\ stack # <<>> /\ stack[1].lines # <<>>
Line == stack[1].lines[1]
Advanced == [stack EXCEPT ![1].lines = Tail(@)]

\* The groups that a line of the innermost file is meant for.
Meant ==
  LET shifted == {i \in DOMAIN stack : Shift(Kind, stack[i].spec) > 0}
  IN IF shifted = {} THEN 0 ELSE Shift(Kind, stack[Min(shifted)].spec)

\* resolveIncludes: a line that is no include is copied.
Copy ==
  /\ Reading
  /\ Line.include = NoInclude
  /\ out' = Append(out, [is |-> "line", text |-> Line.text, meant |-> Meant])
  /\ stack' = Advanced
  /\ UNCHANGED <<context, status, request, kind, part, changes, meddled, found>>

\* The file of an include is read in place of the line.
Include ==
  /\ Reading
  /\ Line.include # NoInclude
  /\ Open(Line.include, Len(stack), Advanced)
  /\ UNCHANGED <<context, status, request, kind, part, changes, meddled>>

\* A fault of DropInclude: the include is tried again.
RetryInclude ==
  /\ Reading
  /\ Line.include # NoInclude
  /\ Contents(Kind, Line.include, Len(stack), paths) = Missing
  /\ UNCHANGED vars

\* A fault of DropInclude: the rest of the file goes with it.
DropRestOfFile ==
  /\ Reading
  /\ Line.include # NoInclude
  /\ Contents(Kind, Line.include, Len(stack), paths) = Missing
  /\ stack' = [stack EXCEPT ![1].lines = <<>>]
  /\ status' = IF logger = "nil" THEN "crashed" ELSE status
  /\ UNCHANGED <<context, request, kind, part, out, changes, meddled, found>>

\* An include that fails is logged and left out; the logger made for nil
\* writes through a nil writer, which ends the program.
DropInclude ==
  /\ Reading
  /\ Line.include # NoInclude
  /\ Contents(Kind, Line.include, Len(stack), paths) = Missing
  /\ stack' = Advanced
  /\ status' = IF logger = "nil" THEN "crashed" ELSE status
  /\ UNCHANGED <<context, request, kind, part, out, changes, meddled, found>>

\* A fault of EndFile: the groups stay shifted.
EndFileShifted ==
  /\ Loading
  /\ stack # <<>> /\ stack[1].lines = <<>>
  /\ stack' = Tail(stack)
  /\ UNCHANGED <<context, status, request, kind, part, out, changes, meddled, found>>

\* The end of a file.
EndFile ==
  /\ Loading
  /\ stack # <<>> /\ stack[1].lines = <<>>
  /\ out' = out \o After(Kind, stack[1].spec)
  /\ stack' = Tail(stack)
  /\ UNCHANGED <<context, status, request, kind, part, changes, meddled, found>>

Load == LoadPart \/ Fail \/ EndComponent \/ Copy \/ Include \/ DropInclude \/ EndFile

-----------------------------------------------------------------------------
(* The other goroutines.                                                    *)

Change ==
  /\ changes < MaxChanges
  /\ changes' = changes + 1
  /\ UNCHANGED <<status, request, kind, part, stack, out, found>>

\* A fault of AppendIncludePath: the new path comes first.
AppendIncludePathFirst(d) ==
  /\ Change
  /\ paths' = <<d>> \o paths
  /\ meddled' = IF meddled = "no" THEN "appended" ELSE meddled
  /\ UNCHANGED logger

AppendIncludePath(d) ==
  /\ Change
  /\ paths' = Append(paths, d)
  /\ meddled' = IF meddled = "no" THEN "appended" ELSE meddled
  /\ UNCHANGED logger

PrependIncludePath(d) ==
  /\ Change
  /\ paths' = <<d>> \o paths
  /\ meddled' = "otherwise"
  /\ UNCHANGED logger

ClearIncludePaths ==
  /\ Change
  /\ paths' = <<>>
  /\ meddled' = "otherwise"
  /\ UNCHANGED logger

SetLogger(l) ==
  /\ Change
  /\ logger' = l
  /\ UNCHANGED <<paths, meddled>>

Next ==
  \/ Load
  \/ \E d \in Dirs : AppendIncludePath(d) \/ PrependIncludePath(d)
  \/ ClearIncludePaths
  \/ \E l \in {"set", "nil"} : SetLogger(l)

\* The goroutine that loads is scheduled while it can go on.
Spec == Init /\ [][Next]_vars /\ WF_vars(Load)

-----------------------------------------------------------------------------
(* Properties.                                                              *)

\* Every variable holds a value of its type, and the includes are no deeper
\* than the limit.
TypeOK ==
  /\ paths \in Seq(Dirs)
  /\ logger \in {"set", "nil"}
  /\ status \in {"loading", "done", "failed", "crashed"}
  /\ request \in Requests
  /\ kind \in 1..(Len(Kinds) + 1)
  /\ part \in Nat \ {0}
  /\ Len(stack) <= MaxDepth + 1
  /\ \A i \in DOMAIN stack : stack[i].spec \in Specs /\ Range(stack[i].lines) \subseteq Lines
  /\ changes \in 0..MaxChanges
  /\ meddled \in {"no", "appended", "otherwise"}

\* The text of a part whose includes may be n - 1 deep, by recursion on n: the
\* lines of its section, every include replaced by its own text, or nothing
\* when it cannot be loaded.
Text(ps) ==
  LET text[x \in (0..(MaxDepth + 1)) \X Range(Kinds) \X Specs] ==
        LET n == x[1]
            k == x[2]
            spec == x[3]
            lines == Contents(k, spec, 0, ps)
            Of(line) == IF line.include = NoInclude THEN <<[is |-> "line", text |-> line.text]>>
                        ELSE text[<<n - 1, k, line.include>>]
        IN IF n = 0 \/ lines = Missing THEN <<>>
           ELSE Before(k, spec) \o FlattenSeq([i \in DOMAIN lines |-> Of(lines[i])]) \o After(k, spec)
  IN text

\* out without the ghosts.
Bare(o) == [i \in DOMAIN o |-> IF o[i].is = "line" THEN [is |-> "line", text |-> o[i].text] ELSE o[i]]

\* When nobody changes the include paths, a load fails exactly when one of
\* the parts it was asked for cannot be loaded, and otherwise it returns the
\* parts in order, with all their includes that can be loaded: an include
\* that fails, at whatever depth, costs nothing but itself.
LoadsWhatIsThere ==
  meddled = "no" /\ status \in {"done", "failed"} =>
    IF \E k \in Range(Kinds) :
         request[k] = <<>> \/ \E spec \in Range(request[k]) : Contents(k, spec, 0, paths) = Missing
    THEN status = "failed"
    ELSE /\ status = "done"
         /\ Bare(out) = FlattenSeq([j \in DOMAIN Kinds |->
                          FlattenSeq([p \in DOMAIN request[Kinds[j]] |->
                            Text(paths)[<<MaxDepth + 1, Kinds[j], request[Kinds[j]][p]>>]])])

\* Paths that are only appended while a load runs have lower priority than
\* the ones it has used ("Later paths have lower priority when resolving
\* includes"), so that a file it reads twice is the same one both times.
SameFileAgain ==
  meddled # "otherwise" =>
    \A f, g \in found : f.kind = g.kind /\ f.file = g.file => f.dir = g.dir

\* The group offset the parser has when it reads line i of the text.
Marks(i) == {j \in 1..i : out[j].is = "offset"}
OffsetAt(i) == IF Marks(i) = {} THEN 0 ELSE out[Max(Marks(i))].to
Nested == \E i \in DOMAIN out : out[i].is = "offset" /\ out[i].to > 0 /\ OffsetAt(i - 1) > 0

\* Every line of a layout, the lines of its includes among them, is parsed
\* for the group the layout was asked for, and what follows the layout is
\* not, as long as no shifted include is inside a shifted part.
GroupsAsAsked ==
  ~Nested => \A i \in DOMAIN out : out[i].is = "line" => out[i].meant = OffsetAt(i)

\* A load ends, whatever includes itself and whatever happens to the paths.
LoadEnds == status = "loading" ~> status # "loading"
=============================================================================

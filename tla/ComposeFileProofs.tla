-------------------------- MODULE ComposeFileProofs --------------------------
(***************************************************************************)
(* Theorems of ComposeFile, for any files with any includes and for every  *)
(* place a caller may make the parser look.                                *)
(***************************************************************************)
EXTENDS ComposeFile, Lemmas, SequenceTheorems

\* An open file, and what an element of composeParser.sequences is.
Frames == [path : Paths, left : Seq(Lines)]
Sequences == [seq : Seq(Keysyms) \ {<<>>}, out : Results]

\* NoFileInsideItself holds at the next include because a file on the stack is
\* marked; the rest says that what is on the stack is text of the disk.
IInv ==
  /\ disk \in Disks
  /\ place \in Places
  /\ status \in {"asked", "reading", "done", "failed"}
  /\ stack \in Seq(Frames)
  /\ status = "reading" <=> stack # <<>>
  /\ included \subseteq Paths
  /\ sequences \in Seq(Sequences)
  /\ errors \in Nat
  /\ NoFileInsideItself

(* A file that is opened has a path and lines.                              *)
LEMMA OpensFile ==
  ASSUME IInv, NEW p, Opens(p)
  PROVE  [path |-> p, left |-> disk[p]] \in Frames
<1>1. p \in DOMAIN disk /\ disk[p] # Unreadable
  BY DEF Opens, Readable, Exists
<1>2. p \in Paths /\ disk[p] \in Seq(Lines)
  BY <1>1, ComposeFileAssumption DEF IInv
<1> QED
  BY <1>2 DEF Frames

(* The first path that exists is one of the paths.                          *)
LEMMA FirstIsPath ==
  ASSUME NEW S, NEW paths \in Seq(S), NEW d
  PROVE  First(d, paths) \in S \cup {Nowhere}
<1> DEFINE hits == {i \in 1..Len(paths) : Exists(d, paths[i])}
<1>1. SelectInSeq(paths, LAMBDA p : Exists(d, p)) = IF hits # {} THEN Min(hits) ELSE 0
  BY DEF SelectInSeq
<1>2. hits \in SUBSET Nat /\ \A i \in hits : i # 0 /\ paths[i] \in S
  OBVIOUS
<1> HIDE DEF hits
<1>3. hits # {} => Min(hits) \in hits
  BY <1>2, MinMember
<1> QED
  BY <1>1, <1>2, <1>3 DEF First

(* What a line includes has a path, or none.                                *)
LEMMA FoundIsPath ==
  ASSUME IInv, AtLine("include")
  PROVE  Found \in Paths \cup {Nowhere}
<1>1. stack[1] \in Frames /\ stack[1].left # <<>>
  BY DEF IInv, AtLine
<1>2. stack[1].left \in Seq(Lines)
  BY <1>1 DEF Frames
<1>3. Line \in Lines /\ Line.is = "include"
  BY <1>1, <1>2, HeadTailProperties DEF Line, AtLine
<1>4. Line.tries \in Seq(Paths)
  BY <1>3 DEF Lines
<1> QED
  BY <1>4, FirstIsPath DEF Found

(* What a caller asks for has a path, or none.                              *)
LEMMA TopIsPath ==
  ASSUME IInv
  PROVE  Top(place) \in Paths \cup {Nowhere}
<1> DEFINE Locales == [xcomposefile : Paths \cup {Nowhere}, home : Paths \cup {Nowhere},
                       direct : Seq(Paths), mapped : Seq(Paths), fallback : Seq(Paths)]
<1>1. place \in [file : Paths] \cup Locales
  BY ComposeFileAssumption DEF IInv
<1>2. ASSUME place \in [file : Paths] PROVE Top(place) \in Paths
  BY <1>2 DEF Top
<1>3. ASSUME place \in Locales PROVE Top(place) \in Paths \cup {Nowhere}
  <2> DEFINE P == Paths \cup {Nowhere}
  <2>1. <<place.xcomposefile, place.home>> \in Seq(P)
    BY <1>3
  <2>2. place.direct \in Seq(P) /\ place.mapped \in Seq(P) /\ place.fallback \in Seq(P)
    BY <1>3
  <2>3. Candidates(place) \in Seq(P)
    <3> HIDE DEF P
    <3> QED
      BY <2>1, <2>2, ConcatProperties DEF Candidates
  <2>4. First(disk, Candidates(place)) \in P \cup {Nowhere}
    <3> HIDE DEF P
    <3> QED
      BY <2>3, FirstIsPath
  <2>5. "file" \notin DOMAIN place
    BY <1>3
  <2> QED
    BY <2>4, <2>5 DEF Top
<1> QED
  BY <1>1, <1>2, <1>3

-----------------------------------------------------------------------------
(* What the steps do to the stack.                                          *)

(* Reading on in the innermost file keeps the files on the stack.           *)
LEMMA AdvancedKeeps ==
  ASSUME IInv, stack # <<>>, stack[1].left # <<>>
  PROVE  /\ Advanced \in Seq(Frames) /\ Advanced # <<>>
         /\ Len(Advanced) = Len(stack)
         /\ \A i \in 1..Len(stack) : Advanced[i].path = stack[i].path
<1>1. stack \in Seq(Frames) /\ stack[1] \in Frames
  BY DEF IInv
<1> DEFINE top == [stack[1] EXCEPT !.left = Tail(@)]
<1>2. top \in Frames /\ top.path = stack[1].path
  BY <1>1, HeadTailProperties DEF Frames
<1>3. /\ Tail(stack) \in Seq(Frames) /\ Len(Tail(stack)) = Len(stack) - 1
      /\ \A i \in 1..Len(Tail(stack)) : Tail(stack)[i] = stack[i + 1]
  BY <1>1, HeadTailProperties
<1> HIDE DEF top
<1>4. <<top>> \in Seq(Frames) /\ Len(<<top>>) = 1 /\ <<top>>[1] = top
  BY <1>2
<1>5. /\ <<top>> \o Tail(stack) \in Seq(Frames)
      /\ Len(<<top>> \o Tail(stack)) = Len(stack)
      /\ \A i \in 1..Len(stack) :
           (<<top>> \o Tail(stack))[i] = IF i <= 1 THEN <<top>>[i] ELSE Tail(stack)[i - 1]
  BY <1>1, <1>3, <1>4, ConcatProperties
<1>6. ASSUME NEW i \in 1..Len(stack) PROVE (<<top>> \o Tail(stack))[i].path = stack[i].path
  BY <1>1, <1>2, <1>3, <1>4, <1>5
<1>7. Advanced = <<top>> \o Tail(stack)
  BY DEF Advanced, top
<1> QED
  BY <1>1, <1>5, <1>6, <1>7

(* A file that was not included goes on the stack without being there.      *)
LEMMA PushKeeps ==
  ASSUME NEW s \in Seq(Frames), NEW p, NEW inc, p \notin inc,
         [path |-> p, left |-> disk[p]] \in Frames,
         \A i \in 1..Len(s) : s[i].path \in inc,
         \A i, j \in 1..Len(s) : i # j => s[i].path # s[j].path
  PROVE  LET t == Push(p, s)
         IN /\ t \in Seq(Frames) /\ t # <<>>
            /\ \A i \in DOMAIN t : t[i].path \in inc \cup {p}
            /\ \A i, j \in DOMAIN t : i # j => t[i].path # t[j].path
<1> DEFINE f == [path |-> p, left |-> disk[p]]
           t == <<f>> \o s
<1>1. f.path = p /\ f \in Frames
  OBVIOUS
<1> HIDE DEF f
<1>2. <<f>> \in Seq(Frames) /\ Len(<<f>>) = 1 /\ <<f>>[1] = f
  BY <1>1
<1>3. /\ t \in Seq(Frames) /\ Len(t) = Len(s) + 1
      /\ \A i \in 1..(Len(s) + 1) : t[i] = IF i <= 1 THEN <<f>>[i] ELSE s[i - 1]
  BY <1>2, ConcatProperties
<1> HIDE DEF t
<1>4. DOMAIN t = 1..(Len(s) + 1) /\ Len(s) \in Nat
  BY <1>3
<1>5. t[1].path = p /\ \A i \in DOMAIN t : i # 1 => i - 1 \in 1..Len(s) /\ t[i] = s[i - 1]
  BY <1>1, <1>2, <1>3, <1>4
<1>6. \A i \in DOMAIN t : t[i].path \in inc \cup {p}
  BY <1>5
<1>7. ASSUME NEW i \in DOMAIN t, NEW j \in DOMAIN t, i # j PROVE t[i].path # t[j].path
  <2>1. CASE i = 1
    BY <1>5, <1>7, <2>1
  <2>2. CASE j = 1
    BY <1>5, <1>7, <2>2
  <2>3. CASE i # 1 /\ j # 1
    <3>1. i - 1 # j - 1
      BY <1>4, <1>7
    <3> QED
      BY <1>5, <2>3, <3>1
  <2> QED
    BY <2>1, <2>2, <2>3
<1>8. Push(p, s) = t
  BY DEF Push, t, f
<1>9. t # <<>>
  BY <1>3, <1>4
<1> QED
  BY <1>3, <1>6, <1>7, <1>8, <1>9

(* A file that has been read leaves the stack.                              *)
LEMMA PopKeeps ==
  ASSUME IInv, stack # <<>>
  PROVE  LET t == Tail(stack)
         IN /\ t \in Seq(Frames)
            /\ t = <<>> <=> Len(stack) = 1
            /\ \A i \in DOMAIN t : t[i].path \in included
            /\ \A i, j \in DOMAIN t : i # j => t[i].path # t[j].path
<1>1. stack \in Seq(Frames)
  BY DEF IInv
<1> DEFINE t == Tail(stack)
<1>2. /\ t \in Seq(Frames) /\ Len(t) = Len(stack) - 1
      /\ \A i \in 1..Len(t) : t[i] = stack[i + 1]
  BY <1>1, HeadTailProperties
<1> HIDE DEF t
<1>3. \A i \in DOMAIN t : i \in 1..Len(t) /\ i + 1 \in DOMAIN stack
  BY <1>1, <1>2
<1>4. \A i \in DOMAIN t : t[i].path \in included
  BY <1>2, <1>3 DEF IInv, NoFileInsideItself
<1>5. ASSUME NEW i \in DOMAIN t, NEW j \in DOMAIN t, i # j PROVE t[i].path # t[j].path
  <2>1. i + 1 # j + 1
    BY <1>3, <1>5
  <2> QED
    BY <1>2, <1>3, <2>1 DEF IInv, NoFileInsideItself
<1>6. t = <<>> <=> Len(stack) = 1
  BY <1>1, <1>2, EmptySeq
<1> QED
  BY <1>2, <1>4, <1>5, <1>6 DEF t

(* A line that parses is a sequence of keysyms with a result.               *)
LEMMA ParsedIsSequence ==
  ASSUME IInv, AtLine("line"), Parses(Line)
  PROVE  [seq |-> Line.keys, out |-> Line.out] \in Sequences
<1>1. stack[1] \in Frames /\ stack[1].left # <<>>
  BY DEF IInv, AtLine
<1>2. stack[1].left \in Seq(Lines)
  BY <1>1 DEF Frames
<1>3. Line \in Lines /\ Line.is = "line"
  BY <1>1, <1>2, HeadTailProperties DEF Line, AtLine
<1>4. Line.keys \in Seq(Keysyms \cup {Unknown}) /\ Line.out \in Results
  BY <1>3 DEF Lines
<1> DEFINE keys == Line.keys
<1>5. /\ \A i \in DOMAIN keys : keys[i] \in Keysyms \cup {Unknown} /\ keys[i] # Unknown
      /\ keys # <<>>
  BY <1>4 DEF Parses, Range
<1> HIDE DEF keys
<1>6. keys \in Seq(Keysyms)
  BY <1>4, <1>5, SeqDef DEF keys
<1> QED
  BY <1>4, <1>5, <1>6 DEF keys, Sequences

-----------------------------------------------------------------------------

(* Before anything is read there is nothing on the stack.                   *)
LEMMA InitInv == Init => IInv
<1> SUFFICES ASSUME Init PROVE IInv
  OBVIOUS
<1>1. stack = <<>> /\ sequences = <<>> /\ errors = 0 /\ included = {} /\ status = "asked"
  BY DEF Init
<1>2. NoFileInsideItself
  BY <1>1 DEF NoFileInsideItself
<1> QED
  BY <1>1, <1>2 DEF Init, IInv

(* A line that leaves the stack as high as it is: the files on it are the   *)
(* same and stay marked.                                                    *)
LEMMA AdvanceInv ==
  ASSUME IInv, stack # <<>>, stack[1].left # <<>>, stack' = Advanced,
         UNCHANGED <<disk, place, status>>, included \subseteq included',
         included' \subseteq Paths, sequences' \in Seq(Sequences), errors' \in Nat
  PROVE  IInv'
<1>1. /\ stack' \in Seq(Frames) /\ stack' # <<>>
      /\ Len(stack') = Len(stack)
      /\ \A i \in 1..Len(stack) : stack'[i].path = stack[i].path
  BY AdvancedKeeps
<1>2. DOMAIN stack' = 1..Len(stack) /\ DOMAIN stack = 1..Len(stack)
  BY <1>1 DEF IInv
<1>3. \A i \in DOMAIN stack' : i \in DOMAIN stack /\ stack'[i].path = stack[i].path
  BY <1>1, <1>2
<1>4. NoFileInsideItself'
  BY <1>3 DEF IInv, NoFileInsideItself
<1> QED
  BY <1>1, <1>4 DEF IInv

(* Every step keeps the files on the stack different and marked.            *)
LEMMA StepInv == IInv /\ [Next]_vars => IInv'
<1> SUFFICES ASSUME IInv, [Next]_vars PROVE IInv'
  OBVIOUS
<1>1. ASSUME OpenTop PROVE IInv'
  <2>1. [path |-> Top(place), left |-> disk[Top(place)]] \in Frames
    BY <1>1, OpensFile DEF OpenTop
  <2>2. stack' = Push(Top(place), <<>>) /\ included' = {Top(place)} /\ status' = "reading"
        /\ UNCHANGED <<disk, place, sequences, errors>>
    BY <1>1 DEF OpenTop
  <2> DEFINE none == <<>>
  <2>3. none \in Seq(Frames) /\ 1..Len(none) = {} /\ Top(place) \notin {}
    OBVIOUS
  <2> HIDE DEF none
  <2>4. LET t == Push(Top(place), none)
        IN /\ t \in Seq(Frames) /\ t # <<>>
           /\ \A i \in DOMAIN t : t[i].path \in {} \cup {Top(place)}
           /\ \A i, j \in DOMAIN t : i # j => t[i].path # t[j].path
    BY <2>1, <2>3, PushKeeps
  <2>5. Top(place) \in Paths
    BY <2>1 DEF Frames
  <2>6. NoFileInsideItself'
    BY <2>2, <2>4 DEF NoFileInsideItself, none
  <2> QED
    BY <2>2, <2>4, <2>5, <2>6 DEF IInv, none
<1>2. ASSUME NoTop PROVE IInv'
  <2>1. Top(place) \in Paths \cup {Nowhere}
    BY TopIsPath
  <2>2. stack = <<>> /\ stack' = <<>>
    BY <1>2 DEF NoTop, IInv
  <2>3. NoFileInsideItself'
    BY <2>2 DEF NoFileInsideItself
  <2> QED
    BY <1>2, <2>1, <2>2, <2>3 DEF NoTop, IInv
<1>3. ASSUME NEW what, AtLine(what) PROVE stack # <<>> /\ stack[1].left # <<>>
  BY <1>3 DEF AtLine, IInv
<1>4. ASSUME Blank PROVE IInv'
  BY <1>3, <1>4, AdvanceInv DEF Blank, IInv
<1>5. ASSUME Define PROVE IInv'
  <2>1. sequences' \in Seq(Sequences)
    BY <1>5, ParsedIsSequence, AppendProperties DEF Define, IInv
  <2> QED
    BY <1>3, <1>5, <2>1, AdvanceInv DEF Define, IInv
<1>6. ASSUME BadLine PROVE IInv'
  BY <1>3, <1>6, AdvanceInv DEF BadLine, IInv
<1>7. ASSUME Include PROVE IInv'
  <2>1. [path |-> Found, left |-> disk[Found]] \in Frames
    BY <1>7, OpensFile DEF Include
  <2>2. /\ stack' = Push(Found, Advanced) /\ included' = included \cup {Found}
        /\ UNCHANGED <<disk, place, status, sequences, errors>>
        /\ status = "reading" /\ Found \notin included
    BY <1>7 DEF Include, AtLine, Opens
  <2>3. /\ Advanced \in Seq(Frames) /\ Len(Advanced) = Len(stack)
        /\ \A i \in 1..Len(stack) : Advanced[i].path = stack[i].path
    BY <1>3, <1>7, AdvancedKeeps DEF Include
  <2>4. DOMAIN stack = 1..Len(stack)
    BY DEF IInv
  <2>5. /\ \A i \in 1..Len(Advanced) : Advanced[i].path \in included
        /\ \A i, j \in 1..Len(Advanced) : i # j => Advanced[i].path # Advanced[j].path
    BY <2>3, <2>4 DEF IInv, NoFileInsideItself
  <2>6. LET t == Push(Found, Advanced)
        IN /\ t \in Seq(Frames) /\ t # <<>>
           /\ \A i \in DOMAIN t : t[i].path \in included \cup {Found}
           /\ \A i, j \in DOMAIN t : i # j => t[i].path # t[j].path
    BY <2>1, <2>2, <2>3, <2>5, PushKeeps
  <2>7. Found \in Paths
    BY <2>1 DEF Frames
  <2>8. NoFileInsideItself'
    BY <2>2, <2>6 DEF NoFileInsideItself
  <2> QED
    BY <2>2, <2>6, <2>7, <2>8 DEF IInv
<1>8. ASSUME IncludeAgain PROVE IInv'
  BY <1>3, <1>8, AdvanceInv DEF IncludeAgain, IInv
<1>9. ASSUME BadInclude PROVE IInv'
  <2>1. Found \in Paths \cup {Nowhere}
    BY <1>9, FoundIsPath DEF BadInclude
  <2> QED
    BY <1>3, <1>9, <2>1, AdvanceInv DEF BadInclude, IInv
<1>10. ASSUME stack # <<>>, stack' = Tail(stack), UNCHANGED <<disk, place, included>>,
              sequences' \in Seq(Sequences), errors' \in Nat,
              status = "reading",
              status' \in {"reading", "done", "failed"},
              status' = "reading" <=> Len(stack) # 1
       PROVE  IInv'
  <2>1. /\ stack' \in Seq(Frames)
        /\ stack' = <<>> <=> Len(stack) = 1
        /\ \A i \in DOMAIN stack' : stack'[i].path \in included
        /\ \A i, j \in DOMAIN stack' : i # j => stack'[i].path # stack'[j].path
    BY <1>10, PopKeeps
  <2>2. NoFileInsideItself'
    BY <1>10, <2>1 DEF NoFileInsideItself
  <2> QED
    BY <1>10, <2>1, <2>2 DEF IInv
<1>11. ASSUME LongLine PROVE IInv'
  BY <1>10, <1>11 DEF LongLine, AtLine, IInv
<1>12. ASSUME EndFile PROVE IInv'
  BY <1>10, <1>12 DEF EndFile, IInv
<1>13. ASSUME UNCHANGED vars PROVE IInv'
  BY <1>13 DEF vars, IInv, NoFileInsideItself
<1> QED
  BY <1>1, <1>2, <1>4, <1>5, <1>6, <1>7, <1>8, <1>9, <1>11, <1>12, <1>13 DEF Next

(* The invariant holds of every reachable state.                            *)
LEMMA Invariance == Spec => []IInv
<1> QED
  BY InitInv, StepInv, PTL DEF Spec

(* Every reachable state is well-typed: what is read is text of the disk,   *)
(* and what is in the table are keysyms (composeParser.parseData).          *)
THEOREM TypeCorrect == Spec => []TypeOK
<1>1. IInv => TypeOK
  <2> SUFFICES ASSUME IInv PROVE TypeOK
    OBVIOUS
  <2>1. ASSUME NEW i \in DOMAIN stack
        PROVE  stack[i].path \in Paths /\ Range(stack[i].left) \subseteq Lines
    <3>1. stack[i] \in Frames
      BY DEF IInv
    <3>2. stack[i].path \in Paths /\ stack[i].left \in Seq(Lines)
      BY <3>1 DEF Frames
    <3> QED
      BY <3>2 DEF Range
  <2>2. ASSUME NEW i \in DOMAIN sequences
        PROVE  /\ sequences[i].seq # <<>>
               /\ Range(sequences[i].seq) \subseteq Keysyms
               /\ sequences[i].out \in Results
    <3>1. sequences[i] \in Sequences
      BY DEF IInv
    <3>2. /\ sequences[i].seq \in Seq(Keysyms) /\ sequences[i].seq # <<>>
          /\ sequences[i].out \in Results
      BY <3>1 DEF Sequences
    <3> QED
      BY <3>2 DEF Range
  <2> QED
    BY <2>1, <2>2 DEF IInv, TypeOK
<1> QED
  BY <1>1, Invariance, PTL

(* No file is read while it is being read, whatever includes what: the      *)
(* recursion of parseFile is bounded by the number of files.                *)
THEOREM NoRecursion == Spec => []NoFileInsideItself
<1>1. IInv => NoFileInsideItself
  BY DEF IInv
<1> QED
  BY <1>1, Invariance, PTL

-----------------------------------------------------------------------------
(* The reading that ReadsInOrder compares with, unfolded by one line.       *)

\* The file that a line includes, what a line gives when the file it opens
\* gives sub, and what lines give when g tells it of their rest.
Named(d, line) == First(d, line.tries)
Marked(d, r, line) == [r EXCEPT !.included = @ \cup {Named(d, line)}]
Goes(d, r, line) == line.is = "include" /\ Named(d, line) \notin r.included \cup {Nowhere}
Nests(d, r, line) == Goes(d, r, line) /\ Readable(d, Named(d, line))
AfterOf(d, r, line, sub) ==
  CASE line.is = "line" /\ Parses(line) ->
         [r EXCEPT !.sequences = Append(@, [seq |-> line.keys, out |-> line.out])]
    [] Goes(d, r, line) -> IF Readable(d, Named(d, line)) THEN [sub EXCEPT !.cut = FALSE]
                           ELSE Marked(d, r, line)
    [] OTHER -> r
BodyOf(d, g, n, lines, r) ==
  IF n = 0 \/ lines = <<>> THEN r
  ELSE IF Head(lines).is = "long" THEN [r EXCEPT !.cut = TRUE]
  ELSE g[<<n - 1, Tail(lines),
           AfterOf(d, r, Head(lines), g[<<n - 1, d[Named(d, Head(lines))], Marked(d, r, Head(lines))>>])>>]

\* Two functions agree on what the body with n uses.
AgreeBefore(g, h, n) ==
  n # 0 => \A l \in Seq(Lines), q \in Outcomes :
             g[<<n - 1, l, q>>] = h[<<n - 1, l, q>>] /\ g[<<n - 1, l, q>>] \in Outcomes

\* How many lines there are on a disk, and what has been read when a file is
\* opened.
All(d) == Cardinality(LinesLeft(d, {}))

LEMMA ReadingIs ==
  ASSUME NEW d
  PROVE  Reading(d) = CHOOSE g : g = [x \in (0..All(d)) \X Seq(Lines) \X Outcomes |->
                                        BodyOf(d, g, x[1], x[2], x[3])]
  BY DEF Reading, BodyOf, AfterOf, Goes, Marked, Named, All

(* What a line gives.                                                       *)
LEMMA LineGives ==
  ASSUME NEW d \in Disks, NEW r \in Outcomes, NEW line \in Lines
  PROVE  /\ Nests(d, r, line) =>
              /\ Named(d, line) \in DOMAIN d /\ Named(d, line) \notin r.included
              /\ d[Named(d, line)] \in Seq(Lines)
              /\ Marked(d, r, line) \in Outcomes
              /\ Marked(d, r, line).included = r.included \cup {Named(d, line)}
              /\ \A sub : AfterOf(d, r, line, sub) = [sub EXCEPT !.cut = FALSE]
         /\ ~Nests(d, r, line) =>
              \A sub, other : /\ AfterOf(d, r, line, sub) = AfterOf(d, r, line, other)
                              /\ AfterOf(d, r, line, sub) \in Outcomes
                              /\ r.included \subseteq AfterOf(d, r, line, sub).included
<1>1. r.included \in SUBSET Paths /\ r.sequences \in Seq([seq : Seq(Keysyms), out : Results])
  BY DEF Outcomes
<1>2. ASSUME Goes(d, r, line)
      PROVE  /\ Named(d, line) \in Paths \ r.included
             /\ Marked(d, r, line) \in Outcomes
             /\ Marked(d, r, line).included = r.included \cup {Named(d, line)}
  <2>1. line.tries \in Seq(Paths)
    BY <1>2 DEF Goes, Lines
  <2>2. Named(d, line) \in Paths
    BY <1>2, <2>1, FirstIsPath DEF Goes, Named
  <2>3. /\ Marked(d, r, line) \in Outcomes
        /\ Marked(d, r, line).included = r.included \cup {Named(d, line)}
    BY <2>2 DEF Marked, Outcomes
  <2> QED
    BY <1>2, <2>2, <2>3 DEF Goes
<1>3. ASSUME Nests(d, r, line)
      PROVE  /\ Named(d, line) \in DOMAIN d
             /\ d[Named(d, line)] \in Seq(Lines)
             /\ \A sub : AfterOf(d, r, line, sub) = [sub EXCEPT !.cut = FALSE]
  <2>1. Named(d, line) \in DOMAIN d /\ d[Named(d, line)] # Unreadable
    BY <1>3 DEF Nests, Readable, Exists
  <2>2. d[Named(d, line)] \in Seq(Lines)
    BY <2>1, ComposeFileAssumption
  <2>3. line.is # "line" /\ Goes(d, r, line) /\ Readable(d, Named(d, line))
    BY <1>3 DEF Nests, Goes
  <2> QED
    BY <2>1, <2>2, <2>3 DEF AfterOf
<1>4. ASSUME line.is = "line" /\ Parses(line), NEW sub
      PROVE  /\ AfterOf(d, r, line, sub)
                  = [r EXCEPT !.sequences = Append(@, [seq |-> line.keys, out |-> line.out])]
             /\ AfterOf(d, r, line, sub) \in Outcomes
             /\ AfterOf(d, r, line, sub).included = r.included
  <2>1. AfterOf(d, r, line, sub)
          = [r EXCEPT !.sequences = Append(@, [seq |-> line.keys, out |-> line.out])]
    BY <1>4 DEF AfterOf, Goes
  <2>2. line.keys \in Seq(Keysyms \cup {Unknown}) /\ line.out \in Results
    BY <1>4 DEF Lines
  <2> DEFINE keys == line.keys
             new == [seq |-> keys, out |-> line.out]
  <2>3. \A i \in DOMAIN keys : keys[i] \in Keysyms \cup {Unknown} /\ keys[i] # Unknown
    BY <1>4, <2>2 DEF Parses, Range
  <2> HIDE DEF keys
  <2>4. keys \in Seq(Keysyms)
    BY <2>2, <2>3, SeqDef DEF keys
  <2>5. new \in [seq : Seq(Keysyms), out : Results]
    BY <2>2, <2>4
  <2> HIDE DEF new
  <2>6. Append(r.sequences, new) \in Seq([seq : Seq(Keysyms), out : Results])
    BY <1>1, <2>5, AppendProperties
  <2>7. AfterOf(d, r, line, sub) = [r EXCEPT !.sequences = Append(@, new)]
    BY <2>1 DEF new, keys
  <2>8. /\ AfterOf(d, r, line, sub) \in Outcomes
        /\ AfterOf(d, r, line, sub).included = r.included
    BY <2>6, <2>7 DEF Outcomes
  <2> QED
    BY <2>1, <2>8
<1>5. ASSUME Goes(d, r, line), ~Nests(d, r, line), NEW sub
      PROVE  AfterOf(d, r, line, sub) = Marked(d, r, line)
  BY <1>5 DEF AfterOf, Goes, Nests
<1>6. ASSUME ~Goes(d, r, line), ~(line.is = "line" /\ Parses(line)), NEW sub
      PROVE  AfterOf(d, r, line, sub) = r
  BY <1>6 DEF AfterOf
<1>7. ASSUME ~Nests(d, r, line), NEW sub, NEW other
      PROVE  /\ AfterOf(d, r, line, sub) = AfterOf(d, r, line, other)
             /\ AfterOf(d, r, line, sub) \in Outcomes
             /\ r.included \subseteq AfterOf(d, r, line, sub).included
  <2>1. CASE line.is = "line" /\ Parses(line)
    BY <1>4, <2>1
  <2>2. CASE Goes(d, r, line)
    BY <1>2, <1>5, <1>7, <2>2
  <2>3. CASE ~Goes(d, r, line) /\ ~(line.is = "line" /\ Parses(line))
    BY <1>6, <2>3
  <2> QED
    BY <2>1, <2>2, <2>3
<1>8. Nests(d, r, line) => Goes(d, r, line)
  BY DEF Nests
<1> QED
  BY <1>2, <1>3, <1>7, <1>8

(* A file that is cut short does not cut the file around it.                *)
LEMMA Uncut ==
  ASSUME NEW r \in Outcomes
  PROVE  LET u == [r EXCEPT !.cut = FALSE]
         IN /\ u \in Outcomes /\ ~u.cut
            /\ u.sequences = r.sequences /\ u.included = r.included
  BY DEF Outcomes

(* The body has a value where g has, and is the same where g is.            *)
LEMMA BodyTyped ==
  ASSUME NEW d \in Disks, NEW n \in Nat, NEW lines \in Seq(Lines), NEW r \in Outcomes, NEW g,
         n # 0 => \A l \in Seq(Lines), q \in Outcomes : g[<<n - 1, l, q>>] \in Outcomes
  PROVE  BodyOf(d, g, n, lines, r) \in Outcomes
<1>1. CASE n = 0 \/ lines = <<>>
  BY <1>1 DEF BodyOf
<1>2. CASE n # 0 /\ lines # <<>> /\ Head(lines).is = "long"
  BY <1>2 DEF BodyOf, Outcomes
<1>3. CASE n # 0 /\ lines # <<>> /\ Head(lines).is # "long"
  <2> DEFINE line == Head(lines)
             sub == g[<<n - 1, d[Named(d, line)], Marked(d, r, line)>>]
  <2>1. line \in Lines /\ Tail(lines) \in Seq(Lines)
    BY <1>3, HeadTailProperties
  <2>2. AfterOf(d, r, line, sub) \in Outcomes
    <3>1. CASE Nests(d, r, line)
      <4>1. /\ d[Named(d, line)] \in Seq(Lines) /\ Marked(d, r, line) \in Outcomes
            /\ \A other : AfterOf(d, r, line, other) = [other EXCEPT !.cut = FALSE]
        BY <2>1, <3>1, LineGives
      <4>2. sub \in Outcomes
        BY <1>3, <4>1
      <4> HIDE DEF sub
      <4> QED
        BY <4>1, <4>2, Uncut
    <3>2. CASE ~Nests(d, r, line)
      BY <2>1, <3>2, LineGives
    <3> QED
      BY <3>1, <3>2
  <2>3. BodyOf(d, g, n, lines, r) = g[<<n - 1, Tail(lines), AfterOf(d, r, line, sub)>>]
    BY <1>3 DEF BodyOf
  <2> QED
    BY <1>3, <2>1, <2>2, <2>3
<1> QED
  BY <1>1, <1>2, <1>3

LEMMA BodySame ==
  ASSUME NEW d \in Disks, NEW n \in Nat, NEW lines \in Seq(Lines), NEW r \in Outcomes, NEW g, NEW h,
         AgreeBefore(g, h, n)
  PROVE  BodyOf(d, g, n, lines, r) = BodyOf(d, h, n, lines, r)
<1>0. n # 0 => \A l \in Seq(Lines), q \in Outcomes :
                 g[<<n - 1, l, q>>] = h[<<n - 1, l, q>>] /\ g[<<n - 1, l, q>>] \in Outcomes
  BY DEF AgreeBefore
<1>1. CASE n = 0 \/ lines = <<>> \/ Head(lines).is = "long"
  BY <1>1 DEF BodyOf
<1>2. CASE n # 0 /\ lines # <<>> /\ Head(lines).is # "long"
  <2> DEFINE line == Head(lines)
             sub(f) == f[<<n - 1, d[Named(d, line)], Marked(d, r, line)>>]
  <2>1. line \in Lines /\ Tail(lines) \in Seq(Lines)
    BY <1>2, HeadTailProperties
  <2>2. /\ AfterOf(d, r, line, sub(g)) = AfterOf(d, r, line, sub(h))
        /\ AfterOf(d, r, line, sub(g)) \in Outcomes
    <3>1. CASE Nests(d, r, line)
      <4>1. sub(g) = sub(h) /\ sub(g) \in Outcomes
            /\ AfterOf(d, r, line, sub(g)) = [sub(g) EXCEPT !.cut = FALSE]
        <5>1. /\ d[Named(d, line)] \in Seq(Lines) /\ Marked(d, r, line) \in Outcomes
              /\ \A other : AfterOf(d, r, line, other) = [other EXCEPT !.cut = FALSE]
          BY <2>1, <3>1, LineGives
        <5>2. sub(g) = sub(h) /\ sub(g) \in Outcomes
          BY <1>0, <1>2, <5>1
        <5> HIDE DEF sub, line
        <5> QED
          BY <5>1, <5>2
      <4> DEFINE s == sub(g)
      <4> HIDE DEF sub, s
      <4>2. s \in Outcomes => [s EXCEPT !.cut = FALSE] \in Outcomes
        BY DEF Outcomes
      <4> QED
        BY <4>1, <4>2 DEF s
    <3>2. CASE ~Nests(d, r, line)
      <4> HIDE DEF sub
      <4> QED
        BY <2>1, <3>2, LineGives
    <3> QED
      BY <3>1, <3>2
  <2>3. \A f : BodyOf(d, f, n, lines, r) = f[<<n - 1, Tail(lines), AfterOf(d, r, line, sub(f))>>]
    BY <1>2 DEF BodyOf
  <2> HIDE DEF sub, line
  <2> QED
    BY <1>0, <1>2, <2>1, <2>2, <2>3
<1> QED
  BY <1>1, <1>2

(* There is such a function, for every number.                              *)
LEMMA ReadingExists ==
  ASSUME NEW d \in Disks, NEW k \in Nat
  PROVE  \E g \in [(0..k) \X Seq(Lines) \X Outcomes -> Outcomes] :
           \A n \in 0..k, lines \in Seq(Lines), r \in Outcomes :
             g[<<n, lines, r>>] = BodyOf(d, g, n, lines, r)
<1> DEFINE Space(m) == [(0..m) \X Seq(Lines) \X Outcomes -> Outcomes]
           Solves(g, m) == \A n \in 0..m, lines \in Seq(Lines), r \in Outcomes :
                             g[<<n, lines, r>>] = BodyOf(d, g, n, lines, r)
           Has(m) == \E g \in Space(m) : Solves(g, m)
           Without == {m \in Nat : ~Has(m)}
<1>1. Has(0)
  <2> DEFINE g == [a \in (0..0) \X Seq(Lines) \X Outcomes |-> a[3]]
  <2>1. g \in Space(0)
    OBVIOUS
  <2>2. ASSUME NEW n \in 0..0, NEW lines \in Seq(Lines), NEW r \in Outcomes
        PROVE  g[<<n, lines, r>>] = BodyOf(d, g, n, lines, r)
    <3>1. n = 0 /\ g[<<n, lines, r>>] = r
      OBVIOUS
    <3> QED
      BY <3>1 DEF BodyOf
  <2>3. Solves(g, 0)
    BY <2>2
  <2> HIDE DEF g, Space, Solves
  <2> QED
    BY <2>1, <2>3
<1>2. ASSUME NEW m \in Nat, Has(m) PROVE Has(m + 1)
  <2>1. PICK g \in Space(m) : Solves(g, m)
    BY <1>2
  <2> DEFINE h == [a \in (0..(m + 1)) \X Seq(Lines) \X Outcomes |->
                     IF a[1] <= m THEN g[<<a[1], a[2], a[3]>>] ELSE BodyOf(d, g, a[1], a[2], a[3])]
  <2>2. ASSUME NEW n \in 0..(m + 1), NEW lines \in Seq(Lines), NEW r \in Outcomes
        PROVE  h[<<n, lines, r>>] = IF n <= m THEN g[<<n, lines, r>>] ELSE BodyOf(d, g, n, lines, r)
    OBVIOUS
  <2>3. ASSUME NEW n \in 0..m, NEW lines \in Seq(Lines), NEW r \in Outcomes
        PROVE  g[<<n, lines, r>>] \in Outcomes
    BY <2>1
  <2>4. ASSUME NEW n \in 0..(m + 1), NEW lines \in Seq(Lines), NEW r \in Outcomes
        PROVE  BodyOf(d, g, n, lines, r) \in Outcomes
    <3>1. n # 0 => n - 1 \in 0..m
      OBVIOUS
    <3>2. n # 0 => \A l \in Seq(Lines), q \in Outcomes : g[<<n - 1, l, q>>] \in Outcomes
      BY <2>3, <3>1
    <3>3. n \in Nat
      OBVIOUS
    <3> QED
      BY <3>2, <3>3, BodyTyped
  <2>5. h \in Space(m + 1)
    <3>1. ASSUME NEW a \in (0..(m + 1)) \X Seq(Lines) \X Outcomes
          PROVE  (IF a[1] <= m THEN g[<<a[1], a[2], a[3]>>] ELSE BodyOf(d, g, a[1], a[2], a[3])) \in Outcomes
      <4>1. a[1] \in 0..(m + 1) /\ a[2] \in Seq(Lines) /\ a[3] \in Outcomes
        OBVIOUS
      <4>2. a[1] <= m => a[1] \in 0..m
        BY <4>1
      <4> QED
        BY <2>3, <2>4, <4>1, <4>2
    <3> QED
      BY <3>1
  <2>6. ASSUME NEW n \in 0..(m + 1), NEW lines \in Seq(Lines), NEW r \in Outcomes
        PROVE  h[<<n, lines, r>>] = BodyOf(d, h, n, lines, r)
    <3> HIDE DEF h, Space
    <3>1. n # 0 => n - 1 \in 0..m /\ n - 1 \in 0..(m + 1) /\ n - 1 <= m
      OBVIOUS
    <3>2. AgreeBefore(g, h, n)
      BY <2>2, <2>3, <3>1 DEF AgreeBefore
    <3>3. BodyOf(d, g, n, lines, r) = BodyOf(d, h, n, lines, r)
      <4>1. n \in Nat
        OBVIOUS
      <4> QED
        BY <3>2, <4>1, BodySame
    <3>4. n <= m => g[<<n, lines, r>>] = BodyOf(d, g, n, lines, r)
      <4>1. n <= m => n \in 0..m
        OBVIOUS
      <4> QED
        BY <2>1, <4>1
    <3> QED
      BY <2>2, <3>3, <3>4
  <2>7. Solves(h, m + 1)
    <3> HIDE DEF h
    <3> QED
      BY <2>6
  <2> HIDE DEF h, Space, Solves
  <2> QED
    BY <2>5, <2>7
<1> HIDE DEF Has
<1>3. ASSUME Without # {} PROVE FALSE
  <2>1. Without \in SUBSET Nat
    OBVIOUS
  <2>2. Min(Without) \in Without /\ \A m \in Without : Min(Without) <= m
    BY <1>3, <2>1, MinMember
  <2> DEFINE m == Min(Without)
  <2>3. m \in Nat /\ ~Has(m) /\ m # 0
    BY <1>1, <2>2
  <2>4. m - 1 \in Nat /\ m - 1 \notin Without /\ (m - 1) + 1 = m
    BY <2>2, <2>3
  <2>5. Has(m - 1)
    BY <2>4
  <2> QED
    BY <1>2, <2>3, <2>4, <2>5
<1> QED
  BY <1>3 DEF Has

(* Reading(d) is such a function.                                           *)
Asked(d) == (0..All(d)) \X Seq(Lines) \X Outcomes

LEMMA ReadingSolves ==
  ASSUME NEW d \in Disks, All(d) \in Nat,
         NEW n \in 0..All(d), NEW lines \in Seq(Lines), NEW r \in Outcomes
  PROVE  Reading(d)[<<n, lines, r>>] = BodyOf(d, Reading(d), n, lines, r)
<1>1. PICK g \in [Asked(d) -> Outcomes] :
             \A m \in 0..All(d), l \in Seq(Lines), q \in Outcomes :
               g[<<m, l, q>>] = BodyOf(d, g, m, l, q)
  BY ReadingExists DEF Asked
<1>2. g = [x \in Asked(d) |-> BodyOf(d, g, x[1], x[2], x[3])]
  <2>1. ASSUME NEW x \in Asked(d) PROVE g[x] = BodyOf(d, g, x[1], x[2], x[3])
    <3>1. x = <<x[1], x[2], x[3]>> /\ x[1] \in 0..All(d) /\ x[2] \in Seq(Lines) /\ x[3] \in Outcomes
      BY DEF Asked
    <3> QED
      BY <1>1, <3>1
  <2>2. g = [x \in Asked(d) |-> g[x]]
    OBVIOUS
  <2> QED
    BY <2>1, <2>2
<1>3. Reading(d) = CHOOSE f : f = [x \in Asked(d) |-> BodyOf(d, f, x[1], x[2], x[3])]
  BY ReadingIs DEF Asked
<1>4. Reading(d) = [x \in Asked(d) |-> BodyOf(d, Reading(d), x[1], x[2], x[3])]
  <2>1. \E f : f = [x \in Asked(d) |-> BodyOf(d, f, x[1], x[2], x[3])]
    BY <1>2
  <2> QED
    BY <1>3, <2>1
<1>5. <<n, lines, r>> \in Asked(d)
  BY DEF Asked
<1> DEFINE x == <<n, lines, r>>
<1>6. x[1] = n /\ x[2] = lines /\ x[3] = r
  OBVIOUS
<1>7. Reading(d)[x] = BodyOf(d, Reading(d), x[1], x[2], x[3])
  <2> HIDE DEF x
  <2> QED
    BY <1>4, <1>5 DEF x
<1> QED
  BY <1>6, <1>7

-----------------------------------------------------------------------------
(* The lines that are left to read.                                         *)

LEMMA LeftFinite ==
  ASSUME NEW d \in Disks, NEW inc
  PROVE  IsFiniteSet(LinesLeft(d, inc)) /\ Cardinality(LinesLeft(d, inc)) \in Nat
<1> DEFINE Q == {q \in DOMAIN d \ inc : Readable(d, q)}
           T == {{p} \X DOMAIN d[p] : p \in Q}
           f == [p \in Q |-> {p} \X DOMAIN d[p]]
<1>1. IsFiniteSet(Q)
  <2>1. IsFiniteSet(DOMAIN d) /\ Q \in SUBSET DOMAIN d
    BY ComposeFileAssumption
  <2> QED
    BY <2>1, FS_Subset
<1>2. f \in Surjection(Q, T)
  BY DEF Surjection
<1>3. IsFiniteSet(T)
  <2> HIDE DEF Q, T, f
  <2> QED
    BY <1>1, <1>2, FS_Surjection
<1>4. ASSUME NEW t \in T PROVE IsFiniteSet(t)
  <2>1. PICK p \in Q : t = {p} \X DOMAIN d[p]
    OBVIOUS
  <2>2. d[p] \in Seq(Lines)
    <3>1. p \in DOMAIN d /\ d[p] # Unreadable
      BY DEF Readable
    <3> QED
      BY <3>1, ComposeFileAssumption
  <2>3. DOMAIN d[p] = 1..Len(d[p]) /\ Len(d[p]) \in Nat
    BY <2>2
  <2>4. IsFiniteSet(DOMAIN d[p]) /\ IsFiniteSet({p})
    <3>1. 1 \in Int /\ Len(d[p]) \in Int
      BY <2>3
    <3>2. IsFiniteSet(1..Len(d[p]))
      <4> HIDE DEF Q, T, f
      <4> QED
        BY <3>1, FS_Interval
    <3>3. IsFiniteSet({p})
      BY FS_Singleton
    <3> QED
      BY <2>3, <3>2, <3>3
  <2> QED
    BY <2>1, <2>4, FS_Product
<1>5. IsFiniteSet(UNION T)
  <2> HIDE DEF T
  <2> QED
    BY <1>3, <1>4, FS_UNION
<1>6. LinesLeft(d, inc) = UNION T
  BY DEF LinesLeft
<1> QED
  BY <1>5, <1>6, FS_CardinalityType

(* Files that are included leave fewer lines.                               *)
LEMMA LeftShrinks ==
  ASSUME NEW d \in Disks, NEW inc, NEW more, inc \subseteq more
  PROVE  Cardinality(LinesLeft(d, more)) <= Cardinality(LinesLeft(d, inc))
<1>1. LinesLeft(d, more) \in SUBSET LinesLeft(d, inc)
  BY DEF LinesLeft
<1> QED
  BY <1>1, LeftFinite, FS_Subset

(* A file that is opened takes its lines.                                   *)
LEMMA OpenTakes ==
  ASSUME NEW d \in Disks, NEW inc, NEW f \in DOMAIN d \ inc, Readable(d, f)
  PROVE  /\ d[f] \in Seq(Lines) /\ Len(d[f]) \in Nat
         /\ Cardinality(LinesLeft(d, inc)) = Len(d[f]) + Cardinality(LinesLeft(d, inc \cup {f}))
<1> DEFINE own == {f} \X DOMAIN d[f]
           rest == LinesLeft(d, inc \cup {f})
<1>1. d[f] \in Seq(Lines)
  BY ComposeFileAssumption DEF Readable
<1>2. DOMAIN d[f] = 1..Len(d[f]) /\ Len(d[f]) \in Nat
  BY <1>1
<1>3. IsFiniteSet(DOMAIN d[f]) /\ Cardinality(DOMAIN d[f]) = Len(d[f])
  <2>1. IsFiniteSet(1..Len(d[f])) /\ Cardinality(1..Len(d[f])) = Len(d[f])
    BY <1>2, FS_Interval
  <2> QED
    BY <1>2, <2>1
<1>4. IsFiniteSet({f}) /\ Cardinality({f}) = 1
  BY FS_Singleton
<1>5. IsFiniteSet(own) /\ Cardinality(own) = Len(d[f])
  <2>1. IsFiniteSet(own) /\ Cardinality(own) = Cardinality({f}) * Cardinality(DOMAIN d[f])
    BY <1>3, <1>4, FS_Product
  <2> QED
    BY <1>2, <1>3, <1>4, <2>1
<1>6. IsFiniteSet(rest) /\ Cardinality(rest) \in Nat
  BY LeftFinite
<1>7. LinesLeft(d, inc) = own \cup rest
  BY DEF LinesLeft
<1>8. own \cap rest = {}
  BY DEF LinesLeft
<1> HIDE DEF own, rest
<1>9. Cardinality(own \cup rest) = Cardinality(own) + Cardinality(rest) - Cardinality(own \cap rest)
  BY <1>5, <1>6, FS_Union
<1>10. Cardinality(own \cap rest) = 0
  BY <1>8, FS_EmptySet
<1> QED
  BY <1>1, <1>2, <1>5, <1>6, <1>7, <1>9, <1>10 DEF rest

\* How many steps reading these lines may take.
Need(d, lines, r) == Len(lines) + Cardinality(LinesLeft(d, r.included))

LEMMA NeedType ==
  ASSUME NEW d \in Disks, NEW lines \in Seq(Lines), NEW r
  PROVE  Need(d, lines, r) \in Nat /\ Len(lines) <= Need(d, lines, r)
  BY LeftFinite DEF Need

(* It is less after a line, and for a file that a line opens.               *)
LEMMA StepNeeds ==
  ASSUME NEW d \in Disks, NEW lines \in Seq(Lines), lines # <<>>, NEW r \in Outcomes, NEW sub,
         Nests(d, r, Head(lines)) =>
           sub \in Outcomes /\ Marked(d, r, Head(lines)).included \subseteq sub.included
  PROVE  LET line == Head(lines)
             after == AfterOf(d, r, line, sub)
         IN /\ Tail(lines) \in Seq(Lines)
            /\ after \in Outcomes /\ r.included \subseteq after.included
            /\ Need(d, Tail(lines), after) < Need(d, lines, r)
            /\ Nests(d, r, line) =>
                 /\ d[Named(d, line)] \in Seq(Lines) /\ Marked(d, r, line) \in Outcomes
                 /\ Need(d, d[Named(d, line)], Marked(d, r, line)) < Need(d, lines, r)
<1> DEFINE line == Head(lines)
           after == AfterOf(d, r, line, sub)
<1>1. /\ line \in Lines /\ Tail(lines) \in Seq(Lines)
      /\ Len(lines) \in Nat /\ Len(lines) >= 1 /\ Len(Tail(lines)) = Len(lines) - 1
  BY HeadTailProperties, EmptySeq
<1>2. after \in Outcomes /\ r.included \subseteq after.included
  <2>1. CASE Nests(d, r, line)
    <3>1. after = [sub EXCEPT !.cut = FALSE]
          /\ Marked(d, r, line).included = r.included \cup {Named(d, line)}
      BY <1>1, <2>1, LineGives
    <3>2. after \in Outcomes /\ after.included = sub.included
      BY <2>1, <3>1, Uncut
    <3> QED
      BY <2>1, <3>1, <3>2
  <2>2. CASE ~Nests(d, r, line)
    BY <1>1, <2>2, LineGives
  <2> QED
    BY <2>1, <2>2
<1>3. Need(d, Tail(lines), after) < Need(d, lines, r)
  <2>1. Cardinality(LinesLeft(d, after.included)) <= Cardinality(LinesLeft(d, r.included))
    BY <1>2, LeftShrinks
  <2>2. /\ Cardinality(LinesLeft(d, after.included)) \in Nat
        /\ Cardinality(LinesLeft(d, r.included)) \in Nat
    BY LeftFinite
  <2> HIDE DEF after
  <2> QED
    BY <1>1, <2>1, <2>2 DEF Need
<1>4. ASSUME Nests(d, r, line)
      PROVE  /\ d[Named(d, line)] \in Seq(Lines) /\ Marked(d, r, line) \in Outcomes
             /\ Need(d, d[Named(d, line)], Marked(d, r, line)) < Need(d, lines, r)
  <2> DEFINE f == Named(d, line)
  <2>1. /\ f \in DOMAIN d \ r.included /\ d[f] \in Seq(Lines) /\ Marked(d, r, line) \in Outcomes
        /\ Marked(d, r, line).included = r.included \cup {f}
    BY <1>1, <1>4, LineGives
  <2>2. Readable(d, f)
    BY <1>4 DEF Nests
  <2>3. /\ Len(d[f]) \in Nat
        /\ Cardinality(LinesLeft(d, r.included)) = Len(d[f]) + Cardinality(LinesLeft(d, r.included \cup {f}))
    BY <2>1, <2>2, OpenTakes
  <2>4. /\ Cardinality(LinesLeft(d, r.included)) \in Nat
        /\ Cardinality(LinesLeft(d, r.included \cup {f})) \in Nat
    BY LeftFinite
  <2>5. Need(d, d[f], Marked(d, r, line)) < Need(d, lines, r)
    <3> HIDE DEF f, line
    <3> QED
      BY <1>1, <2>1, <2>3, <2>4 DEF Need
  <2> QED
    BY <2>1, <2>5
<1> QED
  BY <1>1, <1>2, <1>3, <1>4

-----------------------------------------------------------------------------
(* How far reading goes does not depend on n, if it is large enough.        *)

(* What is read is an outcome, and what was included stays so.              *)
Grows(d, n) ==
  \A lines \in Seq(Lines), r \in Outcomes :
    /\ Reading(d)[<<n, lines, r>>] \in Outcomes
    /\ r.included \subseteq Reading(d)[<<n, lines, r>>].included

LEMMA GrowsNext ==
  ASSUME NEW d \in Disks, All(d) \in Nat, NEW n \in 0..All(d), n # 0 => Grows(d, n - 1)
  PROVE  Grows(d, n)
<1> SUFFICES ASSUME NEW lines \in Seq(Lines), NEW r \in Outcomes
             PROVE  /\ Reading(d)[<<n, lines, r>>] \in Outcomes
                    /\ r.included \subseteq Reading(d)[<<n, lines, r>>].included
  BY DEF Grows
<1> DEFINE R == Reading(d)
<1>1. R[<<n, lines, r>>] = BodyOf(d, R, n, lines, r)
  BY ReadingSolves
<1> HIDE DEF R
<1>2. CASE n = 0 \/ lines = <<>>
  <2>1. R[<<n, lines, r>>] = r
    BY <1>1, <1>2 DEF BodyOf
  <2> QED
    BY <2>1 DEF R
<1>3. CASE n # 0 /\ lines # <<>> /\ Head(lines).is = "long"
  <2>1. R[<<n, lines, r>>] = [r EXCEPT !.cut = TRUE]
    BY <1>1, <1>3 DEF BodyOf
  <2>2. [r EXCEPT !.cut = TRUE] \in Outcomes /\ [r EXCEPT !.cut = TRUE].included = r.included
    BY DEF Outcomes
  <2> QED
    BY <2>1, <2>2 DEF R
<1>4. CASE n # 0 /\ lines # <<>> /\ Head(lines).is # "long"
  <2> DEFINE line == Head(lines)
             sub == R[<<n - 1, d[Named(d, line)], Marked(d, r, line)>>]
             after == AfterOf(d, r, line, sub)
  <2>1. \A l \in Seq(Lines), q \in Outcomes :
          R[<<n - 1, l, q>>] \in Outcomes /\ q.included \subseteq R[<<n - 1, l, q>>].included
    BY <1>4 DEF Grows, R
  <2>2. R[<<n, lines, r>>] = R[<<n - 1, Tail(lines), after>>]
    BY <1>1, <1>4 DEF BodyOf
  <2>3. line \in Lines
    BY <1>4, HeadTailProperties
  <2>4. Nests(d, r, line) => sub \in Outcomes /\ Marked(d, r, line).included \subseteq sub.included
    <3> SUFFICES ASSUME Nests(d, r, line)
                 PROVE  sub \in Outcomes /\ Marked(d, r, line).included \subseteq sub.included
      OBVIOUS
    <3>1. d[Named(d, line)] \in Seq(Lines) /\ Marked(d, r, line) \in Outcomes
      BY <2>3, LineGives
    <3> QED
      BY <2>1, <3>1
  <2>5. Tail(lines) \in Seq(Lines) /\ after \in Outcomes /\ r.included \subseteq after.included
    <3> HIDE DEF sub
    <3> QED
      BY <1>4, <2>4, StepNeeds
  <2> HIDE DEF after
  <2> QED
    BY <2>1, <2>2, <2>5 DEF R
<1> QED
  BY <1>2, <1>3, <1>4

LEMMA ReadingGrows ==
  ASSUME NEW d \in Disks, All(d) \in Nat, NEW n \in 0..All(d)
  PROVE  Grows(d, n)
<1> DEFINE Without == {m \in 0..All(d) : ~Grows(d, m)}
<1>1. ASSUME Without # {} PROVE FALSE
  <2>1. Without \in SUBSET Nat
    OBVIOUS
  <2>2. Min(Without) \in Without /\ \A m \in Without : Min(Without) <= m
    BY <1>1, <2>1, MinMember
  <2> DEFINE m == Min(Without)
  <2>3. m \in 0..All(d) /\ ~Grows(d, m)
    BY <2>2
  <2>4. m # 0 => Grows(d, m - 1)
    <3> SUFFICES ASSUME m # 0 PROVE Grows(d, m - 1)
      OBVIOUS
    <3>1. m - 1 \in 0..All(d) /\ ~(m <= m - 1)
      BY <2>3
    <3>2. m - 1 \notin Without
      BY <2>2, <3>1
    <3> QED
      BY <3>1, <3>2
  <2> HIDE DEF m
  <2> QED
    BY <2>3, <2>4, GrowsNext
<1> QED
  BY <1>1

Stable(d, k) ==
  \A n \in k..All(d), lines \in Seq(Lines), r \in Outcomes :
    Need(d, lines, r) <= k => Reading(d)[<<n, lines, r>>] = Reading(d)[<<k, lines, r>>]

LEMMA StableNext ==
  ASSUME NEW d \in Disks, All(d) \in Nat, NEW k \in 0..All(d), k # 0 => Stable(d, k - 1)
  PROVE  Stable(d, k)
<1> SUFFICES ASSUME NEW n \in k..All(d), NEW lines \in Seq(Lines), NEW r \in Outcomes,
                    Need(d, lines, r) <= k
             PROVE  Reading(d)[<<n, lines, r>>] = Reading(d)[<<k, lines, r>>]
  BY DEF Stable
<1> DEFINE R == Reading(d)
<1>1. /\ R[<<n, lines, r>>] = BodyOf(d, R, n, lines, r)
      /\ R[<<k, lines, r>>] = BodyOf(d, R, k, lines, r)
  <2>1. n \in 0..All(d)
    OBVIOUS
  <2> QED
    BY <2>1, ReadingSolves
<1> HIDE DEF R
<1>2. CASE lines = <<>>
  BY <1>1, <1>2 DEF BodyOf, R
<1>3. lines # <<>> => k # 0 /\ n # 0
  <2> SUFFICES ASSUME lines # <<>> PROVE k # 0 /\ n # 0
    OBVIOUS
  <2>1. Len(lines) # 0 /\ Len(lines) \in Nat
    BY EmptySeq
  <2>2. Need(d, lines, r) \in Nat /\ Len(lines) <= Need(d, lines, r)
    BY NeedType
  <2> QED
    BY <2>1, <2>2
<1>4. CASE lines # <<>> /\ Head(lines).is = "long"
  BY <1>1, <1>3, <1>4 DEF BodyOf, R
<1>5. CASE lines # <<>> /\ Head(lines).is # "long"
  <2> DEFINE line == Head(lines)
             sub(m) == R[<<m - 1, d[Named(d, line)], Marked(d, r, line)>>]
             after(m) == AfterOf(d, r, line, sub(m))
  <2>1. /\ R[<<n, lines, r>>] = R[<<n - 1, Tail(lines), after(n)>>]
        /\ R[<<k, lines, r>>] = R[<<k - 1, Tail(lines), after(k)>>]
    BY <1>1, <1>3, <1>5 DEF BodyOf
  <2>2. /\ k - 1 \in 0..All(d) /\ n - 1 \in (k - 1)..All(d) /\ k - 1 \in Nat
        /\ \A m \in Nat : m < Need(d, lines, r) => m <= k - 1
    <3>1. Need(d, lines, r) \in Nat
      BY NeedType
    <3> QED
      BY <1>3, <1>5, <3>1
  <2>3. \A l \in Seq(Lines), q \in Outcomes :
          Need(d, l, q) < Need(d, lines, r) => R[<<n - 1, l, q>>] = R[<<k - 1, l, q>>]
    <3> SUFFICES ASSUME NEW l \in Seq(Lines), NEW q \in Outcomes, Need(d, l, q) < Need(d, lines, r)
                 PROVE  R[<<n - 1, l, q>>] = R[<<k - 1, l, q>>]
      OBVIOUS
    <3>1. Need(d, l, q) <= k - 1
      BY <2>2, NeedType
    <3> QED
      BY <1>3, <1>5, <2>2, <3>1 DEF Stable, R
  <2>4. \A l \in Seq(Lines), q \in Outcomes :
          R[<<k - 1, l, q>>] \in Outcomes /\ q.included \subseteq R[<<k - 1, l, q>>].included
    BY <2>2, ReadingGrows DEF Grows, R
  <2>5. line \in Lines
    BY <1>5, HeadTailProperties
  <2>6. Nests(d, r, line) => /\ d[Named(d, line)] \in Seq(Lines) /\ Marked(d, r, line) \in Outcomes
                             /\ sub(k) \in Outcomes /\ Marked(d, r, line).included \subseteq sub(k).included
    <3> SUFFICES ASSUME Nests(d, r, line)
                 PROVE  /\ d[Named(d, line)] \in Seq(Lines) /\ Marked(d, r, line) \in Outcomes
                        /\ sub(k) \in Outcomes /\ Marked(d, r, line).included \subseteq sub(k).included
      OBVIOUS
    <3>1. d[Named(d, line)] \in Seq(Lines) /\ Marked(d, r, line) \in Outcomes
      BY <2>5, LineGives
    <3> QED
      BY <2>4, <3>1
  <2>7. /\ Tail(lines) \in Seq(Lines) /\ after(k) \in Outcomes
        /\ Need(d, Tail(lines), after(k)) < Need(d, lines, r)
        /\ Nests(d, r, line) => Need(d, d[Named(d, line)], Marked(d, r, line)) < Need(d, lines, r)
    <3> HIDE DEF sub
    <3> QED
      BY <1>5, <2>6, StepNeeds
  <2>8. after(n) = after(k)
    <3>1. CASE Nests(d, r, line)
      <4>1. sub(n) = sub(k)
        BY <2>3, <2>6, <2>7, <3>1
      <4> QED
        BY <4>1
    <3>2. CASE ~Nests(d, r, line)
      <4> HIDE DEF sub
      <4> QED
        BY <2>5, <3>2, LineGives
    <3> QED
      BY <3>1, <3>2
  <2> HIDE DEF after
  <2> QED
    BY <2>1, <2>3, <2>7, <2>8 DEF R
<1> QED
  BY <1>2, <1>4, <1>5

LEMMA ReadingStable ==
  ASSUME NEW d \in Disks, All(d) \in Nat, NEW k \in 0..All(d)
  PROVE  Stable(d, k)
<1> DEFINE Without == {m \in 0..All(d) : ~Stable(d, m)}
<1>1. ASSUME Without # {} PROVE FALSE
  <2>1. Without \in SUBSET Nat
    OBVIOUS
  <2>2. Min(Without) \in Without /\ \A m \in Without : Min(Without) <= m
    BY <1>1, <2>1, MinMember
  <2> DEFINE m == Min(Without)
  <2>3. m \in 0..All(d) /\ ~Stable(d, m)
    BY <2>2
  <2>4. m # 0 => Stable(d, m - 1)
    <3> SUFFICES ASSUME m # 0 PROVE Stable(d, m - 1)
      OBVIOUS
    <3>1. m - 1 \in 0..All(d) /\ ~(m <= m - 1)
      BY <2>3
    <3>2. m - 1 \notin Without
      BY <2>2, <3>1
    <3> QED
      BY <3>1, <3>2
  <2> HIDE DEF m
  <2> QED
    BY <2>3, <2>4, StableNext
<1> QED
  BY <1>1

-----------------------------------------------------------------------------
(* Reading lines to their end, and its equations.                           *)

Run(d, lines, r) == Reading(d)[<<All(d), lines, r>>]

LEMMA RunEnd ==
  ASSUME NEW d \in Disks, NEW r \in Outcomes
  PROVE  Run(d, <<>>, r) = r
<1>1. All(d) \in Nat /\ All(d) \in 0..All(d) /\ <<>> \in Seq(Lines)
  BY LeftFinite DEF All
<1>2. Run(d, <<>>, r) = BodyOf(d, Reading(d), All(d), <<>>, r)
  BY <1>1, ReadingSolves DEF Run
<1> QED
  BY <1>2 DEF BodyOf

LEMMA RunType ==
  ASSUME NEW d \in Disks, NEW lines \in Seq(Lines), NEW r \in Outcomes
  PROVE  Run(d, lines, r) \in Outcomes /\ r.included \subseteq Run(d, lines, r).included
<1>1. All(d) \in Nat /\ All(d) \in 0..All(d)
  BY LeftFinite DEF All
<1>2. Grows(d, All(d))
  BY <1>1, ReadingGrows
<1> QED
  BY <1>2 DEF Grows, Run

LEMMA RunLine ==
  ASSUME NEW d \in Disks, NEW lines \in Seq(Lines), lines # <<>>, NEW r \in Outcomes,
         Need(d, lines, r) <= All(d)
  PROVE  LET line == Head(lines)
             sub == Run(d, d[Named(d, line)], Marked(d, r, line))
         IN Run(d, lines, r) = IF line.is = "long" THEN [r EXCEPT !.cut = TRUE]
                               ELSE Run(d, Tail(lines), AfterOf(d, r, line, sub))
<1> DEFINE line == Head(lines)
           R == Reading(d)
           N == All(d)
           sub == R[<<N, d[Named(d, line)], Marked(d, r, line)>>]
           less == R[<<N - 1, d[Named(d, line)], Marked(d, r, line)>>]
<1>1. N \in Nat /\ N \in 0..N /\ N # 0 /\ N - 1 \in 0..N /\ N \in (N - 1)..N
  <2>1. Len(lines) # 0 /\ Len(lines) \in Nat
    BY EmptySeq
  <2>2. N \in Nat /\ Need(d, lines, r) \in Nat /\ Len(lines) <= Need(d, lines, r)
    BY LeftFinite, NeedType DEF All
  <2> HIDE DEF N
  <2>3. Need(d, lines, r) <= N
    BY DEF N
  <2> QED
    BY <2>1, <2>2, <2>3
<1>2. R[<<N, lines, r>>] = IF line.is = "long" THEN [r EXCEPT !.cut = TRUE]
                           ELSE R[<<N - 1, Tail(lines), AfterOf(d, r, line, less)>>]
  <2>1. R[<<N, lines, r>>] = BodyOf(d, R, N, lines, r)
    BY <1>1, ReadingSolves
  <2> HIDE DEF R, N
  <2> QED
    BY <1>1, <2>1 DEF BodyOf
<1>3. line \in Lines /\ Tail(lines) \in Seq(Lines)
  BY HeadTailProperties
<1>4. ASSUME NEW l \in Seq(Lines), NEW q \in Outcomes, Need(d, l, q) < Need(d, lines, r)
      PROVE  R[<<N, l, q>>] = R[<<N - 1, l, q>>]
  <2>1. Need(d, l, q) <= N - 1
    <3>1. Need(d, l, q) \in Nat /\ Need(d, lines, r) \in Nat
      BY NeedType
    <3> QED
      BY <1>1, <1>4, <3>1
  <2>2. Stable(d, N - 1)
    BY <1>1, ReadingStable
  <2> QED
    BY <1>1, <2>1, <2>2 DEF Stable
<1>5. \A l \in Seq(Lines), q \in Outcomes :
        R[<<N - 1, l, q>>] \in Outcomes /\ q.included \subseteq R[<<N - 1, l, q>>].included
  BY <1>1, ReadingGrows DEF Grows
<1> HIDE DEF R, N
<1>6. Nests(d, r, line) => /\ d[Named(d, line)] \in Seq(Lines) /\ Marked(d, r, line) \in Outcomes
                           /\ less \in Outcomes /\ Marked(d, r, line).included \subseteq less.included
  BY <1>3, <1>5, LineGives
<1>7. /\ AfterOf(d, r, line, less) \in Outcomes
      /\ Need(d, Tail(lines), AfterOf(d, r, line, less)) < Need(d, lines, r)
      /\ Nests(d, r, line) => Need(d, d[Named(d, line)], Marked(d, r, line)) < Need(d, lines, r)
  <2> HIDE DEF less
  <2> QED
    BY <1>6, StepNeeds
<1>8. AfterOf(d, r, line, less) = AfterOf(d, r, line, sub)
  <2>1. CASE Nests(d, r, line)
    <3>1. sub = less
      BY <1>4, <1>6, <1>7, <2>1
    <3> QED
      BY <3>1
  <2>2. CASE ~Nests(d, r, line)
    <3> HIDE DEF sub, less
    <3> QED
      BY <1>3, <2>2, LineGives
  <2> QED
    BY <2>1, <2>2
<1>9. R[<<N, Tail(lines), AfterOf(d, r, line, sub)>>] = R[<<N - 1, Tail(lines), AfterOf(d, r, line, less)>>]
  BY <1>3, <1>4, <1>7, <1>8
<1> HIDE DEF sub, less
<1> QED
  BY <1>2, <1>9 DEF Run, R, N, sub

-----------------------------------------------------------------------------
(* What a parse will give.                                                  *)

\* The state as an outcome, and what the file asked for gives by Reading.
Sofar == [sequences |-> sequences, included |-> included, cut |-> FALSE]
Opened(p) == [sequences |-> <<>>, included |-> {p}, cut |-> FALSE]
Whole(d, p) == Run(d, d[p], Opened(p))

\* Reading on from the state gives the whole: the innermost file is read to
\* its end, to an outcome with which the file around it is read on, and so on.
Gives(ends, frames, d, now, whole) ==
  /\ Len(ends) = Len(frames)
  /\ \A i \in 1..Len(frames) :
       ends[i] = Run(d, frames[i].left, IF i = 1 THEN now ELSE [ends[i - 1] EXCEPT !.cut = FALSE])
  /\ frames # <<>> => ends[Len(frames)] = whole

\* A file on the stack has no more lines left than it has.
LeftFits(d, frames) ==
  \A i \in DOMAIN frames : /\ frames[i].path \in DOMAIN d /\ Readable(d, frames[i].path)
                           /\ Len(frames[i].left) <= Len(d[frames[i].path])

ReadInv ==
  LET p == Top(place)
  IN /\ LeftFits(disk, stack)
     /\ status = "asked" => sequences = <<>> /\ included = {}
     /\ status = "reading" => Readable(disk, p) /\ \E ends \in Seq(Outcomes) :
                                                     Gives(ends, stack, disk, Sofar, Whole(disk, p))
     /\ status = "done" => Readable(disk, p) /\ Sofar = Whole(disk, p)
     /\ status = "failed" => ~Readable(disk, p) \/ Whole(disk, p).cut

(* A file that is being read needs no more than there is.                   *)
LEMMA NeedsEnough ==
  ASSUME NEW d \in Disks, NEW p \in DOMAIN d, Readable(d, p), NEW lines \in Seq(Lines),
         Len(lines) <= Len(d[p]), NEW r \in Outcomes, p \in r.included
  PROVE  Need(d, lines, r) <= All(d)
<1>1. /\ Len(d[p]) \in Nat
      /\ Cardinality(LinesLeft(d, {})) = Len(d[p]) + Cardinality(LinesLeft(d, {} \cup {p}))
  BY OpenTakes
<1>2. Cardinality(LinesLeft(d, r.included)) <= Cardinality(LinesLeft(d, {} \cup {p}))
  BY LeftShrinks
<1>3. /\ Cardinality(LinesLeft(d, r.included)) \in Nat
      /\ Cardinality(LinesLeft(d, {} \cup {p})) \in Nat /\ Len(lines) \in Nat
  BY LeftFinite
<1> QED
  BY <1>1, <1>2, <1>3 DEF Need, All

(* The state is an outcome.                                                 *)
LEMMA SofarType ==
  ASSUME IInv
  PROVE  Sofar \in Outcomes /\ [Sofar EXCEPT !.cut = FALSE] = Sofar
         /\ Sofar.included = included /\ Sofar.sequences = sequences
<1>1. Sequences \subseteq [seq : Seq(Keysyms), out : Results]
  BY DEF Sequences
<1>2. sequences \in Seq([seq : Seq(Keysyms), out : Results])
  BY <1>1, SeqMonotonic DEF IInv
<1>3. included \in SUBSET Paths
  BY DEF IInv
<1>4. Sofar \in Outcomes
  BY <1>2, <1>3 DEF Sofar, Outcomes
<1>5. [Sofar EXCEPT !.cut = FALSE] = Sofar
  <2>1. \A r \in Outcomes : r.cut = FALSE => [r EXCEPT !.cut = FALSE] = r
    BY DEF Outcomes
  <2>2. Sofar.cut = FALSE
    BY DEF Sofar
  <2> QED
    BY <1>4, <2>1, <2>2
<1> QED
  BY <1>4, <1>5 DEF Sofar

(* What is on the stack gives the same when its innermost file is read on.  *)
LEMMA GivesSame ==
  ASSUME NEW ends, NEW frames, NEW others, NEW d, NEW now, NEW later, NEW whole,
         Gives(ends, frames, d, now, whole),
         frames # <<>>, others # <<>>, Len(others) = Len(frames),
         \A i \in 1..Len(frames) : i # 1 => others[i].left = frames[i].left,
         Run(d, others[1].left, later) = Run(d, frames[1].left, now)
  PROVE  Gives(ends, others, d, later, whole)
<1> SUFFICES ASSUME NEW i \in 1..Len(frames)
             PROVE  ends[i] = Run(d, others[i].left, IF i = 1 THEN later ELSE [ends[i - 1] EXCEPT !.cut = FALSE])
  BY DEF Gives
<1>1. ends[i] = Run(d, frames[i].left, IF i = 1 THEN now ELSE [ends[i - 1] EXCEPT !.cut = FALSE])
  BY DEF Gives
<1>2. CASE i = 1
  BY <1>1, <1>2
<1>3. CASE i # 1
  BY <1>1, <1>3
<1> QED
  BY <1>2, <1>3

(* A file that goes on the stack gives what is read on from then.           *)
LEMMA GivesPush ==
  ASSUME NEW ends \in Seq(Outcomes), NEW frames \in Seq(Frames), NEW frame \in Frames,
         NEW d, NEW now, NEW whole, NEW sub \in Outcomes,
         frames # <<>>, sub = Run(d, frame.left, now),
         Gives(ends, frames, d, [sub EXCEPT !.cut = FALSE], whole)
  PROVE  Gives(<<sub>> \o ends, <<frame>> \o frames, d, now, whole)
<1> DEFINE more == <<sub>> \o ends
           high == <<frame>> \o frames
           n == Len(frames)
<1>1. n \in Nat /\ n # 0 /\ Len(ends) = n
  BY EmptySeq DEF Gives
<1>2. /\ <<sub>> \in Seq(Outcomes) /\ Len(<<sub>>) = 1 /\ <<sub>>[1] = sub
      /\ <<frame>> \in Seq(Frames) /\ Len(<<frame>>) = 1 /\ <<frame>>[1] = frame
  OBVIOUS
<1>3. /\ Len(more) = n + 1 /\ Len(high) = n + 1
      /\ \A i \in 1..(n + 1) : more[i] = IF i <= 1 THEN <<sub>>[i] ELSE ends[i - 1]
      /\ \A i \in 1..(n + 1) : high[i] = IF i <= 1 THEN <<frame>>[i] ELSE frames[i - 1]
  BY <1>1, <1>2, ConcatProperties
<1>4. more[1] = sub /\ high[1] = frame
  BY <1>1, <1>2, <1>3
<1> HIDE DEF more, high, n
<1>5. ASSUME NEW i \in 1..(n + 1)
      PROVE  more[i] = Run(d, high[i].left, IF i = 1 THEN now ELSE [more[i - 1] EXCEPT !.cut = FALSE])
  <2>1. CASE i = 1
    BY <1>4, <2>1
  <2>2. CASE i # 1
    <3>1. i - 1 \in 1..n /\ i - 1 \in 1..(n + 1) /\ ~(i <= 1)
      BY <1>1, <2>2
    <3>2. more[i] = ends[i - 1] /\ high[i] = frames[i - 1]
      BY <1>3, <3>1
    <3>3. ends[i - 1] = Run(d, frames[i - 1].left,
                            IF i - 1 = 1 THEN [sub EXCEPT !.cut = FALSE]
                            ELSE [ends[(i - 1) - 1] EXCEPT !.cut = FALSE])
      BY <3>1 DEF Gives, n
    <3>4. [more[i - 1] EXCEPT !.cut = FALSE]
            = IF i - 1 = 1 THEN [sub EXCEPT !.cut = FALSE] ELSE [ends[(i - 1) - 1] EXCEPT !.cut = FALSE]
      <4>1. CASE i - 1 = 1
        BY <1>4, <4>1
      <4>2. CASE i - 1 # 1
        <5>1. more[i - 1] = ends[(i - 1) - 1]
          BY <1>3, <3>1, <4>2
        <5> QED
          BY <4>2, <5>1
      <4> QED
        BY <4>1, <4>2
    <3> QED
      BY <2>2, <3>2, <3>3, <3>4
  <2> QED
    BY <2>1, <2>2
<1>6. more[n + 1] = whole
  <2>1. n + 1 \in 1..(n + 1) /\ ~(n + 1 <= 1) /\ (n + 1) - 1 = n
    BY <1>1
  <2>2. more[n + 1] = ends[n]
    BY <1>3, <2>1
  <2> QED
    BY <2>2 DEF Gives, n
<1>7. Gives(more, high, d, now, whole)
  BY <1>3, <1>5, <1>6 DEF Gives
<1> QED
  BY <1>7 DEF more, high

(* And one that leaves it, what has been read is read on from.              *)
LEMMA GivesPop ==
  ASSUME NEW ends \in Seq(Outcomes), NEW frames \in Seq(Frames),
         NEW d, NEW now, NEW later, NEW whole,
         frames # <<>>, Len(frames) # 1,
         Gives(ends, frames, d, now, whole),
         later = [ends[1] EXCEPT !.cut = FALSE]
  PROVE  Tail(ends) \in Seq(Outcomes) /\ Gives(Tail(ends), Tail(frames), d, later, whole)
<1> DEFINE n == Len(frames)
           fewer == Tail(ends)
           low == Tail(frames)
<1>1. n \in Nat /\ n > 1 /\ Len(ends) = n /\ ends # <<>>
  BY EmptySeq DEF Gives
<1>2. /\ fewer \in Seq(Outcomes) /\ Len(fewer) = n - 1 /\ Len(low) = n - 1
      /\ \A i \in 1..(n - 1) : fewer[i] = ends[i + 1] /\ low[i] = frames[i + 1]
  BY <1>1, HeadTailProperties
<1> HIDE DEF n, fewer, low
<1>3. ASSUME NEW i \in 1..(n - 1)
      PROVE  fewer[i] = Run(d, low[i].left, IF i = 1 THEN later ELSE [fewer[i - 1] EXCEPT !.cut = FALSE])
  <2>1. i + 1 \in 1..n /\ i + 1 # 1 /\ (i + 1) - 1 = i
    BY <1>1
  <2>2. ends[i + 1] = Run(d, frames[i + 1].left, [ends[i] EXCEPT !.cut = FALSE])
    BY <2>1 DEF Gives, n
  <2>3. CASE i = 1
    BY <1>2, <2>2, <2>3
  <2>4. CASE i # 1
    <3>1. i - 1 \in 1..(n - 1) /\ (i - 1) + 1 = i
      BY <1>1, <2>4
    <3>2. fewer[i - 1] = ends[i]
      BY <1>2, <3>1
    <3> QED
      BY <1>2, <2>2, <2>4, <3>2
  <2> QED
    BY <2>3, <2>4
<1>4. fewer[n - 1] = whole
  <2>1. n - 1 \in 1..(n - 1) /\ (n - 1) + 1 = n
    BY <1>1
  <2> QED
    BY <1>2, <2>1 DEF Gives, n
<1>5. Gives(fewer, low, d, later, whole)
  BY <1>2, <1>3, <1>4 DEF Gives
<1> QED
  BY <1>2, <1>5 DEF fewer, low

-----------------------------------------------------------------------------
(* ReadInv is inductive.                                                    *)

(* What the steps of parseData start from.                                  *)
LEMMA AtLineFacts ==
  ASSUME IInv, ReadInv, status = "reading"
  PROVE  /\ disk \in Disks /\ stack \in Seq(Frames) /\ stack # <<>> /\ stack[1] \in Frames
         /\ stack[1].left \in Seq(Lines)
         /\ Sofar \in Outcomes /\ [Sofar EXCEPT !.cut = FALSE] = Sofar
         /\ Readable(disk, Top(place))
         /\ Need(disk, stack[1].left, Sofar) <= All(disk)
         /\ stack[1].left # <<>> => Line \in Lines /\ Line = Head(stack[1].left)
<1>1. disk \in Disks /\ stack \in Seq(Frames) /\ stack # <<>> /\ 1 \in DOMAIN stack /\ stack[1] \in Frames
  BY EmptySeq DEF IInv
<1>2. stack[1].left \in Seq(Lines)
  BY <1>1 DEF Frames
<1>3. Sofar \in Outcomes /\ [Sofar EXCEPT !.cut = FALSE] = Sofar /\ Sofar.included = included
  BY SofarType
<1>4. /\ stack[1].path \in DOMAIN disk /\ Readable(disk, stack[1].path)
      /\ Len(stack[1].left) <= Len(disk[stack[1].path]) /\ stack[1].path \in Sofar.included
  BY <1>1, <1>3 DEF ReadInv, LeftFits, IInv, NoFileInsideItself
<1>5. Need(disk, stack[1].left, Sofar) <= All(disk)
  BY <1>1, <1>2, <1>3, <1>4, NeedsEnough
<1>6. stack[1].left # <<>> => Line \in Lines /\ Line = Head(stack[1].left)
  BY <1>2, HeadTailProperties DEF Line
<1>7. Readable(disk, Top(place))
  BY DEF ReadInv
<1> QED
  BY <1>1, <1>2, <1>3, <1>5, <1>6, <1>7

(* What the caller asked for stays the same.                                *)
LEMMA TopSame ==
  ASSUME UNCHANGED <<disk, place>>
  PROVE  Top(place)' = Top(place)
  BY DEF Top

(* The innermost file, one line further on.                                 *)
LEMMA AdvancedFacts ==
  ASSUME IInv, stack # <<>>, stack[1].left # <<>>
  PROVE  /\ Advanced \in Seq(Frames) /\ Advanced # <<>> /\ Len(Advanced) = Len(stack)
         /\ \A i \in 1..Len(stack) : Advanced[i].path = stack[i].path
         /\ Advanced[1].left = Tail(stack[1].left)
         /\ \A i \in 1..Len(stack) : i # 1 => Advanced[i].left = stack[i].left
         /\ LeftFits(disk, stack) => LeftFits(disk, Advanced)
<1> DEFINE top == [stack[1] EXCEPT !.left = Tail(@)]
           n == Len(stack)
<1>1. /\ Advanced \in Seq(Frames) /\ Advanced # <<>> /\ Len(Advanced) = n
      /\ \A i \in 1..n : Advanced[i].path = stack[i].path
  BY AdvancedKeeps
<1>2. stack \in Seq(Frames) /\ n \in Nat /\ stack[1] \in Frames /\ stack[1].left \in Seq(Lines)
  <2>1. stack \in Seq(Frames)
    BY DEF IInv
  <2>2. n \in Nat /\ stack[1] \in Frames
    BY <2>1, EmptySeq
  <2> QED
    BY <2>1, <2>2 DEF Frames
<1>3. top \in Frames /\ top.left = Tail(stack[1].left) /\ Len(top.left) = Len(stack[1].left) - 1
  BY <1>2, HeadTailProperties DEF Frames
<1>4. /\ Tail(stack) \in Seq(Frames) /\ Len(Tail(stack)) = n - 1
      /\ \A i \in 1..(n - 1) : Tail(stack)[i] = stack[i + 1]
  BY <1>2, HeadTailProperties
<1>5. Advanced = <<top>> \o Tail(stack)
  BY DEF Advanced
<1> HIDE DEF top
<1>6. <<top>> \in Seq(Frames) /\ Len(<<top>>) = 1 /\ <<top>>[1] = top
  BY <1>3
<1>7. \A i \in 1..n : Advanced[i] = IF i <= 1 THEN <<top>>[i] ELSE Tail(stack)[i - 1]
  BY <1>2, <1>4, <1>5, <1>6, ConcatProperties
<1>8. n # 0
  BY <1>2, EmptySeq
<1>9. Advanced[1] = top
  <2>1. 1 \in 1..n
    BY <1>2, <1>8
  <2> QED
    BY <1>6, <1>7, <2>1
<1>10. ASSUME NEW i \in 1..n, i # 1 PROVE Advanced[i] = stack[i]
  <2>1. i - 1 \in 1..(n - 1) /\ (i - 1) + 1 = i /\ ~(i <= 1)
    BY <1>2, <1>10
  <2> QED
    BY <1>4, <1>7, <2>1
<1>11. ASSUME LeftFits(disk, stack) PROVE LeftFits(disk, Advanced)
  <2> SUFFICES ASSUME NEW i \in DOMAIN Advanced
               PROVE  /\ Advanced[i].path \in DOMAIN disk /\ Readable(disk, Advanced[i].path)
                      /\ Len(Advanced[i].left) <= Len(disk[Advanced[i].path])
    BY DEF LeftFits
  <2>1. i \in 1..n /\ i \in DOMAIN stack
    BY <1>1, <1>2
  <2>2. /\ stack[i].path \in DOMAIN disk /\ Readable(disk, stack[i].path)
        /\ Len(stack[i].left) <= Len(disk[stack[i].path])
    BY <1>11, <2>1 DEF LeftFits
  <2>3. CASE i = 1
    <3>1. Len(stack[1].left) \in Nat
      BY <1>2
    <3>2. Len(disk[stack[1].path]) \in Nat
      <4>1. disk[stack[1].path] \in Seq(Lines)
        <5>1. disk \in Disks /\ stack[1].path \in DOMAIN disk /\ disk[stack[1].path] # Unreadable
          BY <2>2, <2>3 DEF Readable, IInv
        <5> QED
          BY <5>1, ComposeFileAssumption
      <4> QED
        BY <4>1
    <3>3. Advanced[1].path = stack[1].path
      BY <1>1, <2>1, <2>3
    <3>4. Len(top.left) <= Len(disk[stack[1].path])
      BY <1>3, <2>2, <2>3, <3>1, <3>2
    <3> QED
      BY <1>9, <2>2, <2>3, <3>3, <3>4
  <2>4. CASE i # 1
    BY <1>10, <2>1, <2>2, <2>4
  <2> QED
    BY <2>3, <2>4
<1> QED
  BY <1>1, <1>3, <1>9, <1>10, <1>11

(* A line after which the same file is read on.                             *)
LEMMA AdvanceRead ==
  ASSUME IInv, ReadInv, status = "reading", stack[1].left # <<>>, Line.is # "long",
         stack' = Advanced, UNCHANGED <<disk, place, status>>,
         ~Nests(disk, Sofar, Line),
         NEW sub, Sofar' = AfterOf(disk, Sofar, Line, sub)
  PROVE  ReadInv'
<1> DEFINE p == Top(place)
           s == Run(disk, disk[Named(disk, Line)], Marked(disk, Sofar, Line))
<1>1. /\ disk \in Disks /\ stack # <<>> /\ stack[1].left \in Seq(Lines) /\ Sofar \in Outcomes
      /\ Need(disk, stack[1].left, Sofar) <= All(disk) /\ Readable(disk, p)
      /\ Line \in Lines /\ Line = Head(stack[1].left)
  BY AtLineFacts
<1>2. PICK ends \in Seq(Outcomes) : Gives(ends, stack, disk, Sofar, Whole(disk, p))
  BY DEF ReadInv
<1>3. /\ Advanced # <<>> /\ Len(Advanced) = Len(stack)
      /\ Advanced[1].left = Tail(stack[1].left)
      /\ \A i \in 1..Len(stack) : i # 1 => Advanced[i].left = stack[i].left
      /\ LeftFits(disk, Advanced)
  BY <1>1, AdvancedFacts DEF ReadInv
<1>4. Run(disk, stack[1].left, Sofar) = Run(disk, Tail(stack[1].left), AfterOf(disk, Sofar, Line, s))
  BY <1>1, RunLine
<1>5. AfterOf(disk, Sofar, Line, s) = AfterOf(disk, Sofar, Line, sub)
  <2> HIDE DEF s
  <2> QED
    BY <1>1, LineGives
<1> HIDE DEF s
<1>6. Run(disk, Advanced[1].left, Sofar') = Run(disk, stack[1].left, Sofar)
  BY <1>3, <1>4, <1>5
<1>7. Gives(ends, Advanced, disk, Sofar', Whole(disk, p))
  <2> DEFINE later == Sofar'
  <2> HIDE DEF later
  <2>1. Run(disk, Advanced[1].left, later) = Run(disk, stack[1].left, Sofar)
    BY <1>6 DEF later
  <2>2. Gives(ends, Advanced, disk, later, Whole(disk, p))
    BY <1>1, <1>2, <1>3, <2>1, GivesSame
  <2> QED
    BY <2>2 DEF later
<1>8. p' = p
  BY TopSame
<1> HIDE DEF p
<1>9. disk' = disk /\ status' = "reading" /\ stack' = Advanced
  OBVIOUS
<1>10. \E es \in Seq(Outcomes) : Gives(es, stack', disk', Sofar', Whole(disk', p'))
  BY <1>2, <1>7, <1>8, <1>9
<1>11. Readable(disk', p') /\ LeftFits(disk', stack')
  BY <1>1, <1>3, <1>8, <1>9
<1> QED
  BY <1>9, <1>10, <1>11 DEF ReadInv, p

(* An include that opens a file.                                            *)
LEMMA IncludeRead ==
  ASSUME IInv, ReadInv, Include
  PROVE  ReadInv'
<1> DEFINE p == Top(place)
           f == Found
           file == [path |-> f, left |-> disk[f]]
           later == Marked(disk, Sofar, Line)
           sub == Run(disk, disk[f], later)
           d == disk
           line == Line
           after == AfterOf(disk, Sofar, Line, sub)
<1>1. /\ status = "reading" /\ stack[1].left # <<>> /\ Line.is = "include" /\ Opens(f)
      /\ included' = included \cup {f} /\ stack' = Push(f, Advanced)
      /\ disk' = disk /\ place' = place /\ status' = "reading" /\ sequences' = sequences
  BY DEF Include, AtLine, Line
<1>2. /\ disk \in Disks /\ stack # <<>> /\ stack[1].left \in Seq(Lines) /\ Sofar \in Outcomes
      /\ Need(disk, stack[1].left, Sofar) <= All(disk) /\ Readable(disk, p)
      /\ Line \in Lines /\ Line = Head(stack[1].left)
  BY <1>1, AtLineFacts
<1>3. PICK ends \in Seq(Outcomes) : Gives(ends, stack, disk, Sofar, Whole(disk, p))
  BY <1>1 DEF ReadInv
<1>4. /\ Advanced \in Seq(Frames) /\ Advanced # <<>> /\ Len(Advanced) = Len(stack)
      /\ Advanced[1].left = Tail(stack[1].left)
      /\ \A i \in 1..Len(stack) : i # 1 => Advanced[i].left = stack[i].left
      /\ LeftFits(disk, Advanced)
  BY <1>1, <1>2, AdvancedFacts DEF ReadInv
<1>5. Nests(disk, Sofar, Line) /\ Named(disk, Line) = f /\ f \in DOMAIN disk /\ Readable(disk, f)
  <2>1. Named(disk, Line) = f
    BY DEF Named, Found
  <2>2. f \notin included /\ Readable(disk, f) /\ f \in DOMAIN disk
    BY <1>1 DEF Opens, Readable, Exists
  <2>3. f # Nowhere
    BY <1>2, <2>2, ComposeFileAssumption
  <2>4. Sofar.included = included
    BY SofarType
  <2> QED
    BY <1>1, <2>1, <2>2, <2>3, <2>4 DEF Nests, Goes
<1>6. /\ disk[f] \in Seq(Lines) /\ later \in Outcomes /\ later.included = included \cup {f}
      /\ after = [sub EXCEPT !.cut = FALSE]
  <2>1. Sofar.included = included
    BY SofarType
  <2>2. /\ d[Named(d, line)] \in Seq(Lines) /\ Marked(d, Sofar, line) \in Outcomes
        /\ Marked(d, Sofar, line).included = Sofar.included \cup {Named(d, line)}
        /\ AfterOf(d, Sofar, line, sub) = [sub EXCEPT !.cut = FALSE]
    <3>1. d \in Disks /\ line \in Lines /\ Nests(d, Sofar, line) /\ Sofar \in Outcomes
      BY <1>2, <1>5
    <3> HIDE DEF d, line, sub
    <3> QED
      BY <3>1, LineGives
  <2>3. Named(d, line) = f
    BY <1>5
  <2> QED
    <3> HIDE DEF f, sub
    <3> QED
      BY <2>1, <2>2, <2>3
<1>7. sub \in Outcomes
  BY <1>2, <1>6, RunType
<1>8. file \in Frames /\ file.left = disk[f] /\ file.path = f
  BY <1>1, OpensFile
<1>9. Sofar' = later
  <2>1. Named(disk, Line) = f /\ Sofar.included = included /\ Sofar.sequences = sequences
    BY <1>5, SofarType
  <2>2. Sofar' = [sequences |-> sequences, included |-> included \cup {f}, cut |-> FALSE]
    BY <1>1 DEF Sofar
  <2>3. later = [Sofar EXCEPT !.included = included \cup {f}]
    <3> HIDE DEF f
    <3> QED
      BY <2>1 DEF Marked
  <2> QED
    <3> HIDE DEF f, later
    <3> QED
      BY <2>2, <2>3 DEF Sofar
<1> HIDE DEF p, f, file, later
<1>10. Run(disk, stack[1].left, Sofar) = Run(disk, Advanced[1].left, after)
  BY <1>1, <1>2, <1>4, <1>5, RunLine DEF later
<1> HIDE DEF after, sub
<1>11. Gives(ends, Advanced, disk, after, Whole(disk, p))
  BY <1>2, <1>3, <1>4, <1>10, GivesSame
<1>12. Gives(<<sub>> \o ends, <<file>> \o Advanced, disk, later, Whole(disk, p))
  <2>1. sub = Run(disk, file.left, later)
    BY <1>8 DEF sub
  <2>2. Gives(ends, Advanced, disk, [sub EXCEPT !.cut = FALSE], Whole(disk, p))
    BY <1>6, <1>11
  <2> QED
    BY <1>4, <1>7, <1>8, <2>1, <2>2, GivesPush
<1>13. stack' = <<file>> \o Advanced
  BY <1>1 DEF Push, file
<1>14. <<sub>> \o ends \in Seq(Outcomes)
  BY <1>3, <1>7, ConcatProperties
<1>15. LeftFits(disk, <<file>> \o Advanced)
  <2> DEFINE high == <<file>> \o Advanced
             n == Len(Advanced)
  <2>1. <<file>> \in Seq(Frames) /\ Len(<<file>>) = 1 /\ <<file>>[1] = file /\ n \in Nat
    BY <1>4, <1>8
  <2>2. /\ high \in Seq(Frames) /\ Len(high) = n + 1
        /\ \A i \in 1..(n + 1) : high[i] = IF i <= 1 THEN <<file>>[i] ELSE Advanced[i - 1]
    BY <1>4, <2>1, ConcatProperties
  <2> HIDE DEF high
  <2> SUFFICES ASSUME NEW i \in DOMAIN high
               PROVE  /\ high[i].path \in DOMAIN disk /\ Readable(disk, high[i].path)
                      /\ Len(high[i].left) <= Len(disk[high[i].path])
    BY DEF LeftFits, high
  <2>3. i \in 1..(n + 1)
    BY <2>1, <2>2
  <2>4. CASE i = 1
    <3>1. high[i] = file
      BY <2>1, <2>2, <2>3, <2>4
    <3>2. Len(disk[f]) \in Nat
      BY <1>6
    <3> QED
      BY <1>5, <1>8, <3>1, <3>2
  <2>5. CASE i # 1
    <3>1. i - 1 \in DOMAIN Advanced /\ ~(i <= 1)
      BY <1>4, <2>1, <2>3, <2>5
    <3>2. high[i] = Advanced[i - 1]
      BY <2>2, <2>3, <3>1
    <3> QED
      BY <1>4, <3>1, <3>2 DEF LeftFits
  <2> QED
    BY <2>4, <2>5
<1>16. Top(place)' = Top(place)
  BY <1>1, TopSame
<1>17. \E es \in Seq(Outcomes) : Gives(es, stack', disk', Sofar', Whole(disk', Top(place)'))
  BY <1>1, <1>9, <1>12, <1>13, <1>14, <1>16 DEF p
<1>18. Readable(disk', Top(place)') /\ LeftFits(disk', stack')
  BY <1>1, <1>2, <1>13, <1>15, <1>16 DEF p
<1> QED
  BY <1>1, <1>17, <1>18 DEF ReadInv

(* A file that ends, or is cut short: what has been read is read on from in *)
(* the file around it.                                                      *)
LEMMA PopRead ==
  ASSUME IInv, ReadInv, status = "reading", stack' = Tail(stack),
         UNCHANGED <<disk, place, included, sequences>>,
         NEW cut \in BOOLEAN, Run(disk, stack[1].left, Sofar) = [Sofar EXCEPT !.cut = cut],
         status' = IF Len(stack) # 1 THEN "reading" ELSE IF cut THEN "failed" ELSE "done"
  PROVE  ReadInv'
<1> DEFINE p == Top(place)
<1>1. /\ disk \in Disks /\ stack \in Seq(Frames) /\ stack # <<>> /\ Sofar \in Outcomes
      /\ [Sofar EXCEPT !.cut = FALSE] = Sofar /\ Readable(disk, p)
  BY AtLineFacts
<1>2. PICK ends \in Seq(Outcomes) : Gives(ends, stack, disk, Sofar, Whole(disk, p))
  BY DEF ReadInv
<1>3. Sofar' = Sofar /\ p' = p /\ disk' = disk
  BY TopSame DEF Sofar
<1>4. ends[1] = [Sofar EXCEPT !.cut = cut]
  <2>1. 1 \in 1..Len(stack)
    BY <1>1, EmptySeq
  <2> QED
    BY <1>2, <2>1 DEF Gives
<1>5. ends[1] \in Outcomes /\ ends[1].cut = cut /\ [ends[1] EXCEPT !.cut = FALSE] = Sofar
  <2>1. \A r \in Outcomes : LET s == [r EXCEPT !.cut = cut]
                            IN s \in Outcomes /\ s.cut = cut /\ [s EXCEPT !.cut = FALSE] = [r EXCEPT !.cut = FALSE]
    BY DEF Outcomes
  <2> QED
    BY <1>1, <1>4, <2>1
<1>6. LeftFits(disk, Tail(stack))
  <2>1. /\ Tail(stack) \in Seq(Frames) /\ DOMAIN Tail(stack) = 1..(Len(stack) - 1)
        /\ \A i \in 1..(Len(stack) - 1) : Tail(stack)[i] = stack[i + 1] /\ i + 1 \in DOMAIN stack
    BY <1>1, HeadTailProperties
  <2> DEFINE t == Tail(stack)
  <2> HIDE DEF t
  <2>2. DOMAIN t = 1..(Len(stack) - 1) /\ \A i \in DOMAIN t : t[i] = stack[i + 1] /\ i + 1 \in DOMAIN stack
    BY <2>1 DEF t
  <2>3. LeftFits(disk, t)
    BY <2>2 DEF ReadInv, LeftFits
  <2> QED
    BY <2>3 DEF t
<1> HIDE DEF p
<1>7. CASE Len(stack) # 1
  <2>1. Tail(ends) \in Seq(Outcomes) /\ Gives(Tail(ends), Tail(stack), disk, Sofar, Whole(disk, p))
    BY <1>1, <1>2, <1>5, <1>7, GivesPop
  <2>2. \E es \in Seq(Outcomes) : Gives(es, stack', disk', Sofar', Whole(disk', p'))
    BY <1>3, <2>1
  <2>3. Readable(disk', p') /\ LeftFits(disk', stack') /\ status' = "reading"
    BY <1>1, <1>3, <1>6, <1>7
  <2> QED
    BY <2>2, <2>3 DEF ReadInv, p
<1>8. CASE Len(stack) = 1
  <2>1. Whole(disk, p) = ends[1]
    BY <1>1, <1>2, <1>8 DEF Gives
  <2>2. ~cut => Sofar = Whole(disk, p)
    <3> SUFFICES ASSUME ~cut PROVE Sofar = Whole(disk, p)
      OBVIOUS
    <3>1. cut = FALSE
      OBVIOUS
    <3> QED
      BY <1>1, <1>4, <2>1, <3>1
  <2>3. cut => Whole(disk, p).cut
    BY <1>5, <2>1
  <2>4. /\ status' \in {"done", "failed"} /\ (status' = "done" => ~cut) /\ (status' = "failed" => cut)
        /\ Readable(disk', p') /\ LeftFits(disk', stack')
    BY <1>1, <1>3, <1>6, <1>8
  <2>5. /\ status' = "done" => Sofar' = Whole(disk', p')
        /\ status' = "failed" => Whole(disk', p').cut
    BY <1>3, <2>2, <2>3, <2>4
  <2> QED
    BY <2>4, <2>5 DEF ReadInv, p
<1> QED
  BY <1>7, <1>8

(* Every step of a parse keeps it.                                          *)
LEMMA ReadInvNext ==
  ASSUME IInv, ReadInv, [Next]_vars
  PROVE  ReadInv'
<1> DEFINE p == Top(place)
<1>1. CASE OpenTop
  <2>1. /\ Readable(disk, p) /\ disk' = disk /\ place' = place /\ status' = "reading"
        /\ included' = {p} /\ stack' = Push(p, <<>>) /\ sequences' = sequences
        /\ sequences = <<>>
    BY <1>1 DEF OpenTop, Opens, ReadInv
  <2>2. p' = p /\ Sofar' = Opened(p)
    BY <2>1, TopSame DEF Sofar, Opened
  <2> DEFINE file == [path |-> p, left |-> disk[p]]
             whole == Whole(disk, p)
  <2>3. file \in Frames /\ file.left = disk[p] /\ file.path = p
    BY <1>1, OpensFile DEF OpenTop
  <2>4. p \in DOMAIN disk /\ disk \in Disks /\ disk[p] \in Seq(Lines) /\ p \in Paths
    BY <2>1, <2>3 DEF Readable, Exists, Frames, IInv
  <2>5. whole \in Outcomes
    <3>1. Opened(p) \in Outcomes
      BY <2>4 DEF Opened, Outcomes
    <3> QED
      BY <2>4, <3>1, RunType DEF Whole
  <2>6. whole = Run(disk, file.left, Opened(p))
    BY <2>3 DEF Whole
  <2> HIDE DEF p, file, whole
  <2>7. stack' = <<file>>
    <3>1. <<file>> \in Seq(Frames)
      BY <2>3
    <3> QED
      BY <2>1, <3>1 DEF Push, file
  <2>8. Gives(<<whole>>, <<file>>, disk, Opened(p), whole)
    <3>1. Len(<<whole>>) = 1 /\ Len(<<file>>) = 1 /\ <<whole>>[1] = whole /\ <<file>>[1] = file
      OBVIOUS
    <3> QED
      BY <2>6, <3>1 DEF Gives
  <2>9. LeftFits(disk, <<file>>)
    <3>1. DOMAIN <<file>> = {1} /\ <<file>>[1] = file /\ Len(disk[p]) \in Nat
      BY <2>4
    <3> QED
      BY <2>1, <2>3, <2>4, <3>1 DEF LeftFits
  <2>10. \E es \in Seq(Outcomes) : Gives(es, stack', disk', Sofar', Whole(disk', p'))
    <3>1. <<whole>> \in Seq(Outcomes)
      BY <2>5
    <3> QED
      BY <2>1, <2>2, <2>7, <2>8, <3>1 DEF whole
  <2> QED
    BY <2>1, <2>2, <2>7, <2>9, <2>10 DEF ReadInv, p
<1>2. CASE NoTop
  <2>1. ~Readable(disk, p) /\ disk' = disk /\ place' = place /\ status' = "failed" /\ stack' = stack
    BY <1>2 DEF NoTop, Fails, ReadInv
  <2>2. p' = p
    BY <2>1, TopSame
  <2>3. LeftFits(disk', stack')
    BY <2>1 DEF ReadInv
  <2> QED
    BY <2>1, <2>2, <2>3 DEF ReadInv
<1>3. CASE Blank
  <2>1. AfterOf(disk, Sofar, Line, Sofar) = Sofar
    BY <1>3 DEF Blank, AtLine, Line, AfterOf, Goes
  <2>2. Sofar' = Sofar /\ Line.is = "blank" /\ ~Nests(disk, Sofar, Line)
    BY <1>3 DEF Blank, AtLine, Line, Sofar, Nests, Goes
  <2>3. stack[1].left # <<>> /\ status = "reading" /\ stack' = Advanced /\ UNCHANGED <<disk, place, status>>
    BY <1>3 DEF Blank, AtLine
  <2> QED
    BY <2>1, <2>2, <2>3, SofarType, AdvanceRead
<1>4. CASE BadLine
  <2>1. Line.is = "line" /\ ~Parses(Line)
    BY <1>4 DEF BadLine, AtLine, Line
  <2>2. AfterOf(disk, Sofar, Line, Sofar) = Sofar
    BY <2>1 DEF AfterOf, Goes
  <2>3. Sofar' = Sofar /\ ~Nests(disk, Sofar, Line)
    BY <1>4, <2>1 DEF BadLine, Sofar, Nests, Goes
  <2>4. stack[1].left # <<>> /\ status = "reading" /\ stack' = Advanced /\ UNCHANGED <<disk, place, status>>
    BY <1>4 DEF BadLine, AtLine
  <2> QED
    BY <2>1, <2>2, <2>3, <2>4, SofarType, AdvanceRead
<1>5. CASE Define
  <2> DEFINE x == [seq |-> Line.keys, out |-> Line.out]
  <2>1. Line.is = "line" /\ Parses(Line)
    BY <1>5 DEF Define, AtLine, Line
  <2>2. AfterOf(disk, Sofar, Line, Sofar) = [Sofar EXCEPT !.sequences = Append(@, x)]
    <3> HIDE DEF x
    <3>1. AfterOf(disk, Sofar, Line, Sofar)
            = [Sofar EXCEPT !.sequences = Append(@, [seq |-> Line.keys, out |-> Line.out])]
      BY <2>1 DEF AfterOf, Goes
    <3> QED
      BY <3>1, Zenon DEF x
  <2>3. sequences' = Append(sequences, x) /\ included' = included /\ ~Nests(disk, Sofar, Line)
    BY <1>5, <2>1 DEF Define, Nests, Goes
  <2>4. Sofar' = AfterOf(disk, Sofar, Line, Sofar)
    <3> HIDE DEF x
    <3> QED
      BY <2>2, <2>3 DEF Sofar
  <2>5. stack[1].left # <<>> /\ status = "reading" /\ stack' = Advanced /\ UNCHANGED <<disk, place, status>>
    BY <1>5 DEF Define, AtLine
  <2> QED
    BY <2>1, <2>3, <2>4, <2>5, SofarType, AdvanceRead
<1>6. CASE IncludeAgain
  <2>1. Line.is = "include" /\ Named(disk, Line) \in included
    BY <1>6 DEF IncludeAgain, AtLine, Line, Named, Found
  <2>2. ~Goes(disk, Sofar, Line)
    BY <2>1, SofarType DEF Goes
  <2>3. AfterOf(disk, Sofar, Line, Sofar) = Sofar
    BY <2>1, <2>2 DEF AfterOf
  <2>4. Sofar' = Sofar /\ ~Nests(disk, Sofar, Line)
    BY <1>6, <2>2 DEF IncludeAgain, Sofar, Nests
  <2>5. stack[1].left # <<>> /\ status = "reading" /\ stack' = Advanced /\ UNCHANGED <<disk, place, status>>
    BY <1>6 DEF IncludeAgain, AtLine
  <2> QED
    BY <2>1, <2>3, <2>4, <2>5, SofarType, AdvanceRead
<1>7. CASE BadInclude
  <2> DEFINE f == Named(disk, Line)
  <2>1. /\ Line.is = "include" /\ f \notin included /\ ~Readable(disk, f)
        /\ included' = included \cup ({f} \ {Nowhere}) /\ sequences' = sequences
    BY <1>7 DEF BadInclude, AtLine, Line, Fails, Named, Found
  <2>2. ~Nests(disk, Sofar, Line)
    BY <2>1 DEF Nests
  <2>3. AfterOf(disk, Sofar, Line, Sofar) = IF f = Nowhere THEN Sofar ELSE Marked(disk, Sofar, Line)
    BY <2>1, SofarType DEF AfterOf, Goes
  <2>4. Sofar' = AfterOf(disk, Sofar, Line, Sofar)
    <3>1. CASE f = Nowhere
      <4>1. included' = included
        BY <2>1, <3>1
      <4> QED
        BY <2>1, <2>3, <3>1, <4>1 DEF Sofar
    <3>2. CASE f # Nowhere
      <4>1. included' = included \cup {f}
        BY <2>1, <3>2
      <4>2. Marked(disk, Sofar, Line) = [Sofar EXCEPT !.included = @ \cup {f}]
        BY DEF Marked
      <4> HIDE DEF f
      <4> QED
        BY <2>1, <2>3, <3>2, <4>1, <4>2 DEF Sofar
    <3> QED
      BY <3>1, <3>2
  <2>5. stack[1].left # <<>> /\ status = "reading" /\ stack' = Advanced /\ UNCHANGED <<disk, place, status>>
    BY <1>7 DEF BadInclude, AtLine
  <2> HIDE DEF f
  <2> QED
    BY <2>1, <2>2, <2>4, <2>5, SofarType, AdvanceRead
<1>8. CASE Include
  BY <1>8, IncludeRead
<1>9. CASE LongLine
  <2>1. /\ status = "reading" /\ stack[1].left # <<>> /\ Line.is = "long"
        /\ stack' = Tail(stack) /\ UNCHANGED <<disk, place, included, sequences>>
        /\ status' = IF Len(stack) # 1 THEN "reading" ELSE "failed"
    BY <1>9 DEF LongLine, AtLine, Line
  <2>2. Run(disk, stack[1].left, Sofar) = [Sofar EXCEPT !.cut = TRUE]
    <3> DEFINE lines == stack[1].left
               d == disk
               r == Sofar
               sub == Run(d, d[Named(d, Head(lines))], Marked(d, r, Head(lines)))
    <3>1. /\ d \in Disks /\ lines \in Seq(Lines) /\ lines # <<>> /\ r \in Outcomes
          /\ Need(d, lines, r) <= All(d) /\ Head(lines).is = "long"
      BY <2>1, AtLineFacts
    <3> HIDE DEF lines, d, r
    <3>2. Run(d, lines, r) = IF Head(lines).is = "long" THEN [r EXCEPT !.cut = TRUE]
                             ELSE Run(d, Tail(lines), AfterOf(d, r, Head(lines), sub))
      BY <3>1, RunLine
    <3> HIDE DEF sub
    <3> QED
      BY <3>1, <3>2 DEF lines, d, r
  <2> QED
    BY <2>1, <2>2, PopRead
<1>10. CASE EndFile
  <2>1. /\ status = "reading" /\ stack[1].left = <<>>
        /\ stack' = Tail(stack) /\ UNCHANGED <<disk, place, included, sequences>>
        /\ status' = IF Len(stack) # 1 THEN "reading" ELSE "done"
    BY <1>10 DEF EndFile
  <2>2. Run(disk, stack[1].left, Sofar) = [Sofar EXCEPT !.cut = FALSE]
    BY <2>1, AtLineFacts, RunEnd
  <2> QED
    BY <2>1, <2>2, PopRead
<1>11. CASE UNCHANGED vars
  <2>1. disk' = disk /\ place' = place /\ status' = status /\ stack' = stack
        /\ included' = included /\ sequences' = sequences
    BY <1>11 DEF vars
  <2>2. Sofar' = Sofar /\ p' = p
    BY <2>1, TopSame DEF Sofar
  <2> HIDE DEF p
  <2> QED
    BY <2>1, <2>2 DEF ReadInv, p
<1> QED
  BY <1>1, <1>2, <1>3, <1>4, <1>5, <1>6, <1>7, <1>8, <1>9, <1>10, <1>11 DEF Next

(* A call returns the sequences of the file it was asked for and of its     *)
(* includes, in the order of the text with each file at its first include,  *)
(* and whatever is wrong with an included file never costs a line of        *)
(* another one: parseFile and parseData read as Reading does.               *)
THEOREM InOrder == Spec => []ReadsInOrder
<1>1. Init => ReadInv
  BY DEF Init, ReadInv, LeftFits
<1>2. IInv /\ ReadInv /\ [Next]_vars => ReadInv'
  BY ReadInvNext
<1>3. IInv /\ ReadInv => ReadsInOrder
  <2> SUFFICES ASSUME IInv, ReadInv, status \in {"done", "failed"} PROVE ReadsInOrder
    BY DEF ReadsInOrder
  <2> DEFINE p == Top(place)
             r == Whole(disk, p)
  <2>1. r = Reading(disk)[<<Cardinality(LinesLeft(disk, {})), disk[p],
                            [sequences |-> <<>>, included |-> {p}, cut |-> FALSE]>>]
    BY DEF Whole, Run, All, Opened
  <2>2. status = "failed" => ~Readable(disk, p) \/ r.cut
    BY DEF ReadInv
  <2>3. status = "done" => Readable(disk, p) /\ ~r.cut /\ sequences = r.sequences /\ included = r.included
    <3>1. status = "done" => Readable(disk, p) /\ Sofar = r
      BY DEF ReadInv
    <3> HIDE DEF r, p
    <3> QED
      BY <3>1 DEF Sofar
  <2>4. IF ~Readable(disk, p) \/ r.cut THEN status = "failed"
        ELSE status = "done" /\ sequences = r.sequences /\ included = r.included
    BY <2>2, <2>3
  <2> QED
    BY <2>1, <2>4 DEF ReadsInOrder
<1> QED
  BY <1>1, <1>2, <1>3, Invariance, PTL DEF Spec
=============================================================================

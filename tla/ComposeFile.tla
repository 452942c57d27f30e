----------------------------- MODULE ComposeFile -----------------------------
(***************************************************************************)
(* How a Compose table's sequences are read from files (context.go,        *)
(* compose_parser.go): the search for the file of a locale, and parseFile  *)
(* with the files it includes, the recursion kept as a stack.              *)
(*                                                                         *)
(* The text of a line is what decides its fate: the keysyms before the     *)
(* colon, whether there is a colon, the result, and where a # is.  What    *)
(* the sequences do in a table is the matter of Compose.                   *)
(***************************************************************************)
EXTENDS Naturals, Sequences, SequencesExt, FiniteSets

CONSTANTS
  Paths,        \* absolute paths of files
  Disks,        \* what files there may be: path to lines
  Places,       \* where callers make the parser look: see below
  Keysyms,      \* keysyms that lookupKeysym knows
  Results,      \* results of lines
  Unknown,      \* a name that is no keysym
  Unreadable,   \* the text of a path that can be found and not read
  Nowhere       \* no path: an empty string, or an environment variable not set

\* A line is blank or a comment; an include, with the paths that it is looked
\* for in, of which there are none when its quotes are wrong; too long for
\* the scanner; or anything else.
Lines == [is : {"blank", "long"}]
         \cup [is : {"include"}, tries : Seq(Paths)]
         \cup [is : {"line"}, keys : Seq(Keysyms \cup {Unknown}), colon : BOOLEAN,
               hash : {"none", "comment", "quoted"}, out : Results]

\* A caller names a file, or a locale: then the paths are those of
\* $XCOMPOSEFILE, ~/.XCompose, the locale's own directories, what the
\* compose.dir files map it to, and en_US.UTF-8.
ASSUME ComposeFileAssumption ==
  /\ \A d \in Disks : /\ DOMAIN d \subseteq Paths /\ IsFiniteSet(DOMAIN d)
                      /\ \A p \in DOMAIN d : d[p] = Unreadable \/ d[p] \in Seq(Lines)
  /\ Unreadable \notin Seq(Lines)
  /\ Nowhere \notin Paths
  /\ Places \subseteq
       [file : Paths]
       \cup [xcomposefile : Paths \cup {Nowhere}, home : Paths \cup {Nowhere},
             direct : Seq(Paths), mapped : Seq(Paths), fallback : Seq(Paths)]
  /\ Unknown \notin Keysyms

VARIABLES
  disk,         \* the files, which do not change
  place,        \* where the caller makes the parser look
  status,       \* "asked", "reading", "done" or "failed"
  stack,        \* the files being read, the innermost first
  included,     \* composeParser.included
  sequences,    \* composeParser.sequences
  errors        \* composeParser.errors: how many

vars == <<disk, place, status, stack, included, sequences, errors>>

Init ==
  /\ disk \in Disks
  /\ place \in Places
  /\ status = "asked"
  /\ stack = <<>>
  /\ included = {}
  /\ sequences = <<>>
  /\ errors = 0

-----------------------------------------------------------------------------
(* Which file.                                                              *)

\* os.Stat finds it on disk d; os.ReadFile reads it.
Exists(d, p) == p \in DOMAIN d
Readable(d, p) == Exists(d, p) /\ d[p] # Unreadable

\* The first of the paths that exists.
First(d, paths) ==
  LET i == SelectInSeq(paths, LAMBDA p : Exists(d, p)) IN IF i = 0 THEN Nowhere ELSE paths[i]

\* NewComposeTableFromLocale and findComposeFileForLocale look for the first
\* of these; a file that is named is read whether it exists or not.
Candidates(w) == <<w.xcomposefile, w.home>> \o w.direct \o w.mapped \o w.fallback
Top(w) == IF "file" \in DOMAIN w THEN w.file ELSE First(disk, Candidates(w))

\* parseFile: a file that is read for the first time is opened.
Opens(p) == p \notin included /\ Readable(disk, p)
Fails(p) == p \notin included /\ ~Readable(disk, p)
Push(p, rest) == <<[path |-> p, left |-> disk[p]]>> \o rest

OpenTop ==
  /\ status = "asked"
  /\ Opens(Top(place))
  /\ status' = "reading"
  /\ included' = {Top(place)}
  /\ stack' = Push(Top(place), <<>>)
  /\ UNCHANGED <<disk, place, sequences, errors>>

NoTop ==
  /\ status = "asked"
  /\ Fails(Top(place))
  /\ status' = "failed"
  /\ included' = {Top(place)} \ {Nowhere}
  /\ UNCHANGED <<disk, place, stack, sequences, errors>>

-----------------------------------------------------------------------------
(* parseData.                                                               *)

AtLine(what) == /\ status = "reading"
                /\ stack[1].left # <<>>
                /\ Head(stack[1].left).is = what
Line == Head(stack[1].left)
Advanced == <<[stack[1] EXCEPT !.left = Tail(@)]>> \o Tail(stack)

Blank ==
  /\ AtLine("blank")
  /\ stack' = Advanced
  /\ UNCHANGED <<disk, place, status, included, sequences, errors>>

\* parseLine: the line is cut at its first #, even inside the quotes of the
\* result, which then has no end.
Parses(line) == /\ line.colon
                /\ line.keys # <<>>
                /\ Unknown \notin Range(line.keys)
                /\ line.hash # "quoted"

Define ==
  /\ AtLine("line") /\ Parses(Line)
  /\ sequences' = Append(sequences, [seq |-> Line.keys, out |-> Line.out])
  /\ stack' = Advanced
  /\ UNCHANGED <<disk, place, status, included, errors>>

BadLine ==
  /\ AtLine("line") /\ ~Parses(Line)
  /\ errors' = errors + 1
  /\ stack' = Advanced
  /\ UNCHANGED <<disk, place, status, included, sequences>>

\* resolveIncludePath.
Found == First(disk, Line.tries)

\* A fault of Include: a file counts as included when its end is reached.
IncludeUnmarked ==
  /\ AtLine("include") /\ Opens(Found)
  /\ stack' = Push(Found, Advanced)
  /\ UNCHANGED <<disk, place, status, included, sequences, errors>>

Include ==
  /\ AtLine("include") /\ Opens(Found)
  /\ included' = included \cup {Found}
  /\ stack' = Push(Found, Advanced)
  /\ UNCHANGED <<disk, place, status, sequences, errors>>

\* A file that has been included is passed over.
IncludeAgain ==
  /\ AtLine("include") /\ Found \in included
  /\ stack' = Advanced
  /\ UNCHANGED <<disk, place, status, included, sequences, errors>>

\* An include that cannot be understood, found or read.
BadInclude ==
  /\ AtLine("include") /\ Fails(Found)
  /\ included' = included \cup ({Found} \ {Nowhere})
  /\ errors' = errors + 1
  /\ stack' = Advanced
  /\ UNCHANGED <<disk, place, status, sequences>>

\* A fault of LongLine: the files around it end with it.
LongLineEndsAll ==
  /\ AtLine("long")
  /\ stack' = <<>>
  /\ status' = "failed"
  /\ UNCHANGED <<disk, place, included, sequences, errors>>

\* The scanner stops at a line that is too long for it: the file ends there
\* with an error, which the caller gets if it is the outermost one.
LongLine ==
  /\ AtLine("long")
  /\ stack' = Tail(stack)
  /\ IF Len(stack) = 1
     THEN status' = "failed" /\ UNCHANGED errors
     ELSE errors' = errors + 1 /\ UNCHANGED status
  /\ UNCHANGED <<disk, place, included, sequences>>

\* A fault of EndFile: the call does not return.
EndFileSilent ==
  /\ status = "reading"
  /\ stack[1].left = <<>>
  /\ stack' = Tail(stack)
  /\ UNCHANGED <<disk, place, status, included, sequences, errors>>

\* A fault of EndFile: the last file is never done with.
EndFileInner ==
  /\ status = "reading"
  /\ Len(stack) > 1 /\ stack[1].left = <<>>
  /\ stack' = Tail(stack)
  /\ UNCHANGED <<disk, place, status, included, sequences, errors>>

EndFile ==
  /\ status = "reading"
  /\ stack[1].left = <<>>
  /\ stack' = Tail(stack)
  /\ status' = IF Len(stack) = 1 THEN "done" ELSE status
  /\ UNCHANGED <<disk, place, included, sequences, errors>>

Next ==
  \/ OpenTop \/ NoTop
  \/ Blank \/ Define \/ BadLine
  \/ Include \/ IncludeAgain \/ BadInclude
  \/ LongLine \/ EndFile

\* The call goes on until it returns.
Spec == Init /\ [][Next]_vars /\ WF_vars(Next)

-----------------------------------------------------------------------------
(* Properties.                                                              *)

\* Every variable holds a value of its type.
TypeOK ==
  /\ place \in Places
  /\ status \in {"asked", "reading", "done", "failed"}
  /\ \A i \in DOMAIN stack : stack[i].path \in Paths /\ Range(stack[i].left) \subseteq Lines
  /\ included \subseteq Paths
  /\ \A i \in DOMAIN sequences : /\ sequences[i].seq # <<>>
                                 /\ Range(sequences[i].seq) \subseteq Keysyms
                                 /\ sequences[i].out \in Results
  /\ errors \in Nat
  /\ status = "reading" <=> stack # <<>>

\* No file is read while it is being read, so that the recursion of parseFile
\* is never deeper than there are files.
NoFileInsideItself ==
  /\ \A i \in DOMAIN stack : stack[i].path \in included
  /\ \A i, j \in DOMAIN stack : i # j => stack[i].path # stack[j].path

\* The lines on disk d of the files that have not been included, and what a
\* reading gives: the sequences, the files included, and whether it stopped
\* at a line that is too long.
LinesLeft(d, inc) == UNION {{p} \X DOMAIN d[p] : p \in {q \in DOMAIN d \ inc : Readable(d, q)}}
Outcomes == [sequences : Seq([seq : Seq(Keysyms), out : Results]), included : SUBSET Paths, cut : BOOLEAN]

\* What reading these lines adds to r, by recursion on n, of which there are
\* no fewer than lines left to read.  An included file is read where it is
\* included; if it is cut short, the file around it is not.
Reading(d) ==
  LET read[x \in (0..Cardinality(LinesLeft(d, {}))) \X Seq(Lines) \X Outcomes] ==
        LET n == x[1]
            lines == x[2]
            r == x[3]
            line == Head(lines)
            f == First(d, line.tries)
            marked == [r EXCEPT !.included = @ \cup {f}]
            after == CASE line.is = "line" /\ Parses(line) ->
                            [r EXCEPT !.sequences = Append(@, [seq |-> line.keys, out |-> line.out])]
                       [] line.is = "include" /\ f \notin r.included \cup {Nowhere} ->
                            IF Readable(d, f) THEN [read[<<n - 1, d[f], marked>>] EXCEPT !.cut = FALSE]
                            ELSE marked
                       [] OTHER -> r
        IN IF n = 0 \/ lines = <<>> THEN r
           ELSE IF line.is = "long" THEN [r EXCEPT !.cut = TRUE]
           ELSE read[<<n - 1, Tail(lines), after>>]
  IN read

\* A call returns the sequences of the file it was asked for and of its
\* includes, in the order of the text with each file at its first include,
\* and leaves out just the lines that do not parse: whatever is wrong with an
\* included file never costs a line of another file.
ReadsInOrder ==
  LET p == Top(place)
      r == Reading(disk)[<<Cardinality(LinesLeft(disk, {})), disk[p],
                           [sequences |-> <<>>, included |-> {p}, cut |-> FALSE]>>]
  IN status \in {"done", "failed"} =>
       IF ~Readable(disk, p) \/ r.cut THEN status = "failed"
       ELSE status = "done" /\ sequences = r.sequences /\ included = r.included

\* Every call returns, whatever the files include.
CallReturns == <>(status \in {"done", "failed"})
=============================================================================

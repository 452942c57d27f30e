------------------------------- MODULE Lexer -------------------------------
(***************************************************************************)
(* Lexer (lexer.go): the tokens of a text, for a caller that asks for the  *)
(* next one until the end (the Parser) or until the first error (Tokenize).*)
(*                                                                         *)
(* A rune is its code point, a position is counted in runes, and width     *)
(* only says whether the last read moved.  The cursor is a value that the  *)
(* small methods (next, backup, peek, accept) map to a new one; there is   *)
(* one action per round of each loop.                                      *)
(***************************************************************************)
EXTENDS Integers, Sequences, FiniteSetsExt

CONSTANT Texts \* the inputs: sequences of code points

ASSUME LexerAssumption == Texts \subseteq Seq(0..255)

VARIABLES
  text,   \* Lexer.input
  at,     \* the cursor: pos, line, col, width
  start,  \* the cursor at the start of the token: start, startLine, startCol
  pc,     \* the loop NextToken is in, "done" when the caller has stopped
  buf,    \* the strings.Builder of scanString
  tokens  \* what NextToken has returned

vars == <<text, at, start, pc, buf, tokens>>

EOF == -1
NL == 10
Slash == 47
Star == 42
Quote == 34
Less == 60
Greater == 62
Backslash == 92
Space == {9, NL, 11, 12, 13, 32, 133, 160}
Octal == 48..55
Digit == 48..57
HexDigit == Digit \cup 65..70 \cup 97..102
Letter == 65..90 \cup 97..122 \cup {170, 181, 186} \cup 192..214 \cup 216..246 \cup 248..255
IdentStart == Letter \cup {95}
IdentChar == IdentStart \cup Digit
KeycodeChar == IdentChar \cup {43, 45}
\* { } [ ] ( ) ; , = + - ! ~ .
Punctuation == {123, 125, 91, 93, 40, 41, 59, 44, 61, 43, 45, 33, 126, 46}

\* The runes from p (excluded) to q, and those of the line that ends at p.
Piece(p, q) == SubSeq(text, p + 1, q)
LineStart(p) == Max({0} \cup {i \in 1..p : text[i] = NL})
RunesOnLine(p) == p - LineStart(p)
\* A rune above 127 has two bytes.
BytesOnLine(p) == RunesOnLine(p) + Cardinality({i \in LineStart(p) + 1 .. p : text[i] > 127})

-----------------------------------------------------------------------------
(* The cursor.                                                              *)

Rune(c) == IF c.pos < Len(text) THEN text[c.pos + 1] ELSE EOF

\* next: the rune it returns is Rune(c).
Advance(c) ==
  IF c.pos >= Len(text) THEN [c EXCEPT !.width = 0]
  ELSE [pos |-> c.pos + 1, width |-> 1,
        line |-> IF Rune(c) = NL THEN c.line + 1 ELSE c.line,
        col |-> IF Rune(c) = NL THEN 1 ELSE c.col + 1]

\* A fault of Backup: the line stays when a newline is put back.
BackupSameLine(c) ==
  IF c.width = 0 THEN c ELSE [c EXCEPT !.pos = @ - 1, !.col = @ - 1, !.width = 0]

\* backup: once after each next; before a newline the column is counted
\* again, in bytes.
Backup(c) ==
  LET p == c.pos - 1 IN
  IF c.width = 0 THEN c
  ELSE IF text[p + 1] = NL
  THEN [pos |-> p, width |-> 0, line |-> c.line - 1, col |-> 1 + BytesOnLine(p)]
  ELSE [c EXCEPT !.pos = p, !.col = @ - 1, !.width = 0]

Peek(c) == Backup(Advance(c))

\* Where the run of valid runes after p ends, at limit at the latest
\* (acceptRun; valid has no newline).
RunEnd(p, valid, limit) ==
  CHOOSE q \in p..limit : /\ \A i \in p + 1..q : text[i] \in valid
                          /\ q = limit \/ text[q + 1] \notin valid

\* The cursor after a run that ends at q: next has seen what ended it.
RunTo(c, q) == Peek([c EXCEPT !.pos = q, !.col = @ + q - c.pos])

-----------------------------------------------------------------------------
(* NextToken.                                                               *)

Init ==
  /\ text \in Texts
  /\ at = [pos |-> 0, line |-> 1, col |-> 1, width |-> 0]
  /\ start = at
  /\ pc = "space"
  /\ buf = <<>>
  /\ tokens = <<>>

\* A loop goes on at cursor c.
Go(loop, c) == pc' = loop /\ at' = c /\ UNCHANGED <<text, start, buf, tokens>>

\* NextToken returns; the caller asks again, or stops: at the end of the
\* text always, at an error if it is Tokenize.
Return(type, value, c) ==
  /\ tokens' = Append(tokens, [type |-> type, value |-> value, from |-> start'.pos,
                               to |-> c.pos, line |-> start'.line, col |-> start'.col])
  /\ at' = c
  /\ pc' \in CASE type = "EOF" -> {"done"} [] type = "Error" -> {"space", "done"} [] OTHER -> {"space"}
  /\ UNCHANGED <<text, buf>>

SkipWhitespace ==
  /\ pc = "space"
  /\ IF Rune(at) \in Space THEN Go("space", Advance(at)) ELSE Go("comment", Peek(at))

\* skipComment up to the second slash or the star.  What is no comment is
\* put back by half: the second backup follows no next.
SkipComment ==
  LET second == Advance(Peek(at)) IN
  /\ pc = "comment"
  /\ \/ Rune(at) # Slash /\ Go("token", Peek(at))
     \/ Rune(at) = Slash /\ Rune(second) = Slash /\ Go("line comment", Advance(second))
     \/ Rune(at) = Slash /\ Rune(second) = Star /\ Go("block comment", Advance(second))
     \/ /\ Rune(at) = Slash /\ Rune(second) \notin {Slash, Star}
        /\ Go("token", Backup(Backup(Advance(second))))

\* A fault of LineComment: the end of the text does not end a comment.
LineCommentForever ==
  /\ pc = "line comment"
  /\ Go(IF Rune(at) = NL THEN "space" ELSE "line comment", Advance(at))

LineComment ==
  /\ pc = "line comment"
  /\ Go(IF Rune(at) \in {NL, EOF} THEN "space" ELSE "line comment", Advance(at))

BlockComment ==
  LET c == Advance(at) IN
  /\ pc = "block comment"
  /\ IF Rune(at) = EOF THEN Go("space", c)
     ELSE IF Rune(at) # Star THEN Go("block comment", c)
     ELSE IF Rune(c) = Slash THEN Go("space", Advance(Peek(c)))
     ELSE Go("block comment", Peek(c))

\* A fault of NumberEnd: the x of a hexadecimal number is not part of it.
NumberEndNoHex(p) == RunEnd(p + 1, Digit, Len(text))

\* scanNumber: where the number that begins at p ends.
NumberEnd(p) ==
  LET n == Len(text)
      hex == p + 1 < n /\ text[p + 2] \in {88, 120}
  IN IF text[p + 1] # 48 THEN RunEnd(p + 1, Digit, n)
     ELSE IF hex THEN RunEnd(p + 2, HexDigit, n)
     ELSE RunEnd(RunEnd(p + 1, Octal, n), Digit, n)

\* The part of NextToken after the blanks.
StartToken ==
  LET r == Rune(at)
      c == Advance(at)
      Word(type, end) == Return(type, Piece(at.pos, end), RunTo(at, end))
  IN /\ pc = "token"
     /\ start' = at
     /\ \/ r = EOF /\ Return("EOF", <<>>, c)
        \/ r \in Punctuation /\ Return("Punctuation", <<r>>, c)
        \/ r = Less /\ pc' = "keycode" /\ at' = c /\ UNCHANGED <<text, buf, tokens>>
        \/ r = Quote /\ pc' = "string" /\ at' = c /\ buf' = <<>> /\ UNCHANGED <<text, tokens>>
        \/ r \in Digit /\ Word("Number", NumberEnd(at.pos))
        \/ r \in IdentStart /\ Word("Ident", RunEnd(at.pos, IdentChar, Len(text)))
        \/ /\ r \notin {EOF, Less, Quote} \cup Punctuation \cup Digit \cup IdentStart
           /\ Return("Error", <<>>, c)

\* A round of scanKeycode.
ScanKeycode ==
  LET r == Rune(at)
      c == Advance(at)
  IN /\ pc = "keycode"
     /\ IF r \in KeycodeChar THEN Go("keycode", c)
        ELSE /\ UNCHANGED start
             /\ IF r = Greater THEN Return("Keycode", Piece(start.pos + 1, at.pos), c)
                ELSE Return("Error", <<>>, c)

\* scanOctalEscape and scanHexEscape: a value and the cursor after it.
Value(digits, base) ==
  LET Of(r) == IF r \in Digit THEN r - 48 ELSE IF r >= 97 THEN r - 87 ELSE r - 55
      n == Len(digits)
  IN MapThenSumSet(LAMBDA i : Of(digits[i]) * base ^ (n - i), 1..n)
OctalEscape(c) ==
  LET q == RunEnd(c.pos, Octal, Min({c.pos + 3, Len(text)}))
      end == [c EXCEPT !.pos = q, !.col = @ + q - c.pos, !.width = 1]
  IN [val |-> Value(Piece(c.pos, q), 8), end |-> IF q = c.pos + 3 THEN end ELSE Peek(end)]
HexEscape(c) ==
  LET d == Advance(c) IN
  IF Rune(c) \notin HexDigit THEN [val |-> -1, end |-> d]
  ELSE IF Rune(d) \notin HexDigit THEN [val |-> -1, end |-> Advance(d)]
  ELSE [val |-> Value(Piece(c.pos, c.pos + 2), 16), end |-> Advance(d)]

\* What follows a backslash; WriteRune makes U+FFFD of the end of the text.
Escape(c) ==
  LET r == Rune(c)
      plain == IF r = 110 THEN NL ELSE IF r = 116 THEN 9 ELSE IF r = 114 THEN 13
               ELSE IF r = EOF THEN 65533 ELSE r
  IN IF r \in Octal THEN OctalEscape(Backup(Advance(c)))
     ELSE IF r = 120 THEN HexEscape(Advance(c))
     ELSE [val |-> plain, end |-> Advance(c)]

\* A round of scanString.
ScanString ==
  LET r == Rune(at)
      c == Advance(at)
      Write(v, end) == pc' = "string" /\ buf' = Append(buf, v) /\ at' = end /\ UNCHANGED <<text, tokens>>
  IN /\ pc = "string"
     /\ UNCHANGED start
     /\ \/ r \in {EOF, NL} /\ Return("Error", <<>>, c)
        \/ r = Quote /\ Return("String", buf, c)
        \/ r = Backslash /\ \E e \in {Escape(c)} :
             IF e.val < 0 THEN Return("Error", <<>>, e.end) ELSE Write(e.val, e.end)
        \/ r \notin {EOF, NL, Quote, Backslash} /\ Write(r, c)

Next ==
  \/ SkipWhitespace \/ SkipComment \/ LineComment \/ BlockComment
  \/ StartToken \/ ScanKeycode \/ ScanString

Spec == Init /\ [][Next]_vars

\* The lexer waits for nothing, so it takes its next step.
FairSpec == Spec /\ WF_vars(Next)

-----------------------------------------------------------------------------
(* Properties.                                                              *)

\* Every variable holds a value of its Go type.
TypeOK ==
  /\ at \in [pos : 0..Len(text), line : Nat \ {0}, col : Nat \ {0}, width : 0..1]
  /\ start \in [pos : 0..Len(text), line : Nat, col : Nat, width : 0..1]
  /\ pc \in {"space", "comment", "line comment", "block comment", "token", "keycode", "string", "done"}
  /\ \A i \in DOMAIN buf : buf[i] \in 0..1114111

\* Line and column as a reader counts them; before the newline that ends a
\* line, backup may have counted bytes instead.
Placed(pos, line, col) ==
  /\ line = 1 + Cardinality({i \in 1..pos : text[i] = NL})
  /\ \/ col = 1 + RunesOnLine(pos)
     \/ pos < Len(text) /\ text[pos + 1] = NL /\ col = 1 + BytesOnLine(pos)

\* However often the lexer looks ahead and backs up, over newlines, at the
\* end of the text and twice after one read, the line and column it has, and
\* those it puts in tokens for error messages, are those of the text (next,
\* backup).
PositionsExact ==
  /\ Placed(at.pos, at.line, at.col)
  /\ \A i \in DOMAIN tokens : Placed(tokens[i].from, tokens[i].line, tokens[i].col)

\* A blank, a comment with what ends it, or a comment that the text ends.
Blank(p, q) ==
  LET s == Piece(p, q)
      Ends(i) == i >= 4 /\ s[i - 1] = Star /\ s[i] = Slash
      inner == 1..Len(s) - 1
  IN \/ Len(s) = 1 /\ s[1] \in Space
     \/ /\ Len(s) >= 2 /\ s[1] = Slash /\ s[2] = Slash
        /\ NL \notin {s[i] : i \in inner}
        /\ s[Len(s)] = NL \/ q = Len(text)
     \/ /\ Len(s) >= 2 /\ s[1] = Slash /\ s[2] = Star
        /\ \A i \in inner : ~Ends(i)
        /\ Ends(Len(s)) \/ q = Len(text)

\* One blank after the other from p to q, cut at these places.
Cuts(cuts, p, q) ==
  /\ {p, q} \subseteq cuts
  /\ \A k, m \in cuts : k < m /\ (k + 1 .. m - 1) \cap cuts = {} => Blank(k, m)
Blanks(p, q) == \E cuts \in SUBSET (p..q) : Cuts(cuts, p, q)

\* Nothing but blanks from p to q; a slash that begins no comment may end it.
Skipped(p, q) == Blanks(p, q) \/ (q > p /\ text[q] = Slash /\ Blanks(p, q - 1))

\* What a token of each type looks like, and that it could not be longer.  A
\* rune is escaped when the number of backslashes in front of it is odd.
Shape(t) ==
  LET s == Piece(t.from, t.to)
      rest == IF t.to < Len(text) THEN text[t.to + 1] ELSE EOF
      inside == SubSeq(s, 2, Len(s) - 1)
      All(r, set) == \A i \in DOMAIN r : r[i] \in set
      Escaped(i) == (i - Max({j \in 1..i - 1 : s[j] # Backslash})) % 2 = 0
  IN CASE t.type = "EOF" -> t.from = Len(text)
       [] t.type = "Ident" -> s[1] \in IdentStart /\ All(s, IdentChar) /\ rest \notin IdentChar /\ t.value = s
       [] t.type = "Number" ->
            /\ t.value = s
            /\ \/ s # <<>> /\ All(s, Digit) /\ rest \notin Digit
                  /\ (s = <<48>> => rest \notin {88, 120})
               \/ Len(s) >= 2 /\ s[1] = 48 /\ s[2] \in {88, 120}
                  /\ All(SubSeq(s, 3, Len(s)), HexDigit) /\ rest \notin HexDigit
       [] t.type = "Keycode" -> /\ s[1] = Less /\ s[Len(s)] = Greater
                                /\ All(inside, KeycodeChar) /\ t.value = inside
       [] t.type = "String" ->
            /\ Len(s) >= 2 /\ s[1] = Quote /\ s[Len(s)] = Quote
            /\ \A i \in 2..Len(s) : s[i] = Quote => (i = Len(s) <=> ~Escaped(i))
            /\ \A i \in 2..Len(s) : s[i] = NL => Escaped(i)
            /\ (Backslash \notin {s[i] : i \in DOMAIN s} => t.value = inside)
       [] OTHER -> Len(s) >= 1

\* The tokens cut the text up and lose nothing: each is the whole of an
\* identifier, number, keycode or string, and between two there are only
\* blanks and comments.  (skipComment backs up twice after two reads, which
\* is once: a slash that begins no comment is lost in front of a token.)
TokensTile ==
  \A i \in DOMAIN tokens :
    /\ Shape(tokens[i])
    /\ Skipped(IF i = 1 THEN 0 ELSE tokens[i - 1].to, tokens[i].from)

\* Every text is read to its end, or to the error that Tokenize stops at,
\* also when it ends inside a comment, a string or an escape.
TokenizeEnds == <>(pc = "done")
=============================================================================

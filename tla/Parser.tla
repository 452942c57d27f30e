------------------------------ MODULE Parser ------------------------------
(***************************************************************************)
(* The control of Parser (parser.go): which tokens it consumes, where it   *)
(* gives up a statement and where it goes on afterwards.  What statements  *)
(* do to the Keymap is in KeymapBuild.                                     *)
(*                                                                         *)
(* The functions call each other by the grammar, so the calls that are     *)
(* open are a stack of what is still to come: a token to expect (expect,   *)
(* expectIdent and the like), a token to take if it is there (match), a    *)
(* loop, or an operator of this module named after its function.  The text *)
(* is the choice of each next token.  A word is an identifier the code     *)
(* looks at, or one of those it does not know ("word").                    *)
(***************************************************************************)
EXTENDS Integers, Sequences, SequencesExt, FiniteSetsExt

CONSTANTS
  Tokens, \* the kinds of token of the texts
  MaxNest \* bound: how deep a text nests braces in what is skipped

VARIABLES
  current, \* Parser.current
  stack,   \* what the open calls still expect, the innermost first
  saw,     \* sawKeycodes, sawTypes, sawCompat, sawSymbols
  failed,  \* Parser.errors is not empty
  result,  \* what Parse returned: "keymap", "nil", or "none" so far
  nest,    \* the depth of skipSection and skipStatementWithBraces
  depth,   \* ghost: braces that the tokens consumed so far left open
  lost     \* ghost: braces were skipped or given up without being counted

vars == <<current, stack, saw, failed, result, nest, depth, lost>>

Sections == {"xkb_keycodes", "xkb_types", "xkb_compat", "xkb_symbols"}
Words == Sections \cup
  {"xkb_keymap", "xkb_geometry", "minimum", "alias", "indicator", "virtual",
   "virtual_modifiers", "type", "modifiers", "map", "level_name", "preserve", "none",
   "Level1", "interpret", "repeat", "AnyOf", "keysym", "replace", "key", "name",
   "group_offset", "modifier_map", "include", "symbols", "Group1", "word"}
Marks == {"lbrace", "rbrace", "[", "]", "(", ")", "semicolon", "comma", "=", "+", ".", "!"}
\* "0x" and "089" are numbers to the lexer and not to parseNumber.
Kinds == Words \cup Marks \cup {"EOF", "error", "string", "number", "badnumber", "keycode"}

ASSUME ParserAssumption == MaxNest \in Nat /\ "EOF" \in Tokens /\ Tokens \subseteq Kinds

Ends == {"rbrace", "EOF"}
\* match: taken if it is there.
Optional == [s \in {"?string", "?semicolon", "?separator", "?=", "?]", "?+", "?ident"} |->
  CASE s = "?string" -> {"string"} [] s = "?semicolon" -> {"semicolon"}
    [] s = "?separator" -> {"comma", "semicolon"} [] s = "?=" -> {"="} [] s = "?]" -> {"]"} [] s = "?+" -> {"+"} [] OTHER -> Words]

\* The loops that catch the error of a statement.
Catching == {"Sections", "Keycodes", "Types", "TypeBody", "Compat", "IndicatorBody", "Symbols"}

-----------------------------------------------------------------------------
(* What each function goes on to expect when it meets token t: an error,   *)
(* once t is consumed or before.                                           *)

Error == <<"Error">>
ErrorAt(t) == IF t \in Words THEN <<t, "Error">> ELSE Error
\* A word that the function has no rule for is skipped to the ; or }.
SkipFrom(t) == IF t \in Words THEN <<t, "Skip">> ELSE Error

\* The rounds of a loop over statements.
Rounds(t, statement, loop) == IF t \in Ends THEN <<>> ELSE statement \o <<"?semicolon", loop>>

\* parseSection, and the head of skipSection.
Section(t) ==
  CASE t \in saw -> ErrorAt(t)
    [] t = "xkb_keycodes" -> <<t, "?string", "lbrace", "Keycodes", "rbrace", "semicolon">>
    [] t = "xkb_types" -> <<t, "?string", "lbrace", "Types", "rbrace", "semicolon">>
    [] t = "xkb_compat" -> <<t, "?string", "lbrace", "Compat", "rbrace", "semicolon">>
    [] t = "xkb_symbols" -> <<t, "?string", "lbrace", "Symbols", "rbrace", "semicolon">>
    [] t = "xkb_geometry" -> <<t, "?string", "lbrace", "SkipSection", "semicolon">>
    [] OTHER -> ErrorAt(t)

KeycodesStatement(t) ==
  CASE t = "keycode" -> <<t, "=", "number">>
    [] t = "minimum" -> <<t, "=", "number">> \* and maximum
    [] t = "alias" -> <<t, "keycode", "=", "keycode">>
    [] t = "indicator" -> <<t, "number", "=", "string">>
    [] t = "virtual" -> <<t, "Skip">>
    [] OTHER -> ErrorAt(t)

TypesStatement(t) ==
  CASE t = "virtual_modifiers" -> <<t, "VirtualModifiers">>
    [] t = "type" -> <<t, "string", "lbrace", "TypeBody", "rbrace">>
    [] OTHER -> ErrorAt(t)

\* parseVirtualModifiers: name, name = mask, ...
VirtualModifiers == <<"ident", "ModValue", "MoreVirtual">>
ModValue(t) == IF t = "=" THEN <<t, "MaskValue">> ELSE <<>>
MaskValue(t) == IF t \in Words \cup {"number"} THEN <<t>> ELSE Error
MoreVirtual(t) == IF t = "comma" THEN <<t, "VirtualModifiers">> ELSE <<>>

TypeStatement(t) ==
  CASE t = "modifiers" -> <<t, "=", "ModifierMask">>
    [] t = "map" -> <<t, "[", "ModifierMask", "]", "=", "LevelIndex">>
    [] t = "level_name" -> <<t, "[", "LevelIndex", "]", "=", "string">>
    [] t = "preserve" -> <<t, "Skip">>
    [] OTHER -> ErrorAt(t)

ModifierMask(t) ==
  IF t = "none" THEN <<t>> ELSE IF t \in Words THEN <<t, "MoreMods">> ELSE Error
MoreMods(t) == IF t = "+" THEN <<t, "ModifierMask">> ELSE <<>>

\* A number, or a word with one at its end (parseLevelName, parseGroupIdent).
Index(t, word) == IF t \in {"number", word} THEN <<t>> ELSE ErrorAt(t)

CompatStatement(t) ==
  CASE t = "virtual_modifiers" -> <<t, "VirtualModifiers">>
    [] t = "interpret" -> <<t, "Interpret">>
    [] t = "indicator" -> <<t, "string", "lbrace", "IndicatorBody", "rbrace">>
    [] OTHER -> SkipFrom(t)

InterpretDefault(t) ==
  IF t = "repeat" THEN <<t, "=", "ident">> ELSE IF t \in Words THEN <<t, "=", "Skip">> ELSE Error

\* parseInterpret; only "keysym" is the name of one.
Interpret(t) ==
  CASE t = "." -> <<t, "InterpretDefault">>
    [] t \in {"number", "keysym"} -> <<t, "Condition", "InterpretBlock">>
    [] t = "badnumber" -> <<t, "Error">>
    [] t \in Words \ {"keysym"} -> <<t, "SkipStatement">>
    [] OTHER -> Error
Condition(t) == IF t = "+" THEN <<t, "ModMatch">> ELSE <<>>
InterpretBlock(t) == IF t = "lbrace" THEN <<t, "InterpretBody", "rbrace">> ELSE <<"Skip">>
InterpretBody(t) ==
  Rounds(t, CASE t = "repeat" -> <<t, "RepeatValue">>
              [] t \in Words \ {"repeat"} -> <<t, "Skip">>
              [] OTHER -> <<"Skip">>, "InterpretBody")
RepeatValue(t) == IF t = "=" THEN <<t, "?ident">> ELSE <<"Skip">>

\* parseModMatch.  The loop over the modifiers moves on at words and plus
\* signs only: another token comes back for ever.
ModMatch(t) ==
  IF t = "AnyOf" THEN <<t, "ModList">> ELSE IF t \in Words THEN <<t>> ELSE <<>>
ModList(t) == IF t = "(" THEN <<t, "Mods">> ELSE <<>>
\* A fault of Mods: the end of the text does not end the list.
ModsForever(t) ==
  CASE t = ")" -> <<t>>
    [] t \in Words -> <<t, "?+", "Mods">>
    [] t = "+" -> <<t, "Mods">>
    [] OTHER -> <<"Mods">>

Mods(t) ==
  CASE t = ")" -> <<t>>
    [] t = "EOF" -> <<>>
    [] t \in Words -> <<t, "?+", "Mods">>
    [] t = "+" -> <<t, "Mods">>
    [] OTHER -> <<"Mods">>

IndicatorStatement(t) ==
  CASE t = "!" -> <<t, "Skip">>
    [] t = "modifiers" -> <<t, "=", "ModifierMask">>
    [] OTHER -> SkipFrom(t)

SymbolsStatement(t) ==
  CASE t = "replace" -> <<t, "ReplaceKey">> \* and override and augment
    [] t = "key" -> <<t, "Key">>
    [] t = "name" -> <<t, "[", "GroupIndex", "]", "=", "string">>
    [] t = "group_offset" -> <<t, "=", "number">>
    [] t = "virtual_modifiers" -> <<t, "VirtualModifiers">>
    [] t = "modifier_map" -> <<t, "ident", "lbrace", "MappedKeys", "rbrace">>
    [] t = "include" -> <<t, "?string">>
    [] OTHER -> IF t \in Words THEN <<t, "SkipStatement">> ELSE Error
KeyDefinition == <<"keycode", "lbrace", "KeyBody", "rbrace">>
ReplaceKey(t) == IF t = "key" THEN <<t>> \o KeyDefinition ELSE <<"SkipStatement">>
Key(t) == IF t = "." THEN <<"SkipStatement">> ELSE KeyDefinition

\* parseKeyBody: elements with a comma or semicolon between them, or none.
KeyBody(t) ==
  IF t \in Ends THEN <<>>
  ELSE (CASE t = "[" -> <<t, "SymbolList", "]">>
          [] t = "type" -> <<t, "TypeGroup", "?=", "string">>
          [] t = "symbols" -> <<t, "[", "GroupIndex", "]", "=", "[", "SymbolList", "]">>
          [] t = "repeat" -> <<t, "=", "ident">>
          [] OTHER -> SkipFrom(t)) \o <<"?separator", "KeyBody">>
TypeGroup(t) == IF t = "[" THEN <<t, "GroupIndex", "?]">> ELSE <<>>

\* parseSymbolList and parseKeysym.
SymbolList(t) ==
  CASE t \in {"]", "EOF"} -> <<>>
    [] t \in Words \cup {"number"} -> <<t, "MoreSymbols">>
    [] t = "badnumber" -> <<t, "Error">>
    [] OTHER -> Error
MoreSymbols(t) == IF t = "comma" THEN <<t, "SymbolList">> ELSE <<>>

\* parseModifierMap.
MappedKeys(t) ==
  IF t \in Ends THEN <<>>
  ELSE (IF t \in Words \cup {"keycode"} THEN <<t>> ELSE <<>>) \o <<"MoreMapped">>
MoreMapped(t) == IF t = "comma" THEN <<t, "MappedKeys">> ELSE <<>>

Calls == {"Sections", "Keycodes", "Types", "TypeBody", "Compat", "IndicatorBody", "Symbols",
          "VirtualModifiers", "ModValue", "MaskValue", "MoreVirtual", "ModifierMask", "MoreMods",
          "LevelIndex", "GroupIndex", "Interpret", "InterpretDefault", "Condition", "InterpretBlock",
          "InterpretBody", "RepeatValue", "ModMatch", "ModList", "Mods", "ReplaceKey", "Key",
          "KeyBody", "TypeGroup", "SymbolList", "MoreSymbols", "MappedKeys", "MoreMapped"}

Production(s, t) ==
  CASE s = "Sections" -> IF t \in Ends THEN <<>> ELSE Section(t) \o <<s>>
    [] s = "Keycodes" -> Rounds(t, KeycodesStatement(t), s)
    [] s = "Types" -> Rounds(t, TypesStatement(t), s)
    [] s = "TypeBody" -> Rounds(t, TypeStatement(t), s)
    [] s = "Compat" -> Rounds(t, CompatStatement(t), s)
    [] s = "IndicatorBody" -> Rounds(t, IndicatorStatement(t), s)
    [] s = "Symbols" -> Rounds(t, SymbolsStatement(t), s)
    [] s = "VirtualModifiers" -> VirtualModifiers
    [] s = "ModValue" -> ModValue(t)
    [] s = "MaskValue" -> MaskValue(t)
    [] s = "MoreVirtual" -> MoreVirtual(t)
    [] s = "ModifierMask" -> ModifierMask(t)
    [] s = "MoreMods" -> MoreMods(t)
    [] s = "LevelIndex" -> Index(t, "Level1")
    [] s = "GroupIndex" -> Index(t, "Group1")
    [] s = "Interpret" -> Interpret(t)
    [] s = "InterpretDefault" -> InterpretDefault(t)
    [] s = "Condition" -> Condition(t)
    [] s = "InterpretBlock" -> InterpretBlock(t)
    [] s = "InterpretBody" -> InterpretBody(t)
    [] s = "RepeatValue" -> RepeatValue(t)
    [] s = "ModMatch" -> ModMatch(t)
    [] s = "ModList" -> ModList(t)
    [] s = "Mods" -> Mods(t)
    [] s = "ReplaceKey" -> ReplaceKey(t)
    [] s = "Key" -> Key(t)
    [] s = "KeyBody" -> KeyBody(t)
    [] s = "TypeGroup" -> TypeGroup(t)
    [] s = "SymbolList" -> SymbolList(t)
    [] s = "MoreSymbols" -> MoreSymbols(t)
    [] s = "MappedKeys" -> MappedKeys(t)
    [] OTHER -> MoreMapped(t)

-----------------------------------------------------------------------------
(* The steps.                                                               *)

Init ==
  /\ current \in Tokens
  /\ stack = <<"xkb_keymap", "lbrace", "Sections", "rbrace", "?semicolon">>
  /\ saw = {}
  /\ failed = FALSE
  /\ result = "none"
  /\ nest = 0
  /\ depth = 0
  /\ lost = FALSE

Running(s) == result = "none" /\ stack # <<>> /\ Head(stack) \in s
Brace(t) == CASE t = "lbrace" -> 1 [] t = "rbrace" -> -1 [] OTHER -> 0

\* advance: the next token is any of the text's; after the end it is the end.
Advance ==
  /\ current' \in IF current = "EOF" THEN {"EOF"}
                  ELSE {t \in Tokens : nest' + Brace(t) \in -MaxNest..MaxNest}
  /\ depth' = IF lost' THEN 0 ELSE depth + Brace(current)

\* What is to come of the brackets of s: braces that it will close, less
\* those it will open.
Open(s) == Cardinality({i \in DOMAIN s : s[i] \in {"rbrace", "SkipSection"}})
           - Cardinality({i \in DOMAIN s : s[i] = "lbrace"})

\* The catching loops that have begun; the others still have their brace to come.
Begun(s) == {i \in DOMAIN s : s[i] \in Catching /\ (i > 1 => s[i - 1] # "lbrace")}

\* An error is returned to the innermost loop that catches it (addError, then
\* skipToSemicolonOrBrace), or out of Parse.
Fail(s) ==
  LET rest == SubSeq(s, Min(Begun(s)), Len(s))
  IN IF Begun(s) = {}
     THEN result' = "nil" /\ stack' = <<>> /\ UNCHANGED <<current, saw, failed, nest, depth, lost>>
     ELSE /\ failed' = TRUE
          /\ stack' = <<"Skip", "?semicolon">> \o rest
          /\ lost' = (lost \/ Open(s) # Open(rest))
          /\ depth' = IF lost' THEN 0 ELSE depth
          /\ UNCHANGED <<current, saw, result, nest>>

\* expect, and the words that a statement begins with.
Expect ==
  /\ Running(Kinds \cup {"ident"})
  /\ IF current = Head(stack) \/ (Head(stack) = "ident" /\ current \in Words)
     THEN stack' = Tail(stack) /\ UNCHANGED <<saw, failed, result, nest, lost>> /\ Advance
     ELSE Fail(stack)

ReturnError == Running({"Error"}) /\ Fail(Tail(stack))

\* match, and calls of expect whose error is thrown away.
Match ==
  /\ Running(DOMAIN Optional)
  /\ stack' = Tail(stack)
  /\ UNCHANGED <<saw, failed, result, nest, lost>>
  /\ IF current \in Optional[Head(stack)] THEN Advance ELSE UNCHANGED <<current, depth>>

Call ==
  /\ Running(Calls)
  /\ stack' = Production(Head(stack), current) \o Tail(stack)
  /\ saw' = IF Head(stack) = "Sections" THEN saw \cup ({current} \cap Sections) ELSE saw
  /\ UNCHANGED <<current, failed, result, nest, depth, lost>>

\* A fault of SkipToSemicolonOrBrace: the closing brace is skipped too.
SkipPastBrace ==
  /\ Running({"Skip"})
  /\ UNCHANGED <<saw, failed, result, nest>>
  /\ IF current \in {"semicolon", "EOF"} THEN stack' = Tail(stack) /\ UNCHANGED <<current, depth, lost>>
     ELSE /\ lost' = (lost \/ current = "lbrace")
          /\ UNCHANGED stack
          /\ Advance

\* A round of skipToSemicolonOrBrace, which does not count what it opens.
SkipToSemicolonOrBrace ==
  /\ Running({"Skip"})
  /\ UNCHANGED <<saw, failed, result, nest>>
  /\ IF current \in {"semicolon", "rbrace", "EOF"}
     THEN stack' = Tail(stack) /\ UNCHANGED <<current, depth, lost>>
     ELSE /\ lost' = (lost \/ current = "lbrace")
          /\ UNCHANGED stack
          /\ Advance

\* A round of skipStatementWithBraces, up to a semicolon outside of braces.
SkipStatementWithBraces ==
  /\ Running({"SkipStatement"})
  /\ UNCHANGED <<saw, failed, result>>
  /\ IF current = "EOF" \/ (current = "semicolon" /\ nest <= 0)
     THEN /\ stack' = Tail(stack)
          /\ nest' = 0
          /\ lost' = (lost \/ nest # 0)
          /\ depth' = IF lost' THEN 0 ELSE depth
          /\ UNCHANGED current
     ELSE nest' = nest + Brace(current) /\ UNCHANGED <<stack, lost>> /\ Advance

\* A fault of SkipSection: the count begins at 0, so the first brace that
\* closes another one ends the section.
SkipSectionEarly ==
  /\ Running({"SkipSection"})
  /\ UNCHANGED <<saw, failed, result, lost>>
  /\ IF current = "EOF" \/ (current = "rbrace" /\ nest <= 1)
     THEN stack' = Tail(stack) /\ nest' = 0 /\ Advance
     ELSE nest' = nest + Brace(current) /\ UNCHANGED stack /\ Advance

\* A round of skipSection, up to the brace that closes it; nest is one less
\* than depth there.
SkipSection ==
  /\ Running({"SkipSection"})
  /\ UNCHANGED <<saw, failed, result, lost>>
  /\ IF current = "EOF" \/ (current = "rbrace" /\ nest = 0)
     THEN stack' = Tail(stack) /\ nest' = 0 /\ Advance
     ELSE nest' = nest + Brace(current) /\ UNCHANGED stack /\ Advance

\* The end of Parse: validateKeymap misses sections.
Finish ==
  /\ result = "none" /\ stack = <<>>
  /\ result' = "keymap"
  /\ failed' = (failed \/ saw # Sections)
  /\ UNCHANGED <<current, stack, saw, nest, depth, lost>>

Next ==
  \/ Expect \/ ReturnError \/ Match \/ Call
  \/ SkipToSemicolonOrBrace \/ SkipStatementWithBraces \/ SkipSection
  \/ Finish

Spec == Init /\ [][Next]_vars

\* The parser waits for nothing, and a text has an end.
FairSpec == Spec /\ WF_vars(Next) /\ SF_vars(current # "EOF" /\ current' = "EOF" /\ Next)

-----------------------------------------------------------------------------
(* Properties.                                                              *)

\* What the parser has open is made of its functions, within the bounds.
TypeOK ==
  /\ current \in Tokens
  /\ stack \in Seq(Kinds \cup Calls \cup DOMAIN Optional
                   \cup {"ident", "Error", "Skip", "SkipStatement", "SkipSection"})
  /\ saw \subseteq Sections
  /\ failed \in BOOLEAN /\ lost \in BOOLEAN
  /\ result \in {"none", "keymap", "nil"}
  /\ nest \in -MaxNest - 1..MaxNest /\ depth \in Int

\* Whatever errors it has met, until the text ends the parser is in it where
\* it believes to be: it still has to close the braces that the text has open, and no
\* other.  It loses its place in three ways only: an error between the braces
\* of a statement, the skip to a semicolon or closing brace over an opening
\* one, and a skipped statement that ends within or beyond its braces.
KnowsItsPlace ==
  result = "none" /\ current # "EOF" /\ ~lost => depth = Open(stack) + nest

\* A text that is taken without an error and without losing the place has all
\* four sections, each closed, and ends where its keymap ends: none of it
\* was cut short, however much was skipped.
AcceptedIsWhole ==
  result = "keymap" /\ ~failed /\ ~lost => depth = 0 /\ saw = Sections

\* The one loop that does not move on at every token.
Spinning ==
  Running({"Mods"}) /\ current \notin Words \cup {"+", ")", "EOF"}

\* Parse returns, whatever the text and wherever it ends: no loop waits for
\* a token that the skip before it does not consume.  The exception is a
\* token that parseModMatch does not know.
ParseReturns == <>(result # "none" \/ Spinning)
=============================================================================

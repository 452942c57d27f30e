------------------------------- MODULE Rules -------------------------------
(***************************************************************************)
(* How rules, model, layouts, variants and options become the components   *)
(* of a keymap (compileKeymap in rules.go, up to the text it hands to the  *)
(* loader of module ComponentLoad): the rules file is read line by line,   *)
(* then each of its rules is matched and substituted in turn.              *)
(*                                                                         *)
(* A value is a sequence of tokens: words, signs such as "+" and ":2", and *)
(* the pieces placeholders are made of, %l[2] being <<"%l", "[2]">> and    *)
(* %(v[2]) being <<"%(", "v", "[2]", ")">>.  A list separated by commas is *)
(* a sequence, and the empty string is the list of one empty word.         *)
(***************************************************************************)
EXTENDS Integers, Sequences, SequencesExt

CONSTANTS
  Calls,      \* of compileKeymap: names, paths and disk, see the variables
  LayoutTexts \* rules files that have a rule for the symbols of each layout

\* A line is a record whose field "is" says what it is:
\*   variable    ! $name = values            name, values
\*   header      ! inputs = component        inputs, component
\*   bare        ! and no equals sign
\*   odd         ! with a dollar sign and =, whose first word is no variable
\*   rule        patterns = value            patterns, value
\*   other       blank, a comment, or no equals sign
\*   long        too long for bufio.Scanner
\* The name of a variable begins with a dollar sign, and patterns are words.
ASSUME RulesAssumption ==
  \A call \in Calls :
    /\ call.paths \in Seq(Range(call.paths))
    /\ \A f \in DOMAIN call.disk :
         /\ call.disk[f] \in Seq(Range(call.disk[f]))
         /\ \A line \in Range(call.disk[f]) :
              /\ line.is \in {"variable", "header", "bare", "odd", "rule", "other", "long"}
              /\ line.is = "variable" => line.name # "*"
              /\ line.is = "header" => line.inputs \in Seq(Range(line.inputs))
              /\ line.is = "rule" => /\ line.patterns \in Seq(Range(line.patterns))
                                    /\ "" \notin Range(line.patterns)

VARIABLES
  names,      \* the caller's RuleNames, which the defaults are written into:
              \* rules, model, layouts, variants, options
  paths,      \* Context.IncludePaths
  disk,       \* the lines of the file <<directory, name>>
  pc,         \* "find", "read", "resolve", "done" or "failed"
  text,       \* the lines of the rules file
  at,         \* the next line, then the next rule
  header,     \* currentHeader and currentComponent
  variables,  \* rulesFile.variables
  rules,      \* rulesFile.rules
  applied,    \* the values a component already has
  result      \* kcCGST

vars == <<names, paths, disk, pc, text, at, header, variables, rules, applied, result>>

Components == {"keycodes", "types", "compat", "symbols", "geometry"}
NoHeader == [inputs |-> <<>>, component |-> ""]

Init ==
  /\ \E call \in Calls : names = call.names /\ paths = call.paths /\ disk = call.disk
  /\ pc = "find"
  /\ text = <<>>
  /\ at = 1
  /\ header = NoHeader
  /\ variables = [v \in {} |-> {}]
  /\ rules = <<>>
  /\ applied = [c \in Components |-> {}]
  /\ result = [c \in Components |-> <<>>]

-----------------------------------------------------------------------------
(* The names asked for, and the file.                                       *)

Or(word, default) == IF word = "" THEN default ELSE word
WithDefaults(n) ==
  [n EXCEPT !.rules = Or(@, "evdev"), !.model = Or(@, "pc105"),
            !.layouts = IF @ = <<"">> THEN <<"us">> ELSE @]

\* findRulesFile: the paths that have the file, of which the first counts.
Homes(name) == {i \in DOMAIN paths : <<paths[i], name>> \in DOMAIN disk}

FindRules ==
  /\ pc = "find"
  /\ names' = WithDefaults(names)
  /\ LET homes == Homes(names'.rules) IN
     \/ /\ homes = {}
        /\ pc' = "failed"
        /\ UNCHANGED text
     \/ /\ homes # {}
        /\ text' = disk[<<paths[Min(homes)], names'.rules>>]
        /\ pc' = "read"
  /\ UNCHANGED <<paths, disk, at, header, variables, rules, applied, result>>

-----------------------------------------------------------------------------
(* parseRulesFile.                                                          *)

\* parseRuleBody: the rule's pattern for each input, the last one if there are
\* several.  A word the code does not know is passed over, and so are patterns
\* without an input.
Inputs == {"model", "layout[1]", "layout[2]", "layout[3]", "layout[4]",
           "variant[1]", "variant[2]", "variant[3]", "variant[4]", "option"}
Input(word) == CASE word = "layout" -> "layout[1]"
                 [] word = "variant" -> "variant[1]"
                 [] OTHER -> word
PatternsOf(inputs, patterns) ==
  [w \in Inputs |->
     LET places == {k \in DOMAIN inputs \cap DOMAIN patterns : Input(inputs[k]) = w}
     IN IF places = {} THEN "" ELSE patterns[Max(places)]]

RuleOf(line) ==
  [patterns |-> PatternsOf(header.inputs, line.patterns),
   component |-> header.component, value |-> line.value]

\* A fault of HeaderAfter: a line without an equals sign leaves the header.
HeaderAfterKept(line) ==
  IF line.is = "header" THEN [inputs |-> line.inputs, component |-> line.component] ELSE header

\* The header that rules stand under after a line.
HeaderAfter(line) ==
  CASE line.is = "header" -> [inputs |-> line.inputs, component |-> line.component]
    [] line.is = "bare" -> NoHeader
    [] OTHER -> header

ReadLine ==
  LET line == text[at] IN
  /\ pc = "read"
  /\ at <= Len(text)
  /\ line.is # "long"
  /\ header' = HeaderAfter(line)
  /\ variables' = IF line.is = "variable"
                  THEN [v \in DOMAIN variables \cup {line.name} |->
                          IF v = line.name THEN Range(line.values) ELSE variables[v]]
                  ELSE variables
  /\ rules' = IF line.is = "rule" /\ header.inputs # <<>> /\ header.component # ""
              THEN Append(rules, RuleOf(line)) ELSE rules
  /\ at' = at + 1
  /\ UNCHANGED <<names, paths, disk, pc, text, applied, result>>

LongLine ==
  /\ pc = "read"
  /\ at <= Len(text)
  /\ text[at].is = "long"
  /\ pc' = "failed"
  /\ UNCHANGED <<names, paths, disk, text, at, header, variables, rules, applied, result>>

EndOfFile ==
  /\ pc = "read"
  /\ at > Len(text)
  /\ pc' = "resolve"
  /\ at' = 1
  /\ UNCHANGED <<names, paths, disk, text, header, variables, rules, applied, result>>

-----------------------------------------------------------------------------
(* Matching: ruleMatches, patternMatches, optionMatches, getAt.             *)

GetAt(list, i) == IF i \in DOMAIN list THEN list[i] ELSE ""
Layout(i) == GetAt(names.layouts, i)
Variant(i) == GetAt(names.variants, i)

PatternMatches(pattern, value) ==
  \/ pattern = "*"
  \/ IF pattern \in DOMAIN variables THEN value \in variables[pattern] ELSE pattern = value

\* A pattern for something that was not asked for does not match, even "*".
MatchesGiven(pattern, value) ==
  pattern # "" => value # "" /\ PatternMatches(pattern, value)

RuleMatches(p) ==
  /\ p["model"] # "" => PatternMatches(p["model"], names.model)
  /\ MatchesGiven(p["layout[1]"], Layout(1)) /\ MatchesGiven(p["layout[2]"], Layout(2))
  /\ MatchesGiven(p["layout[3]"], Layout(3)) /\ MatchesGiven(p["layout[4]"], Layout(4))
  /\ MatchesGiven(p["variant[1]"], Variant(1)) /\ MatchesGiven(p["variant[2]"], Variant(2))
  /\ MatchesGiven(p["variant[3]"], Variant(3)) /\ MatchesGiven(p["variant[4]"], Variant(4))
  /\ p["option"] # "" => /\ names.options # <<"">>
                         /\ \E o \in Range(names.options) : PatternMatches(p["option"], o)

-----------------------------------------------------------------------------
(* Substitution: substituteValue.                                           *)

\* strings.ReplaceAll, of something that does not overlap itself.
Replaced(value, old, new) ==
  LET starts == {i \in 1..Len(value) - Len(old) + 1 : SubSeq(value, i, i + Len(old) - 1) = old}
      inside == UNION {i + 1 .. i + Len(old) - 1 : i \in starts}
  IN FlattenSeq([i \in DOMAIN value |->
       IF i \in starts THEN new ELSE IF i \in inside THEN <<>> ELSE <<value[i]>>])

\* A step of the substitution: what is replaced, and by what.
Swap(old, new) == [old |-> old, new |-> new]
Word(s) == IF s = "" THEN <<>> ELSE <<s>>
Index(i) == CASE i = 1 -> "[1]" [] i = 2 -> "[2]" [] i = 3 -> "[3]" [] i = 4 -> "[4]"
Group(i) == CASE i = 2 -> ":2" [] i = 3 -> ":3" [] i = 4 -> ":4"

\* Layouts other than the first are given their group at once; a placeholder
\* for one that was not asked for stays.
LaterLayout(i) ==
  IF Layout(i) = "" THEN <<>> ELSE <<Swap(<<"%l", Index(i)>>, <<Layout(i), Group(i)>>)>>

VariantSwaps(v, index) ==
  <<Swap(<<"%(", "v">> \o index \o <<")">>, IF v = "" THEN <<>> ELSE <<"(", v, ")">>),
    Swap(<<"%v">> \o index, Word(v))>>

Commas(list) == FlattenSeq([i \in DOMAIN list |-> IF i = 1 THEN Word(list[i]) ELSE <<",">> \o Word(list[i])])

\* A fault of LayoutSwaps: the plain placeholder is replaced first.
LayoutSwapsPlainFirst ==
  <<Swap(<<"%l">>, Word(Layout(1)))>> \o LaterLayout(4) \o LaterLayout(3) \o LaterLayout(2)

LayoutSwaps ==
  LaterLayout(4) \o LaterLayout(3) \o LaterLayout(2) \o
  <<Swap(<<"%l", "[1]">>, Word(Layout(1))), Swap(<<"%l">>, Word(Layout(1)))>>

Swaps ==
  <<Swap(<<"%m">>, Word(names.model))>> \o LayoutSwaps \o
  VariantSwaps(Variant(4), <<"[4]">>) \o VariantSwaps(Variant(3), <<"[3]">>) \o
  VariantSwaps(Variant(2), <<"[2]">>) \o VariantSwaps(Variant(1), <<"[1]">>) \o
  VariantSwaps(Variant(1), <<>>) \o
  <<Swap(<<"%o">>, Commas(names.options)), Swap(<<"(", ")">>, <<>>), Swap(<<"[1]">>, <<>>)>>

AllReplaced(value, swaps) == FoldLeft(LAMBDA v, s : Replaced(v, s.old, s.new), value, swaps)
Substituted(value) == AllReplaced(value, Swaps)

-----------------------------------------------------------------------------
(* resolve.                                                                 *)

Trimmed(value) ==
  LET kept == {i \in DOMAIN value : value[i] # "+"}
  IN IF kept = {} THEN <<>> ELSE SubSeq(value, Min(kept), Max(kept))

Joined(parts, value) == IF parts = <<>> THEN value ELSE parts \o <<"+">> \o value

ComponentOf(word) == IF word = "compatibility" THEN "compat" ELSE word

\* The value of a rule is new for its component.
Adds(c, value) == value \notin applied[c]

ApplyRule ==
  LET rule == rules[at]
      value == Substituted(rule.value)
      new == Trimmed(value)
      c == ComponentOf(rule.component)
  IN /\ pc = "resolve"
     /\ at <= Len(rules)
     /\ at' = at + 1
     /\ IF RuleMatches(rule.patterns) /\ value \notin {<<>>, <<"+">>} /\ c \in Components /\ Adds(c, new)
        THEN /\ applied' = [applied EXCEPT ![c] = @ \cup {new}]
             /\ result' = [result EXCEPT ![c] = Joined(@, new)]
        ELSE UNCHANGED <<applied, result>>
     /\ UNCHANGED <<names, paths, disk, pc, text, header, variables, rules>>

EndOfRules ==
  /\ pc = "resolve"
  /\ at > Len(rules)
  /\ pc' = "done"
  /\ UNCHANGED <<names, paths, disk, text, at, header, variables, rules, applied, result>>

Next == FindRules \/ ReadLine \/ LongLine \/ EndOfFile \/ ApplyRule \/ EndOfRules

Spec == Init /\ [][Next]_vars

-----------------------------------------------------------------------------
(* Properties.                                                              *)

\* What the loader makes of a value (loadComponent and the head of
\* loadComponentPartWithDepth): parts between plus signs, of which each
\* ":n" is taken out, the last one telling the group, and then the section
\* in parentheses.
Groups == {":1", ":2", ":3", ":4"}
GroupNumber(sign) == CASE sign = ":1" -> 0 [] sign = ":2" -> 1 [] sign = ":3" -> 2 [] sign = ":4" -> 3
Part(tokens) ==
  LET signs == SelectSeq(tokens, LAMBDA t : t \in Groups)
      rest == SelectSeq(tokens, LAMBDA t : t \notin Groups)
      open == SelectInSeq(rest, LAMBDA t : t = "(")
  IN [file |-> IF open = 0 THEN rest ELSE SubSeq(rest, 1, open - 1),
      section |-> IF open = 0 THEN <<>> ELSE SelectSeq(SubSeq(rest, open + 1, Len(rest)), LAMBDA t : t # ")"),
      group |-> IF signs = <<>> THEN 0 ELSE GroupNumber(Last(signs))]
PartsOf(value) ==
  FoldLeft(LAMBDA ps, t : IF t = "+" THEN Append(ps, <<>>) ELSE Append(Front(ps), Append(Last(ps), t)),
           <<<<>>>>, value)
Loaded(value) ==
  LET parts == SelectSeq(PartsOf(value), LAMBDA p : p # <<>>)
  IN [i \in DOMAIN parts |-> Part(parts[i])]

\* With rules that have a line for each layout, every layout that is asked
\* for, whichever others are left out and whatever variants they have, is
\* loaded once, with its own variant as the section and into its own group,
\* although "layout" and "layout[1]" both match and the group is written by
\* the rule and again by the substitution.
LayoutsInTheirGroups ==
  pc = "done" /\ text \in LayoutTexts =>
    LET wanted == SelectSeq(<<1, 2, 3, 4>>, LAMBDA i : Layout(i) # "")
    IN SelectSeq(Loaded(result["symbols"]), LAMBDA p : p.file # <<"pc">>)
         = [k \in DOMAIN wanted |->
              [file |-> <<Layout(wanted[k])>>, section |-> Word(Variant(wanted[k])), group |-> wanted[k] - 1]]

\* The meaning of a rules file without reading it in order: a rule stands
\* under the nearest line above it that begins with an exclamation mark and
\* defines no variable; it applies if each of its patterns fits what was
\* asked for, and only the last one for the same input counts; a variable is
\* what its last line says, wherever that is.
HeadersAbove(i) == {j \in 1..i - 1 : text[j].is \in {"header", "bare"}}
Heading(i) == text[Max(HeadersAbove(i))]
IsRule(i) ==
  /\ text[i].is = "rule"
  /\ HeadersAbove(i) # {}
  /\ Heading(i).is = "header" /\ Heading(i).inputs # <<>> /\ Heading(i).component # ""

LastDefinition(v) == text[Max({j \in DOMAIN text : text[j].is = "variable" /\ text[j].name = v})]
Fits(pattern, value) ==
  IF \E j \in DOMAIN text : text[j].is = "variable" /\ text[j].name = pattern
  THEN value \in Range(LastDefinition(pattern).values)
  ELSE pattern \in {"*", value}
Given(word) ==
  CASE word = "model" -> {names.model}
    [] word = "option" -> IF names.options = <<"">> THEN {} ELSE Range(names.options)
    [] word \in {"layout", "layout[1]"} -> {Layout(1)} \ {""}
    [] word = "layout[2]" -> {Layout(2)} \ {""}
    [] word = "layout[3]" -> {Layout(3)} \ {""}
    [] word = "layout[4]" -> {Layout(4)} \ {""}
    [] word \in {"variant", "variant[1]"} -> {Variant(1)} \ {""}
    [] word = "variant[2]" -> {Variant(2)} \ {""}
    [] word = "variant[3]" -> {Variant(3)} \ {""}
    [] word = "variant[4]" -> {Variant(4)} \ {""}
Counts(i, k) ==
  LET word == Heading(i).inputs IN
  /\ Input(word[k]) \in Inputs
  /\ \A l \in DOMAIN word \cap DOMAIN text[i].patterns : Input(word[l]) = Input(word[k]) => l <= k
Applies(i) ==
  /\ IsRule(i)
  /\ \A k \in DOMAIN Heading(i).inputs \cap DOMAIN text[i].patterns :
       Counts(i, k) => \E value \in Given(Heading(i).inputs[k]) : Fits(text[i].patterns[k], value)

ValueAt(i) == Trimmed(Substituted(text[i].value))
Gives(i, c) ==
  /\ Applies(i)
  /\ ComponentOf(Heading(i).component) = c
  /\ Substituted(text[i].value) \notin {<<>>, <<"+">>}
GivesFirst(i, c) == Gives(i, c) /\ ~\E j \in 1..i - 1 : Gives(j, c) /\ ValueAt(j) = ValueAt(i)
JoinedTo(last, values) ==
  LET upTo[i \in 0..last] ==
        IF i = 0 THEN <<>>
        ELSE IF i \in DOMAIN values THEN Joined(upTo[i - 1], values[i]) ELSE upTo[i - 1]
  IN upTo[last]
Meaning(c) == JoinedTo(Len(text), [i \in {j \in DOMAIN text : GivesFirst(j, c)} |-> ValueAt(i)])

\* The components are what the text of the rules says, in the order of its
\* lines and each part once, however variables, headers, lines that are
\* neither and rules with too few or too many patterns follow each other.
ResolvedAsWritten == pc = "done" => \A c \in Components : result[c] = Meaning(c)
=============================================================================

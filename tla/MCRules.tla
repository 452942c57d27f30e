------------------------------ MODULE MCRules ------------------------------
(***************************************************************************)
(* Rules for TLC: rules files in the manner of evdev with up to four       *)
(* layouts, and every file of up to four lines from a small choice.        *)
(***************************************************************************)
EXTENDS Rules

Header(inputs, component) == [is |-> "header", inputs |-> inputs, component |-> component]
Rule(patterns, value) == [is |-> "rule", patterns |-> patterns, value |-> value]
Variable(name, values) == [is |-> "variable", name |-> name, values |-> values]
Line(is) == [is |-> is]

PerLayout(i) == <<"+", "%l", Index(i), "%(", "v", Index(i), ")">>
Evdev ==
  <<Header(<<"model">>, "keycodes"), Rule(<<"*">>, <<"evdev">>),
    Header(<<"layout">>, "symbols"), Rule(<<"*">>, <<"pc", "+", "%l", "%(", "v", ")">>),
    Header(<<"layout[1]">>, "symbols"), Rule(<<"*">>, <<"pc">> \o PerLayout(1)),
    Header(<<"layout[2]">>, "symbols"), Rule(<<"*">>, PerLayout(2) \o <<":2">>),
    Header(<<"layout[3]">>, "symbols"), Rule(<<"*">>, PerLayout(3) \o <<":3">>),
    Header(<<"layout[4]">>, "symbols"), Rule(<<"*">>, PerLayout(4))>>
Varied ==
  <<Header(<<"model", "layout[1]", "variant[1]">>, "symbols"),
    Rule(<<"*", "*", "$known">>, <<"%l", "[1]", "(", "%v", ")">>),
    Variable("$known", <<"v1", "v2">>),
    Header(<<"layout">>, "symbols"), Rule(<<"*">>, <<"%l", "(", "%v", "[1]", ")">>),
    Header(<<"layout[2]">>, "symbols"), Rule(<<"*">>, <<"%l", "[2]", "(", "%v", "[2]", ")", "+">>),
    Header(<<"layout[3]">>, "symbols"), Rule(<<"*">>, <<"%l", "[3]", "(", "%v", "[3]", ")">>),
    Header(<<"layout[4]">>, "symbols"), Rule(<<"*">>, <<"%l", "[4]", "%(", "v", "[4]", ")", ":4">>)>>

Lines ==
  {Header(<<"layout", "option">>, "symbols"), Header(<<"model", "layout[5]">>, "compatibility"),
   Header(<<"layout", "layout[1]">>, "types"), Rule(<<"*">>, <<"+", "+">>),
   Line("bare"), Line("odd"), Variable("$v", <<"us">>), Variable("$v", <<"ru", "m">>),
   Rule(<<"$v", "a">>, <<"%m", "%o">>), Rule(<<"m", "*", "*">>, <<"x", "+">>), Rule(<<"*">>, <<"x">>)}
Upto(n, set) == UNION {[1..k -> set] : k \in 0..n}
Small == Upto(4, Lines) \cup {<<Line("other"), Line("long")>>}

Names(r, m, l, v, o) == [rules |-> r, model |-> m, layouts |-> l, variants |-> v, options |-> o]
Layouts == UNION {[1..k -> {"us", "ru", ""}] : k \in 1..3} \cup {<<"us", "ru", "de", "fr">>, <<"", "", "", "fr">>}
Variants == {<<"">>, <<"v1">>, <<"", "v2">>, <<"v3", "", "v1", "v2">>}

InSystem(lines) == [f \in {<<"system", "evdev">>} |-> lines]
Both == [f \in {<<"system", "evdev">>, <<"home", "varied">>, <<"system", "varied">>} |->
           IF f = <<"home", "varied">> THEN Varied ELSE Evdev]

MCLayoutTexts == {Evdev, Varied}
MCCalls ==
  [names : {Names(r, "", l, v, <<"">>) : r \in {"", "varied"}, l \in Layouts, v \in Variants},
   paths : {<<"home", "system">>, <<"system", "home">>, <<>>}, disk : {Both}]
  \cup
  [names : {Names("", "m", <<"us">>, <<"">>, <<"">>), Names("", "", <<"ru">>, <<"">>, <<"b", "a">>)},
   paths : {<<"system">>}, disk : {InSystem(t) : t \in Small}]
=============================================================================

---------------------------- MODULE ParserProofs ----------------------------
(***************************************************************************)
(* Theorems of Parser, for texts of any length over any kinds of token,    *)
(* and of Lexer, which gives it its tokens.                                *)
(***************************************************************************)
EXTENDS Parser, SequenceTheorems, Lemmas, TLAPS

-----------------------------------------------------------------------------
(* The inductive invariant.                                                 *)

Symbols == Kinds \cup Calls \cup DOMAIN Optional
           \cup {"ident", "Error", "Skip", "SkipStatement", "SkipSection"}

\* A section that is skipped has its semicolon behind it.
Followed(s) == \A i \in DOMAIN s : s[i] = "SkipSection" => i + 1 \in DOMAIN s /\ s[i + 1] = "semicolon"

\* TypeOK without the bounds of nest, which is zero but in the two loops that
\* count with it.
Types ==
  /\ current \in Kinds
  /\ stack \in Seq(Symbols) /\ Followed(stack)
  /\ saw \subseteq Sections
  /\ failed \in BOOLEAN /\ lost \in BOOLEAN
  /\ result \in {"none", "keymap", "nil"}
  /\ nest \in Int /\ depth \in Int
  /\ nest # 0 => stack # <<>> /\ Head(stack) \in {"SkipStatement", "SkipSection"}

\* The parser is where it believes to be.  At the end of the text it may have
\* skipped a section that is not closed: then the text is refused, or will be
\* for the semicolon that does not come.
Placed ==
  result = "none" /\ ~lost =>
    \/ depth = Open(stack) + nest
    \/ current = "EOF" /\ (failed \/ (stack # <<>> /\ Head(stack) = "semicolon"))

IInv == Types /\ Placed /\ AcceptedIsWhole

-----------------------------------------------------------------------------
(* Counting braces.                                                         *)

Closing == {"rbrace", "SkipSection"}
Places(s, set) == {i \in DOMAIN s : s[i] \in set}
\* What one symbol adds to Open.
Weight(x) == IF x \in Closing THEN 1 ELSE IF x = "lbrace" THEN -1 ELSE 0
Plain == Symbols \ (Closing \cup {"lbrace"})

(* The places of a sequence are finitely many.                              *)
LEMMA PlacesFinite ==
  ASSUME NEW S, NEW s \in Seq(S), NEW set
  PROVE  IsFiniteSet(Places(s, set)) /\ Cardinality(Places(s, set)) \in Nat
<1>1. Places(s, set) \subseteq 1..Len(s) /\ IsFiniteSet(1..Len(s))
  BY FS_Interval DEF Places
<1> QED
  BY <1>1, FS_Subset, FS_CardinalityType

(* A sequence has the places of its parts.                                  *)
LEMMA PlacesConcat ==
  ASSUME NEW S, NEW s \in Seq(S), NEW t \in Seq(S), NEW set
  PROVE  Cardinality(Places(s \o t, set)) = Cardinality(Places(s, set)) + Cardinality(Places(t, set))
<1> DEFINE n == Len(s)
           A == Places(s, set)
           B == Places(t, set)
           C == Places(s \o t, set)
           D == {i \in C : i > n}
           f == [i \in B |-> i + n]
<1>1. n \in Nat /\ DOMAIN s = 1..n /\ DOMAIN t = 1..Len(t) /\ DOMAIN (s \o t) = 1..(n + Len(t)) /\ Len(t) \in Nat
  OBVIOUS
<1>2. \A i \in 1..n : (s \o t)[i] = s[i]
  OBVIOUS
<1>3. \A i \in 1..Len(t) : (s \o t)[i + n] = t[i]
  OBVIOUS
<1>4. C = A \cup D /\ A \cap D = {}
  <2>1. ASSUME NEW i \in C PROVE i \in A \cup D
    <3>1. i \in Nat /\ (s \o t)[i] \in set
      BY <1>1 DEF Places
    <3>2. CASE i > n
      BY <3>2
    <3>3. CASE ~(i > n)
      <4>1. i \in 1..n
        BY <1>1, <3>1, <3>3 DEF Places
      <4> QED
        BY <1>1, <1>2, <3>1, <4>1 DEF Places
    <3> QED
      BY <3>2, <3>3
  <2>2. ASSUME NEW i \in A PROVE i \in C /\ i \notin D
    BY <1>1, <1>2 DEF Places
  <2> QED
    BY <2>1, <2>2
<1>5. f \in Bijection(B, D)
  <2>1. ASSUME NEW i \in B PROVE i + n \in D /\ i \in Nat
    BY <1>1, <1>3 DEF Places
  <2>2. ASSUME NEW j \in D PROVE \E i \in B : i + n = j
    <3>1. j - n \in 1..Len(t) /\ (j - n) + n = j
      BY <1>1 DEF Places
    <3>2. j - n \in B
      BY <1>1, <1>3, <3>1 DEF Places
    <3> QED
      BY <3>1, <3>2
  <2>3. f \in [B -> D]
    BY <2>1
  <2>4. ASSUME NEW i \in B, NEW j \in B, f[i] = f[j] PROVE i = j
    <3>1. i + n = j + n /\ i \in Nat /\ j \in Nat
      BY <2>1, <2>4
    <3> QED
      BY <1>1, <3>1
  <2>5. \A j \in D : \E i \in B : f[i] = j
    BY <2>2
  <2>6. \A i, j \in B : f[i] = f[j] => i = j
    BY <2>4
  <2> HIDE DEF f, B, D
  <2> QED
    BY <2>3, <2>5, <2>6 DEF Bijection, Injection, Surjection, IsInjective
<1>6. IsFiniteSet(A) /\ IsFiniteSet(B)
  BY PlacesFinite
<1> HIDE DEF A, B, C, D, f
<1>7. IsFiniteSet(D) /\ Cardinality(D) = Cardinality(B)
  BY <1>5, <1>6, FS_Bijection DEF ExistsBijection
<1>8. Cardinality(C) = Cardinality(A) + Cardinality(D)
  <2>1. Cardinality(A \cup D) = Cardinality(A) + Cardinality(D) - Cardinality(A \cap D)
    BY <1>6, <1>7, FS_Union
  <2>2. Cardinality(A \cap D) = 0 /\ Cardinality(A) \in Nat /\ Cardinality(D) \in Nat
    BY <1>4, <1>6, <1>7, FS_EmptySet, FS_CardinalityType
  <2> QED
    BY <1>4, <2>1, <2>2
<1> QED
  BY <1>7, <1>8 DEF A, B, C

(* Open of a sequence is that of its parts, and that of one symbol.         *)
LEMMA OpenConcat ==
  ASSUME NEW S, NEW s \in Seq(S), NEW t \in Seq(S)
  PROVE  Open(s \o t) = Open(s) + Open(t) /\ Open(s) \in Int /\ Open(t) \in Int
<1>1. \A r : Open(r) = Cardinality(Places(r, Closing)) - Cardinality(Places(r, {"lbrace"}))
  BY DEF Open, Places, Closing
<1>2. Cardinality(Places(s \o t, Closing)) = Cardinality(Places(s, Closing)) + Cardinality(Places(t, Closing))
  BY PlacesConcat
<1>3. Cardinality(Places(s \o t, {"lbrace"})) = Cardinality(Places(s, {"lbrace"})) + Cardinality(Places(t, {"lbrace"}))
  BY PlacesConcat
<1>4. /\ Cardinality(Places(s, Closing)) \in Nat /\ Cardinality(Places(t, Closing)) \in Nat
      /\ Cardinality(Places(s, {"lbrace"})) \in Nat /\ Cardinality(Places(t, {"lbrace"})) \in Nat
  BY PlacesFinite
<1> QED
  BY <1>1, <1>2, <1>3, <1>4

(* A token opens what it weighs.                                           *)
LEMMA OpenOne ==
  ASSUME NEW x
  PROVE  Open(<<x>>) = Weight(x) /\ Weight(x) \in Int
<1>1. \A set : x \in set => Places(<<x>>, set) = {1}
  BY DEF Places
<1>2. \A set : x \notin set => Places(<<x>>, set) = {}
  BY DEF Places
<1>3. Cardinality({1}) = 1 /\ Cardinality({}) = 0
  BY FS_Singleton, FS_EmptySet
<1>4. Open(<<x>>) = Cardinality(Places(<<x>>, Closing)) - Cardinality(Places(<<x>>, {"lbrace"}))
  BY DEF Open, Places, Closing
<1>5. CASE x \in Closing
  <2>1. x \notin {"lbrace"}
    BY <1>5 DEF Closing
  <2> QED
    BY <1>1, <1>2, <1>3, <1>4, <1>5, <2>1 DEF Weight
<1>6. CASE x = "lbrace"
  <2>1. x \notin Closing
    BY <1>6 DEF Closing
  <2> QED
    BY <1>1, <1>2, <1>3, <1>4, <1>6, <2>1 DEF Weight
<1>7. CASE x \notin Closing /\ x # "lbrace"
  BY <1>2, <1>3, <1>4, <1>7 DEF Weight
<1> QED
  BY <1>5, <1>6, <1>7

(* A sequence without braces opens none.                                    *)
LEMMA OpenPlain ==
  ASSUME NEW s \in Seq(Plain)
  PROVE  Open(s) = 0
<1>1. Places(s, Closing) = {} /\ Places(s, {"lbrace"}) = {}
  BY DEF Places, Plain
<1>2. Open(s) = Cardinality(Places(s, Closing)) - Cardinality(Places(s, {"lbrace"}))
  BY DEF Open, Places, Closing
<1> QED
  BY <1>1, <1>2, FS_EmptySet

(* What is taken from the stack is no longer open.                          *)
LEMMA OpenTail ==
  ASSUME NEW s \in Seq(Symbols), s # <<>>
  PROVE  /\ Open(s) = Weight(Head(s)) + Open(Tail(s))
         /\ Weight(Head(s)) \in Int /\ Open(Tail(s)) \in Int
         /\ Tail(s) \in Seq(Symbols)
<1>1. s = <<Head(s)>> \o Tail(s) /\ <<Head(s)>> \in Seq(Symbols) /\ Tail(s) \in Seq(Symbols)
  OBVIOUS
<1>2. Open(<<Head(s)>> \o Tail(s)) = Open(<<Head(s)>>) + Open(Tail(s)) /\ Open(Tail(s)) \in Int
  BY <1>1, OpenConcat
<1> QED
  BY <1>1, <1>2, OpenOne

-----------------------------------------------------------------------------
(* Balanced sequences: what the parse functions expect.                     *)

Balanced(s) == s \in Seq(Symbols) /\ Open(s) = 0 /\ Followed(s)

(* A sequence without braces is balanced.                                   *)
LEMMA BalancedPlain ==
  ASSUME NEW s \in Seq(Plain)
  PROVE  Balanced(s)
<1>1. s \in Seq(Symbols)
  BY DEF Plain
<1>2. Followed(s)
  BY DEF Followed, Plain, Closing
<1> QED
  BY <1>1, <1>2, OpenPlain DEF Balanced

(* Sections that are skipped keep what is behind them.                      *)
LEMMA FollowedConcat ==
  ASSUME NEW s \in Seq(Symbols), NEW t \in Seq(Symbols), Followed(s), Followed(t)
  PROVE  Followed(s \o t)
<1> DEFINE u == s \o t
           n == Len(s)
<1>1. n \in Nat /\ DOMAIN s = 1..n /\ DOMAIN t = 1..Len(t) /\ DOMAIN u = 1..(n + Len(t)) /\ Len(t) \in Nat
  OBVIOUS
<1>2. \A i \in 1..n : u[i] = s[i]
  OBVIOUS
<1>3. \A i \in 1..Len(t) : u[i + n] = t[i]
  OBVIOUS
<1> HIDE DEF u, n
<1>4. ASSUME NEW i \in DOMAIN u, u[i] = "SkipSection" PROVE i + 1 \in DOMAIN u /\ u[i + 1] = "semicolon"
  <2>1. CASE i \in 1..n
    <3>1. i + 1 \in 1..n /\ s[i + 1] = "semicolon"
      BY <1>1, <1>2, <1>4, <2>1 DEF Followed
    <3> QED
      BY <1>1, <1>2, <3>1
  <2>2. CASE i \notin 1..n
    <3>1. PICK j \in 1..Len(t) : i = j + n
      <4>1. i - n \in 1..Len(t) /\ i = (i - n) + n
        BY <1>1, <2>2
      <4> QED
        BY <4>1
    <3>2. j + 1 \in 1..Len(t) /\ t[j + 1] = "semicolon"
      BY <1>1, <1>3, <1>4, <3>1 DEF Followed
    <3>3. i + 1 = (j + 1) + n
      BY <1>1, <3>1
    <3> QED
      BY <1>1, <1>3, <3>2, <3>3
  <2> QED
    BY <2>1, <2>2
<1> QED
  BY <1>4 DEF Followed, u

(* Two parts that close what they open do so one after the other.          *)
LEMMA BalancedConcat ==
  ASSUME NEW s, NEW t, Balanced(s), Balanced(t)
  PROVE  Balanced(s \o t)
<1>1. s \in Seq(Symbols) /\ t \in Seq(Symbols) /\ Open(s) = 0 /\ Open(t) = 0 /\ s \o t \in Seq(Symbols)
  BY DEF Balanced
<1>2. Open(s \o t) = 0
  BY <1>1, OpenConcat
<1> QED
  BY <1>1, <1>2, FollowedConcat DEF Balanced

(* A pair of braces among plain symbols is balanced, and so is a section    *)
(* that is skipped.                                                         *)
LEMMA BalancedPair ==
  ASSUME NEW s \in Seq(Symbols), NEW i \in DOMAIN s, NEW j \in DOMAIN s,
         s[i] = "lbrace", s[j] \in Closing, \A k \in DOMAIN s : k \in {i, j} \/ s[k] \in Plain,
         s[j] = "SkipSection" => j + 1 \in DOMAIN s /\ s[j + 1] = "semicolon"
  PROVE  Balanced(s)
<1>1. Places(s, Closing) = {j} /\ Places(s, {"lbrace"}) = {i}
  BY DEF Places, Plain, Closing
<1>2. Open(s) = Cardinality(Places(s, Closing)) - Cardinality(Places(s, {"lbrace"}))
  BY DEF Open, Places, Closing
<1>3. Open(s) = 0
  <2>1. Cardinality(Places(s, Closing)) = 1
    BY <1>1, FS_Singleton
  <2>2. Cardinality(Places(s, {"lbrace"})) = 1
    BY <1>1, FS_Singleton
  <2> QED
    BY <1>2, <2>1, <2>2
<1>4. Followed(s)
  BY DEF Followed, Plain, Closing
<1> QED
  BY <1>3, <1>4 DEF Balanced

(* Everything is plain but the braces and the section that is skipped.      *)
LEMMA PlainFacts ==
  /\ Words \subseteq Plain
  /\ \A t \in Kinds : t \notin {"lbrace", "rbrace"} => t \in Plain
  /\ Calls \subseteq Plain
  /\ DOMAIN Optional \subseteq Plain
  /\ {"ident", "Error", "Skip", "SkipStatement"} \subseteq Plain
  /\ {"[", "]", "(", ")", "semicolon", "comma", "=", "+", ".", "!", "string", "number", "keycode"}
       \subseteq Plain
<1>1. Words \subseteq Plain
  BY DEF Plain, Symbols, Kinds, Words, Sections, Closing
<1>2. \A t \in Kinds : t \notin {"lbrace", "rbrace"} => t \in Plain
  <2>1. "SkipSection" \notin Kinds
    BY DEF Kinds, Words, Sections, Marks
  <2> QED
    BY <2>1 DEF Plain, Symbols, Closing
<1>3. Calls \subseteq Plain
  BY DEF Plain, Symbols, Calls, Closing
<1>4. DOMAIN Optional \subseteq Plain
  <2>1. DOMAIN Optional = {"?string", "?semicolon", "?separator", "?=", "?]", "?+", "?ident"}
    BY DEF Optional
  <2> HIDE DEF Optional
  <2> QED
    BY <2>1 DEF Plain, Symbols, Closing
<1>5. {"ident", "Error", "Skip", "SkipStatement"} \subseteq Plain
  BY DEF Plain, Symbols, Closing
<1>6. {"[", "]", "(", ")", "semicolon", "comma", "=", "+", ".", "!", "string", "number", "keycode"}
       \subseteq Plain
  BY DEF Plain, Symbols, Closing, Kinds, Marks
<1> QED
  BY <1>1, <1>2, <1>3, <1>4, <1>5, <1>6

(* The symbols of the productions, one by one.                              *)
LEMMA SymbolFacts ==
  /\ "Error" \in Plain /\ "Skip" \in Plain /\ "SkipStatement" \in Plain /\ "ident" \in Plain
  /\ "?string" \in Plain /\ "?semicolon" \in Plain /\ "?separator" \in Plain /\ "?=" \in Plain
  /\ "?]" \in Plain /\ "?+" \in Plain /\ "?ident" \in Plain
  /\ "[" \in Plain /\ "]" \in Plain /\ "semicolon" \in Plain /\ "=" \in Plain
  /\ "string" \in Plain /\ "number" \in Plain /\ "keycode" \in Plain
  /\ \A x \in Calls : x \in Plain
  /\ \A t \in Words : t \in Plain
<1>1. DOMAIN Optional = {"?string", "?semicolon", "?separator", "?=", "?]", "?+", "?ident"}
  BY DEF Optional
<1> QED
  BY <1>1, PlainFacts

(* The productions that have no braces.                                     *)
LEMMA PlainProductions ==
  ASSUME NEW t \in Kinds
  PROVE  /\ Error \in Seq(Plain) /\ ErrorAt(t) \in Seq(Plain) /\ SkipFrom(t) \in Seq(Plain)
         /\ KeycodesStatement(t) \in Seq(Plain) /\ TypeStatement(t) \in Seq(Plain)
         /\ VirtualModifiers \in Seq(Plain) /\ ModValue(t) \in Seq(Plain) /\ MaskValue(t) \in Seq(Plain)
         /\ MoreVirtual(t) \in Seq(Plain) /\ ModifierMask(t) \in Seq(Plain) /\ MoreMods(t) \in Seq(Plain)
         /\ Index(t, "Level1") \in Seq(Plain) /\ Index(t, "Group1") \in Seq(Plain)
         /\ Interpret(t) \in Seq(Plain) /\ InterpretDefault(t) \in Seq(Plain) /\ Condition(t) \in Seq(Plain)
         /\ InterpretBody(t) \in Seq(Plain) /\ RepeatValue(t) \in Seq(Plain)
         /\ ModMatch(t) \in Seq(Plain) /\ ModList(t) \in Seq(Plain) /\ Mods(t) \in Seq(Plain)
         /\ IndicatorStatement(t) \in Seq(Plain)
         /\ KeyBody(t) \in Seq(Plain) /\ TypeGroup(t) \in Seq(Plain)
         /\ SymbolList(t) \in Seq(Plain) /\ MoreSymbols(t) \in Seq(Plain)
         /\ MappedKeys(t) \in Seq(Plain) /\ MoreMapped(t) \in Seq(Plain)
<1> USE SymbolFacts
<1>0. t \in Plain \/ t \in {"lbrace", "rbrace"}
  BY PlainFacts
<1>1. Error \in Seq(Plain)
  BY DEF Error
<1>2. ErrorAt(t) \in Seq(Plain)
  BY <1>1 DEF ErrorAt
<1>3. SkipFrom(t) \in Seq(Plain)
  BY <1>1 DEF SkipFrom
<1>4. KeycodesStatement(t) \in Seq(Plain)
  BY <1>0, <1>2 DEF KeycodesStatement
<1>5. TypeStatement(t) \in Seq(Plain)
  BY <1>0, <1>2 DEF TypeStatement, Calls
<1>6. VirtualModifiers \in Seq(Plain)
  BY DEF VirtualModifiers, Calls
<1>7. ModValue(t) \in Seq(Plain)
  BY <1>0 DEF ModValue, Calls
<1>8. MaskValue(t) \in Seq(Plain)
  BY <1>0, <1>1 DEF MaskValue
<1>9. MoreVirtual(t) \in Seq(Plain)
  BY <1>0 DEF MoreVirtual, Calls
<1>10. ModifierMask(t) \in Seq(Plain)
  BY <1>0, <1>1 DEF ModifierMask, Calls
<1>11. MoreMods(t) \in Seq(Plain)
  BY <1>0 DEF MoreMods, Calls
<1>12. Index(t, "Level1") \in Seq(Plain) /\ Index(t, "Group1") \in Seq(Plain)
  BY <1>0, <1>2 DEF Index
<1>13. Interpret(t) \in Seq(Plain)
  BY <1>0, <1>1 DEF Interpret, Calls
<1>14. InterpretDefault(t) \in Seq(Plain)
  BY <1>0, <1>1 DEF InterpretDefault
<1>15. Condition(t) \in Seq(Plain)
  BY <1>0 DEF Condition, Calls
<1>16. InterpretBody(t) \in Seq(Plain)
  BY <1>0 DEF InterpretBody, Rounds, Calls
<1>17. RepeatValue(t) \in Seq(Plain)
  BY <1>0 DEF RepeatValue
<1>18. ModMatch(t) \in Seq(Plain)
  BY <1>0 DEF ModMatch, Calls
<1>19. ModList(t) \in Seq(Plain)
  BY <1>0 DEF ModList, Calls
<1>20. Mods(t) \in Seq(Plain)
  BY <1>0 DEF Mods, Calls
<1>21. IndicatorStatement(t) \in Seq(Plain)
  BY <1>0, <1>3 DEF IndicatorStatement, Calls
<1>22. KeyBody(t) \in Seq(Plain)
  BY <1>0, <1>3 DEF KeyBody, Calls
<1>23. TypeGroup(t) \in Seq(Plain)
  BY <1>0 DEF TypeGroup, Calls
<1>24. SymbolList(t) \in Seq(Plain)
  BY <1>0, <1>1 DEF SymbolList, Calls
<1>25. MoreSymbols(t) \in Seq(Plain)
  BY <1>0 DEF MoreSymbols, Calls
<1>26. MoreMapped(t) \in Seq(Plain)
  BY <1>0 DEF MoreMapped, Calls
<1>27. MappedKeys(t) \in Seq(Plain)
  BY <1>0 DEF MappedKeys, Calls
<1> QED
  BY <1>1, <1>2, <1>3, <1>4, <1>5, <1>6, <1>7, <1>8, <1>9, <1>10, <1>11, <1>12, <1>13, <1>14, <1>15,
     <1>16, <1>17, <1>18, <1>19, <1>20, <1>21, <1>22, <1>23, <1>24, <1>25, <1>26, <1>27

(* The productions that have braces.                                        *)
LEMMA SectionBalanced ==
  ASSUME NEW t \in Kinds, saw \subseteq Sections
  PROVE  Balanced(Section(t))
<1>1. Balanced(ErrorAt(t))
  BY PlainProductions, BalancedPlain
<1>2. /\ "?string" \in Plain /\ "semicolon" \in Plain /\ \A x \in Words : x \in Plain
      /\ \A x \in Calls : x \in Plain
      /\ Plain \subseteq Symbols /\ {"lbrace", "rbrace", "SkipSection"} \subseteq Symbols
  BY SymbolFacts DEF Plain, Symbols, Kinds, Marks
<1>3. ASSUME NEW x \in Calls, t \in Words
      PROVE  Balanced(<<t, "?string", "lbrace", x, "rbrace", "semicolon">>)
  <2> DEFINE s == <<t, "?string", "lbrace", x, "rbrace", "semicolon">>
  <2>1. s \in Seq(Symbols) /\ DOMAIN s = 1..6 /\ s[3] = "lbrace" /\ s[5] = "rbrace"
    BY <1>2, <1>3
  <2>2. s[1] \in Plain /\ s[2] \in Plain /\ s[4] \in Plain /\ s[6] \in Plain
    BY <1>2, <1>3
  <2> HIDE DEF s
  <2>3. \A k \in DOMAIN s : k \in {3, 5} \/ s[k] \in Plain
    BY <2>1, <2>2
  <2>4. Balanced(s)
    BY <2>1, <2>3, BalancedPair DEF Closing
  <2> QED
    BY <2>4 DEF s
<1>4. ASSUME t \in Words
      PROVE  Balanced(<<t, "?string", "lbrace", "SkipSection", "semicolon">>)
  <2> DEFINE s == <<t, "?string", "lbrace", "SkipSection", "semicolon">>
  <2>1. /\ s \in Seq(Symbols) /\ DOMAIN s = 1..5
        /\ s[3] = "lbrace" /\ s[4] = "SkipSection" /\ s[5] = "semicolon"
    BY <1>2, <1>4
  <2>2. s[1] \in Plain /\ s[2] \in Plain /\ s[5] \in Plain
    BY <1>2, <1>4
  <2> HIDE DEF s
  <2>3. /\ \A k \in DOMAIN s : k \in {3, 4} \/ s[k] \in Plain
        /\ 4 + 1 \in DOMAIN s /\ s[4 + 1] = "semicolon" /\ 3 \in DOMAIN s /\ 4 \in DOMAIN s
    BY <2>1, <2>2
  <2>4. Balanced(s)
    BY <2>1, <2>3, BalancedPair DEF Closing
  <2> QED
    BY <2>4 DEF s
<1>5. {"Keycodes", "Types", "Compat", "Symbols"} \subseteq Calls
  BY DEF Calls
<1>6. {"xkb_keycodes", "xkb_types", "xkb_compat", "xkb_symbols", "xkb_geometry"} \subseteq Words
  BY DEF Words, Sections
<1> QED
  BY <1>1, <1>3, <1>4, <1>5, <1>6 DEF Section

(* A statement with a body in braces.                                       *)
LEMMA BodiesBalanced ==
  ASSUME NEW t \in Kinds
  PROVE  /\ Balanced(TypesStatement(t)) /\ Balanced(CompatStatement(t)) /\ Balanced(SymbolsStatement(t))
         /\ Balanced(InterpretBlock(t)) /\ Balanced(ReplaceKey(t)) /\ Balanced(Key(t))
<1> USE SymbolFacts
<1>1. Balanced(ErrorAt(t)) /\ Balanced(SkipFrom(t)) /\ Balanced(Error)
  BY PlainProductions, BalancedPlain
<1>2. {"TypeBody", "IndicatorBody", "InterpretBody", "MappedKeys", "KeyBody", "VirtualModifiers",
       "Interpret", "ReplaceKey", "Key", "GroupIndex"} \subseteq Calls
  BY DEF Calls
<1>3. ASSUME NEW x \in Plain, NEW y \in Plain, NEW z \in Plain
      PROVE  /\ Balanced(<<x, y, "lbrace", z, "rbrace">>)
             /\ Balanced(<<x, "lbrace", z, "rbrace">>)
             /\ Balanced(<<"lbrace", z, "rbrace">>)
  <2> DEFINE r == <<x, y, "lbrace", z, "rbrace">>
             s == <<x, "lbrace", z, "rbrace">>
             u == <<"lbrace", z, "rbrace">>
  <2>1. {"lbrace", "rbrace"} \cup Plain \subseteq Symbols
    BY DEF Plain, Symbols, Kinds, Marks
  <2>2. Balanced(r)
    <3>1. /\ r \in Seq(Symbols) /\ DOMAIN r = 1..5 /\ r[3] = "lbrace" /\ r[5] = "rbrace"
          /\ r[1] \in Plain /\ r[2] \in Plain /\ r[4] \in Plain
      BY <1>3, <2>1
    <3> HIDE DEF r
    <3>2. \A k \in DOMAIN r : k \in {3, 5} \/ r[k] \in Plain
      BY <3>1
    <3> QED
      BY <3>1, <3>2, BalancedPair DEF Closing
  <2>3. Balanced(s)
    <3>1. /\ s \in Seq(Symbols) /\ DOMAIN s = 1..4 /\ s[2] = "lbrace" /\ s[4] = "rbrace"
          /\ s[1] \in Plain /\ s[3] \in Plain
      BY <1>3, <2>1
    <3> HIDE DEF s
    <3>2. \A k \in DOMAIN s : k \in {2, 4} \/ s[k] \in Plain
      BY <3>1
    <3> QED
      BY <3>1, <3>2, BalancedPair DEF Closing
  <2>4. Balanced(u)
    <3>1. /\ u \in Seq(Symbols) /\ DOMAIN u = 1..3 /\ u[1] = "lbrace" /\ u[3] = "rbrace"
          /\ u[2] \in Plain
      BY <1>3, <2>1
    <3> HIDE DEF u
    <3>2. \A k \in DOMAIN u : k \in {1, 3} \/ u[k] \in Plain
      BY <3>1
    <3> QED
      BY <3>1, <3>2, BalancedPair DEF Closing
  <2> QED
    BY <2>2, <2>3, <2>4
<1>4. {"virtual_modifiers", "type", "interpret", "indicator", "replace", "key", "name", "group_offset",
       "modifier_map", "include"} \subseteq Words
  BY DEF Words
<1>5. ASSUME NEW x \in Plain, NEW y \in Plain
      PROVE  Balanced(<<x>>) /\ Balanced(<<x, y>>)
  <2>1. <<x>> \in Seq(Plain) /\ <<x, y>> \in Seq(Plain)
    OBVIOUS
  <2> QED
    BY <2>1, BalancedPlain
<1>6. Balanced(TypesStatement(t))
  BY <1>1, <1>2, <1>3, <1>4, <1>5 DEF TypesStatement
<1>7. Balanced(CompatStatement(t))
  BY <1>1, <1>2, <1>3, <1>4, <1>5 DEF CompatStatement
<1>8. Balanced(KeyDefinition)
  BY <1>2, <1>3 DEF KeyDefinition
<1>9. Balanced(ReplaceKey(t))
  <2>1. CASE t = "key"
    <3>1. Balanced(<<t>>)
      BY <1>4, <1>5, <2>1
    <3> QED
      BY <1>8, <2>1, <3>1, BalancedConcat DEF ReplaceKey
  <2>2. CASE t # "key"
    BY <1>5, <2>2 DEF ReplaceKey
  <2> QED
    BY <2>1, <2>2
<1>10. Balanced(Key(t))
  BY <1>5, <1>8 DEF Key
<1>11. Balanced(InterpretBlock(t))
  <2>1. CASE t = "lbrace"
    BY <1>2, <1>3, <2>1 DEF InterpretBlock
  <2>2. CASE t # "lbrace"
    BY <1>5, <2>2 DEF InterpretBlock
  <2> QED
    BY <2>1, <2>2
<1>12. Balanced(SymbolsStatement(t))
  <2>1. t \in Words => /\ Balanced(<<t, "[", "GroupIndex", "]", "=", "string">>)
                       /\ Balanced(<<t, "=", "number">>)
    <3>1. t \in Words => /\ <<t, "[", "GroupIndex", "]", "=", "string">> \in Seq(Plain)
                         /\ <<t, "=", "number">> \in Seq(Plain)
      BY <1>2
    <3> QED
      BY <3>1, BalancedPlain
  <2> QED
    BY <1>1, <1>2, <1>3, <1>4, <1>5, <2>1 DEF SymbolsStatement
<1> QED
  BY <1>6, <1>7, <1>9, <1>10, <1>11, <1>12

(* A round of a loop is balanced when its statement is.                     *)
LEMMA RoundsBalanced ==
  ASSUME NEW t, NEW statement, Balanced(statement), NEW loop \in Calls
  PROVE  Balanced(Rounds(t, statement, loop))
<1>1. Balanced(<<"?semicolon", loop>>) /\ Balanced(<<>>)
  <2>1. <<"?semicolon", loop>> \in Seq(Plain) /\ <<>> \in Seq(Plain)
    BY SymbolFacts
  <2> QED
    BY <2>1, BalancedPlain
<1> QED
  BY <1>1, BalancedConcat DEF Rounds

(* Every function expects as many closing braces as it expects opening ones.*)
LEMMA ProductionBalanced ==
  ASSUME NEW s \in Calls, NEW t \in Kinds, saw \subseteq Sections
  PROVE  Balanced(Production(s, t))
<1> DEFINE P == Production(s, t)
<1>1. CASE s = "Sections"
  <2>1. Balanced(<<s>>) /\ Balanced(<<>>) /\ Balanced(Section(t))
    <3>1. <<s>> \in Seq(Plain) /\ <<>> \in Seq(Plain)
      BY SymbolFacts
    <3> QED
      BY <3>1, BalancedPlain, SectionBalanced
  <2>2. Balanced(Section(t) \o <<s>>)
    BY <2>1, BalancedConcat
  <2> QED
    BY <1>1, <2>1, <2>2 DEF Production
<1>2. CASE s \in {"Keycodes", "Types", "TypeBody", "Compat", "IndicatorBody", "Symbols"}
  <2>1. /\ Balanced(KeycodesStatement(t)) /\ Balanced(TypesStatement(t)) /\ Balanced(TypeStatement(t))
        /\ Balanced(CompatStatement(t)) /\ Balanced(IndicatorStatement(t)) /\ Balanced(SymbolsStatement(t))
    BY PlainProductions, BalancedPlain, BodiesBalanced
  <2>2. CASE s = "Keycodes"
    BY <2>1, <2>2, RoundsBalanced DEF Production
  <2>3. CASE s = "Types"
    BY <2>1, <2>3, RoundsBalanced DEF Production
  <2>4. CASE s = "TypeBody"
    BY <2>1, <2>4, RoundsBalanced DEF Production
  <2>5. CASE s = "Compat"
    BY <2>1, <2>5, RoundsBalanced DEF Production
  <2>6. CASE s = "IndicatorBody"
    BY <2>1, <2>6, RoundsBalanced DEF Production
  <2>7. CASE s = "Symbols"
    BY <2>1, <2>7, RoundsBalanced DEF Production
  <2> QED
    BY <1>2, <2>2, <2>3, <2>4, <2>5, <2>6, <2>7
<1>3. CASE s \in {"InterpretBlock", "ReplaceKey", "Key"}
  BY <1>3, BodiesBalanced DEF Production
<1>4. CASE s \notin {"Sections", "Keycodes", "Types", "TypeBody", "Compat", "IndicatorBody", "Symbols",
                     "InterpretBlock", "ReplaceKey", "Key"}
  <2>1. P \in Seq(Plain)
    BY <1>4, PlainProductions DEF Production
  <2> QED
    BY <2>1, BalancedPlain
<1> QED
  BY <1>1, <1>2, <1>3, <1>4

-----------------------------------------------------------------------------
(* The steps.                                                               *)

(* The symbol that is expected next, and what is behind it.                 *)
LEMMA HeadFacts ==
  ASSUME Types, stack # <<>>
  PROVE  /\ Head(stack) \in Symbols
         /\ Tail(stack) \in Seq(Symbols)
         /\ Followed(Tail(stack))
         /\ Open(stack) = Weight(Head(stack)) + Open(Tail(stack))
         /\ Weight(Head(stack)) \in Int /\ Open(Tail(stack)) \in Int
<1>1. stack \in Seq(Symbols) /\ Followed(stack)
  BY DEF Types
<1>2. DOMAIN Tail(stack) = 1..(Len(stack) - 1) /\ \A i \in 1..(Len(stack) - 1) : Tail(stack)[i] = stack[i + 1]
  BY <1>1
<1>3. ASSUME NEW i \in DOMAIN Tail(stack), Tail(stack)[i] = "SkipSection"
      PROVE  i + 1 \in DOMAIN Tail(stack) /\ Tail(stack)[i + 1] = "semicolon"
  <2>1. i + 1 \in DOMAIN stack /\ stack[i + 1] = "SkipSection" /\ i \in 1..(Len(stack) - 1)
    BY <1>1, <1>2, <1>3
  <2>2. (i + 1) + 1 \in DOMAIN stack /\ stack[(i + 1) + 1] = "semicolon"
    BY <1>1, <2>1 DEF Followed
  <2>3. i + 1 \in 1..(Len(stack) - 1)
    BY <1>1, <2>1, <2>2
  <2> QED
    BY <1>2, <2>2, <2>3
<1>4. Followed(Tail(stack))
  BY <1>3 DEF Followed
<1> QED
  BY <1>1, <1>4, OpenTail

(* What weighs nothing.                                                     *)
LEMMA PlainWeighsNothing ==
  ASSUME NEW x \in Plain
  PROVE  Weight(x) = 0
  BY DEF Plain, Weight

(* A token that is consumed is counted as the braces it opens.              *)
LEMMA BraceWeighs ==
  ASSUME NEW t \in Kinds
  PROVE  Brace(t) = -Weight(t) /\ Brace(t) \in Int
<1>1. "SkipSection" \notin Kinds
  BY DEF Kinds, Words, Sections, Marks
<1>2. t = "lbrace" \/ t = "rbrace" \/ t \notin {"lbrace", "rbrace"}
  OBVIOUS
<1> QED
  BY <1>1, <1>2 DEF Brace, Weight, Closing

(* The token after the one that is consumed.                                *)
LEMMA AdvanceFacts ==
  ASSUME current \in Kinds, Advance
  PROVE  /\ current' \in Kinds
         /\ current = "EOF" => current' = "EOF"
         /\ ~lost' => depth' = depth + Brace(current)
         /\ lost' => depth' = 0
  BY ParserAssumption DEF Advance

(* An error leaves the open braces as they are, or the place is lost.       *)
LEMMA FailFacts ==
  ASSUME Types, NEW s \in Seq(Symbols), Followed(s), nest = 0, result = "none", Fail(s)
  PROVE  /\ Types'
         /\ result' = "none" => failed'
         /\ result' = "none" /\ ~lost' => ~lost /\ depth' = depth /\ Open(stack') = Open(s)
         /\ result' \in {"none", "nil"} /\ UNCHANGED <<current, nest>>
<1>1. CASE Begun(s) = {}
  <2>1. result' = "nil" /\ stack' = <<>> /\ UNCHANGED <<current, saw, failed, nest, depth, lost>>
    BY <1>1 DEF Fail
  <2> QED
    BY <2>1 DEF Types, Followed
<1>2. CASE Begun(s) # {}
  <2> DEFINE m == Min(Begun(s))
             rest == SubSeq(s, m, Len(s))
             front == <<"Skip", "?semicolon">>
  <2>1. /\ failed' = TRUE
        /\ stack' = front \o rest
        /\ lost' = (lost \/ Open(s) # Open(rest))
        /\ depth' = IF lost' THEN 0 ELSE depth
        /\ UNCHANGED <<current, saw, result, nest>>
    BY <1>2 DEF Fail
  <2>2. m \in 1..Len(s)
    <3>1. Begun(s) \in SUBSET Nat /\ Begun(s) \subseteq 1..Len(s)
      BY DEF Begun
    <3> QED
      BY <1>2, <3>1, MinMember
  <2> HIDE DEF m
  <2>3. rest \in Seq(Symbols) /\ Len(rest) = Len(s) - m + 1 /\ \A i \in 1..Len(rest) : rest[i] = s[i + m - 1]
    BY <2>2
  <2> HIDE DEF rest
  <2>4. Followed(rest)
    <3>1. ASSUME NEW i \in DOMAIN rest, rest[i] = "SkipSection"
          PROVE  i + 1 \in DOMAIN rest /\ rest[i + 1] = "semicolon"
      <4>1. i \in 1..Len(rest) /\ i + m - 1 \in DOMAIN s /\ s[i + m - 1] = "SkipSection"
        BY <2>2, <2>3, <3>1
      <4>2. (i + m - 1) + 1 \in DOMAIN s /\ s[(i + m - 1) + 1] = "semicolon"
        BY <4>1 DEF Followed
      <4>3. i + 1 \in 1..Len(rest) /\ (i + 1) + m - 1 = (i + m - 1) + 1
        BY <2>2, <2>3, <4>1, <4>2
      <4> QED
        BY <2>3, <4>2, <4>3
    <3> QED
      BY <3>1 DEF Followed
  <2>5. front \in Seq(Plain)
    BY SymbolFacts
  <2>6. front \in Seq(Symbols) /\ Followed(front) /\ Open(front) = 0
    BY <2>5, BalancedPlain DEF Balanced
  <2> HIDE DEF front
  <2>7. front \o rest \in Seq(Symbols) /\ Followed(front \o rest) /\ Open(front \o rest) = Open(rest)
    <3>1. Open(front \o rest) = Open(front) + Open(rest) /\ Open(rest) \in Int
      BY <2>3, <2>6, OpenConcat
    <3> QED
      BY <2>3, <2>4, <2>6, <3>1, FollowedConcat
  <2>8. Types'
    <3>1. depth' \in Int /\ failed' \in BOOLEAN /\ lost' \in BOOLEAN
      BY <2>1 DEF Types
    <3>2. stack' \in Seq(Symbols) /\ Followed(stack)'
      BY <2>1, <2>7 DEF Followed
    <3> QED
      BY <2>1, <3>1, <3>2 DEF Types
  <2>9. ~lost' => ~lost /\ depth' = depth /\ Open(stack') = Open(s)
    BY <2>1, <2>7
  <2> QED
    BY <2>1, <2>8, <2>9
<1> QED
  BY <1>1, <1>2

(* What a step needs to keep Placed.                                        *)
LEMMA PlacedKept ==
  ASSUME Types, Placed, result = "none", ~lost, stack # <<>>,
         ~(current = "EOF" /\ Head(stack) = "semicolon")
  PROVE  depth = Open(stack) + nest \/ (current = "EOF" /\ failed)
  BY DEF Placed

(* Expecting a token that is there, and not.                                *)
LEMMA ExpectStep ==
  ASSUME Types, Placed, Expect
  PROVE  Types' /\ Placed' /\ result' # "keymap"
<1>1. /\ result = "none" /\ stack # <<>> /\ Head(stack) \in Kinds \cup {"ident"} /\ current \in Kinds
      /\ stack \in Seq(Symbols) /\ Followed(stack) /\ depth \in Int
  BY DEF Expect, Running, Types
<1>2. nest = 0
  <2>1. "SkipStatement" \notin Kinds \cup {"ident"} /\ "SkipSection" \notin Kinds \cup {"ident"}
    BY DEF Kinds, Words, Sections, Marks
  <2> QED
    BY <1>1, <2>1 DEF Types
<1>3. CASE current = Head(stack) \/ (Head(stack) = "ident" /\ current \in Words)
  <2>1. stack' = Tail(stack) /\ UNCHANGED <<saw, failed, result, nest, lost>> /\ Advance
    BY <1>3 DEF Expect
  <2>2. Weight(Head(stack)) = Weight(current)
    <3>1. CASE current = Head(stack)
      BY <3>1
    <3>2. CASE Head(stack) = "ident" /\ current \in Words
      BY <3>2, SymbolFacts, PlainWeighsNothing
    <3> QED
      BY <1>3, <3>1, <3>2
  <2>3. /\ current' \in Kinds /\ (current = "EOF" => current' = "EOF")
        /\ (~lost => depth' = depth + Brace(current)) /\ depth' \in Int
    BY <1>1, <2>1, AdvanceFacts, BraceWeighs
  <2>4. Types'
    BY <1>1, <1>2, <2>1, <2>3, HeadFacts DEF Types, Followed
  <2>5. ASSUME ~lost' PROVE depth' = Open(stack') + nest' \/ (current' = "EOF" /\ failed')
    <3>1. ~(current = "EOF" /\ Head(stack) = "semicolon")
      <4>1. "EOF" \notin Words
        BY DEF Words, Sections
      <4> QED
        BY <1>3, <4>1
    <3>2. depth = Open(stack) + nest \/ (current = "EOF" /\ failed)
      BY <1>1, <2>1, <2>5, <3>1, PlacedKept
    <3>3. CASE depth = Open(stack) + nest
      BY <1>1, <1>2, <2>1, <2>2, <2>3, <2>5, <3>3, HeadFacts, BraceWeighs
    <3>4. CASE current = "EOF" /\ failed
      BY <2>1, <2>3, <3>4
    <3> QED
      BY <3>2, <3>3, <3>4
  <2>6. Placed'
    BY <2>5 DEF Placed, Open
  <2> QED
    BY <1>1, <2>1, <2>4, <2>6
<1>4. CASE ~(current = Head(stack) \/ (Head(stack) = "ident" /\ current \in Words))
  <2>1. Fail(stack)
    BY <1>4 DEF Expect
  <2>2. /\ Types' /\ (result' = "none" => failed') /\ result' \in {"none", "nil"}
        /\ UNCHANGED <<current, nest>>
        /\ (result' = "none" /\ ~lost' => ~lost /\ depth' = depth /\ Open(stack') = Open(stack))
    BY <1>1, <1>2, <2>1, FailFacts
  <2>3. Placed'
    BY <1>1, <2>2 DEF Placed, Open
  <2> QED
    BY <2>2, <2>3
<1> QED
  BY <1>3, <1>4

(* An error that is returned leaves the parser at the same place.          *)
LEMMA ReturnErrorStep ==
  ASSUME Types, Placed, ReturnError
  PROVE  Types' /\ Placed' /\ result' # "keymap"
<1>1. result = "none" /\ stack # <<>> /\ Head(stack) = "Error" /\ Fail(Tail(stack))
  BY DEF ReturnError, Running
<1>2. nest = 0
  BY <1>1 DEF Types
<1>3. Tail(stack) \in Seq(Symbols) /\ Followed(Tail(stack)) /\ Open(stack) = Open(Tail(stack))
  BY <1>1, HeadFacts, SymbolFacts, PlainWeighsNothing
<1>4. /\ Types' /\ (result' = "none" => failed') /\ result' \in {"none", "nil"}
      /\ UNCHANGED <<current, nest>>
      /\ (result' = "none" /\ ~lost' => ~lost /\ depth' = depth /\ Open(stack') = Open(Tail(stack)))
  BY <1>1, <1>2, <1>3, FailFacts
<1>5. Placed'
  BY <1>1, <1>3, <1>4 DEF Placed, Open
<1> QED
  BY <1>4, <1>5

(* A token that may be there has no braces.                                 *)
LEMMA MatchStep ==
  ASSUME Types, Placed, Match
  PROVE  Types' /\ Placed' /\ result' # "keymap"
<1>1. /\ result = "none" /\ stack # <<>> /\ Head(stack) \in DOMAIN Optional
      /\ stack' = Tail(stack) /\ UNCHANGED <<saw, failed, result, nest, lost>>
      /\ (current \in Optional[Head(stack)] /\ Advance) \/ UNCHANGED <<current, depth>>
  BY DEF Match, Running
<1>2. DOMAIN Optional = {"?string", "?semicolon", "?separator", "?=", "?]", "?+", "?ident"}
  BY DEF Optional
<1>3. nest = 0 /\ Weight(Head(stack)) = 0 /\ Head(stack) # "semicolon" /\ current \in Kinds /\ depth \in Int
  <2>1. Head(stack) \in Plain
    BY <1>1, PlainFacts
  <2> QED
    BY <1>1, <1>2, <2>1, PlainWeighsNothing DEF Types
<1>4. current \in Optional[Head(stack)] => Brace(current) = 0
  <2>1. current \in Optional[Head(stack)] => current \in Words \cup {"string", "semicolon", "comma", "=", "]", "+"}
    BY <1>1, <1>2 DEF Optional
  <2>2. \A x \in Words \cup {"string", "semicolon", "comma", "=", "]", "+"} : x \in Plain
    BY PlainFacts
  <2> QED
    BY <1>3, <2>1, <2>2, PlainWeighsNothing, BraceWeighs
<1>5. /\ current' \in Kinds /\ (current = "EOF" => current' = "EOF")
      /\ (~lost => depth' = depth) /\ depth' \in Int
  BY <1>1, <1>3, <1>4, AdvanceFacts
<1>6. Types'
  BY <1>1, <1>3, <1>5, HeadFacts DEF Types, Followed
<1>7. ASSUME ~lost' PROVE depth' = Open(stack') + nest' \/ (current' = "EOF" /\ failed')
  <2>1. depth = Open(stack) + nest \/ (current = "EOF" /\ failed)
    BY <1>1, <1>3, <1>7, PlacedKept
  <2> QED
    BY <1>1, <1>3, <1>5, <1>7, <2>1, HeadFacts
<1>8. Placed'
  BY <1>7 DEF Placed, Open
<1> QED
  BY <1>1, <1>6, <1>8

(* A call replaces a symbol that weighs nothing by a balanced sequence.     *)
LEMMA CallStep ==
  ASSUME Types, Placed, Call
  PROVE  Types' /\ Placed' /\ result' # "keymap"
<1> DEFINE p == Production(Head(stack), current)
<1>1. /\ result = "none" /\ stack # <<>> /\ Head(stack) \in Calls
      /\ stack' = p \o Tail(stack)
      /\ saw' \subseteq saw \cup Sections
      /\ UNCHANGED <<current, failed, result, nest, depth, lost>>
  BY DEF Call, Running
<1>2. /\ nest = 0 /\ Weight(Head(stack)) = 0 /\ Head(stack) # "semicolon" /\ current \in Kinds
      /\ depth \in Int /\ saw \subseteq Sections
  <2>1. Head(stack) \in Plain
    BY <1>1, SymbolFacts
  <2>2. "semicolon" \notin Calls /\ "SkipStatement" \notin Calls /\ "SkipSection" \notin Calls
    BY DEF Calls
  <2> QED
    BY <1>1, <2>1, <2>2, PlainWeighsNothing DEF Types
<1>3. p \in Seq(Symbols) /\ Open(p) = 0 /\ Followed(p)
  BY <1>1, <1>2, ProductionBalanced DEF Balanced
<1> HIDE DEF p
<1>4. p \o Tail(stack) \in Seq(Symbols) /\ Followed(p \o Tail(stack)) /\ Open(p \o Tail(stack)) = Open(Tail(stack))
  <2>1. Tail(stack) \in Seq(Symbols) /\ Followed(Tail(stack)) /\ Open(Tail(stack)) \in Int
    BY <1>1, HeadFacts
  <2>2. Open(p \o Tail(stack)) = Open(p) + Open(Tail(stack))
    BY <1>3, <2>1, OpenConcat
  <2>3. Followed(p \o Tail(stack))
    BY <1>3, <2>1, FollowedConcat
  <2>4. p \o Tail(stack) \in Seq(Symbols)
    BY <1>3, <2>1
  <2> QED
    BY <1>3, <2>1, <2>2, <2>3, <2>4
<1>5. Open(stack') = Open(stack)
  BY <1>1, <1>2, <1>4, HeadFacts
<1>6. Types'
  BY <1>1, <1>2, <1>4 DEF Types, Followed
<1>7. ASSUME ~lost' PROVE depth' = Open(stack') + nest' \/ (current' = "EOF" /\ failed')
  <2>1. depth = Open(stack) + nest \/ (current = "EOF" /\ failed)
    BY <1>1, <1>2, <1>7, PlacedKept
  <2> QED
    BY <1>1, <1>5, <2>1
<1>8. Placed'
  BY <1>7 DEF Placed, Open
<1> QED
  BY <1>1, <1>6, <1>8

(* The skip to a semicolon or brace passes no closing brace, and loses the  *)
(* place with an opening one.                                               *)
LEMMA SkipStep ==
  ASSUME Types, Placed, SkipToSemicolonOrBrace
  PROVE  Types' /\ Placed' /\ result' # "keymap"
<1>1. /\ result = "none" /\ stack # <<>> /\ Head(stack) = "Skip" /\ UNCHANGED <<saw, failed, result, nest>>
      /\ current \in Kinds /\ depth \in Int /\ nest = 0 /\ lost \in BOOLEAN
  BY DEF SkipToSemicolonOrBrace, Running, Types
<1>2. Weight(Head(stack)) = 0
  BY <1>1, SymbolFacts, PlainWeighsNothing
<1>3. \/ stack' = Tail(stack) /\ UNCHANGED <<current, depth, lost>>
      \/ /\ current # "rbrace" /\ lost' = (lost \/ current = "lbrace")
         /\ UNCHANGED stack /\ Advance
  BY DEF SkipToSemicolonOrBrace
<1>4. CASE stack' = Tail(stack) /\ UNCHANGED <<current, depth, lost>>
  <2>1. Types'
    BY <1>1, <1>4, HeadFacts DEF Types, Followed
  <2>2. ASSUME ~lost' PROVE depth' = Open(stack') + nest' \/ (current' = "EOF" /\ failed')
    <3>1. depth = Open(stack) + nest \/ (current = "EOF" /\ failed)
      BY <1>1, <1>4, <2>2, PlacedKept
    <3> QED
      BY <1>1, <1>2, <1>4, <3>1, HeadFacts
  <2>3. Placed'
    BY <2>2 DEF Placed, Open
  <2> QED
    BY <1>1, <2>1, <2>3
<1>5. CASE /\ current # "rbrace" /\ lost' = (lost \/ current = "lbrace")
           /\ UNCHANGED stack /\ Advance
  <2>1. /\ current' \in Kinds /\ (current = "EOF" => current' = "EOF")
        /\ (~lost' => depth' = depth + Brace(current)) /\ (lost' => depth' = 0)
    BY <1>1, <1>5, AdvanceFacts
  <2>2. ~lost' => Brace(current) = 0
    BY <1>5 DEF Brace
  <2>3. Types'
    BY <1>1, <1>5, <2>1, <2>2 DEF Types, Followed
  <2>4. ASSUME ~lost' PROVE depth' = Open(stack') + nest' \/ (current' = "EOF" /\ failed')
    <3>1. depth = Open(stack) + nest \/ (current = "EOF" /\ failed)
      BY <1>1, <1>5, <2>4, PlacedKept
    <3> QED
      BY <1>1, <1>5, <2>1, <2>2, <2>4, <3>1
  <2>5. Placed'
    BY <2>4 DEF Placed, Open
  <2> QED
    BY <1>1, <2>3, <2>5
<1> QED
  BY <1>3, <1>4, <1>5

(* A statement that is skipped counts its braces.                           *)
LEMMA SkipStatementStep ==
  ASSUME Types, Placed, SkipStatementWithBraces
  PROVE  Types' /\ Placed' /\ result' # "keymap"
<1>1. /\ result = "none" /\ stack # <<>> /\ Head(stack) = "SkipStatement" /\ UNCHANGED <<saw, failed, result>>
      /\ current \in Kinds /\ depth \in Int /\ nest \in Int /\ lost \in BOOLEAN
  BY DEF SkipStatementWithBraces, Running, Types
<1>2. Weight(Head(stack)) = 0
  BY <1>1, SymbolFacts, PlainWeighsNothing
<1>3. CASE current = "EOF" \/ (current = "semicolon" /\ nest <= 0)
  <2>1. /\ stack' = Tail(stack) /\ nest' = 0 /\ lost' = (lost \/ nest # 0)
        /\ depth' = (IF lost' THEN 0 ELSE depth) /\ UNCHANGED current
    BY <1>3 DEF SkipStatementWithBraces
  <2>2. Types'
    BY <1>1, <2>1, HeadFacts DEF Types, Followed
  <2>3. ASSUME ~lost' PROVE depth' = Open(stack') + nest' \/ (current' = "EOF" /\ failed')
    <3>1. depth = Open(stack) + nest \/ (current = "EOF" /\ failed)
      BY <1>1, <2>1, <2>3, PlacedKept
    <3>2. nest = 0 /\ nest' = 0 /\ depth' = depth
      BY <2>1, <2>3
    <3>3. Open(stack') = Open(stack)
      BY <1>1, <1>2, <2>1, HeadFacts
    <3>4. Open(stack) \in Int
      BY <1>1, <1>2, HeadFacts
    <3> QED
      BY <1>1, <2>1, <3>1, <3>2, <3>3, <3>4
  <2>4. Placed'
    BY <2>3 DEF Placed, Open
  <2> QED
    BY <1>1, <2>2, <2>4
<1>4. CASE ~(current = "EOF" \/ (current = "semicolon" /\ nest <= 0))
  <2>1. nest' = nest + Brace(current) /\ UNCHANGED <<stack, lost>> /\ Advance
    BY <1>4 DEF SkipStatementWithBraces
  <2>2. /\ current' \in Kinds /\ current # "EOF" /\ Brace(current) \in Int
        /\ (~lost' => depth' = depth + Brace(current)) /\ (lost' => depth' = 0)
    BY <1>1, <1>4, <2>1, AdvanceFacts, BraceWeighs
  <2>3. Types'
    BY <1>1, <2>1, <2>2 DEF Types, Followed
  <2>4. ASSUME ~lost' PROVE depth' = Open(stack') + nest'
    <3>1. depth = Open(stack) + nest
      BY <1>1, <2>1, <2>2, <2>4, PlacedKept
    <3>2. Open(stack) \in Int
      BY <1>1, HeadFacts
    <3> QED
      BY <1>1, <2>1, <2>2, <2>4, <3>1, <3>2
  <2>5. Placed'
    BY <2>4 DEF Placed, Open
  <2> QED
    BY <1>1, <2>3, <2>5
<1> QED
  BY <1>3, <1>4

(* A section that is skipped ends with the brace that closes it, or the     *)
(* text ends and the semicolon behind it does not come.                     *)
LEMMA SkipSectionStep ==
  ASSUME Types, Placed, SkipSection
  PROVE  Types' /\ Placed' /\ result' # "keymap"
<1>1. /\ result = "none" /\ stack # <<>> /\ Head(stack) = "SkipSection" /\ UNCHANGED <<saw, failed, result, lost>>
      /\ current \in Kinds /\ depth \in Int /\ nest \in Int /\ lost \in BOOLEAN
  BY DEF SkipSection, Running, Types
<1>2. Weight(Head(stack)) = 1
  BY <1>1 DEF Weight, Closing
<1>3. CASE current = "EOF" \/ (current = "rbrace" /\ nest = 0)
  <2>1. stack' = Tail(stack) /\ nest' = 0 /\ Advance
    BY <1>3 DEF SkipSection
  <2>2. /\ current' \in Kinds /\ (current = "EOF" => current' = "EOF") /\ Brace(current) \in Int
        /\ (~lost' => depth' = depth + Brace(current)) /\ (lost' => depth' = 0)
    BY <1>1, <2>1, AdvanceFacts, BraceWeighs
  <2>3. Types'
    BY <1>1, <2>1, <2>2, HeadFacts DEF Types, Followed
  <2>4. stack' # <<>> /\ Head(stack') = "semicolon"
    <3>1. stack \in Seq(Symbols) /\ Followed(stack) /\ 1 \in DOMAIN stack /\ stack[1] = "SkipSection"
      BY <1>1 DEF Types
    <3>2. 1 + 1 \in DOMAIN stack /\ stack[1 + 1] = "semicolon"
      BY <3>1 DEF Followed
    <3> QED
      BY <2>1, <3>1, <3>2
  <2>5. ASSUME current = "EOF" PROVE Placed'
    <3>1. current' = "EOF" /\ stack' # <<>> /\ Head(stack)' = "semicolon"
      BY <2>2, <2>4, <2>5
    <3> QED
      BY <3>1 DEF Placed
  <2>6. ASSUME current # "EOF" PROVE Placed'
    <3>1. Brace(current) = -1 /\ nest = 0
      BY <1>3, <2>6 DEF Brace
    <3>2. ASSUME ~lost' PROVE depth' = Open(stack') + nest'
      <4>1. depth = Open(stack) + nest
        BY <1>1, <2>6, <3>2, PlacedKept
      <4> QED
        BY <1>1, <1>2, <2>1, <2>2, <3>1, <3>2, <4>1, HeadFacts
    <3> QED
      BY <3>2 DEF Placed, Open
  <2> QED
    BY <1>1, <2>3, <2>5, <2>6
<1>4. CASE ~(current = "EOF" \/ (current = "rbrace" /\ nest = 0))
  <2>1. nest' = nest + Brace(current) /\ UNCHANGED <<stack, lost>> /\ Advance
    BY <1>1, <1>4 DEF SkipSection
  <2>2. /\ current' \in Kinds /\ current # "EOF" /\ Brace(current) \in Int
        /\ (~lost' => depth' = depth + Brace(current)) /\ (lost' => depth' = 0)
    BY <1>1, <1>4, <2>1, AdvanceFacts, BraceWeighs
  <2>3. Types'
    BY <1>1, <2>1, <2>2 DEF Types, Followed
  <2>4. ASSUME ~lost' PROVE depth' = Open(stack') + nest'
    <3>1. depth = Open(stack) + nest
      BY <1>1, <2>1, <2>2, <2>4, PlacedKept
    <3>2. Open(stack) \in Int
      BY <1>1, HeadFacts
    <3> QED
      BY <1>1, <2>1, <2>2, <2>4, <3>1, <3>2
  <2>5. Placed'
    BY <2>4 DEF Placed, Open
  <2> QED
    BY <1>1, <2>3, <2>5
<1> QED
  BY <1>3, <1>4

(* Parse returns a keymap when nothing is expected any more.                *)
LEMMA FinishStep ==
  ASSUME Types, Placed, Finish
  PROVE  Types' /\ Placed' /\ AcceptedIsWhole'
<1>1. /\ result = "none" /\ stack = <<>> /\ result' = "keymap" /\ failed' = (failed \/ saw # Sections)
      /\ UNCHANGED <<current, stack, saw, nest, depth, lost>>
  BY DEF Finish
<1>2. nest = 0 /\ Open(stack) = 0
  <2>1. <<>> \in Seq(Plain)
    OBVIOUS
  <2> QED
    BY <1>1, <2>1, OpenPlain DEF Types
<1>3. Types'
  BY <1>1 DEF Types, Followed
<1>4. ~lost => depth = 0 \/ failed
  BY <1>1, <1>2 DEF Placed
<1> QED
  BY <1>1, <1>3, <1>4 DEF Placed, AcceptedIsWhole, Types

-----------------------------------------------------------------------------
(* The theorems.                                                            *)

(* IInv is inductive.                                                       *)
LEMMA Inductive == Spec => []IInv
<1>1. ASSUME Init PROVE IInv
  <2> DEFINE s == <<"xkb_keymap", "lbrace", "Sections", "rbrace", "?semicolon">>
  <2>1. /\ "xkb_keymap" \in Plain /\ "Sections" \in Plain /\ "?semicolon" \in Plain
        /\ Plain \subseteq Symbols /\ {"lbrace", "rbrace"} \subseteq Symbols
    <3>1. "xkb_keymap" \in Words /\ "Sections" \in Calls
      BY DEF Words, Calls
    <3> QED
      BY <3>1, SymbolFacts DEF Plain, Symbols, Kinds, Marks
  <2>2. /\ s \in Seq(Symbols) /\ DOMAIN s = 1..5 /\ s[2] = "lbrace" /\ s[4] = "rbrace"
        /\ s[1] \in Plain /\ s[3] \in Plain /\ s[5] \in Plain
    BY <2>1
  <2> HIDE DEF s
  <2>3. \A k \in DOMAIN s : k \in {2, 4} \/ s[k] \in Plain
    BY <2>2
  <2>4. s \in Seq(Symbols) /\ Open(s) = 0 /\ Followed(s)
    BY <2>2, <2>3, BalancedPair DEF Balanced, Closing
  <2>5. stack = s
    BY <1>1 DEF Init, s
  <2>6. Types
    <3>1. current \in Kinds
      BY <1>1, ParserAssumption DEF Init
    <3>2. stack \in Seq(Symbols) /\ Followed(stack)
      BY <2>4, <2>5
    <3>3. saw \subseteq Sections /\ nest = 0 /\ nest \in Int /\ depth \in Int
      BY <1>1 DEF Init
    <3>4. failed \in BOOLEAN /\ lost \in BOOLEAN /\ result \in {"none", "keymap", "nil"}
      BY <1>1 DEF Init
    <3> QED
      BY <3>1, <3>2, <3>3, <3>4 DEF Types
  <2>7. Placed /\ AcceptedIsWhole
    BY <1>1, <2>4, <2>5 DEF Init, Placed, AcceptedIsWhole
  <2> QED
    BY <2>6, <2>7 DEF IInv
<1>2. ASSUME IInv, [Next]_vars PROVE IInv'
  <2>1. Types /\ Placed /\ AcceptedIsWhole
    BY <1>2 DEF IInv
  <2>2. result' # "keymap" => AcceptedIsWhole'
    BY DEF AcceptedIsWhole
  <2>3. CASE Expect
    BY <2>1, <2>2, <2>3, ExpectStep DEF IInv
  <2>4. CASE ReturnError
    BY <2>1, <2>2, <2>4, ReturnErrorStep DEF IInv
  <2>5. CASE Match
    BY <2>1, <2>2, <2>5, MatchStep DEF IInv
  <2>6. CASE Call
    BY <2>1, <2>2, <2>6, CallStep DEF IInv
  <2>7. CASE SkipToSemicolonOrBrace
    BY <2>1, <2>2, <2>7, SkipStep DEF IInv
  <2>8. CASE SkipStatementWithBraces
    BY <2>1, <2>2, <2>8, SkipStatementStep DEF IInv
  <2>9. CASE SkipSection
    BY <2>1, <2>2, <2>9, SkipSectionStep DEF IInv
  <2>10. CASE Finish
    BY <2>1, <2>10, FinishStep DEF IInv
  <2>11. CASE UNCHANGED vars
    <3>1. Types' /\ Placed' /\ AcceptedIsWhole'
      BY <2>1, <2>11 DEF vars, Types, Followed, Placed, Open, AcceptedIsWhole
    <3> QED
      BY <3>1 DEF IInv
  <2> QED
    BY <1>2, <2>3, <2>4, <2>5, <2>6, <2>7, <2>8, <2>9, <2>10, <2>11 DEF Next
<1> QED
  BY <1>1, <1>2, PTL DEF Spec

(* In every text, of any length and with any errors, the parser is where it *)
(* believes to be until the text ends or one of the three ways of losing    *)
(* the place is taken: the braces it still expects are those that are open. *)
THEOREM KnowsPlace == Spec => []KnowsItsPlace
<1>1. ASSUME IInv PROVE KnowsItsPlace
  BY <1>1 DEF IInv, Placed, KnowsItsPlace
<1> QED
  BY <1>1, Inductive, PTL

(* A text that Parse takes without an error and without losing the place is *)
(* whole: it has the four sections and all its braces are closed.           *)
THEOREM Accepted == Spec => []AcceptedIsWhole
<1>1. ASSUME IInv PROVE AcceptedIsWhole
  BY <1>1 DEF IInv
<1> QED
  BY <1>1, Inductive, PTL

-----------------------------------------------------------------------------
(* The lexer, which the parser calls for its next token, over all texts.    *)
VARIABLES text, at, start, pc, buf, tokens
Lex == INSTANCE Lexer WITH Texts <- Seq(0..255)

\* The operators of the library are the same ones in the instance.
LEMMA SameOperators ==
  ASSUME NEW S
  PROVE  /\ Lex!Max(S) = Max(S) /\ Lex!Min(S) = Min(S)
         /\ Lex!Cardinality(S) = Cardinality(S)
<1>1. Lex!Max(S) = Max(S) /\ Lex!Min(S) = Min(S)
  BY DEF Lex!Max, Max, Lex!Min, Min
<1>2. Lex!Cardinality(S) = Cardinality(S)
  BY DEF Lex!Cardinality, Cardinality
<1> QED
  BY <1>1, <1>2

-----------------------------------------------------------------------------
(* The inductive invariant.                                                 *)

\* The column as it is counted forwards.
Exact(c) == c.col = 1 + Lex!RunesOnLine(c.pos)

\* A cursor at a place of the text with its line and column, exact if the
\* last read moved: then backup may take it back once.
Cursor(c) == c = [pos |-> c.pos, line |-> c.line, col |-> c.col, width |-> c.width]
Good(c) ==
  /\ Cursor(c)
  /\ c.pos \in 0..Len(text) /\ c.width \in 0..1
  /\ Lex!Placed(c.pos, c.line, c.col)
  /\ c.width = 1 => c.pos >= 1 /\ Exact(c)

LexerInv ==
  /\ text \in Seq(0..255)
  /\ Good(at)
  /\ Lex!Placed(start.pos, start.line, start.col)
  /\ \A i \in DOMAIN tokens : Lex!Placed(tokens[i].from, tokens[i].line, tokens[i].col)
  /\ \E set : tokens \in Seq(set)

-----------------------------------------------------------------------------
(* Lines.                                                                   *)

NewLines(p) == {i \in 1..p : text[i] = Lex!NL}

(* The runes of a line begin behind its last newline.                       *)
LEMMA LineFacts ==
  ASSUME NEW p \in Nat
  PROVE  /\ Lex!LineStart(p) \in 0..p
         /\ \A i \in NewLines(p) : i <= Lex!LineStart(p)
         /\ Lex!LineStart(p) \in {0} \cup NewLines(p)
         /\ Lex!RunesOnLine(p) \in Nat
         /\ IsFiniteSet(NewLines(p)) /\ Cardinality(NewLines(p)) \in Nat
<1>1. IsFiniteSet(1..p)
  BY FS_Interval
<1>2. NewLines(p) \subseteq 1..p
  BY DEF NewLines
<1>3. IsFiniteSet(NewLines(p)) /\ Cardinality(NewLines(p)) \in Nat
  BY <1>1, <1>2, FS_Subset, FS_CardinalityType
<1>4. IsFiniteSet({0} \cup NewLines(p))
  <2>1. IsFiniteSet(NewLines(p) \cup {0})
    BY <1>3, FS_AddElement
  <2>2. NewLines(p) \cup {0} = {0} \cup NewLines(p)
    OBVIOUS
  <2> QED
    BY <2>1, <2>2
<1> DEFINE S == {0} \cup NewLines(p)
<1>5. S \in SUBSET Nat /\ S # {}
  BY <1>2
<1>6. Lex!LineStart(p) = Max(S)
  BY SameOperators DEF Lex!LineStart, NewLines
<1>7. Max(S) \in S /\ \A y \in S : y <= Max(S)
  <2> HIDE DEF S
  <2> QED
    BY <1>4, <1>5, MaxBound DEF S
<1>8. Lex!LineStart(p) \in 0..p
  BY <1>2, <1>6, <1>7
<1>9. Lex!RunesOnLine(p) \in Nat
  BY <1>8 DEF Lex!RunesOnLine
<1>10. \A i \in NewLines(p) : i <= Lex!LineStart(p)
  BY <1>6, <1>7
<1>11. Lex!LineStart(p) \in {0} \cup NewLines(p)
  BY <1>6, <1>7
<1> QED
  BY <1>3, <1>8, <1>9, <1>10, <1>11

(* A run without newlines is on one line.                                   *)
LEMMA SameLine ==
  ASSUME NEW p \in Nat, NEW q \in Nat, p <= q, \A i \in (p + 1)..q : text[i] # Lex!NL
  PROVE  /\ NewLines(q) = NewLines(p)
         /\ Lex!LineStart(q) = Lex!LineStart(p)
         /\ Lex!RunesOnLine(q) = Lex!RunesOnLine(p) + (q - p)
<1>1. NewLines(q) = NewLines(p)
  BY DEF NewLines
<1>2. Lex!LineStart(q) = Lex!LineStart(p)
  BY <1>1 DEF Lex!LineStart, NewLines
<1>3. Lex!LineStart(p) \in Int
  BY LineFacts
<1> QED
  BY <1>1, <1>2, <1>3 DEF Lex!RunesOnLine

(* A newline ends a line.                                                   *)
LEMMA NextLine ==
  ASSUME NEW p \in Nat, text[p + 1] = Lex!NL
  PROVE  /\ Cardinality(NewLines(p + 1)) = Cardinality(NewLines(p)) + 1
         /\ Lex!RunesOnLine(p + 1) = 0
<1>1. NewLines(p + 1) = NewLines(p) \cup {p + 1} /\ p + 1 \notin NewLines(p)
  BY DEF NewLines
<1>2. Cardinality(NewLines(p + 1)) = Cardinality(NewLines(p)) + 1
  BY <1>1, LineFacts, FS_AddElement
<1>3. p + 1 \in Nat
  OBVIOUS
<1>4. p + 1 <= Lex!LineStart(p + 1) /\ Lex!LineStart(p + 1) \in 0..(p + 1)
  BY <1>1, <1>3, LineFacts
<1>5. Lex!LineStart(p + 1) = p + 1
  BY <1>4
<1> QED
  BY <1>2, <1>5 DEF Lex!RunesOnLine

(* The place of a cursor, by its lines.                                     *)
LEMMA PlacedLines ==
  ASSUME NEW pos, NEW line, NEW col
  PROVE  Lex!Placed(pos, line, col) <=>
           /\ line = 1 + Cardinality(NewLines(pos))
           /\ \/ col = 1 + Lex!RunesOnLine(pos)
              \/ pos < Len(text) /\ text[pos + 1] = Lex!NL /\ col = 1 + Lex!BytesOnLine(pos)
  BY SameOperators DEF Lex!Placed, NewLines

-----------------------------------------------------------------------------
(* The cursor.                                                              *)

(* next keeps the place, and can be taken back if it moved.                 *)
LEMMA AdvanceGood ==
  ASSUME text \in Seq(0..255), NEW c, Good(c)
  PROVE  /\ Good(Lex!Advance(c))
         /\ c.pos < Len(text) => Lex!Advance(c).pos = c.pos + 1 /\ Lex!Advance(c).width = 1
<1> DEFINE d == Lex!Advance(c)
<1>1. /\ c.pos \in 0..Len(text) /\ Len(text) \in Nat /\ c.line = 1 + Cardinality(NewLines(c.pos))
      /\ Exact(c) \/ (c.pos < Len(text) /\ text[c.pos + 1] = Lex!NL)
      /\ c = [pos |-> c.pos, line |-> c.line, col |-> c.col, width |-> c.width]
  BY PlacedLines DEF Good, Exact, Cursor
<1>2. CASE c.pos >= Len(text)
  <2>1. d = [c EXCEPT !.width = 0]
    BY <1>2 DEF Lex!Advance
  <2>2. d.pos = c.pos /\ d.line = c.line /\ d.col = c.col /\ d.width = 0
    BY <1>1, <2>1
  <2>3. d = [pos |-> d.pos, line |-> d.line, col |-> d.col, width |-> d.width]
    BY <1>1, <2>1
  <2> QED
    BY <1>1, <1>2, <2>2, <2>3 DEF Good, Cursor
<1>3. CASE c.pos < Len(text)
  <2>1. Lex!Rune(c) = text[c.pos + 1] /\ c.pos + 1 \in Nat /\ c.pos \in Nat
    BY <1>1, <1>3 DEF Lex!Rune
  <2>2. d = [pos |-> c.pos + 1, width |-> 1,
             line |-> IF Lex!Rune(c) = Lex!NL THEN c.line + 1 ELSE c.line,
             col |-> IF Lex!Rune(c) = Lex!NL THEN 1 ELSE c.col + 1]
    BY <1>1, <1>3 DEF Lex!Advance
  <2> HIDE DEF d
  <2>3. d.pos = c.pos + 1 /\ d.width = 1
    BY <2>2
  <2>4. CASE Lex!Rune(c) = Lex!NL
    <3>1. d.line = c.line + 1 /\ d.col = 1
      BY <2>2, <2>4
    <3>2. Cardinality(NewLines(d.pos)) = Cardinality(NewLines(c.pos)) + 1 /\ Lex!RunesOnLine(d.pos) = 0
      BY <2>1, <2>3, <2>4, NextLine
    <3>3. Cardinality(NewLines(c.pos)) \in Nat
      BY <2>1, LineFacts
    <3>4. d.line = 1 + Cardinality(NewLines(d.pos)) /\ d.col = 1 + Lex!RunesOnLine(d.pos)
      BY <1>1, <3>1, <3>2, <3>3
    <3>5. Lex!Placed(d.pos, d.line, d.col) /\ Exact(d)
      BY <3>4, PlacedLines DEF Exact
    <3> QED
      BY <1>1, <1>3, <2>2, <2>3, <3>5 DEF Good, Cursor, d
  <2>5. CASE Lex!Rune(c) # Lex!NL
    <3>1. d.line = c.line /\ d.col = c.col + 1 /\ c.col = 1 + Lex!RunesOnLine(c.pos)
      BY <1>1, <2>1, <2>2, <2>5 DEF Exact
    <3>2. \A i \in (c.pos + 1)..(c.pos + 1) : text[i] # Lex!NL
      BY <2>1, <2>5
    <3>3. /\ NewLines(d.pos) = NewLines(c.pos)
          /\ Lex!RunesOnLine(d.pos) = Lex!RunesOnLine(c.pos) + ((c.pos + 1) - c.pos)
      BY <2>1, <2>3, <3>2, SameLine
    <3>4. Lex!RunesOnLine(c.pos) \in Nat
      BY <2>1, LineFacts
    <3>5. d.line = 1 + Cardinality(NewLines(d.pos)) /\ d.col = 1 + Lex!RunesOnLine(d.pos)
      BY <1>1, <2>1, <3>1, <3>3, <3>4
    <3>6. Lex!Placed(d.pos, d.line, d.col) /\ Exact(d)
      BY <3>5, PlacedLines DEF Exact
    <3> QED
      BY <1>1, <1>3, <2>2, <2>3, <3>6 DEF Good, Cursor, d
  <2> QED
    BY <2>4, <2>5
<1> QED
  BY <1>1, <1>2, <1>3

(* At the end of the text it stays.                                         *)
LEMMA AdvancePos ==
  ASSUME text \in Seq(0..255), NEW c, Good(c)
  PROVE  Lex!Advance(c).pos = IF c.pos < Len(text) THEN c.pos + 1 ELSE c.pos
<1>1. c.pos \in 0..Len(text) /\ Len(text) \in Nat
  BY DEF Good
<1>2. CASE c.pos < Len(text)
  BY <1>2, AdvanceGood
<1>3. CASE ~(c.pos < Len(text))
  <2>1. Lex!Advance(c) = [c EXCEPT !.width = 0]
    BY <1>1, <1>3 DEF Lex!Advance
  <2> QED
    BY <1>3, <2>1 DEF Good, Cursor
<1> QED
  BY <1>2, <1>3

(* backup keeps the place: it is given back as next found it, but that a     *)
(* column before a newline is counted in bytes.                             *)
LEMMA BackupGood ==
  ASSUME text \in Seq(0..255), NEW c, Good(c)
  PROVE  /\ Good(Lex!Backup(c))
         /\ c.width = 1 => Lex!Backup(c).pos = c.pos - 1 /\ Lex!Backup(c).width = 0
<1> DEFINE d == Lex!Backup(c)
           p == c.pos - 1
<1>1. /\ c.pos \in 0..Len(text) /\ Len(text) \in Nat /\ c.line = 1 + Cardinality(NewLines(c.pos))
      /\ c = [pos |-> c.pos, line |-> c.line, col |-> c.col, width |-> c.width]
      /\ c.width \in 0..1
      /\ c.width = 1 => c.pos >= 1 /\ c.col = 1 + Lex!RunesOnLine(c.pos)
  BY PlacedLines DEF Good, Exact, Cursor
<1>2. CASE c.width = 0
  <2>1. d = c
    BY <1>2 DEF Lex!Backup
  <2> QED
    BY <1>2, <2>1
<1>3. CASE c.width # 0
  <2>1. p \in Nat /\ p + 1 = c.pos /\ p < Len(text) /\ p \in 0..Len(text) /\ c.width = 1
    BY <1>1, <1>3
  <2>2. Cardinality(NewLines(p)) \in Nat /\ Lex!RunesOnLine(p) \in Nat
    BY <2>1, LineFacts
  <2> HIDE DEF p
  <2>3. CASE text[p + 1] = Lex!NL
    <3>1. d = [pos |-> p, width |-> 0, line |-> c.line - 1, col |-> 1 + Lex!BytesOnLine(p)]
      BY <1>3, <2>3 DEF Lex!Backup, p
    <3> HIDE DEF d
    <3>2. d.pos = p /\ d.width = 0 /\ d.line = c.line - 1 /\ d.col = 1 + Lex!BytesOnLine(p)
      BY <3>1
    <3>3. Cardinality(NewLines(c.pos)) = Cardinality(NewLines(p)) + 1
      BY <2>1, <2>3, NextLine
    <3>4. d.line = 1 + Cardinality(NewLines(d.pos))
      BY <1>1, <2>2, <3>2, <3>3
    <3>5. Lex!Placed(d.pos, d.line, d.col)
      BY <2>1, <2>3, <3>2, <3>4, PlacedLines
    <3>6. d = [pos |-> d.pos, line |-> d.line, col |-> d.col, width |-> d.width]
      BY <3>1, <3>2
    <3> QED
      BY <2>1, <3>2, <3>5, <3>6 DEF Good, Cursor, d, p
  <2>4. CASE text[p + 1] # Lex!NL
    <3>1. d = [c EXCEPT !.pos = p, !.col = @ - 1, !.width = 0]
      BY <1>3, <2>4 DEF Lex!Backup, p
    <3> HIDE DEF d
    <3>2. d.pos = p /\ d.width = 0 /\ d.line = c.line /\ d.col = c.col - 1
      BY <1>1, <3>1
    <3>3. \A i \in (p + 1)..c.pos : text[i] # Lex!NL
      BY <2>1, <2>4
    <3>4. NewLines(c.pos) = NewLines(p) /\ Lex!RunesOnLine(c.pos) = Lex!RunesOnLine(p) + (c.pos - p)
      BY <1>1, <2>1, <3>3, SameLine
    <3>5. d.line = 1 + Cardinality(NewLines(d.pos)) /\ d.col = 1 + Lex!RunesOnLine(d.pos)
      BY <1>1, <2>1, <2>2, <3>2, <3>4
    <3>6. Lex!Placed(d.pos, d.line, d.col)
      BY <3>5, PlacedLines
    <3>7. d = [pos |-> d.pos, line |-> d.line, col |-> d.col, width |-> d.width]
      BY <1>1, <3>1, <3>2
    <3> QED
      BY <2>1, <3>2, <3>6, <3>7 DEF Good, Cursor, d, p
  <2> QED
    BY <2>3, <2>4
<1> QED
  BY <1>1, <1>2, <1>3

(* A look at the next rune moves nothing.                                   *)
LEMMA PeekGood ==
  ASSUME text \in Seq(0..255), NEW c, Good(c)
  PROVE  Good(Lex!Peek(c)) /\ Lex!Peek(c).pos = c.pos
<1>1. Good(Lex!Advance(c)) /\ c.pos \in 0..Len(text) /\ Len(text) \in Nat
  BY AdvanceGood DEF Good
<1>2. CASE c.pos < Len(text)
  <2>1. Lex!Advance(c).pos = c.pos + 1 /\ Lex!Advance(c).width = 1
    BY <1>2, AdvanceGood
  <2>2. Lex!Peek(c).pos = (c.pos + 1) - 1
    BY <1>1, <2>1, BackupGood DEF Lex!Peek
  <2> QED
    BY <1>1, <2>2, BackupGood DEF Lex!Peek
<1>3. CASE c.pos >= Len(text)
  <2>1. Lex!Advance(c) = [c EXCEPT !.width = 0]
    BY <1>3 DEF Lex!Advance
  <2>2. Lex!Advance(c).pos = c.pos /\ Lex!Advance(c).width = 0
    BY <2>1 DEF Good, Cursor
  <2>3. Lex!Peek(c) = Lex!Advance(c)
    BY <2>2 DEF Lex!Peek, Lex!Backup
  <2> QED
    BY <1>1, <2>2, <2>3
<1> QED
  BY <1>1, <1>2, <1>3

(* Two backups after one read take back one rune.                           *)
LEMMA BackTwice ==
  ASSUME text \in Seq(0..255), NEW c, Good(c)
  PROVE  /\ Good(Lex!Backup(Lex!Backup(Lex!Advance(c))))
         /\ Lex!Backup(Lex!Backup(Lex!Advance(c))).pos = c.pos
<1>1. Good(Lex!Peek(c)) /\ Lex!Peek(c).pos = c.pos
  BY PeekGood
<1>2. Good(Lex!Backup(Lex!Peek(c)))
  BY <1>1, BackupGood
<1>3. Lex!Peek(c).width = 0
  <2>1. Good(Lex!Advance(c))
    BY AdvanceGood
  <2>2. CASE Lex!Advance(c).width = 1
    BY <2>1, <2>2, BackupGood DEF Lex!Peek
  <2>3. CASE Lex!Advance(c).width = 0
    BY <2>3 DEF Lex!Peek, Lex!Backup
  <2> QED
    BY <2>1, <2>2, <2>3 DEF Good
<1> QED
  BY <1>1, <1>2, <1>3 DEF Lex!Peek, Lex!Backup

(* A rune that is no newline and is put back leaves the column exact.        *)
LEMMA PutBack ==
  ASSUME text \in Seq(0..255), NEW c, Good(c), c.pos < Len(text), text[c.pos + 1] # Lex!NL
  PROVE  /\ Good(Lex!Backup(Lex!Advance(c)))
         /\ Lex!Backup(Lex!Advance(c)).pos = c.pos
<1>1. Good(Lex!Advance(c)) /\ Lex!Advance(c).pos = c.pos + 1 /\ Lex!Advance(c).width = 1
  BY AdvanceGood
<1>2. Good(Lex!Backup(Lex!Advance(c))) /\ Lex!Backup(Lex!Advance(c)).pos = Lex!Advance(c).pos - 1
  BY <1>1, BackupGood
<1>3. c.pos \in Int
  BY DEF Good
<1> QED
  BY <1>1, <1>2, <1>3

-----------------------------------------------------------------------------
(* Runs.                                                                    *)

(* acceptRun stops at the first rune that is not valid.                     *)
LEMMA RunEndFacts ==
  ASSUME text \in Seq(0..255), NEW limit \in 0..Len(text), NEW p \in 0..limit, NEW valid
  PROVE  /\ Lex!RunEnd(p, valid, limit) \in p..limit
         /\ \A i \in (p + 1)..Lex!RunEnd(p, valid, limit) : text[i] \in valid
         /\ p < limit /\ text[p + 1] \in valid => p < Lex!RunEnd(p, valid, limit)
         /\ \/ Lex!RunEnd(p, valid, limit) = limit
            \/ text[Lex!RunEnd(p, valid, limit) + 1] \notin valid
<1> DEFINE Stop(q) == q = limit \/ text[q + 1] \notin valid
           S == {q \in p..limit : Stop(q)}
           Fits(q) == /\ \A i \in (p + 1)..q : text[i] \in valid
                      /\ Stop(q)
<1>1. Len(text) \in Nat /\ limit \in Nat /\ p \in Nat
  OBVIOUS
<1>2. S \in SUBSET Nat /\ limit \in S
  BY <1>1
<1>3. PICK m \in S : \A q \in S : m <= q
  <2> HIDE DEF S
  <2> QED
    BY <1>2, MinMember
<1>4. m \in p..limit /\ Stop(m)
  BY <1>3
<1>5. ASSUME NEW i \in (p + 1)..m PROVE text[i] \in valid
  <2>1. i - 1 \in p..limit /\ i - 1 < m /\ (i - 1) + 1 = i
    BY <1>1, <1>4
  <2>2. ~Stop(i - 1)
    <3>1. SUFFICES ASSUME Stop(i - 1) PROVE FALSE
      OBVIOUS
    <3>2. i - 1 \in S
      BY <2>1, <3>1
    <3>3. m <= i - 1
      <4> HIDE DEF S
      <4> QED
        BY <1>3, <3>2
    <3>4. m \in Int /\ i \in Int
      BY <1>1, <1>4
    <3> QED
      BY <2>1, <3>3, <3>4
  <2> QED
    BY <2>1, <2>2
<1>6. Fits(m)
  BY <1>4, <1>5
<1>7. Lex!RunEnd(p, valid, limit) = CHOOSE q \in p..limit : Fits(q)
  BY DEF Lex!RunEnd
<1> HIDE DEF Fits
<1>8. Lex!RunEnd(p, valid, limit) \in p..limit /\ Fits(Lex!RunEnd(p, valid, limit))
  BY <1>4, <1>6, <1>7
<1> DEFINE q == Lex!RunEnd(p, valid, limit)
<1>9. q \in p..limit /\ Fits(q)
  BY <1>8
<1> HIDE DEF q
<1>10. /\ \A i \in (p + 1)..q : text[i] \in valid
       /\ q = limit \/ text[q + 1] \notin valid
  BY <1>9 DEF Fits
<1>11. p < limit /\ text[p + 1] \in valid => p < q
  BY <1>1, <1>9, <1>10
<1> QED
  BY <1>9, <1>10, <1>11 DEF q

\* A run of runes on one line.
Run(p, q) == q \in p..Len(text) /\ \A i \in (p + 1)..q : text[i] # Lex!NL

(* A run without newlines is one.                                           *)
LEMMA RunEndRun ==
  ASSUME text \in Seq(0..255), NEW p \in 0..Len(text), NEW valid, Lex!NL \notin valid
  PROVE  Run(p, Lex!RunEnd(p, valid, Len(text)))
<1>1. Len(text) \in 0..Len(text)
  OBVIOUS
<1> QED
  BY <1>1, RunEndFacts DEF Run

(* Two runs in a row are one.                                               *)
LEMMA RunRun ==
  ASSUME text \in Seq(0..255), NEW p \in Nat, NEW q, NEW r, Run(p, q), Run(q, r)
  PROVE  Run(p, r)
<1>1. q \in Nat /\ p <= q /\ r \in Nat /\ q <= r /\ r <= Len(text) /\ Len(text) \in Nat
  BY DEF Run
<1>2. ASSUME NEW i \in (p + 1)..r PROVE text[i] # Lex!NL
  <2>1. i \in (p + 1)..q \/ i \in (q + 1)..r
    BY <1>1
  <2> QED
    BY <2>1 DEF Run
<1> QED
  BY <1>1, <1>2 DEF Run

(* The kinds of rune that runs are made of have no newline.                 *)
LEMMA NoNewLine ==
  /\ Lex!NL \notin Lex!Octal /\ Lex!NL \notin Lex!Digit /\ Lex!NL \notin Lex!HexDigit /\ Lex!NL \notin Lex!IdentChar
  /\ Lex!NL \notin Lex!IdentStart /\ Lex!NL \notin {88, 120}
  /\ Lex!Octal \subseteq Lex!Digit
  BY DEF Lex!NL, Lex!Octal, Lex!Digit, Lex!HexDigit, Lex!IdentChar, Lex!IdentStart, Lex!Letter

(* A number is on one line.                                                 *)
LEMMA NumberRun ==
  ASSUME text \in Seq(0..255), NEW p \in Nat, p < Len(text), text[p + 1] \in Lex!Digit
  PROVE  Run(p, Lex!NumberEnd(p))
<1>1. Len(text) \in Nat /\ p + 1 \in 0..Len(text)
  OBVIOUS
<1>2. Run(p, p + 1)
  BY <1>1, NoNewLine DEF Run
<1>3. CASE text[p + 1] # 48
  <2>1. Lex!NumberEnd(p) = Lex!RunEnd(p + 1, Lex!Digit, Len(text))
    BY <1>3 DEF Lex!NumberEnd
  <2> QED
    BY <1>1, <1>2, <2>1, NoNewLine, RunEndRun, RunRun
<1>4. CASE text[p + 1] = 48 /\ p + 1 < Len(text) /\ text[p + 2] \in {88, 120}
  <2>1. Lex!NumberEnd(p) = Lex!RunEnd(p + 2, Lex!HexDigit, Len(text))
    BY <1>4 DEF Lex!NumberEnd
  <2>2. p + 2 \in 0..Len(text) /\ p + 1 \in Nat
    BY <1>1, <1>4
  <2>3. Run(p + 1, p + 2)
    BY <1>1, <1>4, <2>2, NoNewLine DEF Run
  <2>4. Run(p, p + 2)
    BY <1>2, <2>2, <2>3, RunRun
  <2>5. Run(p + 2, Lex!RunEnd(p + 2, Lex!HexDigit, Len(text)))
    BY <2>2, NoNewLine, RunEndRun
  <2> QED
    BY <2>1, <2>4, <2>5, RunRun
<1>5. CASE text[p + 1] = 48 /\ ~(p + 1 < Len(text) /\ text[p + 2] \in {88, 120})
  <2> DEFINE m == Lex!RunEnd(p + 1, Lex!Octal, Len(text))
  <2>1. Lex!NumberEnd(p) = Lex!RunEnd(m, Lex!Digit, Len(text))
    BY <1>5 DEF Lex!NumberEnd
  <2>2. Run(p + 1, m)
    BY <1>1, NoNewLine, RunEndRun
  <2> HIDE DEF m
  <2>3. Run(p, m)
    BY <1>1, <1>2, <2>2, RunRun
  <2>4. m \in 0..Len(text)
    BY <1>1, <2>3 DEF Run
  <2>5. Run(m, Lex!RunEnd(m, Lex!Digit, Len(text)))
    BY <2>4, NoNewLine, RunEndRun
  <2> QED
    BY <2>1, <2>3, <2>5, RunRun
<1> QED
  BY <1>3, <1>4, <1>5

(* After a run the cursor is behind it.                                     *)
LEMMA JumpGood ==
  ASSUME text \in Seq(0..255), NEW c, Good(c), Exact(c), NEW q, Run(c.pos, q), NEW d,
         Cursor(d),
         d.pos = q, d.line = c.line, d.col = c.col + q - c.pos, d.width \in 0..1,
         d.width = 1 => q >= 1
  PROVE  Good(d)
<1>1. /\ c.pos \in Nat /\ q \in Nat /\ c.pos <= q /\ q \in 0..Len(text)
      /\ \A i \in (c.pos + 1)..q : text[i] # Lex!NL
  BY DEF Good, Run
<1>2. NewLines(q) = NewLines(c.pos) /\ Lex!RunesOnLine(q) = Lex!RunesOnLine(c.pos) + (q - c.pos)
  BY <1>1, SameLine
<1>3. c.line = 1 + Cardinality(NewLines(c.pos)) /\ c.col = 1 + Lex!RunesOnLine(c.pos)
  BY PlacedLines DEF Good, Exact, Cursor
<1>4. Lex!RunesOnLine(c.pos) \in Nat
  BY <1>1, LineFacts
<1>5. d.line = 1 + Cardinality(NewLines(d.pos)) /\ d.col = 1 + Lex!RunesOnLine(d.pos)
  <2>1. d.line = 1 + Cardinality(NewLines(q))
    BY <1>2, <1>3
  <2>2. d.col = (1 + Lex!RunesOnLine(c.pos)) + q - c.pos
    BY <1>3
  <2>3. PICK a \in Nat, x \in Nat : a = Lex!RunesOnLine(c.pos) /\ x = c.pos
    BY <1>1, <1>4
  <2>4. d.col = (1 + a) + q - x /\ Lex!RunesOnLine(q) = a + (q - x) /\ q \in Nat
    BY <1>1, <1>2, <2>2, <2>3
  <2>5. (1 + a) + q - x = 1 + (a + (q - x))
    BY <2>4
  <2>6. d.col = 1 + Lex!RunesOnLine(q)
    BY <2>4, <2>5
  <2> QED
    BY <2>1, <2>6
<1>6. Lex!Placed(d.pos, d.line, d.col) /\ Exact(d)
  BY <1>5, PlacedLines DEF Exact
<1> QED
  BY <1>1, <1>6 DEF Good

(* acceptRun keeps the place.                                               *)
LEMMA RunToGood ==
  ASSUME text \in Seq(0..255), NEW c, Good(c), Exact(c), NEW q, Run(c.pos, q)
  PROVE  Good(Lex!RunTo(c, q)) /\ Lex!RunTo(c, q).pos = q
<1> DEFINE d == [c EXCEPT !.pos = q, !.col = @ + q - c.pos]
<1>1. /\ c = [pos |-> c.pos, line |-> c.line, col |-> c.col, width |-> c.width]
      /\ c.width \in 0..1 /\ c.pos \in Nat /\ q \in Nat /\ c.pos <= q
      /\ c.width = 1 => c.pos >= 1
  BY DEF Good, Run, Cursor
<1>0. d = [c EXCEPT !.pos = q, !.col = @ + q - c.pos]
  OBVIOUS
<1>4. Lex!RunTo(c, q) = Lex!Peek(d)
  BY DEF Lex!RunTo
<1> HIDE DEF d
<1>2. d.pos = q /\ d.line = c.line /\ d.col = c.col + q - c.pos /\ d.width = c.width
  BY <1>0, <1>1
<1>3. Cursor(d)
  BY <1>0, <1>1, <1>2 DEF Cursor
<1>5. d.width \in 0..1 /\ (d.width = 1 => q >= 1)
  BY <1>1, <1>2
<1>6. Good(d)
  BY <1>2, <1>3, <1>5, JumpGood
<1> QED
  BY <1>2, <1>4, <1>6, PeekGood

(* An octal escape keeps the place, behind its digits.                      *)
LEMMA OctalGood ==
  ASSUME text \in Seq(0..255), NEW c, Good(c), c.pos < Len(text), text[c.pos + 1] \in Lex!Octal
  PROVE  /\ Good(Lex!OctalEscape(c).end)
         /\ c.pos < Lex!OctalEscape(c).end.pos
         /\ \A i \in (c.pos + 1)..Lex!OctalEscape(c).end.pos : text[i] \in Lex!Octal
<1> DEFINE limit == Lex!Min({c.pos + 3, Len(text)})
           q == Lex!RunEnd(c.pos, Lex!Octal, limit)
           d == [c EXCEPT !.pos = q, !.col = @ + q - c.pos, !.width = 1]
<1>1. Cursor(c) /\ c.pos \in Nat /\ Len(text) \in Nat /\ Exact(c)
  BY NoNewLine, PlacedLines DEF Good, Exact
<1>2. limit \in 0..Len(text) /\ c.pos < limit
  <2>1. {c.pos + 3, Len(text)} \in SUBSET Nat /\ {c.pos + 3, Len(text)} # {}
    BY <1>1
  <2>2. limit \in {c.pos + 3, Len(text)} /\ limit <= Len(text)
    <3>1. limit = Min({c.pos + 3, Len(text)})
      BY SameOperators
    <3>2. Min({c.pos + 3, Len(text)}) \in {c.pos + 3, Len(text)} /\ Min({c.pos + 3, Len(text)}) <= Len(text)
      BY <2>1, MinMember
    <3> HIDE DEF limit
    <3> QED
      BY <3>1, <3>2
  <2> HIDE DEF limit
  <2> QED
    BY <1>1, <2>2
<1>3. Lex!OctalEscape(c).end = IF q = c.pos + 3 THEN d ELSE Lex!Peek(d)
  BY DEF Lex!OctalEscape
<1>4. d = [c EXCEPT !.pos = q, !.col = @ + q - c.pos, !.width = 1]
  OBVIOUS
<1> HIDE DEF limit, d
<1>5. q \in c.pos..limit /\ c.pos < q /\ \A i \in (c.pos + 1)..q : text[i] \in Lex!Octal
  <2>1. c.pos \in 0..limit
    BY <1>1, <1>2
  <2> QED
    BY <1>2, <2>1, RunEndFacts
<1> HIDE DEF q
<1>6. Run(c.pos, q) /\ q >= 1
  BY <1>1, <1>2, <1>5, NoNewLine DEF Run
<1>7. d.pos = q /\ d.line = c.line /\ d.col = c.col + q - c.pos /\ d.width = 1
  BY <1>1, <1>4 DEF Cursor
<1>8. Cursor(d)
  BY <1>1, <1>4, <1>7 DEF Cursor
<1>9. Good(d)
  <2>1. d.width \in 0..1 /\ (d.width = 1 => q >= 1)
    BY <1>6, <1>7
  <2> QED
    BY <1>1, <1>6, <1>7, <1>8, <2>1, JumpGood
<1>10. Lex!OctalEscape(c).end.pos = q
  BY <1>3, <1>7, <1>9, PeekGood
<1> QED
  BY <1>3, <1>5, <1>9, <1>10, PeekGood

(* So does every escape, also at the end of the text.  One that is right is *)
(* made of one rune, or of digits after a digit or an x.                    *)
LEMMA EscapeGood ==
  ASSUME text \in Seq(0..255), NEW c, Good(c)
  PROVE  /\ Good(Lex!Escape(c).end)
         /\ c.pos <= Lex!Escape(c).end.pos
         /\ c.pos < Len(text) /\ ~(Lex!Escape(c).val < 0) =>
              \/ Lex!Escape(c).end.pos = c.pos + 1
              \/ /\ c.pos < Lex!Escape(c).end.pos
                 /\ \A i \in (c.pos + 1)..Lex!Escape(c).end.pos : text[i] \in Lex!HexDigit \cup {120}
<1> DEFINE a == Lex!Advance(c)
           d == Lex!Advance(a)
           f == Lex!Advance(d)
<1>1. Good(a) /\ Good(d) /\ Good(f)
  BY AdvanceGood
<1>2. c.pos \in Nat /\ Len(text) \in Nat /\ a.pos \in Nat /\ d.pos \in Nat /\ f.pos \in Nat
  BY <1>1 DEF Good
<1>3. /\ c.pos <= a.pos /\ a.pos <= d.pos /\ d.pos <= f.pos
      /\ c.pos < Len(text) => a.pos = c.pos + 1
      /\ a.pos < Len(text) => d.pos = a.pos + 1
      /\ d.pos < Len(text) => f.pos = d.pos + 1
  BY <1>1, <1>2, AdvancePos
<1> HIDE DEF a, d, f
<1>4. CASE Lex!Rune(c) \in Lex!Octal
  <2>1. c.pos < Len(text) /\ text[c.pos + 1] \in Lex!Octal
    BY <1>4 DEF Lex!Rune, Lex!EOF, Lex!Octal
  <2> DEFINE b == Lex!Backup(Lex!Advance(c))
  <2>2. Good(b) /\ b.pos = c.pos
    BY <2>1, NoNewLine, PutBack
  <2>3. /\ Good(Lex!OctalEscape(b).end) /\ c.pos < Lex!OctalEscape(b).end.pos
        /\ \A i \in (c.pos + 1)..Lex!OctalEscape(b).end.pos : text[i] \in Lex!Octal
    <3> HIDE DEF b
    <3> QED
      BY <2>1, <2>2, OctalGood
  <2>4. Lex!Escape(c) = Lex!OctalEscape(b)
    BY <1>4 DEF Lex!Escape
  <2>5. Lex!OctalEscape(b).end.pos \in Nat
    BY <2>3 DEF Good
  <2>6. Lex!Octal \subseteq Lex!HexDigit
    BY DEF Lex!Octal, Lex!HexDigit, Lex!Digit
  <2> QED
    BY <1>2, <2>3, <2>4, <2>5, <2>6
<1>5. CASE Lex!Rune(c) = 120
  <2>1. Lex!Escape(c) = Lex!HexEscape(a)
    <3>1. Lex!Rune(c) \notin Lex!Octal
      BY <1>5 DEF Lex!Octal
    <3> QED
      BY <1>5, <3>1 DEF Lex!Escape, a
  <2>2. Lex!HexEscape(a).end \in {d, f}
    BY DEF Lex!HexEscape, d, f
  <2>3. ASSUME ~(Lex!Escape(c).val < 0)
        PROVE  /\ Lex!Rune(a) \in Lex!HexDigit /\ Lex!Rune(d) \in Lex!HexDigit
               /\ Lex!HexEscape(a).end = f
    BY <2>1, <2>3 DEF Lex!HexEscape, d, f
  <2>4. Lex!EOF \notin Lex!HexDigit
    BY DEF Lex!EOF, Lex!HexDigit, Lex!Digit
  <2>5. ASSUME c.pos < Len(text), ~(Lex!Escape(c).val < 0)
        PROVE  /\ c.pos < f.pos /\ Lex!HexEscape(a).end = f
               /\ \A i \in (c.pos + 1)..f.pos : text[i] \in Lex!HexDigit \cup {120}
    <3>1. a.pos < Len(text) /\ text[a.pos + 1] \in Lex!HexDigit
      BY <2>3, <2>4, <2>5 DEF Lex!Rune
    <3>2. d.pos < Len(text) /\ text[d.pos + 1] \in Lex!HexDigit
      BY <2>3, <2>4, <2>5 DEF Lex!Rune
    <3>3. text[c.pos + 1] = 120
      BY <1>5, <2>5 DEF Lex!Rune
    <3>4. a.pos = c.pos + 1 /\ d.pos = c.pos + 2 /\ f.pos = c.pos + 3
      BY <1>2, <1>3, <2>5, <3>1, <3>2
    <3>5. ASSUME NEW i \in (c.pos + 1)..f.pos PROVE i = c.pos + 1 \/ i = a.pos + 1 \/ i = d.pos + 1
      BY <1>2, <3>4
    <3> QED
      BY <1>2, <2>3, <2>5, <3>1, <3>2, <3>3, <3>4, <3>5
  <2> QED
    BY <1>1, <1>2, <1>3, <2>1, <2>2, <2>5
<1>6. CASE Lex!Rune(c) \notin Lex!Octal \cup {120}
  <2>1. Lex!Escape(c).end = a
    BY <1>6 DEF Lex!Escape, Lex!EOF, a
  <2> QED
    BY <1>1, <1>2, <1>3, <2>1
<1> QED
  BY <1>4, <1>5, <1>6

-----------------------------------------------------------------------------
(* The steps.                                                               *)

\* The invariant of a text, a cursor, the start of a token and the tokens.
PlacedIn(t, pos, line, col) ==
  LET first == Max({0} \cup {i \in 1..pos : t[i] = Lex!NL})
  IN /\ line = 1 + Cardinality({i \in 1..pos : t[i] = Lex!NL})
     /\ \/ col = 1 + (pos - first)
        \/ /\ pos < Len(t) /\ t[pos + 1] = Lex!NL
           /\ col = 1 + ((pos - first) + Cardinality({i \in first + 1 .. pos : t[i] > 127}))
GoodIn(t, c) ==
  LET first == Max({0} \cup {i \in 1..c.pos : t[i] = Lex!NL})
  IN /\ Cursor(c)
     /\ c.pos \in 0..Len(t) /\ c.width \in 0..1
     /\ PlacedIn(t, c.pos, c.line, c.col)
     /\ c.width = 1 => c.pos >= 1 /\ c.col = 1 + (c.pos - first)
InvIn(t, c, s, ts) ==
  /\ t \in Seq(0..255)
  /\ GoodIn(t, c)
  /\ PlacedIn(t, s.pos, s.line, s.col)
  /\ \A i \in DOMAIN ts : PlacedIn(t, ts[i].from, ts[i].line, ts[i].col)
  /\ \E set : ts \in Seq(set)

(* LexerInv is InvIn of the variables.                                          *)
LEMMA InvIsIn ==
  /\ LexerInv <=> InvIn(text, at, start, tokens)
  /\ LexerInv' <=> InvIn(text', at', start', tokens')
  BY DEF LexerInv, InvIn, Good, GoodIn, Cursor, Exact, Lex!Placed, PlacedIn,
         Lex!RunesOnLine, Lex!BytesOnLine, Lex!LineStart, Lex!Max, Max, Lex!Cardinality, Cardinality

(* A good cursor is one in the text.                                        *)
LEMMA GoodIsIn ==
  ASSUME NEW c
  PROVE  Good(c) <=> GoodIn(text, c)
  BY DEF Good, GoodIn, Cursor, Exact, Lex!Placed, PlacedIn,
         Lex!RunesOnLine, Lex!BytesOnLine, Lex!LineStart, Lex!Max, Max, Lex!Cardinality, Cardinality

(* A loop that goes on at a good cursor keeps the invariant.                *)
LEMMA GoStep ==
  ASSUME LexerInv, NEW loop, NEW c, Good(c), Lex!Go(loop, c)
  PROVE  LexerInv'
<1>1. at' = c /\ UNCHANGED <<text, start, tokens>>
  BY DEF Lex!Go
<1>2. InvIn(text, at, start, tokens) /\ GoodIn(text, c)
  BY InvIsIn, GoodIsIn
<1>3. InvIn(text', at', start', tokens')
  BY <1>1, <1>2 DEF InvIn
<1> QED
  BY <1>3, InvIsIn

(* So does a token that begins at a good place.                             *)
LEMMA ReturnStep ==
  ASSUME LexerInv, NEW type, NEW value, NEW c, Good(c), Lex!Return(type, value, c),
         start' = start \/ start' = at
  PROVE  LexerInv'
<1> DEFINE token == [type |-> type, value |-> value, from |-> start'.pos,
                     to |-> c.pos, line |-> start'.line, col |-> start'.col]
<1>1. at' = c /\ text' = text /\ tokens' = Append(tokens, token)
  BY DEF Lex!Return
<1>2. InvIn(text, at, start, tokens) /\ GoodIn(text, c)
  BY InvIsIn, GoodIsIn
<1>3. PlacedIn(text, start'.pos, start'.line, start'.col)
  BY <1>2 DEF InvIn, GoodIn
<1>4. PICK set : tokens \in Seq(set)
  BY <1>2 DEF InvIn
<1>5. token.from = start'.pos /\ token.line = start'.line /\ token.col = start'.col
  OBVIOUS
<1> HIDE DEF token
<1>6. /\ tokens' \in Seq(set \cup {token})
      /\ DOMAIN tokens' = 1..(Len(tokens) + 1) /\ DOMAIN tokens = 1..Len(tokens) /\ Len(tokens) \in Nat
      /\ \A i \in 1..Len(tokens) : tokens'[i] = tokens[i]
      /\ tokens'[Len(tokens) + 1] = token
  <2>1. tokens \in Seq(set \cup {token}) /\ token \in set \cup {token}
    BY <1>4
  <2> QED
    BY <1>1, <2>1
<1>7. ASSUME NEW i \in DOMAIN tokens'
      PROVE  PlacedIn(text, tokens'[i].from, tokens'[i].line, tokens'[i].col)
  <2>1. CASE i \in 1..Len(tokens)
    BY <1>2, <1>6, <2>1 DEF InvIn
  <2>2. CASE i \notin 1..Len(tokens)
    <3>1. i = Len(tokens) + 1
      BY <1>6, <2>2
    <3> QED
      BY <1>3, <1>5, <1>6, <3>1
  <2> QED
    BY <2>1, <2>2
<1>8. InvIn(text', at', start', tokens')
  BY <1>1, <1>2, <1>3, <1>6, <1>7 DEF InvIn
<1> QED
  BY <1>8, InvIsIn

(* And a token that is begun.                                               *)
LEMMA MoveStep ==
  ASSUME LexerInv, NEW c, Good(c), at' = c, UNCHANGED <<text, tokens>>, start' = start \/ start' = at
  PROVE  LexerInv'
<1>1. InvIn(text, at, start, tokens) /\ GoodIn(text, c)
  BY InvIsIn, GoodIsIn
<1>2. PlacedIn(text, start'.pos, start'.line, start'.col)
  BY <1>1 DEF InvIn, GoodIn
<1>3. InvIn(text', at', start', tokens')
  BY <1>1, <1>2 DEF InvIn
<1> QED
  BY <1>3, InvIsIn

(* The rounds of the loops over blanks and comments.                        *)
LEMMA BlankSteps ==
  ASSUME LexerInv, Lex!SkipWhitespace \/ Lex!SkipComment \/ Lex!LineComment \/ Lex!BlockComment
  PROVE  LexerInv'
<1>1. text \in Seq(0..255) /\ Good(at)
  BY DEF LexerInv
<1>2. Good(Lex!Advance(at)) /\ Good(Lex!Peek(at)) /\ Good(Lex!Advance(Lex!Advance(at)))
  BY <1>1, AdvanceGood, PeekGood
<1>3. CASE Lex!SkipWhitespace
  BY <1>2, <1>3, GoStep DEF Lex!SkipWhitespace
<1>4. CASE Lex!SkipComment
  <2> DEFINE second == Lex!Advance(Lex!Peek(at))
  <2>1. Good(second) /\ Good(Lex!Advance(second))
    BY <1>1, <1>2, AdvanceGood
  <2>2. Good(Lex!Backup(Lex!Advance(second))) /\ Good(Lex!Backup(Lex!Backup(Lex!Advance(second))))
    BY <1>1, <2>1, BackupGood
  <2>3. \/ Lex!Go("token", Lex!Peek(at))
        \/ Lex!Go("line comment", Lex!Advance(second))
        \/ Lex!Go("block comment", Lex!Advance(second))
        \/ Lex!Go("token", Lex!Backup(Lex!Backup(Lex!Advance(second))))
    BY <1>4 DEF Lex!SkipComment
  <2> QED
    BY <1>2, <2>1, <2>2, <2>3, GoStep
<1>5. CASE Lex!LineComment
  <2>1. \E loop : Lex!Go(loop, Lex!Advance(at))
    BY <1>5 DEF Lex!LineComment
  <2> QED
    BY <1>2, <2>1, GoStep
<1>6. CASE Lex!BlockComment
  <2> DEFINE c == Lex!Advance(at)
  <2>1. Good(Lex!Peek(c)) /\ Good(Lex!Advance(Lex!Peek(c)))
    BY <1>1, <1>2, AdvanceGood, PeekGood
  <2>2. \E loop : Lex!Go(loop, c) \/ Lex!Go(loop, Lex!Peek(c)) \/ Lex!Go(loop, Lex!Advance(Lex!Peek(c)))
    BY <1>6 DEF Lex!BlockComment
  <2> QED
    BY <1>2, <2>1, <2>2, GoStep
<1> QED
  BY <1>3, <1>4, <1>5, <1>6

(* The start of a token, and the whole of a number or an identifier.        *)
LEMMA StartTokenStep ==
  ASSUME LexerInv, Lex!StartToken
  PROVE  LexerInv'
<1> DEFINE c == Lex!Advance(at)
           r == Lex!Rune(at)
<1>1. text \in Seq(0..255) /\ Good(at) /\ start' = at /\ Good(c)
  BY AdvanceGood DEF LexerInv, Lex!StartToken
<1>2. \/ \E type, value : Lex!Return(type, value, c)
      \/ at' = c /\ UNCHANGED <<text, tokens>>
      \/ r \in Lex!Digit /\ \E type, value : Lex!Return(type, value, Lex!RunTo(at, Lex!NumberEnd(at.pos)))
      \/ /\ r \in Lex!IdentStart
         /\ \E type, value :
              Lex!Return(type, value, Lex!RunTo(at, Lex!RunEnd(at.pos, Lex!IdentChar, Len(text))))
  BY DEF Lex!StartToken
<1>3. at.pos \in 0..Len(text) /\ at.pos \in Nat
  BY <1>1 DEF Good
<1>4. ASSUME r \in Lex!Digit \cup Lex!IdentStart
      PROVE  at.pos < Len(text) /\ text[at.pos + 1] = r /\ Exact(at)
  <2>1. Lex!EOF \notin Lex!Digit \cup Lex!IdentStart
    BY DEF Lex!EOF, Lex!Digit, Lex!IdentStart, Lex!Letter
  <2>2. at.pos < Len(text) /\ text[at.pos + 1] = r
    BY <1>4, <2>1 DEF Lex!Rune
  <2> QED
    BY <1>1, <1>4, <2>2, NoNewLine, PlacedLines DEF Good, Exact
<1> HIDE DEF c, r
<1>5. CASE \E type, value : Lex!Return(type, value, c)
  BY <1>1, <1>5, ReturnStep
<1>6. CASE at' = c /\ UNCHANGED <<text, tokens>>
  BY <1>1, <1>6, MoveStep
<1>7. CASE r \in Lex!Digit /\ \E type, value : Lex!Return(type, value, Lex!RunTo(at, Lex!NumberEnd(at.pos)))
  <2>1. Run(at.pos, Lex!NumberEnd(at.pos))
    BY <1>1, <1>3, <1>4, <1>7, NumberRun
  <2>2. Good(Lex!RunTo(at, Lex!NumberEnd(at.pos)))
    BY <1>1, <1>4, <1>7, <2>1, RunToGood
  <2> QED
    BY <1>1, <1>7, <2>2, ReturnStep
<1>8. CASE /\ r \in Lex!IdentStart
           /\ \E type, value :
                Lex!Return(type, value, Lex!RunTo(at, Lex!RunEnd(at.pos, Lex!IdentChar, Len(text))))
  <2>1. Run(at.pos, Lex!RunEnd(at.pos, Lex!IdentChar, Len(text)))
    BY <1>1, <1>3, NoNewLine, RunEndRun
  <2>2. Good(Lex!RunTo(at, Lex!RunEnd(at.pos, Lex!IdentChar, Len(text))))
    BY <1>1, <1>4, <1>8, <2>1, RunToGood
  <2> QED
    BY <1>1, <1>8, <2>2, ReturnStep
<1> QED
  BY <1>2, <1>5, <1>6, <1>7, <1>8

(* The rounds of the loops over a keycode and a string.                     *)
LEMMA ScanSteps ==
  ASSUME LexerInv, Lex!ScanKeycode \/ Lex!ScanString
  PROVE  LexerInv'
<1> DEFINE c == Lex!Advance(at)
<1>1. text \in Seq(0..255) /\ Good(at) /\ Good(c) /\ Good(Lex!Escape(c).end)
  BY AdvanceGood, EscapeGood DEF LexerInv
<1>2. \/ \E loop : Lex!Go(loop, c)
      \/ start' = start /\ \E type, value : Lex!Return(type, value, c)
      \/ start' = start /\ \E type, value : Lex!Return(type, value, Lex!Escape(c).end)
      \/ start' = start /\ at' = c /\ UNCHANGED <<text, tokens>>
      \/ start' = start /\ at' = Lex!Escape(c).end /\ UNCHANGED <<text, tokens>>
  <2>1. CASE Lex!ScanKeycode
    BY <2>1 DEF Lex!ScanKeycode
  <2>2. CASE Lex!ScanString
    BY <2>2 DEF Lex!ScanString
  <2> QED
    BY <2>1, <2>2
<1> HIDE DEF c
<1>3. CASE \E loop : Lex!Go(loop, c)
  BY <1>1, <1>3, GoStep
<1>4. CASE start' = start /\ \E type, value : Lex!Return(type, value, c)
  BY <1>1, <1>4, ReturnStep
<1>5. CASE start' = start /\ \E type, value : Lex!Return(type, value, Lex!Escape(c).end)
  BY <1>1, <1>5, ReturnStep
<1>6. CASE start' = start /\ at' = c /\ UNCHANGED <<text, tokens>>
  BY <1>1, <1>6, MoveStep
<1>7. CASE start' = start /\ at' = Lex!Escape(c).end /\ UNCHANGED <<text, tokens>>
  BY <1>1, <1>7, MoveStep
<1> QED
  BY <1>2, <1>3, <1>4, <1>5, <1>6, <1>7

(* LexerInv is inductive.                                                       *)
LEMMA LexerInductive == Lex!Spec => []LexerInv
<1>1. ASSUME Lex!Init PROVE LexerInv
  <2>1. text \in Seq(0..255) /\ Len(text) \in Nat
    BY <1>1 DEF Lex!Init
  <2>2. /\ at = [pos |-> 0, line |-> 1, col |-> 1, width |-> 0]
        /\ start = at /\ tokens = <<>>
    BY <1>1 DEF Lex!Init
  <2>3. /\ at.pos = 0 /\ at.line = 1 /\ at.col = 1 /\ at.width = 0
        /\ start.pos = 0 /\ start.line = 1 /\ start.col = 1
    BY <2>2
  <2>4. Cursor(at)
    BY <2>2, <2>3 DEF Cursor
  <2>5. NewLines(0) = {} /\ Cardinality(NewLines(0)) = 0
    BY FS_EmptySet DEF NewLines
  <2>6. Lex!RunesOnLine(0) = 0
    <3>1. Lex!LineStart(0) \in 0..0
      BY LineFacts
    <3> QED
      BY <3>1 DEF Lex!RunesOnLine
  <2>7. Lex!Placed(0, 1, 1)
    BY <2>5, <2>6, PlacedLines
  <2>8. Good(at)
    BY <2>1, <2>3, <2>4, <2>7 DEF Good
  <2>9. tokens \in Seq({}) /\ DOMAIN tokens = {}
    BY <2>2
  <2> QED
    BY <2>1, <2>3, <2>7, <2>8, <2>9 DEF LexerInv
<1>2. ASSUME LexerInv, [Lex!Next]_(Lex!vars) PROVE LexerInv'
  <2>1. CASE UNCHANGED Lex!vars
    <3>1. text' = text /\ at' = at /\ start' = start /\ tokens' = tokens
      BY <2>1 DEF Lex!vars
    <3> QED
      BY <1>2, <3>1, InvIsIn
  <2> QED
    BY <1>2, <2>1, BlankSteps, StartTokenStep, ScanSteps DEF Lex!Next
<1> QED
  BY <1>1, <1>2, PTL DEF Lex!Spec

(* Whatever the text, its length and its bytes: however often the lexer     *)
(* looks ahead and backs up, the line and column of the cursor and of every *)
(* token it has returned are those of the text.                             *)
THEOREM Positions == Lex!Spec => []Lex!PositionsExact
<1>1. ASSUME LexerInv PROVE Lex!PositionsExact
  BY <1>1 DEF LexerInv, Good, Lex!PositionsExact
<1> QED
  BY <1>1, LexerInductive, PTL

-----------------------------------------------------------------------------
(* What the lexer has read, for any text t.                                 *)

RuneOf(t, p) == IF p < Len(t) THEN t[p + 1] ELSE Lex!EOF

\* A comment that begins at b and has been read to p.
LineCommentOf(t, b, p) ==
  /\ b + 2 <= p
  /\ t[b + 1] = Lex!Slash /\ t[b + 2] = Lex!Slash
  /\ \A i \in (b + 1)..p : t[i] # Lex!NL
BlockCommentOf(t, b, p) ==
  /\ b + 2 <= p
  /\ t[b + 1] = Lex!Slash /\ t[b + 2] = Lex!Star
  /\ \A i \in (b + 4)..p : ~(t[i - 1] = Lex!Star /\ t[i] = Lex!Slash)
  /\ b + 2 < p /\ t[p] = Lex!Star => RuneOf(t, p) # Lex!Slash

\* A blank, and what ends a comment.
BlankOf(t, p, q) ==
  \/ q = p + 1 /\ t[q] \in Lex!Space
  \/ LineCommentOf(t, p, q - 1) /\ t[q] = Lex!NL
  \/ LineCommentOf(t, p, q) /\ q = Len(t)
  \/ BlockCommentOf(t, p, q) /\ q = Len(t)
  \/ /\ p + 4 <= q
     /\ t[p + 1] = Lex!Slash /\ t[p + 2] = Lex!Star
     /\ \A i \in (p + 4)..(q - 1) : ~(t[i - 1] = Lex!Star /\ t[i] = Lex!Slash)
     /\ t[q - 1] = Lex!Star /\ t[q] = Lex!Slash
CutsOf(t, cuts, p, q) ==
  /\ p \in cuts /\ q \in cuts
  /\ \A k, m \in cuts : k < m /\ (k + 1 .. m - 1) \cap cuts = {} => BlankOf(t, k, m)
BlanksOf(t, p, q) == \E cuts \in SUBSET (p..q) : CutsOf(t, cuts, p, q)
SkippedOf(t, p, q) == BlanksOf(t, p, q) \/ (q > p /\ t[q] = Lex!Slash /\ BlanksOf(t, p, q - 1))

\* The number of backslashes before i in a string that begins at s is odd,
\* or even.
AfterBackslashes(t, s, i, rest) ==
  \E m \in (s + 1)..(i - 1) : /\ t[m] # Lex!Backslash
                              /\ \A j \in (m + 1)..(i - 1) : t[j] = Lex!Backslash
                              /\ (i - m) % 2 = rest
Escaped(t, s, i) == AfterBackslashes(t, s, i, 0)
Unescaped(t, s, i) == AfterBackslashes(t, s, i, 1)

\* A string that begins at s and has been read to p, to the value v.
StringOf(t, s, p, v) ==
  /\ s + 1 <= p
  /\ t[s + 1] = Lex!Quote
  /\ \A i \in (s + 2)..p : t[i] \in {Lex!Quote, Lex!NL} => Escaped(t, s, i)
  /\ p < Len(t) => Unescaped(t, s, p + 1)
  /\ (\A i \in (s + 1)..p : t[i] # Lex!Backslash) => v = SubSeq(t, s + 2, p)

\* What a token from p to q looks like.
NumberOf(t, p, q) ==
  \/ /\ \A i \in (p + 1)..q : t[i] \in Lex!Digit
     /\ RuneOf(t, q) \notin Lex!Digit
     /\ q = p + 1 /\ t[q] = 48 => RuneOf(t, q) \notin {88, 120}
  \/ /\ p + 2 <= q
     /\ t[p + 1] = 48 /\ t[p + 2] \in {88, 120}
     /\ \A i \in (p + 3)..q : t[i] \in Lex!HexDigit
     /\ RuneOf(t, q) \notin Lex!HexDigit
ShapeOf(t, type, value, p, q) ==
  \/ type = "EOF" /\ p = Len(t)
  \/ type \in {"Punctuation", "Error"} /\ p < q
  \/ /\ type = "Ident"
     /\ p < q /\ value = SubSeq(t, p + 1, q)
     /\ t[p + 1] \in Lex!IdentStart
     /\ \A i \in (p + 1)..q : t[i] \in Lex!IdentChar
     /\ RuneOf(t, q) \notin Lex!IdentChar
  \/ type = "Number" /\ p < q /\ value = SubSeq(t, p + 1, q) /\ NumberOf(t, p, q)
  \/ /\ type = "Keycode"
     /\ p + 2 <= q /\ value = SubSeq(t, p + 2, q - 1)
     /\ t[p + 1] = Lex!Less /\ t[q] = Lex!Greater
     /\ \A i \in (p + 2)..(q - 1) : t[i] \in Lex!KeycodeChar
  \/ /\ type = "String"
     /\ p + 2 <= q
     /\ StringOf(t, p, q - 1, value)
     /\ t[q] = Lex!Quote

\* The invariant of a text, a position, the start of a token, the loop, what
\* it has built and the tokens.
EndOf(ts) == IF ts = <<>> THEN 0 ELSE ts[Len(ts)].to
TileOf(t, ts) ==
  \A i \in DOMAIN ts :
    /\ ts[i].from \in 0..Len(t) /\ ts[i].to \in 0..Len(t)
    /\ ShapeOf(t, ts[i].type, ts[i].value, ts[i].from, ts[i].to)
    /\ SkippedOf(t, IF i = 1 THEN 0 ELSE ts[i - 1].to, ts[i].from)
ReadOf(t, p, s, loop, v, end) ==
  /\ loop \in {"space", "comment"} => BlanksOf(t, end, p)
  /\ loop = "line comment" => \E b \in 0..p : BlanksOf(t, end, b) /\ LineCommentOf(t, b, p)
  /\ loop = "block comment" => \E b \in 0..p : BlanksOf(t, end, b) /\ BlockCommentOf(t, b, p)
  /\ loop = "token" => SkippedOf(t, end, p)
  /\ loop = "keycode" => /\ SkippedOf(t, end, s) /\ s \in Nat /\ s < p
                         /\ t[s + 1] = Lex!Less
                         /\ \A i \in (s + 2)..p : t[i] \in Lex!KeycodeChar
  /\ loop = "string" => SkippedOf(t, end, s) /\ s \in Nat /\ s < p /\ StringOf(t, s, p, v)
TileInv ==
  /\ EndOf(tokens) \in Nat
  /\ TileOf(text, tokens)
  /\ ReadOf(text, at.pos, start.pos, pc, buf, EndOf(tokens))

-----------------------------------------------------------------------------
(* Blanks.                                                                  *)

(* Nothing is skipped from a place to itself.                               *)
LEMMA NoBlanks ==
  ASSUME NEW t, NEW p \in Nat
  PROVE  BlanksOf(t, p, p)
<1>1. {p} \in SUBSET (p..p) /\ CutsOf(t, {p}, p, p)
  BY DEF CutsOf
<1> QED
  BY <1>1 DEF BlanksOf

(* One more blank.                                                          *)
LEMMA MoreBlanks ==
  ASSUME NEW t, NEW p \in Nat, NEW q \in Nat, NEW r \in Nat, q < r,
         BlanksOf(t, p, q), BlankOf(t, q, r)
  PROVE  BlanksOf(t, p, r)
<1>1. PICK cuts \in SUBSET (p..q) : CutsOf(t, cuts, p, q)
  BY DEF BlanksOf
<1>2. cuts \cup {r} \in SUBSET (p..r) /\ q \in cuts /\ p \in cuts /\ p <= q
  BY <1>1 DEF CutsOf
<1>3. ASSUME NEW k \in cuts \cup {r}, NEW m \in cuts \cup {r}, k < m,
             (k + 1 .. m - 1) \cap (cuts \cup {r}) = {}
      PROVE  BlankOf(t, k, m)
  <2>1. k \in cuts /\ k \in Nat /\ k <= q /\ k # r
    BY <1>2, <1>3
  <2>2. CASE m = r
    <3>1. k = q
      <4>1. SUFFICES ASSUME k # q PROVE FALSE
        OBVIOUS
      <4>2. q \in (k + 1 .. m - 1)
        BY <2>1, <2>2, <4>1
      <4> QED
        BY <1>2, <1>3, <4>2
    <3> QED
      BY <2>2, <3>1
  <2>3. CASE m # r
    <3>1. m \in cuts /\ (k + 1 .. m - 1) \cap cuts = {}
      BY <1>3, <2>3
    <3> QED
      BY <1>1, <1>3, <2>1, <3>1 DEF CutsOf
  <2> QED
    BY <2>2, <2>3
<1>4. CutsOf(t, cuts \cup {r}, p, r)
  BY <1>2, <1>3 DEF CutsOf
<1> QED
  BY <1>2, <1>4 DEF BlanksOf

(* What is skipped is not behind where it ends.                             *)
LEMMA BlanksForward ==
  ASSUME NEW t, NEW p \in Nat, NEW q \in Nat, BlanksOf(t, p, q)
  PROVE  p <= q
  BY DEF BlanksOf, CutsOf

-----------------------------------------------------------------------------
(* What a loop and a token that is returned leave to show.                  *)

LEMMA GoTile ==
  ASSUME TileInv, NEW loop, NEW c, Lex!Go(loop, c),
         ReadOf(text, c.pos, start.pos, loop, buf, EndOf(tokens))
  PROVE  TileInv'
<1>1. /\ pc' = loop /\ at' = c
      /\ text' = text /\ start' = start /\ buf' = buf /\ tokens' = tokens
  BY DEF Lex!Go
<1>2. EndOf(tokens') = EndOf(tokens)
  BY <1>1
<1>3. ReadOf(text', at'.pos, start'.pos, pc', buf', EndOf(tokens'))
  BY <1>1, <1>2
<1>4. TileOf(text', tokens')
  BY <1>1 DEF TileInv
<1> QED
  BY <1>2, <1>3, <1>4 DEF TileInv

LEMMA ReturnTile ==
  ASSUME LexerInv, TileInv, NEW type, NEW value, NEW c, Good(c), Lex!Return(type, value, c),
         start'.pos \in 0..Len(text),
         SkippedOf(text, EndOf(tokens), start'.pos), ShapeOf(text, type, value, start'.pos, c.pos)
  PROVE  TileInv'
<1> DEFINE token == [type |-> type, value |-> value, from |-> start'.pos,
                     to |-> c.pos, line |-> start'.line, col |-> start'.col]
<1>1. at' = c /\ text' = text /\ tokens' = Append(tokens, token) /\ pc' \in {"space", "done"}
  BY DEF Lex!Return
<1>2. PICK set : tokens \in Seq(set)
  BY DEF LexerInv
<1>3. token.from = start'.pos /\ token.to = c.pos /\ token.type = type /\ token.value = value
  OBVIOUS
<1>4. c.pos \in 0..Len(text) /\ c.pos \in Nat
  BY DEF Good, LexerInv
<1> HIDE DEF token
<1>5. /\ tokens' \in Seq(set \cup {token})
      /\ Len(tokens') = Len(tokens) + 1 /\ Len(tokens) \in Nat
      /\ DOMAIN tokens' = 1..(Len(tokens) + 1) /\ DOMAIN tokens = 1..Len(tokens)
      /\ \A i \in 1..Len(tokens) : tokens'[i] = tokens[i]
      /\ tokens'[Len(tokens) + 1] = token
  <2>1. tokens \in Seq(set \cup {token}) /\ token \in set \cup {token}
    BY <1>2
  <2> QED
    BY <1>1, <2>1
<1>6. EndOf(tokens') = c.pos
  <2>1. tokens' # <<>>
    BY <1>5
  <2> QED
    BY <1>3, <1>5, <2>1 DEF EndOf
<1>7. TileOf(text', tokens')
  <2> SUFFICES ASSUME NEW i \in DOMAIN tokens'
               PROVE  /\ tokens'[i].from \in 0..Len(text) /\ tokens'[i].to \in 0..Len(text)
                      /\ ShapeOf(text, tokens'[i].type, tokens'[i].value, tokens'[i].from, tokens'[i].to)
                      /\ SkippedOf(text, IF i = 1 THEN 0 ELSE tokens'[i - 1].to, tokens'[i].from)
    BY <1>1 DEF TileOf
  <2>1. CASE i \in 1..Len(tokens)
    <3>1. tokens'[i] = tokens[i] /\ (i # 1 => tokens'[i - 1] = tokens[i - 1])
      BY <1>5, <2>1
    <3> QED
      BY <1>5, <2>1, <3>1 DEF TileInv, TileOf
  <2>2. CASE i = Len(tokens) + 1
    <3>1. tokens'[i] = token
      BY <1>5, <2>2
    <3>2. (IF i = 1 THEN 0 ELSE tokens'[i - 1].to) = EndOf(tokens)
      <4>1. CASE tokens = <<>>
        BY <2>2, <4>1 DEF EndOf
      <4>2. CASE tokens # <<>>
        <5>1. Len(tokens) # 0
          BY <1>2, <4>2
        <5>2. i # 1 /\ i - 1 = Len(tokens) /\ i - 1 \in 1..Len(tokens)
          BY <1>5, <2>2, <5>1
        <5> QED
          BY <1>5, <4>2, <5>2 DEF EndOf
      <4> QED
        BY <4>1, <4>2
    <3> QED
      BY <1>3, <1>4, <3>1, <3>2
  <2> QED
    BY <1>5, <2>1, <2>2
<1>8. BlanksOf(text, c.pos, c.pos)
  BY <1>4, NoBlanks
<1>9. ReadOf(text', at'.pos, start'.pos, pc', buf', EndOf(tokens'))
  BY <1>1, <1>6, <1>8 DEF ReadOf
<1> QED
  BY <1>4, <1>6, <1>7, <1>9 DEF TileInv

-----------------------------------------------------------------------------
(* The steps over blanks.                                                   *)

(* Where the lexer is, as the steps use it.                                 *)
LEMMA PlaceFacts ==
  ASSUME LexerInv
  PROVE  /\ text \in Seq(0..255) /\ Len(text) \in Nat
         /\ Good(at) /\ at.pos \in Nat /\ at.pos \in 0..Len(text)
         /\ Good(Lex!Advance(at))
         /\ Lex!Advance(at).pos = IF at.pos < Len(text) THEN at.pos + 1 ELSE at.pos
         /\ Good(Lex!Peek(at)) /\ Lex!Peek(at).pos = at.pos
         /\ Lex!Rune(at) = RuneOf(text, at.pos)
         /\ \A i \in DOMAIN text : text[i] # Lex!EOF
<1>1. text \in Seq(0..255) /\ Good(at)
  BY DEF LexerInv
<1>2. ASSUME NEW i \in DOMAIN text PROVE text[i] # Lex!EOF
  <2>1. i \in 1..Len(text)
    BY <1>1
  <2>2. text[i] \in 0..255
    BY <1>1, <2>1, ElementOfSeq
  <2> QED
    BY <2>2 DEF Lex!EOF
<1>3. /\ Good(Lex!Advance(at)) /\ Good(Lex!Peek(at)) /\ Lex!Peek(at).pos = at.pos
      /\ Lex!Advance(at).pos = IF at.pos < Len(text) THEN at.pos + 1 ELSE at.pos
  BY <1>1, AdvanceGood, AdvancePos, PeekGood
<1>4. at.pos \in 0..Len(text) /\ Len(text) \in Nat
  BY <1>1 DEF Good
<1>5. Lex!Rune(at) = RuneOf(text, at.pos)
  BY DEF Lex!Rune, RuneOf
<1> QED
  BY <1>1, <1>2, <1>3, <1>4, <1>5

(* The kinds of rune differ where the steps need it.                        *)
LEMMA RuneKinds ==
  /\ Lex!EOF \notin Lex!Space \cup Lex!Punctuation \cup Lex!Digit \cup Lex!IdentStart \cup Lex!KeycodeChar
  /\ Lex!EOF \notin {Lex!NL, Lex!Slash, Lex!Star, Lex!Quote, Lex!Less, Lex!Greater, Lex!Backslash}
  /\ Lex!Slash # Lex!Star /\ Lex!Slash # Lex!NL /\ Lex!Star # Lex!NL
  /\ Lex!Quote # Lex!NL /\ Lex!Quote # Lex!Backslash /\ Lex!NL # Lex!Backslash
  /\ Lex!HexDigit \cap {Lex!Quote, Lex!NL, Lex!Backslash} = {}
  BY DEF Lex!EOF, Lex!Space, Lex!Punctuation, Lex!Digit, Lex!IdentStart, Lex!KeycodeChar, Lex!IdentChar,
         Lex!Letter, Lex!NL, Lex!Slash, Lex!Star, Lex!Quote, Lex!Less, Lex!Greater, Lex!Backslash, Lex!HexDigit

LEMMA WhitespaceTile ==
  ASSUME LexerInv, TileInv, Lex!SkipWhitespace
  PROVE  TileInv'
<1> DEFINE p == at.pos
           end == EndOf(tokens)
<1>1. pc = "space" /\ end \in Nat /\ BlanksOf(text, end, p)
  BY DEF Lex!SkipWhitespace, TileInv, ReadOf
<1>2. CASE Lex!Rune(at) \in Lex!Space
  <2>1. Lex!Go("space", Lex!Advance(at))
    BY <1>2 DEF Lex!SkipWhitespace
  <2>2. p < Len(text) /\ text[p + 1] \in Lex!Space /\ Lex!Advance(at).pos = p + 1
    BY <1>2, PlaceFacts, RuneKinds DEF RuneOf
  <2>3. BlanksOf(text, end, p + 1)
    <3>1. BlankOf(text, p, p + 1)
      BY <2>2 DEF BlankOf
    <3> QED
      BY <1>1, <3>1, PlaceFacts, MoreBlanks
  <2>4. ReadOf(text, Lex!Advance(at).pos, start.pos, "space", buf, end)
    BY <2>2, <2>3 DEF ReadOf
  <2> QED
    BY <2>1, <2>4, GoTile
<1>3. CASE Lex!Rune(at) \notin Lex!Space
  <2>1. Lex!Go("comment", Lex!Peek(at)) /\ Lex!Peek(at).pos = p
    BY <1>3, PlaceFacts DEF Lex!SkipWhitespace
  <2>2. ReadOf(text, Lex!Peek(at).pos, start.pos, "comment", buf, end)
    BY <1>1, <2>1 DEF ReadOf
  <2> QED
    BY <2>1, <2>2, GoTile
<1> QED
  BY <1>2, <1>3

LEMMA CommentTile ==
  ASSUME LexerInv, TileInv, Lex!SkipComment
  PROVE  TileInv'
<1> DEFINE p == at.pos
           end == EndOf(tokens)
           second == Lex!Advance(Lex!Peek(at))
           third == Lex!Advance(second)
           back == Lex!Backup(Lex!Backup(third))
<1>1. pc = "comment" /\ end \in Nat /\ BlanksOf(text, end, p)
  BY DEF Lex!SkipComment, TileInv, ReadOf
<1>2. /\ p \in Nat /\ Len(text) \in Nat /\ text \in Seq(0..255)
      /\ Lex!Rune(at) = RuneOf(text, p)
      /\ Good(Lex!Peek(at)) /\ Lex!Peek(at).pos = p
  BY PlaceFacts
<1>3. CASE Lex!Rune(at) # Lex!Slash
  <2>1. Lex!Go("token", Lex!Peek(at))
    BY <1>3 DEF Lex!SkipComment
  <2>2. ReadOf(text, Lex!Peek(at).pos, start.pos, "token", buf, end)
    BY <1>1, <1>2 DEF ReadOf, SkippedOf
  <2> QED
    BY <2>1, <2>2, GoTile
<1>4. CASE Lex!Rune(at) = Lex!Slash
  <2>1. p < Len(text) /\ text[p + 1] = Lex!Slash
    BY <1>2, <1>4, RuneKinds DEF RuneOf
  <2>2. Good(second) /\ second.pos = p + 1
    BY <1>2, <2>1, AdvanceGood, AdvancePos
  <2>3. Lex!Rune(second) = RuneOf(text, p + 1)
    BY <2>2 DEF Lex!Rune, RuneOf
  <2> HIDE DEF second
  <2>4. third.pos = (IF p + 1 < Len(text) THEN p + 2 ELSE p + 1) /\ back.pos = p + 1
    BY <1>2, <2>2, AdvancePos, BackTwice
  <2> HIDE DEF third, back
  <2>5. CASE Lex!Rune(second) \in {Lex!Slash, Lex!Star}
    <3>1. p + 1 < Len(text) /\ text[p + 2] = Lex!Rune(second) /\ third.pos = p + 2
      BY <1>2, <2>3, <2>4, <2>5, RuneKinds DEF RuneOf
    <3>2. CASE Lex!Rune(second) = Lex!Slash
      <4>1. Lex!Go("line comment", third)
        BY <1>4, <3>2, RuneKinds DEF Lex!SkipComment, second, third
      <4>2. LineCommentOf(text, p, p + 2)
        <5>1. \A i \in (p + 1)..(p + 2) : i = p + 1 \/ i = p + 2
          BY <1>2
        <5> QED
          BY <1>2, <2>1, <3>1, <3>2, <5>1, RuneKinds DEF LineCommentOf
      <4>3. ReadOf(text, third.pos, start.pos, "line comment", buf, end)
        BY <1>1, <1>2, <3>1, <4>2 DEF ReadOf
      <4> QED
        BY <4>1, <4>3, GoTile
    <3>3. CASE Lex!Rune(second) = Lex!Star
      <4>1. Lex!Go("block comment", third)
        BY <1>4, <3>3, RuneKinds DEF Lex!SkipComment, second, third
      <4>2. BlockCommentOf(text, p, p + 2)
        <5>1. (p + 4)..(p + 2) = {}
          BY <1>2
        <5> QED
          BY <1>2, <2>1, <3>1, <3>3, <5>1 DEF BlockCommentOf
      <4>3. ReadOf(text, third.pos, start.pos, "block comment", buf, end)
        BY <1>1, <1>2, <3>1, <4>2 DEF ReadOf
      <4> QED
        BY <4>1, <4>3, GoTile
    <3> QED
      BY <2>5, <3>2, <3>3
  <2>6. CASE Lex!Rune(second) \notin {Lex!Slash, Lex!Star}
    <3>1. Lex!Go("token", back)
      BY <1>4, <2>6 DEF Lex!SkipComment, second, third, back
    <3>2. SkippedOf(text, end, p + 1)
      <4>1. end <= p
        BY <1>1, <1>2, BlanksForward
      <4>2. (p + 1) - 1 = p /\ p + 1 > end
        BY <1>1, <1>2, <4>1
      <4> QED
        BY <1>1, <2>1, <4>2 DEF SkippedOf
    <3>3. ReadOf(text, back.pos, start.pos, "token", buf, end)
      BY <2>4, <3>2 DEF ReadOf
    <3> QED
      BY <3>1, <3>3, GoTile
  <2> QED
    BY <2>5, <2>6
<1> QED
  BY <1>3, <1>4

LEMMA LineCommentTile ==
  ASSUME LexerInv, TileInv, Lex!LineComment
  PROVE  TileInv'
<1> DEFINE p == at.pos
           end == EndOf(tokens)
           c == Lex!Advance(at)
<1>1. pc = "line comment" /\ end \in Nat
  BY DEF Lex!LineComment, TileInv
<1>2. PICK b \in 0..p : BlanksOf(text, end, b) /\ LineCommentOf(text, b, p)
  BY <1>1 DEF TileInv, ReadOf
<1>3. /\ p \in Nat /\ Len(text) \in Nat /\ b \in Nat /\ b + 2 <= p /\ p <= Len(text)
      /\ Lex!Rune(at) = RuneOf(text, p)
      /\ c.pos = IF p < Len(text) THEN p + 1 ELSE p
  BY <1>2, PlaceFacts DEF LineCommentOf
<1> HIDE DEF c
<1>4. CASE Lex!Rune(at) \in {Lex!NL, Lex!EOF}
  <2>1. Lex!Go("space", c)
    BY <1>4 DEF Lex!LineComment, c
  <2>2. BlankOf(text, b, c.pos) /\ b < c.pos /\ c.pos \in Nat
    <3>1. CASE p < Len(text)
      <4>1. text[p + 1] = Lex!NL /\ c.pos = p + 1 /\ c.pos - 1 = p
        BY <1>3, <1>4, <3>1, PlaceFacts DEF RuneOf
      <4> QED
        BY <1>2, <1>3, <4>1 DEF BlankOf
    <3>2. CASE p = Len(text)
      BY <1>2, <1>3, <3>2 DEF BlankOf
    <3> QED
      BY <1>3, <3>1, <3>2
  <2>3. BlanksOf(text, end, c.pos)
    BY <1>1, <1>2, <1>3, <2>2, MoreBlanks
  <2>4. ReadOf(text, c.pos, start.pos, "space", buf, end)
    BY <2>3 DEF ReadOf
  <2> QED
    BY <2>1, <2>4, GoTile
<1>5. CASE Lex!Rune(at) \notin {Lex!NL, Lex!EOF}
  <2>1. Lex!Go("line comment", c)
    BY <1>5 DEF Lex!LineComment, c
  <2>2. p < Len(text) /\ text[p + 1] # Lex!NL /\ c.pos = p + 1
    BY <1>3, <1>5 DEF RuneOf
  <2>3. LineCommentOf(text, b, p + 1)
    <3>1. ASSUME NEW i \in (b + 1)..(p + 1) PROVE text[i] # Lex!NL
      <4>1. i \in (b + 1)..p \/ i = p + 1
        BY <1>3
      <4> QED
        BY <1>2, <2>2, <4>1 DEF LineCommentOf
    <3> QED
      BY <1>2, <1>3, <3>1 DEF LineCommentOf
  <2>4. ReadOf(text, c.pos, start.pos, "line comment", buf, end)
    BY <1>2, <1>3, <2>2, <2>3 DEF ReadOf
  <2> QED
    BY <2>1, <2>4, GoTile
<1> QED
  BY <1>4, <1>5

LEMMA BlockCommentTile ==
  ASSUME LexerInv, TileInv, Lex!BlockComment
  PROVE  TileInv'
<1> DEFINE p == at.pos
           end == EndOf(tokens)
           c == Lex!Advance(at)
           close == Lex!Advance(Lex!Peek(c))
<1>1. pc = "block comment" /\ end \in Nat
  BY DEF Lex!BlockComment, TileInv
<1>2. PICK b \in 0..p : BlanksOf(text, end, b) /\ BlockCommentOf(text, b, p)
  BY <1>1 DEF TileInv, ReadOf
<1>3. /\ p \in Nat /\ Len(text) \in Nat /\ b \in Nat /\ b + 2 <= p /\ p <= Len(text)
      /\ text \in Seq(0..255)
      /\ Lex!Rune(at) = RuneOf(text, p)
      /\ Good(c) /\ c.pos = IF p < Len(text) THEN p + 1 ELSE p
  BY <1>2, PlaceFacts DEF BlockCommentOf
<1>4. /\ Lex!Rune(c) = RuneOf(text, c.pos) /\ Lex!Peek(c).pos = c.pos
      /\ close.pos = IF c.pos < Len(text) THEN c.pos + 1 ELSE c.pos
  BY <1>3, AdvancePos, PeekGood DEF Lex!Rune, RuneOf
<1> HIDE DEF close
<1> DEFINE peek == Lex!Peek(c)
<1> HIDE DEF peek, c
<1>5. CASE Lex!Rune(at) = Lex!EOF
  <2>1. Lex!Go("space", c)
    BY <1>5 DEF Lex!BlockComment, c
  <2>2. p = Len(text) /\ c.pos = p
    BY <1>3, <1>5, PlaceFacts DEF RuneOf
  <2>3. BlankOf(text, b, p) /\ b < p
    BY <1>2, <1>3, <2>2 DEF BlankOf
  <2>4. BlanksOf(text, end, p)
    BY <1>1, <1>2, <1>3, <2>3, MoreBlanks
  <2>5. ReadOf(text, c.pos, start.pos, "space", buf, end)
    BY <2>2, <2>4 DEF ReadOf
  <2> QED
    BY <2>1, <2>5, GoTile
<1>6. CASE Lex!Rune(at) # Lex!EOF
  <2>1. p < Len(text) /\ text[p + 1] = Lex!Rune(at) /\ c.pos = p + 1
    BY <1>3, <1>6 DEF RuneOf
  <2>2. CASE Lex!Rune(at) = Lex!Star /\ Lex!Rune(c) = Lex!Slash
    <3>1. Lex!Go("space", close)
      BY <2>2, RuneKinds DEF Lex!BlockComment, c, close, peek
    <3>2. p + 1 < Len(text) /\ text[p + 2] = Lex!Slash /\ close.pos = p + 2
      BY <1>3, <1>4, <2>1, <2>2, RuneKinds DEF RuneOf
    <3>3. BlankOf(text, b, p + 2)
      <4>1. ASSUME NEW i \in (b + 4)..((p + 2) - 1)
            PROVE  ~(text[i - 1] = Lex!Star /\ text[i] = Lex!Slash)
        <5>1. i \in (b + 4)..p \/ i = p + 1
          <6>1. p \in Nat /\ b \in Nat
            BY <1>3
          <6> HIDE DEF p
          <6> QED
            BY <6>1
        <5> QED
          BY <1>2, <2>1, <2>2, <5>1, RuneKinds DEF BlockCommentOf
      <4>2. (p + 2) - 1 = p + 1 /\ b + 4 <= p + 2
        BY <1>3
      <4> QED
        BY <1>2, <2>1, <2>2, <3>2, <4>1, <4>2 DEF BlankOf, BlockCommentOf
    <3>4. BlanksOf(text, end, p + 2)
      <4>1. b < p + 2 /\ p + 2 \in Nat
        BY <1>3
      <4> QED
        BY <1>1, <1>2, <1>3, <3>3, <4>1, MoreBlanks
    <3>5. ReadOf(text, close.pos, start.pos, "space", buf, end)
      BY <3>2, <3>4 DEF ReadOf
    <3> QED
      BY <3>1, <3>5, GoTile
  <2>3. CASE ~(Lex!Rune(at) = Lex!Star /\ Lex!Rune(c) = Lex!Slash)
    <3>1. Lex!Go("block comment", c) \/ Lex!Go("block comment", peek)
      BY <1>6, <2>3 DEF Lex!BlockComment, c, peek
    <3>2. BlockCommentOf(text, b, p + 1)
      <4>1. ASSUME NEW i \in (b + 4)..(p + 1)
            PROVE  ~(text[i - 1] = Lex!Star /\ text[i] = Lex!Slash)
        <5>1. CASE i \in (b + 4)..p
          BY <1>2, <5>1 DEF BlockCommentOf
        <5>2. CASE i = p + 1
          <6>1. i - 1 = p /\ b + 2 < p
            BY <1>3, <5>2
          <6>2. text[p] = Lex!Star => RuneOf(text, p) # Lex!Slash
            BY <1>2, <6>1 DEF BlockCommentOf
          <6> QED
            BY <1>3, <2>1, <5>2, <6>1, <6>2
        <5> QED
          BY <1>3, <5>1, <5>2
      <4>2. text[p + 1] = Lex!Star => RuneOf(text, p + 1) # Lex!Slash
        BY <1>4, <2>1, <2>3
      <4> QED
        BY <1>2, <1>3, <4>1, <4>2 DEF BlockCommentOf
    <3>3. ReadOf(text, p + 1, start.pos, "block comment", buf, end)
      BY <1>2, <1>3, <3>2 DEF ReadOf
    <3>4. c.pos = p + 1 /\ peek.pos = p + 1
      BY <1>4, <2>1 DEF peek
    <3> QED
      BY <3>1, <3>3, <3>4, GoTile
  <2> QED
    BY <2>2, <2>3
<1> QED
  BY <1>5, <1>6

-----------------------------------------------------------------------------
(* The start of a token.                                                    *)

(* The end of a run, as a token has it.                                     *)
LEMMA RunStops ==
  ASSUME text \in Seq(0..255), NEW p \in 0..Len(text), NEW valid, Lex!EOF \notin valid
  PROVE  /\ Lex!RunEnd(p, valid, Len(text)) \in p..Len(text)
         /\ \A i \in (p + 1)..Lex!RunEnd(p, valid, Len(text)) : text[i] \in valid
         /\ RuneOf(text, Lex!RunEnd(p, valid, Len(text))) \notin valid
<1> DEFINE q == Lex!RunEnd(p, valid, Len(text))
<1>1. Len(text) \in 0..Len(text)
  OBVIOUS
<1>2. /\ q \in p..Len(text) /\ \A i \in (p + 1)..q : text[i] \in valid
      /\ q = Len(text) \/ text[q + 1] \notin valid
  BY <1>1, RunEndFacts
<1> HIDE DEF q
<1>3. RuneOf(text, q) \notin valid
  BY <1>2 DEF RuneOf
<1> QED
  BY <1>2, <1>3 DEF q

(* What scanNumber takes is a number.                                       *)
LEMMA NumberShape ==
  ASSUME text \in Seq(0..255), NEW p \in Nat, p < Len(text), text[p + 1] \in Lex!Digit
  PROVE  p < Lex!NumberEnd(p) /\ NumberOf(text, p, Lex!NumberEnd(p))
<1>1. /\ Len(text) \in Nat /\ p + 1 \in 0..Len(text)
      /\ Lex!EOF \notin Lex!Digit /\ Lex!EOF \notin Lex!HexDigit /\ Lex!EOF \notin Lex!Octal
      /\ Lex!EOF \notin {88, 120}
  BY DEF Lex!EOF, Lex!Digit, Lex!HexDigit, Lex!Octal
<1>2. CASE text[p + 1] # 48
  <2> DEFINE q == Lex!RunEnd(p + 1, Lex!Digit, Len(text))
  <2>1. Lex!NumberEnd(p) = q
    BY <1>2 DEF Lex!NumberEnd
  <2>2. /\ q \in (p + 1)..Len(text) /\ \A i \in ((p + 1) + 1)..q : text[i] \in Lex!Digit
        /\ RuneOf(text, q) \notin Lex!Digit
    BY <1>1, RunStops
  <2> HIDE DEF q
  <2>3. \A i \in (p + 1)..q : i = p + 1 \/ i \in ((p + 1) + 1)..q
    BY <1>1, <2>2
  <2>4. NumberOf(text, p, q)
    BY <1>1, <1>2, <2>2, <2>3 DEF NumberOf
  <2> QED
    BY <1>1, <2>1, <2>2, <2>4
<1>3. CASE text[p + 1] = 48 /\ p + 1 < Len(text) /\ text[p + 2] \in {88, 120}
  <2> DEFINE q == Lex!RunEnd(p + 2, Lex!HexDigit, Len(text))
  <2>1. Lex!NumberEnd(p) = q
    BY <1>3 DEF Lex!NumberEnd
  <2>2. p + 2 \in 0..Len(text) /\ (p + 2) + 1 = p + 3
    BY <1>1, <1>3
  <2>3. /\ q \in (p + 2)..Len(text) /\ \A i \in ((p + 2) + 1)..q : text[i] \in Lex!HexDigit
        /\ RuneOf(text, q) \notin Lex!HexDigit
    BY <1>1, <2>2, RunStops
  <2> HIDE DEF q
  <2>4. NumberOf(text, p, q)
    BY <1>1, <1>3, <2>2, <2>3 DEF NumberOf
  <2> QED
    BY <1>1, <2>1, <2>3, <2>4
<1>4. CASE text[p + 1] = 48 /\ ~(p + 1 < Len(text) /\ text[p + 2] \in {88, 120})
  <2> DEFINE m == Lex!RunEnd(p + 1, Lex!Octal, Len(text))
             q == Lex!RunEnd(m, Lex!Digit, Len(text))
  <2>1. Lex!NumberEnd(p) = q
    BY <1>4 DEF Lex!NumberEnd
  <2>2. m \in (p + 1)..Len(text) /\ \A i \in ((p + 1) + 1)..m : text[i] \in Lex!Octal
    BY <1>1, RunStops
  <2> HIDE DEF m
  <2>3. m \in 0..Len(text)
    BY <1>1, <2>2
  <2>4. /\ q \in m..Len(text) /\ \A i \in (m + 1)..q : text[i] \in Lex!Digit
        /\ RuneOf(text, q) \notin Lex!Digit
    BY <1>1, <2>3, RunStops
  <2> HIDE DEF q
  <2>5. ASSUME NEW i \in (p + 1)..q PROVE text[i] \in Lex!Digit
    <3>1. i = p + 1 \/ i \in ((p + 1) + 1)..m \/ i \in (m + 1)..q
      BY <1>1, <2>2, <2>4
    <3> QED
      BY <2>2, <2>4, <3>1, NoNewLine
  <2>6. q = p + 1 => RuneOf(text, q) \notin {88, 120}
    BY <1>1, <1>4 DEF RuneOf
  <2>7. NumberOf(text, p, q)
    BY <2>4, <2>5, <2>6 DEF NumberOf
  <2> QED
    BY <1>1, <2>1, <2>2, <2>4, <2>7
<1> QED
  BY <1>2, <1>3, <1>4

LEMMA StartTokenTile ==
  ASSUME LexerInv, TileInv, Lex!StartToken
  PROVE  TileInv'
<1> DEFINE p == at.pos
           r == Lex!Rune(at)
           c == Lex!Advance(at)
           end == EndOf(tokens)
<1>1. pc = "token" /\ start' = at /\ end \in Nat /\ SkippedOf(text, end, p)
  BY DEF Lex!StartToken, TileInv, ReadOf
<1>2. /\ text \in Seq(0..255) /\ p \in Nat /\ p \in 0..Len(text) /\ Len(text) \in Nat
      /\ Good(at) /\ Good(c) /\ r = RuneOf(text, p)
      /\ c.pos = IF p < Len(text) THEN p + 1 ELSE p
      /\ \A i \in DOMAIN text : text[i] # Lex!EOF
  BY PlaceFacts
<1>3. r # Lex!EOF => p < Len(text) /\ text[p + 1] = r /\ c.pos = p + 1
  BY <1>2 DEF RuneOf
<1>4. r = Lex!EOF => p = Len(text)
  <2>1. p < Len(text) => p + 1 \in DOMAIN text
    BY <1>2
  <2> QED
    BY <1>2, <2>1 DEF RuneOf
<1>5. start'.pos = p /\ start'.pos \in 0..Len(text) /\ SkippedOf(text, end, start'.pos)
  BY <1>1, <1>2
<1>6. ASSUME NEW type, NEW value, NEW d, Good(d), Lex!Return(type, value, d),
             ShapeOf(text, type, value, p, d.pos)
      PROVE  TileInv'
  BY <1>5, <1>6, ReturnTile
<1>7. \/ r = Lex!EOF /\ Lex!Return("EOF", <<>>, c)
      \/ r \in Lex!Punctuation /\ Lex!Return("Punctuation", <<r>>, c)
      \/ r = Lex!Less /\ pc' = "keycode" /\ at' = c /\ UNCHANGED <<text, buf, tokens>>
      \/ r = Lex!Quote /\ pc' = "string" /\ at' = c /\ buf' = <<>> /\ UNCHANGED <<text, tokens>>
      \/ /\ r \in Lex!Digit
         /\ Lex!Return("Number", Lex!Piece(p, Lex!NumberEnd(p)), Lex!RunTo(at, Lex!NumberEnd(p)))
      \/ /\ r \in Lex!IdentStart
         /\ Lex!Return("Ident", Lex!Piece(p, Lex!RunEnd(p, Lex!IdentChar, Len(text))),
                       Lex!RunTo(at, Lex!RunEnd(p, Lex!IdentChar, Len(text))))
      \/ r # Lex!EOF /\ Lex!Return("Error", <<>>, c)
  BY DEF Lex!StartToken
<1> HIDE DEF r, c
<1>8. CASE r = Lex!EOF /\ Lex!Return("EOF", <<>>, c)
  <2>1. ShapeOf(text, "EOF", <<>>, p, c.pos)
    BY <1>4, <1>8 DEF ShapeOf
  <2> QED
    BY <1>2, <1>6, <1>8, <2>1
<1>9. CASE r \in Lex!Punctuation /\ Lex!Return("Punctuation", <<r>>, c)
  <2>1. r # Lex!EOF
    BY <1>9, RuneKinds
  <2>2. ShapeOf(text, "Punctuation", <<r>>, p, c.pos)
    BY <1>2, <1>3, <2>1 DEF ShapeOf
  <2> QED
    BY <1>2, <1>6, <1>9, <2>2
<1>10. CASE r # Lex!EOF /\ Lex!Return("Error", <<>>, c)
  <2>1. ShapeOf(text, "Error", <<>>, p, c.pos)
    BY <1>2, <1>3, <1>10 DEF ShapeOf
  <2> QED
    BY <1>2, <1>6, <1>10, <2>1
<1>11. ASSUME r \in Lex!Digit \cup Lex!IdentStart
       PROVE  p < Len(text) /\ text[p + 1] = r /\ Exact(at)
  <2>1. p < Len(text) /\ text[p + 1] = r
    BY <1>3, <1>11, RuneKinds
  <2>2. p < Len(text) /\ text[p + 1] = Lex!NL => FALSE
    BY <1>11, <2>1, NoNewLine
  <2>3. Exact(at)
    BY <1>2, <2>1, <2>2, PlacedLines DEF Good, Exact
  <2> QED
    BY <2>1, <2>3
<1>12. CASE /\ r \in Lex!Digit
            /\ Lex!Return("Number", Lex!Piece(p, Lex!NumberEnd(p)), Lex!RunTo(at, Lex!NumberEnd(p)))
  <2> DEFINE q == Lex!NumberEnd(p)
             d == Lex!RunTo(at, q)
  <2>1. p < q /\ NumberOf(text, p, q) /\ Run(p, q)
    BY <1>2, <1>11, <1>12, NumberShape, NumberRun
  <2> HIDE DEF q
  <2>2. Good(d) /\ d.pos = q
    BY <1>2, <1>11, <1>12, <2>1, RunToGood
  <2>3. ShapeOf(text, "Number", Lex!Piece(p, q), p, q)
    BY <2>1 DEF ShapeOf, Lex!Piece
  <2> QED
    BY <1>6, <1>12, <2>2, <2>3 DEF q
<1>13. CASE /\ r \in Lex!IdentStart
            /\ Lex!Return("Ident", Lex!Piece(p, Lex!RunEnd(p, Lex!IdentChar, Len(text))),
                          Lex!RunTo(at, Lex!RunEnd(p, Lex!IdentChar, Len(text))))
  <2> DEFINE q == Lex!RunEnd(p, Lex!IdentChar, Len(text))
             d == Lex!RunTo(at, q)
  <2>1. /\ q \in p..Len(text) /\ (\A i \in (p + 1)..q : text[i] \in Lex!IdentChar)
        /\ RuneOf(text, q) \notin Lex!IdentChar
    <3>1. Lex!EOF \notin Lex!IdentChar
      BY DEF Lex!EOF, Lex!IdentChar, Lex!IdentStart, Lex!Letter, Lex!Digit
    <3> QED
      BY <1>2, <3>1, RunStops
  <2>2. Run(p, q)
    BY <1>2, NoNewLine, RunEndRun
  <2>3. q # p
    <3> HIDE DEF q
    <3>1. r \in Lex!IdentChar
      BY <1>13 DEF Lex!IdentChar
    <3> QED
      BY <1>2, <2>1, <3>1
  <2> HIDE DEF q
  <2>4. Good(d) /\ d.pos = q
    BY <1>2, <1>11, <1>13, <2>2, RunToGood
  <2>5. ShapeOf(text, "Ident", Lex!Piece(p, q), p, q)
    BY <1>2, <1>11, <1>13, <2>1, <2>3 DEF ShapeOf, Lex!Piece
  <2> QED
    BY <1>6, <1>13, <2>4, <2>5 DEF q
<1>14. ASSUME NEW loop, pc' = loop, at' = c, text' = text, tokens' = tokens,
              ReadOf(text, c.pos, p, loop, buf', end)
       PROVE  TileInv'
  <2>1. EndOf(tokens') = end
    BY <1>14
  <2>2. ReadOf(text', at'.pos, start'.pos, pc', buf', EndOf(tokens'))
    BY <1>5, <1>14, <2>1
  <2>3. TileOf(text', tokens')
    BY <1>14 DEF TileInv
  <2> QED
    BY <1>1, <2>1, <2>2, <2>3 DEF TileInv
<1>15. CASE r = Lex!Less /\ pc' = "keycode" /\ at' = c /\ UNCHANGED <<text, buf, tokens>>
  <2>1. p < Len(text) /\ text[p + 1] = Lex!Less /\ c.pos = p + 1
    BY <1>3, <1>15, RuneKinds
  <2>2. (p + 2)..(p + 1) = {}
    BY <1>2
  <2>3. ReadOf(text, c.pos, p, "keycode", buf', end)
    BY <1>1, <1>2, <2>1, <2>2 DEF ReadOf
  <2> QED
    BY <1>14, <1>15, <2>3
<1>16. CASE r = Lex!Quote /\ pc' = "string" /\ at' = c /\ buf' = <<>> /\ UNCHANGED <<text, tokens>>
  <2>1. p < Len(text) /\ text[p + 1] = Lex!Quote /\ c.pos = p + 1
    BY <1>3, <1>16, RuneKinds
  <2>2. (p + 2)..(p + 1) = {}
    BY <1>2
  <2>3. Unescaped(text, p, (p + 1) + 1)
    <3>1. p + 1 \in (p + 1)..(((p + 1) + 1) - 1) /\ text[p + 1] # Lex!Backslash
      BY <1>2, <2>1 DEF Lex!Quote, Lex!Backslash
    <3>2. ((p + 1) + 1)..(((p + 1) + 1) - 1) = {} /\ (((p + 1) + 1) - (p + 1)) % 2 = 1
      BY <1>2
    <3> QED
      BY <3>1, <3>2 DEF Unescaped, AfterBackslashes
  <2>4. SubSeq(text, p + 2, p + 1) = <<>>
    BY <1>2
  <2>5. StringOf(text, p, p + 1, <<>>)
    BY <1>2, <2>1, <2>2, <2>3, <2>4 DEF StringOf
  <2>6. ReadOf(text, c.pos, p, "string", buf', end)
    BY <1>1, <1>2, <1>16, <2>1, <2>5 DEF ReadOf
  <2> QED
    BY <1>14, <1>16, <2>6
<1> QED
  BY <1>7, <1>8, <1>9, <1>10, <1>12, <1>13, <1>15, <1>16

-----------------------------------------------------------------------------
(* Keycodes and strings.                                                    *)

LEMMA ScanKeycodeTile ==
  ASSUME LexerInv, TileInv, Lex!ScanKeycode
  PROVE  TileInv'
<1> DEFINE p == at.pos
           s == start.pos
           r == Lex!Rune(at)
           c == Lex!Advance(at)
           end == EndOf(tokens)
<1>1. /\ pc = "keycode" /\ end \in Nat /\ SkippedOf(text, end, s) /\ s \in Nat /\ s < p
      /\ text[s + 1] = Lex!Less
      /\ \A i \in (s + 2)..p : text[i] \in Lex!KeycodeChar
  BY DEF Lex!ScanKeycode, TileInv, ReadOf
<1>2. /\ p \in Nat /\ p \in 0..Len(text) /\ Len(text) \in Nat /\ Good(c) /\ r = RuneOf(text, p)
      /\ c.pos = IF p < Len(text) THEN p + 1 ELSE p
  BY PlaceFacts
<1>3. r # Lex!EOF => p < Len(text) /\ text[p + 1] = r /\ c.pos = p + 1
  BY <1>2 DEF RuneOf
<1>4. \/ r \in Lex!KeycodeChar /\ Lex!Go("keycode", c)
      \/ start' = start /\ r = Lex!Greater /\ Lex!Return("Keycode", Lex!Piece(s + 1, p), c)
      \/ start' = start /\ Lex!Return("Error", <<>>, c)
  BY DEF Lex!ScanKeycode
<1> HIDE DEF r, c
<1>5. CASE r \in Lex!KeycodeChar /\ Lex!Go("keycode", c)
  <2>1. p < Len(text) /\ text[p + 1] = r /\ c.pos = p + 1
    BY <1>3, <1>5, RuneKinds
  <2>2. \A i \in (s + 2)..(p + 1) : i \in (s + 2)..p \/ i = p + 1
    BY <1>1, <1>2
  <2>3. \A i \in (s + 2)..(p + 1) : text[i] \in Lex!KeycodeChar
    BY <1>1, <1>5, <2>1, <2>2
  <2>4. ReadOf(text, c.pos, s, "keycode", buf, end)
    BY <1>1, <1>2, <2>1, <2>3 DEF ReadOf
  <2> QED
    BY <1>5, <2>4, GoTile
<1>6. ASSUME NEW type, NEW value, start' = start, Lex!Return(type, value, c),
             ShapeOf(text, type, value, s, c.pos)
      PROVE  TileInv'
  <2>1. start'.pos \in 0..Len(text) /\ SkippedOf(text, end, start'.pos)
    BY <1>1, <1>2, <1>6
  <2> QED
    BY <1>2, <1>6, <2>1, ReturnTile
<1>7. CASE start' = start /\ r = Lex!Greater /\ Lex!Return("Keycode", Lex!Piece(s + 1, p), c)
  <2>1. p < Len(text) /\ text[p + 1] = Lex!Greater /\ c.pos = p + 1
    BY <1>3, <1>7, RuneKinds
  <2>2. Lex!Piece(s + 1, p) = SubSeq(text, s + 2, (p + 1) - 1) /\ (p + 1) - 1 = p
    <3>1. (s + 1) + 1 = s + 2 /\ (p + 1) - 1 = p
      BY <1>1, <1>2
    <3> QED
      BY <3>1 DEF Lex!Piece
  <2>3. ShapeOf(text, "Keycode", Lex!Piece(s + 1, p), s, c.pos)
    BY <1>1, <1>2, <2>1, <2>2 DEF ShapeOf
  <2> QED
    BY <1>6, <1>7, <2>3
<1>8. CASE start' = start /\ Lex!Return("Error", <<>>, c)
  <2>1. ShapeOf(text, "Error", <<>>, s, c.pos)
    BY <1>1, <1>2 DEF ShapeOf
  <2> QED
    BY <1>6, <1>8, <2>1
<1> QED
  BY <1>4, <1>5, <1>7, <1>8

(* Another rune is escaped by a backslash that is not escaped, and no other *)
(* rune escapes the next.                                                   *)
LEMMA EscapesNext ==
  ASSUME NEW t, NEW s \in Nat, NEW i \in Nat, s < i
  PROVE  /\ t[i] # Lex!Backslash => Unescaped(t, s, i + 1)
         /\ t[i] = Lex!Backslash /\ Unescaped(t, s, i) => Escaped(t, s, i + 1)
         /\ t[i] = Lex!Backslash /\ Escaped(t, s, i) => Unescaped(t, s, i + 1)
<1>1. ASSUME t[i] # Lex!Backslash
      PROVE  Unescaped(t, s, i + 1)
  <2>1. i \in (s + 1)..((i + 1) - 1) /\ (i + 1)..((i + 1) - 1) = {} /\ ((i + 1) - i) % 2 = 1
    OBVIOUS
  <2> QED
    BY <1>1, <2>1 DEF Unescaped, AfterBackslashes
<1>2. ASSUME t[i] = Lex!Backslash, NEW rest \in {0, 1}, AfterBackslashes(t, s, i, rest)
      PROVE  AfterBackslashes(t, s, i + 1, 1 - rest)
  <2>1. PICK m \in (s + 1)..(i - 1) : /\ t[m] # Lex!Backslash
                                      /\ \A j \in (m + 1)..(i - 1) : t[j] = Lex!Backslash
                                      /\ (i - m) % 2 = rest
    BY <1>2 DEF AfterBackslashes
  <2>2. m \in (s + 1)..((i + 1) - 1) /\ m \in Nat /\ m < i
    BY <2>1
  <2>3. \A j \in (m + 1)..((i + 1) - 1) : j \in (m + 1)..(i - 1) \/ j = i
    BY <2>2
  <2>4. ((i + 1) - m) % 2 = 1 - rest
    <3>1. PICK n \in Nat : n = i - m
      BY <2>2
    <3>2. (i + 1) - m = n + 1 /\ n % 2 = rest
      BY <2>1, <2>2, <3>1
    <3>3. (n + 1) % 2 = 1 - rest
      <4>1. CASE rest = 0
        BY <3>2, <4>1
      <4>2. CASE rest = 1
        BY <3>2, <4>2
      <4> QED
        BY <4>1, <4>2
    <3> QED
      BY <3>2, <3>3
  <2> QED
    BY <1>2, <2>1, <2>2, <2>3, <2>4 DEF AfterBackslashes
<1>3. t[i] = Lex!Backslash /\ Unescaped(t, s, i) => Escaped(t, s, i + 1)
  <2>1. 1 - 1 = 0 /\ 1 \in {0, 1}
    OBVIOUS
  <2> QED
    BY <1>2, <2>1 DEF Unescaped, Escaped
<1>4. t[i] = Lex!Backslash /\ Escaped(t, s, i) => Unescaped(t, s, i + 1)
  <2>1. 1 - 0 = 1 /\ 0 \in {0, 1}
    OBVIOUS
  <2> QED
    BY <1>2, <2>1 DEF Unescaped, Escaped
<1> QED
  BY <1>1, <1>3, <1>4

(* A string goes on by a rune that is no quote, newline or backslash.        *)
LEMMA PlainInString ==
  ASSUME NEW t \in Seq(0..255), NEW s \in Nat, NEW p \in Nat, NEW v,
         StringOf(t, s, p, v), p < Len(t),
         t[p + 1] \notin {Lex!Quote, Lex!NL, Lex!Backslash}
  PROVE  StringOf(t, s, p + 1, Append(v, t[p + 1]))
<1>1. Len(t) \in Nat /\ s + 1 <= p /\ t[s + 1] = Lex!Quote
  BY DEF StringOf
<1>2. ASSUME NEW i \in (s + 2)..(p + 1), t[i] \in {Lex!Quote, Lex!NL}
      PROVE  Escaped(t, s, i)
  <2>1. i \in (s + 2)..p
    BY <1>2
  <2> QED
    BY <1>2, <2>1 DEF StringOf
<1>3. Unescaped(t, s, (p + 1) + 1)
  <2>1. p + 1 \in Nat /\ s < p + 1
    BY <1>1
  <2> QED
    BY <2>1, EscapesNext
<1>4. ASSUME \A i \in (s + 1)..(p + 1) : t[i] # Lex!Backslash
      PROVE  Append(v, t[p + 1]) = SubSeq(t, s + 2, p + 1)
  <2>1. v = SubSeq(t, s + 2, p)
    BY <1>1, <1>4 DEF StringOf
  <2>2. Append(SubSeq(t, s + 2, p), t[p + 1]) = SubSeq(t, s + 2, p + 1)
    <3> DEFINE long == SubSeq(t, s + 2, p + 1)
               short == SubSeq(t, s + 2, p)
               both == Append(short, t[p + 1])
    <3>1. /\ s + 2 \in Int /\ p \in Int /\ p + 1 \in Int
          /\ (s + 2 <= p => (p - (s + 2)) + 1 = p - (s + 1)) /\ (p < s + 2 => p - (s + 1) = 0)
          /\ s + 2 <= p + 1 /\ ((p + 1) - (s + 2)) + 1 = p - s
      BY <1>1
    <3>2. \A i \in (s + 2)..(p + 1) : t[i] \in 0..255
      <4> SUFFICES ASSUME NEW i \in (s + 2)..(p + 1) PROVE t[i] \in 0..255
        OBVIOUS
      <4>1. i \in 1..Len(t)
        BY <1>1
      <4> QED
        BY <4>1, ElementOfSeq
    <3>3. /\ long \in Seq(0..255) /\ Len(long) = p - s
          /\ \A i \in 1..(p - s) : long[i] = t[(s + 2) + i - 1]
      BY <3>1, <3>2, SubSeqProperties
    <3>4. /\ short \in Seq(0..255) /\ Len(short) = p - (s + 1)
          /\ \A i \in 1..(p - (s + 1)) : short[i] = t[(s + 2) + i - 1]
      <4>1. \A i \in (s + 2)..p : t[i] \in 0..255
        BY <3>2
      <4>2. (p - (s + 2)) + 1 = p - (s + 1)
        BY <1>1
      <4>3. /\ short \in Seq(0..255)
            /\ Len(short) = IF s + 2 <= p THEN (p - (s + 2)) + 1 ELSE 0
            /\ \A i \in 1..((p - (s + 2)) + 1) : short[i] = t[(s + 2) + i - 1]
        BY <3>1, <4>1, SubSeqProperties
      <4> QED
        BY <1>1, <4>2, <4>3
    <3> HIDE DEF long, short
    <3>5. /\ both \in Seq(0..255) /\ Len(both) = Len(short) + 1
          /\ \A i \in 1..Len(short) : both[i] = short[i]
          /\ both[Len(short) + 1] = t[p + 1]
      <4>1. t[p + 1] \in 0..255
        BY <1>1, <3>2
      <4> QED
        BY <3>4, <4>1, AppendProperties
    <3>6. Len(both) = Len(long)
      BY <1>1, <3>3, <3>4, <3>5
    <3>7. ASSUME NEW i \in 1..Len(both) PROVE both[i] = long[i]
      <4>1. i \in Nat /\ i \in 1..(p - s) /\ long[i] = t[(s + 2) + i - 1]
        BY <3>3, <3>6, <3>7
      <4>2. CASE i = p - s
        <5>1. i = Len(short) + 1 /\ (s + 2) + i - 1 = p + 1
          BY <1>1, <3>4, <4>2
        <5> QED
          BY <3>5, <4>1, <5>1
      <4>3. CASE i # p - s
        <5>1. i \in 1..(p - (s + 1))
          BY <1>1, <4>1, <4>3
        <5> QED
          BY <3>4, <3>5, <4>1, <5>1
      <4> QED
        BY <4>2, <4>3
    <3> HIDE DEF both
    <3>8. both = long
      BY <3>3, <3>5, <3>6, <3>7, SeqEqual
    <3> QED
      BY <3>8 DEF long, short, both
  <2> QED
    BY <2>1, <2>2
<1>5. /\ s + 1 <= p + 1
      /\ \A i \in (s + 2)..(p + 1) : t[i] \in {Lex!Quote, Lex!NL} => Escaped(t, s, i)
  BY <1>1, <1>2
<1> QED
  BY <1>1, <1>3, <1>4, <1>5 DEF StringOf

(* And by a backslash with what it escapes, to q.                           *)
LEMMA EscapeInString ==
  ASSUME NEW t \in Seq(0..255), NEW s \in Nat, NEW p \in Nat, NEW v, NEW w,
         StringOf(t, s, p, v), p < Len(t), t[p + 1] = Lex!Backslash,
         NEW q \in (p + 1)..Len(t),
         \/ q = p + 1 /\ p + 1 = Len(t)
         \/ q = p + 2
         \/ p + 1 < q /\ \A i \in (p + 2)..q : t[i] \notin {Lex!Quote, Lex!NL, Lex!Backslash}
  PROVE  StringOf(t, s, q, w)
<1>1. Len(t) \in Nat /\ s + 1 <= p /\ t[s + 1] = Lex!Quote /\ Unescaped(t, s, p + 1) /\ q \in Nat
  BY DEF StringOf
<1>2. Escaped(t, s, p + 2)
  <2>1. p + 1 \in Nat /\ s < p + 1 /\ (p + 1) + 1 = p + 2
    BY <1>1
  <2> QED
    BY <1>1, <2>1, EscapesNext
<1>3. ASSUME NEW i \in (s + 2)..q, t[i] \in {Lex!Quote, Lex!NL}
      PROVE  Escaped(t, s, i)
  <2>1. CASE i <= p
    <3>1. i \in (s + 2)..p
      BY <1>1, <2>1
    <3> QED
      BY <1>3, <3>1 DEF StringOf
  <2>2. CASE i = p + 1
    BY <1>3, <2>2, RuneKinds
  <2>3. CASE i = p + 2
    BY <1>2, <2>3
  <2>4. CASE i > p + 2
    BY <1>1, <1>3, <2>4
  <2> QED
    BY <1>1, <2>1, <2>2, <2>3, <2>4
<1>4. ASSUME q < Len(t)
      PROVE  Unescaped(t, s, q + 1)
  <2>1. q \in Nat /\ s < q /\ p + 1 < q
    BY <1>1, <1>4
  <2>2. CASE t[q] # Lex!Backslash
    BY <2>1, <2>2, EscapesNext
  <2>3. CASE t[q] = Lex!Backslash
    <3>1. q = p + 2
      BY <1>1, <2>1, <2>3
    <3> QED
      BY <1>2, <2>1, <2>3, <3>1, EscapesNext
  <2> QED
    BY <2>2, <2>3
<1>5. p + 1 \in (s + 1)..q
  BY <1>1
<1> QED
  BY <1>1, <1>3, <1>4, <1>5 DEF StringOf

LEMMA ScanStringTile ==
  ASSUME LexerInv, TileInv, Lex!ScanString
  PROVE  TileInv'
<1> DEFINE p == at.pos
           s == start.pos
           r == Lex!Rune(at)
           c == Lex!Advance(at)
           e == Lex!Escape(c)
           end == EndOf(tokens)
<1>1. /\ pc = "string" /\ end \in Nat /\ SkippedOf(text, end, s) /\ s \in Nat /\ s < p
      /\ StringOf(text, s, p, buf)
  BY DEF Lex!ScanString, TileInv, ReadOf
<1>2. /\ p \in Nat /\ p \in 0..Len(text) /\ Len(text) \in Nat /\ Good(c) /\ r = RuneOf(text, p)
      /\ text \in Seq(0..255)
      /\ c.pos = IF p < Len(text) THEN p + 1 ELSE p
  BY PlaceFacts
<1>3. r # Lex!EOF => p < Len(text) /\ text[p + 1] = r /\ c.pos = p + 1
  BY <1>2 DEF RuneOf
<1>4. start' = start
  BY DEF Lex!ScanString
<1>5. \/ Lex!Return("Error", <<>>, c)
      \/ r = Lex!Quote /\ Lex!Return("String", buf, c)
      \/ r = Lex!Backslash /\ Lex!Return("Error", <<>>, e.end)
      \/ /\ r = Lex!Backslash /\ ~(e.val < 0)
         /\ pc' = "string" /\ buf' = Append(buf, e.val) /\ at' = e.end /\ UNCHANGED <<text, tokens>>
      \/ /\ r \notin {Lex!EOF, Lex!NL, Lex!Quote, Lex!Backslash}
         /\ pc' = "string" /\ buf' = Append(buf, r) /\ at' = c /\ UNCHANGED <<text, tokens>>
  BY DEF Lex!ScanString
<1>6. /\ Good(e.end) /\ c.pos <= e.end.pos
      /\ c.pos < Len(text) /\ ~(e.val < 0) =>
           \/ e.end.pos = c.pos + 1
           \/ /\ c.pos < e.end.pos
              /\ \A i \in (c.pos + 1)..e.end.pos : text[i] \in Lex!HexDigit \cup {120}
  BY <1>2, EscapeGood
<1>7. e.end.pos \in 0..Len(text)
  BY <1>6 DEF Good
<1> HIDE DEF r, c, e
<1>8. ASSUME NEW type, NEW value, NEW d, Good(d), Lex!Return(type, value, d),
             ShapeOf(text, type, value, s, d.pos)
      PROVE  TileInv'
  <2>1. start'.pos \in 0..Len(text) /\ SkippedOf(text, end, start'.pos)
    BY <1>1, <1>2, <1>4
  <2> QED
    BY <1>4, <1>8, <2>1, ReturnTile
<1>9. ASSUME pc' = "string", text' = text, tokens' = tokens, StringOf(text, s, at'.pos, buf'), s < at'.pos
      PROVE  TileInv'
  <2>1. EndOf(tokens') = end
    BY <1>9
  <2>2. ReadOf(text', at'.pos, start'.pos, pc', buf', EndOf(tokens'))
    BY <1>1, <1>4, <1>9, <2>1 DEF ReadOf
  <2>3. TileOf(text', tokens')
    BY <1>9 DEF TileInv
  <2> QED
    BY <1>1, <2>1, <2>2, <2>3 DEF TileInv
<1>10. CASE Lex!Return("Error", <<>>, c)
  <2>1. ShapeOf(text, "Error", <<>>, s, c.pos)
    BY <1>1, <1>2 DEF ShapeOf
  <2> QED
    BY <1>2, <1>8, <1>10, <2>1
<1>11. CASE r = Lex!Quote /\ Lex!Return("String", buf, c)
  <2>1. p < Len(text) /\ text[p + 1] = Lex!Quote /\ c.pos = p + 1 /\ (p + 1) - 1 = p
    BY <1>2, <1>3, <1>11, RuneKinds
  <2>2. s + 2 <= p + 1
    BY <1>1, <1>2
  <2>3. ShapeOf(text, "String", buf, s, c.pos)
    BY <1>1, <2>1, <2>2 DEF ShapeOf
  <2> QED
    BY <1>2, <1>8, <1>11, <2>3
<1>12. CASE r = Lex!Backslash /\ Lex!Return("Error", <<>>, e.end)
  <2>1. s < e.end.pos
    BY <1>1, <1>2, <1>6, <1>7
  <2>2. ShapeOf(text, "Error", <<>>, s, e.end.pos)
    BY <2>1 DEF ShapeOf
  <2> QED
    BY <1>6, <1>8, <1>12, <2>2
<1>13. CASE /\ r = Lex!Backslash /\ ~(e.val < 0)
            /\ pc' = "string" /\ buf' = Append(buf, e.val) /\ at' = e.end /\ UNCHANGED <<text, tokens>>
  <2> DEFINE q == e.end.pos
  <2>1. p < Len(text) /\ text[p + 1] = Lex!Backslash /\ c.pos = p + 1
    BY <1>3, <1>13, RuneKinds
  <2>2. q \in (p + 1)..Len(text)
    BY <1>2, <1>6, <1>7, <2>1
  <2>3. \/ q = p + 1 /\ p + 1 = Len(text)
        \/ q = p + 2
        \/ p + 1 < q /\ \A i \in (p + 2)..q : text[i] \notin {Lex!Quote, Lex!NL, Lex!Backslash}
    <3>1. CASE p + 1 = Len(text)
      BY <2>2, <3>1
    <3>2. CASE p + 1 < Len(text)
      <4>1. \/ q = (p + 1) + 1
            \/ p + 1 < q /\ \A i \in ((p + 1) + 1)..q : text[i] \in Lex!HexDigit \cup {120}
        BY <1>6, <1>13, <2>1, <3>2
      <4>2. (p + 1) + 1 = p + 2
        BY <1>2
      <4>3. 120 \notin {Lex!Quote, Lex!NL, Lex!Backslash}
        BY DEF Lex!Quote, Lex!NL, Lex!Backslash
      <4> QED
        BY <4>1, <4>2, <4>3, RuneKinds
    <3> QED
      BY <1>2, <2>1, <3>1, <3>2
  <2>4. StringOf(text, s, q, buf')
    <3> HIDE DEF q
    <3> QED
      BY <1>1, <1>2, <2>1, <2>2, <2>3, EscapeInString
  <2>5. s < q
    BY <1>1, <1>2, <2>2
  <2> QED
    BY <1>9, <1>13, <2>4, <2>5
<1>14. CASE /\ r \notin {Lex!EOF, Lex!NL, Lex!Quote, Lex!Backslash}
            /\ pc' = "string" /\ buf' = Append(buf, r) /\ at' = c /\ UNCHANGED <<text, tokens>>
  <2>1. p < Len(text) /\ text[p + 1] = r /\ c.pos = p + 1 /\ s < p + 1
    BY <1>1, <1>2, <1>3, <1>14
  <2>2. StringOf(text, s, p + 1, Append(buf, text[p + 1]))
    BY <1>1, <1>2, <1>14, <2>1, PlainInString
  <2> QED
    BY <1>9, <1>14, <2>1, <2>2
<1> QED
  BY <1>5, <1>10, <1>11, <1>12, <1>13, <1>14

-----------------------------------------------------------------------------
(* What has been read is what the tokens are said to look like.             *)

LEMMA MaxIs ==
  ASSUME NEW S \in SUBSET Nat, NEW m \in S, \A y \in S : y <= m
  PROVE  Max(S) = m
<1>1. \A x \in S : (\A y \in S : x >= y) => x = m
  OBVIOUS
<1>2. \A y \in S : m >= y
  OBVIOUS
<1> QED
  BY <1>1, <1>2 DEF Max

(* A piece of the text, and a piece of it.                                  *)
LEMMA PieceFacts ==
  ASSUME text \in Seq(0..255), NEW p \in 0..Len(text), NEW q \in p..Len(text)
  PROVE  /\ p \in Nat /\ q \in Nat /\ q - p \in Nat
         /\ Lex!Piece(p, q) \in Seq(0..255) /\ Len(Lex!Piece(p, q)) = q - p
         /\ \A i \in 1..(q - p) : Lex!Piece(p, q)[i] = text[p + i]
<1>1. Len(text) \in Nat /\ p \in Nat /\ q \in Nat /\ p <= q /\ q <= Len(text)
  OBVIOUS
<1>2. \A i \in (p + 1)..q : text[i] \in 0..255
  <2> SUFFICES ASSUME NEW i \in (p + 1)..q PROVE text[i] \in 0..255
    OBVIOUS
  <2>1. i \in 1..Len(text)
    BY <1>1
  <2> QED
    BY <2>1, ElementOfSeq
<1>3. /\ SubSeq(text, p + 1, q) \in Seq(0..255)
      /\ Len(SubSeq(text, p + 1, q)) = IF p + 1 <= q THEN q - (p + 1) + 1 ELSE 0
      /\ \A i \in 1..(q - (p + 1) + 1) : SubSeq(text, p + 1, q)[i] = text[(p + 1) + i - 1]
  <2>1. p + 1 \in Int /\ q \in Int
    BY <1>1
  <2> QED
    BY <1>2, <2>1, SubSeqProperties
<1>4. q - (p + 1) + 1 = q - p /\ (~(p + 1 <= q) => q - p = 0)
  BY <1>1
<1>5. \A i \in 1..(q - p) : (p + 1) + i - 1 = p + i
  BY <1>1
<1> QED
  BY <1>1, <1>3, <1>4, <1>5 DEF Lex!Piece

LEMMA InsideFacts ==
  ASSUME text \in Seq(0..255), NEW p \in 0..Len(text), NEW q \in 0..Len(text), p + 2 <= q
  PROVE  LET s == Lex!Piece(p, q)
             inside == SubSeq(s, 2, Len(s) - 1)
         IN /\ inside = SubSeq(text, p + 2, q - 1)
            /\ DOMAIN inside = 1..(q - p - 2)
            /\ \A i \in DOMAIN inside : inside[i] = text[(p + 1) + i]
<1> DEFINE s == Lex!Piece(p, q)
           inside == SubSeq(s, 2, Len(s) - 1)
           direct == SubSeq(text, p + 2, q - 1)
<1>1. Len(text) \in Nat /\ p \in Nat /\ q \in Nat /\ p <= q
  OBVIOUS
<1>2. /\ s \in Seq(0..255) /\ Len(s) = q - p
      /\ \A i \in 1..(q - p) : s[i] = text[p + i]
  BY <1>1, PieceFacts
<1> HIDE DEF s
<1>3. /\ inside \in Seq(0..255) /\ Len(inside) = q - p - 2
      /\ \A i \in 1..(q - p - 2) : inside[i] = text[(p + 1) + i]
  <2>1. 2 \in Int /\ Len(s) - 1 \in Int /\ Len(s) - 1 - 2 + 1 = q - p - 2
    BY <1>1, <1>2
  <2>2. \A i \in 2..(Len(s) - 1) : s[i] \in 0..255
    <3> SUFFICES ASSUME NEW i \in 2..(Len(s) - 1) PROVE s[i] \in 0..255
      OBVIOUS
    <3>1. i \in 1..Len(s)
      BY <1>1, <1>2
    <3> QED
      BY <1>2, <3>1, ElementOfSeq
  <2>3. /\ inside \in Seq(0..255)
        /\ Len(inside) = IF 2 <= Len(s) - 1 THEN Len(s) - 1 - 2 + 1 ELSE 0
        /\ \A i \in 1..(Len(s) - 1 - 2 + 1) : inside[i] = s[2 + i - 1]
    BY <2>1, <2>2, SubSeqProperties
  <2>4. ~(2 <= Len(s) - 1) => q - p - 2 = 0
    BY <1>1, <1>2
  <2>5. ASSUME NEW i \in 1..(q - p - 2) PROVE inside[i] = text[(p + 1) + i]
    <3>1. 2 + i - 1 \in 1..(q - p) /\ p + (2 + i - 1) = (p + 1) + i
      BY <1>1
    <3>2. inside[i] = s[2 + i - 1]
      BY <2>1, <2>3
    <3> QED
      BY <1>2, <3>1, <3>2
  <2> QED
    BY <2>1, <2>3, <2>4, <2>5
<1>4. /\ direct \in Seq(0..255) /\ Len(direct) = q - p - 2
      /\ \A i \in 1..(q - p - 2) : direct[i] = text[(p + 1) + i]
  <2>1. p + 2 \in Int /\ q - 1 \in Int /\ q - 1 - (p + 2) + 1 = q - p - 2
    BY <1>1
  <2>2. \A i \in (p + 2)..(q - 1) : text[i] \in 0..255
    <3> SUFFICES ASSUME NEW i \in (p + 2)..(q - 1) PROVE text[i] \in 0..255
      OBVIOUS
    <3>1. i \in 1..Len(text)
      BY <1>1
    <3> QED
      BY <3>1, ElementOfSeq
  <2>3. /\ direct \in Seq(0..255)
        /\ Len(direct) = IF p + 2 <= q - 1 THEN q - 1 - (p + 2) + 1 ELSE 0
        /\ \A i \in 1..(q - 1 - (p + 2) + 1) : direct[i] = text[(p + 2) + i - 1]
    <3>1. ASSUME NEW m \in Int, NEW n \in Int, \A i \in m..n : text[i] \in 0..255
          PROVE  /\ SubSeq(text, m, n) \in Seq(0..255)
                 /\ Len(SubSeq(text, m, n)) = IF m <= n THEN n - m + 1 ELSE 0
                 /\ \A i \in 1..(n - m + 1) : SubSeq(text, m, n)[i] = text[m + i - 1]
      BY <3>1, SubSeqProperties
    <3>2. p + 2 \in Int /\ q - 1 \in Int
      BY <2>1
    <3> QED
      BY <2>2, <3>1, <3>2, Zenon
  <2>4. ~(p + 2 <= q - 1) => q - p - 2 = 0
    BY <1>1
  <2>5. \A i \in 1..(q - p - 2) : (p + 2) + i - 1 = (p + 1) + i
    BY <1>1
  <2> QED
    BY <2>1, <2>3, <2>4, <2>5
<1> HIDE DEF inside, direct
<1>5. inside = direct
  BY <1>3, <1>4, SeqEqual
<1>6. DOMAIN inside = 1..(q - p - 2)
  BY <1>3
<1> QED
  BY <1>3, <1>5, <1>6 DEF s, inside, direct

(* How many backslashes there are before a rune, counted in the piece.      *)
LEMMA BackslashesIs ==
  ASSUME text \in Seq(0..255), NEW p \in 0..Len(text), NEW q \in p..Len(text),
         NEW i \in 2..(q - p), NEW rest, AfterBackslashes(text, p, p + i, rest)
  PROVE  LET s == Lex!Piece(p, q)
         IN (i - Lex!Max({j \in 1..i - 1 : s[j] # Lex!Backslash})) % 2 = rest
<1> DEFINE s == Lex!Piece(p, q)
           S == {j \in 1..i - 1 : s[j] # Lex!Backslash}
<1>1. Len(text) \in Nat /\ p \in Nat /\ q \in Nat /\ p <= q /\ i \in Nat /\ i <= q - p
  OBVIOUS
<1>2. \A j \in 1..(q - p) : s[j] = text[p + j]
  BY PieceFacts
<1> HIDE DEF s
<1>3. PICK m \in (p + 1)..((p + i) - 1) :
             /\ text[m] # Lex!Backslash
             /\ \A j \in (m + 1)..((p + i) - 1) : text[j] = Lex!Backslash
             /\ ((p + i) - m) % 2 = rest
  BY DEF AfterBackslashes
<1>4. m - p \in S
  <2>1. m - p \in 1..i - 1 /\ m - p \in 1..(q - p) /\ p + (m - p) = m
    BY <1>1, <1>3
  <2> QED
    BY <1>2, <1>3, <2>1
<1>5. ASSUME NEW j \in S PROVE j <= m - p
  <2>1. j \in 1..i - 1 /\ j \in Nat /\ j \in 1..(q - p)
    BY <1>1
  <2>2. text[p + j] # Lex!Backslash
    BY <1>2, <2>1
  <2>3. SUFFICES ASSUME ~(j <= m - p) PROVE FALSE
    OBVIOUS
  <2>4. p + j \in (m + 1)..((p + i) - 1)
    BY <1>1, <1>3, <2>1, <2>3
  <2> QED
    BY <1>3, <2>2, <2>4
<1>6. S \in SUBSET Nat
  BY <1>1
<1> HIDE DEF S
<1>7. Lex!Max(S) = m - p
  <2>1. Max(S) = m - p
    BY <1>4, <1>5, <1>6, MaxIs
  <2> QED
    BY <2>1, SameOperators
<1>8. i - (m - p) = (p + i) - m
  BY <1>1, <1>3
<1> QED
  BY <1>3, <1>7, <1>8 DEF S, s

LEMMA BlankIs ==
  ASSUME text \in Seq(0..255), NEW p \in 0..Len(text), NEW q \in 0..Len(text), p < q,
         BlankOf(text, p, q)
  PROVE  Lex!Blank(p, q)
<1> DEFINE s == Lex!Piece(p, q)
<1>1. Len(text) \in Nat /\ p \in Nat /\ q \in Nat /\ p <= q /\ q \in p..Len(text)
  OBVIOUS
<1>2. /\ s \in Seq(0..255) /\ Len(s) = q - p /\ q - p \in Nat
      /\ \A i \in 1..(q - p) : s[i] = text[p + i]
  BY <1>1, PieceFacts
<1>3. Lex!Piece(p, q) = s
  OBVIOUS
<1> HIDE DEF s
<1>4. CASE q = p + 1 /\ text[q] \in Lex!Space
  <2>1. Len(s) = 1 /\ s[1] = text[q]
    BY <1>1, <1>2, <1>4
  <2> QED
    BY <1>3, <1>4, <2>1 DEF Lex!Blank
<1>5. ASSUME NEW z \in (p + 2)..q, LineCommentOf(text, p, z), q - 1 <= z,
             text[q] = Lex!NL \/ q = Len(text)
      PROVE  Lex!Blank(p, q)
  <2>1. Len(s) >= 2 /\ s[1] = Lex!Slash /\ s[2] = Lex!Slash
    BY <1>1, <1>2, <1>5 DEF LineCommentOf
  <2>2. \A i \in 1..Len(s) - 1 : s[i] # Lex!NL
    <3> SUFFICES ASSUME NEW i \in 1..Len(s) - 1 PROVE s[i] # Lex!NL
      OBVIOUS
    <3>1. i \in 1..(q - p) /\ p + i \in (p + 1)..z
      BY <1>1, <1>2, <1>5
    <3> QED
      BY <1>2, <1>5, <3>1 DEF LineCommentOf
  <2>3. s[Len(s)] = text[q]
    BY <1>1, <1>2
  <2> QED
    BY <1>3, <1>5, <2>1, <2>2, <2>3 DEF Lex!Blank
<1>6. ASSUME p + 2 <= q, text[p + 1] = Lex!Slash, text[p + 2] = Lex!Star,
             \A i \in (p + 4)..(q - 1) : ~(text[i - 1] = Lex!Star /\ text[i] = Lex!Slash),
             (p + 4 <= q /\ text[q - 1] = Lex!Star /\ text[q] = Lex!Slash) \/ q = Len(text)
      PROVE  Lex!Blank(p, q)
  <2>1. Len(s) >= 2 /\ s[1] = Lex!Slash /\ s[2] = Lex!Star
    BY <1>1, <1>2, <1>6
  <2>2. ASSUME NEW i \in 1..Len(s) - 1
        PROVE  ~(i >= 4 /\ s[i - 1] = Lex!Star /\ s[i] = Lex!Slash)
    <3> SUFFICES ASSUME i >= 4 PROVE ~(s[i - 1] = Lex!Star /\ s[i] = Lex!Slash)
      OBVIOUS
    <3>1. /\ i \in 1..(q - p) /\ i - 1 \in 1..(q - p) /\ p + i \in (p + 4)..(q - 1)
          /\ p + (i - 1) = (p + i) - 1
      BY <1>1, <1>2
    <3>2. s[i] = text[p + i] /\ s[i - 1] = text[(p + i) - 1]
      BY <1>2, <3>1
    <3> QED
      BY <1>6, <3>1, <3>2
  <2>3. p + 4 <= q => Len(s) >= 4 /\ s[Len(s)] = text[q] /\ s[Len(s) - 1] = text[q - 1]
    <3> SUFFICES ASSUME p + 4 <= q
                 PROVE  Len(s) >= 4 /\ s[Len(s)] = text[q] /\ s[Len(s) - 1] = text[q - 1]
      OBVIOUS
    <3>1. /\ q - p >= 4 /\ q - p \in 1..(q - p) /\ (q - p) - 1 \in 1..(q - p)
          /\ p + (q - p) = q /\ p + ((q - p) - 1) = q - 1
      BY <1>1
    <3> QED
      BY <1>2, <3>1
  <2> QED
    BY <1>3, <1>6, <2>1, <2>2, <2>3 DEF Lex!Blank
<1>7. CASE LineCommentOf(text, p, q - 1) /\ text[q] = Lex!NL
  <2>1. q - 1 \in (p + 2)..q /\ q - 1 <= q - 1
    BY <1>1, <1>7 DEF LineCommentOf
  <2> QED
    BY <1>5, <1>7, <2>1
<1>8. CASE LineCommentOf(text, p, q) /\ q = Len(text)
  <2>1. q \in (p + 2)..q /\ q - 1 <= q
    BY <1>1, <1>8 DEF LineCommentOf
  <2> QED
    BY <1>5, <1>8, <2>1
<1>9. CASE BlockCommentOf(text, p, q) /\ q = Len(text)
  <2>1. \A i \in (p + 4)..(q - 1) : i \in (p + 4)..q
    BY <1>1
  <2> QED
    BY <1>6, <1>9, <2>1 DEF BlockCommentOf
<1>10. CASE /\ p + 4 <= q
            /\ text[p + 1] = Lex!Slash /\ text[p + 2] = Lex!Star
            /\ \A i \in (p + 4)..(q - 1) : ~(text[i - 1] = Lex!Star /\ text[i] = Lex!Slash)
            /\ text[q - 1] = Lex!Star /\ text[q] = Lex!Slash
  <2>1. p + 2 <= q
    BY <1>1, <1>10
  <2> QED
    BY <1>6, <1>10, <2>1
<1> QED
  BY <1>4, <1>7, <1>8, <1>9, <1>10 DEF BlankOf

LEMMA SkippedIs ==
  ASSUME text \in Seq(0..255), NEW p \in 0..Len(text), NEW q \in 0..Len(text),
         SkippedOf(text, p, q)
  PROVE  Lex!Skipped(p, q)
<1>1. Len(text) \in Nat /\ p \in Nat /\ q \in Nat
  OBVIOUS
<1>2. ASSUME NEW r \in 0..Len(text), BlanksOf(text, p, r)
      PROVE  Lex!Blanks(p, r)
  <2>1. PICK cuts \in SUBSET (p..r) : CutsOf(text, cuts, p, r)
    BY <1>2 DEF BlanksOf
  <2>2. ASSUME NEW k \in cuts, NEW m \in cuts, k < m, (k + 1 .. m - 1) \cap cuts = {}
        PROVE  Lex!Blank(k, m)
    <3>1. BlankOf(text, k, m)
      BY <2>1, <2>2 DEF CutsOf
    <3>2. k \in 0..Len(text) /\ m \in 0..Len(text)
      BY <1>1, <2>1
    <3> QED
      BY <2>2, <3>1, <3>2, BlankIs
  <2>3. Lex!Cuts(cuts, p, r)
    BY <2>1, <2>2 DEF CutsOf, Lex!Cuts
  <2> QED
    BY <2>3 DEF Lex!Blanks
<1>3. CASE BlanksOf(text, p, q)
  BY <1>2, <1>3 DEF Lex!Skipped
<1>4. CASE q > p /\ text[q] = Lex!Slash /\ BlanksOf(text, p, q - 1)
  <2>1. q - 1 \in 0..Len(text)
    BY <1>1, <1>4
  <2> QED
    BY <1>2, <1>4, <2>1 DEF Lex!Skipped
<1> QED
  BY <1>3, <1>4 DEF SkippedOf

LEMMA ShapeIs ==
  ASSUME text \in Seq(0..255), NEW k, k.from \in 0..Len(text), k.to \in 0..Len(text),
         ShapeOf(text, k.type, k.value, k.from, k.to)
  PROVE  Lex!Shape(k)
<1> DEFINE p == k.from
           q == k.to
           s == Lex!Piece(p, q)
           inside == SubSeq(s, 2, Len(s) - 1)
           rest == IF q < Len(text) THEN text[q + 1] ELSE Lex!EOF
           All(r, set) == \A i \in DOMAIN r : r[i] \in set
           Esc(i) == (i - Lex!Max({j \in 1..i - 1 : s[j] # Lex!Backslash})) % 2 = 0
<1>1. Len(text) \in Nat /\ p \in Nat /\ q \in Nat /\ p \in 0..Len(text) /\ q \in 0..Len(text)
  OBVIOUS
<1>2. ASSUME p <= q
      PROVE  /\ s \in Seq(0..255) /\ Len(s) = q - p /\ q - p \in Nat /\ DOMAIN s = 1..(q - p)
             /\ \A i \in 1..(q - p) : s[i] = text[p + i]
  <2>1. q \in p..Len(text)
    BY <1>1, <1>2
  <2>2. /\ s \in Seq(0..255) /\ Len(s) = q - p /\ q - p \in Nat
        /\ \A i \in 1..(q - p) : s[i] = text[p + i]
    BY <2>1, PieceFacts
  <2> HIDE DEF s
  <2> QED
    BY <2>2
<1>3. ASSUME p <= q, NEW set, \A i \in (p + 1)..q : text[i] \in set
      PROVE  All(s, set)
  <2> SUFFICES ASSUME NEW i \in 1..(q - p) PROVE s[i] \in set
    BY <1>2, <1>3
  <2>1. p + i \in (p + 1)..q
    BY <1>1
  <2> QED
    BY <1>2, <1>3, <2>1
<1>4. ASSUME p + 2 <= q
      PROVE  /\ inside = SubSeq(text, p + 2, q - 1)
             /\ DOMAIN inside = 1..(q - p - 2)
             /\ \A i \in DOMAIN inside : inside[i] = text[(p + 1) + i]
             /\ p <= q /\ Len(s) >= 2
             /\ s[1] = text[p + 1] /\ s[2] = text[p + 2] /\ s[Len(s)] = text[q]
  <2>1. /\ inside = SubSeq(text, p + 2, q - 1)
        /\ DOMAIN inside = 1..(q - p - 2)
        /\ \A i \in DOMAIN inside : inside[i] = text[(p + 1) + i]
    BY <1>1, <1>4, InsideFacts
  <2>2. p <= q /\ 1 \in 1..(q - p) /\ 2 \in 1..(q - p) /\ q - p \in 1..(q - p) /\ p + (q - p) = q /\ q - p >= 2
    BY <1>1, <1>4
  <2> HIDE DEF s, inside
  <2> QED
    BY <1>2, <2>1, <2>2
<1>5. rest = RuneOf(text, q)
  BY DEF RuneOf
<1>6. Lex!Shape(k) =
        CASE k.type = "EOF" -> p = Len(text)
          [] k.type = "Ident" -> /\ s[1] \in Lex!IdentStart /\ All(s, Lex!IdentChar)
                                 /\ rest \notin Lex!IdentChar /\ k.value = s
          [] k.type = "Number" ->
               /\ k.value = s
               /\ \/ s # <<>> /\ All(s, Lex!Digit) /\ rest \notin Lex!Digit
                     /\ (s = <<48>> => rest \notin {88, 120})
                  \/ Len(s) >= 2 /\ s[1] = 48 /\ s[2] \in {88, 120}
                     /\ All(SubSeq(s, 3, Len(s)), Lex!HexDigit) /\ rest \notin Lex!HexDigit
          [] k.type = "Keycode" -> /\ s[1] = Lex!Less /\ s[Len(s)] = Lex!Greater
                                   /\ All(inside, Lex!KeycodeChar) /\ k.value = inside
          [] k.type = "String" ->
               /\ Len(s) >= 2 /\ s[1] = Lex!Quote /\ s[Len(s)] = Lex!Quote
               /\ \A i \in 2..Len(s) : s[i] = Lex!Quote => (i = Len(s) <=> ~Esc(i))
               /\ \A i \in 2..Len(s) : s[i] = Lex!NL => Esc(i)
               /\ (Lex!Backslash \notin {s[i] : i \in DOMAIN s} => k.value = inside)
          [] OTHER -> Len(s) >= 1
  BY DEF Lex!Shape
<1>7. CASE k.type = "EOF" /\ p = Len(text)
  BY <1>6, <1>7
<1>8. CASE k.type \in {"Punctuation", "Error"} /\ p < q
  <2>1. Len(s) >= 1
    BY <1>1, <1>2, <1>8
  <2> HIDE DEF s, inside, rest, All, Esc
  <2> QED
    BY <1>6, <1>8, <2>1
<1>9. CASE /\ k.type = "Ident"
           /\ p < q /\ k.value = SubSeq(text, p + 1, q)
           /\ text[p + 1] \in Lex!IdentStart
           /\ \A i \in (p + 1)..q : text[i] \in Lex!IdentChar
           /\ RuneOf(text, q) \notin Lex!IdentChar
  <2>1. s[1] = text[p + 1]
    BY <1>1, <1>2, <1>9
  <2>2. All(s, Lex!IdentChar)
    BY <1>1, <1>3, <1>9
  <2>3. k.value = s
    BY <1>9 DEF Lex!Piece
  <2> HIDE DEF s, inside, rest, All, Esc
  <2> QED
    BY <1>5, <1>6, <1>9, <2>1, <2>2, <2>3
<1>10. CASE k.type = "Number" /\ p < q /\ k.value = SubSeq(text, p + 1, q) /\ NumberOf(text, p, q)
  <2>1. k.value = s
    BY <1>10 DEF Lex!Piece
  <2>2. CASE /\ \A i \in (p + 1)..q : text[i] \in Lex!Digit
             /\ RuneOf(text, q) \notin Lex!Digit
             /\ q = p + 1 /\ text[q] = 48 => RuneOf(text, q) \notin {88, 120}
    <3>1. All(s, Lex!Digit)
      BY <1>1, <1>3, <1>10, <2>2
    <3>2. s # <<>> /\ Len(s) = q - p
      <4>1. Len(s) = q - p /\ q - p # 0
        BY <1>1, <1>2, <1>10
      <4> HIDE DEF s
      <4> QED
        BY <4>1
    <3>3. s = <<48>> => rest \notin {88, 120}
      <4> SUFFICES ASSUME s = << 48 >> PROVE rest \notin {88, 120}
        OBVIOUS
      <4>1. Len(s) = 1 /\ s[1] = 48
        OBVIOUS
      <4>2. q = p + 1 /\ text[p + 1] = 48
        <5> HIDE DEF s
        <5> QED
          BY <1>1, <1>2, <1>10, <3>2, <4>1
      <4> HIDE DEF s
      <4> QED
        BY <1>5, <2>2, <4>2
    <3> HIDE DEF s, inside, rest, All, Esc
    <3> QED
      BY <1>5, <1>6, <1>10, <2>1, <2>2, <3>1, <3>2, <3>3
  <2>3. CASE /\ p + 2 <= q
             /\ text[p + 1] = 48 /\ text[p + 2] \in {88, 120}
             /\ \A i \in (p + 3)..q : text[i] \in Lex!HexDigit
             /\ RuneOf(text, q) \notin Lex!HexDigit
    <3>1. All(SubSeq(s, 3, Len(s)), Lex!HexDigit)
      <4>1. \A i \in 3..Len(s) : s[i] \in Lex!HexDigit
        <5> SUFFICES ASSUME NEW i \in 3..Len(s) PROVE s[i] \in Lex!HexDigit
          OBVIOUS
        <5> HIDE DEF s, p, q
        <5>1. Len(s) = q - p
          BY <1>2, <1>4, <2>3
        <5>2. i \in 3..(q - p)
          BY <5>1
        <5>3. i \in 1..(q - p) /\ p + i \in (p + 3)..q
          BY <1>1, <5>2
        <5> QED
          BY <1>2, <1>4, <2>3, <5>3
      <4>2. Len(s) \in Int /\ 3 \in Int
        BY <1>1, <1>2, <1>4, <2>3
      <4>3. SubSeq(s, 3, Len(s)) \in Seq(Lex!HexDigit)
        <5> HIDE DEF s
        <5> QED
          BY <4>1, <4>2, SubSeqProperties
      <4> HIDE DEF s
      <4> DEFINE tail == SubSeq(s, 3, Len(s))
      <4> HIDE DEF tail
      <4>4. tail \in Seq(Lex!HexDigit)
        BY <4>3 DEF tail
      <4>5. All(tail, Lex!HexDigit)
        BY <4>4
      <4> QED
        BY <4>5 DEF tail
    <3> HIDE DEF s, inside, rest, All, Esc
    <3> QED
      BY <1>4, <1>5, <1>6, <1>10, <2>1, <2>3, <3>1
  <2> HIDE DEF s, inside, rest, All, Esc
  <2> QED
    BY <1>10, <2>2, <2>3 DEF NumberOf
<1>11. CASE /\ k.type = "Keycode"
            /\ p + 2 <= q /\ k.value = SubSeq(text, p + 2, q - 1)
            /\ text[p + 1] = Lex!Less /\ text[q] = Lex!Greater
            /\ \A i \in (p + 2)..(q - 1) : text[i] \in Lex!KeycodeChar
  <2>1. All(inside, Lex!KeycodeChar)
    <3> SUFFICES ASSUME NEW i \in DOMAIN inside PROVE inside[i] \in Lex!KeycodeChar
      OBVIOUS
    <3> HIDE DEF s, inside, p, q
    <3>1. i \in 1..(q - p - 2) /\ inside[i] = text[(p + 1) + i]
      BY <1>4, <1>11
    <3>2. (p + 1) + i \in (p + 2)..(q - 1)
      <4>1. i \in Int /\ 1 <= i /\ i <= q - p - 2
        BY <1>1, <3>1
      <4> QED
        BY <1>1, <4>1
    <3> QED
      BY <1>11, <3>1, <3>2
  <2> HIDE DEF s, inside, rest, All, Esc
  <2> QED
    BY <1>4, <1>6, <1>11, <2>1
<1>12. CASE /\ k.type = "String"
            /\ p + 2 <= q
            /\ StringOf(text, p, q - 1, k.value)
            /\ text[q] = Lex!Quote
  <2>1. /\ text[p + 1] = Lex!Quote /\ Len(s) = q - p /\ q - p \in Nat
        /\ p + (q - p) = q /\ (q - 1) + 1 = q
    BY <1>1, <1>2, <1>4, <1>12 DEF StringOf
  <2>2. ASSUME NEW i \in 2..(q - p), i # q - p, s[i] \in {Lex!Quote, Lex!NL}
        PROVE  Esc(i)
    <3>1. p + i \in (p + 2)..(q - 1) /\ i \in 1..(q - p)
      BY <1>1, <2>2
    <3>2. text[p + i] \in {Lex!Quote, Lex!NL}
      BY <1>2, <1>4, <1>12, <2>2, <3>1
    <3>3. AfterBackslashes(text, p, p + i, 0)
      BY <1>12, <3>1, <3>2 DEF StringOf, Escaped
    <3> QED
      BY <1>1, <1>12, <3>3, BackslashesIs
  <2>3. ~Esc(q - p)
    <3>1. AfterBackslashes(text, p, p + (q - p), 1)
      BY <1>1, <1>12, <2>1 DEF StringOf, Unescaped
    <3>2. q - p \in 2..(q - p) /\ q \in p..Len(text)
      BY <1>1, <1>12
    <3>3. ((q - p) - Lex!Max({j \in 1..(q - p) - 1 : s[j] # Lex!Backslash})) % 2 = 1
      BY <1>1, <3>1, <3>2, BackslashesIs
    <3> QED
      BY <3>3
  <2>4. Lex!Backslash \notin {s[i] : i \in DOMAIN s} => k.value = inside
    <3> SUFFICES ASSUME Lex!Backslash \notin {s[i] : i \in DOMAIN s} PROVE k.value = inside
      OBVIOUS
    <3>1. ASSUME NEW i \in (p + 1)..(q - 1) PROVE text[i] # Lex!Backslash
      <4>1. i - p \in 1..(q - p) /\ p + (i - p) = i
        BY <1>1
      <4> HIDE DEF s
      <4> QED
        BY <1>2, <1>4, <1>12, <4>1
    <3>2. k.value = SubSeq(text, p + 2, q - 1)
      BY <1>12, <3>1 DEF StringOf
    <3> HIDE DEF s, inside
    <3> QED
      BY <1>4, <1>12, <3>2
  <2>5. s[q - p] # Lex!NL
    <3> HIDE DEF s
    <3> QED
      BY <1>4, <1>12, <2>1, RuneKinds
  <2> HIDE DEF s, inside, rest, All, Esc
  <2> QED
    BY <1>4, <1>6, <1>12, <2>1, <2>2, <2>3, <2>4, <2>5
<1> HIDE DEF s, inside, rest, All, Esc
<1> QED
  BY <1>7, <1>8, <1>9, <1>10, <1>11, <1>12 DEF ShapeOf

(* TileInv is inductive.                                                    *)
LEMMA TileInductive == Lex!Spec => []TileInv
<1>1. ASSUME Lex!Init PROVE TileInv
  <2>1. tokens = <<>> /\ pc = "space" /\ at.pos = 0
    BY <1>1 DEF Lex!Init
  <2>2. EndOf(tokens) = 0 /\ DOMAIN tokens = {}
    BY <2>1 DEF EndOf
  <2>3. BlanksOf(text, 0, 0)
    BY NoBlanks
  <2> QED
    BY <2>1, <2>2, <2>3 DEF TileInv, TileOf, ReadOf
<1>2. ASSUME LexerInv, TileInv, [Lex!Next]_(Lex!vars) PROVE TileInv'
  <2>1. CASE UNCHANGED Lex!vars
    BY <1>2, <2>1 DEF Lex!vars, TileInv
  <2>2. CASE Lex!Next
    BY <1>2, <2>2, WhitespaceTile, CommentTile, LineCommentTile, BlockCommentTile,
       StartTokenTile, ScanKeycodeTile, ScanStringTile DEF Lex!Next
  <2> QED
    BY <1>2, <2>1, <2>2
<1> QED
  BY <1>1, <1>2, LexerInductive, PTL DEF Lex!Spec

(* Whatever the text: the tokens cut it up and lose nothing.  Each is the   *)
(* whole of an identifier, number, keycode or string, and between two there *)
(* are only blanks, comments and the slash that skipComment loses.          *)
THEOREM Tiles == Lex!Spec => []Lex!TokensTile
<1>1. ASSUME LexerInv, TileInv PROVE Lex!TokensTile
  <2> SUFFICES ASSUME NEW i \in DOMAIN tokens
               PROVE  /\ Lex!Shape(tokens[i])
                      /\ Lex!Skipped(IF i = 1 THEN 0 ELSE tokens[i - 1].to, tokens[i].from)
    BY DEF Lex!TokensTile
  <2>1. text \in Seq(0..255) /\ Len(text) \in Nat
    BY <1>1 DEF LexerInv
  <2>2. /\ tokens[i].from \in 0..Len(text) /\ tokens[i].to \in 0..Len(text)
        /\ ShapeOf(text, tokens[i].type, tokens[i].value, tokens[i].from, tokens[i].to)
        /\ SkippedOf(text, IF i = 1 THEN 0 ELSE tokens[i - 1].to, tokens[i].from)
    BY <1>1 DEF TileInv, TileOf
  <2>3. (IF i = 1 THEN 0 ELSE tokens[i - 1].to) \in 0..Len(text)
    <3>1. CASE i = 1
      BY <2>1, <3>1
    <3>2. CASE i # 1
      <4>1. i - 1 \in DOMAIN tokens
        <5>1. PICK set : tokens \in Seq(set)
          BY <1>1 DEF LexerInv
        <5> QED
          BY <3>2, <5>1
      <4> QED
        BY <1>1, <3>2, <4>1 DEF TileInv, TileOf
    <3> QED
      BY <3>1, <3>2
  <2> QED
    BY <2>1, <2>2, <2>3, ShapeIs, SkippedIs
<1> QED
  BY <1>1, LexerInductive, TileInductive, PTL
=============================================================================

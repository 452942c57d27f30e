# xkb-go in TLA+

A verification development of [xkb-go](https://github.com/unxed/xkb-go), a Go
implementation of libxkbcommon: TLA+ models of the code, TLC configurations
that check them, and TLAPS proofs of what they say for every instance.
`PROJECT.json` holds the same facts in a form for tools: components, runs,
mutants, the map from definitions to source lines, findings, hazards, theorems.

## The system

| Component | State | Operations | What is hard |
|---|---|---|---|
| Compose files (`compose_parser.go`, `context.go:304-436`) | files included so far, sequences, errors | search by locale, read, include | files that include each other, lines that fail, files that end early |
| Compose table and state (`compose.go`, `compose_parser.go:473-505`) | a trie; a node, a status | build from sequences; `NewState`, `Feed`, `Reset`, queries | sequences that are prefixes of others or repeat them; `Feed` after a result, after a failure, with modifier keysyms |
| Keyboard state (`state.go`) | three modifier masks, three groups | `UpdateMask`, `UpdateKey` (a stub), key and component queries | groups and levels a key does not have; which changes a report has to name |
| Keymap building (`parser.go`, `types.go`) | the maps of `Keymap`, the parser's group offset, virtual modifiers and compat defaults | one statement of each section; two passes at the end | many statements for one key, in any order, through several names and layouts; errors halfway |
| Lexer (`lexer.go`) | position, line, column, width of the last rune | `NextToken`, `Tokenize` | backing up over newlines and at the end; loops that must move on |
| Parser control (`parser.go`) | current token, errors, sections seen | expect, match, skip, recover | where a parser that skipped after an error thinks it is |
| Context (`context.go`) | include paths, logger, behind a lock | append, prepend, clear, set; load | used by goroutines while others load |
| Component loading (`rules.go:418-681`) | recursion over files | load, include, extract, merge | self-including files, missing files, nested layout shifts, paths that change meanwhile |
| Rules (`rules.go:38-404`) | variables, rules and current header of a file; components so far | resolve model, layout, variant, option | which header a rule is under, placeholders inside placeholders, matching order, duplicates |
| X11 session (`x11/x11.go`) | extension table of the connection, cookies | handshake, pipelined requests, atoms | shared connection, lost connection, late replies |
| X11 decoding (`x11.go`) | buffer offsets | decode replies, build a keymap | section order, padding, group wrapping |
| Serialisation (`keymap.go:253-535`) | none | `GetAsString` | what a second parse makes of it |
| Keysyms (`keysym*.go`), generator (`cmd/gen-keysyms`), errors, test fixtures | tables | lookups | map iteration order in `UTF32ToKeysym` |

Callers hold a `Context`, get an immutable `Keymap` or `ComposeTable` from it,
and make a `State` or `ComposeState` for each keyboard. `NewKeymapFromNames`
resolves rules, loads components and gives the text to the parser;
`NewKeymapFromX11Device` builds the keymap from replies instead. Only the
Context and an X11 connection are shared by goroutines: everything else is
sequential, and its hard part is the order of calls and statements.

What makes each part correct, in a sentence: a Compose file gives its lines and
those of its includes in order; a compose state answers as if it
searched the list of definitions; a state translates within the keymap and
never hides a change; a keymap holds for each group of each key what its own
statements said; a keymap that is written and read again is the same but for
what the list below says; tokens lie side by side and a parser knows its place
in them; a load ends and returns what the files say; a call on a
connection returns a keymap made of its own replies, or an error; replies are
decoded to what the server has, or refused.

## Modules

| Module | Models | Correspondence |
|---|---|---|
| `ComposeSpec` | abstract: a list of definitions and the keysyms fed so far | what `Feed`, `Reset` and the queries promise, without a trie |
| `Compose` | `buildComposeTable`, `ComposeState` | `next`, `pos`, `node` are the loops' variables; `Descend`, `Allocate`, `SetResult` are the three things the inner loop does; `Feed`, `Reset`, `FeedNoTable`, `NewState` the methods |
| `ComposeFile` | `NewComposeTableFromLocale`, `NewComposeTableFromFile`, `parseFile` and what it calls | the recursion of `parseFile` is `stack`, one file and its lines left each; one action per fate of a line |
| `KeyState` | `State` | `mods`, `groups` are its fields; `UpdateMask` the one mutator; every query is an operator; `shown` is a client that refreshes what reports name, and its LEDs when either does |
| `KeyTable` | abstract: keycode and group to keysyms | what key statements mean |
| `KeymapBuild` | statements of the four sections and the end of `Parse` | one action per kind of statement, named after its parse function; Go maps are functions; key types with masks, entries and level names, virtual modifiers, LEDs by code and by name |
| `Lexer` | `NextToken`, `Tokenize` | the cursor is `pos`, `line`, `col`, `width`; `next`, `backup` and `accept` map a cursor to a cursor; one action per round of a loop |
| `Parser` | `Parse` and all the functions it calls, as consumers of tokens | the call stack is `stack`; each token is chosen when the parser reads it; one operator per parse function says what it expects; `depth` and `lost` are ghosts |
| `Serialize` | `GetAsString`, then a second `Parse` | extends `KeymapBuild`: the text is a sequence of its statements, `FirstText`, `Write`, `ReadStatement`, `EndOfText` the phases; a keysym is of a class that says what its text is read as (`ReadsAs`) |
| `Rules` | `compileKeymap` up to the text for the loader | the file is read a line a step, then its rules are applied in turn; values are sequences of words and pieces of placeholders |
| `X11Decode` | `ParseX11*Reply`, `NewKeymapFromX11Replies` | one action per section; `b` is the cursor, `read` how far each reply was looked at; one action per key and alias; the server's writing of a reply is external, in the layout of the repository's tests or, with `Unused` = 2, in that of the protocol |
| `ComponentLoad` | `buildKeymapString`, `loadComponentPartWithDepth`, `resolveIncludes`, and the setters of `Context` | the recursion is `stack`; `Context` setters are actions of other goroutines; `found`, `meddled` and the `meant` of a line are ghosts |
| `X11Session` | `NewKeymapFromX11Device` by several goroutines | `pc` is the place in the call, `wire` and `reply` the connection's queue and cookies, `rangeOf` the keycodes of each of the server's keymaps; the server and package xgb are external and modelled from their use |
| `ComposeProofs`, `ComposeFileProofs`, `KeyStateProofs`, `KeymapBuildProofs`, `ComponentLoadProofs` | theorems | below, each of the module it is named after |
| `ParserProofs`, `X11SessionProofs`, `ComponentLoadProofs` | theorems | also of `Lexer` as the instance `Lex`, of `X11Decode` as `Decode`, of `Rules` as `Resolve` |
| `KeymapBuildProofs` | theorems | also of `Serialize`, which it extends |
| `Lemmas` | lemmas | least and greatest members of sets of numbers |
| `MC*` | instances for TLC | |

Text is modelled at three levels, each with the one below it abstract. In `Lexer`
it is code points, in `Parser` the choice of each next token, in `KeymapBuild` the
choice of each next statement. A statement that does not parse is
`BadKeyDefinition` of `KeymapBuild`, which does what the code has done by the time it fails;
that a failed statement leaves the parser at its place is `KnowsItsPlace` of
`Parser`. In `KeymapBuild` a level is its one
keysym, because `symsToLevels` makes no other. A line of a Compose file is what decides
its fate: an include with the paths it is looked for in, keysyms that are known
or not, a colon or none, and where a # is. The files of one disk do not change
during a parse, and all disks are initial states. In `Rules` a line is one
record with the words it splits into.

Operators whose comment begins "A fault of" are not part of the model. Each is
a changed form of the definition after it, and `PROJECT.json` says which
property fails when it takes its place.

## Runs

| Run | Bounds | Shows |
|---|---|---|
| `compose` | files of two sequences of up to three keysyms and three of up to two, over two keysyms and two results; any feeds | `TrieExact`, `StatusAgrees`; `Implements`: `Compose` implements `ComposeSpec` |
| `compose_file` | every disk of two files of up to two lines and one of up to one or unreadable, lines of seven kinds, a named file or a locale | `ReadsInOrder` against a recursive reading of the files, `NoFileInsideItself`, `CallReturns` |
| `key_state` | two modifiers, a Group type of four values, keymaps of 0, 2, 3 and 6 groups, keys of 0 to 3 groups, a type with levels out of reach | `TranslationInRange`, `ShownIsCurrent`, `ComponentsAddUp`, `OnlyKnownModsMatter` |
| `keymap_build` | four statements, two names, two codes (one above the default range), five bodies, two offsets; no LEDs, virtual modifiers and interprets, which `serialize` has | `Implements`: the keymap implements `KeyTable`; `EverythingReachable`, `TypesFit` |
| `component_load` | a user and a system directory, depth limit 2, two changes of the Context | `LoadsWhatIsThere` against a recursive reading of the files, `SameFileAgain`, `GroupsAsAsked`, `LoadEnds` |
| `x11_session` | two goroutines, one calls twice, one keymap change that keeps the keycodes or not, connection lost at any point, three kinds of server | `FreshKeymap`, `FailsOnlyInGapOrMixture`, `EveryCallReturns` |
| `lexer` | every text of three runes of sixteen kinds and four of eight, six of comments, six of strings, four of numbers | `PositionsExact`: line and column are those of the text; `TokensTile`: tokens and blanks lie side by side; `TokenizeEnds` |
| `parser` | texts of any length over every kind of token but five that are taken as another one is, braces inside skipped parts one deep | `KnowsItsPlace`: the stack of calls and the open braces agree, unless braces were given up; `AcceptedIsWhole`: a keymap comes only of a text that closes what it opens; `ParseReturns` |
| `serialize` | three statements of any section, written, and read as up to about a dozen; keysyms of every class, a blank one alone, first and last of a list | `RoundTrip`: what comes back, and what does not; `RepeatsDecided`, `RangeGrows` |
| `rules` | two files in the manner of evdev for one to four layouts; every file of up to four lines of eleven | `LayoutsInTheirGroups`: no layout takes another's group; `ResolvedAsWritten` against a reading of the file that resolves each component alone |
| `x11_decode` | four keyboards, one whose map ends with padding; their replies, in the layout that `x11_test.go` gives a GetMap, whole, cut at every byte, with each byte changed to four values | `NeverPastEnd`, `KeymapAsServed`, `HoldsTogether` |

Why the bounds are enough: two keysyms and two lines already give equal,
prefix and diverging sequences in both orders. Group 3 of 4 values summed
three times exceeds every number of groups and the type. Four statements open
a case for each pair (old group, new group) of a merge with an alias or an
offset between them. A second call of one goroutine meets what the first left
on the wire. Three runes are the
longest thing the lexer decides at once, a rune, one of look-ahead and one more to
back up over; the longer texts are for what loops: lines, comments, strings
with octal escapes and numbers. The parser's memory is its stack, which
the grammar bounds, so texts need no bound but on what is skipped by counting.
A changed byte of 0, 1, 3 and 255 makes counts too small, too large by
one and by a lot. Four layouts are all a keymap has groups for.
Three files already give an include of itself, a
cycle of two, and one file included twice, with a line after each.
One level of include more than the limit is reached by a file
that includes itself; nothing in the code depends on 20.

A run that finds a difference between the code and what the repository says of
it (the finding in `PROJECT.json`): `x11_handshake`, a call may send XKB requests
before UseExtension, which `x11/x11.go:141` says clients must call first.

## Also seen in the code

Differences from a comment that one step shows, so that no run is needed:

- An alias before its target is dropped (`parser.go:481`); the comment at 485 says that it is recorded.
- The code made for an unknown name may be another key's (`parser.go:1441`).
- `SetLogger(nil)` makes a logger that fails at its first message
  (`context.go:135`); `context.go:125` promises a no-op logger.
- A # in the quotes of a Compose line cuts the line off (`compose_parser.go:163`).
- `rules.go:100` says that continuation lines were joined by the scanner; nothing
  joins them, and the rest of a continued variable is lost.
- `GetAsString` promises a text for `NewKeymapFromString` (`keymap.go:260`), but some
  keysyms make that text an error: those named 3270_*, which are a number
  and an identifier to the lexer (`lexer.go:281`), and those without a name whose rune is
  neither a letter, an ASCII digit nor _, but for a blank at the end of a list.
- `x11.go:143` takes the fixed part of a GetMap reply to be 38 bytes, with the first
  keycode at 8, as the tests of the repository write it. `x11.go:26` says that the
  layouts follow the XKB specification, in which two unused bytes come before that keycode:
  40 bytes, and it is at 10. The run `x11_decode` is of the tests' layout, and
  `KeymapAsServed` says no more than that; with `Unused` = 2 in its configuration
  TLC finds whole replies refused. `WithinReplies` and `KeymapHolds` are proved of both.

Behaviour no text speaks of, which the models have:

- Parser: `parseModMatch` never ends at a token other than a word, a plus sign
  and a parenthesis (`parser.go:1076`, the state `Spinning` that `ParseReturns` exempts).
- Lexer: a slash that begins no comment is dropped without an error
  (`lexer.go:221`: the second backup does nothing).
- State: `StateLEDs` is declared and never reported; `UpdateMask` reports
  `StateModEffective` when a modifier only moves between components.
- Building: the marker of the word `any` stays in the keymap when the first
  statement of a group uses it; a name given to a second keycode stays on the
  first in `KeyGetName`; a group of three levels ends with the type `ONE_LEVEL`
  and two levels that cannot be selected; a compat section before an indicator
  statement loses the LED's modifiers.
- Loading: a shifted include inside a shifted part resets the outer shift for
  the lines after it. Rules: `compileKeymap` writes its defaults into the
  caller's `RuleNames`.
- Writing: aliases, repeats and interprets are not written, nor are keys
  and names outside of the range, keys without groups, and modifier maps of keymaps
  that were read from text. Of explicit types only that of the first group is read back, and
  it is the last one written; the others are chosen by the number of levels.
  A virtual modifier comes back without its mask, so an entry
  for it alone becomes one for none. `preserve` is written and skipped, `groups` of
  an LED is never read. A keysym whose name is another's too comes back as the other
  one (0x1008ff55, 0x1008ff70 and 0x1008ffa0 as 0xff0b, 0x51 and 0xff60), and so
  does one without a name for an ASCII letter, a digit or _. A keysym without a name
  becomes NoSymbol if its rune is another letter; if its rune is white space it is lost at the end of a
  list and an error before it. Level 0 becomes 255, and with it 256 levels. Two codes of one name
  become one.

## Fairness

`X11Session`: weak fairness of the server's answer and of each goroutine's next
step. xgb reads replies in a goroutine of its own and fails every open cookie
when the connection ends, which is the answer "error" of the model. Nobody has
to begin a call. `ComponentLoad`: weak fairness of the loading goroutine; it
never waits, and other goroutines hold the lock only for an assignment.
`ComposeFile`, `Lexer`: weak fairness of the one call, which waits for nothing.
`Parser`: the same, and strong fairness of reaching the end of the text, since a
text is finite and the model's choice of tokens is not: a text that could end again and again
does. Without it every loop could be fed for ever. The
other modules state safety and refinement and assume no fairness.

## Proofs

`ComposeProofs`, for every file of any length over any keysyms:

- `IInv` is `TypeOK`, `TrieExact`, `CursorOK` and `StatusAgrees`. `TrieExact`
  alone is not inductive: that a new node gets the right path needs to know
  where the cursor is, which `CursorOK` says, and that a path has one node.
- `TypeCorrect`, `TrieCorrect`, `StatusCorrect` follow from `Invariance`.
- `Refinement` (`Spec => Implements`): building the trie stutters; a Feed at a
  node takes the step that the definitions with that beginning allow.

`ComposeFileProofs`, for any files with any includes:

- `IInv` says that the files on the stack are different and marked as included,
  and that what is on the stack and in the table is text of the disk. The mark is
  what makes it inductive: `Include` pushes only a file that has none, so it is
  not on the stack. `TypeCorrect` and `NoRecursion` follow.
- `InOrder`: `ReadInv` says that what the table has, followed by what the rest of
  the stack will still give, is what the recursive reading gives from the start.
  Each action takes one line off that continuation. The reading recurs over a
  measure (`Need`: lines left and files not yet marked), so its recursive
  function is unfolded by hand, for disks of finitely many files.

`KeyStateProofs`, for every keymap, mask and width of `Group`:

- `TypeCorrect` by induction; `InRange` from types and arithmetic alone, so it
  holds of any state of the right types; `ReportsMissNothing` by induction;
  `QueriesAgree` from types; `OnlyKnownModifiers` as an action property.

`KeymapBuildProofs`, for any statements over any codes, keysyms and types, and
finitely many names:

- `IInv` is the typing of the control state, codes, tables, symbols and compat,
  `EverythingReachable`, and `Fit`. The typing says more than `TypeOK`: groups are
  sequences, a section that is parsed was seen. `TypesFit` alone is not
  inductive, since it holds while types may still change; `Fit` adds why they do
  not once a key exists: a second `xkb_types` is refused. From it follow
  `TypeCorrect`, `Reachable` and `TypesCorrect`.
- `RangeFollows`: the range action by action; only a minimum and a maximum narrow it.
- `Repeats`: what `applyInterprets` leaves in `repeat` is what the best matching
  interpret says. The fold over a key's keysyms is unfolded as a recursive function
  over sets of interprets, and that a finite set of them has a best one is shown by
  induction on its size.
- `Refinement` (`Spec => Implements`): a statement that merges groups overlays
  the abstract table, the end of a text and everything else stutters. It needs from
  `IInv` the types of the codes and of the groups that are merged.
- `RoundTrips` (`SSpec => []RoundTrip`), for every keymap that statements can build:
  `SInv` says of the first reading that `IInv` holds and the keymap is `Writable`; of the
  second that what is left of the text is in the order of its sections and every statement
  says something of `first` (`InOrder`), and that each code, name, type, indicator, group
  name and key of `first` is in the keymap or still in the text (`Back`). The order of the
  sections is what makes it inductive: a key finds all codes and types defined, and
  nothing it relies on changes after it. What a key statement makes of a written key is
  one lemma (`KeyRead`), for a first reading and for one more of the same key.

`ComponentLoadProofs`, for any disk, requests, include paths and changes:

- `IInv` is `Types`, `FoundFirst` and `Shifted`. `SameFile` needs that every file
  found so far is still the first of the current paths, which appending keeps
  (`FoundFirst`); `Groups` needs that the offset written last is what
  the next line is meant for, and that one file of the stack shifts at most
  (`Shifted`), unless shifts are nested, which `GroupsAsAsked` exempts.
- `Loads`: `LoadInv` says that the text so far, followed by the open files read to
  their end, is the text of the parts so far as the recursive reading
  has it, as long as no path changed under the load. The lemmas on
  `FlattenSeq` unfold the reading a line at a time; its depth is the depth limit less
  the height of the stack.
- `Resolved`, for every rules file of any length: `RulesInv` relates the variables,
  the header and the rules read so far to the lines they stand on, then the values
  so far to the meaning of the rules up to the last one applied.

`ParserProofs`, for texts of any length and nesting:

- `IInv` is `Types`, `Placed` and `AcceptedIsWhole`. Every parse
  function expects as many closing braces as it expects opening ones
  (`ProductionBalanced`). `Types`
  has that a section which is skipped has its semicolon behind it on the stack,
  without which an error could be caught past the end of a section.
  `KnowsPlace` and `Accepted` follow.
- `Positions`: `LexerInv` says that the cursor, the start of the token and every
  token are at the line and column of the text, and that after a read the column is
  counted exactly, so that one backup may take it back; two backups in a row move
  once. Texts are all sequences of Latin-1 runes.
- `Tiles`: `TileInv` adds what each loop has passed since the token began, so that
  between two tokens there is nothing but blanks, comments and lone slashes.

`X11SessionProofs`, for any number of goroutines, calls and keymap changes:

- `IInv` orders what is in flight: requests on the wire have the order in which a
  call asks (`WireInOrder`), what was answered is older than what is on the wire and
  none is older than the call (`RepliesInOrder`), the replies a call has seen
  are good (`GoodSoFar`), and a call outside of the gap sends keymap requests
  behind a UseExtension (`Prepared`), so that what is left for it to fail of is that its
  map and its names speak of different keycodes (`Mismatched`). `TypeCorrect`, `ReturnsFreshKeymap`
  and `FailsInGapOrMixture` follow.
- `WithinReplies` and `KeymapHolds`, for every keyboard whose replies are bytes,
  every cut and every changed byte: `DecodeInv` has that while counts decide
  how often something is read the cursor is within the reply, that the keys so far
  are an interval from the first keycode, and that each has types that exist and the
  keysyms of its levels.

`Positions`, `Tiles`, `WithinReplies`, `KeymapHolds` and `Resolved` are about instances,
so they name their properties with a prefix (`Lex!PositionsExact`, `Lex!TokensTile`,
`Decode!NeverPastEnd`, `Decode!HoldsTogether`, `Resolve!ResolvedAsWritten`), the ones
that the runs `lexer`, `x11_decode` and `rules` check.

Where a property is recursive (`InOrder`, `Loads`, `Repeats`, `Resolved`) the library's
induction theorems cannot be used. The recursive functions are unfolded by a
lemma each, and inductions go by the least counterexample, which `MinMember` of `Lemmas`
gives.

Proof attempts that failed corrected the models twice. In `Parser`, a loop whose
opening brace is still to come must not catch an error (`Begun`). In `X11Decode`, a
section that is absent must not move `read` to the cursor, which may be behind the end
when the section before it was padded (`Without`); the fourth keyboard of the run
has that case. `LexerAssumption` was made as narrow as the classes of runes of
the model already are, and the loop over aliases is now one action a round,
as the code's is.

Assumptions are those the modules state of their constants; TLC evaluates them
in the runs. `SerializeAssumption` has that the classes of keysyms are disjoint and
that `NoSymbol`, `Blank`, `Unreadable` and `NoType` are nothing else. `X11DecodeAssumption` and `RulesAssumption` are hypotheses of the theorems that
use them.

Not proved, only model-checked:

- `LoadEnds`, `CallReturns`, `EveryCallReturns`, `TokenizeEnds`, `ParseReturns`:
  liveness under fairness, which is out of the prover's reach.
- `KeymapAsServed`: it needs that the folds which write a reply's numbers as bytes are undone
  by those that read them, an induction over their bits.
- `LayoutsInTheirGroups`: it is about the rules files of the distribution, which the run has
  as constants (`LayoutTexts`), and not about every file.

## Plan

All modules of the plan are written, and of the safety properties all but the
two above are proved. What is left to prove is `KeymapAsServed`, by lemmas on masks (the
bits of `Mask(S)` are `S`) and on where in a reply each section begins.

## Not modelled

- Keysym names, numbers and their generated tables, and `UTF32ToKeysym`, whose
  answer for a code point with several keysyms depends on the order of a Go map;
  the keysym generator; error values; fixtures of tests.
- Single reads of a keymap's maps, and `LEDGetIndex` and `LEDGetName`, which
  count through a Go map: the index one call gives need not be another's.
- Geometry sections and key actions, beyond the tokens the parser skips.
- In `Serialize`, the keysym without a name whose rune is `]` (0x0100005d): it ends its list
  where it stands, and what follows it decides whether the text is an error.
- Runes beyond Latin-1 and invalid UTF-8 in `Lexer`; UTF-8 conversion of results
  and the escapes in them in `ComposeFile`.
- Group numbers below 1 in `KeymapBuild`; keycodes near 2^32, where the loops of `GetAsString`
  over the range (`keymap.go:293`, 399, 444) do not end.
- Wording of errors and logs; file system changes during a load.

CONSTANTS
  Keysyms = {a, b}
  Results = {r1, r2}
  NoResult = NoResult
  Nil = Nil
  DefLists <- MCDefLists
SPECIFICATION Spec
INVARIANTS
  TypeOK
  TrieExact
  StatusAgrees
PROPERTY Implements

SPECIFICATION StringsSpec
CONSTANTS
  a = a
  b = b
  c = c
  d = d
  Texts <- MCTexts
  Hash <- MCHash
  BASESIZE = 2
  Vals = {s1, s2}
  Nothing = Nothing
INVARIANTS
  KeysUnique
PROPERTIES
  TablesAreDictionaries

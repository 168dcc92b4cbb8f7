CONSTANTS
  Items = {1, 2, 3, 4, 5, 6, 7, 8}
  NULL = NULL
  Strings <- MCStrings
  Lower <- MCLower
  MaxStrings = 12
  NestingLimit = 2
  Numbers = {1, 22}
  Lexeme <- MCLexeme
  Length <- MCLength
  Inputs <- MCInputs
  Values <- MCValues
  Lists <- MCLists
  Memories = {0, 1, 2, 3, 4, 5, 9, 20}
  Sizes = {0, 1, 7, 12, 13, 14, 15, 16, 40}
  PrintSize = 6
  Units <- MCUnits
  MaxUnits = 3
SPECIFICATION Spec
INVARIANTS ParsesJson TreesWellFormed NoStringLost CopiesEqual ComparesContents PrintsText PrintFits LiteralsDecode EscapesParse

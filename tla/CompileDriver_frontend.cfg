SPECIFICATION DriverSpec
CONSTANTS
  Token = {"run", "func", "enum", "import", "extern", "class", "const", "lbrace", "rbrace", "(", ")", "[", "]", "semi", "comma", ":", "::", ".", "=", "->", "#", "~", "?", "id", "super", "type", "lit", "int", "if", "else", "while", "do", "for", "in", "range", "switch", "case", "default", "jump", "return", "attributes", "methods", "access", "new", "ref", "assign", "lo", "hi", "-", "un", "inc", "between"}
  Starts <- MCStarts
  MaxTokens = 4
  Char <- MCChar
  MaxChars = 4
  BufferSize = 2
  MaxText = 3
  MaxPrinted = 5
INVARIANTS TypeOK AcceptedIsBalanced RecoveryStaysInside MaximalMunch ReadsInside ErrorsStop BuiltFromSource FilesTellExit PrintedInOrder FlushPoints
PROPERTIES NothingDropped CompileEnds
CHECK_DEADLOCK FALSE

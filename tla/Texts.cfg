SPECIFICATION Spec
CONSTANTS
  Width = 4
  Precision = 3
  MaxExponent = 5
  max_depth = 1
  Names <- MCNames
  Lower <- MCLower
  Before <- MCBefore
  Lines <- MCLines
  MaxLines = 4
  MaxChunks <- MCMaxChunks
INVARIANTS ParsesGrammar StringDecoded DumpParsesBack NumbersExact OptionsOfThisRequest
CHECK_DEADLOCK FALSE

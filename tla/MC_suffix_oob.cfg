CONSTANTS
  Files <- MCFiles
  Phrases <- MCPhrases
  Eos <- MCEos
  MaxDepth <- MCMaxDepth
  Overflow = Overflow
SPECIFICATION Spec
INVARIANTS
  InBounds
CHECK_DEADLOCK FALSE

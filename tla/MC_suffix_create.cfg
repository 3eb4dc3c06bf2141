CONSTANTS
  Files <- MCCreateFiles
  Phrases <- MCPhrases
  Eos <- MCEos
  MaxDepth <- MCMaxDepth
  Overflow = Overflow
SPECIFICATION Spec
INVARIANTS
  CreateIndexesCorpus
CHECK_DEADLOCK FALSE

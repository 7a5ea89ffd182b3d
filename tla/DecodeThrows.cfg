SPECIFICATION DocumentSpec
CONSTANTS
  Numerals <- MCNumerals
  Word = 16
  Limit <- MCLimit
  LongStrings = {"long"}
  Digests = {"d"}
  WordChars <- MCWordChars
  Values <- MCValues
  Trees <- MCTrees
  MirrorMessages <- MCMirrorMessages
  Lines <- MCLines
  ClientMessages <- MCClientMessages
  Contracts <- MCContracts
  Replies <- MCReplies
  AdapterKeys <- MCAdapterKeys
  Clauses <- MCClauses
  Noise <- MCNoise
  Gaps <- MCGaps
CHECK_DEADLOCK FALSE
INVARIANTS
  DecodeNeverThrows

SPECIFICATION MCSpec
CONSTANTS
  Ids = {"a", "b"}
  MaxCalls = 3
  MaxCommands = 4
  States = {1, 2}
  MaxMessages = 9
  MaxFlows = 2
INVARIANTS
  ConnectionInv
  SessionInv
  FlowInv
  ContinuesFromReported
  SuccessIsEarned
PROPERTIES
  PoisonedForGood
  ConversationKept

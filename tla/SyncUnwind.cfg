SPECIFICATION Spec
CONSTANTS
  NumActors = 2
  Mutexes = {"m", "n"}
  Queues = {"q"}
  Capacity = 1
  Values = {1, 2}
  Unwinders = {1}
  Programs <- UnwindProgram
INVARIANTS
  ReceiptExplainsResources

SPECIFICATION MCSpec
CONSTANTS
  Spaces <- MCCampaigns
  Apps <- MCApps
  ActorIds = {1, 2, 3}
  ReplaySteps = 2
  MaxExecutions = 3
  MaxReplays = 2
  MaxMessages = 9
INVARIANTS
  EnumerationExact
  CompleteMeansAll
  CampaignInv
  SearchInv
  CompleteMeansTree
  PassedIsEarned
  

SPECIFICATION Spec
CONSTANTS
  Plugins = {"staking_actions_ch"}
  MaxHeight = 6
  Workers = {}
  GreenlandHeight = 3
  CacheSize = 2
  RedseaHeight = 3
  HalvingHeight = 4
  ContractHeight = 2
  Day = 4
  EpochLength = 2
  PartitionStep = 2
  StartHeight = 2
  EpochsPerRewardEra = 2
  FreezeLead = 2
  Delegates = {"a", "b"}
  Migrated = {"b"}
  FairbankHeight = 1
  XinguHeight = 2
  CandidateIDs <- MCCandidateIDs
  NumDelegatesForEpochReward = 2
  NumDelegatesForFoundationBonus = 1
  LongStake = 3
  Chains <- MCChains
  FaultsOf <- MCFaultsOf
  BatchOf <- MCBatchOf
  Fresh <- MCFresh
  StartOf <- MCStartOf
  PutOf <- MCPutOf
  CommitOf <- MCCommitOf

INVARIANT
  PutBlocksMatchesSequential

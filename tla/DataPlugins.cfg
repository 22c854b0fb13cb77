SPECIFICATION LiveSpec
CONSTANTS
  Plugins = {"block_footer", "block_receipts", "block_receipts_transaction",
             "illegal_action", "action_execution", "block_action",
             "block_action_partition", "block_meta", "block_meta_v2",
             "block_reward", "reward_history", "probation", "slash", "candidatelist",
             "action_type", "account_income", "account_income_v1",
             "account_meta", "block_supply",
             "erc20", "erc20_v2", "erc20_ch", "erc721", "erc721_v2",
             "erc721_v2_ch", "erc1155", "erc1155_v2", "erc1155_721_holder",
             "erc1155_721_holder_v2", "erc1155_721_meta",
             "erc1155_721_meta_v2", "erc20_meta",
             "account_abstraction", "erc1967_proxy", "inscription",
             "gas_burned", "clickhouse", "clickhouse_predelete",
             "clickhouse_v1"}
  MaxHeight = 3
  Workers <- MCWorkers
  ChunkSize = 2
  ContractAccounts = {"a"}
  EpochLength = 2
  PartitionStep = 2
  StartHeight = 2
  Chains <- MCChains
  FaultsOf <- MCFaultsOf
  BatchOf <- MCBatchOf
  Fresh <- MCFresh
  StartOf <- MCStartOf
  PutOf <- MCPutOf
  CommitOf <- MCCommitOf
INVARIANTS
  TypeOK
  Exact
  NothingLost
  TokensExact
  SinksConverge
  Held
PROPERTIES
  Indexed

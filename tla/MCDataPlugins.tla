----------------------------- MODULE MCDataPlugins -----------------------------
(***************************************************************************)
(* TLC instance of PluginHarness for the plugins that copy what a block    *)
(* says into tables: blocks and accounts, then tokens.  The plugin is      *)
(* chosen in the initial state, so the state spaces add up.                *)
(***************************************************************************)
EXTENDS AccountPlugins, HolderPlugins, ClickHouse

transfer == Act("transfer", TRUE, <<<<"a", "b">>>>)
mint == Act("execution", TRUE, <<<<None, "a">>, <<"b", Bad>>>>)
lost == Act("execution", FALSE, <<>>)
grant == Act("grant", TRUE, <<>>)
epochgrant == Act("epochgrant", TRUE, <<>>)
setcode == Act("setcode", TRUE, <<>>)
blob == Act("blob", FALSE, <<>>)
legacy == Act("legacy", TRUE, <<>>)

Rewarding == {"block_reward", "reward_history"}
Cumulative == {"account_income", "account_income_v1", "account_meta"}

BlockContents(p) ==
    CASE p \in Rewarding -> {<<>>, <<grant, epochgrant>>}
      [] p = "slash" -> {<<grant>>, <<epochgrant>>}
      [] p = "action_type" -> {<<legacy, setcode>>, <<setcode, blob>>, <<blob>>}
      [] p = "block_supply" -> {[zero |-> 1, lock |-> 0], [zero |-> 1, lock |-> 2]}
      [] p \in {"block_meta", "block_meta_v2", "candidatelist"} -> {<<transfer>>}
      [] p = "account_income_v1" -> {<<transfer>>, <<mint>>}
      [] OTHER -> {<<lost>>, <<transfer>>, <<transfer, mint>>}

BlockChains(p) == [Heights -> BlockContents(p)]

BlockBatchOf(p) == IF p = "block_meta_v2" THEN 1 ELSE MaxHeight

BlockFresh(p) ==
    CASE p \in {"block_meta", "block_meta_v2", "reward_history"} ->
            [buf |-> NoRows, epoch |-> 0]
      [] p \in {"account_income", "account_income_v1"} ->
            [buf |-> NoRows, counts |-> NoCounts]
      [] p = "account_meta" -> [buf |-> NoRows, cached |-> {}]
      [] p = "block_supply" ->
            [buf |-> NoRows, running |-> [a \in Range(Tracked) |-> 0]]
      [] OTHER -> [buf |-> NoRows]

BlockStartOf(p, m, d, h, ch) ==
    CASE p = "block_receipts" -> block_receipts_Start(m, d, h)
      [] p = "block_receipts_transaction" -> block_receipts_transaction_Start(m, d, h)
      [] p = "slash" -> slash_Start(m, d, h)
      [] p = "action_type" -> action_type_Start(m, d, h)
      [] p = "account_income" -> account_income_Start(m, d, h)
      [] p = "account_income_v1" -> account_income_v1_Start(m, d, h)
      [] p = "account_meta" -> account_meta_Start(m, d, h)
      [] p = "block_supply" -> block_supply_Start(m, d, h, ch)
      [] p = "block_action_partition" -> Started(m, d, h)
      [] OTHER -> Started(m, AutoMigrate(d, h), h)

BlockPutOf(p, m, d, b) ==
    CASE p = "block_footer" -> block_footer_putBlock(m, b)
      [] p = "block_receipts" -> block_receipts_putBlock(m, b)
      [] p = "block_receipts_transaction" -> block_receipts_transaction_putBlock(m, b)
      [] p = "illegal_action" -> illegal_action_putBlock(m, b)
      [] p = "action_execution" -> action_execution_putBlock(m, b)
      [] p = "block_action" -> block_action_handleBlock(m, b)
      [] p = "block_action_partition" -> block_action_partition_handleBlock(m, b)
      [] p = "block_meta" -> block_meta_putBlock(m, b)
      [] p = "block_meta_v2" -> block_meta_v2_PutBlock(m, b)
      [] p = "block_reward" -> block_reward_putBlock(m, b)
      [] p = "reward_history" -> reward_history_putBlock(m, b)
      [] p = "probation" -> probation_putBlock(m, b)
      [] p = "candidatelist" -> candidatelist_putBlock(m, d, b)
      [] p = "slash" -> slash_handleBlock(m, b)
      [] p = "action_type" -> action_type_putBlock(m, b)
      [] p = "account_income" -> account_income_putBlock(m, b)
      [] p = "account_income_v1" -> account_income_v1_putBlock(m, d, b)
      [] p = "account_meta" -> account_meta_collectProcessAccounts(m, b)
      [] p = "block_supply" -> block_supply_putBlock(m, b)

BlockCommitOf(p, m, d, from, to) ==
    CASE p = "block_footer" -> block_footer_commit(m, to)
      [] p = "block_receipts" -> block_receipts_commit(m, to)
      [] p = "block_receipts_transaction" -> block_receipts_transaction_commit(m, to)
      [] p = "illegal_action" -> illegal_action_commit(m, to)
      [] p = "action_execution" -> action_execution_commit(m, to)
      [] p = "block_action" -> block_action_commitActs(m, d, from, to)
      [] p = "block_action_partition" ->
            block_action_partition_commitActs(m, d, from, to)
      [] p = "block_meta" -> block_meta_commit(m, to)
      [] p = "block_meta_v2" -> block_meta_v2_commit(m, to)
      [] p = "block_reward" -> block_reward_commit(m, to)
      [] p = "reward_history" -> reward_history_commit(m, to)
      [] p = "probation" -> probation_commit(m, to)
      [] p = "candidatelist" -> candidatelist_commit(m, to)
      [] p = "slash" -> slash_PutBlocks(m, to)
      [] p = "action_type" -> action_type_commit(m, to)
      [] p = "account_income" -> account_income_commit(m, to)
      [] p = "account_income_v1" -> account_income_v1_commit(m, to)
      [] p = "account_meta" -> account_meta_PutBlocks(m, d, to)
      [] p = "block_supply" -> block_supply_commit(m, to)

-----------------------------------------------------------------------------
t20 == <<"erc20", 1>>
t721 == <<"erc721", 1>>
t1155 == <<"erc1155", 1>>
other == <<"other", 1>>
none == <<>>

Ev(c, ev) == Log(c, ev, "a", "b", none)
Mint(c, a, v) == Log(c, IF c = t721 THEN "transfer" ELSE "transferBatch", Zero, a, v)
Pass(c, a, b, v) == Log(c, IF c = t721 THEN "transfer" ELSE "transferSingle", a, b, v)
Nft == <<<<1, 1>>>>

TokenContents(p) ==
    CASE p \in {"erc20", "erc20_v2", "erc20_ch"} ->
            {<<Ev(t20, "transfer"), Ev(other, "approval")>>,
             <<Ev(t20, "approval"), Ev(t20, "deposit"), Ev(t20, "withdrawal")>>}
      [] p \in {"erc721", "erc721_v2", "erc721_v2_ch"} ->
            {<<Ev(t721, "transfer"), Ev(other, "transfer")>>,
             <<Ev(t721, "approval"), Ev(t721, "approvalForAll")>>}
      [] p \in {"erc1155", "erc1155_v2"} ->
            {<<Ev(t1155, "transferBatch"), Ev(other, "uri")>>,
             <<Ev(t1155, "uri"), Ev(t1155, "approvalForAll"), Ev(t1155, "transferSingle")>>}
      [] p \in {"erc1155_721_meta", "erc1155_721_meta_v2"} ->
            {<<Ev(t721, "transfer"), Ev(t1155, "uri")>>, <<Ev(other, "x")>>}
      [] p = "erc20_meta" -> {<<Ev(t20, "owner")>>, <<Ev(t20, "transfer")>>, <<>>}
      [] OTHER -> {<<Mint(t721, "a", Nft)>>, <<Pass(t721, "a", "b", Nft)>>,
                   <<Pass(t721, "b", Zero, Nft)>>, <<Pass(t721, "a", Zero, Nft)>>,
                   <<Mint(t721, "b", Nft)>>,
                   <<Mint(t1155, "a", <<<<1, 2>>, <<2, 1>>>>)>>,
                   <<Pass(t1155, "a", "b", <<<<1, 1>>>>)>>,
                   <<Pass(t1155, "a", "b", <<<<1, 2>>>>), Pass(t1155, "b", Zero, <<<<1, 1>>>>)>>}

(* Who holds what is never overdrawn, and a token has one holder. *)
Legal(d, op) ==
    IF op.from = Zero
    THEN op.std = "erc1155" \/ \A k \in DOMAIN d : ~(k[2] = op.c /\ k[4] = op.id)
    ELSE /\ Own(op.c, op.from, op.id) \in DOMAIN d
         /\ op.std = "erc1155" => d[Own(op.c, op.from, op.id)] >= op.val

LegalChain(ch) ==
    LET all == FoldLeft(LAMBDA a, h : a \o Concat([h |-> h, c |-> ch[h]], DOMAIN ch[h], Moves),
                        <<>>, [h \in Heights |-> h])
        r == FoldLeft(LAMBDA x, op : [d |-> HolderStep(x.d, op), ok |-> x.ok /\ Legal(x.d, op)],
                      [d |-> EmptyTables, ok |-> TRUE], all)
    IN  r.ok

TokenChains(p) ==
    LET all == [Heights -> TokenContents(p)]
    IN  IF p \in {"erc1155_721_holder", "erc1155_721_holder_v2"}
        THEN {ch \in all : LegalChain(ch)} ELSE all

TokenBatchOf(p) == IF p \in {"erc721", "erc1155", "erc1155_721_holder", "erc1155_721_meta"}
                THEN 1 ELSE MaxHeight

TokenFresh(p) ==
    LET m == [buf |-> NoRows, yes |-> {}, no |-> {}]
    IN  CASE p \in {"erc1155_721_meta", "erc1155_721_meta_v2"} -> m @@ [cached |-> {}]
          [] p = "erc20_meta" -> [buf |-> NoRows, processed |-> {}]
          [] OTHER -> m

TokenStartOf(p, m, d, h, ch) ==
    CASE p = "erc20_meta" -> erc20_meta_Start(m, d, h)
      [] p \in Sinks -> Started(m, d, h)
      [] OTHER -> Started(m, AutoMigrate(d, h), h)

TokenPutOf(p, m, d, b) ==
    CASE p = "erc20" -> erc20_putBlock(m, b)
      [] p = "erc20_v2" -> erc20_v2_putBlock(m, b)
      [] p = "erc20_ch" -> erc20_ch_putBlock(m, b)
      [] p = "erc721" -> erc721_PutBlock(m, b)
      [] p = "erc721_v2" -> erc721_v2_putBlock(m, b)
      [] p = "erc721_v2_ch" -> erc721_v2_ch_putBlock(m, b)
      [] p = "erc1155" -> erc1155_PutBlock(m, b)
      [] p = "erc1155_v2" -> erc1155_v2_putBlock(m, b)
      [] p = "erc1155_721_holder" -> holder_PutBlock(m, b)
      [] p = "erc1155_721_holder_v2" -> holder_v2_collect(m, b)
      [] p = "erc1155_721_meta" -> meta_PutBlock(m, d, b)
      [] p = "erc1155_721_meta_v2" -> meta_v2_putBlock(m, d, b)
      [] p = "erc20_meta" -> erc20_meta_collectContracts(m, b)

TokenCommitOf(p, m, d, from, to) ==
    CASE p = "erc20" -> erc20_commit(m, to)
      [] p = "erc20_v2" -> erc20_v2_commit(m, to)
      [] p = "erc20_ch" -> erc20_ch_commit(m, to)
      [] p = "erc721" -> erc721_commit(m, to)
      [] p = "erc721_v2" -> erc721_v2_commit(m, to)
      [] p = "erc721_v2_ch" -> erc721_v2_ch_commit(m, to)
      [] p = "erc1155" -> erc1155_commit(m, to)
      [] p = "erc1155_v2" -> erc1155_v2_commit(m, to)
      [] p = "erc1155_721_holder" -> holder_commit(m, d, to)
      [] p = "erc1155_721_holder_v2" -> holder_v2_PutBlocks(m, d, to)
      [] p = "erc1155_721_meta" -> meta_commit(m, to)
      [] p = "erc1155_721_meta_v2" -> meta_v2_commit(m, to)
      [] p = "erc20_meta" -> erc20_meta_PutBlocks(m, d, to)
-----------------------------------------------------------------------------
deployed == Act("deployed", TRUE, <<>>)
upgraded == Act("upgraded", TRUE, <<<<"a", "b">>>>)
twice == Act("transfer", TRUE, <<<<"a", "b">>, <<"a", "b">>>>)

OtherPlugins == {"account_abstraction", "erc1967_proxy", "inscription", "gas_burned"}
                \cup ClickHousePlugins
MCWorkers == {"gas_burned"}

OtherContents(p) ==
    CASE p = "account_abstraction" -> {<<deployed, lost>>, <<transfer>>}
      [] p = "erc1967_proxy" -> {<<upgraded, transfer>>, <<upgraded, upgraded>>}
      [] p = "gas_burned" -> {<<transfer>>, <<transfer, mint>>}
      [] p \in ClickHousePlugins -> {<<transfer, lost>>, <<mint, twice>>}
      [] p = "inscription" ->
            {<<Uri("a", "c", "deploy", "t", 0), Uri("b", "c", "mint", "t", 2)>>,
             <<Uri("b", "a", "transfer", "t", 1), Hash("a", "b", <<StartHeight, 1>>)>>,
             <<Hash("b", "a", <<StartHeight, 2>>), Uri("b", "b", "transfer", "t", 1)>>,
             <<Uri("a", "c", "deploy", "t", 0), Hash("a", "b", <<StartHeight, 1>>)>>}

OtherChains(p) ==
    {ch \in [Heights -> OtherContents(p)] :
        /\ p \in ClickHousePlugins => ch[1] # ch[2] /\ ch[1] = ch[3]
        /\ p = "inscription" => ch[1] = ch[2]}

OtherBatchOf(p) ==
    IF p \in {"clickhouse", "clickhouse_predelete", "inscription"} THEN 1 ELSE MaxHeight

OtherFresh(p) ==
    IF p = "clickhouse_v1" THEN [buf |-> NoRows, flags |-> [a \in {} |-> TRUE]]
    ELSE [buf |-> NoRows]

OtherStartOf(p, m, d, h) ==
    CASE p = "account_abstraction" -> account_abstraction_Start(m, d, h)
      [] p = "inscription" -> inscription_Start(m, d, h)
      [] p \in ClickHousePlugins -> clickhouse_Start(m, d, h)
      [] p = "gas_burned" -> Started(m, d, h)
      [] OTHER -> Started(m, AutoMigrate(d, h), h)

OtherPutOf(p, m, d, b) ==
    CASE p = "account_abstraction" -> account_abstraction_putBlock(m, b)
      [] p = "erc1967_proxy" -> erc1967_proxy_putBlock(m, b)
      [] p = "inscription" -> inscription_putBlock(m, d, b)
      [] p = "gas_burned" -> {Ok(m), Err(m)}
      [] p \in {"clickhouse", "clickhouse_predelete"} -> clickhouse_PutBlock(m, b)
      [] p = "clickhouse_v1" -> clickhouse_v1_putBlock(m, b)

OtherCommitOf(p, m, d, from, to) ==
    CASE p = "account_abstraction" -> account_abstraction_commit(m, to)
      [] p = "erc1967_proxy" -> erc1967_proxy_commit(m, to)
      [] p = "inscription" -> inscription_commit(m, to)
      [] p = "gas_burned" -> gas_burned_track(m, d, from - 1, to)
      [] p = "clickhouse" -> clickhouse_commit(m, d, FALSE, to)
      [] p = "clickhouse_predelete" -> clickhouse_commit(m, d, TRUE, to)
      [] p = "clickhouse_v1" -> clickhouse_v1_commit(m, to)
-----------------------------------------------------------------------------
MCFaultsOf(p) == 2
MCChains(p) == CASE p \in TokenPlugins -> TokenChains(p)
                 [] p \in OtherPlugins -> OtherChains(p)
                 [] OTHER -> BlockChains(p)
MCBatchOf(p) == CASE p \in TokenPlugins -> TokenBatchOf(p)
                  [] p \in OtherPlugins -> OtherBatchOf(p)
                  [] OTHER -> BlockBatchOf(p)
MCFresh(p) == CASE p \in TokenPlugins -> TokenFresh(p)
                [] p \in OtherPlugins -> OtherFresh(p)
                [] OTHER -> BlockFresh(p)
MCStartOf(p, m, d, h, ch) ==
    CASE p \in TokenPlugins -> TokenStartOf(p, m, d, h, ch)
      [] p \in OtherPlugins -> OtherStartOf(p, m, d, h)
      [] OTHER -> BlockStartOf(p, m, d, h, ch)
MCPutOf(p, m, d, b) ==
    CASE p \in TokenPlugins -> TokenPutOf(p, m, d, b)
      [] p \in OtherPlugins -> OtherPutOf(p, m, d, b)
      [] OTHER -> BlockPutOf(p, m, d, b)
MCCommitOf(p, m, d, from, to) ==
    CASE p \in TokenPlugins -> TokenCommitOf(p, m, d, from, to)
      [] p \in OtherPlugins -> OtherCommitOf(p, m, d, from, to)
      [] OTHER -> BlockCommitOf(p, m, d, from, to)
=============================================================================

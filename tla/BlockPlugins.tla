----------------------------- MODULE BlockPlugins -----------------------------
(***************************************************************************)
(* The plugins that store what each block says: plugins/block_footer,      *)
(* block_meta, block_meta_v2, block_action, block_action_partition,        *)
(* block_receipts, block_receipts_transaction, block_reward,               *)
(* reward_history, slash, probation, candidatelist, action_execution,      *)
(* action_type, illegal_action.                                            *)
(*                                                                         *)
(* A block is its sequence of actions.  An action is its kind, whether the *)
(* block holds a receipt for it, and the transaction logs <<from, to>> of  *)
(* the receipt; the recipient Bad is not an address, None is empty.  The   *)
(* kinds are the ones the plugins tell apart.  The value of a row is what  *)
(* it takes from the plugin's memory, otherwise 1.                         *)
(***************************************************************************)
EXTENDS PluginHarness

CONSTANTS EpochLength,     \* blocks of an epoch
          PartitionStep,   \* cfg.PartitionStep of block_action_partition
          StartHeight      \* cfg.StartHeight of slash and action_type

ASSUME PeriodAssumption == EpochLength > 0 /\ PartitionStep > 0
ASSUME StartHeightAssumption == StartHeight \in Nat

Bad == "bad"
None == ""
Act(kind, receipt, logs) == [kind |-> kind, receipt |-> receipt, logs |-> logs]
Acts(b) == b.c
Receipts(b) == {i \in DOMAIN Acts(b) : Acts(b)[i].receipt}
Logs(b) == {<<i, j>> : i \in Receipts(b), j \in 1 .. 2}
           \cap UNION {{i} \X DOMAIN Acts(b)[i].logs : i \in Receipts(b)}
LogAt(b, ij) == Acts(b)[ij[1]].logs[ij[2]]

(* External: rolldpos, the number and the first height of an epoch. *)
EpochNum(h) == ((h - 1) \div EpochLength) + 1
EpochHeight(e) == (e - 1) * EpochLength + 1

(* The rows of a block, <<table, height, x>> for the x in S. *)
Facts(t, b, S) == Rows({Row(<<t, b.h, x>>, 1) : x \in S})
From(t, rows) == FoldLeft(LAMBDA a, r : IF r.k[1] = t THEN Append(a, r) ELSE a, NoRows, rows)
Buffer(m, rows) == [m EXCEPT !.buf = @ \o rows]
Emptied(m) == [m EXCEPT !.buf = NoRows]

(* commit() of a plugin that buffers: the buffer is taken and emptied, and *)
(* one transaction runs the statements and writes the height.              *)
TakeAndCommit(m, stmts, to) ==
    {Commits(<<Tx(Emptied(m), stmts, to)>>, Emptied(m))}

-----------------------------------------------------------------------------
(* plugins/block_footer: one row per endorsement. *)
block_footer_putBlock(m, b) ==
    {Ok(Buffer(m, Facts("block_footer", b, DOMAIN Acts(b))))}

block_footer_commit(m, to) == TakeAndCommit(m, <<Insert(m.buf)>>, to)

(* plugins/block_receipts: three tables, no key but the id.  The recipient *)
(* of a transaction log may be empty; one that is no address is skipped.   *)
block_receipts_handleTransactionLogs(b) ==
    {ij \in Logs(b) : LogAt(b, ij)[2] # Bad}

block_receipts_putBlock(m, b) ==
    {Ok(Buffer(m, Facts("block_receipts", b, Receipts(b))
                  \o Facts("block_receipt_transactions", b,
                           block_receipts_handleTransactionLogs(b))
                  \o Facts("block_receipt_logs", b, Receipts(b))))}

block_receipts_commit(m, to) ==
    TakeAndCommit(m, <<Serial(From("block_receipts", m.buf)),
                       Serial(From("block_receipt_transactions", m.buf)),
                       Serial(From("block_receipt_logs", m.buf))>>, to)

(* Start adds the genesis balances unless the table has rows of block 0. *)
Genesis(t, d) == IF \E k \in DOMAIN d : k[1] = t /\ k[2] = 0 THEN <<>>
                 ELSE <<Serial(<<Row(<<t, 0, "genesis">>, 1)>>)>>

block_receipts_Start(m, d, h) ==
    LET d0 == AutoMigrate(d, h)
    IN  Started(m, CHOOSE x \in Run(d0, Genesis("block_receipt_transactions", d0)) :
                      TRUE, h)

(* plugins/block_receipts_transaction: the same log rows in a table of its *)
(* own, marked internal by a lookup in account_meta that cannot fail.      *)
block_receipts_transaction_handleTransactionLogs(b) ==
    {ij \in Logs(b) : LogAt(b, ij)[2] # Bad}

block_receipts_transaction_putBlock(m, b) ==
    {Ok(Buffer(m, Facts("receipt_transactions", b,
                        block_receipts_transaction_handleTransactionLogs(b))))}

block_receipts_transaction_commit(m, to) == TakeAndCommit(m, <<Serial(m.buf)>>, to)

block_receipts_transaction_Start(m, d, h) ==
    LET d0 == AutoMigrate(d, h)
    IN  Started(m, CHOOSE x \in Run(d0, Genesis("receipt_transactions", d0)) :
                      TRUE, h)

(* plugins/illegal_action: the logs the others skip. *)
illegal_action_putBlock(m, b) ==
    {Ok(Buffer(m, Facts("illegal_action", b,
                        {ij \in Logs(b) : LogAt(b, ij)[2] = Bad})))}

illegal_action_commit(m, to) == TakeAndCommit(m, <<Serial(m.buf)>>, to)

(* plugins/action_execution: executions, with or without a receipt. *)
action_execution_putBlock(m, b) ==
    {Ok(Buffer(m, Facts("action_execution", b,
                        {i \in DOMAIN Acts(b) : Acts(b)[i].kind = "execution"})))}

action_execution_commit(m, to) == TakeAndCommit(m, <<Serial(m.buf)>>, to)

-----------------------------------------------------------------------------
(* plugins/block_action: the rows are local to the call; the range of the  *)
(* batch is deleted before it is inserted.                                 *)
block_action_handleBlock(m, b) ==
    LET rows == Facts("block_action", b, Receipts(b))
    IN  {Ok(Buffer(m, rows)), Err(Emptied(m))}

block_action_commitActs(m, d, from, to) ==
    TakeAndCommit(m, <<Delete({k \in DOMAIN d : from <= k[2] /\ k[2] <= to}),
                       Serial(m.buf)>>, to)

(* plugins/block_action_partition: the same, after the partitions that the *)
(* batch touches were created, each by a statement of its own outside the  *)
(* transaction.  The tables are not dropped at height 0.                   *)
block_action_partition_handleBlock(m, b) ==
    LET rows == Facts("block_action_partition", b, Receipts(b))
    IN  {Ok(Buffer(m, rows)), Err(Emptied(m))}

Partition(h) == <<"partition", -1, (h \div PartitionStep) * PartitionStep>>

(* Mutant: the partition of the first block only. *)
ensurePartitions_First(m, from, to) ==
    <<Tx(Emptied(m), <<Ignore(<<Row(Partition(from), 1)>>)>>, NoHeight)>>

ensurePartitions(m, from, to) ==
    LET first == from \div PartitionStep
        n == (to \div PartitionStep) - first + 1
    IN  [i \in 1 .. n |->
            Tx(Emptied(m),
               <<Ignore(<<Row(Partition((first + i - 1) * PartitionStep), 1)>>)>>,
               NoHeight)]

block_action_partition_commitActs(m, d, from, to) ==
    LET tx == Tx(Emptied(m),
                 <<Delete({k \in DOMAIN d : from <= k[2] /\ k[2] <= to}),
                   Require({Partition(r.k[2]) : r \in Range(m.buf)}),
                   Serial(m.buf)>>, to)
    IN  {Commits(ensurePartitions(m, from, to) \o <<tx>>, Emptied(m))}

-----------------------------------------------------------------------------
(* plugins/block_meta: the row holds the expected producer of the block,   *)
(* taken from a package variable that is read from the chain at the first  *)
(* block of an epoch, or when there is none yet.  The candidates' names    *)
(* are prefetched after the variable is set, and may fail.                 *)
block_meta_putBlock(m, b) ==
    LET e == EpochNum(b.h)
        now == IF b.h = EpochHeight(e) \/ m.epoch = 0 THEN e ELSE m.epoch
        set == [m EXCEPT !.epoch = now]
    IN  {Ok(Buffer(set, <<Row(<<"block_meta", b.h>>, now)>>)), Err(m), Err(set)}

block_meta_commit(m, to) == TakeAndCommit(m, <<Upsert(m.buf)>>, to)

(* Mutant: a new process waits for the next epoch. *)
block_meta_v2_PutBlock_NoFirst(m, b) ==
    LET e == EpochNum(b.h)
        now == IF b.h = EpochHeight(e) THEN e ELSE m.epoch
        set == [m EXCEPT !.epoch = now]
    IN  {Ok(Buffer(set, <<Row(<<"block_meta_v2", b.h>>, now)>>)), Err(m), Err(set)}

(* plugins/block_meta_v2: the same, one block at a time, plain INSERT. *)
block_meta_v2_PutBlock(m, b) ==
    LET e == EpochNum(b.h)
        now == IF b.h = EpochHeight(e) \/ m.epoch = 0 THEN e ELSE m.epoch
        set == [m EXCEPT !.epoch = now]
    IN  {Ok(Buffer(set, <<Row(<<"block_meta_v2", b.h>>, now)>>)), Err(m), Err(set)}

block_meta_v2_commit(m, to) == TakeAndCommit(m, <<Insert(m.buf)>>, to)

(* The receipts of grant reward actions. *)
Grants(b) == {i \in Receipts(b) : Acts(b)[i].kind \in {"grant", "epochgrant"}}

(* plugins/block_reward: the candidate's name comes from the database, a   *)
(* failed lookup leaves the receipts before it in the buffer.              *)
block_reward_putBlock(m, b) ==
    LET rows(S) == Facts("block_reward", b, S)
    IN  {Ok(Buffer(m, rows(Grants(b))))}
        \cup {Err(Buffer(m, rows({j \in Grants(b) : j < i}))) : i \in Grants(b)}

block_reward_commit(m, to) == TakeAndCommit(m, <<Serial(m.buf)>>, to)

(* plugins/reward_history: the names come from a package variable that is  *)
(* filled at the first block of an epoch only (Fairbank is effective).     *)
reward_history_putBlock(m, b) ==
    LET e == EpochNum(b.h)
        first == b.h = EpochHeight(e)
        set == [m EXCEPT !.epoch = IF first THEN e ELSE @]
        rows == Rows({Row(<<"reward_history", b.h, i, set.epoch>>, 1) : i \in Grants(b)})
    IN  {Ok(Buffer(set, rows))} \cup (IF first THEN {Err(m)} ELSE {})

reward_history_commit(m, to) == TakeAndCommit(m, <<Serial(m.buf)>>, to)

(* plugins/probation: the probation list of the epoch, at its first block. *)
probation_putBlock(m, b) ==
    IF b.h = EpochHeight(EpochNum(b.h))
    THEN {Ok(Buffer(m, Facts("probation", b, DOMAIN Acts(b)))), Err(m)}
    ELSE {Ok(m)}

probation_commit(m, to) == TakeAndCommit(m, <<Serial(m.buf)>>, to)

(* plugins/candidatelist: the candidates at the first block of an epoch,    *)
(* unless the table has them already.  What is still in the buffer is not  *)
(* looked at.                                                              *)
candidatelist_putBlock(m, d, b) ==
    LET k == <<"candidatelist", EpochNum(b.h)>>
    IN  IF b.h # EpochHeight(EpochNum(b.h)) THEN {Ok(m)}
        ELSE IF k \in DOMAIN d THEN {Ok(m), Err(m)}
        ELSE {Ok(Buffer(m, <<Row(k, 1)>>)), Err(m)}

candidatelist_commit(m, to) == TakeAndCommit(m, <<Insert(m.buf)>>, to)

(* A plugin with a start height begins there whatever came before. *)
StartAt(h) == IF h < StartHeight THEN StartHeight - 1 ELSE h

(* plugins/slash: all in the transaction, one upsert per slashed delegate  *)
(* of the last epoch reward action.                                        *)
slash_handleBlock(m, b) ==
    LET grants == {i \in DOMAIN Acts(b) : Acts(b)[i].kind = "epochgrant"}
        final == {i \in grants : \A j \in grants : j <= i}
    IN  {Ok(Buffer(m, Facts("slash", b, final))), Err(Emptied(m))}

slash_PutBlocks(m, to) ==
    TakeAndCommit(m, [i \in DOMAIN m.buf |-> Upsert(<<m.buf[i]>>)], to)

slash_Start(m, d, h) == Started(m, AutoMigrate(d, h), StartAt(h))

(* plugins/action_type: typed envelopes, legacy ones and blobs without a   *)
(* receipt are skipped.  The authorization rows of a set-code action are   *)
(* buffered before its own row; their validity is asked of the chain.      *)
action_type_putBlock(m, b) ==
    LET auths(i) == IF Acts(b)[i].kind = "setcode"
                    THEN <<Row(<<"authorization", b.h, i>>, 1)>> ELSE NoRows
        kept == {i \in DOMAIN Acts(b) :
                    \/ Acts(b)[i].kind \notin {"legacy", "blob"}
                    \/ Acts(b)[i].kind = "blob" /\ Acts(b)[i].receipt}
        own(i) == <<Row(<<"action_type", b.h, i>>, 1)>>
        upto(n) == FoldLeft(LAMBDA a, i : IF i \in kept /\ i <= n
                                          THEN a \o auths(i) \o own(i) ELSE a,
                            NoRows, [i \in DOMAIN Acts(b) |-> i])
        asks == {i \in kept : Acts(b)[i].kind = "setcode"}
    IN  {Ok(Buffer(m, upto(Len(Acts(b)))))}
        \cup {Err(Buffer(m, upto(i - 1))) : i \in asks}

action_type_commit(m, to) ==
    TakeAndCommit(m, <<Insert(From("action_type", m.buf)),
                       Insert(From("authorization", m.buf))>>, to)

action_type_Start(m, d, h) == Started(m, AutoMigrate(d, h), StartAt(h))
=============================================================================

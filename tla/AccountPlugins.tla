---------------------------- MODULE AccountPlugins ----------------------------
(***************************************************************************)
(* The plugins that add up over blocks: plugins/account_income and its     *)
(* first version, block_supply, account_meta.  Their fields carry something *)
(* from one block to the next, or the tables do.                           *)
(***************************************************************************)
EXTENDS BlockPlugins

(* What a block's transaction logs move, with every amount 1: getIncomes.   *)
(* A log without sender counts for its recipient only.  A recipient that   *)
(* is no address is skipped after its sender was charged.                  *)
Out(b, a) == Cardinality({ij \in Logs(b) : LogAt(b, ij)[1] = a})
In(b, a) == Cardinality({ij \in Logs(b) : LogAt(b, ij)[2] = a})

account_income_getIncomes(b) ==
    {a \in UNION {{LogAt(b, ij)[1], LogAt(b, ij)[2]} : ij \in Logs(b)} \ {None, Bad} :
        In(b, a) + Out(b, a) > 0}

(* The rows of a block, and the sums of account_income_count. *)
IncomeRows(t, b) == Rows({Row(<<t, b.h, a, In(b, a), Out(b, a)>>, 1) :
                             a \in account_income_getIncomes(b)})
NoCounts == [k \in {} |-> 0]
Plus(f, g) == [k \in DOMAIN f \cup DOMAIN g |->
                  (IF k \in DOMAIN f THEN f[k] ELSE 0)
                  + (IF k \in DOMAIN g THEN g[k] ELSE 0)]
Flows(b) == [k \in {<<"count", a, x>> : a \in account_income_getIncomes(b),
                                        x \in {"in", "out"}} |->
                IF k[3] = "in" THEN In(b, k[2]) ELSE Out(b, k[2])]
AsRows(f) == Rows({Row(k, f[k]) : k \in DOMAIN f})

(* plugins/account_income: a row per block and address, and the deltas of  *)
(* the batch by address.                                                   *)
account_income_putBlock(m, b) ==
    {Ok([m EXCEPT !.buf = @ \o IncomeRows("account_income", b),
                  !.counts = Plus(@, Flows(b))])}

account_income_commit(m, to) ==
    LET taken == [Emptied(m) EXCEPT !.counts = NoCounts]
    IN  {Commits(<<Tx(taken, <<Serial(m.buf), AddTo(AsRows(m.counts))>>, to)>>, taken)}

account_income_Start(m, d, h) ==
    LET d0 == AutoMigrate(d, h)
        new == <<Serial(<<Row(<<"account_income", 0, "genesis", 1, 0>>, 1)>>),
                 Insert(<<Row(<<"count", "genesis", "in">>, 1)>>)>>
    IN  Started([m EXCEPT !.counts = NoCounts],
                CHOOSE x \in Run(d0, IF Genesis("account_income", d0) = <<>>
                                     THEN <<>> ELSE new) : TRUE, h)

(* plugins/account_income_v1: an address that is not in the batch's map     *)
(* but in the table enters the map with the table's sums, WITHOUT the      *)
(* block's flows.  The addresses come in any order; a lookup that fails    *)
(* leaves the row of its address and what the ones before it did.          *)
account_income_v1_putBlock(m, d, b) ==
    LET as == account_income_getIncomes(b)
        of(S) == {k \in DOMAIN Flows(b) : k[2] \in S}
        new(S) == [k \in of(S) |->
                      CASE k \in DOMAIN m.counts -> m.counts[k] + Flows(b)[k]
                        [] k \notin DOMAIN m.counts /\ k \in DOMAIN d -> d[k]
                        [] OTHER -> Flows(b)[k]]
        rows(S) == SelectSeq(IncomeRows("account_income_v1", b), LAMBDA r : r.k[3] \in S)
        put(S, T) == [m EXCEPT !.buf = @ \o rows(S), !.counts = new(T) @@ @]
        asks == {a \in as : \A k \in of({a}) : k \notin DOMAIN m.counts}
    IN  {Ok(put(as, as))}
        \cup {Err(put(x[1] \cup {x[2]}, x[1])) :
                 x \in {y \in (SUBSET as) \X asks : y[2] \notin y[1]}}

(* The two INSERTs use db.DB() instead of tx: each is on its own.  The      *)
(* buffer is emptied by the first one, the map by the second, whether they *)
(* succeed or not; neither when there is no transaction.                   *)
account_income_v1_commit(m, to) ==
    LET taken == [Emptied(m) EXCEPT !.counts = NoCounts]
    IN  {Commits(<<[Tx(Emptied(m), <<Serial(m.buf)>>, NoHeight)
                      EXCEPT !.bad = {m, Emptied(m)}],
                   Tx(taken, <<Upsert(AsRows(m.counts))>>, NoHeight),
                   Tx(taken, <<>>, to)>>, taken)}

account_income_v1_Start(m, d, h) ==
    LET d0 == AutoMigrate(d, h)
        new == <<Serial(<<Row(<<"account_income_v1", 0, "genesis", 1, 0>>, 1)>>),
                 Insert(<<Row(<<"count", "genesis", "in">>, 1)>>)>>
    IN  Started([m EXCEPT !.counts = NoCounts],
                CHOOSE x \in Run(d0, IF Genesis("account_income_v1", d0) = <<>>
                                     THEN <<>> ELSE new) : TRUE, h)

-----------------------------------------------------------------------------
(* plugins/block_supply: a block's content is the change of the two        *)
(* tracked balances, which account_income holds (it is a dependency).      *)
Tracked == <<"zero", "lock">>

(* accountBalanceByHeight: the sum over the blocks up to h. *)
accountBalanceByHeight(ch, h, a) ==
    FoldLeft(LAMBDA s, g : IF g <= h THEN s + ch[g][a] ELSE s, 0,
             [g \in Heights |-> g])

block_supply_Start(m, d, h, ch) ==
    Started([m EXCEPT !.running = [a \in Range(Tracked) |->
                                      accountBalanceByHeight(ch, h, a)]],
            AutoMigrate(d, h), h)

(* The running balances move address by address, and a failed read leaves  *)
(* the ones before it moved.                                               *)
block_supply_putBlock(m, b) ==
    LET moved(n) == [m EXCEPT !.running =
                        [a \in Range(Tracked) |->
                            IF \E i \in 1 .. n : Tracked[i] = a
                            THEN @[a] + b.c[a] ELSE @[a]]]
        row2(x) == Row(<<"block_supply", b.h>>, x.running)
    IN  {Ok(Buffer(moved(2), <<row2(moved(2))>>)), Err(m), Err(moved(1))}

block_supply_commit(m, to) == TakeAndCommit(m, <<Insert(m.buf)>>, to)

-----------------------------------------------------------------------------
(* plugins/account_meta: the accounts of the batch that are neither cached  *)
(* nor stored.  Collecting is local to the call.                           *)
account_meta_getAccounts(b) ==
    {a \in UNION {{LogAt(b, ij)[1], LogAt(b, ij)[2]} : ij \in Logs(b)} :
        a \notin {None, Bad}}

account_meta_collectProcessAccounts(m, b) ==
    LET new == {a \in account_meta_getAccounts(b) :
                   a \notin m.cached /\ <<"account_meta", a>> \notin Keys(m.buf)}
    IN  {Ok(Buffer(m, Rows({Row(<<"account_meta", a>>, b.h) : a \in new}))),
         Err(Emptied(m))}

(* Stored accounts are cached at once; the others are asked of the chain,   *)
(* one that the chain does not answer is left out, and those written are   *)
(* cached when the transaction has committed.                              *)
account_meta_PutBlocks(m, d, to) ==
    LET stored == {k \in Keys(m.buf) : k \in DOMAIN d}
        asked == Keys(m.buf) \ stored
        known == [Emptied(m) EXCEPT !.cached = @ \cup {k[2] : k \in stored}]
        answered(S) == SelectSeq(m.buf, LAMBDA r : r.k \in S)
        with(S) == [Commits(<<Tx(known, <<Ignore(answered(S))>>, to)>>,
                            [known EXCEPT !.cached = @ \cup {k[2] : k \in S}])
                      EXCEPT !.res = IF S = asked THEN "ok" ELSE "hid"]
    IN  {with(S) : S \in SUBSET asked}

account_meta_Start(m, d, h) ==
    Started([m EXCEPT !.cached = {}], AutoMigrate(d, h), h)

-----------------------------------------------------------------------------
(* What the tables owe their readers. *)

(* The plugins of BlockPlugins, of this module and of ContractPlugins. *)
Recorders == {"block_footer", "block_receipts", "block_receipts_transaction",
    "illegal_action", "action_execution", "block_action",
    "block_action_partition", "block_meta", "block_meta_v2", "block_reward",
    "reward_history", "probation", "candidatelist", "slash", "action_type", "account_income",
    "account_income_v1", "account_meta", "block_supply", "account_abstraction",
    "erc1967_proxy", "inscription", "gas_burned"}

(* Plugins that may repeat rows, or hold wrong ones, after a failure: rows *)
(* without a key are buffered and a later putBlock of the batch may fail   *)
(* (block_reward, reward_history, probation), a new process does not read  *)
(* the names again (reward_history), the producers of a later epoch or the *)
(* running balances are not taken back (block_meta, block_supply), the     *)
(* list of a later epoch is stored early (candidatelist).                  *)
Fragile == {"block_reward", "reward_history", "probation", "block_meta",
            "block_supply", "candidatelist"}

(* The tables are those of the chain put block by block without a failure, *)
(* whatever the batches, failed calls, lost answers, unloads and crashes   *)
(* were, unless one of them was passed over (an account the chain did not  *)
(* answer for); for the fragile plugins as long as nothing has failed.     *)
Exact ==
    /\ plugin \in Recorders \ {"account_income_v1"}
    /\ ~hidden
    /\ pc \in {"idle", "put"}
    /\ plugin \in Fragile => Unfailed
    => [k \in {x \in DOMAIN db : x[1] # "partition"} |-> db[k]]
       = [k \in {x \in DOMAIN want[row] : x[1] # "partition"} |-> want[row][k]]

(* No row of an indexed block is ever missing, in the fragile plugins and  *)
(* in account_income_v1 neither: what a failure may do there is repeat a   *)
(* row or leave a wrong sum.  The names of reward_history are excepted.    *)
NothingLost ==
    /\ plugin \in Recorders \ {"reward_history"}
    /\ ~hidden
    /\ pc \in {"idle", "put"}
    => DOMAIN want[row] \subseteq DOMAIN db
=============================================================================

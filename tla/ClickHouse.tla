------------------------------ MODULE ClickHouse ------------------------------
(***************************************************************************)
(* plugins/clickhouse and clickhouse_v1: blocks, actions, logs, transaction *)
(* logs and incomes in five tables of ClickHouse, and then the height in   *)
(* the other database.  There is no transaction: each INSERT and DELETE    *)
(* stands alone.  "clickhouse_predelete" is clickhouse with preDelete set. *)
(*                                                                         *)
(* The key of a transaction log has no index, so equal transfers of one    *)
(* action are one row, and it has the mark `internal`, which says whether  *)
(* account_meta knows the sender as a contract.                            *)
(***************************************************************************)
EXTENDS AccountPlugins

CONSTANT ContractAccounts     \* the senders that are contracts

ClickHousePlugins == {"clickhouse", "clickhouse_predelete", "clickhouse_v1"}

Senders(b) == {LogAt(b, ij)[1] : ij \in Logs(b)} \ {None}

(* internal is the set of the senders that get the mark. *)
handleTransactionLogs(b, internal) ==
    Rows({Row(<<"transaction_logs", b.h, ij[1], LogAt(b, ij)[1] \in internal, LogAt(b, ij)>>, 1) :
             ij \in {x \in Logs(b) : LogAt(b, x)[2] # Bad}})

ClickHouseRows(b, internal) ==
    <<Row(<<"blocks", b.h>>, 1)>>
    \o Facts("actions", b, Receipts(b))
    \o Facts("logs", b, Receipts(b))
    \o handleTransactionLogs(b, internal)
    \o IncomeRows("account_incomes", b)

(* clickhouse asks account_meta for each log; a lookup that fails says no. *)
clickhouse_PutBlock(m, b) ==
    LET with(F) == [res |-> IF F = {} THEN "ok" ELSE "hid",
                    mem |-> [m EXCEPT !.buf =
                        ClickHouseRows(b, ContractAccounts \ F)]]
    IN  {with(F) : F \in SUBSET (Senders(b) \cap ContractAccounts)}

(* Incomes are written one by one, what else a block has table by table,   *)
(* each after what the table held of the block was deleted, if configured. *)
clickhouse_commit(m, d, predelete, to) ==
    LET e == Emptied(m)
        clear(t) == IF predelete
                    THEN <<Tx(e, <<Delete({k \in DOMAIN d : k[1] = t /\ k[2] = to})>>, NoHeight)>>
                    ELSE <<>>
        fill(t) == IF From(t, m.buf) = <<>> THEN <<>>
                   ELSE <<Tx(e, <<Merge(From(t, m.buf))>>, NoHeight)>>
        incomes == From("account_incomes", m.buf)
        each == [i \in DOMAIN incomes |-> Tx(e, <<Merge(<<incomes[i]>>)>>, NoHeight)]
        tables == FoldLeft(LAMBDA a, t : a \o clear(t) \o fill(t), <<>>,
                           <<"blocks", "actions", "logs", "transaction_logs">>)
    IN  {Commits(tables \o clear("account_incomes") \o each \o <<Tx(e, <<>>, to)>>, e)}

(* At height 0 the genesis balances are inserted; no table is dropped. *)
clickhouse_Start(m, d, h) ==
    Started(m, IF h > 0 THEN d
               ELSE (<<"account_incomes", 0, "genesis", 1, 0>> :> 1) @@ d, h)

-----------------------------------------------------------------------------
(* clickhouse_v1 keeps the marks in a map for as long as the process lives. *)
(* account_meta is asked for the senders that are not in it; it is not a   *)
(* declared dependency, and a sender it does not have yet is no contract.  *)
warmAccountContractCache(m, b) ==
    LET unknown == Senders(b) \ DOMAIN m.flags
        with(F) == [res |-> IF F = {} THEN "ok" ELSE "hid",
                    mem |-> [m EXCEPT !.flags = [a \in unknown |-> a \in ContractAccounts \ F] @@ @]]
    IN  {with(F) : F \in SUBSET (unknown \cap ContractAccounts)}
        \cup (IF unknown = {} THEN {} ELSE {Err(Emptied(m))})

Marked(m) == {a \in DOMAIN m.flags : m.flags[a]}

(* PutBlocks works on a copy of the plugin: the rows end with the call. *)
clickhouse_v1_putBlock(m, b) ==
    {IF r.res = "err" THEN r
     ELSE [r EXCEPT !.mem.buf = @ \o ClickHouseRows(b, Marked(r.mem))] :
        r \in warmAccountContractCache(m, b)}

clickhouse_v1_commit(m, to) ==
    LET e == Emptied(m)
        fill(t) == IF From(t, m.buf) = <<>> THEN <<>>
                   ELSE <<Tx(e, <<Merge(From(t, m.buf))>>, NoHeight)>>
    IN  {Commits(FoldLeft(LAMBDA a, t : a \o fill(t), <<>>,
                          <<"blocks", "actions", "logs", "transaction_logs", "account_incomes">>)
                 \o <<Tx(e, <<>>, to)>>, e)}
=============================================================================

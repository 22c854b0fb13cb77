------------------------------- MODULE MCRunner -------------------------------
(***************************************************************************)
(* TLC instances of Runner: a plugin that others depend on (plugins/block, *)
(* plain INSERT), a dependent one whose putBlock calls the chain           *)
(* (plugins/block_meta, upsert), one that adds deltas                      *)
(* (plugins/account_income) and one that depends on it and calls the       *)
(* database in putBlock (plugins/block_supply, plain INSERT).              *)
(***************************************************************************)
EXTENDS Runner

CONSTANTS block, meta, income, supply

MCDeps == [p \in Plugins |-> CASE p = meta -> {block}
                               [] p = supply -> {income}
                               [] OTHER -> {}]

MCWrite == [p \in Plugins |-> CASE p \in {block, supply} -> "insert"
                                [] p = meta -> "upsert"
                                [] OTHER -> "delta"]

=============================================================================

-------------------------------- MODULE Runner --------------------------------
(***************************************************************************)
(* server/runner.go: one goroutine per plugin that reads the blocks it has *)
(* not indexed yet from the block DAO and puts them to the plugin, and the *)
(* buffer-then-commit pattern of the plugins it drives (plugins/block,     *)
(* plugins/block_meta, plugins/account_income): putBlock appends to an     *)
(* in-memory buffer, commit moves the buffer into ONE transaction together *)
(* with the plugin's row of index_heights.                                 *)
(*                                                                         *)
(* What a block writes is abstracted to how often its effect is there:     *)
(* absent, once, or more than once.  A plugin differs from another only in *)
(* what its INSERT does with an effect that is already there (Write):      *)
(*   "insert"  a duplicate key fails the statement       (plugins/block)   *)
(*   "upsert"  ON CONFLICT DO UPDATE replaces the row; the same key twice  *)
(*             in one statement fails it           (plugins/block_meta)    *)
(*   "delta"   ON CONFLICT adds to the row     (plugins/account_income)    *)
(*                                                                         *)
(* Faults are the failures the environment may inject, while failing:      *)
(*   "read"      a database or block DAO read returns an error             *)
(*   "put"       putBlock returns an error or panics (chain RPC)           *)
(*   "insert"    a statement before UpdateIndexHeightByTx fails            *)
(*   "commit"    the row's UPDATE or the COMMIT fails                      *)
(*   "lostack"   the COMMIT succeeds and its answer is lost                *)
(*   "stop"      the plugin is unloaded (and may be loaded again)          *)
(*   "crash"     the process dies and is started again                     *)
(*   "slowread"  another goroutine's read of the index is suspended        *)
(*               between its query and its cache store                     *)
(***************************************************************************)
EXTENDS IndexHeight

CONSTANTS Deps,            \* Deps[p] = DependentPlugins() of p
          BatchPlugins,    \* plugins that implement BatchAdapter
          FailingPlugins,  \* plugins whose putBlock can return an error
          Write,           \* Write[p]: how p writes, see above
          Faults,          \* the faults of this instance
          MaxHeight        \* bound: the chain grows to this height

FaultNames == {"read", "put", "insert", "commit", "lostack", "stop", "crash",
               "slowread"}

ASSUME RunnerAssumption ==
    /\ Deps \in [Plugins -> SUBSET Plugins]
    /\ BatchPlugins \subseteq Plugins
    /\ FailingPlugins \subseteq Plugins
    /\ Write \in [Plugins -> {"insert", "upsert", "delta"}]
    /\ Faults \subseteq FaultNames
    /\ MaxHeight \in Nat

VARIABLES dao,      \* height of the block DAO
          table,    \* table[p]: effects committed to p's tables
          buf,      \* buf[p]: effects buffered in p by putBlock
          tx,       \* tx[p]: effects written by p's open transaction
          pc,       \* pc[p]: where the goroutine of p is
          running,  \* running[p]: r.isRunning
          tip,      \* tip[p]: local tipHeight
          next,     \* next[p]: local nextHeight
          last,     \* last[p]: height of the last block of the batch in hand
          at,       \* at[p]: the next block of the batch to put
          lost,     \* history: heights whose transaction was rolled back
                    \* after their height had been cached, and committed
                    \* heights whose tables a start at height 0 dropped
          failing   \* faults may still happen

pluginVars == <<table, buf, tx, pc, running, tip, next, last, at, lost>>
vars == <<dao, indexVars, pluginVars, failing>>

Heights == 1 .. MaxHeight
Effects == [Heights -> 0 .. 2]   \* absent, once, more than once
NoEffects == [h \in Heights |-> 0]
Once(h) == [g \in Heights |-> IF g = h THEN 1 ELSE 0]

Twice(n, m) == IF n + m > 2 THEN 2 ELSE n + m
Merge(a, b) == [h \in Heights |-> Twice(a[h], b[h])]
Replace(a, b) == [h \in Heights |-> IF b[h] > 0 THEN 1 ELSE a[h]]

(* What p's INSERTs of the effects b leave in a table that holds a, and    *)
(* when the database refuses them.                                         *)
Written(p, a, b) == IF Write[p] = "upsert" THEN Replace(a, b) ELSE Merge(a, b)

(* Mutant: the same key twice in one statement is accepted. *)
Refused_ByTableOnly(p, a, b) ==
    \E h \in Heights : Write[p] = "insert" /\ b[h] > 0 /\ a[h] > 0

Refused(p, a, b) ==
    \E h \in Heights :
        \/ Write[p] # "delta" /\ b[h] > 1
        \/ Write[p] = "insert" /\ b[h] > 0 /\ a[h] > 0

Fault(f) == failing /\ f \in Faults

(* Every variable has its type; heights never leave the chain, nextHeight   *)
(* never passes the block after the last one.                              *)
TypeOK ==
    /\ IndexTypeOK(0 .. MaxHeight)
    /\ dao \in 0 .. MaxHeight
    /\ table \in [Plugins -> Effects]
    /\ buf \in [Plugins -> Effects]
    /\ tx \in [Plugins -> Effects]
    /\ pc \in [Plugins -> {"down", "tip", "next", "loop", "put", "commit"}]
    /\ running \in [Plugins -> BOOLEAN]
    /\ tip \in [Plugins -> 0 .. MaxHeight]
    /\ next \in [Plugins -> 0 .. MaxHeight + 1]
    /\ last \in [Plugins -> 0 .. MaxHeight]
    /\ at \in [Plugins -> 0 .. MaxHeight + 1]
    /\ lost \in [Plugins -> SUBSET (0 .. MaxHeight)]
    /\ failing \in BOOLEAN

Init ==
    /\ IndexInit
    /\ dao = 0
    /\ table = [p \in Plugins |-> NoEffects]
    /\ buf = [p \in Plugins |-> NoEffects]
    /\ tx = [p \in Plugins |-> NoEffects]
    /\ pc = [p \in Plugins |-> "down"]
    /\ running = [p \in Plugins |-> FALSE]
    /\ tip = [p \in Plugins |-> 0]
    /\ next = [p \in Plugins |-> 0]
    /\ last = [p \in Plugins |-> 0]
    /\ at = [p \in Plugins |-> 0]
    /\ lost = [p \in Plugins |-> {}]
    /\ failing = TRUE

Goto(p, l) == pc' = [pc EXCEPT ![p] = l]

-----------------------------------------------------------------------------
(* The environment. *)

(* External: the chain produces a block and the rebuild worker stores it.  *)
NewBlock ==
    /\ dao < MaxHeight
    /\ dao' = dao + 1
    /\ UNCHANGED <<indexVars, pluginVars, failing>>

(* External: no fault happens from here on. *)
Calm ==
    /\ failing
    /\ failing' = FALSE
    /\ UNCHANGED <<dao, indexVars, pluginVars>>

(* The Info RPC reads every plugin's height in its own goroutine. *)
Info(p) ==
    /\ \/ ReadCreate(p)
       \/ ReadThrough(p)
       \/ Fault("slowread") /\ ReadMiss(p)
    /\ UNCHANGED <<dao, pluginVars, failing>>

InfoStore(p) ==
    /\ \E h \in filling[p] : ReadStore(p, h)
    /\ UNCHANGED <<dao, pluginVars, failing>>

-----------------------------------------------------------------------------
(* plugin.Start (its db.AutoMigrate) and the launch of the goroutine.  At  *)
(* height 0 the plugin's tables are dropped and created empty, while the   *)
(* row keeps its height: with a stale 0 in the cache, what the row stands  *)
(* for is gone.  The plugin is a package variable of its shared object: a  *)
(* second Start in the same process finds the buffer as it was left.       *)
Start(p) ==
    /\ pc[p] = "down"
    /\ GetIndexHeight(p)
    /\ table' = [table EXCEPT ![p] = IF IndexHeightOf(p) = 0 THEN NoEffects ELSE @]
    /\ running' = [running EXCEPT ![p] = TRUE]
    /\ lost' = [lost EXCEPT ![p] = IF IndexHeightOf(p) = 0 /\ row[p] # NoHeight
                                   THEN @ \cup 1 .. row[p] ELSE @]
    /\ Goto(p, "tip")
    /\ UNCHANGED <<dao, filling, buf, tx, tip, next, last, at, failing>>

(* getTipHeight: the least of the DAO's height and the dependencies'        *)
(* heights as the cache has them.  A missing entry is filled from the row, *)
(* a missing row is created and counts as 0.                               *)
(* Mutant: the dependencies are not looked at. *)
TipBounds_DaoOnly(p) == {dao}

TipBounds(p) == {dao} \cup {IndexHeightOf(d) : d \in Deps[p]}

GetTipHeight(p) ==
    /\ pc[p] = "tip"
    /\ running[p]
    /\ \E t \in TipBounds(p) :
          /\ \A u \in TipBounds(p) : t <= u
          /\ tip' = [tip EXCEPT ![p] = t]
    /\ cache' = [d \in Plugins |-> IF d \in Deps[p] /\ cache[d] = NoHeight
                                   THEN row[d] ELSE cache[d]]
    /\ row' = [d \in Plugins |-> IF d \in Deps[p] /\ cache[d] = NoHeight
                                    /\ row[d] = NoHeight
                                 THEN 0 ELSE row[d]]
    /\ Goto(p, "next")
    /\ UNCHANGED <<dao, filling, table, buf, tx, running, next, last, at, lost,
                   failing>>

(* Mutants: one block too far, and the last indexed block again. *)
NextHeight_Skips(p) ==
    /\ pc[p] = "next"
    /\ GetIndexHeight(p)
    /\ next' = [next EXCEPT ![p] = IndexHeightOf(p) + 2]
    /\ Goto(p, "loop")
    /\ UNCHANGED <<dao, filling, table, buf, tx, running, tip, last, at, lost,
                   failing>>

NextHeight_Repeats(p) ==
    /\ pc[p] = "next"
    /\ GetIndexHeight(p)
    /\ next' = [next EXCEPT ![p] = IF IndexHeightOf(p) = 0 THEN 1
                                  ELSE IndexHeightOf(p)]
    /\ Goto(p, "loop")
    /\ UNCHANGED <<dao, filling, table, buf, tx, running, tip, last, at, lost,
                   failing>>

NextHeight(p) ==
    /\ pc[p] = "next"
    /\ GetIndexHeight(p)
    /\ next' = [next EXCEPT ![p] = IndexHeightOf(p) + 1]
    /\ Goto(p, "loop")
    /\ UNCHANGED <<dao, filling, table, buf, tx, running, tip, last, at, lost,
                   failing>>

(* nextHeight() or the block read fails: back to the outer loop. *)
ReadFail(p) ==
    /\ Fault("read")
    /\ \/ pc[p] = "next"
       \/ pc[p] = "loop" /\ next[p] <= tip[p] /\ running[p]
    /\ Goto(p, "tip")
    /\ UNCHANGED <<dao, indexVars, table, buf, tx, running, tip, next, last, at,
                   lost, failing>>

(* The blocks in hand: one, or for a BatchAdapter any number the adaptive  *)
(* batch size and the transaction cap leave (see BatchFetch).              *)
Fetch(p) ==
    /\ pc[p] = "loop"
    /\ next[p] <= tip[p]
    /\ running[p]
    /\ \E l \in IF p \in BatchPlugins THEN next[p] .. tip[p] ELSE {next[p]} :
          last' = [last EXCEPT ![p] = l]
    /\ at' = [at EXCEPT ![p] = next[p]]
    /\ Goto(p, "put")
    /\ UNCHANGED <<dao, indexVars, table, buf, tx, running, tip, next, lost,
                   failing>>

LoopEnd(p) ==
    /\ pc[p] = "loop"
    /\ next[p] > tip[p] \/ ~running[p]
    /\ Goto(p, "tip")
    /\ UNCHANGED <<dao, indexVars, table, buf, tx, running, tip, next, last, at,
                   lost, failing>>

-----------------------------------------------------------------------------
(* PutBlocks: putBlock for every block, then commit. *)

PutOne(p) ==
    /\ pc[p] = "put"
    /\ at[p] <= last[p]
    /\ buf' = [buf EXCEPT ![p] = Merge(@, Once(at[p]))]
    /\ at' = [at EXCEPT ![p] = @ + 1]
    /\ UNCHANGED <<dao, indexVars, table, tx, pc, running, tip, next, last, lost,
                   failing>>

(* putBlock fails, or panics and is recovered: what earlier blocks of the  *)
(* batch buffered stays.                                                   *)
PutFail(p) ==
    /\ Fault("put")
    /\ p \in FailingPlugins
    /\ pc[p] = "put"
    /\ at[p] <= last[p]
    /\ Goto(p, "tip")
    /\ UNCHANGED <<dao, indexVars, table, buf, tx, running, tip, next, last, at,
                   lost, failing>>

(* Mutant: UpdateIndexHeightByTx before the INSERTs. *)
InsertFail_HeightFirst(p) ==
    /\ pc[p] = "put"
    /\ at[p] > last[p]
    /\ Refused(p, table[p], buf[p]) \/ Fault("insert")
    /\ buf' = [buf EXCEPT ![p] = NoEffects]
    /\ CacheIndexHeight(p, last[p])
    /\ Goto(p, "tip")
    /\ UNCHANGED <<dao, row, filling, table, tx, running, tip, next, last, at,
                   lost, failing>>

(* commit(): the buffer is taken over and emptied whatever follows, and a  *)
(* refused or failed INSERT rolls back before the height is cached.        *)
InsertFail(p) ==
    /\ pc[p] = "put"
    /\ at[p] > last[p]
    /\ Refused(p, table[p], buf[p]) \/ Fault("insert")
    /\ buf' = [buf EXCEPT ![p] = NoEffects]
    /\ Goto(p, "tip")
    /\ UNCHANGED <<dao, indexVars, table, tx, running, tip, next, last, at, lost,
                   failing>>

(* The INSERTs succeed and UpdateIndexHeightByTx has stored the cache      *)
(* entry; row and table move with the COMMIT.                              *)
Insert(p) ==
    /\ pc[p] = "put"
    /\ at[p] > last[p]
    /\ ~Refused(p, table[p], buf[p])
    /\ tx' = [tx EXCEPT ![p] = buf[p]]
    /\ buf' = [buf EXCEPT ![p] = NoEffects]
    /\ CacheIndexHeight(p, last[p])
    /\ Goto(p, "commit")
    /\ UNCHANGED <<dao, row, filling, table, running, tip, next, last, at, lost,
                   failing>>

Committed(p) ==
    /\ table' = [table EXCEPT ![p] = Written(p, @, tx[p])]
    /\ CommitIndexHeight(p, last[p])
    /\ tx' = [tx EXCEPT ![p] = NoEffects]

Commit(p) ==
    /\ pc[p] = "commit"
    /\ Committed(p)
    /\ next' = [next EXCEPT ![p] = last[p] + 1]
    /\ Goto(p, "loop")
    /\ UNCHANGED <<dao, cache, filling, buf, running, tip, last, at, lost, failing>>

CommitLostAck(p) ==
    /\ Fault("lostack")
    /\ pc[p] = "commit"
    /\ Committed(p)
    /\ Goto(p, "tip")
    /\ UNCHANGED <<dao, cache, filling, buf, running, tip, next, last, at, lost,
                   failing>>

(* Mutant: the data is written outside the transaction. *)
CommitFail_DataStays(p) ==
    /\ Fault("commit")
    /\ pc[p] = "commit"
    /\ table' = [table EXCEPT ![p] = Written(p, @, tx[p])]
    /\ tx' = [tx EXCEPT ![p] = NoEffects]
    /\ lost' = [lost EXCEPT ![p] = @ \cup (next[p] .. last[p])]
    /\ Goto(p, "tip")
    /\ UNCHANGED <<dao, indexVars, buf, running, tip, next, last, at, failing>>

CommitFail(p) ==
    /\ Fault("commit")
    /\ pc[p] = "commit"
    /\ tx' = [tx EXCEPT ![p] = NoEffects]
    /\ lost' = [lost EXCEPT ![p] = @ \cup (next[p] .. last[p])]
    /\ Goto(p, "tip")
    /\ UNCHANGED <<dao, indexVars, table, buf, running, tip, next, last, at,
                   failing>>

-----------------------------------------------------------------------------
(* runner.Stop clears isRunning; the goroutine leaves at the outer loop.   *)
Stop(p) ==
    /\ Fault("stop")
    /\ pc[p] # "down"
    /\ running' = [running EXCEPT ![p] = FALSE]
    /\ UNCHANGED <<dao, indexVars, table, buf, tx, pc, tip, next, last, at, lost,
                   failing>>

Exit(p) ==
    /\ pc[p] = "tip"
    /\ ~running[p]
    /\ Goto(p, "down")
    /\ UNCHANGED <<dao, indexVars, table, buf, tx, running, tip, next, last, at,
                   lost, failing>>

(* The process dies.  Open transactions roll back, and heights above a row *)
(* that were passed over will be read again.                               *)
Crash ==
    /\ Fault("crash")
    /\ ForgetIndex
    /\ buf' = [p \in Plugins |-> NoEffects]
    /\ tx' = [p \in Plugins |-> NoEffects]
    /\ pc' = [p \in Plugins |-> "down"]
    /\ running' = [p \in Plugins |-> FALSE]
    /\ tip' = [p \in Plugins |-> 0]
    /\ next' = [p \in Plugins |-> 0]
    /\ last' = [p \in Plugins |-> 0]
    /\ at' = [p \in Plugins |-> 0]
    /\ lost' = [p \in Plugins |->
                   {h \in lost[p] : row[p] # NoHeight /\ h <= row[p]}]
    /\ UNCHANGED <<dao, table, failing>>

(* The steps of p's goroutine, which run as long as the process does, and  *)
(* the ways they fail.  Start is not among them: it takes a Load.          *)
Work(p) ==
    \/ GetTipHeight(p) \/ NextHeight(p) \/ Fetch(p) \/ LoopEnd(p)
    \/ PutOne(p) \/ InsertFail(p) \/ Insert(p) \/ Commit(p) \/ Exit(p)

Fail(p) == ReadFail(p) \/ PutFail(p) \/ CommitLostAck(p) \/ CommitFail(p)

Next ==
    \/ NewBlock \/ Calm \/ Crash
    \/ \E p \in Plugins :
          \/ Start(p) \/ Work(p) \/ Fail(p) \/ Stop(p)
          \/ Info(p) \/ InfoStore(p)

Spec == Init /\ [][Next]_vars

LiveSpec == /\ Spec
            /\ WF_vars(Calm)
            /\ \A p \in Plugins : WF_vars(Work(p))

-----------------------------------------------------------------------------
(* What the indexer promises. *)

CommittedHeight(p) == IF row[p] = NoHeight THEN 0 ELSE row[p]

(* A committed index height stands for data: every block at or below the   *)
(* height of p's row has its effect in p's tables, unless its transaction  *)
(* was rolled back after UpdateIndexHeightByTx had already cached its      *)
(* height, or the plugin was started while the cache held 0 for a row that *)
(* was further - whatever the order of put errors, refused INSERTs, lost   *)
(* answers, suspended reads, unloads and crashes.                          *)
LossAccounted ==
    \A p \in Plugins : \A h \in Heights :
        h <= CommittedHeight(p) => table[p][h] > 0 \/ h \in lost[p]

(* No effect of a block is visible above the committed index height: data  *)
(* and height move in the same transaction.                                *)
NothingEarly ==
    \A p \in Plugins : \A h \in Heights :
        h > CommittedHeight(p) => table[p][h] = 0

(* No block counts twice, although a buffer survives a failed putBlock and *)
(* every fault makes the runner put blocks again.                          *)
AtMostOnce ==
    \A p \in Plugins : \A h \in Heights : table[p][h] <= 1

(* Every block up to the committed height is in the tables, with nothing   *)
(* excused: what is left of LossAccounted when no transaction rolls back   *)
(* after the cache store and no read of the index is suspended.            *)
NoGap ==
    \A p \in Plugins : \A h \in Heights :
        h <= CommittedHeight(p) => table[p][h] > 0

(* The cached height is never behind the committed one, which is what lets *)
(* nextHeight() trust it: the runner never puts a committed block again.   *)
CacheAhead ==
    \A p \in Plugins :
        cache[p] # NoHeight => row[p] # NoHeight /\ row[p] <= cache[p]

(* getTipHeight's gate: while p puts a batch, each plugin p depends on has *)
(* at least started the transaction that indexes the batch's last block.   *)
DependencyGate ==
    \A p \in Plugins : pc[p] \in {"put", "commit"} =>
        \A d \in Deps[p] : cache[d] # NoHeight /\ last[p] <= cache[d]

(* A committed index height never moves back. *)
HeightMonotone ==
    [][\A p \in Plugins : CommittedHeight(p) <= CommittedHeight(p)']_vars

(* Once faults have stopped, a block that the DAO and all plugins p depends *)
(* on have is indexed by p or p is stopped, in spite of dirty buffers and   *)
(* lost answers.  Whether a stopped plugin is loaded again is not the       *)
(* runner's to decide, nor is it needed that p's dependencies still run.    *)
CatchUp ==
    \A p \in Plugins : \A h \in Heights :
        (dao >= h /\ \A d \in Deps[p] : CommittedHeight(d) >= h)
            ~> (CommittedHeight(p) >= h \/ ~running[p])

IX == INSTANCE Indexer WITH height <- [p \in Plugins |-> CommittedHeight(p)],
                            applied <- table

(* The runner implements the abstract indexer: seen from the database, a   *)
(* plugin's tables and height move forward together, by whole batches and  *)
(* with every block applied exactly once.  Commit failures are excluded    *)
(* (see ReplayedVerbatim), all other faults are not.                       *)
ImplementsIndexer == IX!Spec

(* What service/voter_reward/plugin.go:93-94 says of the runner: a batch   *)
(* whose PutBlocks failed is put again, nextHeight does not pass it.       *)
ReplayedVerbatim ==
    \A p \in Plugins : pc[p] = "put" => next[p] <= CommittedHeight(p) + 1
=============================================================================

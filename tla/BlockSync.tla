------------------------------ MODULE BlockSync ------------------------------
(***************************************************************************)
(* server/server.go, startDaoWorker: a goroutine that every 4 seconds asks *)
(* the chain for its height and stores the blocks the block DAO lacks; and *)
(* catch-up mode, in which the DAO is kernel/virtualdao.go, a map in       *)
(* memory, and runner.Start moves the plugin's index height before the     *)
(* first block.                                                            *)
(*                                                                         *)
(* The three DAOs differ in what PutBlock accepts:                         *)
(*   "file"    (external) only the block after the last one                *)
(*   "grpc"    (external) a block the remote store holds already; only the *)
(*             height is recorded                                          *)
(*   "memory"  any block                                                   *)
(* The memory DAO is the one of catch-up mode, where runners read blocks   *)
(* from the chain and only its height matters to them.                     *)
(***************************************************************************)
EXTENDS Naturals

CONSTANTS BatchSize,      \* iotex.batchSize
          StartHeights,   \* values of iotex.catchUpStartHeight, 0 = not set
          MaxHeight       \* bound: the chain grows to this height

ASSUME SyncAssumption ==
    /\ BatchSize \in Nat \ {0}
    /\ MaxHeight \in Nat
    /\ StartHeights \subseteq 0 .. MaxHeight
    /\ 0 \in StartHeights

VARIABLES kind,      \* the DAO in use
          startCfg,  \* catchUpStartHeight
          chain,     \* height of the chain
          remote,    \* height of the remote store behind the gRPC DAO
          height,    \* dao.Height()
          pc,        \* the worker: between passes, in the loop, putting
          tip,       \* its tipHeight
          start,     \* its startHeight
          count,     \* blocks it asked for
          at, left,  \* next block of the answer, and how many are left
          plugin,    \* a catch-up plugin: loaded, running or failed
          upsert,    \* whether it replaces rows or fails on duplicates
          index,     \* its index height
          from,      \* history: where its index began at the last start
          indexed,   \* blocks in its tables
          failing    \* failures may still happen

workerVars == <<pc, tip, start, count, at, left>>
pluginVars == <<plugin, upsert, index, from, indexed>>
vars == <<kind, startCfg, chain, remote, height, workerVars, pluginVars, failing>>

Heights == 1 .. MaxHeight

TypeOK ==
    /\ kind \in {"file", "grpc", "memory"}
    /\ startCfg \in StartHeights
    /\ chain \in 0 .. MaxHeight
    /\ remote \in 0 .. MaxHeight
    /\ height \in 0 .. MaxHeight
    /\ pc \in {"idle", "loop", "put"}
    /\ tip \in 0 .. MaxHeight
    /\ start \in Nat
    /\ count \in 0 .. BatchSize
    /\ left \in 0 .. BatchSize
    /\ at \in Nat
    /\ at + left <= MaxHeight + 1
    /\ plugin \in {"loaded", "running", "error"}
    /\ upsert \in BOOLEAN
    /\ index \in 0 .. MaxHeight
    /\ from \in 0 .. MaxHeight
    /\ indexed \subseteq Heights
    /\ failing \in BOOLEAN

Init ==
    /\ kind \in {"file", "grpc", "memory"}
    /\ startCfg \in IF kind = "memory" THEN StartHeights ELSE {0}
    /\ chain = 0
    /\ remote = 0
    /\ height = 0
    /\ pc = "idle"
    /\ tip = 0 /\ start = 0 /\ count = 0 /\ at = 0 /\ left = 0
    /\ plugin = "loaded"
    /\ upsert \in IF kind = "memory" THEN BOOLEAN ELSE {TRUE}
    /\ index = 0 /\ from = 0 /\ indexed = {}
    /\ failing = TRUE

-----------------------------------------------------------------------------
(* External. *)

NewBlock ==
    /\ chain < MaxHeight
    /\ chain' = chain + 1
    /\ UNCHANGED <<kind, startCfg, remote, height, workerVars, pluginVars, failing>>

RemoteFollows ==
    /\ kind = "grpc"
    /\ remote < chain
    /\ remote' = remote + 1
    /\ UNCHANGED <<kind, startCfg, chain, height, workerVars, pluginVars, failing>>

Calm ==
    /\ failing
    /\ failing' = FALSE
    /\ UNCHANGED <<kind, startCfg, chain, remote, height, workerVars, pluginVars>>

-----------------------------------------------------------------------------
(* startRebuildBlockDaoWorker. *)

(* Mutant: catch-up mode starts over although the DAO has blocks. *)
BeginPass_StartsOver ==
    /\ pc = "idle"
    /\ tip' \in IF failing THEN 0 .. chain ELSE {chain}
    /\ start' = IF kind = "memory" /\ startCfg > 0 THEN startCfg ELSE height + 1
    /\ pc' = "loop"
    /\ UNCHANGED <<kind, startCfg, chain, remote, height, count, at, left,
                   pluginVars, failing>>

(* GetChainMeta, answered by a node that may lag, and dao.Height.  In      *)
(* catch-up mode an empty DAO begins at the configured height, else at the *)
(* tip: daoHeight = tipHeight - 1 and the + 1 of the loop cancel out, also *)
(* where the first one wraps around.                                       *)
BeginPass ==
    /\ pc = "idle"
    /\ tip' \in IF failing THEN 0 .. chain ELSE {chain}
    /\ start' = IF kind = "memory" /\ height = 0
                THEN IF startCfg > 0 THEN startCfg ELSE tip'
                ELSE height + 1
    /\ pc' = "loop"
    /\ UNCHANGED <<kind, startCfg, chain, remote, height, count, at, left,
                   pluginVars, failing>>

(* A pass is over, and with it the locals. *)
Return ==
    /\ pc' = "idle"
    /\ tip' = 0 /\ start' = 0 /\ count' = 0 /\ at' = 0 /\ left' = 0

AtMost(n, m) == IF n < m THEN n ELSE m

(* Mutant: the count is not cut at the tip. *)
Request_Uncapped ==
    /\ pc = "loop"
    /\ start <= tip
    /\ count' = BatchSize
    /\ left' \in IF start = 0 THEN {0} ELSE IF failing THEN 0 .. count' ELSE {count'}
    /\ at' = start
    /\ pc' = "put"
    /\ UNCHANGED <<kind, startCfg, chain, remote, height, tip, start, pluginVars,
                   failing>>

(* GetRawBlocks.  While failing, the node may return fewer blocks than     *)
(* asked for; it never has a block 0.                                      *)
Request ==
    /\ pc = "loop"
    /\ start <= tip
    /\ count' = AtMost(BatchSize, tip - start + 1)
    /\ left' \in IF start = 0 THEN {0} ELSE IF failing THEN 0 .. count' ELSE {count'}
    /\ at' = start
    /\ pc' = "put"
    /\ UNCHANGED <<kind, startCfg, chain, remote, height, tip, start, pluginVars,
                   failing>>

(* An error of the node, of the decoding or of the DAO ends the pass. *)
PassFail ==
    /\ failing
    /\ pc \in {"loop", "put"}
    /\ Return
    /\ UNCHANGED <<kind, startCfg, chain, remote, height, pluginVars, failing>>

(* What PutBlock of the DAO in use accepts. *)
Accepts(h) ==
    CASE kind = "file" -> h = height + 1
      [] kind = "grpc" -> h <= remote
      [] kind = "memory" -> TRUE

Put ==
    /\ pc = "put"
    /\ left > 0
    /\ Accepts(at)
    /\ height' = at
    /\ at' = at + 1
    /\ left' = left - 1
    /\ UNCHANGED <<kind, startCfg, chain, remote, pc, tip, start, count, pluginVars,
                   failing>>

(* A refused block ends the pass: with an error, or quietly when the       *)
(* remote store is behind (ErrRemoteHeightTooLow).                         *)
PutRefused ==
    /\ pc = "put"
    /\ left > 0
    /\ ~Accepts(at)
    /\ Return
    /\ UNCHANGED <<kind, startCfg, chain, remote, height, pluginVars, failing>>

(* startHeight += count, however many blocks the answer had. *)
NextBatch ==
    /\ pc = "put"
    /\ left = 0
    /\ start' = start + count
    /\ count' = 0 /\ at' = 0
    /\ pc' = "loop"
    /\ UNCHANGED <<kind, startCfg, chain, remote, height, tip, left, pluginVars,
                   failing>>

(* Mutant: the loop ends one block early. *)
EndPass_Early ==
    /\ pc = "loop"
    /\ start >= tip
    /\ Return
    /\ UNCHANGED <<kind, startCfg, chain, remote, height, pluginVars, failing>>

EndPass ==
    /\ pc = "loop"
    /\ start > tip
    /\ Return
    /\ UNCHANGED <<kind, startCfg, chain, remote, height, pluginVars, failing>>

-----------------------------------------------------------------------------
(* runner.Start and the runner's loop in catch-up mode, for one plugin.    *)

(* The tables after plugin.Start: AutoMigrate empties them if the index is *)
(* at 0.                                                                   *)
Migrated == IF index = 0 THEN {} ELSE indexed

(* Mutant: the height itself, not the one before it. *)
StartIndex_Past == IF startCfg > 0 THEN startCfg ELSE height

(* Where a start moves the index height, wherever it was before. *)
StartIndex == IF startCfg > 0 THEN startCfg - 1 ELSE height

StartPlugin ==
    /\ kind = "memory"
    /\ plugin = "loaded"
    /\ height > 0
    /\ plugin' = "running"
    /\ indexed' = Migrated
    /\ index' = StartIndex
    /\ from' = index'
    /\ UNCHANGED <<kind, startCfg, chain, remote, height, workerVars, upsert, failing>>

(* Five reads of a DAO that is still empty, or a failed update of the      *)
(* index, whose new height may stay in the cache: Start returns an error   *)
(* and pluginRefresh never tries again.                                    *)
StartPluginFail ==
    /\ kind = "memory"
    /\ plugin = "loaded"
    /\ height = 0 \/ failing
    /\ plugin' = "error"
    /\ indexed' = Migrated
    /\ index' \in IF height = 0 THEN {index} ELSE {index, StartIndex}
    /\ UNCHANGED <<kind, startCfg, chain, remote, height, workerVars, upsert, from,
                   failing>>

(* Mutant: nextHeight is advanced twice. *)
IndexBlock_Skips ==
    /\ plugin = "running"
    /\ index < height
    /\ upsert \/ index + 1 \notin indexed
    /\ indexed' = indexed \cup {index + 1}
    /\ index' = AtMost(index + 2, height)
    /\ UNCHANGED <<kind, startCfg, chain, remote, height, workerVars, plugin, upsert,
                   from, failing>>

(* Mutant: the loop ends before the tip. *)
IndexBlock_Behind ==
    /\ plugin = "running"
    /\ index + 1 < height
    /\ upsert \/ index + 1 \notin indexed
    /\ indexed' = indexed \cup {index + 1}
    /\ index' = index + 1
    /\ UNCHANGED <<kind, startCfg, chain, remote, height, workerVars, plugin, upsert,
                   from, failing>>

(* One turn of the inner loop: the next block is read from the chain.  A   *)
(* duplicate key makes the put fail and be tried again, without end.       *)
IndexBlock ==
    /\ plugin = "running"
    /\ index < height
    /\ upsert \/ index + 1 \notin indexed
    /\ indexed' = indexed \cup {index + 1}
    /\ index' = index + 1
    /\ UNCHANGED <<kind, startCfg, chain, remote, height, workerVars, plugin, upsert,
                   from, failing>>

(* The plugin is unloaded and loaded again. *)
Reload ==
    /\ failing
    /\ plugin # "loaded"
    /\ plugin' = "loaded"
    /\ UNCHANGED <<kind, startCfg, chain, remote, height, workerVars, upsert, index,
                   from, indexed, failing>>

(* The process dies and is started again.  A gRPC DAO starts at the remote *)
(* store's height, a memory DAO empty.                                     *)
Crash ==
    /\ failing
    /\ height' = CASE kind = "file" -> height
                   [] kind = "grpc" -> remote
                   [] kind = "memory" -> 0
    /\ Return
    /\ plugin' = "loaded"
    /\ UNCHANGED <<kind, startCfg, chain, remote, upsert, index, from, indexed, failing>>

Worker == BeginPass \/ Request \/ Put \/ PutRefused \/ NextBatch \/ EndPass

Next ==
    \/ NewBlock \/ RemoteFollows \/ Calm
    \/ Worker \/ PassFail
    \/ StartPlugin \/ StartPluginFail \/ IndexBlock \/ Reload
    \/ Crash

Spec == Init /\ [][Next]_vars

LiveSpec ==
    /\ Spec
    /\ WF_vars(Calm)
    /\ WF_vars(RemoteFollows)
    /\ WF_vars(Worker)
    /\ WF_vars(IndexBlock)

-----------------------------------------------------------------------------
(* The DAO's height moves back only when a memory DAO is lost. *)
DaoMonotone == [][height' < height => kind = "memory" /\ height' = 0]_vars

(* Once failures have stopped, the DAO reaches every height of the chain   *)
(* from catchUpStartHeight on, after whatever short, late or failed        *)
(* answers came before: an answer shorter than asked for makes the worker  *)
(* skip ahead, which the file refuses and the next pass repairs.           *)
SyncCatchesUp ==
    \A h \in Heights : (chain >= h /\ h >= startCfg) ~> (height >= h)

(* In catch-up mode a running plugin has every block from where its last   *)
(* start moved the index to, up to its index height.                       *)
IndexedSinceStart ==
    plugin = "running" => (from + 1) .. index \subseteq indexed

(* With catchUpStartHeight set, the blocks of a plugin are one stretch that *)
(* begins there and reaches at least to the index, wherever starts that     *)
(* failed, reloads and crashes have moved the index back to: no restart     *)
(* leaves a hole.  (Without it a start moves the index to the DAO's height  *)
(* and skips what is between.)                                              *)
NoHoleFromStart ==
    startCfg > 0 =>
        \E m \in (startCfg - 1) .. MaxHeight :
            indexed = startCfg .. m /\ index <= m

(* In catch-up mode a running plugin keeps up with the chain, wherever     *)
(* restarts have moved its index, if it replaces rows or has none above    *)
(* its index.                                                              *)
CatchUpKeepsUp ==
    \A h \in Heights :
        (/\ plugin = "running" /\ chain >= h
         /\ upsert \/ \A g \in indexed : g <= index)
            ~> (plugin # "running" \/ index >= h)
=============================================================================

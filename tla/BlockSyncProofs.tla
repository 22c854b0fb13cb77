---------------------------- MODULE BlockSyncProofs ----------------------------
(***************************************************************************)
(* Proofs about BlockSync for every batch size, chain length and set of    *)
(* configured start heights, under every fault: short and late answers,    *)
(* failed passes, reloads and crashes.                                     *)
(*                                                                         *)
(* That the height of a DAO does not move back is not inductive: it holds  *)
(* because a pass only ever puts blocks above the height it began with,    *)
(* and because a remote store is never behind the DAO in front of it.  Nor *)
(* is that a plugin's blocks are one stretch: a running plugin must not be *)
(* below the configured start.                                             *)
(***************************************************************************)
EXTENDS BlockSync, TLAPS

(* The heights that are read are heights of the chain. *)
ChainInv ==
    /\ remote <= chain
    /\ height <= chain
    /\ tip <= chain
    /\ kind = "grpc" => height <= remote

(* A pass works above the DAO's height, up to its tip.  Block 0, which it  *)
(* asks for when the chain is empty, is never answered.                    *)
PassInv ==
    /\ pc = "loop" => start > height \/ (start = 0 /\ height = 0)
    /\ pc = "put" =>
          /\ count >= 1
          /\ start + count <= tip + 1
          /\ at + left <= start + count
          /\ at > height \/ (at = 0 /\ left = 0 /\ height = 0)
    /\ pc # "put" => at = 0 /\ left = 0

(* A plugin that runs is at the configured start or past it. *)
StartInv ==
    /\ plugin = "running" /\ startCfg > 0 => startCfg <= index + 1
    /\ NoHoleFromStart

IInv == TypeOK /\ ChainInv /\ PassInv /\ StartInv

-----------------------------------------------------------------------------
LEMMA ConstantFacts ==
    /\ BatchSize \in Nat /\ BatchSize >= 1
    /\ MaxHeight \in Nat
    /\ StartHeights \subseteq 0 .. MaxHeight
    /\ 0 \in StartHeights
  BY SyncAssumption

LEMMA IInvInit == Init => IInv
  <1> SUFFICES ASSUME Init PROVE IInv
    OBVIOUS
  <1>1. TypeOK
    <2>1. startCfg \in StartHeights
      BY ConstantFacts DEF Init
    <2>2. upsert \in BOOLEAN
      BY DEF Init
    <2> QED
      BY <2>1, <2>2, ConstantFacts DEF Init, TypeOK, Heights
  <1>2. ChainInv /\ PassInv
    BY DEF Init, ChainInv, PassInv
  <1>3. StartInv
    <2>1. plugin = "loaded" /\ index = 0 /\ indexed = {}
      BY DEF Init
    <2>2. ASSUME startCfg > 0
          PROVE  \E m \in (startCfg - 1) .. MaxHeight : indexed = startCfg .. m /\ index <= m
      <3>1. startCfg \in 1 .. MaxHeight
        BY <1>1, <2>2, ConstantFacts DEF TypeOK
      <3>2. startCfg .. (startCfg - 1) = {} /\ startCfg - 1 \in (startCfg - 1) .. MaxHeight
        BY <3>1, ConstantFacts
      <3> QED
        BY <2>1, <3>1, <3>2
    <2> QED
      BY <2>1, <2>2 DEF StartInv, NoHoleFromStart
  <1> QED
    BY <1>1, <1>2, <1>3 DEF IInv

(* A request is cut at the tip and is for one block at least. *)
Cut == AtMost(BatchSize, tip - start + 1)

LEMMA RequestCut ==
    ASSUME TypeOK, start <= tip
    PROVE  /\ Cut \in Nat /\ Cut >= 1 /\ Cut <= BatchSize
           /\ start + Cut <= tip + 1
  BY ConstantFacts DEF TypeOK, Cut, AtMost

(* A DAO accepts only what raises its height, and nothing a remote store   *)
(* does not have.                                                          *)
LEMMA PutRaises ==
    ASSUME TypeOK, ChainInv, PassInv, Put
    PROVE  /\ height' = at /\ height < at
           /\ at \in Heights
           /\ at <= tip
           /\ kind = "grpc" => at <= remote
           /\ kind = "file" => at = height + 1
  <1>1. at \in Nat /\ left \in Nat /\ left > 0 /\ height \in Nat
    BY DEF TypeOK, Put
  <1>2. at > height
    BY <1>1 DEF PassInv, Put
  <1>3. at + left <= tip + 1
    BY <1>1 DEF PassInv, Put, TypeOK
  <1>4. tip \in 0 .. MaxHeight
    BY DEF TypeOK
  <1>5. at <= tip /\ at \in Heights
    BY <1>1, <1>2, <1>3, <1>4, ConstantFacts DEF Heights
  <1> QED
    BY <1>1, <1>2, <1>5 DEF Put, Accepts, TypeOK

(* Where runner.Start puts the index height is a height. *)
LEMMA StartIndexTyped ==
    ASSUME TypeOK
    PROVE  StartIndex \in 0 .. MaxHeight /\ Migrated \subseteq Heights
  BY ConstantFacts DEF TypeOK, StartIndex, Migrated

(* A start leaves one stretch from the configured start, wherever it       *)
(* leaves the index: AutoMigrate empties the tables only at height 0, and  *)
(* no stretch ends below startCfg - 1.                                     *)
LEMMA MovedIndex ==
    ASSUME TypeOK, StartInv, startCfg > 0
    PROVE  /\ StartIndex = startCfg - 1
           /\ startCfg <= StartIndex + 1
           /\ \E m \in (startCfg - 1) .. MaxHeight :
                 Migrated = startCfg .. m /\ index <= m /\ StartIndex <= m
  <1>1. startCfg \in 1 .. MaxHeight /\ index \in 0 .. MaxHeight
    BY ConstantFacts DEF TypeOK
  <1>2. StartIndex = startCfg - 1 /\ startCfg <= StartIndex + 1
    BY <1>1 DEF StartIndex
  <1>3. CASE index = 0
    <2>1. startCfg .. (startCfg - 1) = {} /\ startCfg - 1 \in (startCfg - 1) .. MaxHeight
      BY <1>1, ConstantFacts
    <2>2. Migrated = {} /\ index <= startCfg - 1 /\ StartIndex <= startCfg - 1
      BY <1>1, <1>2, <1>3 DEF Migrated
    <2> QED
      BY <1>2, <2>1, <2>2
  <1>4. CASE index # 0
    BY <1>1, <1>2, <1>4 DEF Migrated, StartInv, NoHoleFromStart
  <1> QED
    BY <1>2, <1>3, <1>4

-----------------------------------------------------------------------------
(* Steps of the chain, of the remote store and of the environment. *)
LEMMA OutsideStep ==
    ASSUME IInv, NewBlock \/ RemoteFollows \/ Calm
    PROVE  IInv'
  <1>1. CASE NewBlock
    BY <1>1, ConstantFacts DEF NewBlock, IInv, TypeOK, ChainInv, PassInv, StartInv,
       NoHoleFromStart, workerVars, pluginVars
  <1>2. CASE RemoteFollows
    BY <1>2, ConstantFacts DEF RemoteFollows, IInv, TypeOK, ChainInv, PassInv, StartInv,
       NoHoleFromStart, workerVars, pluginVars
  <1>3. CASE Calm
    BY <1>3 DEF Calm, IInv, TypeOK, ChainInv, PassInv, StartInv,
       NoHoleFromStart, workerVars, pluginVars
  <1> QED
    BY <1>1, <1>2, <1>3

(* A pass that is over leaves no locals behind. *)
LEMMA ReturnStep ==
    ASSUME IInv, Return,
           UNCHANGED <<kind, startCfg, chain, remote, height, pluginVars, failing>>
    PROVE  IInv'
  <1>1. TypeOK'
    BY ConstantFacts DEF Return, IInv, TypeOK, pluginVars
  <1>2. ChainInv' /\ PassInv'
    BY DEF Return, IInv, TypeOK, ChainInv, PassInv, pluginVars
  <1>3. StartInv'
    BY DEF IInv, StartInv, NoHoleFromStart, pluginVars
  <1> QED
    BY <1>1, <1>2, <1>3 DEF IInv

(* Steps of the worker. *)
LEMMA WorkerStep ==
    ASSUME IInv, Worker \/ PassFail
    PROVE  IInv'
  <1> USE DEF pluginVars
  <1>1. CASE BeginPass
    <2>1. PICK t \in 0 .. chain : tip' = t
      BY <1>1 DEF BeginPass, IInv, TypeOK
    <2>2. PICK s \in Nat : start' = s /\ (s > height \/ (s = 0 /\ height = 0))
      BY <1>1, <2>1, ConstantFacts DEF BeginPass, IInv, TypeOK
    <2>3. t \in 0 .. MaxHeight
      <3>1. chain \in 0 .. MaxHeight
        BY DEF IInv, TypeOK
      <3> QED
        BY <3>1, ConstantFacts
    <2>4. TypeOK'
      BY <1>1, <2>1, <2>2, <2>3 DEF BeginPass, IInv, TypeOK
    <2>5. ChainInv' /\ PassInv'
      BY <1>1, <2>1, <2>2 DEF BeginPass, IInv, TypeOK, ChainInv, PassInv
    <2>6. StartInv'
      BY <1>1 DEF BeginPass, IInv, StartInv, NoHoleFromStart
    <2> QED
      BY <2>4, <2>5, <2>6 DEF IInv
  <1>2. CASE Request
    <2>1. /\ Cut \in Nat /\ Cut >= 1 /\ Cut <= BatchSize
          /\ start + Cut <= tip + 1
      BY <1>2, RequestCut DEF Request, IInv
    <2>2. PICK l \in 0 .. Cut : left' = l /\ (start = 0 => l = 0)
      BY <1>2, <2>1 DEF Request, Cut
    <2>3. start \in Nat /\ start + l <= MaxHeight + 1 /\ l \in 0 .. BatchSize
      BY <2>1, <2>2, ConstantFacts DEF IInv, TypeOK
    <2>4. at' = start /\ count' = Cut /\ pc = "loop"
      BY <1>2 DEF Request, Cut
    <2>5. TypeOK'
      BY <1>2, <2>1, <2>2, <2>3, <2>4, ConstantFacts DEF Request, IInv, TypeOK
    <2>6. ChainInv' /\ PassInv'
      BY <1>2, <2>1, <2>2, <2>3, <2>4 DEF Request, IInv, ChainInv, PassInv, TypeOK
    <2>7. StartInv'
      BY <1>2 DEF Request, IInv, StartInv, NoHoleFromStart
    <2> QED
      BY <2>5, <2>6, <2>7 DEF IInv
  <1>3. CASE Put
    <2>1. /\ height' = at /\ height < at
          /\ at \in Heights
          /\ at <= tip
          /\ kind = "grpc" => at <= remote
          /\ kind = "file" => at = height + 1
      BY <1>3, PutRaises DEF IInv
    <2>2. TypeOK'
      BY <1>3, <2>1, ConstantFacts DEF Put, IInv, TypeOK, Heights
    <2>3. ChainInv' /\ PassInv'
      BY <1>3, <2>1, ConstantFacts DEF Put, IInv, TypeOK, ChainInv, PassInv, Heights
    <2>4. StartInv'
      BY <1>3 DEF Put, IInv, StartInv, NoHoleFromStart
    <2> QED
      BY <2>2, <2>3, <2>4 DEF IInv
  <1>4. CASE PutRefused
    BY <1>4, ReturnStep DEF PutRefused
  <1>5. CASE NextBatch
    <2>1. start' = start + count /\ start' \in Nat /\ at' = 0 /\ count' = 0
      BY <1>5 DEF NextBatch, IInv, TypeOK
    <2>2. start' > height
      BY <1>5, <2>1 DEF NextBatch, IInv, TypeOK, PassInv
    <2>3. TypeOK'
      BY <1>5, <2>1, ConstantFacts DEF NextBatch, IInv, TypeOK
    <2>4. ChainInv' /\ PassInv'
      BY <1>5, <2>1, <2>2 DEF NextBatch, IInv, ChainInv, PassInv
    <2>5. StartInv'
      BY <1>5 DEF NextBatch, IInv, StartInv, NoHoleFromStart
    <2> QED
      BY <2>3, <2>4, <2>5 DEF IInv
  <1>6. CASE EndPass
    BY <1>6, ReturnStep DEF EndPass
  <1>7. CASE PassFail
    BY <1>7, ReturnStep DEF PassFail
  <1> QED
    BY <1>1, <1>2, <1>3, <1>4, <1>5, <1>6, <1>7 DEF Worker

(* Steps of the plugin's runner. *)
LEMMA PluginStep ==
    ASSUME IInv, StartPlugin \/ StartPluginFail \/ IndexBlock \/ Reload
    PROVE  IInv'
  <1> USE DEF workerVars
  <1>1. StartIndex \in 0 .. MaxHeight /\ Migrated \subseteq Heights
    BY StartIndexTyped DEF IInv
  <1>2. UNCHANGED <<kind, chain, remote, height, pc, tip, start, count, at, left>>
    BY DEF StartPlugin, StartPluginFail, IndexBlock, Reload
  <1>3. ChainInv' /\ PassInv'
    BY <1>2 DEF IInv, ChainInv, PassInv
  <1>4. CASE StartPlugin
    <2>1. TypeOK'
      BY <1>1, <1>4 DEF StartPlugin, IInv, TypeOK
    <2>2. StartInv'
      BY <1>1, <1>4, MovedIndex DEF StartPlugin, StartInv, NoHoleFromStart, StartIndex, IInv
    <2> QED
      BY <1>3, <2>1, <2>2 DEF IInv
  <1>5. CASE StartPluginFail
    <2>1. index' \in {index, StartIndex}
      BY <1>5 DEF StartPluginFail
    <2>2. TypeOK'
      BY <1>1, <1>5, <2>1 DEF StartPluginFail, IInv, TypeOK
    <2>3. StartInv'
      BY <1>5, <2>1, MovedIndex DEF StartPluginFail, StartInv, NoHoleFromStart, IInv
    <2> QED
      BY <1>3, <2>2, <2>3 DEF IInv
  <1>6. CASE IndexBlock
    <2>1. index' = index + 1 /\ indexed' = indexed \cup {index + 1}
      BY <1>6 DEF IndexBlock
    <2>2. index + 1 \in Heights /\ index + 1 \in 0 .. MaxHeight /\ index \in Nat
      BY <1>6, ConstantFacts DEF IndexBlock, IInv, TypeOK, Heights
    <2>3. TypeOK'
      BY <1>6, <2>1, <2>2 DEF IndexBlock, IInv, TypeOK
    <2>4. StartInv'
      <3>1. SUFFICES ASSUME startCfg > 0
                     PROVE  /\ startCfg <= index + 2
                            /\ \E m \in (startCfg - 1) .. MaxHeight :
                                  indexed' = startCfg .. m /\ index + 1 <= m
        BY <1>6, <2>1, <2>2 DEF IndexBlock, StartInv, NoHoleFromStart, IInv, TypeOK
      <3>2. startCfg <= index + 1 /\ startCfg \in Nat
        BY <1>6, <3>1, ConstantFacts DEF IndexBlock, IInv, StartInv, TypeOK
      <3>3. PICK m \in (startCfg - 1) .. MaxHeight :
                indexed = startCfg .. m /\ index <= m
        BY <3>1 DEF IInv, StartInv, NoHoleFromStart
      <3>4. CASE index < m
        <4>1. indexed' = startCfg .. m /\ index + 1 <= m
          BY <2>1, <2>2, <3>2, <3>3, <3>4
        <4> QED
          BY <2>2, <3>2, <4>1
      <3>5. CASE index = m
        <4>1. startCfg .. m \cup {m + 1} = startCfg .. (m + 1)
          BY <2>2, <3>2, <3>5
        <4>2. indexed' = startCfg .. (m + 1) /\ m + 1 \in (startCfg - 1) .. MaxHeight
          BY <2>1, <2>2, <3>2, <3>3, <3>5, <4>1, ConstantFacts
        <4> QED
          BY <2>2, <3>2, <3>5, <4>2
      <3> QED
        BY <2>2, <3>2, <3>3, <3>4, <3>5
    <2> QED
      BY <1>3, <2>3, <2>4 DEF IInv
  <1>7. CASE Reload
    <2>1. TypeOK'
      BY <1>7 DEF Reload, IInv, TypeOK
    <2>2. StartInv'
      BY <1>7 DEF Reload, IInv, StartInv, NoHoleFromStart
    <2> QED
      BY <1>3, <2>1, <2>2 DEF IInv
  <1> QED
    BY <1>4, <1>5, <1>6, <1>7

(* The process dies: a memory DAO is lost, the others keep their height or *)
(* have the remote store's.                                                *)
LEMMA CrashStep ==
    ASSUME IInv, Crash
    PROVE  IInv'
  <1>1. height' \in {height, remote, 0} /\ (kind = "file" => height' = height)
        /\ (kind = "grpc" => height' = remote)
    BY DEF Crash, IInv, TypeOK
  <1>2. TypeOK'
    BY <1>1, ConstantFacts DEF Crash, Return, IInv, TypeOK
  <1>3. ChainInv' /\ PassInv'
    BY <1>1 DEF Crash, Return, IInv, TypeOK, ChainInv, PassInv
  <1>4. StartInv'
    BY <1>1 DEF Crash, IInv, StartInv, NoHoleFromStart
  <1> QED
    BY <1>2, <1>3, <1>4 DEF IInv

LEMMA IInvStep == IInv /\ [Next]_vars => IInv'
  <1> SUFFICES ASSUME IInv, [Next]_vars PROVE IInv'
    OBVIOUS
  <1>1. CASE UNCHANGED vars
    <2>1. TypeOK'
      BY <1>1 DEF vars, workerVars, pluginVars, IInv, TypeOK
    <2>2. ChainInv' /\ PassInv'
      BY <1>1 DEF vars, workerVars, pluginVars, IInv, ChainInv, PassInv
    <2>3. StartInv'
      BY <1>1 DEF vars, workerVars, pluginVars, IInv, StartInv, NoHoleFromStart
    <2> QED
      BY <2>1, <2>2, <2>3 DEF IInv
  <1> QED
    BY <1>1, OutsideStep, WorkerStep, PluginStep, CrashStep DEF Next

LEMMA Inductive == Spec => []IInv
  BY IInvInit, IInvStep, PTL DEF Spec

-----------------------------------------------------------------------------
(* The state of the worker and of the plugin keeps its types: no height    *)
(* goes past the chain's bound, whatever the configured start.             *)
THEOREM TypeCorrect == Spec => []TypeOK
  <1>1. IInv => TypeOK
    BY DEF IInv
  <1> QED
    BY <1>1, Inductive, PTL

(* With catchUpStartHeight set, the tables of a plugin hold one stretch of  *)
(* blocks that begins there and reaches at least to its index, through any  *)
(* number of failed starts, reloads and crashes: moving the index at every  *)
(* start, and AutoMigrate's drop at height 0, never leave a hole            *)
(* (server/runner.go:160-185).                                              *)
THEOREM NoHoleFromStartAlways == Spec => []NoHoleFromStart
  <1>1. IInv => NoHoleFromStart
    BY DEF IInv, StartInv
  <1> QED
    BY <1>1, Inductive, PTL

(* The height of a DAO only ever rises, although the node may lag behind   *)
(* it; only a memory DAO that is lost with its process starts over.        *)
THEOREM DaoMonotoneAlways == Spec => DaoMonotone
  <1>1. ASSUME IInv, [Next]_vars, height' < height
        PROVE  kind = "memory" /\ height' = 0
    <2>1. height \in Nat /\ kind \in {"file", "grpc", "memory"}
      BY <1>1 DEF IInv, TypeOK
    <2>2. CASE Put
      <3>1. height' = at /\ height < at /\ at \in Nat
        BY <1>1, <2>2, PutRaises DEF IInv, TypeOK
      <3> QED
        BY <1>1, <2>1, <3>1
    <2>3. CASE Crash
      <3>1. kind = "grpc" => height' = remote /\ height <= remote /\ remote \in Nat
        BY <1>1, <2>3 DEF Crash, IInv, ChainInv, TypeOK
      <3>2. kind = "file" => height' = height
        BY <2>3 DEF Crash
      <3>3. kind # "grpc" /\ kind # "file"
        BY <1>1, <2>1, <3>1, <3>2
      <3> QED
        BY <2>1, <2>3, <3>3 DEF Crash
    <2>4. CASE ~Put /\ ~Crash
      <3>1. height' = height
        BY <1>1, <2>4 DEF Next, Worker, vars, NewBlock, RemoteFollows, Calm,
           BeginPass, Request, PassFail, PutRefused, NextBatch, EndPass, StartPlugin,
           StartPluginFail, IndexBlock, Reload
      <3> QED
        BY <1>1, <2>1, <3>1
    <2> QED
      BY <2>2, <2>3, <2>4
  <1>2. IInv /\ [Next]_vars => [height' < height => kind = "memory" /\ height' = 0]_vars
    BY <1>1
  <1> QED
    BY <1>2, Inductive, PTL DEF Spec, DaoMonotone
=============================================================================

----------------------------- MODULE RunnerProofs -----------------------------
(***************************************************************************)
(* Proofs about Runner for every set of plugins and every chain length.    *)
(*                                                                         *)
(* LossAccountedAlways is for every set of faults.  The other safety       *)
(* theorems are for runs in which no foreign read of the index is          *)
(* suspended across the owner's update, and in which a plugin whose        *)
(* putBlock can fail does not write deltas; Orderly says so.  Every other  *)
(* fault is allowed.                                                       *)
(***************************************************************************)
EXTENDS Runner, TLAPS

Orderly ==
    /\ "slowread" \notin Faults
    /\ "put" \in Faults => \A p \in FailingPlugins : Write[p] # "delta"

-----------------------------------------------------------------------------
(* The inductive invariant, per plugin. *)

(* The cache is ahead of the row and behind the DAO; the row exists once   *)
(* the plugin has started.                                                 *)
IndexInv(p) ==
    /\ filling[p] = {}
    /\ cache[p] # NoHeight => /\ row[p] # NoHeight
                              /\ row[p] <= cache[p]
                              /\ cache[p] <= dao
    /\ row[p] # NoHeight => row[p] <= dao
    /\ pc[p] # "down" => row[p] # NoHeight

(* Where the runner's locals stand with respect to the cached height. *)
LocalInv(p) ==
    /\ pc[p] \in {"next", "loop", "put", "commit"} => tip[p] <= dao
    /\ pc[p] \in {"loop", "put"} => cache[p] # NoHeight /\ next[p] = cache[p] + 1
    /\ pc[p] \in {"put", "commit"} =>
          /\ CommittedHeight(p) < next[p]
          /\ next[p] <= last[p]
          /\ last[p] <= tip[p]
    /\ pc[p] = "put" => next[p] <= at[p] /\ at[p] <= last[p] + 1
    /\ pc[p] = "commit" => cache[p] = last[p]

(* A clean buffer holds the blocks put so far, once each. *)
CleanBuf(p) ==
    \A h \in Heights : buf[p][h] = IF next[p] <= h /\ h < at[p] THEN 1 ELSE 0

(* A buffer left dirty by a failed putBlock holds the block that will be   *)
(* put first again, so the next INSERT has it twice and is refused.        *)
DirtyBuf(p) ==
    /\ Write[p] # "delta"
    /\ at[p] = next[p] => buf[p][next[p]] > 0
    /\ at[p] > next[p] => buf[p][next[p]] = 2

BufInv(p) ==
    /\ pc[p] = "put" => CleanBuf(p) \/ DirtyBuf(p)
    /\ pc[p] = "commit" => buf[p] = NoEffects
    /\ pc[p] \notin {"put", "commit"} =>
          \/ buf[p] = NoEffects
          \/ /\ Write[p] # "delta"
             /\ cache[p] # NoHeight
             /\ cache[p] < dao
             /\ buf[p][cache[p] + 1] > 0

TxInv(p) ==
    pc[p] = "commit" =>
        \A h \in Heights :
            tx[p][h] = IF next[p] <= h /\ h <= last[p] THEN 1 ELSE 0

(* Heights between the row and the cache were passed over, unless their    *)
(* transaction is the open one.                                            *)
LostInv(p) ==
    /\ cache[p] # NoHeight =>
          \A h \in Heights :
              CommittedHeight(p) < h /\ h <= cache[p] =>
                  \/ h \in lost[p]
                  \/ pc[p] = "commit" /\ next[p] <= h
    /\ "commit" \notin Faults => lost[p] = {}

TableInv(p) ==
    \A h \in Heights :
        /\ h > CommittedHeight(p) => table[p][h] = 0
        /\ h <= CommittedHeight(p) => table[p][h] = 1 \/ h \in lost[p]
        /\ table[p][h] <= 1

DepInv(p) ==
    pc[p] \in {"next", "loop", "put", "commit"} =>
        \A d \in Deps[p] : tip[p] = 0 \/ (cache[d] # NoHeight /\ tip[p] <= cache[d])

PluginInv(p) ==
    /\ IndexInv(p)
    /\ LocalInv(p)
    /\ BufInv(p)
    /\ TxInv(p)
    /\ LostInv(p)
    /\ TableInv(p)
    /\ DepInv(p)

IInv == \A p \in Plugins : PluginInv(p)

-----------------------------------------------------------------------------
(* What the operators on effects return. *)

(* Buffers and tables hold nothing, one, or more of each block's effect,   *)
(* whatever putBlock, an INSERT or an upsert does to them.                 *)
LEMMA EffectsType ==
    ASSUME NEW a \in Effects, NEW b \in Effects, NEW p, NEW g
    PROVE  /\ NoEffects \in Effects
           /\ Once(g) \in Effects
           /\ Merge(a, b) \in Effects
           /\ Written(p, a, b) \in Effects
  BY DEF Effects, NoEffects, Once, Merge, Twice, Written, Replace

(* The height GetIndexHeight returns is a height of the chain. *)
LEMMA HeightOfType ==
    ASSUME TypeOK, NEW p \in Plugins
    PROVE  /\ IndexHeightOf(p) \in 0 .. MaxHeight
           /\ CommittedHeight(p) \in 0 .. MaxHeight
  BY RunnerAssumption DEF TypeOK, IndexTypeOK, IndexHeightOf, CommittedHeight

LEMMA TypeInit == Init => TypeOK
  <1> SUFFICES ASSUME Init PROVE TypeOK
    OBVIOUS
  <1>1. NoEffects \in Effects
    BY DEF NoEffects, Effects
  <1> QED
    BY <1>1, RunnerAssumption DEF Init, IndexInit, TypeOK, IndexTypeOK, Heights

LEMMA TypeStep == TypeOK /\ [Next]_vars => TypeOK'
  <1> SUFFICES ASSUME TypeOK, [Next]_vars PROVE TypeOK'
    OBVIOUS
  <1> USE RunnerAssumption
  <1>a. NoEffects \in Effects
    BY DEF NoEffects, Effects
  <1>b. \A p \in Plugins : IndexHeightOf(p) \in 0 .. MaxHeight
    BY HeightOfType
  <1>1. CASE NewBlock
    BY <1>1 DEF NewBlock, TypeOK, IndexTypeOK, indexVars, pluginVars
  <1>2. CASE Calm
    BY <1>2 DEF Calm, TypeOK, IndexTypeOK, indexVars, pluginVars
  <1>3. CASE Crash
    BY <1>3, <1>a DEF Crash, ForgetIndex, TypeOK, IndexTypeOK
  <1>4. ASSUME NEW p \in Plugins, Start(p) PROVE TypeOK'
    <2>1. row[p] # NoHeight => 1 .. row[p] \subseteq 0 .. MaxHeight
      BY DEF TypeOK, IndexTypeOK
    <2>2. lost' \in [Plugins -> SUBSET (0 .. MaxHeight)]
      BY <1>4, <2>1 DEF Start, TypeOK
    <2>3. /\ row' \in [Plugins -> (0 .. MaxHeight) \cup {NoHeight}]
          /\ cache' \in [Plugins -> (0 .. MaxHeight) \cup {NoHeight}]
      BY <1>4 DEF Start, GetIndexHeight, TypeOK, IndexTypeOK
    <2> QED
      BY <1>4, <1>a, <2>2, <2>3 DEF Start, Goto, TypeOK, IndexTypeOK
  <1>5. ASSUME NEW p \in Plugins, GetTipHeight(p) PROVE TypeOK'
    <2>1. TipBounds(p) \subseteq 0 .. MaxHeight
      BY <1>b DEF TipBounds, TypeOK
    <2>2. tip' \in [Plugins -> 0 .. MaxHeight]
      BY <1>5, <2>1 DEF GetTipHeight, TypeOK
    <2> QED
      BY <1>5, <2>2 DEF GetTipHeight, Goto, TypeOK, IndexTypeOK
  <1>6. ASSUME NEW p \in Plugins, NextHeight(p) PROVE TypeOK'
    BY <1>6, <1>b DEF NextHeight, GetIndexHeight, Goto, TypeOK, IndexTypeOK
  <1>7. ASSUME NEW p \in Plugins, ReadFail(p) PROVE TypeOK'
    BY <1>7 DEF ReadFail, Goto, TypeOK, IndexTypeOK, indexVars
  <1>8. ASSUME NEW p \in Plugins, Fetch(p) PROVE TypeOK'
    BY <1>8 DEF Fetch, Goto, TypeOK, IndexTypeOK, indexVars
  <1>9. ASSUME NEW p \in Plugins, LoopEnd(p) PROVE TypeOK'
    BY <1>9 DEF LoopEnd, Goto, TypeOK, IndexTypeOK, indexVars
  <1>10. ASSUME NEW p \in Plugins, PutOne(p) PROVE TypeOK'
    <2>0. buf[p] \in Effects /\ Once(at[p]) \in Effects
      BY DEF TypeOK, Effects, Once
    <2>1. Merge(buf[p], Once(at[p])) \in Effects
      BY <2>0, EffectsType
    <2> QED
      BY <1>10, <2>1 DEF PutOne, Goto, TypeOK, IndexTypeOK, indexVars
  <1>11. ASSUME NEW p \in Plugins, PutFail(p) PROVE TypeOK'
    BY <1>11 DEF PutFail, Goto, TypeOK, IndexTypeOK, indexVars
  <1>12. ASSUME NEW p \in Plugins, InsertFail(p) PROVE TypeOK'
    BY <1>12, <1>a DEF InsertFail, Goto, TypeOK, IndexTypeOK, indexVars
  <1>13. ASSUME NEW p \in Plugins, Insert(p) PROVE TypeOK'
    BY <1>13, <1>a DEF Insert, CacheIndexHeight, Goto, TypeOK, IndexTypeOK
  <1>14. ASSUME NEW p \in Plugins, Committed(p)
         PROVE  /\ table' \in [Plugins -> Effects]
                /\ row' \in [Plugins -> (0 .. MaxHeight) \cup {NoHeight}]
                /\ tx' \in [Plugins -> Effects]
    <2>1. Written(p, table[p], tx[p]) \in Effects
      BY EffectsType DEF TypeOK
    <2> QED
      BY <1>14, <2>1, <1>a DEF Committed, CommitIndexHeight, TypeOK, IndexTypeOK
  <1>15. ASSUME NEW p \in Plugins, Commit(p) PROVE TypeOK'
    <2>1. Committed(p)
      BY <1>15 DEF Commit
    <2> QED
      BY <1>15, <2>1, <1>14 DEF Commit, Goto, TypeOK, IndexTypeOK
  <1>16. ASSUME NEW p \in Plugins, CommitLostAck(p) PROVE TypeOK'
    <2>1. Committed(p)
      BY <1>16 DEF CommitLostAck
    <2> QED
      BY <1>16, <2>1, <1>14 DEF CommitLostAck, Goto, TypeOK, IndexTypeOK
  <1>17. ASSUME NEW p \in Plugins, CommitFail(p) PROVE TypeOK'
    BY <1>17, <1>a DEF CommitFail, Goto, TypeOK, IndexTypeOK, indexVars
  <1>18. ASSUME NEW p \in Plugins, Stop(p) PROVE TypeOK'
    BY <1>18 DEF Stop, TypeOK, IndexTypeOK, indexVars
  <1>19. ASSUME NEW p \in Plugins, Exit(p) PROVE TypeOK'
    BY <1>19 DEF Exit, Goto, TypeOK, IndexTypeOK, indexVars
  <1>20. ASSUME NEW p \in Plugins, Info(p) PROVE TypeOK'
    BY <1>20 DEF Info, ReadCreate, ReadThrough, ReadMiss, TypeOK, IndexTypeOK, pluginVars
  <1>21. ASSUME NEW p \in Plugins, InfoStore(p) PROVE TypeOK'
    BY <1>21 DEF InfoStore, ReadStore, TypeOK, IndexTypeOK, pluginVars
  <1>22. CASE UNCHANGED vars
    BY <1>22 DEF vars, indexVars, pluginVars, TypeOK, IndexTypeOK
  <1> QED
    BY <1>1, <1>2, <1>3, <1>4, <1>5, <1>6, <1>7, <1>8, <1>9, <1>10, <1>11, <1>12,
       <1>13, <1>15, <1>16, <1>17, <1>18, <1>19, <1>20, <1>21, <1>22
       DEF Next, Work, Fail

(* Every reachable state has its type: in particular no fault makes the    *)
(* runner pass the end of the chain.                                       *)
THEOREM TypeCorrect == Spec => []TypeOK
  BY TypeInit, TypeStep, PTL DEF Spec

-----------------------------------------------------------------------------
(* IInv is inductive. *)

(* Cached heights are only ever raised while the process lives. *)
CacheGrows ==
    \A d \in Plugins :
        cache[d] # NoHeight => cache'[d] # NoHeight /\ cache[d] <= cache'[d]

(* A step that leaves q's part of the state alone keeps q's invariant, if  *)
(* the DAO and the cached heights only grow.                               *)
SameFor(q) ==
    /\ row'[q] = row[q] /\ cache'[q] = cache[q] /\ filling'[q] = filling[q]
    /\ table'[q] = table[q] /\ buf'[q] = buf[q] /\ tx'[q] = tx[q]
    /\ pc'[q] = pc[q] /\ tip'[q] = tip[q] /\ next'[q] = next[q]
    /\ last'[q] = last[q] /\ at'[q] = at[q] /\ lost'[q] = lost[q]

LEMMA Frame ==
    ASSUME TypeOK, TypeOK', NEW q \in Plugins, PluginInv(q), SameFor(q),
           dao <= dao', CacheGrows
    PROVE  PluginInv(q)'
  <1> USE RunnerAssumption, NoHeightAssumption
  <1>1. dao \in Nat /\ dao' \in Nat
    BY DEF TypeOK
  <1>2. IndexInv(q)'
    BY <1>1 DEF PluginInv, IndexInv, SameFor, TypeOK, IndexTypeOK
  <1>3. LocalInv(q)'
    BY <1>1 DEF PluginInv, LocalInv, SameFor, TypeOK, IndexTypeOK, CommittedHeight
  <1>4. BufInv(q)'
    BY <1>1 DEF PluginInv, BufInv, CleanBuf, DirtyBuf, SameFor, TypeOK, IndexTypeOK
  <1>5. TxInv(q)' /\ LostInv(q)' /\ TableInv(q)'
    BY DEF PluginInv, TxInv, LostInv, TableInv, SameFor, CommittedHeight
  <1>6. DepInv(q)'
    BY DEF PluginInv, DepInv, SameFor, CacheGrows, TypeOK, IndexTypeOK
  <1> QED
    BY <1>2, <1>3, <1>4, <1>5, <1>6 DEF PluginInv

(* So only the plugin that took the step has to be looked at. *)
LEMMA OthersKept ==
    ASSUME TypeOK, TypeOK', IInv, NEW p \in Plugins,
           \A q \in Plugins \ {p} : SameFor(q), dao <= dao', CacheGrows,
           PluginInv(p)'
    PROVE  IInv'
  BY Frame DEF IInv

(* Steps that only move the program counter out of the batch, or to the    *)
(* start of one.                                                           *)
LEMMA ControlStep ==
    ASSUME TypeOK, TypeOK', IInv, NEW p \in Plugins,
           ReadFail(p) \/ LoopEnd(p) \/ Stop(p) \/ Exit(p)
    PROVE  IInv'
  <1> USE RunnerAssumption, NoHeightAssumption
  <1>1. \A q \in Plugins \ {p} : SameFor(q)
    BY DEF ReadFail, LoopEnd, Stop, Exit, Goto, SameFor, TypeOK, IndexTypeOK, indexVars
  <1>2. dao <= dao' /\ CacheGrows
    BY DEF ReadFail, LoopEnd, Stop, Exit, CacheGrows, TypeOK, IndexTypeOK, indexVars
  <1>3. PluginInv(p)
    BY DEF IInv
  <1>4. CASE Stop(p)
    <2>1. SameFor(p)
      BY <1>4 DEF Stop, SameFor, indexVars
    <2> QED
      BY <2>1, <1>1, <1>2, <1>3, Frame, OthersKept
  <1>5. CASE ReadFail(p) \/ LoopEnd(p) \/ Exit(p)
    <2>1. /\ pc[p] \in {"next", "loop", "tip"}
          /\ pc'[p] \in {"tip", "down"}
          /\ pc[p] # "down"
          /\ UNCHANGED <<dao, row, cache, filling, table, buf, tx, tip, next, last, at, lost>>
      BY <1>5 DEF ReadFail, LoopEnd, Exit, Goto, TypeOK, indexVars
    <2>2. IndexInv(p)' /\ LocalInv(p)' /\ BufInv(p)' /\ TxInv(p)'
      BY <2>1, <1>3 DEF PluginInv, IndexInv, LocalInv, BufInv, TxInv
    <2>3. LostInv(p)' /\ TableInv(p)' /\ DepInv(p)'
      BY <2>1, <1>3 DEF PluginInv, LostInv, TableInv, DepInv, CommittedHeight
    <2> QED
      BY <2>2, <2>3, <1>1, <1>2, OthersKept DEF PluginInv
  <1> QED
    BY <1>4, <1>5

(* AutoMigrate drops nothing that was committed: the height it reads is 0  *)
(* only when the committed one is.                                         *)
LEMMA DroppedWasEmpty ==
    ASSUME TypeOK, IInv, NEW p \in Plugins, Start(p)
    PROVE  table' = table /\ lost' = lost
  <1> USE RunnerAssumption, NoHeightAssumption
  <1>1. PluginInv(p)
    BY DEF IInv
  <1>2. CASE IndexHeightOf(p) # 0
    BY <1>2 DEF Start, TypeOK
  <1>3. CASE IndexHeightOf(p) = 0
    <2>1. CommittedHeight(p) = 0
      BY <1>3, <1>1 DEF PluginInv, IndexInv, CommittedHeight, IndexHeightOf, TypeOK, IndexTypeOK
    <2>2. \A h \in Heights : table[p][h] = 0
      BY <2>1, <1>1 DEF PluginInv, TableInv, Heights
    <2>3. table[p] = NoEffects
      BY <2>2 DEF TypeOK, Effects, NoEffects
    <2>4. table' = table
      BY <1>3, <2>3 DEF Start, TypeOK
    <2>5. row[p] # NoHeight => 1 .. row[p] = {}
      BY <2>1 DEF CommittedHeight
    <2>6. lost' = lost
      BY <1>3, <2>5 DEF Start, TypeOK
    <2> QED
      BY <2>4, <2>6
  <1> QED
    BY <1>2, <1>3

LEMMA StartStep ==
    ASSUME TypeOK, TypeOK', IInv, NEW p \in Plugins, Start(p)
    PROVE  IInv'
  <1> USE RunnerAssumption, NoHeightAssumption
  <1>1. \A q \in Plugins \ {p} : SameFor(q)
    BY DroppedWasEmpty DEF Start, GetIndexHeight, Goto, SameFor, TypeOK, IndexTypeOK
  <1>2. dao <= dao' /\ CacheGrows
    BY DEF Start, GetIndexHeight, CacheGrows, TypeOK, IndexTypeOK
  <1>3. PluginInv(p)
    BY DEF IInv
  <1>4. /\ pc[p] = "down" /\ pc'[p] = "tip"
        /\ cache'[p] = IF cache[p] # NoHeight THEN cache[p] ELSE row[p]
        /\ row'[p] = IF cache[p] = NoHeight /\ row[p] = NoHeight THEN 0 ELSE row[p]
        /\ UNCHANGED <<dao, filling, buf, tx, tip, next, last, at, lost>>
    BY DroppedWasEmpty DEF Start, GetIndexHeight, Goto, TypeOK, IndexTypeOK
  <1>5. CommittedHeight(p)' = CommittedHeight(p)
    BY <1>4, <1>3 DEF PluginInv, IndexInv, CommittedHeight
  <1>6. table'[p] = table[p]
    BY DroppedWasEmpty
  <1>7. IndexInv(p)'
    BY <1>3, <1>4 DEF PluginInv, IndexInv, TypeOK, IndexTypeOK
  <1>8. LocalInv(p)' /\ BufInv(p)' /\ TxInv(p)'
    BY <1>3, <1>4 DEF PluginInv, LocalInv, BufInv, TxInv
  <1>9. LostInv(p)' /\ TableInv(p)' /\ DepInv(p)'
    BY <1>3, <1>4, <1>5, <1>6 DEF PluginInv, LostInv, TableInv, DepInv, CommittedHeight,
       Heights, TypeOK, IndexTypeOK
  <1> QED
    BY <1>1, <1>2, <1>7, <1>8, <1>9, OthersKept DEF PluginInv

(* getTipHeight caches the heights of the plugins p depends on. *)
LEMMA GetTipStep ==
    ASSUME TypeOK, TypeOK', IInv, NEW p \in Plugins, GetTipHeight(p)
    PROVE  IInv'
  <1> USE RunnerAssumption, NoHeightAssumption
  <1>1. \A q \in Plugins : PluginInv(q)
    BY DEF IInv
  <1>2. dao' = dao /\ dao \in Nat /\ CacheGrows
    BY DEF GetTipHeight, CacheGrows, TypeOK, IndexTypeOK
  <1>3. ASSUME NEW q \in Plugins
        PROVE  /\ UNCHANGED <<filling, table, buf, tx, next, last, at, lost>>
               /\ q # p => pc'[q] = pc[q] /\ tip'[q] = tip[q]
               /\ cache'[q] # cache[q] => cache[q] = NoHeight /\ cache'[q] = row[q]
               /\ row'[q] # row[q] => row[q] = NoHeight /\ row'[q] = 0 /\ cache[q] = NoHeight
                                      /\ cache'[q] = NoHeight
    BY DEF GetTipHeight, Goto, TypeOK, IndexTypeOK
  <1>4. PICK t \in TipBounds(p) : /\ \A u \in TipBounds(p) : t <= u
                                  /\ tip' = [tip EXCEPT ![p] = t]
    BY DEF GetTipHeight
  <1>5. /\ pc[p] = "tip" /\ pc'[p] = "next"
        /\ tip'[p] = t /\ t <= dao
        /\ \A d \in Deps[p] : t <= IndexHeightOf(d)
    <2>1. pc[p] = "tip" /\ pc'[p] = "next"
      BY DEF GetTipHeight, Goto, TypeOK
    <2>2. tip'[p] = t
      BY <1>4 DEF TypeOK
    <2>3. t <= dao /\ \A d \in Deps[p] : t <= IndexHeightOf(d)
      BY <1>4 DEF TipBounds
    <2> QED
      BY <2>1, <2>2, <2>3
  <1>6. \A d \in Deps[p] : t = 0 \/ (cache'[d] # NoHeight /\ t <= cache'[d])
    <2> SUFFICES ASSUME NEW d \in Deps[p]
                 PROVE  t = 0 \/ (cache'[d] # NoHeight /\ t <= cache'[d])
      OBVIOUS
    <2>1. d \in Plugins /\ t \in Nat
      BY <1>5 DEF TypeOK
    <2>2. cache'[d] = IF cache[d] = NoHeight THEN row[d] ELSE cache[d]
      BY <2>1 DEF GetTipHeight
    <2> QED
      BY <2>1, <2>2, <1>5 DEF IndexHeightOf, TypeOK, IndexTypeOK
  <1>7. ASSUME NEW q \in Plugins PROVE PluginInv(q)'
    <2> USE <1>1, <1>2, <1>3
    <2>1. CommittedHeight(q)' = CommittedHeight(q)
      BY DEF CommittedHeight
    <2>2. IndexInv(q)'
      BY <1>5 DEF PluginInv, IndexInv, TypeOK, IndexTypeOK
    <2>3. LocalInv(q)'
      BY <1>5, <2>1 DEF PluginInv, LocalInv, TypeOK, IndexTypeOK
    <2>4. BufInv(q)'
      BY <1>5 DEF PluginInv, BufInv, CleanBuf, DirtyBuf, TypeOK, IndexTypeOK
    <2>5. TxInv(q)' /\ TableInv(q)'
      <3>1. TxInv(q)'
        BY <1>5 DEF PluginInv, TxInv
      <3>2. TableInv(q)'
        BY <2>1 DEF PluginInv, TableInv
      <3> QED
        BY <3>1, <3>2
    <2>6. LostInv(q)'
      BY <1>5, <2>1 DEF PluginInv, LostInv, CommittedHeight, TypeOK, IndexTypeOK, Heights
    <2>7. DepInv(q)'
      BY <1>5, <1>6 DEF PluginInv, DepInv, CacheGrows, TypeOK, IndexTypeOK
    <2> QED
      BY <2>2, <2>3, <2>4, <2>5, <2>6, <2>7 DEF PluginInv
  <1> QED
    BY <1>7 DEF IInv

LEMMA NextHeightStep ==
    ASSUME TypeOK, TypeOK', IInv, NEW p \in Plugins, NextHeight(p)
    PROVE  IInv'
  <1> USE RunnerAssumption, NoHeightAssumption
  <1>1. \A q \in Plugins \ {p} : SameFor(q)
    BY DEF NextHeight, GetIndexHeight, Goto, SameFor, TypeOK, IndexTypeOK
  <1>2. dao <= dao' /\ CacheGrows
    BY DEF NextHeight, GetIndexHeight, CacheGrows, TypeOK, IndexTypeOK
  <1>3. PluginInv(p)
    BY DEF IInv
  <1>4. /\ pc[p] = "next" /\ pc'[p] = "loop"
        /\ cache'[p] = IF cache[p] # NoHeight THEN cache[p] ELSE row[p]
        /\ row[p] # NoHeight
        /\ row'[p] = row[p]
        /\ next'[p] = cache'[p] + 1
        /\ UNCHANGED <<dao, filling, table, buf, tx, tip, last, at, lost>>
    BY <1>3 DEF NextHeight, GetIndexHeight, IndexHeightOf, Goto, TypeOK, IndexTypeOK,
       PluginInv, IndexInv
  <1>5. IndexInv(p)' /\ LocalInv(p)'
    BY <1>3, <1>4 DEF PluginInv, IndexInv, LocalInv, TypeOK, IndexTypeOK
  <1>6. BufInv(p)' /\ TxInv(p)'
    BY <1>3, <1>4 DEF PluginInv, BufInv, TxInv
  <1>7. LostInv(p)' /\ TableInv(p)'
    BY <1>3, <1>4 DEF PluginInv, LostInv, TableInv, CommittedHeight, Heights, TypeOK, IndexTypeOK
  <1>8. DepInv(p)'
    BY <1>2, <1>3, <1>4 DEF PluginInv, DepInv, CacheGrows, TypeOK, IndexTypeOK
  <1> QED
    BY <1>1, <1>2, <1>5, <1>6, <1>7, <1>8, OthersKept DEF PluginInv

LEMMA FetchStep ==
    ASSUME TypeOK, TypeOK', IInv, NEW p \in Plugins, Fetch(p)
    PROVE  IInv'
  <1> USE RunnerAssumption, NoHeightAssumption
  <1>1. \A q \in Plugins \ {p} : SameFor(q)
    BY DEF Fetch, Goto, SameFor, TypeOK, IndexTypeOK, indexVars
  <1>2. dao <= dao' /\ CacheGrows
    BY DEF Fetch, CacheGrows, TypeOK, IndexTypeOK, indexVars
  <1>3. PluginInv(p)
    BY DEF IInv
  <1>4. /\ pc[p] = "loop" /\ pc'[p] = "put"
        /\ next[p] <= tip[p]
        /\ next[p] <= last'[p] /\ last'[p] <= tip[p]
        /\ at'[p] = next[p]
        /\ UNCHANGED <<dao, row, cache, filling, table, buf, tx, tip, next, lost>>
    BY DEF Fetch, Goto, TypeOK, IndexTypeOK, indexVars
  <1>5. IndexInv(p)' /\ LocalInv(p)'
    BY <1>3, <1>4 DEF PluginInv, IndexInv, LocalInv, TypeOK, IndexTypeOK, CommittedHeight
  <1>6. BufInv(p)'
    <2>1. next[p] = cache[p] + 1 /\ cache[p] # NoHeight
      BY <1>3, <1>4 DEF PluginInv, LocalInv
    <2>2. CASE buf[p] = NoEffects
      <3>1. CleanBuf(p)'
        BY <2>2, <1>4 DEF CleanBuf, NoEffects, TypeOK, Heights
      <3> QED
        BY <3>1, <1>4 DEF BufInv
    <2>3. CASE Write[p] # "delta" /\ buf[p][cache[p] + 1] > 0
      <3>1. DirtyBuf(p)'
        BY <2>1, <2>3, <1>4 DEF DirtyBuf, TypeOK
      <3> QED
        BY <3>1, <1>4 DEF BufInv
    <2> QED
      BY <2>2, <2>3, <1>3, <1>4 DEF PluginInv, BufInv
  <1>7. TxInv(p)' /\ LostInv(p)' /\ TableInv(p)' /\ DepInv(p)'
    BY <1>3, <1>4 DEF PluginInv, TxInv, LostInv, TableInv, DepInv, CommittedHeight
  <1> QED
    BY <1>1, <1>2, <1>5, <1>6, <1>7, OthersKept DEF PluginInv

(* putBlock extends a clean buffer and makes the first block of a dirty    *)
(* one a duplicate.                                                        *)
LEMMA PutOneStep ==
    ASSUME TypeOK, TypeOK', IInv, NEW p \in Plugins, PutOne(p)
    PROVE  IInv'
  <1> USE RunnerAssumption, NoHeightAssumption
  <1>1. \A q \in Plugins \ {p} : SameFor(q)
    BY DEF PutOne, SameFor, TypeOK, IndexTypeOK, indexVars
  <1>2. dao <= dao' /\ CacheGrows
    BY DEF PutOne, CacheGrows, TypeOK, IndexTypeOK, indexVars
  <1>3. PluginInv(p)
    BY DEF IInv
  <1>4. /\ pc[p] = "put" /\ at[p] <= last[p]
        /\ buf'[p] = Merge(buf[p], Once(at[p]))
        /\ at'[p] = at[p] + 1
        /\ UNCHANGED <<dao, row, cache, filling, table, tx, pc, tip, next, last, lost>>
    BY DEF PutOne, TypeOK, IndexTypeOK, indexVars
  <1>5. IndexInv(p)' /\ LocalInv(p)'
    BY <1>3, <1>4 DEF PluginInv, IndexInv, LocalInv, TypeOK, IndexTypeOK, CommittedHeight
  <1>6. /\ next[p] \in Heights /\ next[p] <= at[p]
        /\ at[p] \in Heights
        /\ buf[p] \in [Heights -> 0 .. 2]
    BY <1>3, <1>4 DEF PluginInv, LocalInv, TypeOK, IndexTypeOK, Heights, Effects
  <1>7. \A h \in Heights : buf'[p][h] = IF h = at[p] THEN Twice(buf[p][h], 1) ELSE buf[p][h]
    BY <1>4, <1>6 DEF Merge, Once, Twice
  <1>8. BufInv(p)'
    <2>1. CASE CleanBuf(p)
      <3>1. CleanBuf(p)'
        BY <2>1, <1>4, <1>6, <1>7 DEF CleanBuf, Twice, Heights, TypeOK
      <3> QED
        BY <3>1, <1>4 DEF BufInv
    <2>2. CASE DirtyBuf(p)
      <3>1. buf[p][next[p]] \in 0 .. 2 /\ at[p] \in Nat /\ next[p] \in Nat
        BY <1>6 DEF Heights
      <3>2. buf'[p][next[p]] = 2
        BY <2>2, <3>1, <1>6, <1>7 DEF DirtyBuf, Twice
      <3>3. DirtyBuf(p)'
        BY <2>2, <3>1, <3>2, <1>4, <1>6 DEF DirtyBuf
      <3> QED
        BY <3>3, <1>4 DEF BufInv
    <2> QED
      BY <2>1, <2>2, <1>3, <1>4 DEF PluginInv, BufInv
  <1>9. TxInv(p)' /\ LostInv(p)' /\ TableInv(p)' /\ DepInv(p)'
    BY <1>3, <1>4 DEF PluginInv, TxInv, LostInv, TableInv, DepInv, CommittedHeight
  <1> QED
    BY <1>1, <1>2, <1>5, <1>8, <1>9, OthersKept DEF PluginInv

(* A failed putBlock leaves a dirty buffer only to a plugin whose INSERT   *)
(* refuses duplicates.                                                     *)
LEMMA PutFailStep ==
    ASSUME Orderly, TypeOK, TypeOK', IInv, NEW p \in Plugins, PutFail(p)
    PROVE  IInv'
  <1> USE RunnerAssumption, NoHeightAssumption
  <1>1. \A q \in Plugins \ {p} : SameFor(q)
    BY DEF PutFail, Goto, SameFor, TypeOK, IndexTypeOK, indexVars
  <1>2. dao <= dao' /\ CacheGrows
    BY DEF PutFail, CacheGrows, TypeOK, IndexTypeOK, indexVars
  <1>3. PluginInv(p)
    BY DEF IInv
  <1>4. /\ pc[p] = "put" /\ pc'[p] = "tip" /\ at[p] <= last[p]
        /\ Write[p] # "delta"
        /\ UNCHANGED <<dao, row, cache, filling, table, buf, tx, tip, next, last, at, lost>>
    BY DEF PutFail, Fault, Orderly, Goto, TypeOK, IndexTypeOK, indexVars
  <1>5. IndexInv(p)' /\ LocalInv(p)' /\ TxInv(p)'
    BY <1>3, <1>4 DEF PluginInv, IndexInv, LocalInv, TxInv
  <1>6. /\ next[p] \in Heights /\ next[p] <= at[p] /\ at[p] \in Nat
        /\ next[p] = cache[p] + 1 /\ cache[p] # NoHeight /\ cache[p] < dao
    BY <1>3, <1>4 DEF PluginInv, LocalInv, TypeOK, IndexTypeOK, Heights
  <1>7. BufInv(p)'
    <2>1. CASE CleanBuf(p) /\ at[p] = next[p]
      <3>0. \A h \in Heights : buf[p][h] = 0
        BY <2>1, <1>6 DEF CleanBuf, Heights
      <3>1. buf[p] = NoEffects
        BY <3>0 DEF NoEffects, TypeOK, Effects
      <3> QED
        BY <3>1, <1>4 DEF BufInv
    <2>2. CASE CleanBuf(p) /\ at[p] # next[p]
      <3>1. buf[p][cache[p] + 1] > 0
        BY <2>2, <1>6 DEF CleanBuf, Heights
      <3> QED
        BY <3>1, <1>4, <1>6 DEF BufInv
    <2>3. CASE DirtyBuf(p)
      <3>1. buf[p][cache[p] + 1] > 0
        BY <2>3, <1>6 DEF DirtyBuf, Heights
      <3> QED
        BY <3>1, <1>4, <1>6 DEF BufInv
    <2> QED
      BY <2>1, <2>2, <2>3, <1>3, <1>4 DEF PluginInv, BufInv
  <1>8. LostInv(p)' /\ TableInv(p)' /\ DepInv(p)'
    BY <1>3, <1>4 DEF PluginInv, LostInv, TableInv, DepInv, CommittedHeight
  <1> QED
    BY <1>1, <1>2, <1>5, <1>7, <1>8, OthersKept DEF PluginInv

LEMMA InsertFailStep ==
    ASSUME TypeOK, TypeOK', IInv, NEW p \in Plugins, InsertFail(p)
    PROVE  IInv'
  <1> USE RunnerAssumption, NoHeightAssumption
  <1>1. \A q \in Plugins \ {p} : SameFor(q)
    BY DEF InsertFail, Goto, SameFor, TypeOK, IndexTypeOK, indexVars
  <1>2. dao <= dao' /\ CacheGrows
    BY DEF InsertFail, CacheGrows, TypeOK, IndexTypeOK, indexVars
  <1>3. PluginInv(p)
    BY DEF IInv
  <1>4. /\ pc[p] = "put" /\ pc'[p] = "tip" /\ buf'[p] = NoEffects
        /\ UNCHANGED <<dao, row, cache, filling, table, tx, tip, next, last, at, lost>>
    BY DEF InsertFail, Goto, TypeOK, IndexTypeOK, indexVars
  <1>5. IndexInv(p)' /\ LocalInv(p)' /\ TxInv(p)' /\ BufInv(p)'
    BY <1>3, <1>4 DEF PluginInv, IndexInv, LocalInv, TxInv, BufInv
  <1>6. LostInv(p)' /\ TableInv(p)' /\ DepInv(p)'
    BY <1>3, <1>4 DEF PluginInv, LostInv, TableInv, DepInv, CommittedHeight
  <1> QED
    BY <1>1, <1>2, <1>5, <1>6, OthersKept DEF PluginInv

(* Only a clean buffer gets past the INSERTs, so the transaction holds     *)
(* exactly the batch.                                                      *)
LEMMA InsertStep ==
    ASSUME TypeOK, TypeOK', IInv, NEW p \in Plugins, Insert(p)
    PROVE  IInv'
  <1> USE RunnerAssumption, NoHeightAssumption
  <1>1. \A q \in Plugins \ {p} : SameFor(q)
    BY DEF Insert, CacheIndexHeight, Goto, SameFor, TypeOK, IndexTypeOK
  <1>3. PluginInv(p)
    BY DEF IInv
  <1>4. /\ pc[p] = "put" /\ pc'[p] = "commit" /\ at[p] > last[p]
        /\ cache'[p] = last[p] /\ tx'[p] = buf[p] /\ buf'[p] = NoEffects
        /\ UNCHANGED <<dao, row, filling, table, tip, next, last, at, lost>>
    BY DEF Insert, CacheIndexHeight, Goto, TypeOK, IndexTypeOK
  <1>5. /\ cache[p] # NoHeight /\ next[p] = cache[p] + 1 /\ next[p] <= last[p]
        /\ at[p] = last[p] + 1 /\ next[p] \in Heights /\ last[p] \in Nat
        /\ last[p] <= dao
    <2>1. /\ cache[p] # NoHeight /\ next[p] = cache[p] + 1 /\ next[p] <= last[p]
          /\ at[p] <= last[p] + 1 /\ last[p] <= tip[p] /\ tip[p] <= dao
      BY <1>3, <1>4 DEF PluginInv, LocalInv
    <2>2. /\ cache[p] \in 0 .. MaxHeight \/ cache[p] = NoHeight
          /\ next[p] \in 0 .. MaxHeight + 1 /\ last[p] \in 0 .. MaxHeight
          /\ at[p] \in 0 .. MaxHeight + 1 /\ tip[p] \in 0 .. MaxHeight
          /\ dao \in 0 .. MaxHeight
      BY DEF TypeOK, IndexTypeOK
    <2> QED
      BY <2>1, <2>2, <1>4 DEF Heights
  <1>2. dao <= dao' /\ CacheGrows
    BY <1>5 DEF Insert, CacheIndexHeight, CacheGrows, TypeOK, IndexTypeOK
  <1>6. CleanBuf(p)
    <2>1. ~DirtyBuf(p)
      <3>1. ~(Write[p] # "delta" /\ buf[p][next[p]] > 1)
        BY <1>5 DEF Insert, Refused
      <3>2. at[p] > next[p]
        BY <1>5 DEF Heights
      <3> QED
        BY <3>1, <3>2 DEF DirtyBuf
    <2> QED
      BY <2>1, <1>3, <1>4 DEF PluginInv, BufInv
  <1>7. IndexInv(p)'
    BY <1>3, <1>4, <1>5 DEF PluginInv, IndexInv, TypeOK, IndexTypeOK
  <1>8. LocalInv(p)'
    BY <1>3, <1>4, <1>5 DEF PluginInv, LocalInv, TypeOK, IndexTypeOK, CommittedHeight
  <1>9. BufInv(p)'
    BY <1>4 DEF BufInv
  <1>10. TxInv(p)'
    BY <1>4, <1>5, <1>6 DEF CleanBuf, TxInv, Heights
  <1>11. LostInv(p)'
    BY <1>3, <1>4, <1>5 DEF PluginInv, LostInv, CommittedHeight, Heights, TypeOK, IndexTypeOK
  <1>12. TableInv(p)'
    BY <1>3, <1>4 DEF PluginInv, TableInv, CommittedHeight
  <1>13. DepInv(p)'
    BY <1>2, <1>3, <1>4 DEF PluginInv, DepInv, CacheGrows, TypeOK, IndexTypeOK
  <1> QED
    BY <1>1, <1>2, <1>7, <1>8, <1>9, <1>10, <1>11, <1>12, <1>13, OthersKept DEF PluginInv

(* What a COMMIT does: the batch's blocks, absent before, are there once,  *)
(* and the row moves to the last of them.                                  *)
LEMMA CommittedEffect ==
    ASSUME TypeOK, TypeOK', IInv, NEW p \in Plugins, pc[p] = "commit", Committed(p)
    PROVE  /\ row' = [row EXCEPT ![p] = last[p]]
           /\ CommittedHeight(p)' = last[p]
           /\ CommittedHeight(p) < next[p] /\ next[p] <= last[p] /\ last[p] <= dao
           /\ \A h \in Heights : table'[p][h] = IF next[p] <= h /\ h <= last[p]
                                                THEN 1 ELSE table[p][h]
           /\ \A q \in Plugins \ {p} : table'[q] = table[q] /\ tx'[q] = tx[q]
  <1> USE RunnerAssumption, NoHeightAssumption
  <1>1. PluginInv(p)
    BY DEF IInv
  <1>2. /\ next[p] \in Nat /\ last[p] \in Nat /\ dao \in Nat
        /\ CommittedHeight(p) \in Nat
        /\ table[p] \in [Heights -> 0 .. 2] /\ tx[p] \in [Heights -> 0 .. 2]
    BY HeightOfType DEF TypeOK, Effects
  <1>3. CommittedHeight(p) < next[p] /\ next[p] <= last[p] /\ last[p] <= dao
    BY <1>1, <1>2 DEF PluginInv, LocalInv, TypeOK
  <1>4. row' = [row EXCEPT ![p] = last[p]] /\ CommittedHeight(p)' = last[p]
    BY <1>2 DEF Committed, CommitIndexHeight, CommittedHeight, TypeOK, IndexTypeOK
  <1>5. table'[p] = Written(p, table[p], tx[p])
    BY DEF Committed, TypeOK
  <1>6. ASSUME NEW h \in Heights
        PROVE  table'[p][h] = IF next[p] <= h /\ h <= last[p] THEN 1 ELSE table[p][h]
    <2>1. tx[p][h] = IF next[p] <= h /\ h <= last[p] THEN 1 ELSE 0
      BY <1>1 DEF PluginInv, TxInv
    <2>2. /\ next[p] <= h => table[p][h] = 0
          /\ table[p][h] \in 0 .. 1
      BY <1>1, <1>2, <1>3 DEF PluginInv, TableInv, Heights
    <2>3. \/ table'[p][h] = Twice(table[p][h], tx[p][h])
          \/ table'[p][h] = IF tx[p][h] > 0 THEN 1 ELSE table[p][h]
      BY <1>5 DEF Written, Merge, Replace
    <2> QED
      BY <2>1, <2>2, <2>3 DEF Twice, Heights
  <1>7. \A q \in Plugins \ {p} : table'[q] = table[q] /\ tx'[q] = tx[q]
    BY DEF Committed, TypeOK
  <1> QED
    BY <1>3, <1>4, <1>6, <1>7

LEMMA CommitStep ==
    ASSUME TypeOK, TypeOK', IInv, NEW p \in Plugins, Commit(p) \/ CommitLostAck(p)
    PROVE  IInv'
  <1> USE RunnerAssumption, NoHeightAssumption
  <1>0. Committed(p) /\ pc[p] = "commit"
    BY DEF Commit, CommitLostAck
  <1>1. \A q \in Plugins \ {p} : SameFor(q)
    BY <1>0, CommittedEffect DEF Commit, CommitLostAck, Goto, SameFor, TypeOK, IndexTypeOK
  <1>2. dao <= dao' /\ CacheGrows
    BY DEF Commit, CommitLostAck, CacheGrows, TypeOK, IndexTypeOK
  <1>3. PluginInv(p)
    BY DEF IInv
  <1>4. /\ pc'[p] \in {"loop", "tip"}
        /\ pc'[p] = "loop" => next'[p] = last[p] + 1
        /\ UNCHANGED <<dao, cache, filling, buf, tip, last, at, lost>>
    BY DEF Commit, CommitLostAck, Goto, TypeOK
  <1>5. /\ row'[p] = last[p] /\ CommittedHeight(p)' = last[p]
        /\ next[p] <= last[p] /\ last[p] <= dao
        /\ CommittedHeight(p) < next[p]
        /\ \A h \in Heights : table'[p][h] = IF next[p] <= h /\ h <= last[p]
                                             THEN 1 ELSE table[p][h]
    BY <1>0, CommittedEffect DEF TypeOK, IndexTypeOK
  <1>6. cache[p] = last[p] /\ buf[p] = NoEffects /\ last[p] \in Nat /\ next[p] \in Nat
    BY <1>0, <1>3 DEF PluginInv, LocalInv, BufInv, TypeOK
  <1>7. IndexInv(p)'
    BY <1>3, <1>4, <1>5, <1>6 DEF PluginInv, IndexInv, TypeOK
  <1>8. LocalInv(p)'
    BY <1>0, <1>3, <1>4, <1>6 DEF PluginInv, LocalInv
  <1>9. BufInv(p)' /\ TxInv(p)'
    BY <1>4, <1>6 DEF BufInv, TxInv
  <1>10. LostInv(p)'
    BY <1>3, <1>4, <1>5, <1>6 DEF PluginInv, LostInv, Heights
  <1>11. TableInv(p)'
    <2> SUFFICES ASSUME NEW h \in Heights
                 PROVE  /\ h > last[p] => table'[p][h] = 0
                        /\ h <= last[p] => table'[p][h] = 1 \/ h \in lost[p]
                        /\ table'[p][h] <= 1
      BY <1>4, <1>5 DEF TableInv
    <2>1. /\ h > CommittedHeight(p) => table[p][h] = 0
          /\ h <= CommittedHeight(p) => table[p][h] = 1 \/ h \in lost[p]
          /\ table[p][h] <= 1
      BY <1>3 DEF PluginInv, TableInv
    <2>2. CommittedHeight(p) < h /\ h <= last[p] => h \in lost[p] \/ next[p] <= h
      BY <1>3, <1>6, NoHeightAssumption DEF PluginInv, LostInv
    <2>3. h \in Nat /\ CommittedHeight(p) \in Nat
      BY HeightOfType DEF Heights
    <2> QED
      BY <2>1, <2>2, <2>3, <1>5, <1>6
  <1>12. DepInv(p)'
    BY <1>0, <1>3, <1>4 DEF PluginInv, DepInv
  <1> QED
    BY <1>1, <1>2, <1>7, <1>8, <1>9, <1>10, <1>11, <1>12, OthersKept DEF PluginInv

(* A rollback after the cache store: the heights it passes over are lost.  *)
LEMMA CommitFailStep ==
    ASSUME TypeOK, TypeOK', IInv, NEW p \in Plugins, CommitFail(p)
    PROVE  IInv'
  <1> USE RunnerAssumption, NoHeightAssumption
  <1>1. \A q \in Plugins \ {p} : SameFor(q)
    BY DEF CommitFail, Goto, SameFor, TypeOK, IndexTypeOK, indexVars
  <1>2. dao <= dao' /\ CacheGrows
    BY DEF CommitFail, CacheGrows, TypeOK, IndexTypeOK, indexVars
  <1>3. PluginInv(p)
    BY DEF IInv
  <1>4. /\ pc[p] = "commit" /\ pc'[p] = "tip" /\ "commit" \in Faults
        /\ lost'[p] = lost[p] \cup (next[p] .. last[p])
        /\ UNCHANGED <<dao, row, cache, filling, table, buf, tip, next, last, at>>
    BY DEF CommitFail, Fault, Goto, TypeOK, IndexTypeOK, indexVars
  <1>5. IndexInv(p)' /\ LocalInv(p)' /\ BufInv(p)' /\ TxInv(p)' /\ DepInv(p)'
    BY <1>3, <1>4 DEF PluginInv, IndexInv, LocalInv, BufInv, TxInv, DepInv
  <1>6. LostInv(p)'
    BY <1>3, <1>4 DEF PluginInv, LocalInv, LostInv, CommittedHeight, Heights, TypeOK
  <1>7. TableInv(p)'
    BY <1>3, <1>4 DEF PluginInv, TableInv, CommittedHeight
  <1> QED
    BY <1>1, <1>2, <1>5, <1>6, <1>7, OthersKept DEF PluginInv

(* The chain and the calming of the environment touch no plugin. *)
LEMMA EnvironmentStep ==
    ASSUME TypeOK, TypeOK', IInv, NewBlock \/ Calm \/ UNCHANGED vars
    PROVE  IInv'
  <1>1. \A q \in Plugins : SameFor(q)
    BY DEF NewBlock, Calm, vars, indexVars, pluginVars, SameFor
  <1>2. dao <= dao'
    BY RunnerAssumption DEF NewBlock, Calm, vars, TypeOK
  <1>3. CacheGrows
    BY RunnerAssumption, NoHeightAssumption
       DEF NewBlock, Calm, vars, indexVars, CacheGrows, TypeOK, IndexTypeOK
  <1> QED
    BY <1>1, <1>2, <1>3, Frame DEF IInv

(* A crash forgets the heights passed over above the row: they are read    *)
(* again.  The ones at or below the row stay lost.                         *)
LEMMA CrashStep ==
    ASSUME TypeOK, TypeOK', IInv, Crash
    PROVE  IInv'
  <1> USE RunnerAssumption, NoHeightAssumption
  <1> SUFFICES ASSUME NEW p \in Plugins PROVE PluginInv(p)'
    BY DEF IInv
  <1>1. PluginInv(p)
    BY DEF IInv
  <1>2. /\ pc'[p] = "down" /\ cache'[p] = NoHeight /\ filling'[p] = {}
        /\ buf'[p] = NoEffects
        /\ lost'[p] = {h \in lost[p] : row[p] # NoHeight /\ h <= row[p]}
        /\ UNCHANGED <<dao, row, table>>
    BY DEF Crash, ForgetIndex
  <1>3. IndexInv(p)' /\ LocalInv(p)' /\ BufInv(p)' /\ TxInv(p)' /\ DepInv(p)'
    BY <1>1, <1>2 DEF PluginInv, IndexInv, LocalInv, BufInv, TxInv, DepInv
  <1>4. LostInv(p)'
    BY <1>1, <1>2 DEF PluginInv, LostInv
  <1>5. TableInv(p)'
    BY <1>1, <1>2 DEF PluginInv, TableInv, CommittedHeight, Heights
  <1> QED
    BY <1>3, <1>4, <1>5 DEF PluginInv

(* A foreign read whose query and store are not separated changes what is  *)
(* stored, never what is answered.                                         *)
LEMMA InfoStep ==
    ASSUME TypeOK, TypeOK', IInv, Orderly, NEW p \in Plugins,
           Info(p) \/ InfoStore(p)
    PROVE  IInv'
  <1> USE RunnerAssumption, NoHeightAssumption
  <1>1. PluginInv(p)
    BY DEF IInv
  <1>2. ReadCreate(p) \/ ReadThrough(p)
    BY <1>1 DEF Info, InfoStore, PluginInv, IndexInv, Orderly, Fault
  <1>3. UNCHANGED <<dao, filling, table, buf, tx, pc, tip, next, last, at, lost>>
    BY <1>2, <1>1 DEF Info, InfoStore, PluginInv, IndexInv, ReadCreate, ReadThrough, pluginVars
  <1>4. \A q \in Plugins \ {p} : SameFor(q)
    BY <1>2, <1>3 DEF ReadCreate, ReadThrough, SameFor, TypeOK, IndexTypeOK
  <1>5. dao <= dao' /\ CacheGrows
    BY <1>2, <1>3 DEF ReadCreate, ReadThrough, CacheGrows, TypeOK, IndexTypeOK
  <1>6. /\ cache[p] = NoHeight
        /\ \/ row[p] = NoHeight /\ row'[p] = 0 /\ cache'[p] = NoHeight
           \/ row[p] # NoHeight /\ row'[p] = row[p] /\ cache'[p] = row[p]
    BY <1>2 DEF ReadCreate, ReadThrough, TypeOK, IndexTypeOK
  <1>7. CommittedHeight(p)' = CommittedHeight(p)
    BY <1>6 DEF CommittedHeight
  <1>8. pc[p] \notin {"loop", "put", "commit"}
    BY <1>1, <1>6 DEF PluginInv, LocalInv, TypeOK
  <1>9. IndexInv(p)'
    BY <1>1, <1>3, <1>6 DEF PluginInv, IndexInv, TypeOK, IndexTypeOK
  <1>10. LocalInv(p)' /\ BufInv(p)' /\ TxInv(p)'
    BY <1>1, <1>3, <1>6, <1>8 DEF PluginInv, LocalInv, BufInv, TxInv
  <1>11. LostInv(p)' /\ TableInv(p)'
    BY <1>1, <1>3, <1>6, <1>7 DEF PluginInv, LostInv, TableInv, CommittedHeight, Heights,
       TypeOK, IndexTypeOK
  <1>12. DepInv(p)'
    BY <1>1, <1>3, <1>5 DEF PluginInv, DepInv, CacheGrows, TypeOK, IndexTypeOK
  <1> QED
    BY <1>4, <1>5, <1>9, <1>10, <1>11, <1>12, OthersKept DEF PluginInv

LEMMA IInvInit == Init => IInv
  <1> USE RunnerAssumption, NoHeightAssumption
  <1> SUFFICES ASSUME Init, NEW p \in Plugins PROVE PluginInv(p)
    BY DEF IInv
  <1>1. /\ row[p] = NoHeight /\ cache[p] = NoHeight /\ filling[p] = {}
        /\ pc[p] = "down" /\ buf[p] = NoEffects /\ lost[p] = {}
        /\ table[p] = NoEffects
    BY DEF Init, IndexInit
  <1>2. IndexInv(p) /\ LocalInv(p) /\ BufInv(p) /\ TxInv(p) /\ LostInv(p) /\ DepInv(p)
    BY <1>1 DEF IndexInv, LocalInv, BufInv, TxInv, LostInv, DepInv
  <1>3. TableInv(p)
    BY <1>1 DEF TableInv, NoEffects, CommittedHeight, Heights
  <1> QED
    BY <1>2, <1>3 DEF PluginInv

(* Every step of the specification keeps the invariant. *)
LEMMA IInvStep ==
    ASSUME Orderly, TypeOK, TypeOK', IInv, [Next]_vars
    PROVE  IInv'
  <1>1. CASE NewBlock \/ Calm \/ UNCHANGED vars
    BY <1>1, EnvironmentStep
  <1>2. CASE Crash
    BY <1>2, CrashStep
  <1>3. ASSUME NEW p \in Plugins, Start(p) \/ Work(p) PROVE IInv'
    BY <1>3, StartStep, GetTipStep, NextHeightStep, FetchStep, ControlStep, PutOneStep,
       InsertFailStep, InsertStep, CommitStep DEF Work
  <1>4. ASSUME NEW p \in Plugins, Fail(p) PROVE IInv'
    BY <1>4, ControlStep, PutFailStep, CommitStep, CommitFailStep DEF Fail
  <1>5. ASSUME NEW p \in Plugins, Stop(p) \/ Info(p) \/ InfoStore(p) PROVE IInv'
    BY <1>5, ControlStep, InfoStep
  <1> QED
    BY <1>1, <1>2, <1>3, <1>4, <1>5 DEF Next

-----------------------------------------------------------------------------
(* The theorems. *)

(* The named properties, from the inductive invariant. *)
LEMMA IInvImplies ==
    TypeOK /\ IInv => /\ NothingEarly
                      /\ AtMostOnce
                      /\ CacheAhead
                      /\ DependencyGate
  <1> USE RunnerAssumption, NoHeightAssumption
  <1> SUFFICES ASSUME TypeOK, IInv
               PROVE  /\ NothingEarly
                      /\ AtMostOnce
                      /\ CacheAhead
                      /\ DependencyGate
    OBVIOUS
  <1>0. \A p \in Plugins : PluginInv(p)
    BY DEF IInv
  <1>2. NothingEarly /\ AtMostOnce
    BY <1>0 DEF PluginInv, TableInv, NothingEarly, AtMostOnce
  <1>3. CacheAhead
    BY <1>0 DEF PluginInv, IndexInv, CacheAhead
  <1>4. DependencyGate
    <2> SUFFICES ASSUME NEW p \in Plugins, pc[p] \in {"put", "commit"},
                        NEW d \in Deps[p]
                 PROVE  cache[d] # NoHeight /\ last[p] <= cache[d]
      BY DEF DependencyGate
    <2>1. d \in Plugins
      OBVIOUS
    <2>2. next[p] <= last[p] /\ last[p] <= tip[p] /\ CommittedHeight(p) < next[p]
      BY <1>0 DEF PluginInv, LocalInv
    <2>3. tip[p] = 0 \/ (cache[d] # NoHeight /\ tip[p] <= cache[d])
      BY <1>0 DEF PluginInv, DepInv
    <2>4. CommittedHeight(p) \in 0 .. MaxHeight
      BY HeightOfType
    <2> QED
      BY <2>1, <2>2, <2>3, <2>4 DEF TypeOK, IndexTypeOK
  <1> QED
    BY <1>2, <1>3, <1>4

(* In an orderly environment the invariant holds for ever. *)
THEOREM Inductive ==
    ASSUME Orderly
    PROVE  Spec => [](TypeOK /\ IInv)
  <1>1. TypeOK /\ TypeOK' /\ IInv /\ [Next]_vars => IInv'
    BY IInvStep
  <1> QED
    BY <1>1, IInvInit, TypeCorrect, PTL DEF Spec

(* No block's data is visible before its height is committed: the tables   *)
(* and the row move in one transaction and AutoMigrate resets both.        *)
THEOREM NothingEarlyAlways ==
    ASSUME Orderly PROVE Spec => []NothingEarly
  BY Inductive, IInvImplies, PTL

(* No block counts twice, although a failed putBlock leaves its batch in   *)
(* the buffer and every fault makes the runner put blocks again.           *)
THEOREM AtMostOnceAlways ==
    ASSUME Orderly PROVE Spec => []AtMostOnce
  BY Inductive, IInvImplies, PTL

(* The cached height is never behind the row (db/index.go), so nextHeight  *)
(* never returns a block that is committed already.                        *)
THEOREM CacheAheadAlways ==
    ASSUME Orderly PROVE Spec => []CacheAhead
  BY Inductive, IInvImplies, PTL

(* A batch is only put when every plugin it depends on has cached the      *)
(* height of its last block (getTipHeight).                                *)
THEOREM DependencyGateAlways ==
    ASSUME Orderly PROVE Spec => []DependencyGate
  BY Inductive, IInvImplies, PTL

(* Without a rollback after the cache store no block is passed over.       *)
THEOREM NoGapAlways ==
    ASSUME Orderly, "commit" \notin Faults PROVE Spec => []NoGap
  <1>1. TypeOK /\ IInv => NoGap
    <2> SUFFICES ASSUME IInv, NEW p \in Plugins, NEW h \in Heights,
                        h <= CommittedHeight(p)
                 PROVE  table[p][h] > 0
      BY DEF NoGap
    <2> QED
      BY DEF IInv, PluginInv, TableInv, LostInv
  <1> QED
    BY <1>1, Inductive, PTL

-----------------------------------------------------------------------------
(* What a committed height stands for, under every fault: no Orderly here. *)
(* With suspended reads the cache may fall behind the row and the row may   *)
(* even move back, so the invariant follows what is covered, not what is    *)
(* where.                                                                   *)

Covered(p, h) == table[p][h] > 0 \/ h \in lost[p]

(* The reads in flight all read the row before its owner first cached it:  *)
(* they agree, and neither row, cache nor locals fall behind them.         *)
FillInv(p) ==
    /\ \A f, g \in filling[p] : f = g
    /\ \A f \in filling[p] :
          /\ row[p] # NoHeight /\ f <= row[p]
          /\ cache[p] = NoHeight => f = row[p]
          /\ cache[p] # NoHeight => f <= cache[p]
          /\ pc[p] \in {"loop", "put", "commit"} => f < next[p]
    /\ cache[p] # NoHeight => row[p] # NoHeight
    /\ pc[p] # "down" => row[p] # NoHeight
    /\ pc[p] \in {"loop", "put", "commit"} => cache[p] # NoHeight

(* Everything at or below the row and the cached height is covered or in   *)
(* the open transaction, everything below nextHeight is covered, and buffer *)
(* and transaction hold the batch.                                         *)
CovInv(p) ==
    /\ row[p] # NoHeight => \A h \in Heights : h <= row[p] => Covered(p, h)
    /\ cache[p] # NoHeight =>
          \A h \in Heights : h <= cache[p] =>
              Covered(p, h) \/ (pc[p] = "commit" /\ next[p] <= h /\ h <= last[p])
    /\ pc[p] \in {"loop", "put", "commit"} =>
          \A h \in Heights : h < next[p] => Covered(p, h)
    /\ pc[p] \in {"put", "commit"} => next[p] <= last[p]
    /\ pc[p] = "put" =>
          \A h \in Heights : next[p] <= h /\ h < at[p] => buf[p][h] > 0
    /\ pc[p] = "commit" =>
          \A h \in Heights : next[p] <= h /\ h <= last[p] => tx[p][h] > 0

CoverInv == \A p \in Plugins : FillInv(p) /\ CovInv(p)

LEMMA CoverFrame ==
    ASSUME NEW q \in Plugins, FillInv(q), CovInv(q), SameFor(q)
    PROVE  FillInv(q)' /\ CovInv(q)'
  BY DEF FillInv, CovInv, Covered, SameFor

LEMMA CoverOthers ==
    ASSUME CoverInv, NEW p \in Plugins, \A q \in Plugins \ {p} : SameFor(q),
           FillInv(p)', CovInv(p)'
    PROVE  CoverInv'
  BY CoverFrame DEF CoverInv

LEMMA CoverInit == Init => CoverInv
  <1> SUFFICES ASSUME Init, NEW p \in Plugins PROVE FillInv(p) /\ CovInv(p)
    BY DEF CoverInv
  <1>1. row[p] = NoHeight /\ cache[p] = NoHeight /\ filling[p] = {} /\ pc[p] = "down"
    BY DEF Init, IndexInit
  <1> QED
    BY <1>1 DEF FillInv, CovInv

(* AutoMigrate at a stale 0 uncovers what the row stands for and accounts  *)
(* for it.                                                                 *)
LEMMA CoverStart ==
    ASSUME TypeOK, CoverInv, NEW p \in Plugins, Start(p)
    PROVE  CoverInv'
  <1> USE RunnerAssumption, NoHeightAssumption
  <1>1. \A q \in Plugins \ {p} : SameFor(q)
    BY DEF Start, GetIndexHeight, Goto, SameFor, TypeOK, IndexTypeOK
  <1>2. FillInv(p) /\ CovInv(p)
    BY DEF CoverInv
  <1>3. /\ pc'[p] = "tip" /\ filling'[p] = filling[p]
        /\ cache'[p] = IF cache[p] # NoHeight THEN cache[p] ELSE row[p]
        /\ row'[p] = IF cache[p] = NoHeight /\ row[p] = NoHeight THEN 0 ELSE row[p]
    BY DEF Start, GetIndexHeight, Goto, TypeOK, IndexTypeOK
  <1>4. FillInv(p)'
    BY <1>2, <1>3 DEF FillInv, TypeOK, IndexTypeOK
  <1>5. CASE IndexHeightOf(p) # 0
    <2>1. table'[p] = table[p] /\ lost'[p] = lost[p] /\ row[p] # NoHeight
      BY <1>2, <1>5 DEF Start, TypeOK, IndexHeightOf, FillInv
    <2>2. \A h \in Heights : Covered(p, h)' <=> Covered(p, h)
      BY <2>1 DEF Covered
    <2>3. row'[p] = row[p] /\ (cache[p] = NoHeight => cache'[p] = row[p])
          /\ (cache[p] # NoHeight => cache'[p] = cache[p]) /\ pc[p] = "down"
      BY <1>3, <2>1 DEF Start
    <2>4. CovInv(p)'
      BY <1>2, <1>3, <2>1, <2>2, <2>3 DEF CovInv
    <2> QED
      BY <1>1, <1>4, <2>4, CoverOthers
  <1>6. CASE IndexHeightOf(p) = 0
    <2>1. row[p] # NoHeight => lost'[p] = lost[p] \cup 1 .. row[p]
      BY <1>6 DEF Start, TypeOK
    <2>2. ASSUME row[p] # NoHeight, NEW h \in Heights, h <= row[p]
          PROVE  h \in lost'[p]
      BY <2>1, <2>2 DEF Heights, TypeOK, IndexTypeOK
    <2>3. cache[p] = NoHeight \/ cache[p] = 0
      BY <1>6 DEF IndexHeightOf
    <2>4. \A h \in Heights : ~(h <= 0)
      BY DEF Heights
    <2>5. row'[p] # NoHeight => \A h \in Heights : h <= row'[p] => h \in lost'[p]
      BY <1>3, <2>2, <2>4
    <2>6. cache'[p] # NoHeight => \A h \in Heights : h <= cache'[p] => h \in lost'[p]
      BY <1>3, <2>2, <2>3, <2>4
    <2>7. CovInv(p)'
      BY <1>3, <2>5, <2>6 DEF CovInv, Covered
    <2> QED
      BY <1>1, <1>4, <2>7, CoverOthers
  <1> QED
    BY <1>5, <1>6

LEMMA CoverGetTip ==
    ASSUME TypeOK, CoverInv, NEW p \in Plugins, GetTipHeight(p)
    PROVE  CoverInv'
  <1> USE RunnerAssumption, NoHeightAssumption
  <1> SUFFICES ASSUME NEW q \in Plugins PROVE FillInv(q)' /\ CovInv(q)'
    BY DEF CoverInv
  <1>1. FillInv(q) /\ CovInv(q)
    BY DEF CoverInv
  <1>2. /\ UNCHANGED <<filling, table, buf, tx, next, last, at, lost>>
        /\ pc'[q] = pc[q] \/ (pc[q] = "tip" /\ pc'[q] = "next")
        /\ cache'[q] # cache[q] => cache[q] = NoHeight /\ cache'[q] = row[q]
        /\ row'[q] # row[q] => row[q] = NoHeight /\ row'[q] = 0 /\ cache'[q] = NoHeight
    BY DEF GetTipHeight, Goto, TypeOK, IndexTypeOK
  <1>3. FillInv(q)'
    BY <1>1, <1>2 DEF FillInv
  <1>4. CovInv(q)'
    BY <1>1, <1>2 DEF CovInv, Covered, Heights
  <1> QED
    BY <1>3, <1>4

LEMMA CoverNext ==
    ASSUME TypeOK, CoverInv, NEW p \in Plugins, NextHeight(p)
    PROVE  CoverInv'
  <1> USE RunnerAssumption, NoHeightAssumption
  <1>1. \A q \in Plugins \ {p} : SameFor(q)
    BY DEF NextHeight, GetIndexHeight, Goto, SameFor, TypeOK, IndexTypeOK
  <1>2. FillInv(p) /\ CovInv(p)
    BY DEF CoverInv
  <1>3. /\ pc[p] = "next" /\ pc'[p] = "loop"
        /\ cache'[p] = IF cache[p] # NoHeight THEN cache[p] ELSE row[p]
        /\ row[p] # NoHeight
        /\ row'[p] = row[p]
        /\ next'[p] = cache'[p] + 1
        /\ UNCHANGED <<filling, table, buf, tx, last, at, lost>>
    BY <1>2 DEF NextHeight, GetIndexHeight, IndexHeightOf, Goto, TypeOK, IndexTypeOK,
       FillInv
  <1>4. FillInv(p)'
    BY <1>2, <1>3 DEF FillInv, TypeOK, IndexTypeOK
  <1>5. CovInv(p)'
    BY <1>2, <1>3 DEF CovInv, Covered, Heights, TypeOK, IndexTypeOK
  <1> QED
    BY <1>1, <1>4, <1>5, CoverOthers

LEMMA CoverFetch ==
    ASSUME TypeOK, CoverInv, NEW p \in Plugins, Fetch(p)
    PROVE  CoverInv'
  <1> USE RunnerAssumption, NoHeightAssumption
  <1>1. \A q \in Plugins \ {p} : SameFor(q)
    BY DEF Fetch, Goto, SameFor, TypeOK, IndexTypeOK, indexVars
  <1>2. FillInv(p) /\ CovInv(p)
    BY DEF CoverInv
  <1>3. /\ pc[p] = "loop" /\ pc'[p] = "put"
        /\ next[p] <= last'[p] /\ at'[p] = next[p]
        /\ UNCHANGED <<row, cache, filling, table, buf, tx, next, lost>>
    BY DEF Fetch, Goto, TypeOK, IndexTypeOK, indexVars
  <1>4. FillInv(p)'
    BY <1>2, <1>3 DEF FillInv
  <1>5. \A h \in Heights : ~(next[p] <= h /\ h < next[p])
    BY DEF Heights, TypeOK
  <1>6. CovInv(p)'
    BY <1>2, <1>3, <1>5 DEF CovInv, Covered
  <1> QED
    BY <1>1, <1>4, <1>6, CoverOthers

(* The batch in the buffer, and then in the transaction.                   *)
LEMMA CoverPut ==
    ASSUME TypeOK, CoverInv, NEW p \in Plugins, PutOne(p) \/ Insert(p)
    PROVE  CoverInv'
  <1> USE RunnerAssumption, NoHeightAssumption
  <1>1. \A q \in Plugins \ {p} : SameFor(q)
    BY DEF PutOne, Insert, CacheIndexHeight, Goto, SameFor, TypeOK, IndexTypeOK, indexVars
  <1>2. FillInv(p) /\ CovInv(p) /\ pc[p] = "put"
    BY DEF CoverInv, PutOne, Insert
  <1>3. \A h \in Heights : buf[p][h] \in 0 .. 2
    BY DEF TypeOK, Effects
  <1>4. CASE PutOne(p)
    <2>1. /\ buf'[p] = Merge(buf[p], Once(at[p]))
          /\ at'[p] = at[p] + 1
          /\ UNCHANGED <<row, cache, filling, table, tx, pc, next, last, lost>>
      BY <1>4 DEF PutOne, TypeOK, IndexTypeOK, indexVars
    <2>2. ASSUME NEW h \in Heights, next[p] <= h, h < at'[p]
          PROVE  buf'[p][h] > 0
      <3>1. buf'[p][h] = Twice(buf[p][h], IF h = at[p] THEN 1 ELSE 0)
        BY <2>1 DEF Merge, Once
      <3>2. h = at[p] \/ h < at[p]
        BY <2>1, <2>2 DEF Heights, TypeOK
      <3>3. h < at[p] => buf[p][h] > 0
        BY <1>2, <2>2 DEF CovInv
      <3>4. /\ h = at[p] => buf'[p][h] = IF buf[p][h] + 1 > 2 THEN 2 ELSE buf[p][h] + 1
            /\ h # at[p] => buf'[p][h] = IF buf[p][h] + 0 > 2 THEN 2 ELSE buf[p][h] + 0
        BY <3>1 DEF Twice
      <3> QED
        BY <1>3, <3>2, <3>3, <3>4
    <2>3. FillInv(p)' /\ CovInv(p)'
      BY <1>2, <2>1, <2>2 DEF FillInv, CovInv, Covered
    <2> QED
      BY <1>1, <2>3, CoverOthers
  <1>5. CASE Insert(p)
    <2>1. /\ pc'[p] = "commit" /\ at[p] > last[p]
          /\ cache'[p] = last[p] /\ tx'[p] = buf[p]
          /\ UNCHANGED <<row, filling, table, next, last, at, lost>>
      BY <1>5 DEF Insert, CacheIndexHeight, Goto, TypeOK, IndexTypeOK
    <2>2. next[p] <= last[p] /\ next[p] \in Nat /\ last[p] \in Nat /\ at[p] \in Nat
      BY <1>2 DEF CovInv, TypeOK
    <2>3. FillInv(p)'
      BY <1>2, <2>1, <2>2 DEF FillInv, TypeOK, IndexTypeOK
    <2>4. CovInv(p)'
      BY <1>2, <2>1, <2>2 DEF CovInv, Covered, Heights
    <2> QED
      BY <1>1, <2>3, <2>4, CoverOthers
  <1> QED
    BY <1>4, <1>5

(* The COMMIT covers the batch and moves the row to its end, whether that  *)
(* is further than the row was or not.                                     *)
LEMMA CoverCommit ==
    ASSUME TypeOK, CoverInv, NEW p \in Plugins, Commit(p) \/ CommitLostAck(p)
    PROVE  CoverInv'
  <1> USE RunnerAssumption, NoHeightAssumption
  <1>1. \A q \in Plugins \ {p} : SameFor(q)
    BY DEF Commit, CommitLostAck, Committed, CommitIndexHeight, Goto, SameFor, TypeOK,
       IndexTypeOK
  <1>2. FillInv(p) /\ CovInv(p) /\ pc[p] = "commit"
    BY DEF CoverInv, Commit, CommitLostAck
  <1>3. /\ row'[p] = last[p] /\ table'[p] = Written(p, table[p], tx[p])
        /\ pc'[p] \in {"loop", "tip"}
        /\ pc'[p] = "loop" => next'[p] = last[p] + 1
        /\ UNCHANGED <<cache, filling, last, lost>>
    BY DEF Commit, CommitLostAck, Committed, CommitIndexHeight, Goto, TypeOK, IndexTypeOK
  <1>4. /\ next[p] <= last[p] /\ next[p] \in Nat /\ last[p] \in Nat
        /\ \A h \in Heights : table[p][h] \in 0 .. 2 /\ tx[p][h] \in 0 .. 2
    BY <1>2 DEF CovInv, TypeOK, Effects
  <1>5. ASSUME NEW h \in Heights, table[p][h] > 0 \/ tx[p][h] > 0
        PROVE  table'[p][h] > 0
    BY <1>3, <1>4, <1>5 DEF Written, Merge, Replace, Twice
  <1>6. ASSUME NEW h \in Heights, Covered(p, h) \/ (next[p] <= h /\ h <= last[p])
        PROVE  Covered(p, h)'
    BY <1>2, <1>3, <1>5, <1>6 DEF Covered, CovInv
  <1>7. \A h \in Heights : h <= last[p] => Covered(p, h)'
    BY <1>2, <1>4, <1>6 DEF CovInv, Heights
  <1>8. FillInv(p)'
    BY <1>2, <1>3, <1>4 DEF FillInv, TypeOK, IndexTypeOK
  <1>9. CovInv(p)'
    <2>1. cache[p] # NoHeight => \A h \in Heights : h <= cache[p] => Covered(p, h)'
      BY <1>2, <1>6 DEF CovInv
    <2>2. pc'[p] = "loop" => \A h \in Heights : h < next'[p] => Covered(p, h)'
      BY <1>3, <1>4, <1>7 DEF Heights
    <2> QED
      BY <1>3, <1>7, <2>1, <2>2 DEF CovInv
  <1> QED
    BY <1>1, <1>8, <1>9, CoverOthers

(* The steps that give a batch up or only move the program counter.        *)
LEMMA CoverLeave ==
    ASSUME TypeOK, CoverInv, NEW p \in Plugins,
           \/ ReadFail(p) \/ LoopEnd(p) \/ Stop(p) \/ Exit(p)
           \/ PutFail(p) \/ InsertFail(p) \/ CommitFail(p)
    PROVE  CoverInv'
  <1> USE RunnerAssumption, NoHeightAssumption
  <1>1. \A q \in Plugins \ {p} : SameFor(q)
    BY DEF ReadFail, LoopEnd, Stop, Exit, PutFail, InsertFail, CommitFail, Goto, SameFor,
       TypeOK, IndexTypeOK, indexVars
  <1>2. FillInv(p) /\ CovInv(p)
    BY DEF CoverInv
  <1>3. CASE Stop(p)
    <2>1. SameFor(p)
      BY <1>3 DEF Stop, SameFor, indexVars
    <2> QED
      BY <1>1, <1>2, <2>1, CoverFrame, CoverOthers
  <1>4. CASE \/ ReadFail(p) \/ LoopEnd(p) \/ Exit(p) \/ PutFail(p) \/ InsertFail(p)
             \/ CommitFail(p)
    <2>1. /\ pc[p] # "down" /\ pc'[p] \in {"tip", "down"}
          /\ UNCHANGED <<row, cache, filling, table, next, last>>
      BY <1>4 DEF ReadFail, LoopEnd, Exit, PutFail, InsertFail, CommitFail, Goto, TypeOK,
         indexVars
    <2>2. /\ lost[p] \subseteq lost'[p]
          /\ pc[p] = "commit" => next[p] .. last[p] \subseteq lost'[p]
      BY <1>4 DEF ReadFail, LoopEnd, Exit, PutFail, InsertFail, CommitFail, TypeOK
    <2>3. FillInv(p)'
      BY <1>2, <2>1 DEF FillInv
    <2>4. ASSUME NEW h \in Heights,
                 Covered(p, h) \/ (pc[p] = "commit" /\ next[p] <= h /\ h <= last[p])
          PROVE  Covered(p, h)'
      BY <2>1, <2>2, <2>4 DEF Covered, Heights, TypeOK
    <2>5. CovInv(p)'
      BY <1>2, <2>1, <2>4 DEF CovInv
    <2> QED
      BY <1>1, <2>3, <2>5, CoverOthers
  <1> QED
    BY <1>3, <1>4

(* Foreign reads, suspended or not: what they store was the row's height   *)
(* and so was covered.                                                     *)
LEMMA CoverInfo ==
    ASSUME TypeOK, CoverInv, NEW p \in Plugins, Info(p) \/ InfoStore(p)
    PROVE  CoverInv'
  <1> USE RunnerAssumption, NoHeightAssumption
  <1>1. \A q \in Plugins \ {p} : SameFor(q)
    BY DEF Info, InfoStore, ReadCreate, ReadThrough, ReadMiss, ReadStore, SameFor, TypeOK,
       IndexTypeOK, pluginVars
  <1>2. FillInv(p) /\ CovInv(p)
    BY DEF CoverInv
  <1>3. UNCHANGED <<table, buf, tx, pc, next, last, at, lost>>
    BY DEF Info, InfoStore, pluginVars
  <1>4. CASE ReadCreate(p) \/ ReadThrough(p) \/ ReadMiss(p)
    <2>1. /\ cache[p] = NoHeight
          /\ \/ /\ row[p] = NoHeight /\ row'[p] = 0 /\ cache'[p] = NoHeight
                /\ filling'[p] = filling[p]
             \/ /\ row[p] # NoHeight /\ row'[p] = row[p] /\ cache'[p] = row[p]
                /\ filling'[p] = filling[p]
             \/ /\ row[p] # NoHeight /\ row'[p] = row[p] /\ cache'[p] = NoHeight
                /\ filling'[p] = filling[p] \cup {row[p]}
      BY <1>4 DEF ReadCreate, ReadThrough, ReadMiss, TypeOK, IndexTypeOK
    <2>2. FillInv(p)'
      BY <1>2, <1>3, <2>1 DEF FillInv, TypeOK, IndexTypeOK
    <2>3. CovInv(p)'
      BY <1>2, <1>3, <2>1 DEF CovInv, Covered, Heights, FillInv
    <2> QED
      BY <1>1, <2>2, <2>3, CoverOthers
  <1>5. CASE InfoStore(p)
    <2>1. PICK f \in filling[p] : ReadStore(p, f)
      BY <1>5 DEF InfoStore
    <2>2. /\ row'[p] = row[p] /\ cache'[p] = f /\ filling'[p] = filling[p] \ {f}
          /\ f \in Nat
      BY <2>1 DEF ReadStore, TypeOK, IndexTypeOK
    <2>3. filling'[p] = {} /\ f # NoHeight
      BY <1>2, <2>2 DEF FillInv
    <2>4. FillInv(p)'
      BY <1>2, <1>3, <2>2, <2>3 DEF FillInv
    <2>5. row[p] \in Nat /\ f <= row[p] /\ row[p] # NoHeight
      BY <1>2, <2>1 DEF FillInv, TypeOK, IndexTypeOK
    <2>6. \A h \in Heights : h <= f => Covered(p, h)
      BY <1>2, <2>2, <2>5 DEF CovInv, Heights
    <2>7. CovInv(p)'
      BY <1>2, <1>3, <2>2, <2>6 DEF CovInv, Covered
    <2> QED
      BY <1>1, <2>4, <2>7, CoverOthers
  <1> QED
    BY <1>4, <1>5 DEF Info

LEMMA CoverStep ==
    ASSUME TypeOK, CoverInv, [Next]_vars PROVE CoverInv'
  <1>1. CASE NewBlock \/ Calm \/ UNCHANGED vars
    <2>1. \A q \in Plugins : SameFor(q)
      BY <1>1 DEF NewBlock, Calm, vars, indexVars, pluginVars, SameFor
    <2> QED
      BY <2>1, CoverFrame DEF CoverInv
  <1>2. CASE Crash
    <2> SUFFICES ASSUME NEW p \in Plugins PROVE FillInv(p)' /\ CovInv(p)'
      BY DEF CoverInv
    <2>1. /\ pc'[p] = "down" /\ cache'[p] = NoHeight /\ filling'[p] = {}
          /\ lost'[p] = {h \in lost[p] : row[p] # NoHeight /\ h <= row[p]}
          /\ UNCHANGED <<row, table>>
      BY <1>2 DEF Crash, ForgetIndex
    <2>2. FillInv(p)'
      BY <2>1 DEF FillInv
    <2>3. CovInv(p)'
      BY <2>1 DEF CoverInv, CovInv, Covered
    <2> QED
      BY <2>2, <2>3
  <1>3. ASSUME NEW p \in Plugins, Start(p) \/ Work(p) \/ Fail(p)
        PROVE  CoverInv'
    BY <1>3, CoverStart, CoverGetTip, CoverNext, CoverFetch, CoverPut, CoverCommit,
       CoverLeave DEF Work, Fail
  <1>4. ASSUME NEW p \in Plugins, Stop(p) \/ Info(p) \/ InfoStore(p)
        PROVE  CoverInv'
    BY <1>4, CoverLeave, CoverInfo
  <1> QED
    BY <1>1, <1>2, <1>3, <1>4 DEF Next

(* A committed index height stands for data (server/runner.go, db/index.go, *)
(* commit of the plugins), under all faults, suspended reads included:      *)
(* every block up to it is in the tables, or was passed over by a           *)
(* transaction that rolled back after its height had been cached, or was    *)
(* dropped by a start that found a stale 0 in the cache.                    *)
THEOREM LossAccountedAlways == Spec => []LossAccounted
  <1>1. TypeOK /\ CoverInv => LossAccounted
    <2> SUFFICES ASSUME CoverInv, TypeOK, NEW p \in Plugins, NEW h \in Heights,
                        h <= CommittedHeight(p)
                 PROVE  table[p][h] > 0 \/ h \in lost[p]
      BY DEF LossAccounted
    <2> QED
      BY DEF CoverInv, CovInv, Covered, CommittedHeight, Heights
  <1>2. TypeOK /\ CoverInv /\ [Next]_vars => CoverInv'
    BY CoverStep
  <1> QED
    BY <1>1, <1>2, CoverInit, TypeCorrect, PTL DEF Spec

-----------------------------------------------------------------------------
(* The runner implements the abstract indexer. *)

(* What a reader of the database sees stay the same. *)
Quiet ==
    /\ table' = table
    /\ \A q \in Plugins : CommittedHeight(q)' = CommittedHeight(q)

(* Only a COMMIT moves tables and heights. *)
LEMMA QuietStep ==
    ASSUME Orderly, TypeOK, IInv, [Next]_vars,
           \A p \in Plugins : ~Commit(p) /\ ~CommitLostAck(p)
    PROVE  Quiet /\ (NewBlock \/ dao' = dao)
  <1> USE RunnerAssumption, NoHeightAssumption
  <1>0. \A p \in Plugins : filling[p] = {} /\ (cache[p] # NoHeight => row[p] # NoHeight)
    BY DEF IInv, PluginInv, IndexInv
  <1>1. CASE NewBlock \/ Calm \/ UNCHANGED vars
    BY <1>1 DEF NewBlock, Calm, vars, indexVars, pluginVars, Quiet, CommittedHeight
  <1>2. CASE Crash
    BY <1>2 DEF Crash, ForgetIndex, Quiet, CommittedHeight
  <1>3. ASSUME NEW p \in Plugins, Start(p) PROVE Quiet /\ dao' = dao
    <2>1. table' = table
      BY <1>3, DroppedWasEmpty
    <2> QED
      BY <1>3, <2>1 DEF Start, GetIndexHeight, Quiet, CommittedHeight, TypeOK, IndexTypeOK
  <1>4. ASSUME NEW p \in Plugins, GetTipHeight(p) \/ NextHeight(p)
        PROVE  Quiet /\ dao' = dao
    BY <1>4 DEF GetTipHeight, NextHeight, GetIndexHeight, Quiet, CommittedHeight,
       TypeOK, IndexTypeOK
  <1>5. ASSUME NEW p \in Plugins,
               \/ Fetch(p) \/ LoopEnd(p) \/ PutOne(p) \/ InsertFail(p) \/ Insert(p)
               \/ Exit(p) \/ ReadFail(p) \/ PutFail(p) \/ CommitFail(p) \/ Stop(p)
        PROVE  Quiet /\ dao' = dao
    BY <1>5 DEF Fetch, LoopEnd, PutOne, InsertFail, Insert, Exit, ReadFail, PutFail,
       CommitFail, Stop, indexVars, Quiet, CommittedHeight
  <1>6. ASSUME NEW p \in Plugins, Info(p) \/ InfoStore(p)
        PROVE  Quiet /\ dao' = dao
    BY <1>0, <1>6 DEF Info, InfoStore, ReadCreate, ReadThrough, ReadMiss, ReadStore,
       pluginVars, Quiet, CommittedHeight, TypeOK, IndexTypeOK
  <1> QED
    BY <1>1, <1>2, <1>3, <1>4, <1>5, <1>6 DEF Next, Work, Fail

(* Committed heights never move back. *)
THEOREM HeightMonotoneAlways ==
    ASSUME Orderly PROVE Spec => HeightMonotone
  <1>1. TypeOK /\ TypeOK' /\ IInv /\ [Next]_vars
           => [\A p \in Plugins : CommittedHeight(p) <= CommittedHeight(p)']_vars
    <2> SUFFICES ASSUME TypeOK, TypeOK', IInv, [Next]_vars, NEW p \in Plugins
                 PROVE  CommittedHeight(p) <= CommittedHeight(p)'
      OBVIOUS
    <2>0. CommittedHeight(p) \in Nat
      BY HeightOfType
    <2>1. CASE \A q \in Plugins : ~Commit(q) /\ ~CommitLostAck(q)
      BY <2>0, <2>1, QuietStep DEF Quiet
    <2>2. ASSUME NEW q \in Plugins, Commit(q) \/ CommitLostAck(q)
          PROVE  CommittedHeight(p) <= CommittedHeight(p)'
      <3>1. Committed(q) /\ pc[q] = "commit"
        BY <2>2 DEF Commit, CommitLostAck
      <3>2. /\ row' = [row EXCEPT ![q] = last[q]]
            /\ CommittedHeight(q)' = last[q]
            /\ CommittedHeight(q) < next[q] /\ next[q] <= last[q]
        BY <3>1, CommittedEffect
      <3>3. next[q] \in Nat /\ last[q] \in Nat
        BY RunnerAssumption DEF TypeOK
      <3>4. CASE p = q
        BY <3>2, <3>3, <3>4, <2>0
      <3>5. CASE p # q
        BY <3>2, <3>5, <2>0 DEF CommittedHeight, TypeOK, IndexTypeOK
      <3> QED
        BY <3>4, <3>5
    <2> QED
      BY <2>1, <2>2
  <1> QED
    BY <1>1, Inductive, PTL DEF Spec, HeightMonotone

(* The initial states map to initial states of the indexer. *)
LEMMA RefinesInit == Init => IX!Init
  BY DEF Init, IndexInit, IX!Init, CommittedHeight, NoEffects, Heights

(* A COMMIT, acknowledged or not, is an Index step. *)
LEMMA RefinesCommit ==
    ASSUME TypeOK, TypeOK', IInv, "commit" \notin Faults, NEW p \in Plugins,
           Commit(p) \/ CommitLostAck(p)
    PROVE  IX!Next
  <1> USE RunnerAssumption, NoHeightAssumption
  <1>1. Committed(p) /\ pc[p] = "commit" /\ dao' = dao
    BY DEF Commit, CommitLostAck
  <1>2. PluginInv(p)
    BY DEF IInv
  <1>3. /\ row' = [row EXCEPT ![p] = last[p]]
        /\ CommittedHeight(p)' = last[p]
        /\ CommittedHeight(p) < next[p] /\ next[p] <= last[p] /\ last[p] <= dao
        /\ \A h \in Heights : table'[p][h] = IF next[p] <= h /\ h <= last[p]
                                             THEN 1 ELSE table[p][h]
        /\ \A q \in Plugins \ {p} : table'[q] = table[q]
    BY <1>1, CommittedEffect
  <1>4. /\ next[p] \in Nat /\ last[p] \in Nat /\ dao \in Nat
        /\ CommittedHeight(p) \in Nat /\ cache[p] = last[p]
    BY <1>1, <1>2, HeightOfType DEF TypeOK, PluginInv, LocalInv
  <1>5. next[p] = CommittedHeight(p) + 1
    <2>1. CASE CommittedHeight(p) + 1 < next[p]
      <3>1. CommittedHeight(p) + 1 \in Heights /\ CommittedHeight(p) + 1 <= last[p]
        BY <2>1, <1>3, <1>4 DEF Heights, TypeOK
      <3>2. /\ lost[p] = {}
            /\ CommittedHeight(p) + 1 \in lost[p] \/ next[p] <= CommittedHeight(p) + 1
        BY <3>1, <1>2, <1>4 DEF PluginInv, LostInv
      <3> QED
        BY <3>2, <2>1, <1>4
    <2> QED
      BY <2>1, <1>3, <1>4
  <1> DEFINE height == [q \in Plugins |-> CommittedHeight(q)]
             newHeight == [q \in Plugins |-> CommittedHeight(q)']
             bumped == [h \in 1 .. MaxHeight |->
                          IF height[p] < h /\ h <= last[p]
                          THEN table[p][h] + 1 ELSE table[p][h]]
  <1>6. newHeight = [height EXCEPT ![p] = last[p]]
    BY <1>3 DEF CommittedHeight, TypeOK, IndexTypeOK
  <1>7. table'[p] = bumped
    <2>1. table'[p] \in [Heights -> 0 .. 2] /\ table[p] \in [Heights -> 0 .. 2]
      BY DEF TypeOK, Effects
    <2>2. ASSUME NEW h \in Heights PROVE table'[p][h] = bumped[h]
      <3>1. h > CommittedHeight(p) => table[p][h] = 0
        BY <1>2 DEF PluginInv, TableInv
      <3>2. bumped[h] = IF CommittedHeight(p) < h /\ h <= last[p]
                        THEN table[p][h] + 1 ELSE table[p][h]
        BY DEF Heights
      <3> QED
        BY <3>1, <3>2, <1>3, <1>4, <1>5, <2>1 DEF Heights
    <2> QED
      BY <2>1, <2>2 DEF Heights
  <1>8. table' = [table EXCEPT ![p] = bumped]
    BY <1>3, <1>7 DEF TypeOK
  <1>9. last[p] \in (height[p] + 1) .. dao
    BY <1>3, <1>4, <1>5
  <1>10. IX!Index(p, last[p])
    BY <1>1, <1>6, <1>8 DEF IX!Index
  <1> QED
    BY <1>9, <1>10 DEF IX!Next

(* Every step of the runners is a step of the indexer or invisible to it.  *)
LEMMA RefinesStep ==
    ASSUME Orderly, TypeOK, TypeOK', IInv, "commit" \notin Faults, [Next]_vars
    PROVE  [IX!Next]_(IX!vars)
  <1>1. ASSUME NEW p \in Plugins, Commit(p) \/ CommitLostAck(p)
        PROVE  IX!Next
    BY <1>1, RefinesCommit
  <1>2. CASE \A p \in Plugins : ~Commit(p) /\ ~CommitLostAck(p)
    <2>1. Quiet /\ (NewBlock \/ dao' = dao)
      BY <1>2, QuietStep
    <2>2. UNCHANGED <<[p \in Plugins |-> CommittedHeight(p)], table>>
      BY <2>1 DEF Quiet
    <2>3. CASE NewBlock
      BY <2>2, <2>3 DEF NewBlock, IX!NewBlock, IX!Next
    <2>4. CASE dao' = dao
      BY <2>2, <2>4 DEF IX!vars
    <2> QED
      BY <2>1, <2>3, <2>4
  <1> QED
    BY <1>1, <1>2

(* Seen from the database, the runners, caches and buffers of              *)
(* server/runner.go and db/index.go are the abstract indexer: a plugin's   *)
(* tables and height move forward together, over whole batches, and every  *)
(* block is applied exactly once - for every set of plugins, every         *)
(* dependency relation and every chain, under all faults but a rollback    *)
(* after the cache store.                                                  *)
THEOREM RunnerImplementsIndexer ==
    ASSUME Orderly, "commit" \notin Faults
    PROVE  Spec => ImplementsIndexer
  <1>1. TypeOK /\ TypeOK' /\ IInv /\ [Next]_vars => [IX!Next]_(IX!vars)
    BY RefinesStep
  <1> QED
    BY <1>1, RefinesInit, Inductive, PTL DEF Spec, ImplementsIndexer, IX!Spec
=============================================================================

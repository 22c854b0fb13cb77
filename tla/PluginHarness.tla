----------------------------- MODULE PluginHarness -----------------------------
(***************************************************************************)
(* One plugin under the runner of server/runner.go, with what it writes.   *)
(* Runner.tla looks at many plugins and counts effects; here there is one  *)
(* plugin, chosen in the initial state, with the content of its tables and *)
(* the fields of its package variable, which outlive an unload and a       *)
(* failed call.  The plugins give the operators below, translated one by   *)
(* one from their PutBlock or PutBlocks:                                   *)
(*                                                                         *)
(*   Fresh(p)             the fields as the loaded shared object has them  *)
(*   StartOf(p, m, d, h, ch)                                               *)
(*                        what Start makes of fields, tables and height    *)
(*   PutOf(p, m, d, b)    the outcomes of the work before the transaction  *)
(*                        for one block: Ok, Err, or Hid when a failure    *)
(*                        was passed over, with the fields it leaves       *)
(*   CommitOf(p, m, d, from, to)                                           *)
(*                        the transactions that may follow and the fields  *)
(*                        once all succeeded                               *)
(*                                                                         *)
(* A transaction has its statements, the index height it writes (NoHeight: *)
(* none; a height alone is UpdateIndexHeight), the fields a failure may    *)
(* leave and the fields when all its statements ran.  A transaction fails  *)
(* before UpdateIndexHeightByTx, which comes last in all of them; the      *)
(* failures after it are the subject of Runner.tla.                        *)
(***************************************************************************)
EXTENDS Tables

CONSTANTS Plugins,                \* the plugins of this instance
          MaxHeight,              \* bound: blocks of a chain
          Workers,                \* the plugins that a timer calls
          FaultsOf(_),            \* FaultsOf(p), bound: failures injected into p
          Chains(_),              \* Chains(p): the chains p is run on
          BatchOf(_),             \* BatchOf(p): most blocks in one call
          Fresh(_), StartOf(_, _, _, _, _), PutOf(_, _, _, _),
          CommitOf(_, _, _, _, _)

VARIABLES plugin,   \* the plugin under test
          chain,    \* chain[h]: the content of block h
          mem,      \* the plugin's fields
          db,       \* its tables
          row,      \* its row of index_heights
          cache,    \* its entry in db.indexCache
          pc,       \* "down", "idle", "put", "commit"
          last,     \* height of the last block of the batch in hand
          at,       \* the next block of the batch to put
          todo,     \* the transactions still to run
          done,     \* the fields after the last of them
          faults,   \* failures left
          hidden,   \* history: a failure was passed over
          want      \* history: want[h] is what the tables hold when the
                    \* chain is put block by block up to h, without failure

vars == <<plugin, chain, mem, db, row, cache, pc, last, at, todo, done, faults,
          hidden, want>>

NoHeight == -1
Heights == 1 .. MaxHeight
Tip == Len(chain)
EmptyTables == [k \in {} |-> 0]
Unfailed == faults = FaultsOf(plugin)
BlockAt(h) == [h |-> h, c |-> chain[h]]

Ok(m) == [res |-> "ok", mem |-> m]
Err(m) == [res |-> "err", mem |-> m]
Hid(m) == [res |-> "hid", mem |-> m]
Tx(m, stmts, h) == [stmts |-> stmts, height |-> h, bad |-> {m}, sent |-> m]
Commits(txs, after) == [res |-> "ok", txs |-> txs, after |-> after]
Refused(after) == [res |-> "err", txs |-> <<>>, after |-> after]
Panicked(after) == [res |-> "panic", txs |-> <<>>, after |-> after]
Started(m, d, h) == [mem |-> m, db |-> d, height |-> h]

(* Mutant: whatever the height. *)
AutoMigrate_Always(d, h) == EmptyTables

(* db.AutoMigrate: the tables are dropped and created at height 0 only. *)
AutoMigrate(d, h) == IF h = 0 THEN EmptyTables ELSE d

(* What the tables should hold: the chain put block by block, without a    *)
(* failure, by a plugin that was started once; it gets no further than a    *)
(* block it panics at.                                                     *)
CleanAfter(s, c) ==
    [mem |-> c.after, stuck |-> c.res = "panic",
     db |-> CHOOSE d \in Run(s.db, FoldLeft(LAMBDA a, tx : a \o tx.stmts, <<>>, c.txs)) : TRUE]

CleanStep(p, ch, s, h) ==
    LET r == CHOOSE x \in PutOf(p, s.mem, s.db, [h |-> h, c |-> ch[h]]) : x.res = "ok"
    IN  IF s.stuck THEN s
        ELSE CleanAfter(s, CHOOSE x \in CommitOf(p, r.mem, s.db, h, h) :
                               x.res \in {"ok", "panic"})

Clean(p, ch) ==
    LET s0 == StartOf(p, Fresh(p), EmptyTables, 0, ch)
        C[h \in 0 .. Len(ch)] ==
            IF h <= s0.height THEN [mem |-> s0.mem, db |-> s0.db, stuck |-> FALSE]
            ELSE CleanStep(p, ch, C[h - 1], h)
    IN  [h \in 0 .. Len(ch) |-> C[h].db]

Init ==
    /\ plugin \in Plugins
    /\ chain \in Chains(plugin)
    /\ mem = Fresh(plugin)
    /\ done = mem
    /\ db = EmptyTables
    /\ row = 0 /\ cache = 0
    /\ pc = "down"
    /\ last = 0 /\ at = 0
    /\ todo = <<>>
    /\ faults = FaultsOf(plugin)
    /\ hidden = FALSE
    /\ want = Clean(plugin, chain)

(* plugin.Start, called by runner.Start before its loop begins.  A plugin   *)
(* that starts late moves its height with UpdateIndexHeight.               *)
Start ==
    /\ pc = "down"
    /\ LET s == StartOf(plugin, mem, db, cache, chain)
       IN  /\ mem' = s.mem
           /\ db' = s.db
           /\ row' = IF s.height = cache THEN row ELSE s.height
           /\ cache' = s.height
    /\ pc' = "idle"
    /\ UNCHANGED <<plugin, chain, last, at, todo, done, faults, hidden,
                   want>>

(* Mutant: the tip is not looked at. *)
Fetch_PastTip ==
    /\ pc = "idle"
    /\ \E n \in 1 .. BatchOf(plugin) : last' = cache + n
    /\ at' = cache + 1
    /\ pc' = "put"
    /\ UNCHANGED <<plugin, chain, mem, db, row, cache, todo, done, faults,
                   hidden, want>>

(* The runner reads the next blocks: nextHeight is the cached height + 1.  *)
Fetch ==
    /\ pc = "idle" /\ plugin \notin Workers
    /\ \E n \in 1 .. BatchOf(plugin) :
          /\ cache + n <= Tip
          /\ last' = cache + n
    /\ at' = cache + 1
    /\ pc' = "put"
    /\ UNCHANGED <<plugin, chain, mem, db, row, cache, todo, done, faults,
                   hidden, want>>

(* A worker's timer: it works for the height another plugin has reached,   *)
(* which may still be the one of the last tick.                            *)
Tick ==
    /\ pc = "idle" /\ plugin \in Workers
    /\ \E h \in {i \in Heights : cache <= i /\ i <= Tip} :
          /\ h = cache => faults > 0
          /\ faults' = IF h = cache THEN faults - 1 ELSE faults
          /\ last' = h /\ at' = h
    /\ pc' = "put"
    /\ UNCHANGED <<plugin, chain, mem, db, row, cache, todo, done, hidden, want>>

(* A failure is taken from the budget, also one that is passed over; what  *)
(* panics because of the blocks in hand does so every time.                *)
Costs(r) ==
    /\ faults' = IF r.res \in {"ok", "panic"} THEN faults ELSE faults - 1
    /\ faults' >= 0
    /\ hidden' = (hidden \/ r.res = "hid")

(* One block of the batch.  On an error the runner drops the batch and     *)
(* reads it again; the fields stay as the failed call left them.           *)
Put ==
    /\ pc = "put"
    /\ at <= last
    /\ \E r \in PutOf(plugin, mem, db, BlockAt(at)) :
          /\ mem' = r.mem
          /\ Costs(r)
          /\ pc' = IF r.res = "err" THEN "idle" ELSE "put"
    /\ at' = at + 1
    /\ UNCHANGED <<plugin, chain, db, row, cache, last, todo, done, want>>

(* The whole batch is put: what PutBlocks does with all of it, up to the   *)
(* error it may return, the panic the runner recovers from, or the first   *)
(* transaction of commit().                                                *)
Begin ==
    /\ pc = "put"
    /\ at > last
    /\ \E c \in CommitOf(plugin, mem, db, cache + 1, last) :
          /\ todo' = c.txs
          /\ done' = c.after
          /\ mem' = IF c.res \in {"err", "panic"} THEN c.after ELSE mem
          /\ pc' = IF c.res \in {"err", "panic"} THEN "idle" ELSE "commit"
          /\ Costs(c)
    /\ UNCHANGED <<plugin, chain, db, row, cache, last, at, want>>

Applied(tx) ==
    /\ db' \in Run(db, tx.stmts)
    /\ row' = IF tx.height = NoHeight THEN row ELSE tx.height
    /\ cache' = IF tx.height = NoHeight THEN cache ELSE tx.height

Transact ==
    /\ pc = "commit"
    /\ Applied(Head(todo))
    /\ todo' = Tail(todo)
    /\ pc' = IF todo' = <<>> THEN "idle" ELSE "commit"
    /\ mem' = IF todo' = <<>> THEN done ELSE mem
    /\ UNCHANGED <<plugin, chain, last, at, done, faults, hidden, want>>

Abandoned ==
    /\ todo' = <<>>
    /\ pc' = "idle"
    /\ UNCHANGED <<plugin, chain, last, at, done, hidden, want>>

(* A refused statement, or one that fails: the transaction rolls back. *)
Rollback ==
    /\ pc = "commit"
    /\ Abandoned
    /\ \/ Run(db, Head(todo).stmts) = {} /\ faults' = faults
       \/ faults > 0 /\ faults' = faults - 1
    /\ mem' \in Head(todo).bad
    /\ UNCHANGED <<db, row>>
    /\ cache' = IF Head(todo).stmts = <<>> THEN Head(todo).height ELSE cache

(* The transaction commits and its answer is lost: PutBlocks fails. *)
LostAck ==
    /\ pc = "commit"
    /\ faults > 0
    /\ Applied(Head(todo))
    /\ mem' = Head(todo).sent
    /\ Abandoned
    /\ faults' = faults - 1

(* Unload and load: the shared object and its package variable stay.       *)
Reload ==
    /\ pc = "idle"
    /\ faults > 0
    /\ faults' = faults - 1
    /\ pc' = "down"
    /\ UNCHANGED <<plugin, chain, mem, db, row, cache, last, at, todo, done,
                   hidden, want>>

(* The process dies and comes back: fields and cache are gone. *)
Crash ==
    /\ faults > 0
    /\ faults' = faults - 1
    /\ mem' = Fresh(plugin)
    /\ done' = mem'
    /\ cache' = row
    /\ pc' = "down"
    /\ last' = 0 /\ at' = 0
    /\ todo' = <<>>
    /\ UNCHANGED <<plugin, chain, db, row, hidden, want>>

(* The chain is indexed. *)
Finished ==
    /\ pc = "idle"
    /\ cache = Tip
    /\ UNCHANGED vars

Next == Start \/ Fetch \/ Tick \/ Put \/ Begin \/ Transact \/ Rollback \/ LostAck
        \/ Reload \/ Crash \/ Finished

Spec == Init /\ [][Next]_vars
(* The goroutine goes on as long as the process lives. *)
Work == Start \/ Fetch \/ Tick \/ Put \/ Begin \/ Transact \/ Rollback

LiveSpec == Spec /\ WF_vars(Work)

(* Types, with the height of the row never past the chain. *)
TypeOK ==
    /\ plugin \in Plugins
    /\ chain \in Chains(plugin)
    /\ row \in 0 .. Tip /\ cache \in 0 .. Tip
    /\ pc \in {"down", "idle", "put", "commit"}
    /\ last \in 0 .. Tip /\ at \in 0 .. Tip + 1
    /\ pc = "commit" <=> todo # <<>>
    /\ faults \in 0 .. FaultsOf(plugin)
    /\ hidden \in BOOLEAN

(* Once nothing fails any more the whole chain is indexed: what a failed   *)
(* call leaves in a plugin's fields never makes every later call fail.     *)
Indexed == <>(cache = Tip)
=============================================================================

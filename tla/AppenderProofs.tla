--------------------------- MODULE AppenderProofs ---------------------------
(***************************************************************************)
(* The plugins that only append what a block says: block_footer,           *)
(* block_receipts_transaction, illegal_action, action_execution,           *)
(* block_action, account_abstraction and erc1967_proxy.  For every chain,  *)
(* batch size, start height and number of failures their tables are those  *)
(* of the chain put block by block without a failure, whatever was         *)
(* retried, committed without an answer, reloaded or lost in a crash,      *)
(* unless the plugin passed a failure over (erc1967_proxy).                *)
(*                                                                         *)
(* The run DataPlugins checks this on chains of three blocks with two      *)
(* failures.  What the proof shows beyond it is that a batch may be of     *)
(* any size: the rows of the blocks in the buffer, added to the tables of  *)
(* the height in index_heights, are the tables of the last of these        *)
(* blocks (Content).                                                       *)
(*                                                                         *)
(* The invariant is needed because neither the buffer nor the transaction  *)
(* in flight occur in Exact, and because the argument turns on both: a     *)
(* batch that fails has to leave an empty buffer behind, or its rows are   *)
(* there twice after the retry, and the transaction that writes the rows   *)
(* has to write the height with them, or a lost answer repeats them.       *)
(*                                                                         *)
(* The second half, from Tokens on, is the same argument for seven of the  *)
(* token plugins and their property, TokensExact.  There a row             *)
(* depends on what the plugin knows of a contract, a map that outlives     *)
(* failed calls and reloads, so the invariant also says that the map is    *)
(* right as long as no failed check was taken for an answer (Known); the   *)
(* tables agree up to how often a holder is inserted (Same); and the three *)
(* plugins in Repeats are left out of it from the first failure on, which  *)
(* is what erc721_v2, erc1155_v2 and erc20_v2 do: they retry with rows of  *)
(* the failed call in the buffer.                                          *)
(***************************************************************************)
EXTENDS MCDataPlugins, TableProofs, SequenceTheorems

(* The plugins of these proofs. *)
Appenders == {"block_footer", "block_receipts_transaction", "illegal_action",
              "action_execution", "block_action", "account_abstraction",
              "erc1967_proxy"}

(* The rows a block adds when nothing fails. *)
Added(p, b) ==
    CASE p = "block_footer" -> Facts("block_footer", b, DOMAIN Acts(b))
      [] p = "block_receipts_transaction" ->
            Facts("receipt_transactions", b,
                  block_receipts_transaction_handleTransactionLogs(b))
      [] p = "illegal_action" ->
            Facts("illegal_action", b, {ij \in Logs(b) : LogAt(b, ij)[2] = Bad})
      [] p = "action_execution" ->
            Facts("action_execution", b,
                  {i \in DOMAIN Acts(b) : Acts(b)[i].kind = "execution"})
      [] p = "block_action" -> Facts("block_action", b, Receipts(b))
      [] p = "account_abstraction" ->
            Facts("account_abstraction", b,
                  {i \in Receipts(b) : Acts(b)[i].kind = "deployed"})
      [] p = "erc1967_proxy" ->
            Facts("erc1967_proxy", b,
                  {i \in Receipts(b) : Acts(b)[i].kind = "upgraded"})

(* The statements of the transaction of a batch. *)
Stmts(p, q, d, from, to) ==
    CASE p = "block_footer" -> <<Insert(q)>>
      [] p = "block_action" ->
            <<Delete({k \in DOMAIN d : from <= k[2] /\ k[2] <= to}), Serial(q)>>
      [] OTHER -> <<Serial(q)>>

(* The package variable of such a plugin: a buffer of rows. *)
Fields(q) == [buf |-> q]

(* Blocks with finitely many actions, and no later start height than the   *)
(* height after the last of them.                                          *)
LawfulChain(ch) ==
    /\ \E B : ch \in Seq(B)
    /\ \A h \in 1 .. Len(ch) : IsFiniteSet(DOMAIN ch[h])
    /\ StartHeight <= Len(ch) + 1

(* MCCommitOf, for these plugins: the part of it that does not read the    *)
(* chain, whose blocks are a variable of the harness.                      *)
CommitOfAppender(p, m, d, from, to) ==
    CASE p = "account_abstraction" -> account_abstraction_commit(m, to)
      [] p = "erc1967_proxy" -> erc1967_proxy_commit(m, to)
      [] OTHER -> BlockCommitOf(p, m, d, from, to)

(* The harness with the operators of these plugins, as the instance        *)
(* MCDataPlugins has them, on any lawful chains.                           *)
Wired ==
    /\ Plugins \subseteq Appenders
    /\ \A p \in Plugins : FaultsOf(p) \in Nat /\ BatchOf(p) \in Nat
    /\ \A p \in Plugins : \A ch \in Chains(p) : LawfulChain(ch)
    /\ Workers = MCWorkers
    /\ \A p \in Plugins :
          /\ Fresh(p) = MCFresh(p)
          /\ \A m, d, h, ch : StartOf(p, m, d, h, ch) = MCStartOf(p, m, d, h, ch)
          /\ \A m, d, b : PutOf(p, m, d, b) = MCPutOf(p, m, d, b)
          /\ \A m, d, from, to : CommitOf(p, m, d, from, to) = CommitOfAppender(p, m, d, from, to)

(* Where the instance MCDataPlugins has them in its cases. *)
LEMMA AppenderSets ==
    ASSUME NEW p \in Appenders
    PROVE  /\ p \notin TokenPlugins
           /\ p \in {"account_abstraction", "erc1967_proxy"} <=> p \in OtherPlugins
           /\ p \notin MCWorkers
  BY DEF Appenders, TokenPlugins, OtherPlugins, ClickHousePlugins, MCWorkers

(* On these plugins it is MCCommitOf. *)
LEMMA CommitOfAppenderIs ==
    ASSUME NEW p \in Appenders, NEW m, NEW d, NEW from, NEW to
    PROVE  CommitOfAppender(p, m, d, from, to) = MCCommitOf(p, m, d, from, to)
  <1>1. CASE p \in {"account_abstraction", "erc1967_proxy"}
    BY <1>1, AppenderSets DEF CommitOfAppender, MCCommitOf, OtherCommitOf
  <1>2. CASE p \notin {"account_abstraction", "erc1967_proxy"}
    BY <1>2, AppenderSets DEF CommitOfAppender, MCCommitOf
  <1> QED BY <1>1, <1>2

(* The buffer is empty when the process starts. *)
LEMMA FreshIs ==
    ASSUME Wired, NEW p \in Plugins
    PROVE  Fresh(p) = Fields(<<>>)
  <1>1. p \in Appenders /\ Fresh(p) = MCFresh(p)
    BY DEF Wired
  <1> QED
    BY <1>1, AppenderSets DEF MCFresh, BlockFresh, OtherFresh, Fields, NoRows, Appenders

(* PutBlock appends the rows of the block to the buffer; the failure of    *)
(* block_action empties it, and the one erc1967_proxy passes over loses    *)
(* rows.                                                                   *)
LEMMA PutIs ==
    ASSUME Wired, NEW p \in Plugins, NEW q, NEW d, NEW b
    PROVE  /\ Ok(Fields(q \o Added(p, b))) \in PutOf(p, Fields(q), d, b)
           /\ \A r \in PutOf(p, Fields(q), d, b) :
                 \/ r = Ok(Fields(q \o Added(p, b)))
                 \/ r = Err(Fields(<<>>))
                 \/ r.res = "hid" /\ \E s : r.mem = Fields(s)
  <1>1. p \in Appenders /\ PutOf(p, Fields(q), d, b) = MCPutOf(p, Fields(q), d, b)
    BY DEF Wired
  <1>2. \A s : Buffer(Fields(q), s) = Fields(q \o s)
    BY DEF Buffer, Fields
  <1>3. Emptied(Fields(q)) = Fields(<<>>)
    BY DEF Emptied, Fields, NoRows
  <1>4. CASE p = "erc1967_proxy"
    <2> DEFINE upgrades == {i \in Receipts(b) : Acts(b)[i].kind = "upgraded"}
               with(F) == [res |-> IF F = {} THEN "ok" ELSE "hid",
                           mem |-> Buffer(Fields(q), Facts("erc1967_proxy", b, upgrades \ F))]
    <2>1. PutOf(p, Fields(q), d, b) = {with(F) : F \in SUBSET upgrades}
      BY <1>1, <1>4, AppenderSets DEF MCPutOf, OtherPutOf, erc1967_proxy_putBlock
    <2>2. upgrades \ {} = upgrades
      OBVIOUS
    <2>3. Added(p, b) = Facts("erc1967_proxy", b, upgrades)
      BY <1>4 DEF Added
    <2> HIDE DEF upgrades
    <2>4. with({}) = Ok(Fields(q \o Added(p, b)))
      BY <2>2, <2>3, <1>2 DEF Ok
    <2>5. \A F \in SUBSET upgrades : F # {} =>
             with(F).res = "hid" /\ \E s : with(F).mem = Fields(s)
      BY <1>2
    <2> HIDE DEF with
    <2> QED BY <2>1, <2>4, <2>5
  <1>5. CASE p = "block_action"
    <2>1. PutOf(p, Fields(q), d, b) = block_action_handleBlock(Fields(q), b)
      BY <1>1, <1>5, AppenderSets DEF MCPutOf, BlockPutOf
    <2> QED BY <2>1, <1>2, <1>3, <1>5 DEF block_action_handleBlock, Added
  <1>6. CASE p \notin {"erc1967_proxy", "block_action"}
    <2>1. PutOf(p, Fields(q), d, b) = {Ok(Buffer(Fields(q), Added(p, b)))}
      <3>1. CASE p = "block_footer"
        BY <1>1, <3>1, AppenderSets DEF MCPutOf, BlockPutOf, block_footer_putBlock, Added
      <3>2. CASE p = "block_receipts_transaction"
        BY <1>1, <3>2, AppenderSets DEF MCPutOf, BlockPutOf, block_receipts_transaction_putBlock, Added
      <3>3. CASE p = "illegal_action"
        BY <1>1, <3>3, AppenderSets DEF MCPutOf, BlockPutOf, illegal_action_putBlock, Added
      <3>4. CASE p = "action_execution"
        BY <1>1, <3>4, AppenderSets DEF MCPutOf, BlockPutOf, action_execution_putBlock, Added
      <3>5. CASE p = "account_abstraction"
        BY <1>1, <3>5, AppenderSets DEF MCPutOf, OtherPutOf, account_abstraction_putBlock, Added
      <3> QED BY <1>1, <1>6, <3>1, <3>2, <3>3, <3>4, <3>5 DEF Appenders
    <2> QED BY <2>1, <1>2
  <1> QED BY <1>4, <1>5, <1>6

(* PutBlocks takes the buffer and writes it, with the height, in one       *)
(* transaction.                                                            *)
LEMMA CommitIs ==
    ASSUME Wired, NEW p \in Plugins, NEW q, NEW d, NEW from, NEW to
    PROVE  CommitOf(p, Fields(q), d, from, to)
           = {Commits(<<Tx(Fields(<<>>), Stmts(p, q, d, from, to), to)>>, Fields(<<>>))}
  <1>1. p \in Appenders /\ CommitOf(p, Fields(q), d, from, to) = CommitOfAppender(p, Fields(q), d, from, to)
    BY DEF Wired
  <1>2. Emptied(Fields(q)) = Fields(<<>>) /\ Fields(q).buf = q
    BY DEF Emptied, Fields, NoRows
  <1>3. CommitOfAppender(p, Fields(q), d, from, to) = TakeAndCommit(Fields(q), Stmts(p, q, d, from, to), to)
    <2>1. CASE p = "block_footer"
      BY <1>1, <1>2, <2>1, AppenderSets DEF CommitOfAppender, BlockCommitOf, block_footer_commit, Stmts
    <2>2. CASE p = "block_receipts_transaction"
      BY <1>1, <1>2, <2>2, AppenderSets DEF CommitOfAppender, BlockCommitOf, block_receipts_transaction_commit, Stmts
    <2>3. CASE p = "illegal_action"
      BY <1>1, <1>2, <2>3, AppenderSets DEF CommitOfAppender, BlockCommitOf, illegal_action_commit, Stmts
    <2>4. CASE p = "action_execution"
      BY <1>1, <1>2, <2>4, AppenderSets DEF CommitOfAppender, BlockCommitOf, action_execution_commit, Stmts
    <2>5. CASE p = "block_action"
      BY <1>1, <1>2, <2>5, AppenderSets DEF CommitOfAppender, BlockCommitOf, block_action_commitActs, Stmts
    <2>6. CASE p = "account_abstraction"
      BY <1>1, <1>2, <2>6, AppenderSets DEF CommitOfAppender, account_abstraction_commit, Stmts
    <2>7. CASE p = "erc1967_proxy"
      BY <1>1, <1>2, <2>7, AppenderSets DEF CommitOfAppender, erc1967_proxy_commit, Stmts
    <2> QED BY <1>1, <2>1, <2>2, <2>3, <2>4, <2>5, <2>6, <2>7 DEF Appenders
  <1> QED BY <1>1, <1>2, <1>3 DEF TakeAndCommit
-----------------------------------------------------------------------------
(* The first height the plugin indexes less one. *)
First(p) == IF p = "account_abstraction" THEN StartAt(0) ELSE 0

Genesis0 == Row(<<"receipt_transactions", 0, "genesis">>, 1)

(* What the plugin's tables are as Start leaves them at height 0. *)
Empty0(p) == IF p = "block_receipts_transaction"
             THEN Adds(EmptyTables, <<Genesis0>>) ELSE EmptyTables

(* A start at height 0 of block_receipts_transaction inserts the genesis   *)
(* row, unless the table has one.                                          *)
LEMMA GenesisIs ==
    ASSUME NEW d
    PROVE  (CHOOSE x \in Run(d, Genesis("receipt_transactions", d)) : TRUE)
           = IF \E k \in DOMAIN d : k[1] = "receipt_transactions" /\ k[2] = 0
             THEN d ELSE Adds(d, <<Genesis0>>)
  <1>1. CASE \E k \in DOMAIN d : k[1] = "receipt_transactions" /\ k[2] = 0
    <2>1. Genesis("receipt_transactions", d) = <<>>
      BY <1>1 DEF Genesis
    <2>2. Run(d, <<>>) = {d}
      BY RunNone
    <2> QED BY <1>1, <2>1, <2>2
  <1>2. CASE ~\E k \in DOMAIN d : k[1] = "receipt_transactions" /\ k[2] = 0
    <2>1. Genesis("receipt_transactions", d) = <<Serial(<<Genesis0>>)>>
      BY <1>2 DEF Genesis, Genesis0
    <2>2. Run(d, <<Serial(<<Genesis0>>)>>) = {Adds(d, <<Genesis0>>)}
      BY RunOne, SerialExec
    <2> QED BY <1>2, <2>1, <2>2
  <1> QED BY <1>1, <1>2

(* Start drops and creates the tables at height 0 and no other, and moves  *)
(* the height of account_abstraction to its start height.                  *)
LEMMA StartIs ==
    ASSUME Wired, NEW p \in Plugins, NEW m, NEW d, NEW h \in Nat, NEW ch
    PROVE  /\ StartOf(p, m, d, h, ch).mem = m
           /\ StartOf(p, m, d, h, ch).height = IF h < First(p) THEN First(p) ELSE h
           /\ h = 0 => StartOf(p, m, d, h, ch).db = Empty0(p)
           /\ h > 0 /\ (p = "block_receipts_transaction" => Genesis0.k \in DOMAIN d)
              => StartOf(p, m, d, h, ch).db = d
           /\ First(p) \in Nat
  <1>1. p \in Appenders /\ StartOf(p, m, d, h, ch) = MCStartOf(p, m, d, h, ch)
    BY DEF Wired
  <1>2. StartHeight \in Nat
    BY StartHeightAssumption
  <1>3. First(p) \in Nat
    BY <1>2 DEF First, StartAt
  <1>4. CASE p = "account_abstraction"
    <2>1. StartOf(p, m, d, h, ch) = Started(m, AutoMigrate(d, h), StartAt(h))
      BY <1>1, <1>4, AppenderSets
      DEF MCStartOf, OtherStartOf, ClickHousePlugins, account_abstraction_Start
    <2>2. StartAt(h) = IF h < First(p) THEN First(p) ELSE h
      BY <1>2, <1>4 DEF First, StartAt
    <2> QED BY <1>3, <1>4, <2>1, <2>2 DEF Started, AutoMigrate, Empty0
  <1>5. CASE p = "block_receipts_transaction"
    <2> DEFINE d0 == AutoMigrate(d, h)
               d1 == CHOOSE x \in Run(d0, Genesis("receipt_transactions", d0)) : TRUE
    <2>1. StartOf(p, m, d, h, ch) = Started(m, d1, h)
      BY <1>1, <1>5, AppenderSets DEF MCStartOf, BlockStartOf, block_receipts_transaction_Start
    <2>2. d1 = IF \E k \in DOMAIN d0 : k[1] = "receipt_transactions" /\ k[2] = 0
               THEN d0 ELSE Adds(d0, <<Genesis0>>)
      <3> HIDE DEF d0
      <3> QED BY GenesisIs
    <2>3. h = 0 => d0 = EmptyTables
      BY DEF AutoMigrate
    <2>4. h > 0 => d0 = d
      BY DEF AutoMigrate
    <2>5. DOMAIN EmptyTables = {}
      BY DEF EmptyTables
    <2>6. Genesis0.k[1] = "receipt_transactions" /\ Genesis0.k[2] = 0
      BY DEF Genesis0, Row
    <2>7. h = 0 => d1 = Empty0(p)
      BY <2>2, <2>3, <2>5, <1>5 DEF Empty0
    <2>8. h > 0 /\ Genesis0.k \in DOMAIN d => d1 = d
      BY <2>2, <2>4, <2>6
    <2>9. First(p) = 0
      BY <1>5 DEF First
    <2> HIDE DEF d1
    <2> QED BY <1>5, <2>1, <2>7, <2>8, <2>9 DEF Started
  <1>6. CASE p \notin {"account_abstraction", "block_receipts_transaction"}
    <2>1. StartOf(p, m, d, h, ch) = Started(m, AutoMigrate(d, h), h)
      BY <1>1, <1>6, AppenderSets
      DEF MCStartOf, BlockStartOf, OtherStartOf, Appenders, ClickHousePlugins
    <2> QED BY <1>6, <2>1 DEF First, Started, AutoMigrate, Empty0
  <1> QED BY <1>4, <1>5, <1>6
-----------------------------------------------------------------------------
(* Rows of blocks from .. to, each of them once. *)
FactsOf(q, from, to) ==
    /\ \E R : q \in Seq(R)
    /\ KeysOnce(q)
    /\ \A i \in DOMAIN q : q[i].v = 1 /\ q[i].k[2] \in from .. to

(* The rows of one table for a set of things of a block. *)
LEMMA FactsFacts ==
    ASSUME NEW t, NEW b, b.h \in Int, NEW S, IsFiniteSet(S)
    PROVE  FactsOf(Facts(t, b, S), b.h, b.h)
  <1> DEFINE row_(x) == Row(<<t, b.h, x>>, 1)
             T == {row_(x) : x \in S}
  <1>1. IsFiniteSet(T)
    <2> DEFINE f == [x \in S |-> row_(x)]
    <2>1. f \in [S -> T] /\ \A y \in T : \E x \in S : f[x] = y
      OBVIOUS
    <2> HIDE DEF f, T
    <2>2. f \in Surjection(S, T)
      BY <2>1 DEF Surjection
    <2> QED BY <2>2, FS_Surjection
  <1>2. Facts(t, b, S) = Rows(T)
    BY DEF Facts
  <1>3. /\ Rows(T) \in Seq(T)
        /\ \A i, j \in DOMAIN Rows(T) : Rows(T)[i] = Rows(T)[j] => i = j
    <2> HIDE DEF T
    <2> QED BY <1>1, RowsOnce
  <1>4. \A r \in T : r.v = 1 /\ r.k[2] = b.h /\ r = Row(r.k, 1)
    BY DEF Row
  <1>5. PICK q : q = Rows(T)
    OBVIOUS
  <1> HIDE DEF T
  <1>6. \A i \in DOMAIN q : q[i] \in T
    BY <1>3, <1>5
  <1>7. KeysOnce(q)
    BY <1>3, <1>4, <1>5, <1>6 DEF KeysOnce
  <1> QED BY <1>2, <1>3, <1>4, <1>5, <1>6, <1>7 DEF FactsOf

(* A block with finitely many actions has finitely many logs. *)
LEMMA LogsFinite ==
    ASSUME NEW b, IsFiniteSet(DOMAIN Acts(b))
    PROVE  IsFiniteSet(Receipts(b)) /\ IsFiniteSet(Logs(b))
  <1>1. Receipts(b) \in SUBSET DOMAIN Acts(b)
    BY DEF Receipts
  <1>2. IsFiniteSet(Receipts(b))
    BY <1>1, FS_Subset
  <1>3. IsFiniteSet(Receipts(b) \X (1 .. 2))
    <2>1. 1 \in Int /\ 2 \in Int
      OBVIOUS
    <2>2. IsFiniteSet(1 .. 2)
      BY <2>1, FS_Interval
    <2> QED BY <1>2, <2>2, FS_Product
  <1>4. Logs(b) \in SUBSET (Receipts(b) \X (1 .. 2))
    BY DEF Logs
  <1> QED BY <1>2, <1>3, <1>4, FS_Subset

(* What a plugin adds for a block are rows of that block. *)
LEMMA AddedFacts ==
    ASSUME NEW p \in Appenders, NEW b, b.h \in Int, IsFiniteSet(DOMAIN Acts(b))
    PROVE  FactsOf(Added(p, b), b.h, b.h)
  <1>1. \E t, S : IsFiniteSet(S) /\ Added(p, b) = Facts(t, b, S)
    <2>1. \A S \in SUBSET DOMAIN Acts(b) : IsFiniteSet(S)
      BY FS_Subset
    <2>2. \A S \in SUBSET Logs(b) : IsFiniteSet(S)
      BY LogsFinite, FS_Subset
    <2>3. Receipts(b) \in SUBSET DOMAIN Acts(b)
      BY DEF Receipts
    <2>4. CASE p = "block_footer"
      <3>1. DOMAIN Acts(b) \in SUBSET DOMAIN Acts(b)
        OBVIOUS
      <3> QED BY <2>4, <2>1, <3>1 DEF Added
    <2>5. CASE p = "block_receipts_transaction"
      <3>1. block_receipts_transaction_handleTransactionLogs(b) \in SUBSET Logs(b)
        BY DEF block_receipts_transaction_handleTransactionLogs
      <3> QED BY <2>5, <2>2, <3>1 DEF Added
    <2>6. CASE p = "illegal_action"
      <3>1. {ij \in Logs(b) : LogAt(b, ij)[2] = Bad} \in SUBSET Logs(b)
        OBVIOUS
      <3> QED BY <2>6, <2>2, <3>1 DEF Added
    <2>7. CASE p = "action_execution"
      <3>1. {i \in DOMAIN Acts(b) : Acts(b)[i].kind = "execution"} \in SUBSET DOMAIN Acts(b)
        OBVIOUS
      <3> QED BY <2>7, <2>1, <3>1 DEF Added
    <2>8. CASE p = "block_action"
      BY <2>8, <2>1, <2>3 DEF Added
    <2>9. CASE p = "account_abstraction"
      <3>1. {i \in Receipts(b) : Acts(b)[i].kind = "deployed"} \in SUBSET DOMAIN Acts(b)
        BY <2>3
      <3> QED BY <2>9, <2>1, <3>1 DEF Added
    <2>10. CASE p = "erc1967_proxy"
      <3>1. {i \in Receipts(b) : Acts(b)[i].kind = "upgraded"} \in SUBSET DOMAIN Acts(b)
        BY <2>3
      <3> QED BY <2>10, <2>1, <3>1 DEF Added
    <2> QED BY <2>4, <2>5, <2>6, <2>7, <2>8, <2>9, <2>10 DEF Appenders
  <1> QED BY <1>1, FactsFacts

(* Tables whose rows are of blocks up to h. *)
UpTo(d, h) == IsTable(d) /\ \A k \in DOMAIN d : k[2] \in 0 .. h

(* Rows of blocks up to g keep a table one of blocks up to g. *)
LEMMA AddsUpTo ==
    ASSUME NEW h \in Nat, NEW g \in Nat, h <= g, NEW d, UpTo(d, h),
           NEW q, FactsOf(q, h + 1, g)
    PROVE  UpTo(Adds(d, q), g)
  <1>1. PICK R : q \in Seq(R)
    BY DEF FactsOf
  <1>2. IsTable(Adds(d, q)) /\ DOMAIN Adds(d, q) = DOMAIN d \cup Keys(q)
    BY <1>1, AddsValues DEF UpTo
  <1>3. \A k \in Keys(q) : k[2] \in 0 .. g
    BY DEF Keys, FactsOf
  <1> QED BY <1>2, <1>3 DEF UpTo

(* A batch's transaction never fails on its own: the rows of its blocks    *)
(* are not in the table yet, so that the insert of block_footer meets no   *)
(* duplicate and the delete of block_action deletes nothing.               *)
LEMMA StmtsRun ==
    ASSUME NEW p \in Appenders, NEW h \in Nat, NEW g \in Nat, NEW d, UpTo(d, h),
           NEW q, FactsOf(q, h + 1, g)
    PROVE  Run(d, Stmts(p, q, d, h + 1, g)) = {Adds(d, q)}
  <1>1. PICK R : q \in Seq(R)
    BY DEF FactsOf
  <1>2. IsTable(d)
    BY DEF UpTo
  <1>3. CASE p = "block_footer"
    <2>1. Keys(q) \cap DOMAIN d = {}
      BY DEF Keys, FactsOf, UpTo
    <2>2. Exec(d, Insert(q)) = {Adds(d, q)}
      BY <1>1, <1>2, <2>1, InsertExec DEF FactsOf
    <2> QED BY <1>3, <2>2, RunOne DEF Stmts
  <1>4. CASE p = "block_action"
    <2> DEFINE ks == {k \in DOMAIN d : h + 1 <= k[2] /\ k[2] <= g}
    <2>1. ks \cap DOMAIN d = {}
      BY DEF UpTo
    <2>2. Exec(d, Delete(ks)) = {d}
      <3> HIDE DEF ks
      <3> QED BY <1>2, <2>1, DeleteExec
    <2>3. Stmts(p, q, d, h + 1, g) = <<Delete(ks), Serial(q)>>
      BY <1>4 DEF Stmts
    <2>4. Run(d, <<Delete(ks), Serial(q)>>) = UNION {Exec(x, Serial(q)) : x \in Exec(d, Delete(ks))}
      BY RunTwo
    <2> HIDE DEF ks
    <2>5. UNION {Exec(x, Serial(q)) : x \in {d}} = Exec(d, Serial(q))
      OBVIOUS
    <2> QED BY <2>2, <2>3, <2>4, <2>5, SerialExec
  <1>5. CASE p \notin {"block_footer", "block_action"}
    BY <1>5, RunOne, SerialExec DEF Stmts
  <1> QED BY <1>3, <1>4, <1>5

(* The rows of consecutive ranges of blocks, joined. *)
LEMMA FactsConcat ==
    ASSUME NEW h \in Nat, NEW i \in Nat, NEW j \in Nat, h <= i, i <= j,
           NEW q, FactsOf(q, h + 1, i), NEW r, FactsOf(r, i + 1, j)
    PROVE  /\ FactsOf(q \o r, h + 1, j)
           /\ \A d : IsTable(d) => Adds(d, q \o r) = Adds(Adds(d, q), r)
  <1>1. PICK R : q \in Seq(R) /\ r \in Seq(R)
    <2>1. PICK A : q \in Seq(A)
      BY DEF FactsOf
    <2>2. PICK B : r \in Seq(B)
      BY DEF FactsOf
    <2>3. q \in Seq(A \cup B) /\ r \in Seq(A \cup B)
      BY <2>1, <2>2
    <2> QED BY <2>3
  <1> DEFINE n == Len(q)
             m == Len(r)
  <1>2. n \in Nat /\ m \in Nat /\ DOMAIN q = 1 .. n /\ DOMAIN r = 1 .. m
        /\ DOMAIN (q \o r) = 1 .. (n + m) /\ q \o r \in Seq(R)
    BY <1>1
  <1>3. \A x \in 1 .. n : (q \o r)[x] = q[x]
    BY <1>1
  <1>4. \A x \in 1 .. (n + m) : x \notin 1 .. n => x - n \in 1 .. m /\ (q \o r)[x] = r[x - n]
    BY <1>1, <1>2
  <1>5. \A x \in 1 .. (n + m) : (q \o r)[x].v = 1 /\ (q \o r)[x].k[2] \in h + 1 .. j
    <2> SUFFICES ASSUME NEW x \in 1 .. (n + m)
                 PROVE (q \o r)[x].v = 1 /\ (q \o r)[x].k[2] \in h + 1 .. j
      OBVIOUS
    <2>1. CASE x \in 1 .. n
      BY <2>1, <1>2, <1>3 DEF FactsOf
    <2>2. CASE x \notin 1 .. n
      BY <2>2, <1>2, <1>4 DEF FactsOf
    <2> QED BY <2>1, <2>2
  <1>6. ASSUME NEW x \in 1 .. (n + m), NEW y \in 1 .. (n + m),
               (q \o r)[x].k = (q \o r)[y].k
        PROVE  x = y
    <2>1. \A u \in 1 .. n, v \in 1 .. m : q[u].k # r[v].k
      <3> SUFFICES ASSUME NEW u \in 1 .. n, NEW v \in 1 .. m PROVE q[u].k # r[v].k
        OBVIOUS
      <3>1. q[u].k[2] \in h + 1 .. i /\ r[v].k[2] \in i + 1 .. j
        BY <1>2 DEF FactsOf
      <3>2. PICK a, b : a = q[u].k[2] /\ b = r[v].k[2]
        OBVIOUS
      <3>3. \A c \in h + 1 .. i, d \in i + 1 .. j : c # d
        OBVIOUS
      <3>4. a # b
        BY <3>1, <3>2, <3>3
      <3> QED BY <3>2, <3>4
    <2>2. /\ \A u, v \in 1 .. n : q[u].k = q[v].k => u = v
          /\ \A u, v \in 1 .. m : r[u].k = r[v].k => u = v
      <3>1. KeysOnce(q) /\ KeysOnce(r)
        BY DEF FactsOf
      <3> HIDE DEF n, m
      <3> QED BY <1>2, <3>1 DEF KeysOnce
    <2>3. CASE x \in 1 .. n /\ y \in 1 .. n
      <3> HIDE DEF n, m
      <3>1. q[x].k = q[y].k
        BY <1>3, <1>6, <2>3
      <3> QED BY <2>2, <2>3, <3>1
    <2>4. CASE x \in 1 .. n /\ y \notin 1 .. n
      <3> HIDE DEF n, m
      <3> QED BY <2>4, <1>3, <1>4, <1>6, <2>1
    <2>5. CASE x \notin 1 .. n /\ y \in 1 .. n
      <3> HIDE DEF n, m
      <3> QED BY <2>5, <1>3, <1>4, <1>6, <2>1
    <2>6. CASE x \notin 1 .. n /\ y \notin 1 .. n
      <3> HIDE DEF n, m
      <3>1. PICK u, v : u = x - n /\ v = y - n
        OBVIOUS
      <3>2. u \in 1 .. m /\ v \in 1 .. m /\ r[u].k = r[v].k
        BY <1>4, <1>6, <2>6, <3>1
      <3>3. u = v
        BY <2>2, <3>2
      <3> QED BY <1>2, <3>1, <3>3
    <2> QED BY <2>3, <2>4, <2>5, <2>6
  <1>7. FactsOf(q \o r, h + 1, j)
    <2>1. PICK a : a = q \o r
      OBVIOUS
    <2>2. a \in Seq(R) /\ DOMAIN a = 1 .. (n + m)
      BY <1>2, <2>1
    <2> HIDE DEF n, m
    <2>3. KeysOnce(a)
      BY <1>6, <2>1, <2>2 DEF KeysOnce
    <2>4. \A x \in DOMAIN a : a[x].v = 1 /\ a[x].k[2] \in h + 1 .. j
      BY <1>5, <2>1, <2>2
    <2> QED BY <2>1, <2>2, <2>3, <2>4 DEF FactsOf
  <1> QED BY <1>1, <1>7, AddsConcat
-----------------------------------------------------------------------------
(* The recursive function in Clean exists and is what its definition says. *)
LEMMA CleanFunction ==
    ASSUME NEW p, NEW ch, Len(ch) \in Nat,
           StartOf(p, Fresh(p), EmptyTables, 0, ch).height \in Nat
    PROVE  LET s0 == StartOf(p, Fresh(p), EmptyTables, 0, ch)
           IN  \E C : /\ Clean(p, ch) = [h \in 0 .. Len(ch) |-> C[h].db]
                      /\ \A h \in 0 .. Len(ch) :
                            C[h] = IF h <= s0.height
                                   THEN [mem |-> s0.mem, db |-> s0.db, stuck |-> FALSE]
                                   ELSE CleanStep(p, ch, C[h - 1], h)
  <1> DEFINE s0 == StartOf(p, Fresh(p), EmptyTables, 0, ch)
             base == [mem |-> s0.mem, db |-> s0.db, stuck |-> FALSE]
             Is(C, n) == C = [h \in 0 .. n |-> IF h <= s0.height THEN base
                                               ELSE CleanStep(p, ch, C[h - 1], h)]
             Some == {n \in Nat : \E C : Is(C, n)}
  <1> HIDE DEF base
  <1>1. 0 \in Some
    <2> DEFINE C == [h \in 0 .. 0 |-> base]
    <2>1. C = [h \in 0 .. 0 |-> IF h <= s0.height THEN base ELSE CleanStep(p, ch, C[h - 1], h)]
      <3>1. \A h \in 0 .. 0 : h <= s0.height
        OBVIOUS
      <3> HIDE DEF s0
      <3> QED BY <3>1
    <2> QED BY <2>1
  <1>2. ASSUME NEW n \in Some PROVE n + 1 \in Some
    <2>1. PICK C : Is(C, n)
      OBVIOUS
    <2> DEFINE D == [h \in 0 .. n + 1 |->
                       IF h <= n THEN C[h]
                       ELSE IF h <= s0.height THEN base ELSE CleanStep(p, ch, C[h - 1], h)]
               step(E, h) == IF h <= s0.height THEN base ELSE CleanStep(p, ch, E[h - 1], h)
    <2>2. n \in Nat
      OBVIOUS
    <2>3. \A h \in 0 .. n : C[h] = step(C, h)
      <3>1. C = [h \in 0 .. n |-> step(C, h)]
        BY <2>1
      <3> HIDE DEF step
      <3> QED BY <3>1
    <2>4. \A h \in 0 .. n : D[h] = C[h]
      BY <2>2
    <2>5. \A h \in 0 .. n + 1 : D[h] = step(D, h)
      <3> SUFFICES ASSUME NEW h \in 0 .. n + 1 PROVE D[h] = step(D, h)
        OBVIOUS
      <3>0. s0.height \in Nat
        OBVIOUS
      <3>1. CASE h <= s0.height
        <4>1. h <= n => D[h] = base
          BY <2>2, <2>3, <2>4, <3>1
        <4>2. h > n => D[h] = base
          BY <2>2, <3>1
        <4> HIDE DEF D
        <4> QED BY <3>1, <4>1, <4>2, <2>2
      <3>2. CASE ~(h <= s0.height)
        <4>1. h - 1 \in 0 .. n /\ D[h - 1] = C[h - 1]
          <5>1. h - 1 \in 0 .. n
            BY <3>0, <3>2, <2>2
          <5> HIDE DEF D
          <5> QED BY <5>1, <2>4
        <4>2. D[h] = CleanStep(p, ch, C[h - 1], h)
          <5>1. CASE h <= n
            <6>1. h \in 0 .. n
              BY <5>1, <2>2
            <6>2. D[h] = C[h]
              BY <6>1, <2>4
            <6> HIDE DEF D
            <6> QED BY <6>1, <6>2, <2>3, <3>2
          <5>2. CASE ~(h <= n)
            BY <5>2, <3>2
          <5> QED BY <5>1, <5>2
        <4> HIDE DEF D
        <4> QED BY <3>2, <4>1, <4>2
      <3> QED BY <3>1, <3>2
    <2>6. D = [h \in 0 .. n + 1 |-> step(D, h)]
      <3>1. D = [h \in 0 .. n + 1 |-> D[h]]
        OBVIOUS
      <3> HIDE DEF D, step
      <3> QED BY <2>5, <3>1
    <2>7. Is(D, n + 1)
      BY <2>6
    <2> HIDE DEF D, step, Is
    <2> QED BY <2>2, <2>7
  <1>3. Some \in SUBSET Nat
    OBVIOUS
  <1>4. Len(ch) \in Some
    <2> HIDE DEF Some
    <2> QED BY <1>1, <1>2, <1>3, SetInduction
  <1> DEFINE C == CHOOSE C : Is(C, Len(ch))
  <1>5. Is(C, Len(ch))
    BY <1>4
  <1>6. Clean(p, ch) = [h \in 0 .. Len(ch) |-> C[h].db]
    BY DEF Clean, base
  <1> HIDE DEF C
  <1>7. \A h \in 0 .. Len(ch) : C[h] = IF h <= s0.height THEN base
                                      ELSE CleanStep(p, ch, C[h - 1], h)
    <2> DEFINE step(h) == IF h <= s0.height THEN base ELSE CleanStep(p, ch, C[h - 1], h)
    <2>1. C = [h \in 0 .. Len(ch) |-> step(h)]
      BY <1>5
    <2> HIDE DEF step
    <2>2. \A h \in 0 .. Len(ch) : C[h] = step(h)
      BY <2>1
    <2> QED BY <2>2 DEF step
  <1> QED BY <1>6, <1>7 DEF base
-----------------------------------------------------------------------------
(* A block of the chain, and a state of the run without failures. *)
Block(ch, h) == [h |-> h, c |-> ch[h]]
State(d) == [mem |-> Fields(<<>>), db |-> d, stuck |-> FALSE]

(* Every block of a lawful chain adds rows of that block. *)
LEMMA BlockFacts ==
    ASSUME Wired, NEW p \in Plugins, NEW ch \in Chains(p), NEW h \in 1 .. Len(ch)
    PROVE  FactsOf(Added(p, Block(ch, h)), h, h)
  <1>1. p \in Appenders /\ IsFiniteSet(DOMAIN ch[h]) /\ h \in Int
    <2>1. LawfulChain(ch)
      BY DEF Wired
    <2> QED BY <2>1 DEF LawfulChain, Wired
  <1>2. Acts(Block(ch, h)) = ch[h] /\ Block(ch, h).h = h
    BY DEF Acts, Block
  <1> QED BY <1>1, <1>2, AddedFacts

(* A step of the run without failures adds the rows of its block. *)
LEMMA CleanStepIs ==
    ASSUME Wired, NEW p \in Plugins, NEW ch \in Chains(p), NEW h \in 1 .. Len(ch),
           NEW d, UpTo(d, h - 1)
    PROVE  /\ CleanStep(p, ch, State(d), h) = State(Adds(d, Added(p, Block(ch, h))))
           /\ UpTo(Adds(d, Added(p, Block(ch, h))), h)
  <1> DEFINE b == Block(ch, h)
             q == Added(p, b)
             tx == Tx(Fields(<<>>), Stmts(p, q, d, h, h), h)
             r == CHOOSE x \in PutOf(p, Fields(<<>>), d, b) : x.res = "ok"
             c == CHOOSE x \in CommitOf(p, Fields(q), d, h, h) : x.res \in {"ok", "panic"}
  <1>0. p \in Appenders
    BY DEF Wired
  <1>1. h \in Int /\ h \in Nat /\ h - 1 \in Nat /\ (h - 1) + 1 = h /\ h - 1 <= h
    <2>1. PICK k \in 1 .. Len(ch) : k = h
      OBVIOUS
    <2> QED OBVIOUS
  <1>2. FactsOf(q, h, h)
    BY BlockFacts
  <1>3. <<>> \o q = q
    <2>1. PICK R : q \in Seq(R)
      BY <1>2 DEF FactsOf
    <2> HIDE DEF q
    <2> QED BY <2>1
  <1>4. r = Ok(Fields(q))
    <2> HIDE DEF q, b
    <2>1. Ok(Fields(<<>> \o Added(p, b))) \in PutOf(p, Fields(<<>>), d, b)
      BY PutIs
    <2>2. \A x \in PutOf(p, Fields(<<>>), d, b) :
            x.res = "ok" => x = Ok(Fields(<<>> \o Added(p, b)))
      <3>1. \A m : Err(m).res = "err"
        BY DEF Err
      <3> QED BY <3>1, PutIs
    <2>3. Ok(Fields(<<>> \o Added(p, b))).res = "ok"
      BY DEF Ok
    <2> QED BY <2>1, <2>2, <2>3, <1>3 DEF q
  <1>5. c = Commits(<<tx>>, Fields(<<>>))
    <2> HIDE DEF q, b
    <2>1. CommitOf(p, Fields(q), d, h, h) = {Commits(<<tx>>, Fields(<<>>))}
      BY CommitIs
    <2> QED BY <2>1 DEF Commits
  <1>6. Run(d, Stmts(p, q, d, h, h)) = {Adds(d, q)}
    <2> HIDE DEF q, b
    <2> QED BY <1>0, <1>1, <1>2, StmtsRun
  <1>7. FoldLeft(LAMBDA a, t : a \o t.stmts, <<>>, <<tx>>) = Stmts(p, q, d, h, h)
    <2>1. \E R : Stmts(p, q, d, h, h) \in Seq(R)
      <3>1. \A y, z : <<y>> \in Seq({y}) /\ <<y, z>> \in Seq({y, z})
        OBVIOUS
      <3> HIDE DEF q, b
      <3>2. CASE p = "block_footer"
        BY <3>1, <3>2 DEF Stmts
      <3>3. CASE p = "block_action"
        BY <3>1, <3>3 DEF Stmts
      <3>4. CASE p \notin {"block_footer", "block_action"}
        BY <3>1, <3>4 DEF Stmts
      <3> QED BY <3>2, <3>3, <3>4
    <2>2. tx.stmts = Stmts(p, q, d, h, h)
      BY DEF Tx
    <2> HIDE DEF tx, q, b
    <2> QED BY <2>1, <2>2, JoinOne
  <1>8. CleanAfter(State(d), Commits(<<tx>>, Fields(<<>>))) = State(Adds(d, q))
    <2> DEFINE cm == Commits(<<tx>>, Fields(<<>>))
    <2>1. cm.after = Fields(<<>>) /\ cm.res = "ok" /\ cm.txs = <<tx>> /\ State(d).db = d
      BY DEF Commits, State
    <2>2. CleanAfter(State(d), cm)
          = [mem |-> cm.after, stuck |-> cm.res = "panic",
             db |-> CHOOSE x \in Run(State(d).db, FoldLeft(LAMBDA a, t : a \o t.stmts, <<>>, cm.txs)) : TRUE]
      BY DEF CleanAfter
    <2> HIDE DEF cm, tx, q, b
    <2>3. CleanAfter(State(d), cm)
          = [mem |-> Fields(<<>>), stuck |-> FALSE,
             db |-> CHOOSE x \in Run(d, Stmts(p, q, d, h, h)) : TRUE]
      BY <2>1, <2>2, <1>7
    <2> QED BY <2>3, <1>6 DEF State, cm
  <1>9. CleanStep(p, ch, State(d), h) = State(Adds(d, q))
    <2>1. State(d).mem = Fields(<<>>) /\ State(d).db = d /\ State(d).stuck = FALSE
      BY DEF State
    <2>2. Ok(Fields(q)).mem = Fields(q)
      BY DEF Ok
    <2>3. b = [h |-> h, c |-> ch[h]]
      BY DEF Block
    <2>4. CleanStep(p, ch, State(d), h)
          = CleanAfter(State(d), CHOOSE x \in CommitOf(p, r.mem, d, h, h) : x.res \in {"ok", "panic"})
      <3> HIDE DEF q, tx
      <3> QED BY <2>1, <2>3 DEF CleanStep
    <2> HIDE DEF r, q, tx, b
    <2> QED BY <2>4, <2>2, <1>4, <1>5, <1>8
  <1>10. UpTo(Adds(d, q), h)
    <2> HIDE DEF q, b
    <2> QED BY <1>1, <1>2, AddsUpTo
  <1> QED BY <1>9, <1>10

(* The tables Start makes at height 0 have rows of no block. *)
LEMMA EmptyUpTo ==
    ASSUME NEW p
    PROVE  /\ UpTo(Empty0(p), 0)
           /\ p = "block_receipts_transaction" => Genesis0.k \in DOMAIN Empty0(p)
  <1>1. IsTable(EmptyTables) /\ DOMAIN EmptyTables = {}
    BY DEF IsTable, EmptyTables
  <1>2. UpTo(EmptyTables, 0)
    BY <1>1 DEF UpTo
  <1>3. <<Genesis0>> \in Seq({Genesis0}) /\ Keys(<<Genesis0>>) = {Genesis0.k}
    BY DEF Keys
  <1>4. IsTable(Adds(EmptyTables, <<Genesis0>>)) /\ DOMAIN Adds(EmptyTables, <<Genesis0>>) = {Genesis0.k}
    <2>1. DOMAIN Adds(EmptyTables, <<Genesis0>>) = DOMAIN EmptyTables \cup Keys(<<Genesis0>>)
      BY <1>1, <1>3, AddsValues
    <2> QED BY <1>1, <1>3, <2>1, AddsValues
  <1>5. Genesis0.k[2] = 0
    BY DEF Genesis0, Row
  <1> QED BY <1>2, <1>4, <1>5 DEF UpTo, Empty0

(* The run without failures, for every height: nothing but the genesis row *)
(* up to the first height, and each block's rows added after it.           *)
LEMMA WantIs ==
    ASSUME Wired, NEW p \in Plugins, NEW ch \in Chains(p)
    PROVE  /\ \A h \in 0 .. Len(ch) :
                /\ UpTo(Clean(p, ch)[h], h)
                /\ p = "block_receipts_transaction" => Genesis0.k \in DOMAIN Clean(p, ch)[h]
                /\ h <= First(p) => Clean(p, ch)[h] = Empty0(p)
           /\ \A h \in 1 .. Len(ch) :
                h > First(p) => Clean(p, ch)[h] = Adds(Clean(p, ch)[h - 1], Added(p, Block(ch, h)))
           /\ First(p) \in 0 .. Len(ch)
           /\ Len(ch) \in Nat
  <1> DEFINE s0 == StartOf(p, Fresh(p), EmptyTables, 0, ch)
             W == Clean(p, ch)
             n == Len(ch)
  <1>1. n \in Nat /\ StartHeight <= n + 1
    BY DEF Wired, LawfulChain
  <1>2. s0.mem = Fields(<<>>) /\ s0.height = First(p) /\ s0.db = Empty0(p) /\ First(p) \in Nat
    <2>1. /\ s0.mem = Fresh(p) /\ s0.db = Empty0(p) /\ First(p) \in Nat
          /\ s0.height = IF 0 < First(p) THEN First(p) ELSE 0
      BY StartIs
    <2> HIDE DEF s0
    <2> QED BY <2>1, FreshIs
  <1>3. First(p) \in 0 .. n
    BY <1>1, <1>2, StartHeightAssumption DEF First, StartAt
  <1>4. PICK C : /\ W = [h \in 0 .. n |-> C[h].db]
                 /\ \A h \in 0 .. n : C[h] = IF h <= s0.height
                                             THEN [mem |-> s0.mem, db |-> s0.db, stuck |-> FALSE]
                                             ELSE CleanStep(p, ch, C[h - 1], h)
    BY <1>1, <1>2, CleanFunction
  <1>5. \A h \in 0 .. n : C[h] = IF h <= First(p) THEN State(Empty0(p))
                                ELSE CleanStep(p, ch, C[h - 1], h)
    <2> HIDE DEF s0, n
    <2> QED BY <1>2, <1>4 DEF State
  <1>6. \A h \in 0 .. n : W[h] = C[h].db
    BY <1>4
  <1> HIDE DEF s0, W, n
  <1> DEFINE Good(h) == /\ C[h] = State(C[h].db)
                        /\ UpTo(C[h].db, h)
                        /\ p = "block_receipts_transaction" => Genesis0.k \in DOMAIN C[h].db
             Next2(h) == /\ C[h] = State(Adds(C[h - 1].db, Added(p, Block(ch, h))))
                         /\ UpTo(C[h].db, h)
                         /\ DOMAIN C[h - 1].db \subseteq DOMAIN C[h].db
             S == {h \in Nat : h <= n => Good(h)}
  <1>7. \A d : State(d).db = d
    BY DEF State
  <1>8. \A h \in 0 .. n : h <= First(p) => Good(h)
    <2> SUFFICES ASSUME NEW h \in 0 .. n, h <= First(p) PROVE Good(h)
      OBVIOUS
    <2>1. C[h] = State(Empty0(p))
      BY <1>5
    <2>2. UpTo(Empty0(p), h)
      BY EmptyUpTo DEF UpTo
    <2> QED BY <2>1, <2>2, <1>7, EmptyUpTo
  <1>9. \A h \in 1 .. n : h > First(p) /\ Good(h - 1) => Next2(h)
    <2> SUFFICES ASSUME NEW h \in 1 .. n, h > First(p), Good(h - 1) PROVE Next2(h)
      OBVIOUS
    <2>1. C[h] = CleanStep(p, ch, C[h - 1], h)
      BY <1>1, <1>2, <1>5
    <2>2. PICK d : d = C[h - 1].db
      OBVIOUS
    <2>3. C[h - 1] = State(d) /\ UpTo(d, h - 1)
      BY <2>2
    <2>4. h \in 1 .. Len(ch)
      BY DEF n
    <2>5. /\ C[h] = State(Adds(d, Added(p, Block(ch, h))))
          /\ UpTo(Adds(d, Added(p, Block(ch, h))), h)
      BY <2>1, <2>3, <2>4, CleanStepIs
    <2>6. PICK R : Added(p, Block(ch, h)) \in Seq(R)
      BY <2>4, BlockFacts DEF FactsOf
    <2>7. DOMAIN d \subseteq DOMAIN Adds(d, Added(p, Block(ch, h)))
      <3>1. IsTable(d)
        BY <2>3 DEF UpTo
      <3> QED BY <2>6, <3>1, AddsValues
    <2> QED BY <2>2, <2>5, <2>7, <1>7
  <1>10. 0 \in S
    BY <1>1, <1>2, <1>8
  <1>11. ASSUME NEW h \in S PROVE h + 1 \in S
    <2> SUFFICES ASSUME h + 1 <= n PROVE Good(h + 1)
      OBVIOUS
    <2>1. h \in Nat /\ h + 1 \in 1 .. n /\ h + 1 \in 0 .. n /\ (h + 1) - 1 = h /\ h <= n
      BY <1>1
    <2>2. Good(h)
      BY <2>1
    <2> HIDE DEF S
    <2>3. CASE h + 1 <= First(p)
      BY <2>1, <2>3, <1>8
    <2>4. CASE h + 1 > First(p)
      <3>1. Next2(h + 1)
        <4> HIDE DEF Good, Next2
        <4> QED BY <2>1, <2>2, <2>4, <1>9
      <3> QED BY <3>1, <2>1, <2>2, <1>7
    <2> QED BY <2>1, <2>3, <2>4, <1>2
  <1>12. \A h \in 0 .. n : Good(h)
    <2>1. S \in SUBSET Nat
      OBVIOUS
    <2>2. S = Nat
      <3> HIDE DEF S
      <3> QED BY <2>1, <1>10, <1>11, SetInduction
    <2>3. \A h \in 0 .. n : h \in S /\ h <= n
      BY <2>2, <1>1
    <2> HIDE DEF Good
    <2> QED BY <2>3
  <1>13. \A h \in 1 .. n : h > First(p) => W[h] = Adds(W[h - 1], Added(p, Block(ch, h)))
    <2> SUFFICES ASSUME NEW h \in 1 .. n, h > First(p)
                 PROVE W[h] = Adds(W[h - 1], Added(p, Block(ch, h)))
      OBVIOUS
    <2>1. h \in 0 .. n /\ h - 1 \in 0 .. n
      BY <1>1
    <2>2. Next2(h)
      <3> HIDE DEF Good, Next2
      <3> QED BY <2>1, <1>9, <1>12
    <2> QED BY <2>1, <2>2, <1>6, <1>7
  <1>14. \A h \in 0 .. n : h <= First(p) => W[h] = Empty0(p)
    BY <1>5, <1>6, <1>7
  <1>15. \A h \in 0 .. n : UpTo(W[h], h) /\ (p = "block_receipts_transaction" => Genesis0.k \in DOMAIN W[h])
    BY <1>6, <1>12
  <1> QED BY <1>1, <1>3, <1>13, <1>14, <1>15 DEF W, n
-----------------------------------------------------------------------------
(* The rows of the blocks after i up to j lead from the tables of i to     *)
(* those of j.                                                             *)
Collected(q, i, j) == FactsOf(q, i + 1, j) /\ Adds(want[i], q) = want[j]

(* How the steps of the harness hang together, whatever the tables hold. *)
Shape ==
    /\ plugin \in Plugins /\ chain \in Chains(plugin) /\ want = Clean(plugin, chain)
    /\ row \in 0 .. Tip /\ cache = row
    /\ pc \in {"down", "idle", "put", "commit"}
    /\ mem = Fields(mem.buf)
    /\ last \in 0 .. Tip /\ at \in 0 .. Tip + 1
    /\ pc \in {"put", "commit"} => cache < last
    /\ pc = "put" => cache < at /\ at <= last + 1
    /\ pc # "down" => First(plugin) <= row
    /\ pc = "down" => row = 0 \/ First(plugin) <= row
    /\ pc = "commit" =>
          /\ todo = <<Tx(Fields(<<>>), Stmts(plugin, mem.buf, db, cache + 1, last), last)>>
          /\ done = Fields(<<>>)
    /\ pc # "commit" => todo = <<>>
    /\ faults \in 0 .. FaultsOf(plugin)
    /\ hidden \in BOOLEAN

(* The tables are those of the height in the row, and the buffer has what  *)
(* lies between them and the blocks put so far.                            *)
Content ==
    ~hidden =>
       /\ pc \in {"down", "idle"} => mem.buf = <<>>
       /\ pc # "down" \/ row > 0 => db = want[row]
       /\ pc = "put" => Collected(mem.buf, cache, at - 1)
       /\ pc = "commit" => Collected(mem.buf, cache, last)

IInv == Shape /\ Content

(* Numbers up to a natural number. *)
LEMMA InRange ==
    ASSUME NEW n \in Nat, NEW x \in 0 .. n
    PROVE  x \in Nat /\ x <= n /\ \A y \in 0 .. x : y \in 0 .. n /\ y <= x
  OBVIOUS

(* What is constant in a behaviour, and the tables each height asks for. *)
LEMMA Facts0 ==
    ASSUME Wired, Shape
    PROVE  /\ plugin \in Appenders /\ plugin \notin Workers
           /\ Tip \in Nat /\ cache \in Nat /\ row \in Nat
           /\ First(plugin) \in Nat /\ First(plugin) <= Tip
           /\ FaultsOf(plugin) \in Nat /\ BatchOf(plugin) \in Nat
           /\ \A h \in 0 .. Tip : UpTo(want[h], h) /\ IsTable(want[h])
           /\ \A h \in 0 .. Tip : plugin = "block_receipts_transaction" => Genesis0.k \in DOMAIN want[h]
           /\ \A h \in 0 .. First(plugin) : want[h] = Empty0(plugin)
           /\ \A h \in 1 .. Tip : h > First(plugin) =>
                 want[h] = Adds(want[h - 1], Added(plugin, BlockAt(h)))
           /\ \A h \in 1 .. Tip : FactsOf(Added(plugin, BlockAt(h)), h, h)
  <1>1. plugin \in Plugins /\ chain \in Chains(plugin) /\ want = Clean(plugin, chain)
        /\ row \in 0 .. Tip /\ cache = row
    BY DEF Shape
  <1>2. plugin \in Appenders /\ plugin \notin Workers /\ FaultsOf(plugin) \in Nat /\ BatchOf(plugin) \in Nat
    BY <1>1, AppenderSets DEF Wired
  <1>3. /\ \A h \in 0 .. Tip :
                /\ UpTo(want[h], h)
                /\ plugin = "block_receipts_transaction" => Genesis0.k \in DOMAIN want[h]
                /\ h <= First(plugin) => want[h] = Empty0(plugin)
        /\ \A h \in 1 .. Tip :
                h > First(plugin) => want[h] = Adds(want[h - 1], Added(plugin, Block(chain, h)))
        /\ First(plugin) \in 0 .. Tip
        /\ Tip \in Nat
    BY <1>1, WantIs DEF Tip
  <1>4. \A h : BlockAt(h) = Block(chain, h)
    BY DEF BlockAt, Block
  <1>5. \A h \in 1 .. Tip : FactsOf(Added(plugin, BlockAt(h)), h, h)
    BY <1>1, <1>4, BlockFacts DEF Tip
  <1>a. Tip \in Nat /\ First(plugin) \in 0 .. Tip /\ row \in 0 .. Tip /\ cache = row
    <2>1. Tip \in Nat
      BY <1>3
    <2>2. First(plugin) \in 0 .. Tip
      BY <1>3
    <2>3. row \in 0 .. Tip /\ cache = row
      BY <1>1
    <2> QED BY <2>1, <2>2, <2>3
  <1>b. row \in Nat
    BY <1>a, InRange
  <1>c. /\ First(plugin) \in Nat /\ First(plugin) <= Tip
        /\ \A h \in 0 .. First(plugin) : h \in 0 .. Tip /\ h <= First(plugin)
    BY <1>a, InRange
  <1>6. row \in Nat /\ cache \in Nat /\ First(plugin) \in Nat /\ First(plugin) <= Tip
    BY <1>a, <1>b, <1>c
  <1>7. \A h \in 0 .. First(plugin) : want[h] = Empty0(plugin)
    BY <1>3, <1>c
  <1>9. plugin = "block_receipts_transaction" => \A h \in 0 .. Tip : Genesis0.k \in DOMAIN want[h]
    BY <1>3
  <1>10. \A h \in 1 .. Tip : h > First(plugin) => want[h] = Adds(want[h - 1], Added(plugin, BlockAt(h)))
    BY <1>3, <1>4
  <1>8. \A h \in 0 .. Tip : UpTo(want[h], h) /\ IsTable(want[h])
    BY <1>3 DEF UpTo
  <1> QED BY <1>a, <1>2, <1>5, <1>6, <1>7, <1>8, <1>9, <1>10

(* The empty buffer is the collection of no block. *)
LEMMA NoneCollected ==
    ASSUME NEW d, IsTable(d), NEW i
    PROVE  FactsOf(<<>>, i, i) /\ FactsOf(<<>>, i + 1, i) /\ Adds(d, <<>>) = d
  <1>1. <<>> \in Seq({}) /\ DOMAIN << >> = {}
    OBVIOUS
  <1>2. FactsOf(<<>>, i, i) /\ FactsOf(<<>>, i + 1, i)
    BY <1>1 DEF FactsOf, KeysOnce
  <1>3. Keys(<<>>) = {}
    BY <1>1 DEF Keys
  <1>4. \A k : Times(<<>>, k) = 0
    BY <1>1, <1>3, CountConcat
  <1>5. IsTable(Adds(d, <<>>)) /\ DOMAIN Adds(d, <<>>) = DOMAIN d
    BY <1>1, <1>3, AddsValues
  <1>6. \A k : Old(Adds(d, <<>>), k) = Old(d, k)
    <2> SUFFICES ASSUME NEW k PROVE Old(Adds(d, <<>>), k) = Old(d, k)
      OBVIOUS
    <2>1. Old(Adds(d, <<>>), k) = Old(d, k) + Times(<<>>, k)
      BY <1>1, AddsValues
    <2>2. Old(d, k) \in Int
      BY DEF Old, IsTable
    <2> QED BY <2>1, <2>2, <1>4
  <1> QED BY <1>2, <1>5, <1>6, SameTable

(* Before Start nothing is written. *)
LEMMA IInvInit == Wired /\ Init => IInv
  <1> SUFFICES ASSUME Wired, Init PROVE IInv
    OBVIOUS
  <1>1. plugin \in Plugins /\ chain \in Chains(plugin) /\ want = Clean(plugin, chain)
    BY DEF Init
  <1>2. mem = Fields(<<>>) /\ mem = Fields(mem.buf) /\ mem.buf = <<>>
    BY <1>1, FreshIs DEF Init, Fields
  <1>3. Tip \in Nat
    BY <1>1 DEF Tip, Wired, LawfulChain
  <1>4. FaultsOf(plugin) \in Nat /\ faults = FaultsOf(plugin)
    BY <1>1 DEF Init, Wired
  <1>5. Shape
    <2>1. 0 \in 0 .. Tip /\ 0 \in 0 .. Tip + 1 /\ faults \in 0 .. FaultsOf(plugin)
      BY <1>3, <1>4
    <2> QED BY <1>1, <1>2, <2>1 DEF Init, Shape
  <1>6. Content
    BY <1>2 DEF Init, Content
  <1> QED BY <1>5, <1>6 DEF IInv

(* Start: tables and height agree, at height 0 too, where it drops them. *)
LEMMA StartStep == ASSUME Wired, IInv, Start PROVE IInv'
  <1> DEFINE s == StartOf(plugin, mem, db, cache, chain)
  <1>1. plugin \in Plugins /\ cache \in Nat /\ cache = row /\ Shape /\ Content
    BY Facts0 DEF IInv, Shape
  <1>2. /\ s.mem = mem
        /\ s.height = IF cache < First(plugin) THEN First(plugin) ELSE cache
        /\ cache = 0 => s.db = Empty0(plugin)
        /\ cache > 0 /\ (plugin = "block_receipts_transaction" => Genesis0.k \in DOMAIN db) => s.db = db
    BY <1>1, StartIs
  <1>3. /\ pc = "down" /\ pc' = "idle" /\ mem' = s.mem /\ db' = s.db /\ cache' = s.height
        /\ row' = IF s.height = cache THEN row ELSE s.height
        /\ UNCHANGED <<plugin, chain, last, at, todo, done, faults, hidden, want>>
    BY DEF Start
  <1> HIDE DEF s
  <1>4. PICK h : h = IF cache < First(plugin) THEN First(plugin) ELSE cache
    OBVIOUS
  <1>5. row' = h /\ cache' = h /\ mem' = mem /\ Tip' = Tip
    BY <1>1, <1>2, <1>3, <1>4 DEF Tip
  <1>6. h \in 0 .. Tip /\ First(plugin) <= h
    BY <1>1, <1>4, Facts0 DEF Shape
  <1>7. Shape'
    BY <1>1, <1>3, <1>5, <1>6 DEF Shape
  <1>8. ~hidden => db' = want[h]
    <2> SUFFICES ASSUME ~hidden PROVE db' = want[h]
      OBVIOUS
    <2>1. CASE cache = 0
      <3>1. h \in 0 .. First(plugin)
        BY <1>1, <1>4, <2>1, Facts0
      <3> QED BY <1>1, <1>2, <1>3, <2>1, <3>1, Facts0
    <2>2. CASE cache # 0
      <3>1. cache > 0 /\ cache \in 0 .. Tip /\ db = want[cache]
        BY <1>1, <2>2 DEF Content, Shape
      <3>2. h = cache
        BY <1>1, <1>3, <1>4, <3>1, Facts0 DEF Shape
      <3> QED BY <1>1, <1>2, <1>3, <3>1, <3>2, Facts0
    <2> QED BY <2>1, <2>2
  <1>9. Content'
    BY <1>1, <1>3, <1>5, <1>8 DEF Content
  <1> QED BY <1>7, <1>9 DEF IInv

(* A batch begins with an empty buffer. *)
LEMMA FetchStep == ASSUME Wired, IInv, Fetch PROVE IInv'
  <1>1. Shape /\ Content /\ pc = "idle" /\ cache = row
    BY DEF IInv, Shape, Fetch
  <1>2. Tip \in Nat /\ cache \in Nat /\ BatchOf(plugin) \in Nat
        /\ \A h \in 0 .. Tip : IsTable(want[h])
    BY <1>1, Facts0
  <1>3. PICK n \in 1 .. BatchOf(plugin) : cache + n <= Tip /\ last' = cache + n
    BY DEF Fetch
  <1>4. /\ at' = cache + 1 /\ pc' = "put" /\ Tip' = Tip
        /\ UNCHANGED <<plugin, chain, mem, db, row, cache, todo, done, faults, hidden, want>>
    BY DEF Fetch, Tip
  <1>5. last' \in 0 .. Tip /\ at' \in 0 .. Tip + 1 /\ cache < last' /\ cache < at'
        /\ at' <= last' + 1
    BY <1>2, <1>3, <1>4
  <1>6. Shape'
    BY <1>1, <1>4, <1>5 DEF Shape
  <1>7. Content'
    <2> SUFFICES ASSUME ~hidden PROVE Content'
      BY <1>4 DEF Content
    <2>1. mem.buf = <<>> /\ db = want[row]
      BY <1>1 DEF Content
    <2>2. cache \in 0 .. Tip /\ IsTable(want[cache])
      BY <1>1, <1>2 DEF Shape
    <2>3. PICK c : c = cache
      OBVIOUS
    <2>4. FactsOf(<<>>, c + 1, c) /\ Adds(want[c], <<>>) = want[c]
      BY <2>2, <2>3, NoneCollected
    <2>5. at' - 1 = cache
      BY <1>2, <1>4
    <2>6. FactsOf(mem'.buf, cache' + 1, at' - 1) /\ Adds(want'[cache'], mem'.buf) = want'[at' - 1]
      BY <1>4, <2>1, <2>3, <2>4, <2>5
    <2> QED BY <1>4, <2>1, <2>6 DEF Content, Collected
  <1> QED BY <1>6, <1>7 DEF IInv

(* A block put is in the buffer; a block that fails leaves none of the     *)
(* batch in it.                                                            *)
LEMMA PutStep == ASSUME Wired, IInv, Put PROVE IInv'
  <1>1. Shape /\ Content /\ pc = "put" /\ cache = row /\ at <= last
        /\ plugin \in Plugins /\ mem = Fields(mem.buf)
    BY DEF IInv, Shape, Put
  <1>2. Tip \in Nat /\ cache \in Nat /\ FaultsOf(plugin) \in Nat /\ First(plugin) \in Nat
    BY <1>1, Facts0
  <1>3. PICK r \in PutOf(plugin, mem, db, BlockAt(at)) :
          mem' = r.mem /\ Costs(r) /\ pc' = IF r.res = "err" THEN "idle" ELSE "put"
    BY DEF Put
  <1>4. /\ at' = at + 1 /\ Tip' = Tip
        /\ UNCHANGED <<plugin, chain, db, row, cache, last, todo, done, want>>
    BY DEF Put, Tip
  <1>5. PICK q, a : q = mem.buf /\ a = Added(plugin, BlockAt(at))
    OBVIOUS
  <1>6. \/ r = Ok(Fields(q \o a))
        \/ r = Err(Fields(<<>>))
        \/ r.res = "hid" /\ \E s : r.mem = Fields(s)
    BY <1>1, <1>3, <1>5, PutIs
  <1>7. \A m : Ok(m).res = "ok" /\ Ok(m).mem = m /\ Err(m).res = "err" /\ Err(m).mem = m
    BY DEF Ok, Err
  <1>8. \A s : Fields(s).buf = s
    BY DEF Fields
  <1>9. mem' = Fields(mem'.buf)
    BY <1>3, <1>6, <1>7, <1>8
  <1>10. last \in 0 .. Tip /\ at \in 0 .. Tip + 1 /\ faults \in 0 .. FaultsOf(plugin)
         /\ cache < at /\ at <= last + 1 /\ cache < last /\ hidden \in BOOLEAN /\ First(plugin) <= row
    BY <1>1 DEF Shape
  <1>11. at \in 1 .. Tip /\ at + 1 \in 0 .. Tip + 1 /\ cache < at + 1 /\ at + 1 <= last + 1
         /\ at - 1 \in 0 .. Tip /\ at - 1 \in Nat /\ at \in Nat /\ (at - 1) + 1 = at
         /\ (at + 1) - 1 = at /\ cache <= at - 1
    BY <1>1, <1>2, <1>10
  <1>12. faults' \in 0 .. FaultsOf(plugin)
    <2>1. PICK f : f = IF r.res \in {"ok", "panic"} THEN faults ELSE faults - 1
      OBVIOUS
    <2>2. faults' = f /\ f >= 0
      BY <1>3, <2>1 DEF Costs
    <2>3. f \in 0 .. FaultsOf(plugin)
      BY <1>2, <1>10, <2>1, <2>2
    <2> QED BY <2>2, <2>3
  <1>13. hidden' = (hidden \/ r.res = "hid")
    BY <1>3 DEF Costs
  <1>14. Shape'
    <2>1. pc' \in {"idle", "put"}
      BY <1>3
    <2>2. at' \in 0 .. Tip' + 1 /\ cache' < at' /\ at' <= last' + 1
      BY <1>4, <1>11
    <2>3. hidden' \in BOOLEAN
      BY <1>13, <1>10
    <2>4. plugin' \in Plugins /\ chain' \in Chains(plugin') /\ want' = Clean(plugin', chain')
          /\ row' \in 0 .. Tip' /\ cache' = row' /\ last' \in 0 .. Tip' /\ cache' < last'
          /\ First(plugin') <= row' /\ todo' = <<>>
      BY <1>1, <1>4, <1>10 DEF Shape
    <2> QED BY <1>4, <1>9, <1>12, <2>1, <2>2, <2>3, <2>4 DEF Shape
  <1>15. Content'
    <2> SUFFICES ASSUME ~hidden' PROVE Content'
      BY DEF Content
    <2>1. ~hidden /\ r.res # "hid"
      BY <1>13
    <2>2. db = want[row] /\ FactsOf(q, cache + 1, at - 1) /\ Adds(want[cache], q) = want[at - 1]
      BY <1>1, <1>5, <2>1 DEF Content, Collected
    <2>3. CASE r = Err(Fields(<<>>))
      <3>1. pc' = "idle" /\ mem'.buf = <<>>
        BY <1>3, <1>7, <1>8, <2>3
      <3> QED BY <1>4, <2>2, <3>1 DEF Content
    <2>4. CASE r = Ok(Fields(q \o a))
      <3>1. pc' = "put" /\ mem'.buf = q \o a
        BY <1>3, <1>7, <1>8, <2>4
      <3>2. FactsOf(a, at, at) /\ want[at] = Adds(want[at - 1], a)
        <4>1. at > First(plugin)
          BY <1>1, <1>2, <1>10, <1>11
        <4> QED BY <1>1, <1>5, <1>11, <4>1, Facts0
      <3>3. PICK c, i : c = cache /\ i = at - 1
        OBVIOUS
      <3>4. c \in Nat /\ i \in Nat /\ c <= i /\ i <= at /\ i + 1 = at
        BY <1>2, <1>11, <3>3
      <3>5. /\ FactsOf(q \o a, c + 1, at)
            /\ \A d : IsTable(d) => Adds(d, q \o a) = Adds(Adds(d, q), a)
        BY <1>11, <2>2, <3>2, <3>3, <3>4, FactsConcat
      <3>6. IsTable(want[cache])
        <4>1. cache \in 0 .. Tip
          BY <1>1 DEF Shape
        <4> QED BY <1>1, <4>1, Facts0
      <3>7. Adds(want[cache], q \o a) = want[at]
        BY <2>2, <3>2, <3>5, <3>6
      <3>8. at' - 1 = at
        BY <1>4, <1>11
      <3>9. FactsOf(mem'.buf, cache' + 1, at' - 1) /\ Adds(want'[cache'], mem'.buf) = want'[at' - 1]
        BY <1>4, <3>1, <3>3, <3>5, <3>7, <3>8
      <3> QED BY <1>4, <2>2, <3>1, <3>9 DEF Content, Collected
    <2> QED BY <1>6, <2>1, <2>3, <2>4
  <1> QED BY <1>14, <1>15 DEF IInv

(* The transaction of the batch has the rows of the whole buffer. *)
LEMMA BeginStep == ASSUME Wired, IInv, Begin PROVE IInv'
  <1>1. Shape /\ Content /\ pc = "put" /\ cache = row /\ at > last
        /\ plugin \in Plugins /\ mem = Fields(mem.buf)
    BY DEF IInv, Shape, Begin
  <1>2. Tip \in Nat
    BY <1>1, Facts0
  <1>3. PICK c \in CommitOf(plugin, mem, db, cache + 1, last) :
          /\ todo' = c.txs /\ done' = c.after /\ Costs(c)
          /\ mem' = IF c.res \in {"err", "panic"} THEN c.after ELSE mem
          /\ pc' = IF c.res \in {"err", "panic"} THEN "idle" ELSE "commit"
    BY DEF Begin
  <1>4. UNCHANGED <<plugin, chain, db, row, cache, last, at, want>> /\ Tip' = Tip
    BY DEF Begin, Tip
  <1> DEFINE tx == Tx(Fields(<<>>), Stmts(plugin, mem.buf, db, cache + 1, last), last)
  <1>6. c = Commits(<<tx>>, Fields(<<>>))
    <2>1. PICK q : q = mem.buf
      OBVIOUS
    <2>2. CommitOf(plugin, Fields(q), db, cache + 1, last)
          = {Commits(<<Tx(Fields(<<>>), Stmts(plugin, q, db, cache + 1, last), last)>>, Fields(<<>>))}
      BY <1>1, CommitIs
    <2> QED BY <1>1, <1>3, <2>1, <2>2
  <1>7. c.res = "ok" /\ c.txs = <<tx>> /\ c.after = Fields(<<>>)
    BY <1>6 DEF Commits
  <1>8. /\ todo' = <<tx>> /\ done' = Fields(<<>>) /\ mem' = mem /\ pc' = "commit"
        /\ faults' = faults /\ hidden' = hidden
    <2> HIDE DEF tx
    <2>1. hidden \in BOOLEAN
      BY <1>1 DEF Shape
    <2> QED BY <1>3, <1>7, <2>1 DEF Costs
  <1>9. Shape'
    BY <1>1, <1>4, <1>8 DEF Shape
  <1>10. Content'
    <2>1. last \in 0 .. Tip /\ at \in 0 .. Tip + 1 /\ at <= last + 1
      BY <1>1 DEF Shape
    <2>2. at - 1 = last
      BY <1>1, <1>2, <2>1
    <2>3. ~hidden => db = want[row] /\ Collected(mem.buf, cache, last)
      BY <1>1, <2>2 DEF Content
    <2> HIDE DEF tx
    <2> QED BY <1>4, <1>8, <2>3 DEF Content, Collected
  <1> QED BY <1>9, <1>10 DEF IInv

(* A committed transaction makes the tables those of the batch's last      *)
(* block, whose height it writes.                                          *)
LEMMA AppliedIs ==
    ASSUME Wired, IInv, pc = "commit", Applied(Head(todo))
    PROVE  /\ Head(todo) = Tx(Fields(<<>>), Stmts(plugin, mem.buf, db, cache + 1, last), last)
           /\ Tail(todo) = <<>> /\ Head(todo).sent = Fields(<<>>)
           /\ row' = last /\ cache' = last
           /\ last \in 0 .. Tip /\ First(plugin) <= last
           /\ ~hidden => db' = want[last]
  <1> DEFINE tx == Tx(Fields(<<>>), Stmts(plugin, mem.buf, db, cache + 1, last), last)
  <1>1. Shape /\ Content /\ cache = row /\ todo = <<tx>> /\ last \in 0 .. Tip
        /\ cache < last /\ First(plugin) <= row
    BY DEF IInv, Shape
  <1>2. Tip \in Nat /\ cache \in Nat /\ First(plugin) \in Nat /\ plugin \in Appenders
        /\ \A h \in 0 .. Tip : UpTo(want[h], h)
    BY <1>1, Facts0
  <1>3. Head(todo) = tx /\ Tail(todo) = <<>>
    <2> HIDE DEF tx
    <2> QED BY <1>1
  <1>4. /\ tx.height = last /\ tx.sent = Fields(<<>>)
        /\ tx.stmts = Stmts(plugin, mem.buf, db, cache + 1, last)
    BY DEF Tx
  <1>5. last # NoHeight /\ last \in Nat /\ First(plugin) <= last /\ cache <= last
    BY <1>1, <1>2 DEF NoHeight
  <1>6. /\ db' \in Run(db, Stmts(plugin, mem.buf, db, cache + 1, last))
        /\ row' = last /\ cache' = last
    <2> HIDE DEF tx
    <2> QED BY <1>3, <1>4, <1>5 DEF Applied
  <1>7. ~hidden => db' = want[last]
    <2> SUFFICES ASSUME ~hidden PROVE db' = want[last]
      OBVIOUS
    <2>1. PICK q, c : q = mem.buf /\ c = cache
      OBVIOUS
    <2>2. db = want[c] /\ FactsOf(q, c + 1, last) /\ Adds(want[c], q) = want[last]
      BY <1>1, <2>1 DEF Content, Collected
    <2>3. c \in 0 .. Tip /\ UpTo(want[c], c)
      BY <1>1, <1>2, <2>1 DEF Shape
    <2>4. Run(db, Stmts(plugin, q, db, c + 1, last)) = {Adds(db, q)}
      <3>1. c \in Nat /\ c <= last
        BY <1>2, <1>5, <2>1
      <3> QED BY <1>2, <1>5, <2>2, <2>3, <3>1, StmtsRun
    <2> QED BY <1>6, <2>1, <2>2, <2>4
  <1> QED BY <1>1, <1>3, <1>4, <1>5, <1>6, <1>7

(* So they agree afterwards, whether the answer arrived or not. *)
LEMMA CommittedStep ==
    ASSUME Wired, IInv, pc = "commit", Applied(Head(todo)), todo' = <<>>, pc' = "idle",
           mem' = Fields(<<>>), faults' \in 0 .. FaultsOf(plugin),
           UNCHANGED <<plugin, chain, last, at, done, hidden, want>>
    PROVE  IInv'
  <1>1. Shape /\ Content
    BY DEF IInv
  <1>2. /\ row' = last /\ cache' = last /\ last \in 0 .. Tip /\ First(plugin) <= last
        /\ ~hidden => db' = want[last]
    BY AppliedIs
  <1>3. Tip' = Tip
    BY DEF Tip
  <1>4. mem' = Fields(mem'.buf) /\ mem'.buf = <<>>
    BY DEF Fields
  <1>5. Shape'
    BY <1>1, <1>2, <1>3, <1>4 DEF Shape
  <1>6. Content'
    BY <1>2, <1>4 DEF Content
  <1> QED BY <1>5, <1>6 DEF IInv

(* The transaction succeeds. *)
LEMMA TransactStep == ASSUME Wired, IInv, Transact PROVE IInv'
  <1>1. Shape /\ pc = "commit" /\ Applied(Head(todo)) /\ todo' = Tail(todo)
        /\ UNCHANGED <<plugin, chain, last, at, done, faults, hidden, want>>
    BY DEF IInv, Transact
  <1>2. todo' = <<>>
    BY <1>1, AppliedIs
  <1>3. pc' = "idle" /\ mem' = done
    BY <1>2 DEF Transact
  <1>4. done = Fields(<<>>) /\ faults \in 0 .. FaultsOf(plugin)
    BY <1>1 DEF Shape
  <1> QED BY <1>1, <1>2, <1>3, <1>4, CommittedStep

(* The transaction succeeds and PutBlocks returns an error. *)
LEMMA LostAckStep == ASSUME Wired, IInv, LostAck PROVE IInv'
  <1>1. Shape /\ pc = "commit" /\ Applied(Head(todo)) /\ mem' = Head(todo).sent
        /\ todo' = <<>> /\ pc' = "idle" /\ faults > 0 /\ faults' = faults - 1
        /\ UNCHANGED <<plugin, chain, last, at, done, hidden, want>>
    BY DEF IInv, LostAck, Abandoned
  <1>2. mem' = Fields(<<>>)
    BY <1>1, AppliedIs
  <1>3. faults' \in 0 .. FaultsOf(plugin)
    BY <1>1, Facts0 DEF Shape
  <1> QED BY <1>1, <1>2, <1>3, CommittedStep

(* The transaction fails: the rows are dropped with the buffer and read    *)
(* again.                                                                  *)
LEMMA RollbackStep == ASSUME Wired, IInv, Rollback PROVE IInv'
  <1> DEFINE tx == Tx(Fields(<<>>), Stmts(plugin, mem.buf, db, cache + 1, last), last)
  <1>1. Shape /\ Content /\ pc = "commit" /\ todo = <<tx>>
    BY DEF IInv, Shape, Rollback
  <1>2. FaultsOf(plugin) \in Nat /\ faults \in 0 .. FaultsOf(plugin)
    BY <1>1, Facts0 DEF Shape
  <1>3. faults' \in 0 .. FaultsOf(plugin)
    <2>1. CASE faults' = faults
      BY <1>2, <2>1
    <2>2. CASE faults > 0 /\ faults' = faults - 1
      BY <1>2, <2>2
    <2> QED BY <2>1, <2>2 DEF Rollback
  <1>4. tx.bad = {Fields(<<>>)} /\ tx.stmts = Stmts(plugin, mem.buf, db, cache + 1, last)
    BY DEF Tx
  <1>5. \A q, d, from, to : Stmts(plugin, q, d, from, to) # <<>>
    BY DEF Stmts
  <1>6. mem' = Fields(<<>>) /\ cache' = cache
    <2>1. Head(todo) = tx
      <3> HIDE DEF tx
      <3> QED BY <1>1
    <2> HIDE DEF tx
    <2> QED BY <1>4, <1>5, <2>1 DEF Rollback
  <1>7. mem' = Fields(mem'.buf) /\ mem'.buf = <<>>
    BY <1>6 DEF Fields
  <1>8. /\ pc' = "idle" /\ todo' = <<>> /\ Tip' = Tip
        /\ UNCHANGED <<plugin, chain, last, at, done, hidden, want, db, row>>
    BY DEF Rollback, Abandoned, Tip
  <1> HIDE DEF tx
  <1>9. Shape'
    BY <1>1, <1>3, <1>6, <1>7, <1>8 DEF Shape
  <1>10. Content'
    BY <1>1, <1>7, <1>8 DEF Content
  <1> QED BY <1>9, <1>10 DEF IInv

(* Unload and load between two batches find an empty buffer. *)
LEMMA ReloadStep == ASSUME Wired, IInv, Reload PROVE IInv'
  <1>1. /\ Shape /\ Content /\ pc = "idle" /\ pc' = "down" /\ faults > 0 /\ faults' = faults - 1
        /\ UNCHANGED <<plugin, chain, mem, db, row, cache, last, at, todo, done, hidden, want>>
        /\ Tip' = Tip
    BY DEF IInv, Reload, Tip
  <1>2. faults' \in 0 .. FaultsOf(plugin)
    BY <1>1, Facts0 DEF Shape
  <1>3. Shape'
    BY <1>1, <1>2 DEF Shape
  <1>4. Content'
    BY <1>1 DEF Content
  <1> QED BY <1>3, <1>4 DEF IInv

(* A crash loses the buffer, at any step. *)
LEMMA CrashStep == ASSUME Wired, IInv, Crash PROVE IInv'
  <1>1. /\ Shape /\ Content /\ pc' = "down" /\ faults > 0 /\ faults' = faults - 1
        /\ mem' = Fresh(plugin) /\ cache' = row /\ last' = 0 /\ at' = 0 /\ todo' = <<>>
        /\ UNCHANGED <<plugin, chain, db, row, hidden, want>> /\ Tip' = Tip
    BY DEF IInv, Crash, Tip
  <1>2. faults' \in 0 .. FaultsOf(plugin) /\ Tip \in Nat
    BY <1>1, Facts0 DEF Shape
  <1>3. plugin \in Plugins
    BY <1>1 DEF Shape
  <1>4. mem' = Fields(mem'.buf) /\ mem'.buf = <<>>
    BY <1>1, <1>3, FreshIs DEF Fields
  <1>5. 0 \in 0 .. Tip /\ 0 \in 0 .. Tip + 1
    BY <1>2
  <1>6. Shape'
    BY <1>1, <1>2, <1>4, <1>5 DEF Shape
  <1>7. row > 0 /\ ~hidden => db = want[row]
    BY <1>1 DEF Content
  <1>8. Content'
    BY <1>1, <1>4, <1>7 DEF Content
  <1> QED BY <1>6, <1>8 DEF IInv

(* Every step of the harness preserves the invariant. *)
LEMMA IInvStep == Wired /\ IInv /\ [Next]_vars => IInv'
  <1> SUFFICES ASSUME Wired, IInv, [Next]_vars PROVE IInv'
    OBVIOUS
  <1>1. CASE Start
    BY <1>1, StartStep
  <1>2. CASE Fetch
    BY <1>2, FetchStep
  <1>3. CASE Tick
    BY <1>3, Facts0 DEF Tick, IInv
  <1>4. CASE Put
    BY <1>4, PutStep
  <1>5. CASE Begin
    BY <1>5, BeginStep
  <1>6. CASE Transact
    BY <1>6, TransactStep
  <1>7. CASE Rollback
    BY <1>7, RollbackStep
  <1>8. CASE LostAck
    BY <1>8, LostAckStep
  <1>9. CASE Reload
    BY <1>9, ReloadStep
  <1>10. CASE Crash
    BY <1>10, CrashStep
  <1>11. CASE UNCHANGED vars
    <2>1. UNCHANGED <<plugin, chain, mem, db, row, cache, pc, last, at, todo, done,
                      faults, hidden, want>>
      BY <1>11 DEF vars
    <2>2. Tip' = Tip
      BY <2>1 DEF Tip
    <2> QED BY <2>1, <2>2 DEF IInv, Shape, Content, Collected
  <1>12. CASE Finished
    BY <1>11, <1>12 DEF Finished
  <1> QED BY <1>1, <1>2, <1>3, <1>4, <1>5, <1>6, <1>7, <1>8, <1>9, <1>10, <1>11, <1>12 DEF Next

(* The inductive invariant: tables, row and buffer belong together through *)
(* every batch, failure, reload and crash of PutBlocks and its runner.     *)
THEOREM Inductive == ASSUME Wired PROVE Spec => []IInv
  <1>1. Init => IInv
    BY IInvInit
  <1>2. IInv /\ [Next]_vars => IInv'
    BY IInvStep
  <1> QED BY <1>1, <1>2, PTL DEF Spec

(* The height in index_heights never passes the tip of the chain, for      *)
(* these plugins: TypeOK of the harness.                                   *)
THEOREM AppenderTypes == ASSUME Wired PROVE Spec => []TypeOK
  <1>1. IInv => TypeOK
    <2> SUFFICES ASSUME IInv PROVE TypeOK
      OBVIOUS
    <2>1. \A x : <<x>> # <<>>
      OBVIOUS
    <2>2. pc = "commit" <=> todo # <<>>
      BY <2>1 DEF IInv, Shape
    <2> QED BY <2>2 DEF IInv, Shape, TypeOK
  <1> QED BY <1>1, Inductive, PTL

(* Between two transactions the tables are those of the row's height. *)
LEMMA Settled ==
    ASSUME IInv, ~hidden, pc \in {"idle", "put"} PROVE db = want[row]
  BY DEF IInv, Content

(* The tables of these plugins are those of the chain put block by block,  *)
(* whatever failed and was retried: no row is missing, none is there       *)
(* twice.                                                                  *)
THEOREM AppendersExact == ASSUME Wired PROVE Spec => []Exact
  <1>1. IInv => Exact
    BY Settled DEF Exact
  <1> QED BY <1>1, Inductive, PTL

(* No row of an indexed block is missing in them. *)
THEOREM AppendersLoseNothing == ASSUME Wired PROVE Spec => []NothingLost
  <1>1. IInv => NothingLost
    BY Settled DEF NothingLost
  <1> QED BY <1>1, Inductive, PTL
-----------------------------------------------------------------------------
(* The token plugins of these proofs. *)
Tokens == {"erc20", "erc20_v2", "erc721", "erc721_v2", "erc1155", "erc1155_v2",
           "erc1155_721_holder"}

(* The one whose rows are the operations on a table, not rows of it. *)
Keeper == "erc1155_721_holder"

(* The standards a plugin asks a contract for. *)
Stds(p) ==
    CASE p \in {"erc20", "erc20_v2"} -> {"erc20"}
      [] p \in {"erc721", "erc721_v2"} -> {"erc721"}
      [] p \in {"erc1155", "erc1155_v2"} -> {"erc1155"}
      [] OTHER -> {"erc721", "erc1155"}

(* The tables it writes. *)
TablesOf(p) ==
    CASE p \in {"erc20", "erc20_v2"} -> {"transfer", "approval", "holder"}
      [] p \in {"erc721", "erc721_v2"} ->
            {"transfer", "approval", "approvalForAll", "holder"}
      [] OTHER -> {"transferBatch", "transferSingle", "uri", "approvalForAll"}

(* The rows a block adds when nothing fails: those of the logs whose       *)
(* contract follows a standard of the plugin.                              *)
Kept(p, b) == {i \in DOMAIN b.c : b.c[i].c[1] \in Stds(p)}
RowsKept(p, b, keep) ==
    CASE p \in {"erc20", "erc20_v2"} -> Concat(b, keep, Erc20Rows)
      [] p \in {"erc721", "erc721_v2"} -> Concat(b, keep, Erc721Rows)
      [] p \in {"erc1155", "erc1155_v2"} -> Concat(b, keep, Erc1155Rows)
      [] OTHER -> Concat(b, keep, Moves)
TokenRows(p, b) == RowsKept(p, b, Kept(p, b))

(* The statements of the transaction of a batch. *)
TokenStmts(p, q, d) ==
    CASE p = "erc20" -> <<Serial(From("transfer", q)), Serial(From("approval", q)),
                          Serial(Distinct(From("holder", q)))>>
      [] p = "erc20_v2" -> <<Serial(From("transfer", q)), Serial(From("approval", q)),
                             Ignore(From("holder", q))>>
      [] p = "erc721" -> <<Serial(From("transfer", q)), Serial(From("approval", q)),
                           Serial(From("approvalForAll", q)), Ignore(From("holder", q))>>
      [] p = "erc721_v2" -> <<Serial(From("transfer", q)), Serial(From("approval", q)),
                              Serial(From("approvalForAll", q)),
                              Serial(Distinct(From("holder", q)))>>
      [] p = "erc1155" -> <<Serial(q)>>
      [] p = "erc1155_v2" -> <<Serial(From("transferBatch", q)),
                               Serial(From("transferSingle", q)), Serial(From("uri", q)),
                               Serial(From("approvalForAll", q))>>
      [] OTHER -> <<Become(FoldLeft(HolderStep, d, q))>>

(* The fields a failure of it may leave: erc20_v2 empties its buffers one  *)
(* after the other.                                                        *)
TokenBad(p, m) ==
    IF p = "erc20_v2"
    THEN {Without(m, ts) : ts \in {{}, {"transfer"}, {"transfer", "approval"},
                                   {"transfer", "approval", "holder"}}}
    ELSE {Emptied(m)}
TokenTx(p, m, d, to) ==
    [stmts |-> TokenStmts(p, m.buf, d), height |-> to, bad |-> TokenBad(p, m),
     sent |-> Emptied(m)]

(* The package variables of such a plugin, and what it knows of contracts  *)
(* when no check was answered wrong.                                       *)
IsFields(m) == m = [buf |-> m.buf, yes |-> m.yes, no |-> m.no]
Known(p, m) ==
    /\ \A x \in m.yes : Follows(x) /\ x[1] \in Stds(p)
    /\ \A x \in m.no : ~Follows(x)

(* Blocks that are lists of logs. *)
TokenChain(ch) ==
    /\ \E B : ch \in Seq(B)
    /\ \A h \in 1 .. Len(ch) : \E L : ch[h] \in Seq(L)

(* MCCommitOf, for these plugins. *)
CommitOfToken(p, m, d, to) ==
    CASE p = "erc20" -> erc20_commit(m, to)
      [] p = "erc20_v2" -> erc20_v2_commit(m, to)
      [] p = "erc721" -> erc721_commit(m, to)
      [] p = "erc721_v2" -> erc721_v2_commit(m, to)
      [] p = "erc1155" -> erc1155_commit(m, to)
      [] p = "erc1155_v2" -> erc1155_v2_commit(m, to)
      [] OTHER -> holder_commit(m, d, to)

(* The harness with the operators of these plugins, as the instance        *)
(* MCDataPlugins has them, on any chains.  The keeper of tokens is called  *)
(* with one block at a time.                                               *)
TokensWired ==
    /\ Plugins \subseteq Tokens
    /\ \A p \in Plugins : FaultsOf(p) \in Nat /\ BatchOf(p) \in Nat
    /\ \A p \in Plugins : p = Keeper => BatchOf(p) = 1
    /\ \A p \in Plugins : \A ch \in Chains(p) : TokenChain(ch)
    /\ Workers = MCWorkers
    /\ \A p \in Plugins :
          /\ Fresh(p) = MCFresh(p)
          /\ \A m, d, h, ch : StartOf(p, m, d, h, ch) = MCStartOf(p, m, d, h, ch)
          /\ \A m, d, b : PutOf(p, m, d, b) = MCPutOf(p, m, d, b)
          /\ \A m, d, from, to : CommitOf(p, m, d, from, to) = CommitOfToken(p, m, d, to)

(* A list of rows of the plugin's tables. *)
IsRows(p, q) ==
    p # Keeper =>
       /\ \E R : q \in Seq(R)
       /\ \A i \in DOMAIN q : q[i].v = 1 /\ q[i].k[1] \in TablesOf(p)

(* The tables d with the rows of q in ts.  How often a holder is there is  *)
(* left open.                                                              *)
Grown(ts, d, q, e) ==
    /\ IsTable(e)
    /\ DOMAIN e = DOMAIN d \cup {k \in Keys(q) : k[1] \in ts}
    /\ \A k : k[1] # "holder" =>
          Old(e, k) = Old(d, k) + (IF k[1] \in ts THEN Times(q, k) ELSE 0)

(* What the transaction of the rows q makes of the tables d. *)
Effect(p, d, q, e) ==
    IF p = Keeper THEN e = FoldLeft(HolderStep, d, q) ELSE Grown(TablesOf(p), d, q, e)

(* Tables that are equal but for how often a holder is there. *)
Same(p, d, e) ==
    IF p = Keeper THEN d = e
    ELSE /\ IsTable(d) /\ IsTable(e)
         /\ DOMAIN d = DOMAIN e
         /\ \A k : k[1] # "holder" => Old(d, k) = Old(e, k)

(* The rows of the blocks after i up to j. *)
Gathered(q, i, j) ==
    /\ IsRows(plugin, q)
    /\ (plugin = Keeper => i # j) => Effect(plugin, want[i], q, want[j])

(* How the steps of the harness hang together, whatever the tables hold. *)
TokenShape ==
    /\ plugin \in Plugins /\ chain \in Chains(plugin) /\ want = Clean(plugin, chain)
    /\ row \in 0 .. Tip /\ cache = row
    /\ pc \in {"down", "idle", "put", "commit"}
    /\ IsFields(mem)
    /\ last \in 0 .. Tip /\ at \in 0 .. Tip + 1
    /\ pc \in {"put", "commit"} => cache < last /\ (plugin = Keeper => last = cache + 1)
    /\ pc = "put" => cache < at /\ at <= last + 1
    /\ pc = "commit" => todo = <<TokenTx(plugin, mem, db, last)>> /\ done = Emptied(mem)
    /\ pc # "commit" => todo = <<>>
    /\ faults \in 0 .. FaultsOf(plugin)
    /\ hidden \in BOOLEAN

TokenSure == ~hidden /\ (plugin \in Repeats => Unfailed)

(* The tables are those of the height in the row, and the buffer has what  *)
(* lies between them and the blocks put so far.                            *)
TokenContent ==
    TokenSure =>
       /\ Known(plugin, mem)
       /\ pc \in {"down", "idle"} => mem.buf = <<>>
       /\ pc # "down" \/ row > 0 => Same(plugin, db, want[row])
       /\ pc = "put" => Gathered(mem.buf, cache, at - 1)
       /\ pc = "commit" => Gathered(mem.buf, cache, last)

TokenIInv == TokenShape /\ TokenContent
-----------------------------------------------------------------------------
(* From, the rows of a table, is a fold. *)
FromStep(q, i, a) == IF q.rows[i].k[1] = q.t THEN Append(a, q.rows[i]) ELSE a
FromFold == INSTANCE FoldLemmas WITH step <- FromStep, pick <- LastOf

(* It goes through the list from the first row to the last. *)
LEMMA FromPicks ==
    ASSUME NEW n \in Nat
    PROVE  FromFold!Picks(1 .. n) /\ FromFold!IsFiniteSet(1 .. n)
  <1>1. \A S \in SUBSET (1 .. n) : S # {} => LastOf(S) \in S
    BY LastIn
  <1>2. IsFiniteSet(1 .. n)
    BY PrefixFinite
  <1>3. FromFold!IsFiniteSet(1 .. n)
    BY <1>2 DEF IsFiniteSet, FromFold!IsFiniteSet
  <1> QED BY <1>1, <1>3 DEF FromFold!Picks

(* From is the fold of FoldLemmas. *)
LEMMA FromIsIter ==
    ASSUME NEW t, NEW rows
    PROVE  From(t, rows) = FromFold!Iter([t |-> t, rows |-> rows], <<>>, DOMAIN rows)
  BY DEF From, NoRows, FoldLeft, MapThenFoldSet, FromFold!Iter, FromStep, LastOf

(* The rows of table t: its keys, each as often as in the list. *)
IsFrom(t, rows, R, f) ==
    /\ f \in Seq(R)
    /\ Keys(f) = {k \in Keys(rows) : k[1] = t}
    /\ \A k : Times(f, k) = IF k[1] = t THEN Times(rows, k) ELSE 0

(* One more row. *)
LEMMA OneRow ==
    ASSUME NEW R, NEW q \in Seq(R), NEW r \in R
    PROVE  /\ Append(q, r) \in Seq(R)
           /\ Keys(Append(q, r)) = Keys(q) \cup {r.k}
           /\ \A k : /\ Times(q, k) \in Nat
                     /\ Times(Append(q, r), k) = Times(q, k) + (IF r.k = k THEN 1 ELSE 0)
  <1>1. <<r>> \in Seq(R) /\ DOMAIN <<r>> = {1} /\ <<r>>[1] = r
    OBVIOUS
  <1>2. Append(q, r) = q \o <<r>>
    OBVIOUS
  <1>3. Keys(<<r>>) = {r.k}
    BY <1>1 DEF Keys
  <1>4. ASSUME NEW k PROVE Times(<<r>>, k) = IF r.k = k THEN 1 ELSE 0
    <2>1. CASE r.k = k
      <3>1. {i \in DOMAIN <<r>> : <<r>>[i].k = k} = {1}
        BY <1>1, <2>1
      <3> QED BY <2>1, <3>1, FS_Singleton DEF Times
    <2>2. CASE r.k # k
      <3>1. {i \in DOMAIN <<r>> : <<r>>[i].k = k} = {}
        BY <1>1, <2>2
      <3> QED BY <2>2, <3>1, FS_EmptySet DEF Times
    <2> QED BY <2>1, <2>2
  <1>5. Append(q, r) \in Seq(R)
    OBVIOUS
  <1>6. PICK s : s = <<r>>
    OBVIOUS
  <1>7. s \in Seq(R) /\ Append(q, r) = q \o s /\ Keys(s) = {r.k}
        /\ \A k : Times(s, k) = IF r.k = k THEN 1 ELSE 0
    BY <1>1, <1>2, <1>3, <1>4, <1>6
  <1>8. Keys(q \o s) = Keys(q) \cup {r.k}
    BY <1>7, KeysConcat
  <1>9. \A k : /\ Times(q, k) \in Nat
               /\ Times(q \o s, k) = Times(q, k) + Times(s, k)
    BY <1>7, CountConcat
  <1> QED BY <1>5, <1>7, <1>8, <1>9

(* What From returns. *)
LEMMA FromIs ==
    ASSUME NEW t, NEW R, NEW q \in Seq(R)
    PROVE  IsFrom(t, q, R, From(t, q))
  <1> DEFINE a == [t |-> t, rows |-> q]
             P(n) == FromFold!Iter(a, <<>>, 1 .. n)
             pre(n) == SubSeq(q, 1, n)
             N == {n \in Nat : n <= Len(q) => IsFrom(t, pre(n), R, P(n))}
  <1>1. Len(q) \in Nat /\ DOMAIN q = 1 .. Len(q) /\ \A i \in 1 .. Len(q) : q[i] \in R
    OBVIOUS
  <1>2. IsFrom(t, pre(0), R, P(0))
    <2>1. pre(0) = <<>>
      OBVIOUS
    <2>2. P(0) = <<>>
      <3>1. 1 .. 0 = {}
        OBVIOUS
      <3> QED BY <3>1, FromFold!IterEmpty
    <2>3. <<>> \in Seq(R) /\ Keys(<<>>) = {} 
      BY DEF Keys
    <2>4. \A k : Times(<<>>, k) = 0
      BY <2>3, CountConcat
    <2> HIDE DEF P, pre
    <2> QED BY <2>1, <2>2, <2>3, <2>4 DEF IsFrom
  <1>3. ASSUME NEW n \in Nat, n + 1 <= Len(q), IsFrom(t, pre(n), R, P(n))
        PROVE  IsFrom(t, pre(n + 1), R, P(n + 1))
    <2>1. PICK r : r = q[n + 1]
      OBVIOUS
    <2>2. r \in R /\ n + 1 \in 1 .. Len(q)
      BY <1>1, <1>3, <2>1
    <2>3. P(n + 1) = IF r.k[1] = t THEN Append(P(n), r) ELSE P(n)
      <3>1. FromFold!Picks(1 .. n + 1) /\ LastOf(1 .. n + 1) = n + 1
        <4>1. n + 1 \in Nat
          OBVIOUS
        <4> QED BY <4>1, FromPicks, LastIs
      <3>2. FromFold!Iter(a, <<>>, 1 .. n + 1) = FromStep(a, n + 1, FromFold!Iter(a, <<>>, 1 .. n))
        <4> HIDE DEF a
        <4> QED BY <3>1, FromFold!IterNext
      <3>3. a.rows[n + 1] = r /\ a.t = t
        BY <2>1
      <3> HIDE DEF a
      <3> QED BY <3>2, <3>3 DEF FromStep
    <2>4. pre(n) \in Seq(R) /\ pre(n + 1) = Append(pre(n), r)
      <3>1. pre(n) \in Seq(R) /\ Len(pre(n)) = n /\ \A i \in 1 .. n : pre(n)[i] = q[i]
        BY <1>1, <1>3
      <3>2. pre(n + 1) \in Seq(R) /\ Len(pre(n + 1)) = n + 1 /\ \A i \in 1 .. n + 1 : pre(n + 1)[i] = q[i]
        BY <1>1, <1>3
      <3>3. PICK u, w : u = pre(n) /\ w = pre(n + 1)
        OBVIOUS
      <3> HIDE DEF pre
      <3>4. Append(u, r) \in Seq(R) /\ Len(Append(u, r)) = n + 1 /\ Append(u, r)[n + 1] = r
            /\ \A i \in 1 .. n : Append(u, r)[i] = u[i]
        BY <3>1, <3>3, <2>2
      <3>5. \A i \in 1 .. n + 1 : w[i] = Append(u, r)[i]
        <4> SUFFICES ASSUME NEW i \in 1 .. n + 1 PROVE w[i] = Append(u, r)[i]
          OBVIOUS
        <4>1. CASE i = n + 1
          BY <4>1, <3>2, <3>3, <3>4, <2>1
        <4>2. CASE i # n + 1
          <5>1. i \in 1 .. n
            BY <4>2
          <5> QED BY <5>1, <3>1, <3>2, <3>3, <3>4
        <4> QED BY <4>1, <4>2
      <3>6. w = Append(u, r)
        BY <3>2, <3>3, <3>4, <3>5, SeqEqual
      <3> QED BY <3>1, <3>3, <3>6
    <2>5. PICK u, f : u = pre(n) /\ f = P(n)
      OBVIOUS
    <2> HIDE DEF P, pre
    <2>6. f \in Seq(R) /\ u \in Seq(R)
          /\ Keys(f) = {k \in Keys(u) : k[1] = t}
          /\ \A k : Times(f, k) = IF k[1] = t THEN Times(u, k) ELSE 0
      BY <1>3, <2>4, <2>5 DEF IsFrom
    <2>7. /\ Append(f, r) \in Seq(R)
          /\ Keys(Append(f, r)) = Keys(f) \cup {r.k}
          /\ \A k : /\ Times(f, k) \in Nat
                    /\ Times(Append(f, r), k) = Times(f, k) + (IF r.k = k THEN 1 ELSE 0)
      BY <2>2, <2>6, OneRow
    <2>8. /\ Keys(Append(u, r)) = Keys(u) \cup {r.k}
          /\ \A k : /\ Times(u, k) \in Nat
                    /\ Times(Append(u, r), k) = Times(u, k) + (IF r.k = k THEN 1 ELSE 0)
      BY <2>2, <2>6, OneRow
    <2>9. CASE r.k[1] = t
      <3>1. Keys(Append(f, r)) = {k \in Keys(Append(u, r)) : k[1] = t}
        BY <2>6, <2>7, <2>8, <2>9
      <3>2. \A k : Times(Append(f, r), k) = IF k[1] = t THEN Times(Append(u, r), k) ELSE 0
        BY <2>6, <2>7, <2>8, <2>9
      <3> QED BY <2>3, <2>4, <2>5, <2>7, <2>9, <3>1, <3>2 DEF IsFrom
    <2>10. CASE r.k[1] # t
      <3>1. Keys(f) = {k \in Keys(Append(u, r)) : k[1] = t}
        BY <2>6, <2>8, <2>10
      <3>2. \A k : Times(f, k) = IF k[1] = t THEN Times(Append(u, r), k) ELSE 0
        BY <2>6, <2>7, <2>8, <2>10
      <3> QED BY <2>3, <2>4, <2>5, <2>6, <2>10, <3>1, <3>2 DEF IsFrom
    <2> QED BY <2>9, <2>10
  <1>4. N = Nat
    <2>1. N \in SUBSET Nat /\ 0 \in N
      BY <1>2
    <2>2. \A n \in N : n + 1 \in N
      <3> SUFFICES ASSUME NEW n \in N PROVE n + 1 \in N
        OBVIOUS
      <3>1. n \in Nat /\ n + 1 \in Nat /\ (n + 1 <= Len(q) => n <= Len(q))
        BY <1>1
      <3> HIDE DEF P, pre
      <3> QED BY <1>3, <3>1
    <2> HIDE DEF N
    <2> QED BY <2>1, <2>2, SetInduction
  <1>5. IsFrom(t, pre(Len(q)), R, P(Len(q)))
    <2> HIDE DEF P, pre
    <2>1. Len(q) \in N
      BY <1>1, <1>4
    <2> QED BY <1>1, <2>1
  <1>6. pre(Len(q)) = q
    BY <1>1
  <1>7. From(t, q) = P(Len(q))
    BY <1>1, FromIsIter
  <1> HIDE DEF P, pre
  <1> QED BY <1>5, <1>6, <1>7
-----------------------------------------------------------------------------
(* The list of a finite set has all of its elements. *)
LEMMA RowsAll ==
    ASSUME NEW S, IsFiniteSet(S)
    PROVE  \A x \in S : \E i \in DOMAIN Rows(S) : Rows(S)[i] = x
  <1> DEFINE Good(q, T) == \A x \in T : \E i \in DOMAIN q : q[i] = x
             Wrong == {T \in SUBSET S : ~Good(Rows(T), T)}
  <1> SUFFICES ASSUME Wrong # {} PROVE FALSE
    OBVIOUS
  <1>0. Wrong \in SUBSET SUBSET S /\ RowsFold!IsFiniteSet(S)
    BY DEF IsFiniteSet, RowsFold!IsFiniteSet
  <1>1. PICK T \in Wrong : \A U \in Wrong : U \subseteq T => U = T
    <2> HIDE DEF Wrong
    <2> QED BY <1>0, RowsFold!Least
  <1>2. T \subseteq S /\ ~Good(Rows(T), T)
    OBVIOUS
  <1>3. \A U : U \subseteq T /\ U # T => Good(Rows(U), U)
    BY <1>1
  <1> HIDE DEF Wrong
  <1>4. T # {}
    BY <1>2
  <1>5. IsFiniteSet(T)
    BY <1>2, FS_Subset
  <1>6. PICK y \in T : Rows(T) = Append(Rows(T \ {y}), y)
    BY <1>4, <1>5, RowsStep
  <1>7. PICK q : q = Rows(T \ {y})
    OBVIOUS
  <1>8. Good(q, T \ {y}) /\ q \in Seq(T \ {y})
    <2>1. T \ {y} \subseteq T /\ T \ {y} # T /\ IsFiniteSet(T \ {y})
      BY <1>5, FS_Subset
    <2>2. Good(Rows(T \ {y}), T \ {y})
      BY <1>3, <2>1
    <2> QED BY <1>7, <2>1, <2>2, RowsOnce
  <1>9. DOMAIN Append(q, y) = 1 .. Len(q) + 1 /\ DOMAIN q = 1 .. Len(q) /\ Len(q) \in Nat
        /\ (\A i \in 1 .. Len(q) : Append(q, y)[i] = q[i]) /\ Append(q, y)[Len(q) + 1] = y
    BY <1>8
  <1>10. Good(Append(q, y), T)
    <2> SUFFICES ASSUME NEW x \in T PROVE \E i \in DOMAIN Append(q, y) : Append(q, y)[i] = x
      OBVIOUS
    <2>1. CASE x = y
      <3>1. Len(q) + 1 \in 1 .. Len(q) + 1
        BY <1>9
      <3> QED BY <1>9, <2>1, <3>1
    <2>2. CASE x # y
      <3>1. PICK i \in 1 .. Len(q) : q[i] = x
        BY <1>8, <1>9, <2>2
      <3>2. i \in 1 .. Len(q) + 1
        BY <1>9
      <3> QED BY <1>9, <3>1, <3>2
    <2> QED BY <2>1, <2>2
  <1> QED BY <1>2, <1>6, <1>7, <1>10

(* A list without repetitions has the keys of the list. *)
LEMMA DistinctIs ==
    ASSUME NEW R, NEW q \in Seq(R)
    PROVE  Distinct(q) \in Seq(R) /\ Keys(Distinct(q)) = Keys(q)
  <1>1. PICK S : S = {q[i] : i \in DOMAIN q}
    OBVIOUS
  <1>2. Distinct(q) = Rows(S)
    BY <1>1 DEF Distinct, Range
  <1>3. IsFiniteSet(S)
    <2>1. Len(q) \in Nat /\ DOMAIN q = 1 .. Len(q)
      OBVIOUS
    <2>2. IsFiniteSet(DOMAIN q)
      BY <2>1, PrefixFinite
    <2> DEFINE f == [i \in DOMAIN q |-> q[i]]
    <2>3. f \in [DOMAIN q -> S] /\ \A y \in S : \E x \in DOMAIN q : f[x] = y
      BY <1>1
    <2> HIDE DEF f
    <2>4. f \in Surjection(DOMAIN q, S)
      BY <2>3 DEF Surjection
    <2> QED BY <2>2, <2>4, FS_Surjection
  <1>4. PICK r : r = Rows(S)
    OBVIOUS
  <1>5. r \in Seq(S) /\ \A x \in S : \E i \in DOMAIN r : r[i] = x
    BY <1>3, <1>4, RowsOnce, RowsAll
  <1>6. S \subseteq R
    BY <1>1
  <1>7. r \in Seq(R)
    BY <1>5, <1>6
  <1>8. \A i \in DOMAIN r : r[i] \in S
    BY <1>5
  <1>9. Keys(r) = {x.k : x \in S}
    BY <1>5, <1>8 DEF Keys
  <1>10. Keys(q) = {x.k : x \in S}
    BY <1>1 DEF Keys
  <1> QED BY <1>2, <1>4, <1>7, <1>9, <1>10

(* Some row of a key comes first in a list. *)
LEMMA FirstExists ==
    ASSUME NEW S \in SUBSET Nat, S # {}
    PROVE  \E i \in S : \A j \in S : i <= j
  <1>1. PICK i \in S : \A j \in S : <<j, i>> \notin OpToRel(<, Nat)
    BY NatLessThanWellFounded, WFMin
  <1>2. \A j \in S : ~(j < i)
    BY <1>1 DEF OpToRel
  <1> QED BY <1>2

(* An insert that ignores what is there adds the keys that are not. *)
LEMMA IgnoreExec ==
    ASSUME NEW R, NEW q \in Seq(R), \A i \in DOMAIN q : q[i].v = 1, NEW d, IsTable(d)
    PROVE  \E e : /\ Exec(d, Ignore(q)) = {e}
                  /\ IsTable(e) /\ DOMAIN e = DOMAIN d \cup Keys(q)
                  /\ \A k : k \notin Keys(q) => Old(e, k) = Old(d, k)
  <1> DEFINE there(k) == {i \in DOMAIN q : q[i].k = k}
             first(k) == q[CHOOSE i \in there(k) : \A j \in there(k) : i <= j].v
             new == [k \in Keys(q) |-> first(k)]
             e == Over(d, new)
  <1>1. Exec(d, Ignore(q)) = {e}
    BY DEF Exec, Ignore
  <1>2. \A k \in Keys(q) : first(k) = 1
    <2> SUFFICES ASSUME NEW k \in Keys(q) PROVE first(k) = 1
      OBVIOUS
    <2>1. there(k) # {} /\ there(k) \in SUBSET Nat
      BY DEF Keys
    <2>2. \E i \in there(k) : \A j \in there(k) : i <= j
      <3> HIDE DEF there
      <3> QED BY <2>1, FirstExists
    <2>3. (CHOOSE i \in there(k) : \A j \in there(k) : i <= j) \in there(k)
      <3> HIDE DEF there
      <3> QED BY <2>2
    <2> QED BY <2>3
  <1>3. DOMAIN e = DOMAIN d \cup Keys(q)
    BY DEF Over
  <1>4. \A k \in DOMAIN e : e[k] = IF k \in DOMAIN d THEN d[k] ELSE 1
    <2> HIDE DEF first
    <2> QED BY <1>2 DEF Over
  <1>5. e = [k \in DOMAIN e |-> e[k]]
    BY DEF Over
  <1> HIDE DEF e
  <1>6. IsTable(e)
    <2>1. \A k \in DOMAIN e : e[k] \in Int
      BY <1>4 DEF IsTable
    <2> QED BY <1>5, <2>1 DEF IsTable
  <1>7. \A k : k \notin Keys(q) => Old(e, k) = Old(d, k)
    BY <1>3, <1>4 DEF Old
  <1> QED BY <1>1, <1>3, <1>6, <1>7
-----------------------------------------------------------------------------
(* A statement that adds the rows of table t among q to whatever is there. *)
Adding(t, q, st) ==
    \A d : IsTable(d) =>
       \E e : /\ Exec(d, st) = {e}
              /\ IsTable(e) /\ DOMAIN e = DOMAIN d \cup Keys(From(t, q))
              /\ \A k : k[1] # "holder" => Old(e, k) = Old(d, k) + Times(From(t, q), k)

(* Such are the statements of the token plugins: the ones without a key,   *)
(* and for the holders also those that drop what is there.                 *)
LEMMA SerialAdds ==
    ASSUME NEW R, NEW q \in Seq(R), NEW t
    PROVE  Adding(t, q, Serial(From(t, q)))
  <1>1. PICK f : f = From(t, q)
    OBVIOUS
  <1>2. f \in Seq(R)
    BY <1>1, FromIs DEF IsFrom
  <1>3. \A d : Exec(d, Serial(f)) = {Adds(d, f)}
    BY SerialExec
  <1>4. \A d : IsTable(d) => /\ IsTable(Adds(d, f))
                             /\ DOMAIN Adds(d, f) = DOMAIN d \cup Keys(f)
                             /\ \A k : Old(Adds(d, f), k) = Old(d, k) + Times(f, k)
    BY <1>2, AddsValues
  <1> QED BY <1>1, <1>3, <1>4 DEF Adding

(* A row of the table is one of the list. *)
LEMMA FromRows ==
    ASSUME NEW R, NEW q \in Seq(R), \A i \in DOMAIN q : q[i].v = 1, NEW t
    PROVE  From(t, q) \in Seq(R) /\ \A i \in DOMAIN From(t, q) : From(t, q)[i].v = 1
  <1>1. PICK Q : Q = {r \in R : r.v = 1}
    OBVIOUS
  <1>2. q \in Seq(Q)
    <2>1. Len(q) \in Nat /\ DOMAIN q = 1 .. Len(q) /\ q \in [1 .. Len(q) -> R]
      OBVIOUS
    <2>2. q \in [1 .. Len(q) -> Q]
      BY <1>1, <2>1
    <2> QED BY <2>1, <2>2, SeqDef
  <1>3. PICK f : f = From(t, q)
    OBVIOUS
  <1>4. f \in Seq(Q) /\ f \in Seq(R)
    BY <1>2, <1>3, FromIs DEF IsFrom
  <1>5. \A i \in DOMAIN f : f[i] \in Q
    BY <1>4
  <1> QED BY <1>1, <1>3, <1>4, <1>5

(* What is there of a holder, the others are as they were.                 *)
LEMMA HolderAdds ==
    ASSUME NEW R, NEW q \in Seq(R), \A i \in DOMAIN q : q[i].v = 1,
           NEW st, st \in {Ignore(From("holder", q)), Serial(Distinct(From("holder", q)))}
    PROVE  Adding("holder", q, st)
  <1>1. PICK f : f = From("holder", q)
    OBVIOUS
  <1>2. f \in Seq(R) /\ (\A i \in DOMAIN f : f[i].v = 1)
    BY <1>1, FromRows
  <1>3. \A k : k[1] # "holder" => Times(f, k) = 0 /\ k \notin Keys(f)
    BY <1>1, FromIs DEF IsFrom
  <1> SUFFICES ASSUME NEW d, IsTable(d)
               PROVE \E e : /\ Exec(d, st) = {e}
                            /\ IsTable(e) /\ DOMAIN e = DOMAIN d \cup Keys(f)
                            /\ \A k : k[1] # "holder" => Old(e, k) = Old(d, k) + Times(f, k)
    BY <1>1 DEF Adding
  <1>4. \A k : Old(d, k) \in Int
    BY DEF Old, IsTable
  <1>5. CASE st = Ignore(f)
    <2>1. PICK e : /\ Exec(d, Ignore(f)) = {e}
                   /\ IsTable(e) /\ DOMAIN e = DOMAIN d \cup Keys(f)
                   /\ \A k : k \notin Keys(f) => Old(e, k) = Old(d, k)
      BY <1>2, IgnoreExec
    <2>2. \A k : k[1] # "holder" => Old(e, k) = Old(d, k) + Times(f, k)
      BY <1>3, <1>4, <2>1
    <2> QED BY <1>5, <2>1, <2>2
  <1>6. CASE st = Serial(Distinct(f))
    <2>1. PICK g : g = Distinct(f)
      OBVIOUS
    <2>2. g \in Seq(R) /\ Keys(g) = Keys(f)
      BY <1>2, <2>1, DistinctIs
    <2>3. Exec(d, Serial(g)) = {Adds(d, g)}
      BY SerialExec
    <2>4. PICK e : e = Adds(d, g)
      OBVIOUS
    <2>5. /\ IsTable(e) /\ DOMAIN e = DOMAIN d \cup Keys(f)
          /\ \A k : Old(e, k) = Old(d, k) + Times(g, k)
      BY <2>2, <2>4, AddsValues
    <2>6. \A k : k \notin Keys(g) => Times(g, k) = 0
      BY <2>2, CountConcat
    <2>7. \A k : k[1] # "holder" => Old(e, k) = Old(d, k) + Times(f, k)
      BY <1>3, <2>2, <2>5, <2>6
    <2> QED BY <1>6, <2>1, <2>3, <2>4, <2>5, <2>7
  <1> QED BY <1>1, <1>5, <1>6

(* The statement st makes of e the tables d with the rows of q in ts. *)
Leads(e, st, ts, d, q) == \E f : Exec(e, st) = {f} /\ Grown(ts, d, q, f)

(* One more statement of a transaction, on one more table. *)
LEMMA StageStep ==
    ASSUME NEW R, NEW q \in Seq(R), NEW d, IsTable(d), NEW ts, NEW e, Grown(ts, d, q, e),
           NEW t, t \notin ts, NEW st, Adding(t, q, st)
    PROVE  Leads(e, st, ts \cup {t}, d, q)
  <1>1. PICK g : g = From(t, q)
    OBVIOUS
  <1>2. Keys(g) = {k \in Keys(q) : k[1] = t} /\ \A k : Times(g, k) = IF k[1] = t THEN Times(q, k) ELSE 0
    BY <1>1, FromIs DEF IsFrom
  <1>3. IsTable(e) /\ DOMAIN e = DOMAIN d \cup {k \in Keys(q) : k[1] \in ts}
        /\ \A k : k[1] # "holder" =>
              Old(e, k) = Old(d, k) + (IF k[1] \in ts THEN Times(q, k) ELSE 0)
    BY DEF Grown
  <1>4. PICK f : /\ Exec(e, st) = {f}
                 /\ IsTable(f) /\ DOMAIN f = DOMAIN e \cup Keys(g)
                 /\ \A k : k[1] # "holder" => Old(f, k) = Old(e, k) + Times(g, k)
    BY <1>1, <1>3 DEF Adding
  <1>5. DOMAIN f = DOMAIN d \cup {k \in Keys(q) : k[1] \in ts \cup {t}}
    BY <1>2, <1>3, <1>4
  <1>6. ASSUME NEW k, k[1] # "holder"
        PROVE  Old(f, k) = Old(d, k) + (IF k[1] \in ts \cup {t} THEN Times(q, k) ELSE 0)
    <2>1. Old(d, k) \in Int /\ Times(q, k) \in Nat
      BY CountConcat DEF Old, IsTable
    <2>2. Old(e, k) = Old(d, k) + (IF k[1] \in ts THEN Times(q, k) ELSE 0)
      BY <1>3, <1>6
    <2>3. Old(f, k) = Old(e, k) + (IF k[1] = t THEN Times(q, k) ELSE 0)
      BY <1>2, <1>4, <1>6
    <2> QED BY <2>1, <2>2, <2>3
  <1> QED BY <1>4, <1>5, <1>6 DEF Grown, Leads
-----------------------------------------------------------------------------
(* The first n statements have added the rows of the tables ts. *)
Reached(sts, n, ts, d, q) ==
    \E e : RunFold!Iter(sts, {d}, 1 .. n) = {e} /\ Grown(ts, d, q, e)

(* None of them has added none. *)
LEMMA ReachedNone ==
    ASSUME NEW sts, NEW d, IsTable(d), NEW q
    PROVE  Reached(sts, 0, {}, d, q)
  <1>1. 1 .. 0 = {}
    OBVIOUS
  <1>2. RunFold!Iter(sts, {d}, 1 .. 0) = {d}
    BY <1>1, RunFold!IterEmpty
  <1>3. \A k : Old(d, k) \in Int
    BY DEF Old, IsTable
  <1>4. Grown({}, d, q, d)
    BY <1>3 DEF Grown
  <1> QED BY <1>2, <1>4 DEF Reached

(* The next one adds those of its table. *)
LEMMA ReachedNext ==
    ASSUME NEW R, NEW q \in Seq(R), NEW d, IsTable(d), NEW sts, NEW n \in Nat, NEW ts,
           Reached(sts, n, ts, d, q), NEW t, t \notin ts, Adding(t, q, sts[n + 1])
    PROVE  Reached(sts, n + 1, ts \cup {t}, d, q)
  <1>1. PICK e : RunFold!Iter(sts, {d}, 1 .. n) = {e} /\ Grown(ts, d, q, e)
    BY DEF Reached
  <1>2. PICK f : Exec(e, sts[n + 1]) = {f} /\ Grown(ts \cup {t}, d, q, f)
    <2>1. PICK st : st = sts[n + 1]
      OBVIOUS
    <2>2. Adding(t, q, st) /\ Grown(ts, d, q, e)
      BY <1>1, <2>1
    <2>3. Leads(e, st, ts \cup {t}, d, q)
      BY <2>2, StageStep
    <2> QED BY <2>1, <2>3 DEF Leads
  <1>3. RunFold!Picks(1 .. n + 1) /\ LastOf(1 .. n + 1) = n + 1
    <2>1. \A S \in SUBSET (1 .. n + 1) : S # {} => LastOf(S) \in S
      <3>1. n + 1 \in Nat
        OBVIOUS
      <3> QED BY <3>1, LastIn
    <2> QED BY <2>1, LastIs DEF RunFold!Picks
  <1>4. RunFold!Iter(sts, {d}, 1 .. n + 1) = ExecAll(sts, n + 1, RunFold!Iter(sts, {d}, 1 .. n))
    BY <1>3, RunFold!IterNext
  <1>5. ExecAll(sts, n + 1, {e}) = Exec(e, sts[n + 1])
    BY DEF ExecAll
  <1> QED BY <1>1, <1>2, <1>4, <1>5 DEF Reached

(* All of them are the transaction. *)
LEMMA ReachedAll ==
    ASSUME NEW sts, NEW n \in Nat, DOMAIN sts = 1 .. n, NEW ts, NEW d, NEW q,
           Reached(sts, n, ts, d, q)
    PROVE  \E e : Run(d, sts) = {e} /\ Grown(ts, d, q, e)
  BY RunIsIter DEF Reached

(* A transaction on three tables, and one on four. *)
LEMMA ThreeStages ==
    ASSUME NEW R, NEW q \in Seq(R), NEW d, IsTable(d), NEW sts, DOMAIN sts = 1 .. 3,
           NEW a, NEW b, NEW c, a # b, a # c, b # c,
           Adding(a, q, sts[1]), Adding(b, q, sts[2]), Adding(c, q, sts[3])
    PROVE  \E e : Run(d, sts) = {e} /\ Grown({a, b, c}, d, q, e)
  <1>1. Reached(sts, 0, {}, d, q)
    BY ReachedNone
  <1>2. Reached(sts, 0 + 1, {} \cup {a}, d, q)
    <2>1. 0 + 1 = 1 /\ a \notin {} /\ 0 \in Nat
      OBVIOUS
    <2>2. Adding(a, q, sts[0 + 1])
      BY <2>1
    <2> QED BY <1>1, <2>1, <2>2, ReachedNext
  <1>3. Reached(sts, 1, {a}, d, q)
    <2>1. 0 + 1 = 1 /\ {} \cup {a} = {a}
      OBVIOUS
    <2> QED BY <1>2, <2>1
  <1>4. Reached(sts, 1 + 1, {a} \cup {b}, d, q)
    <2>1. 1 + 1 = 2 /\ b \notin {a} /\ 1 \in Nat
      OBVIOUS
    <2>2. Adding(b, q, sts[1 + 1])
      BY <2>1
    <2> QED BY <1>3, <2>1, <2>2, ReachedNext
  <1>5. Reached(sts, 2, {a, b}, d, q)
    <2>1. 1 + 1 = 2 /\ {a} \cup {b} = {a, b}
      OBVIOUS
    <2> QED BY <1>4, <2>1
  <1>6. Reached(sts, 2 + 1, {a, b} \cup {c}, d, q)
    <2>1. 2 + 1 = 3 /\ c \notin {a, b} /\ 2 \in Nat
      OBVIOUS
    <2>2. Adding(c, q, sts[2 + 1])
      BY <2>1
    <2> QED BY <1>5, <2>1, <2>2, ReachedNext
  <1>7. Reached(sts, 3, {a, b, c}, d, q)
    <2>1. 2 + 1 = 3 /\ {a, b} \cup {c} = {a, b, c}
      OBVIOUS
    <2> QED BY <1>6, <2>1
  <1>8. 3 \in Nat
    OBVIOUS
  <1> QED BY <1>7, <1>8, ReachedAll

(* The first three of four statements. *)
LEMMA FourStages ==
    ASSUME NEW R, NEW q \in Seq(R), NEW d, IsTable(d), NEW sts, DOMAIN sts = 1 .. 4,
           NEW a, NEW b, NEW c, NEW f, a # b, a # c, b # c, f \notin {a, b, c},
           Adding(a, q, sts[1]), Adding(b, q, sts[2]), Adding(c, q, sts[3]),
           Adding(f, q, sts[4])
    PROVE  \E e : Run(d, sts) = {e} /\ Grown({a, b, c, f}, d, q, e)
  <1>1. PICK s : s = [i \in 1 .. 3 |-> sts[i]]
    OBVIOUS
  <1>2. DOMAIN s = 1 .. 3 /\ \A i \in 1 .. 3 : s[i] = sts[i]
    BY <1>1
  <1>3. 1 \in 1 .. 3 /\ 2 \in 1 .. 3 /\ 3 \in 1 .. 3
    OBVIOUS
  <1>4. PICK e : Run(d, s) = {e} /\ Grown({a, b, c}, d, q, e)
    <2>1. Adding(a, q, s[1]) /\ Adding(b, q, s[2]) /\ Adding(c, q, s[3])
      BY <1>2, <1>3
    <2> QED BY <1>2, <2>1, ThreeStages
  <1>5. RunFold!Iter(s, {d}, 1 .. 3) = {e}
    BY <1>2, <1>4, RunIsIter
  <1>6. RunFold!Iter(sts, {d}, 1 .. 3) = RunFold!Iter(s, {d}, 1 .. 3)
    <2>1. RunFold!Picks(1 .. 3) /\ RunFold!IsFiniteSet(1 .. 3)
      <3>1. 3 \in Nat
        OBVIOUS
      <3>2. \A S \in SUBSET (1 .. 3) : S # {} => LastOf(S) \in S
        BY <3>1, LastIn
      <3>3. IsFiniteSet(1 .. 3)
        BY <3>1, PrefixFinite
      <3>4. RunFold!IsFiniteSet(1 .. 3)
        BY <3>3 DEF IsFiniteSet, RunFold!IsFiniteSet
      <3> QED BY <3>2, <3>4 DEF RunFold!Picks
    <2>2. \A i \in 1 .. 3 : \A x : ExecAll(sts, i, x) = ExecAll(s, i, x)
      BY <1>2 DEF ExecAll
    <2> QED BY <2>1, <2>2, RunFold!IterSame
  <1>7. Reached(sts, 3, {a, b, c}, d, q)
    BY <1>4, <1>5, <1>6 DEF Reached
  <1>8. Reached(sts, 3 + 1, {a, b, c} \cup {f}, d, q)
    <2>1. 3 + 1 = 4 /\ 3 \in Nat
      OBVIOUS
    <2>2. Adding(f, q, sts[3 + 1])
      BY <2>1
    <2> QED BY <1>7, <2>1, <2>2, ReachedNext
  <1>9. Reached(sts, 4, {a, b, c, f}, d, q)
    <2>1. 3 + 1 = 4 /\ {a, b, c} \cup {f} = {a, b, c, f}
      OBVIOUS
    <2> QED BY <1>8, <2>1
  <1>10. 4 \in Nat
    OBVIOUS
  <1> QED BY <1>9, <1>10, ReachedAll

(* The transaction of a batch runs on any tables, and adds the batch's     *)
(* rows to them.                                                           *)
LEMMA TokenRun ==
    ASSUME NEW p \in Tokens, NEW q, IsRows(p, q), NEW d, p # Keeper => IsTable(d)
    PROVE  \E e : Run(d, TokenStmts(p, q, d)) = {e} /\ Effect(p, d, q, e)
  <1>1. CASE p = Keeper
    <2>1. PICK e : e = FoldLeft(HolderStep, d, q)
      OBVIOUS
    <2>2. TokenStmts(p, q, d) = <<Become(e)>>
      BY <1>1, <2>1 DEF TokenStmts, Keeper
    <2>3. Exec(d, Become(e)) = {e}
      BY DEF Exec, Become
    <2> QED BY <1>1, <2>1, <2>2, <2>3, RunOne DEF Effect
  <1>2. CASE p # Keeper
    <2>1. PICK R : q \in Seq(R)
      BY <1>2 DEF IsRows
    <2>2. IsTable(d) /\ \A i \in DOMAIN q : q[i].v = 1
      BY <1>2 DEF IsRows
    <2>3. PICK sts : sts = TokenStmts(p, q, d)
      OBVIOUS
    <2>4. \A t : Adding(t, q, Serial(From(t, q)))
      BY <2>1, SerialAdds
    <2>5. /\ Adding("holder", q, Ignore(From("holder", q)))
          /\ Adding("holder", q, Serial(Distinct(From("holder", q))))
      BY <2>1, <2>2, HolderAdds
    <2>6. CASE p \in {"erc20", "erc20_v2"}
      <3>1. /\ sts[1] = Serial(From("transfer", q)) /\ sts[2] = Serial(From("approval", q))
            /\ sts[3] \in {Ignore(From("holder", q)), Serial(Distinct(From("holder", q)))}
            /\ DOMAIN sts = 1 .. 3
        BY <2>3, <2>6 DEF TokenStmts
      <3>2. Adding("transfer", q, sts[1]) /\ Adding("approval", q, sts[2]) /\ Adding("holder", q, sts[3])
        BY <2>4, <2>5, <3>1
      <3>3. "transfer" # "approval" /\ "transfer" # "holder" /\ "approval" # "holder"
        OBVIOUS
      <3>4. \E e : Run(d, sts) = {e} /\ Grown({"transfer", "approval", "holder"}, d, q, e)
        BY <2>1, <2>2, <3>1, <3>2, <3>3, ThreeStages
      <3> QED BY <1>2, <2>3, <2>6, <3>4 DEF Effect, TablesOf
    <2>7. CASE p \in {"erc721", "erc721_v2"}
      <3>1. /\ sts[1] = Serial(From("transfer", q)) /\ sts[2] = Serial(From("approval", q))
            /\ sts[3] = Serial(From("approvalForAll", q))
            /\ sts[4] \in {Ignore(From("holder", q)), Serial(Distinct(From("holder", q)))}
            /\ DOMAIN sts = 1 .. 4
        BY <2>3, <2>7 DEF TokenStmts
      <3>2. Adding("transfer", q, sts[1]) /\ Adding("approval", q, sts[2])
            /\ Adding("approvalForAll", q, sts[3]) /\ Adding("holder", q, sts[4])
        BY <2>4, <2>5, <3>1
      <3>3. /\ "transfer" # "approval" /\ "transfer" # "approvalForAll"
            /\ "approval" # "approvalForAll"
            /\ "holder" \notin {"transfer", "approval", "approvalForAll"}
        OBVIOUS
      <3>4. \E e : Run(d, sts) = {e} /\ Grown({"transfer", "approval", "approvalForAll", "holder"}, d, q, e)
        BY <2>1, <2>2, <3>1, <3>2, <3>3, FourStages
      <3> QED BY <1>2, <2>3, <2>7, <3>4 DEF Effect, TablesOf
    <2>8. CASE p = "erc1155_v2"
      <3>1. /\ sts[1] = Serial(From("transferBatch", q)) /\ sts[2] = Serial(From("transferSingle", q))
            /\ sts[3] = Serial(From("uri", q)) /\ sts[4] = Serial(From("approvalForAll", q))
            /\ DOMAIN sts = 1 .. 4
        BY <2>3, <2>8 DEF TokenStmts
      <3>2. Adding("transferBatch", q, sts[1]) /\ Adding("transferSingle", q, sts[2])
            /\ Adding("uri", q, sts[3]) /\ Adding("approvalForAll", q, sts[4])
        BY <2>4, <3>1
      <3>3. /\ "transferBatch" # "transferSingle" /\ "transferBatch" # "uri"
            /\ "transferSingle" # "uri"
            /\ "approvalForAll" \notin {"transferBatch", "transferSingle", "uri"}
        OBVIOUS
      <3>4. \E e : Run(d, sts) = {e} /\ Grown({"transferBatch", "transferSingle", "uri", "approvalForAll"}, d, q, e)
        BY <2>1, <2>2, <3>1, <3>2, <3>3, FourStages
      <3> QED BY <1>2, <2>3, <2>8, <3>4 DEF Effect, TablesOf
    <2>9. CASE p = "erc1155"
      <3>1. TokenStmts(p, q, d) = <<Serial(q)>>
        BY <2>9 DEF TokenStmts
      <3>2. PICK e : e = Adds(d, q)
        OBVIOUS
      <3>3. Run(d, TokenStmts(p, q, d)) = {e}
        BY <3>1, <3>2, RunOne, SerialExec
      <3>4. /\ IsTable(e) /\ DOMAIN e = DOMAIN d \cup Keys(q)
            /\ \A k : Old(e, k) = Old(d, k) + Times(q, k)
        BY <2>1, <2>2, <3>2, AddsValues
      <3>5. \A k \in Keys(q) : k[1] \in TablesOf(p)
        BY <1>2 DEF IsRows, Keys
      <3>6. \A k : k \notin Keys(q) => Times(q, k) = 0
        BY <2>1, CountConcat
      <3>7. DOMAIN e = DOMAIN d \cup {k \in Keys(q) : k[1] \in TablesOf(p)}
        BY <3>4, <3>5
      <3>8. \A k : Old(e, k) = Old(d, k) + (IF k[1] \in TablesOf(p) THEN Times(q, k) ELSE 0)
        BY <3>4, <3>5, <3>6
      <3> QED BY <1>2, <3>3, <3>4, <3>7, <3>8 DEF Effect, Grown
    <2> QED BY <1>2, <2>6, <2>7, <2>8, <2>9 DEF Tokens, Keeper
  <1> QED BY <1>1, <1>2
-----------------------------------------------------------------------------
(* Two batches one after the other, and both at once. *)
LEMMA EffectConcat ==
    ASSUME NEW p, p # Keeper, NEW d, IsTable(d), NEW q, IsRows(p, q), NEW r, IsRows(p, r),
           NEW e, Effect(p, d, q, e), NEW f, Effect(p, e, r, f)
    PROVE  IsRows(p, q \o r) /\ Effect(p, d, q \o r, f)
  <1>1. PICK R : q \in Seq(R) /\ r \in Seq(R)
    <2>1. PICK A : q \in Seq(A)
      BY DEF IsRows
    <2>2. PICK B : r \in Seq(B)
      BY DEF IsRows
    <2>3. q \in Seq(A \cup B) /\ r \in Seq(A \cup B)
      BY <2>1, <2>2
    <2> QED BY <2>3
  <1>2. IsRows(p, q \o r)
    <2>1. q \o r \in Seq(R) /\ DOMAIN (q \o r) = 1 .. (Len(q) + Len(r))
          /\ Len(q) \in Nat /\ Len(r) \in Nat /\ DOMAIN q = 1 .. Len(q) /\ DOMAIN r = 1 .. Len(r)
      BY <1>1
    <2>2. \A i \in 1 .. Len(q) : (q \o r)[i] = q[i]
      BY <1>1
    <2>3. \A i \in 1 .. (Len(q) + Len(r)) : i \notin 1 .. Len(q) =>
             i - Len(q) \in 1 .. Len(r) /\ (q \o r)[i] = r[i - Len(q)]
      BY <1>1, <2>1
    <2>4. ASSUME NEW i \in 1 .. (Len(q) + Len(r))
          PROVE  (q \o r)[i].v = 1 /\ (q \o r)[i].k[1] \in TablesOf(p)
      <3>1. CASE i \in 1 .. Len(q)
        BY <2>1, <2>2, <3>1 DEF IsRows
      <3>2. CASE i \notin 1 .. Len(q)
        BY <2>1, <2>3, <3>2 DEF IsRows
      <3> QED BY <3>1, <3>2
    <2> QED BY <2>1, <2>4 DEF IsRows
  <1>3. Keys(q \o r) = Keys(q) \cup Keys(r)
    BY <1>1, KeysConcat
  <1>4. PICK ts, c : ts = TablesOf(p) /\ c = q \o r
    OBVIOUS
  <1>5. Grown(ts, d, q, e) /\ Grown(ts, e, r, f)
    BY <1>4 DEF Effect
  <1>6. IsTable(f) /\ DOMAIN f = DOMAIN d \cup {k \in Keys(c) : k[1] \in ts}
    <2>1. DOMAIN f = DOMAIN e \cup {k \in Keys(r) : k[1] \in ts}
      BY <1>5 DEF Grown
    <2>2. DOMAIN e = DOMAIN d \cup {k \in Keys(q) : k[1] \in ts}
      BY <1>5 DEF Grown
    <2>3. IsTable(f)
      BY <1>5 DEF Grown
    <2> QED BY <1>3, <1>4, <2>1, <2>2, <2>3
  <1>7. ASSUME NEW k, k[1] # "holder"
        PROVE  Old(f, k) = Old(d, k) + (IF k[1] \in ts THEN Times(c, k) ELSE 0)
    <2>1. Times(q, k) \in Nat /\ Times(r, k) \in Nat /\ Times(c, k) = Times(q, k) + Times(r, k)
      BY <1>1, <1>4, CountConcat
    <2>2. Old(d, k) \in Int
      BY DEF Old, IsTable
    <2>3. Old(e, k) = Old(d, k) + (IF k[1] \in ts THEN Times(q, k) ELSE 0)
      BY <1>5, <1>7 DEF Grown
    <2>4. Old(f, k) = Old(e, k) + (IF k[1] \in ts THEN Times(r, k) ELSE 0)
      BY <1>5, <1>7 DEF Grown
    <2> QED BY <2>1, <2>2, <2>3, <2>4
  <1> QED BY <1>2, <1>4, <1>6, <1>7 DEF Effect, Grown

(* No rows change nothing. *)
LEMMA EffectNone ==
    ASSUME NEW p, p # Keeper, NEW d, IsTable(d)
    PROVE  IsRows(p, <<>>) /\ Effect(p, d, <<>>, d)
  <1>1. <<>> \in Seq({}) /\ DOMAIN << >> = {} /\ Keys(<<>>) = {}
    BY DEF Keys
  <1>2. \A k : Times(<<>>, k) = 0
    BY <1>1, CountConcat
  <1>3. \A k : Old(d, k) \in Int
    BY DEF Old, IsTable
  <1>4. IsRows(p, <<>>)
    BY <1>1 DEF IsRows
  <1>5. PICK ts, q : ts = TablesOf(p) /\ q = <<>>
    OBVIOUS
  <1>6. Keys(q) = {} /\ \A k : Times(q, k) = 0
    BY <1>1, <1>2, <1>5
  <1>7. Grown(ts, d, q, d)
    BY <1>3, <1>6 DEF Grown
  <1> QED BY <1>4, <1>5, <1>7 DEF Effect

(* What a batch makes of tables that are equal but for the holders is      *)
(* equal but for the holders.                                              *)
LEMMA EffectSame ==
    ASSUME NEW p, NEW d, NEW c, Same(p, d, c), NEW q,
           NEW e, Effect(p, d, q, e), NEW f, Effect(p, c, q, f)
    PROVE  Same(p, e, f)
  <1>1. CASE p = Keeper
    BY <1>1 DEF Same, Effect
  <1>2. CASE p # Keeper
    <2>1. PICK ts : ts = TablesOf(p)
      OBVIOUS
    <2>2. Grown(ts, d, q, e) /\ Grown(ts, c, q, f)
      BY <1>2, <2>1 DEF Effect
    <2>3. DOMAIN d = DOMAIN c /\ \A k : k[1] # "holder" => Old(d, k) = Old(c, k)
      BY <1>2 DEF Same
    <2>4. IsTable(e) /\ IsTable(f) /\ DOMAIN e = DOMAIN f
      BY <2>2, <2>3 DEF Grown
    <2>5. \A k : k[1] # "holder" => Old(e, k) = Old(f, k)
      BY <2>2, <2>3 DEF Grown
    <2> QED BY <1>2, <2>4, <2>5 DEF Same
  <1> QED BY <1>1, <1>2

(* Such tables have the same rows when a holder counts once. *)
LEMMA SameSupport ==
    ASSUME NEW p, NEW d, NEW e, Same(p, d, e)
    PROVE  Support(d) = Support(e)
  <1>1. CASE p = Keeper
    BY <1>1 DEF Same
  <1>2. CASE p # Keeper
    <2>1. DOMAIN d = DOMAIN e /\ \A k : k[1] # "holder" => Old(d, k) = Old(e, k)
      BY <1>2 DEF Same
    <2>2. \A k \in DOMAIN d : k[1] # "holder" => d[k] = e[k]
      BY <2>1 DEF Old
    <2> QED BY <2>1, <2>2 DEF Support
  <1> QED BY <1>1, <1>2
-----------------------------------------------------------------------------
(* The rows of the logs of a block, joined, are a fold. *)
Rows20(q, i, a) == IF q.list[i] \in q.keep THEN a \o Erc20Rows(q.b, q.list[i]) ELSE a
Rows721(q, i, a) == IF q.list[i] \in q.keep THEN a \o Erc721Rows(q.b, q.list[i]) ELSE a
Rows1155(q, i, a) == IF q.list[i] \in q.keep THEN a \o Erc1155Rows(q.b, q.list[i]) ELSE a
Fold20 == INSTANCE FoldLemmas WITH step <- Rows20, pick <- LastOf
Fold721 == INSTANCE FoldLemmas WITH step <- Rows721, pick <- LastOf
Fold1155 == INSTANCE FoldLemmas WITH step <- Rows1155, pick <- LastOf

(* A block with its logs, the ones to keep, and their positions. *)
Join(b, keep) == [b |-> b, keep |-> keep, list |-> [i \in DOMAIN b.c |-> i]]

(* Concat is one of these folds. *)
LEMMA ConcatIsIter ==
    ASSUME NEW b, NEW keep
    PROVE  /\ Concat(b, keep, Erc20Rows) = Fold20!Iter(Join(b, keep), <<>>, DOMAIN b.c)
           /\ Concat(b, keep, Erc721Rows) = Fold721!Iter(Join(b, keep), <<>>, DOMAIN b.c)
           /\ Concat(b, keep, Erc1155Rows) = Fold1155!Iter(Join(b, keep), <<>>, DOMAIN b.c)
  <1> DEFINE list == [i \in DOMAIN b.c |-> i]
             j == [b |-> b, keep |-> keep, list |-> list]
  <1>1. DOMAIN list = DOMAIN b.c
    OBVIOUS
  <1>2. Concat(b, keep, Erc20Rows) = Fold20!Iter(j, <<>>, DOMAIN list)
    BY DEF Concat, NoRows, FoldLeft, MapThenFoldSet, Fold20!Iter, Rows20, LastOf
  <1>3. Concat(b, keep, Erc721Rows) = Fold721!Iter(j, <<>>, DOMAIN list)
    BY DEF Concat, NoRows, FoldLeft, MapThenFoldSet, Fold721!Iter, Rows721, LastOf
  <1>4. Concat(b, keep, Erc1155Rows) = Fold1155!Iter(j, <<>>, DOMAIN list)
    BY DEF Concat, NoRows, FoldLeft, MapThenFoldSet, Fold1155!Iter, Rows1155, LastOf
  <1>5. j = Join(b, keep)
    BY DEF Join
  <1> HIDE DEF list, j
  <1> QED BY <1>1, <1>2, <1>3, <1>4, <1>5

(* The positions of a list are the first so many numbers. *)
LEMMA ListPicks ==
    ASSUME NEW L, NEW c \in Seq(L)
    PROVE  /\ Fold20!Picks(DOMAIN c) /\ Fold20!IsFiniteSet(DOMAIN c)
           /\ Fold721!Picks(DOMAIN c) /\ Fold721!IsFiniteSet(DOMAIN c)
           /\ Fold1155!Picks(DOMAIN c) /\ Fold1155!IsFiniteSet(DOMAIN c)
  <1>1. Len(c) \in Nat /\ DOMAIN c = 1 .. Len(c)
    OBVIOUS
  <1>2. \A S \in SUBSET DOMAIN c : S # {} => LastOf(S) \in S
    BY <1>1, LastIn
  <1>3. IsFiniteSet(DOMAIN c)
    BY <1>1, PrefixFinite
  <1>4. Fold20!Picks(DOMAIN c) /\ Fold721!Picks(DOMAIN c) /\ Fold1155!Picks(DOMAIN c)
    BY <1>2 DEF Fold20!Picks, Fold721!Picks, Fold1155!Picks
  <1>5. Fold20!IsFiniteSet(DOMAIN c)
    BY <1>3 DEF IsFiniteSet, Fold20!IsFiniteSet
  <1>6. Fold721!IsFiniteSet(DOMAIN c)
    BY <1>3 DEF IsFiniteSet, Fold721!IsFiniteSet
  <1>7. Fold1155!IsFiniteSet(DOMAIN c)
    BY <1>3 DEF IsFiniteSet, Fold1155!IsFiniteSet
  <1> QED BY <1>4, <1>5, <1>6, <1>7

(* The rows that the logs of block b may give: facts about a log, and who  *)
(* ever held.                                                              *)
Addresses(b) == {b.c[i].from : i \in DOMAIN b.c} \cup {b.c[i].to : i \in DOMAIN b.c}
PossibleRows(ts, b) ==
    {Row(<<t, b.h, i>>, 1) : t \in ts, i \in DOMAIN b.c}
    \cup {Row(<<t, b.c[i].c, a>>, 1) : t \in ts \cap {"holder"}, i \in DOMAIN b.c, a \in Addresses(b)}

(* A fact about a log, and a holder in one. *)
LEMMA PossibleAre ==
    ASSUME NEW ts, NEW b, NEW i \in DOMAIN b.c
    PROVE  /\ \A t \in ts : Fact(t, b, i) \in PossibleRows(ts, b)
           /\ "holder" \in ts => /\ Holder(b, i, b.c[i].from) \in PossibleRows(ts, b)
                                 /\ Holder(b, i, b.c[i].to) \in PossibleRows(ts, b)
           /\ \A r \in PossibleRows(ts, b) : r.v = 1 /\ r.k[1] \in ts
  <1>1. b.c[i].from \in Addresses(b) /\ b.c[i].to \in Addresses(b)
    BY DEF Addresses
  <1>2. ASSUME NEW t \in ts PROVE Fact(t, b, i) \in PossibleRows(ts, b)
    <2>1. Row(<<t, b.h, i>>, 1) \in {Row(<<u, b.h, j>>, 1) : u \in ts, j \in DOMAIN b.c}
      OBVIOUS
    <2> QED BY <2>1 DEF Fact, PossibleRows
  <1>3. ASSUME "holder" \in ts, NEW a \in Addresses(b)
        PROVE  Holder(b, i, a) \in PossibleRows(ts, b)
    <2>1. "holder" \in ts \cap {"holder"}
      BY <1>3
    <2>2. Row(<<"holder", b.c[i].c, a>>, 1)
          \in {Row(<<u, b.c[j].c, x>>, 1) : u \in ts \cap {"holder"}, j \in DOMAIN b.c, x \in Addresses(b)}
      BY <2>1
    <2> QED BY <2>2 DEF Holder, PossibleRows
  <1>4. ASSUME NEW r \in PossibleRows(ts, b) PROVE r.v = 1 /\ r.k[1] \in ts
    <2>1. CASE r \in {Row(<<u, b.h, j>>, 1) : u \in ts, j \in DOMAIN b.c}
      BY <2>1 DEF Row
    <2>2. CASE r \in {Row(<<u, b.c[j].c, x>>, 1) : u \in ts \cap {"holder"}, j \in DOMAIN b.c, x \in Addresses(b)}
      BY <2>2 DEF Row
    <2> QED BY <2>1, <2>2 DEF PossibleRows
  <1> QED BY <1>1, <1>2, <1>3, <1>4

(* The rows a block adds are rows of the plugin's tables. *)
LEMMA TokenRowsAre ==
    ASSUME NEW p \in Tokens, NEW b, NEW L, b.c \in Seq(L)
    PROVE  IsRows(p, TokenRows(p, b))
  <1> SUFFICES ASSUME p # Keeper PROVE IsRows(p, TokenRows(p, b))
    BY DEF IsRows
  <1>1. PICK j, T : j = Join(b, Kept(p, b)) /\ T = PossibleRows(TablesOf(p), b)
    OBVIOUS
  <1>2. j.b = b /\ \A i \in DOMAIN b.c : j.list[i] = i
    BY <1>1 DEF Join
  <1>3. <<>> \in Seq(T)
    OBVIOUS
  <1>4. ASSUME TokenRows(p, b) \in Seq(T) PROVE IsRows(p, TokenRows(p, b))
    <2>1. \A i \in DOMAIN TokenRows(p, b) : TokenRows(p, b)[i] \in T
      BY <1>4
    <2>2. DOMAIN b.c = {} \/ \A r \in T : r.v = 1 /\ r.k[1] \in TablesOf(p)
      BY <1>1, PossibleAre
    <2>3. DOMAIN b.c = {} => T = {}
      BY <1>1 DEF PossibleRows
    <2> QED BY <1>4, <2>1, <2>2, <2>3 DEF IsRows
  <1>5. CASE p \in {"erc20", "erc20_v2"}
    <2>1. ASSUME NEW i \in DOMAIN b.c PROVE Erc20Rows(b, i) \in Seq(T)
      <3>1. /\ Fact("transfer", b, i) \in T /\ Fact("approval", b, i) \in T
            /\ Holder(b, i, b.c[i].from) \in T /\ Holder(b, i, b.c[i].to) \in T
        <4>1. {"transfer", "approval", "holder"} = TablesOf(p)
          BY <1>5 DEF TablesOf
        <4> QED BY <1>1, <4>1, PossibleAre
      <3> QED BY <3>1 DEF Erc20Rows, NoRows
    <2>2. \A i \in DOMAIN b.c : \A a \in Seq(T) : Rows20(j, i, a) \in Seq(T)
      BY <1>2, <2>1 DEF Rows20
    <2>3. Fold20!Iter(j, <<>>, DOMAIN b.c) \in Seq(T)
      BY <1>3, <2>2, ListPicks, Fold20!IterIn
    <2> QED BY <1>1, <1>4, <1>5, <2>3, ConcatIsIter DEF TokenRows, RowsKept
  <1>6. CASE p \in {"erc721", "erc721_v2"}
    <2>1. ASSUME NEW i \in DOMAIN b.c PROVE Erc721Rows(b, i) \in Seq(T)
      <3>1. /\ Fact("transfer", b, i) \in T /\ Fact("approval", b, i) \in T
            /\ Fact("approvalForAll", b, i) \in T
            /\ Holder(b, i, b.c[i].from) \in T /\ Holder(b, i, b.c[i].to) \in T
        <4>1. {"transfer", "approval", "approvalForAll", "holder"} = TablesOf(p)
          BY <1>6 DEF TablesOf
        <4> QED BY <1>1, <4>1, PossibleAre
      <3> QED BY <3>1 DEF Erc721Rows, NoRows
    <2>2. \A i \in DOMAIN b.c : \A a \in Seq(T) : Rows721(j, i, a) \in Seq(T)
      BY <1>2, <2>1 DEF Rows721
    <2>3. Fold721!Iter(j, <<>>, DOMAIN b.c) \in Seq(T)
      BY <1>3, <2>2, ListPicks, Fold721!IterIn
    <2> QED BY <1>1, <1>4, <1>6, <2>3, ConcatIsIter DEF TokenRows, RowsKept
  <1>7. CASE p \in {"erc1155", "erc1155_v2"}
    <2>1. ASSUME NEW i \in DOMAIN b.c PROVE Erc1155Rows(b, i) \in Seq(T)
      <3>1. TablesOf(p) = {"transferBatch", "transferSingle", "uri", "approvalForAll"}
        BY <1>7 DEF TablesOf
      <3>2. b.c[i].ev \in TablesOf(p) => Fact(b.c[i].ev, b, i) \in T
        BY <1>1, PossibleAre
      <3> QED BY <1>3, <3>1, <3>2 DEF Erc1155Rows, NoRows
    <2>2. \A i \in DOMAIN b.c : \A a \in Seq(T) : Rows1155(j, i, a) \in Seq(T)
      BY <1>2, <2>1 DEF Rows1155
    <2>3. Fold1155!Iter(j, <<>>, DOMAIN b.c) \in Seq(T)
      BY <1>3, <2>2, ListPicks, Fold1155!IterIn
    <2> QED BY <1>1, <1>4, <1>7, <2>3, ConcatIsIter DEF TokenRows, RowsKept
  <1> QED BY <1>5, <1>6, <1>7 DEF Tokens, Keeper
-----------------------------------------------------------------------------
(* Where the instance MCDataPlugins has these plugins in its cases. *)
LEMMA TokenSets ==
    ASSUME NEW p \in Tokens
    PROVE  /\ p \in TokenPlugins /\ p \notin OtherPlugins /\ p \notin Sinks /\ p \notin Forgets
           /\ p # "erc20_meta" /\ p # "erc1155_721_holder_v2" /\ p \notin MCWorkers
           /\ p = Keeper => p \notin Repeats
  BY DEF Tokens, TokenPlugins, OtherPlugins, ClickHousePlugins, Sinks, Forgets, MCWorkers, Repeats, Keeper

(* On these plugins it is MCCommitOf. *)
LEMMA CommitOfTokenIs ==
    ASSUME NEW p \in Tokens, NEW m, NEW d, NEW from, NEW to
    PROVE  CommitOfToken(p, m, d, to) = MCCommitOf(p, m, d, from, to)
  <1>1. MCCommitOf(p, m, d, from, to) = TokenCommitOf(p, m, d, from, to)
    BY TokenSets DEF MCCommitOf
  <1> QED BY <1>1 DEF Tokens, CommitOfToken, TokenCommitOf

(* A new process knows no contract and has an empty buffer. *)
LEMMA FreshToken ==
    ASSUME TokensWired, NEW p \in Plugins
    PROVE  p \in Tokens /\ IsFields(Fresh(p)) /\ Known(p, Fresh(p)) /\ Fresh(p).buf = <<>>
  <1>1. p \in Tokens /\ Fresh(p) = MCFresh(p)
    BY DEF TokensWired
  <1>2. Fresh(p) = [buf |-> <<>>, yes |-> {}, no |-> {}]
    BY <1>1, TokenSets DEF MCFresh, TokenFresh, NoRows, Tokens
  <1> QED BY <1>1, <1>2 DEF IsFields, Known

(* Start drops and creates the tables at height 0 and does nothing else. *)
LEMMA StartToken ==
    ASSUME TokensWired, NEW p \in Plugins, NEW m, NEW d, NEW h, NEW ch
    PROVE  /\ StartOf(p, m, d, h, ch).mem = m
           /\ StartOf(p, m, d, h, ch).height = h
           /\ StartOf(p, m, d, h, ch).db = IF h = 0 THEN EmptyTables ELSE d
  <1>1. p \in Tokens /\ StartOf(p, m, d, h, ch) = MCStartOf(p, m, d, h, ch)
    BY DEF TokensWired
  <1>2. StartOf(p, m, d, h, ch) = Started(m, AutoMigrate(d, h), h)
    BY <1>1, TokenSets DEF MCStartOf, TokenStartOf
  <1> QED BY <1>2 DEF Started, AutoMigrate
-----------------------------------------------------------------------------
(* What a plugin knows after it asked contracts cs for a standard, when    *)
(* every check was answered right: whether they follow it.                 *)
Learnt(p, m, std, cs, n) ==
    /\ Known(p, n) /\ m.yes \subseteq n.yes
    /\ \A c \in cs : <<std, c>> \in n.yes <=> c[1] = std

(* isErc20, isErc721, isErc1155: a failed check is passed over. *)
LEMMA IsErcIs ==
    ASSUME NEW p, NEW m, IsFields(m), NEW std, NEW cs
    PROVE  /\ \E r \in isErc(m, std, cs) : r.res = "ok"
           /\ \A r \in isErc(m, std, cs) :
                 /\ r = [res |-> r.res, mem |-> r.mem] /\ IsFields(r.mem)
                 /\ r.mem.buf = m.buf /\ r.res \in {"ok", "hid"}
                 /\ r.res = "ok" /\ Known(p, m) /\ std \in Stds(p) => Learnt(p, m, std, cs, r.mem)
  <1> DEFINE asked == ({std} \X cs) \ (m.yes \cup m.no)
             with(F) == [res |-> IF F = {} THEN "ok" ELSE "hid",
                         mem |-> [Classified(m, asked \ F) EXCEPT !.no = @ \cup F]]
             S == SUBSET {x \in asked : Follows(x)}
             yes(F) == m.yes \cup {x \in asked \ F : Follows(x)}
             no(F) == m.no \cup {x \in asked \ F : ~Follows(x)} \cup F
  <1>1. isErc(m, std, cs) = {with(F) : F \in S}
    BY DEF isErc
  <1>2. ASSUME NEW F
        PROVE  [Classified(m, asked \ F) EXCEPT !.no = @ \cup F]
               = [buf |-> m.buf, yes |-> yes(F), no |-> no(F)]
    <2>1. PICK A : A = asked \ F
      OBVIOUS
    <2>2. A \ (m.yes \cup m.no) = A
      BY <2>1
    <2>3. PICK y, n : y = {x \in A : Follows(x)} /\ n = {x \in A : ~Follows(x)}
      OBVIOUS
    <2>4. Classified(m, A) = [m EXCEPT !.yes = m.yes \cup y, !.no = m.no \cup n]
      BY ONLY <2>2, <2>3 DEF Classified
    <2>5. m = [buf |-> m.buf, yes |-> m.yes, no |-> m.no]
      BY DEF IsFields
    <2>6. Classified(m, A) = [buf |-> m.buf, yes |-> m.yes \cup y, no |-> m.no \cup n]
      BY ONLY <2>4, <2>5
    <2>7. yes(F) = m.yes \cup y /\ no(F) = m.no \cup n \cup F
      BY <2>1, <2>3
    <2> HIDE DEF asked, yes, no
    <2> QED BY <2>1, <2>6, <2>7
  <1>3. ASSUME NEW F \in S
        PROVE  /\ with(F) = [res |-> with(F).res, mem |-> with(F).mem] /\ IsFields(with(F).mem)
               /\ with(F).mem.buf = m.buf /\ with(F).res \in {"ok", "hid"}
    <2> HIDE DEF yes, no, asked
    <2> QED BY <1>2 DEF IsFields
  <1>4. ASSUME Known(p, m), std \in Stds(p)
        PROVE  Learnt(p, m, std, cs, [buf |-> m.buf, yes |-> yes({}), no |-> no({})])
    <2>1. \A x \in yes({}) : Follows(x) /\ x[1] \in Stds(p)
      BY <1>4 DEF Known
    <2>2. \A x \in no({}) : ~Follows(x)
      BY <1>4 DEF Known
    <2>3. ASSUME NEW c \in cs PROVE <<std, c>> \in yes({}) <=> c[1] = std
      <3>1. Follows(<<std, c>>) <=> c[1] = std
        BY DEF Follows
      <3>2. <<std, c>> \in {std} \X cs
        OBVIOUS
      <3>3. <<std, c>> \in m.no => ~Follows(<<std, c>>)
        BY <1>4 DEF Known
      <3> QED BY <2>1, <3>1, <3>2, <3>3
    <2>4. m.yes \subseteq yes({})
      OBVIOUS
    <2> HIDE DEF yes, no
    <2> QED BY <2>1, <2>2, <2>3, <2>4 DEF Learnt, Known
  <1>5. ASSUME NEW F \in S, with(F).res = "ok" PROVE F = {}
    BY <1>5
  <1>6. with({}).res = "ok" /\ {} \in S
    OBVIOUS
  <1>7. \A F \in S : with(F).mem = [buf |-> m.buf, yes |-> yes(F), no |-> no(F)]
    <2> HIDE DEF yes, no, asked
    <2> QED BY <1>2
  <1> HIDE DEF with, S, yes, no
  <1> QED BY <1>1, <1>3, <1>4, <1>5, <1>6, <1>7

(* What PutBlock leaves when it reports no failure and passed none over:   *)
(* the rows of the block are in the buffer after those that were there.    *)
(* The keeper of tokens begins with an empty buffer.                       *)
PutGood(p, m, b, n) ==
    /\ Known(p, n)
    /\ n.buf = IF p = Keeper THEN TokenRows(p, b) ELSE m.buf \o TokenRows(p, b)

(* The outcomes of PutBlock. *)
PutResult(p, m, b, r) ==
    /\ IsFields(r.mem) /\ r.res \in {"ok", "hid", "err"}
    /\ r.res = "err" => p \in Repeats
    /\ r.res = "ok" /\ Known(p, m) => PutGood(p, m, b, r.mem)

(* The logs of a block whose contract follows the standard. *)
LEMMA KeptIs ==
    ASSUME NEW p, NEW m, NEW std, NEW b, NEW n, Stds(p) = {std},
           Learnt(p, m, std, Contracts(b), n)
    PROVE  {i \in DOMAIN b.c : <<std, b.c[i].c>> \in n.yes} = Kept(p, b)
  <1>1. \A i \in DOMAIN b.c : b.c[i].c \in Contracts(b)
    BY DEF Contracts
  <1>2. \A i \in DOMAIN b.c : <<std, b.c[i].c>> \in n.yes <=> b.c[i].c[1] \in Stds(p)
    BY <1>1 DEF Learnt
  <1> QED BY <1>2 DEF Kept

(* PutSwallowing, for a plugin and its standard. *)
Swallowing(p, m, b, std) ==
    {[r EXCEPT !.mem.buf = @ \o RowsKept(p, b, {i \in DOMAIN b.c :
                                              <<std, b.c[i].c>> \in r.mem.yes})] :
        r \in isErc(m, std, Contracts(b))}

(* The plugins that pass a failed check over. *)
LEMMA PutSwallowingIs ==
    ASSUME NEW p \in {"erc20", "erc20_v2", "erc721", "erc1155"}, NEW std, Stds(p) = {std},
           NEW m, IsFields(m), NEW b, NEW S, S = Swallowing(p, m, b, std)
    PROVE  (\E r \in S : r.res = "ok") /\ \A r \in S : PutResult(p, m, b, r)
  <1> DEFINE kept(r) == {i \in DOMAIN b.c : <<std, b.c[i].c>> \in r.mem.yes}
             out(r) == [r EXCEPT !.mem.buf = @ \o RowsKept(p, b, kept(r))]
  <1>1. ASSUME NEW r \in isErc(m, std, Contracts(b))
        PROVE  out(r).res = r.res /\ PutResult(p, m, b, out(r))
    <2>1. /\ r = [res |-> r.res, mem |-> r.mem] /\ IsFields(r.mem)
          /\ r.mem.buf = m.buf /\ r.res \in {"ok", "hid"}
          /\ r.res = "ok" /\ Known(p, m) => Learnt(p, m, std, Contracts(b), r.mem)
      BY IsErcIs
    <2>2. PICK q : q = RowsKept(p, b, kept(r))
      OBVIOUS
    <2>3. out(r) = [res |-> r.res,
                    mem |-> [buf |-> m.buf \o q, yes |-> r.mem.yes, no |-> r.mem.no]]
      <3>1. r.mem = [buf |-> m.buf, yes |-> r.mem.yes, no |-> r.mem.no]
        BY <2>1 DEF IsFields
      <3>2. out(r) = [r EXCEPT !.mem.buf = @ \o q]
        BY <2>2
      <3> HIDE DEF out
      <3> QED BY <2>1, <3>1, <3>2
    <2>4. ASSUME r.res = "ok", Known(p, m) PROVE q = TokenRows(p, b) /\ Known(p, r.mem)
      <3>1. PICK n : n = r.mem
        OBVIOUS
      <3>2. Learnt(p, m, std, Contracts(b), n)
        BY <2>1, <2>4, <3>1
      <3>3. {i \in DOMAIN b.c : <<std, b.c[i].c>> \in n.yes} = Kept(p, b)
        BY <3>2, KeptIs
      <3>4. kept(r) = Kept(p, b)
        BY <3>1, <3>3
      <3> HIDE DEF kept
      <3> QED BY <2>2, <3>1, <3>2, <3>4 DEF Learnt, TokenRows
    <2>5. p # Keeper
      BY DEF Keeper
    <2>6. PICK o : o = out(r)
      OBVIOUS
    <2>7. /\ o.res = r.res /\ o.mem.buf = m.buf \o q /\ o.mem.yes = r.mem.yes
          /\ o.mem.no = r.mem.no /\ IsFields(o.mem)
      <3> HIDE DEF out
      <3>1. o = [res |-> r.res,
                 mem |-> [buf |-> m.buf \o q, yes |-> r.mem.yes, no |-> r.mem.no]]
        BY <2>3, <2>6
      <3>2. PICK e, y, n : e = m.buf \o q /\ y = r.mem.yes /\ n = r.mem.no
        OBVIOUS
      <3>3. o.res = r.res /\ o.mem = [buf |-> e, yes |-> y, no |-> n]
        BY ONLY <3>1, <3>2
      <3> QED BY ONLY <3>2, <3>3 DEF IsFields
    <2>8. Known(p, r.mem) => Known(p, o.mem)
      BY <2>7 DEF Known
    <2>9. PutResult(p, m, b, o)
      BY <2>1, <2>4, <2>5, <2>7, <2>8 DEF PutResult, PutGood
    <2> HIDE DEF out
    <2> QED BY <2>6, <2>7, <2>9
  <1>2. S = {out(r) : r \in isErc(m, std, Contracts(b))}
    BY DEF Swallowing
  <1>3. \E r \in isErc(m, std, Contracts(b)) : r.res = "ok"
    BY IsErcIs
  <1> HIDE DEF out
  <1> QED BY <1>1, <1>2, <1>3

(* The contracts of pairs, sorted into the two maps. *)
LEMMA ClassifiedIs ==
    ASSUME NEW m, IsFields(m), NEW pairs
    PROVE  LET c == Classified(m, pairs)
           IN  /\ c = [buf |-> m.buf, yes |-> c.yes, no |-> c.no]
               /\ c.yes = m.yes \cup {x \in pairs \ (m.yes \cup m.no) : Follows(x)}
               /\ c.no = m.no \cup {x \in pairs \ (m.yes \cup m.no) : ~Follows(x)}
  <1>1. PICK A : A = pairs \ (m.yes \cup m.no)
    OBVIOUS
  <1>2. PICK y, n : y = {x \in A : Follows(x)} /\ n = {x \in A : ~Follows(x)}
    OBVIOUS
  <1>3. Classified(m, pairs) = [m EXCEPT !.yes = m.yes \cup y, !.no = m.no \cup n]
    BY ONLY <1>1, <1>2 DEF Classified
  <1>4. m = [buf |-> m.buf, yes |-> m.yes, no |-> m.no]
    BY DEF IsFields
  <1>5. Classified(m, pairs) = [buf |-> m.buf, yes |-> m.yes \cup y, no |-> m.no \cup n]
    BY ONLY <1>3, <1>4
  <1> QED BY <1>1, <1>2, <1>5

(* The plugins that return the error of a check: what n checks leave.      *)
Asked(p, m, b, std, k, n) ==
    LET pair(j) == <<std, b.c[((j - 1) \div k) + 1].c>>
        pairs == {pair(j) : j \in 1 .. n}
        kept == {((j - 1) \div k) + 1 : j \in {x \in 1 .. n : Follows(pair(x))}}
    IN  [Classified(m, pairs) EXCEPT !.buf = @ \o RowsKept(p, b, kept)]

(* The outcomes: all checks are answered, or the one after n fails. *)
AsksFor(p, m, b, std, k, S) ==
    /\ Ok(Asked(p, m, b, std, k, k * Len(b.c))) \in S
    /\ \A r \in S : \/ r = Ok(Asked(p, m, b, std, k, k * Len(b.c)))
                    \/ \E n \in Int : r = Err(Asked(p, m, b, std, k, n))

(* All of them leave the rows of the block. *)
LEMMA PutAskingIs ==
    ASSUME NEW p \in Repeats, NEW std, Stds(p) = {std}, NEW m, IsFields(m),
           NEW b, NEW L, b.c \in Seq(L), NEW k, k = 1, NEW S,
           AsksFor(p, m, b, std, k, S)
    PROVE  (\E r \in S : r.res = "ok") /\ \A r \in S : PutResult(p, m, b, r)
  <1> DEFINE pair(n) == <<std, b.c[((n - 1) \div k) + 1].c>>
             pairs(n) == {pair(j) : j \in 1 .. n}
             kept(n) == {((j - 1) \div k) + 1 : j \in {x \in 1 .. n : Follows(pair(x))}}
             upto(n) == Asked(p, m, b, std, k, n)
             len == Len(b.c)
  <1>1. p # Keeper
    BY DEF Repeats, Keeper
  <1>2. Len(b.c) \in Nat /\ DOMAIN b.c = 1 .. Len(b.c) /\ k * Len(b.c) = Len(b.c)
    <2>1. Len(b.c) \in Nat /\ DOMAIN b.c = 1 .. Len(b.c)
      OBVIOUS
    <2>2. \A n \in Nat : k * n = n
      OBVIOUS
    <2> QED BY <2>1, <2>2
  <1>3. ASSUME NEW n
        PROVE  LET c == Classified(m, pairs(n))
               IN  upto(n) = [buf |-> m.buf \o RowsKept(p, b, kept(n)), yes |-> c.yes, no |-> c.no]
    <2>1. PICK A, q, c : A = pairs(n) /\ q = RowsKept(p, b, kept(n)) /\ c = Classified(m, A)
      OBVIOUS
    <2>2. c = [buf |-> m.buf, yes |-> c.yes, no |-> c.no]
      BY <2>1, ClassifiedIs
    <2>3. upto(n) = [c EXCEPT !.buf = c.buf \o q]
      BY <2>1 DEF Asked
    <2>a. PICK e, y, z : e = m.buf /\ y = c.yes /\ z = c.no
      OBVIOUS
    <2>b. c = [buf |-> e, yes |-> y, no |-> z]
      BY ONLY <2>2, <2>a
    <2>c. upto(n) = [buf |-> e \o q, yes |-> y, no |-> z]
      BY ONLY <2>3, <2>b
    <2>4. upto(n) = [buf |-> m.buf \o q, yes |-> c.yes, no |-> c.no]
      BY ONLY <2>a, <2>c
    <2> HIDE DEF upto, pairs, kept
    <2> QED BY <2>1, <2>4
  <1>4. \A n : IsFields(upto(n))
    <2> SUFFICES ASSUME NEW n PROVE IsFields(upto(n))
      OBVIOUS
    <2>1. PICK e, y, z : upto(n) = [buf |-> e, yes |-> y, no |-> z]
      BY <1>3
    <2> HIDE DEF upto
    <2> QED BY <2>1 DEF IsFields
  <1>a. \A j \in Int : ((j - 1) \div k) + 1 = j
    <2>1. \A j \in Int : ((j - 1) \div 1) + 1 = j
      OBVIOUS
    <2> QED BY <2>1
  <1>5. \A j \in 1 .. len : pair(j) = <<std, b.c[j].c>>
    <2> SUFFICES ASSUME NEW j \in 1 .. len PROVE pair(j) = <<std, b.c[j].c>>
      OBVIOUS
    <2>1. ((j - 1) \div k) + 1 = j
      BY <1>2, <1>a
    <2> QED BY <2>1
  <1>6. kept(len) = Kept(p, b)
    <2>1. \A x \in 1 .. len : Follows(pair(x)) <=> b.c[x].c[1] = std
      BY <1>5 DEF Follows
    <2>2. \A x \in 1 .. len : ((x - 1) \div k) + 1 = x
      BY <1>2, <1>a
    <2>3. Kept(p, b) = {x \in 1 .. len : b.c[x].c[1] = std}
      BY <1>2 DEF Kept
    <2> HIDE DEF pair, len
    <2> QED BY <2>1, <2>2, <2>3
  <1>7. ASSUME Known(p, m) PROVE PutGood(p, m, b, upto(len))
    <2>1. PICK A, c : A = pairs(len) /\ c = Classified(m, A)
      OBVIOUS
    <2>2. \A x \in A : x[1] \in Stds(p)
      <3>1. \A n : pair(n)[1] = std
        OBVIOUS
      <3> HIDE DEF pair
      <3> QED BY <2>1, <3>1
    <2>3. /\ c.yes = m.yes \cup {x \in A \ (m.yes \cup m.no) : Follows(x)}
          /\ c.no = m.no \cup {x \in A \ (m.yes \cup m.no) : ~Follows(x)}
      BY <2>1, ClassifiedIs
    <2>4. PICK q : q = TokenRows(p, b)
      OBVIOUS
    <2>5. RowsKept(p, b, kept(len)) = q
      <3> HIDE DEF kept
      <3> QED BY <1>6, <2>4 DEF TokenRows
    <2>6. upto(len) = [buf |-> m.buf \o q, yes |-> c.yes, no |-> c.no]
      <3> HIDE DEF upto, pairs, kept
      <3> QED BY <1>3, <2>1, <2>5
    <2>7. Known(p, upto(len))
      <3> HIDE DEF upto
      <3>1. \A x \in c.yes : Follows(x) /\ x[1] \in Stds(p)
        BY <1>7, <2>2, <2>3 DEF Known
      <3>2. \A x \in c.no : ~Follows(x)
        BY <1>7, <2>2, <2>3 DEF Known
      <3>3. upto(len).yes = c.yes /\ upto(len).no = c.no
        BY ONLY <2>6
      <3> QED BY <3>1, <3>2, <3>3 DEF Known
    <2>8. upto(len).buf = m.buf \o q
      <3> HIDE DEF upto
      <3> QED BY ONLY <2>6
    <2> HIDE DEF upto
    <2> QED BY <1>1, <2>4, <2>7, <2>8 DEF PutGood
  <1>8. /\ Ok(upto(len)) \in S
        /\ \A r \in S : r = Ok(upto(len)) \/ \E n \in Int : r = Err(upto(n))
    BY <1>2 DEF AsksFor
  <1> HIDE DEF upto, len
  <1>9. \A n : Ok(upto(n)).res = "ok" /\ Ok(upto(n)).mem = upto(n)
               /\ Err(upto(n)).res = "err" /\ Err(upto(n)).mem = upto(n)
    BY DEF Ok, Err
  <1> QED BY <1>4, <1>7, <1>8, <1>9 DEF PutResult

(* What erc721_v2 has after its checks. *)
LEMMA Asking721 ==
    ASSUME NEW m, NEW b, NEW L, b.c \in Seq(L), NEW p, p = "erc721_v2", NEW k, k = 1, NEW S,
           S = erc721_v2_putBlock(m, b)
    PROVE  AsksFor(p, m, b, "erc721", k, S)
  <1> DEFINE len == Len(b.c)
             stds == <<"erc721">>
             l == Len(stds)
             pair(n) == <<stds[((n - 1) % l) + 1], b.c[((n - 1) \div l) + 1].c>>
             all == 1 .. l * len
             pairs(n) == {pair(j) : j \in 1 .. n}
             kept(n) == {((j - 1) \div l) + 1 : j \in {x \in 1 .. n : Follows(pair(x))}}
             upto(n) == [Classified(m, pairs(n)) EXCEPT !.buf = @ \o Concat(b, kept(n), Erc721Rows)]
             asks(n) == pair(n) \notin m.yes \cup m.no \cup pairs(n - 1)
             pair2(n) == <<"erc721", b.c[((n - 1) \div k) + 1].c>>
             pairs2(n) == {pair2(j) : j \in 1 .. n}
             kept2(n) == {((j - 1) \div k) + 1 : j \in {x \in 1 .. n : Follows(pair2(x))}}
  <1>1. l = k /\ stds[1] = "erc721"
    OBVIOUS
  <1>2. S = {Ok(upto(l * len))} \cup {Err(upto(n - 1)) : n \in {x \in all : asks(x)}}
    <2>1. S = PutAsking(m, b, stds, Erc721Rows)
      BY DEF erc721_v2_putBlock
    <2> HIDE DEF stds
    <2> QED BY <2>1 DEF PutAsking
  <1>3. \A j \in Int : pair(j) = pair2(j)
    <2>1. \A j \in Int : ((j - 1) % 1) + 1 = 1
      OBVIOUS
    <2> HIDE DEF stds, l
    <2> QED BY <1>1, <2>1
  <1>4. \A n : pairs(n) = pairs2(n) /\ kept(n) = kept2(n)
    <2>1. \A n : \A j \in 1 .. n : pair(j) = pair2(j)
      <3> HIDE DEF pair, pair2
      <3> QED BY <1>3
    <2> HIDE DEF pair, pair2, l
    <2> QED BY <1>1, <2>1
  <1>5. \A n : upto(n) = Asked(p, m, b, "erc721", k, n)
    <2> SUFFICES ASSUME NEW n PROVE upto(n) = Asked(p, m, b, "erc721", k, n)
      OBVIOUS
    <2>1. PICK A, K, c : A = pairs2(n) /\ K = kept2(n) /\ c = Classified(m, A)
      OBVIOUS
    <2>2. Asked(p, m, b, "erc721", k, n) = [c EXCEPT !.buf = c.buf \o RowsKept(p, b, K)]
      BY <2>1 DEF Asked
    <2>3. RowsKept(p, b, K) = Concat(b, K, Erc721Rows)
      BY DEF RowsKept
    <2>4. upto(n) = [c EXCEPT !.buf = c.buf \o Concat(b, K, Erc721Rows)]
      <3> HIDE DEF pairs, kept, pairs2, kept2
      <3> QED BY <1>4, <2>1
    <2> HIDE DEF upto
    <2> QED BY <2>2, <2>3, <2>4
  <1>6. len \in Nat /\ all \subseteq Int /\ l * len = k * len
    BY <1>1
  <1>7. \A n \in all : n - 1 \in Int
    BY <1>6
  <1>8. Ok(upto(l * len)) = Ok(Asked(p, m, b, "erc721", k, k * Len(b.c)))
    <2> HIDE DEF upto, l
    <2> QED BY <1>5, <1>6
  <1> HIDE DEF upto, all, asks, l
  <1> QED BY <1>2, <1>5, <1>7, <1>8 DEF AsksFor

(* What erc1155_v2 has after its checks. *)
LEMMA Asking1155 ==
    ASSUME NEW m, NEW b, NEW L, b.c \in Seq(L), NEW p, p = "erc1155_v2", NEW k, k = 1, NEW S,
           S = erc1155_v2_putBlock(m, b)
    PROVE  AsksFor(p, m, b, "erc1155", k, S)
  <1> DEFINE len == Len(b.c)
             stds == <<"erc1155">>
             l == Len(stds)
             pair(n) == <<stds[((n - 1) % l) + 1], b.c[((n - 1) \div l) + 1].c>>
             all == 1 .. l * len
             pairs(n) == {pair(j) : j \in 1 .. n}
             kept(n) == {((j - 1) \div l) + 1 : j \in {x \in 1 .. n : Follows(pair(x))}}
             upto(n) == [Classified(m, pairs(n)) EXCEPT !.buf = @ \o Concat(b, kept(n), Erc1155Rows)]
             asks(n) == pair(n) \notin m.yes \cup m.no \cup pairs(n - 1)
             pair2(n) == <<"erc1155", b.c[((n - 1) \div k) + 1].c>>
             pairs2(n) == {pair2(j) : j \in 1 .. n}
             kept2(n) == {((j - 1) \div k) + 1 : j \in {x \in 1 .. n : Follows(pair2(x))}}
  <1>1. l = k /\ stds[1] = "erc1155"
    OBVIOUS
  <1>2. S = {Ok(upto(l * len))} \cup {Err(upto(n - 1)) : n \in {x \in all : asks(x)}}
    <2>1. S = PutAsking(m, b, stds, Erc1155Rows)
      BY DEF erc1155_v2_putBlock
    <2> HIDE DEF stds
    <2> QED BY <2>1 DEF PutAsking
  <1>3. \A j \in Int : pair(j) = pair2(j)
    <2>1. \A j \in Int : ((j - 1) % 1) + 1 = 1
      OBVIOUS
    <2> HIDE DEF stds, l
    <2> QED BY <1>1, <2>1
  <1>4. \A n : pairs(n) = pairs2(n) /\ kept(n) = kept2(n)
    <2>1. \A n : \A j \in 1 .. n : pair(j) = pair2(j)
      <3> HIDE DEF pair, pair2
      <3> QED BY <1>3
    <2> HIDE DEF pair, pair2, l
    <2> QED BY <1>1, <2>1
  <1>5. \A n : upto(n) = Asked(p, m, b, "erc1155", k, n)
    <2> SUFFICES ASSUME NEW n PROVE upto(n) = Asked(p, m, b, "erc1155", k, n)
      OBVIOUS
    <2>1. PICK A, K, c : A = pairs2(n) /\ K = kept2(n) /\ c = Classified(m, A)
      OBVIOUS
    <2>2. Asked(p, m, b, "erc1155", k, n) = [c EXCEPT !.buf = c.buf \o RowsKept(p, b, K)]
      BY <2>1 DEF Asked
    <2>3. RowsKept(p, b, K) = Concat(b, K, Erc1155Rows)
      BY DEF RowsKept
    <2>4. upto(n) = [c EXCEPT !.buf = c.buf \o Concat(b, K, Erc1155Rows)]
      <3> HIDE DEF pairs, kept, pairs2, kept2
      <3> QED BY <1>4, <2>1
    <2> HIDE DEF upto
    <2> QED BY <2>2, <2>3, <2>4
  <1>6. len \in Nat /\ all \subseteq Int /\ l * len = k * len
    BY <1>1
  <1>7. \A n \in all : n - 1 \in Int
    BY <1>6
  <1>8. Ok(upto(l * len)) = Ok(Asked(p, m, b, "erc1155", k, k * Len(b.c)))
    <2> HIDE DEF upto, l
    <2> QED BY <1>5, <1>6
  <1> HIDE DEF upto, all, asks, l
  <1> QED BY <1>2, <1>5, <1>7, <1>8 DEF AsksFor

(* The keeper of tokens asks for both standards, and starts its list anew. *)
LEMMA HolderPutIs ==
    ASSUME NEW p, p = Keeper, NEW m, IsFields(m), NEW b
    PROVE  /\ \E r \in holder_PutBlock(m, b) : r.res = "ok"
           /\ \A r \in holder_PutBlock(m, b) : PutResult(p, m, b, r)
  <1> DEFINE cs == Contracts(b)
             mix(r, s) == [s EXCEPT !.res = IF r.res = "hid" THEN "hid" ELSE @]
             both == UNION {{mix(r, s) : s \in isErc(r.mem, "erc1155", cs)} :
                               r \in isErc(m, "erc721", cs)}
             kept(x) == {i \in DOMAIN b.c : <<b.c[i].c[1], b.c[i].c>> \in x.yes}
             out(r) == [r EXCEPT !.mem.buf = Concat(b, kept(r.mem), Moves)]
  <1>1. holder_PutBlock(m, b) = {out(r) : r \in both}
    BY DEF holder_PutBlock
  <1>2. Stds(p) = {"erc721", "erc1155"} /\ \A keep : RowsKept(p, b, keep) = Concat(b, keep, Moves)
    BY DEF Stds, Keeper, RowsKept
  <1>3. ASSUME NEW r \in isErc(m, "erc721", cs), NEW s \in isErc(r.mem, "erc1155", cs)
        PROVE  PutResult(p, m, b, out(mix(r, s))) /\ (r.res = "ok" => mix(r, s).res = s.res)
               /\ out(mix(r, s)).res = mix(r, s).res
    <2>1. /\ IsFields(r.mem) /\ r.mem.buf = m.buf /\ r.res \in {"ok", "hid"}
          /\ r.res = "ok" /\ Known(p, m) => Learnt(p, m, "erc721", cs, r.mem)
      BY <1>2, IsErcIs
    <2>2. /\ s = [res |-> s.res, mem |-> s.mem] /\ IsFields(s.mem)
          /\ s.mem.buf = r.mem.buf /\ s.res \in {"ok", "hid"}
          /\ s.res = "ok" /\ Known(p, r.mem) => Learnt(p, r.mem, "erc1155", cs, s.mem)
      BY <1>2, <2>1, IsErcIs
    <2>3. PICK n, x : n = s.mem /\ x = mix(r, s)
      OBVIOUS
    <2>4. x = [res |-> x.res, mem |-> n] /\ x.res = (IF r.res = "hid" THEN "hid" ELSE s.res)
      BY <2>2, <2>3
    <2>5. PICK q : q = RowsKept(p, b, kept(n))
      OBVIOUS
    <2>6. PICK y, z : y = n.yes /\ z = n.no
      OBVIOUS
    <2>7. n = [buf |-> n.buf, yes |-> y, no |-> z]
      BY <2>2, <2>3, <2>6 DEF IsFields
    <2>8. out(x) = [res |-> x.res, mem |-> [buf |-> q, yes |-> y, no |-> z]]
      <3>0. Concat(b, kept(x.mem), Moves) = q
        <4>1. x.mem = n
          BY ONLY <2>4
        <4> HIDE DEF kept, mix
        <4> QED BY <1>2, <2>5, <4>1
      <3>1. out(x) = [x EXCEPT !.mem.buf = q]
        <4> HIDE DEF kept, mix
        <4> QED BY <3>0
      <3> QED BY ONLY <3>1, <2>4, <2>7
    <2>9. ASSUME x.res = "ok", Known(p, m) PROVE q = TokenRows(p, b) /\ Known(p, n)
      <3>1. r.res = "ok" /\ s.res = "ok"
        BY <2>1, <2>2, <2>4, <2>9
      <3>2. Learnt(p, m, "erc721", cs, r.mem) /\ Learnt(p, r.mem, "erc1155", cs, n)
        BY <2>1, <2>2, <2>3, <2>9, <3>1 DEF Learnt
      <3>3. \A i \in DOMAIN b.c : b.c[i].c \in cs
        BY DEF Contracts
      <3>4. ASSUME NEW i \in DOMAIN b.c
            PROVE  <<b.c[i].c[1], b.c[i].c>> \in n.yes <=> b.c[i].c[1] \in Stds(p)
        <4>1. PICK c : c = b.c[i].c
          OBVIOUS
        <4>2. c \in cs
          BY <3>3, <4>1
        <4>3. <<"erc721", c>> \in r.mem.yes <=> c[1] = "erc721"
          BY <3>2, <4>2 DEF Learnt
        <4>4. <<"erc1155", c>> \in n.yes <=> c[1] = "erc1155"
          BY <3>2, <4>2 DEF Learnt
        <4>5. r.mem.yes \subseteq n.yes
          BY <3>2 DEF Learnt
        <4>6. <<c[1], c>> \in n.yes => c[1] \in Stds(p)
          BY <3>2 DEF Learnt, Known
        <4>7. c[1] \in Stds(p) => <<c[1], c>> \in n.yes
          BY <1>2, <4>3, <4>4, <4>5
        <4> QED BY <4>1, <4>6, <4>7
      <3>5. kept(n) = Kept(p, b)
        BY <3>4 DEF Kept
      <3> HIDE DEF kept
      <3> QED BY <2>5, <3>2, <3>5 DEF Learnt, TokenRows
    <2>10. PICK o : o = out(x)
      OBVIOUS
    <2>11. o.res = x.res /\ o.mem = [buf |-> q, yes |-> y, no |-> z]
      <3> HIDE DEF out, mix
      <3> QED BY <2>8, <2>10
    <2>12. /\ IsFields(o.mem) /\ o.mem.buf = q /\ o.mem.yes = y /\ o.mem.no = z
      BY ONLY <2>11 DEF IsFields
    <2>13. Known(p, n) => Known(p, o.mem)
      BY <2>6, <2>12 DEF Known
    <2>14. x.res \in {"ok", "hid"}
      BY <2>1, <2>2, <2>4
    <2>15. PutResult(p, m, b, o)
      BY ONLY <2>9, <2>11, <2>12, <2>13, <2>14, p = Keeper DEF PutResult, PutGood
    <2>16. r.res = "ok" => x.res = s.res
      BY <2>4
    <2> HIDE DEF out, mix
    <2> QED BY <2>3, <2>10, <2>11, <2>15, <2>16
  <1>4. PICK r \in isErc(m, "erc721", cs) : r.res = "ok"
    BY IsErcIs
  <1>5. IsFields(r.mem)
    BY IsErcIs
  <1>6. PICK s \in isErc(r.mem, "erc1155", cs) : s.res = "ok"
    BY <1>5, IsErcIs
  <1>7. mix(r, s) \in both
    OBVIOUS
  <1>8. \A x \in both : \E u \in isErc(m, "erc721", cs) : \E v \in isErc(u.mem, "erc1155", cs) : x = mix(u, v)
    OBVIOUS
  <1> HIDE DEF out, mix, both, cs
  <1> QED BY <1>1, <1>3, <1>4, <1>6, <1>7, <1>8

(* PutBlock of all of these plugins. *)
LEMMA PutToken ==
    ASSUME TokensWired, NEW p \in Plugins, NEW m, IsFields(m), NEW d,
           NEW b, NEW L, b.c \in Seq(L)
    PROVE  /\ \E r \in PutOf(p, m, d, b) : r.res = "ok"
           /\ \A r \in PutOf(p, m, d, b) : PutResult(p, m, b, r)
  <1>1. p \in Tokens /\ PutOf(p, m, d, b) = MCPutOf(p, m, d, b)
    BY DEF TokensWired
  <1>2. PutOf(p, m, d, b) = TokenPutOf(p, m, d, b)
    BY <1>1, TokenSets DEF MCPutOf
  <1>3. PICK S : S = PutOf(p, m, d, b)
    OBVIOUS
  <1>5. CASE p \in {"erc20", "erc20_v2"}
    <2>1. S = PutSwallowing(m, b, "erc20", Erc20Rows)
      BY <1>2, <1>3, <1>5 DEF TokenPutOf, erc20_putBlock, erc20_v2_putBlock
    <2>2. \A keep : RowsKept(p, b, keep) = Concat(b, keep, Erc20Rows)
      BY <1>5 DEF RowsKept
    <2>3. Stds(p) = {"erc20"}
      BY <1>5 DEF Stds
    <2>4. S = Swallowing(p, m, b, "erc20")
      BY <2>1, <2>2 DEF PutSwallowing, Swallowing
    <2> QED BY <1>3, <1>5, <2>3, <2>4, PutSwallowingIs
  <1>6. CASE p = "erc721"
    <2>1. S = PutSwallowing(m, b, "erc721", Erc721Rows)
      BY <1>2, <1>3, <1>6 DEF TokenPutOf, erc721_PutBlock
    <2>2. \A keep : RowsKept(p, b, keep) = Concat(b, keep, Erc721Rows)
      BY <1>6 DEF RowsKept
    <2>3. Stds(p) = {"erc721"}
      BY <1>6 DEF Stds
    <2>4. S = Swallowing(p, m, b, "erc721")
      BY <2>1, <2>2 DEF PutSwallowing, Swallowing
    <2> QED BY <1>3, <1>6, <2>3, <2>4, PutSwallowingIs
  <1>7. CASE p = "erc1155"
    <2>1. S = PutSwallowing(m, b, "erc1155", Erc1155Rows)
      BY <1>2, <1>3, <1>7 DEF TokenPutOf, erc1155_PutBlock
    <2>2. \A keep : RowsKept(p, b, keep) = Concat(b, keep, Erc1155Rows)
      BY <1>7 DEF RowsKept
    <2>3. Stds(p) = {"erc1155"}
      BY <1>7 DEF Stds
    <2>4. S = Swallowing(p, m, b, "erc1155")
      BY <2>1, <2>2 DEF PutSwallowing, Swallowing
    <2> QED BY <1>3, <1>7, <2>3, <2>4, PutSwallowingIs
  <1>8. CASE p = "erc721_v2"
    <2>1. S = erc721_v2_putBlock(m, b)
      BY <1>2, <1>3, <1>8 DEF TokenPutOf
    <2>2. Stds(p) = {"erc721"} /\ p \in Repeats
      BY <1>8 DEF Stds, Repeats
    <2>3. PICK k, std : k = 1 /\ std = "erc721"
      OBVIOUS
    <2>4. AsksFor(p, m, b, std, k, S)
      BY <1>8, <2>1, <2>3, Asking721
    <2> QED BY <1>3, <2>2, <2>3, <2>4, PutAskingIs
  <1>9. CASE p = "erc1155_v2"
    <2>1. S = erc1155_v2_putBlock(m, b)
      BY <1>2, <1>3, <1>9 DEF TokenPutOf
    <2>2. Stds(p) = {"erc1155"} /\ p \in Repeats
      BY <1>9 DEF Stds, Repeats
    <2>3. PICK k, std : k = 1 /\ std = "erc1155"
      OBVIOUS
    <2>4. AsksFor(p, m, b, std, k, S)
      BY <1>9, <2>1, <2>3, Asking1155
    <2> QED BY <1>3, <2>2, <2>3, <2>4, PutAskingIs
  <1>10. CASE p = Keeper
    <2>1. S = holder_PutBlock(m, b)
      BY <1>2, <1>3, <1>10 DEF TokenPutOf, Keeper
    <2> QED BY <1>3, <1>10, <2>1, HolderPutIs
  <1> QED BY <1>1, <1>5, <1>6, <1>7, <1>8, <1>9, <1>10 DEF Tokens, Keeper

(* PutBlocks takes the buffer and writes it, with the height, in one       *)
(* transaction.                                                            *)
LEMMA CommitToken ==
    ASSUME TokensWired, NEW p \in Plugins, NEW m, NEW d, NEW from, NEW to
    PROVE  CommitOf(p, m, d, from, to) = {Commits(<<TokenTx(p, m, d, to)>>, Emptied(m))}
  <1>1. p \in Tokens /\ CommitOf(p, m, d, from, to) = CommitOfToken(p, m, d, to)
    BY DEF TokensWired
  <1>2. PICK sts : sts = TokenStmts(p, m.buf, d)
    OBVIOUS
  <1>3. ASSUME p # "erc20_v2", CommitOfToken(p, m, d, to) = TakeAndCommit(m, sts, to)
        PROVE  CommitOfToken(p, m, d, to) = {Commits(<<TokenTx(p, m, d, to)>>, Emptied(m))}
    BY <1>2, <1>3 DEF TakeAndCommit, Tx, TokenTx, TokenBad
  <1>4. CASE p = "erc20"
    BY <1>1, <1>2, <1>3, <1>4 DEF CommitOfToken, erc20_commit, TokenStmts
  <1>5. CASE p = "erc721"
    BY <1>1, <1>2, <1>3, <1>5 DEF CommitOfToken, erc721_commit, TokenStmts
  <1>6. CASE p = "erc721_v2"
    BY <1>1, <1>2, <1>3, <1>6 DEF CommitOfToken, erc721_v2_commit, TokenStmts
  <1>7. CASE p = "erc1155"
    BY <1>1, <1>2, <1>3, <1>7 DEF CommitOfToken, erc1155_commit, TokenStmts
  <1>8. CASE p = "erc1155_v2"
    BY <1>1, <1>2, <1>3, <1>8 DEF CommitOfToken, erc1155_v2_commit, TokenStmts
  <1>9. CASE p = Keeper
    BY <1>1, <1>2, <1>3, <1>9 DEF CommitOfToken, holder_commit, TokenStmts, Keeper
  <1>10. CASE p = "erc20_v2"
    <2> DEFINE stages == <<{}, {"transfer"}, {"transfer", "approval"},
                           {"transfer", "approval", "holder"}>>
               bad == {Without(m, stages[i]) : i \in 1 .. 4}
               tx == Tx(Emptied(m), sts, to)
    <2>1. CommitOfToken(p, m, d, to) = {Commits(<<[tx EXCEPT !.bad = bad]>>, Emptied(m))}
      BY <1>2, <1>10 DEF CommitOfToken, erc20_v2_commit, TokenStmts
    <2>2. bad = TokenBad(p, m)
      <3>1. /\ stages[1] = {} /\ stages[2] = {"transfer"} /\ stages[3] = {"transfer", "approval"}
            /\ stages[4] = {"transfer", "approval", "holder"}
        OBVIOUS
      <3>2. 1 .. 4 = {1, 2, 3, 4}
        OBVIOUS
      <3>3. TokenBad(p, m) = {Without(m, ts) : ts \in {stages[1], stages[2], stages[3], stages[4]}}
        BY <1>10, <3>1 DEF TokenBad
      <3> HIDE DEF stages
      <3> QED BY <3>2, <3>3
    <2>3. [tx EXCEPT !.bad = bad] = TokenTx(p, m, d, to)
      <3> HIDE DEF bad
      <3> QED BY <1>2, <2>2 DEF Tx, TokenTx
    <2> HIDE DEF tx, bad
    <2> QED BY <1>1, <2>1, <2>3
  <1> QED BY <1>1, <1>4, <1>5, <1>6, <1>7, <1>8, <1>9, <1>10 DEF Tokens, Keeper
-----------------------------------------------------------------------------
(* A state of the run without failures. *)
CleanGood(p, s) ==
    /\ s = [mem |-> s.mem, db |-> s.db, stuck |-> FALSE]
    /\ IsFields(s.mem) /\ Known(p, s.mem) /\ s.mem.buf = <<>>
    /\ p # Keeper => IsTable(s.db)

(* The statements of a transaction are a list. *)
LEMMA StmtsList ==
    ASSUME NEW p, NEW q, NEW d
    PROVE  \E R : TokenStmts(p, q, d) \in Seq(R)
  <1>1. \A a : <<a>> \in Seq({a})
    OBVIOUS
  <1>2. \A a, b, c : <<a, b, c>> \in Seq({a, b, c})
    OBVIOUS
  <1>3. \A a, b, c, e : <<a, b, c, e>> \in Seq({a, b, c, e})
    OBVIOUS
  <1> QED BY <1>1, <1>2, <1>3 DEF TokenStmts

(* Emptied buffers. *)
LEMMA EmptiedIs ==
    ASSUME NEW m, IsFields(m)
    PROVE  IsFields(Emptied(m)) /\ Emptied(m).buf = <<>>
           /\ Emptied(m).yes = m.yes /\ Emptied(m).no = m.no
  <1>1. PICK e, y, n : e = m.buf /\ y = m.yes /\ n = m.no
    OBVIOUS
  <1>2. m = [buf |-> e, yes |-> y, no |-> n]
    BY <1>1 DEF IsFields
  <1>3. Emptied(m) = [buf |-> <<>>, yes |-> y, no |-> n]
    BY ONLY <1>2 DEF Emptied, NoRows
  <1> QED BY ONLY <1>1, <1>3 DEF IsFields

(* A step of the run without failures adds the rows of its block. *)
LEMMA TokenStepIs ==
    ASSUME TokensWired, NEW p \in Plugins, NEW ch \in Chains(p), NEW h \in 1 .. Len(ch),
           NEW s, CleanGood(p, s)
    PROVE  /\ CleanGood(p, CleanStep(p, ch, s, h))
           /\ Effect(p, s.db, TokenRows(p, Block(ch, h)), CleanStep(p, ch, s, h).db)
  <1>0. p \in Tokens
    BY DEF TokensWired
  <1>1. PICK b : b = Block(ch, h)
    OBVIOUS
  <1>2. b = [h |-> h, c |-> ch[h]] /\ b.c = ch[h]
    BY <1>1 DEF Block
  <1>3. PICK L : b.c \in Seq(L)
    BY <1>2 DEF TokensWired, TokenChain
  <1>4. PICK q : q = TokenRows(p, b)
    OBVIOUS
  <1>5. IsRows(p, q)
    BY <1>0, <1>3, <1>4, TokenRowsAre
  <1>6. PICK r : r = CHOOSE x \in PutOf(p, s.mem, s.db, b) : x.res = "ok"
    OBVIOUS
  <1>7. IsFields(r.mem) /\ Known(p, r.mem) /\ r.mem.buf = q
    <2>1. PICK m : m = s.mem
      OBVIOUS
    <2>2. IsFields(m) /\ Known(p, m) /\ m.buf = <<>>
      BY <2>1 DEF CleanGood
    <2>3. (\E x \in PutOf(p, m, s.db, b) : x.res = "ok")
          /\ \A x \in PutOf(p, m, s.db, b) : PutResult(p, m, b, x)
      BY <1>3, <2>2, PutToken
    <2>4. r.res = "ok" /\ PutResult(p, m, b, r)
      BY <1>6, <2>1, <2>3
    <2>5. p # Keeper => <<>> \o q = q
      <3>1. ASSUME NEW R, q \in Seq(R) PROVE <<>> \o q = q
        BY <3>1
      <3> QED BY <1>5, <3>1 DEF IsRows
    <2> QED BY <1>4, <2>2, <2>4, <2>5 DEF PutResult, PutGood
  <1>8. PICK tx, n, d : tx = TokenTx(p, r.mem, s.db, h) /\ n = Emptied(r.mem) /\ d = s.db
    OBVIOUS
  <1>9. PICK c : c = CHOOSE x \in CommitOf(p, r.mem, s.db, h, h) : x.res \in {"ok", "panic"}
    OBVIOUS
  <1>10. c = Commits(<<tx>>, n)
    <2>1. CommitOf(p, r.mem, s.db, h, h) = {Commits(<<tx>>, n)}
      BY <1>8, CommitToken
    <2>2. Commits(<<tx>>, n).res = "ok"
      BY DEF Commits
    <2> QED BY <1>9, <2>1, <2>2
  <1>11. c.res = "ok" /\ c.txs = <<tx>> /\ c.after = n
    BY <1>10 DEF Commits
  <1>12. tx.stmts = TokenStmts(p, q, d)
    BY <1>7, <1>8 DEF TokenTx
  <1>13. PICK e : Run(d, TokenStmts(p, q, d)) = {e} /\ Effect(p, d, q, e)
    <2>1. p # Keeper => IsTable(d)
      BY <1>8 DEF CleanGood
    <2> QED BY <1>0, <1>5, <2>1, TokenRun
  <1>14. FoldLeft(LAMBDA a, t : a \o t.stmts, <<>>, <<tx>>) = TokenStmts(p, q, d)
    <2>1. PICK R : tx.stmts \in Seq(R)
      BY <1>12, StmtsList
    <2> QED BY <1>12, <2>1, JoinOne
  <1>15. CleanAfter(s, c) = [mem |-> n, stuck |-> FALSE, db |-> e]
    <2>1. CleanAfter(s, c)
          = [mem |-> c.after, stuck |-> c.res = "panic",
             db |-> CHOOSE x \in Run(s.db, FoldLeft(LAMBDA a, t : a \o t.stmts, <<>>, c.txs)) : TRUE]
      BY DEF CleanAfter
    <2>2. FoldLeft(LAMBDA a, t : a \o t.stmts, <<>>, c.txs) = TokenStmts(p, q, d)
      BY <1>11, <1>14
    <2>3. CleanAfter(s, c)
          = [mem |-> n, stuck |-> FALSE, db |-> CHOOSE x \in Run(d, TokenStmts(p, q, d)) : TRUE]
      BY <1>8, <1>11, <2>1, <2>2
    <2> QED BY <1>13, <2>3
  <1>16. CleanStep(p, ch, s, h) = CleanAfter(s, c)
    <2>1. s.stuck = FALSE
      BY DEF CleanGood
    <2> QED BY <1>2, <1>6, <1>9, <2>1 DEF CleanStep
  <1>17. PICK t : t = CleanStep(p, ch, s, h)
    OBVIOUS
  <1>18. t = [mem |-> n, stuck |-> FALSE, db |-> e] /\ t.mem = n /\ t.db = e
    BY <1>15, <1>16, <1>17
  <1>19. IsFields(n) /\ Known(p, n) /\ n.buf = <<>>
    <2>1. PICK m : m = r.mem
      OBVIOUS
    <2>2. IsFields(n) /\ n.buf = <<>> /\ n.yes = m.yes /\ n.no = m.no
      BY <1>7, <1>8, <2>1, EmptiedIs
    <2> QED BY <1>7, <2>1, <2>2 DEF Known
  <1>20. p # Keeper => IsTable(e)
    BY <1>13 DEF Effect, Grown
  <1>21. CleanGood(p, t)
    BY <1>18, <1>19, <1>20 DEF CleanGood
  <1> QED BY <1>1, <1>4, <1>8, <1>13, <1>17, <1>18, <1>21

(* The run without failures, for every height: empty tables first, and     *)
(* then what each block's rows make of them.                               *)
LEMMA WantToken ==
    ASSUME TokensWired, NEW p \in Plugins, NEW ch \in Chains(p)
    PROVE  /\ Len(ch) \in Nat
           /\ Clean(p, ch)[0] = EmptyTables
           /\ \A h \in 0 .. Len(ch) : p # Keeper => IsTable(Clean(p, ch)[h])
           /\ \A h \in 1 .. Len(ch) :
                 Effect(p, Clean(p, ch)[h - 1], TokenRows(p, Block(ch, h)), Clean(p, ch)[h])
  <1> DEFINE s0 == StartOf(p, Fresh(p), EmptyTables, 0, ch)
             W == Clean(p, ch)
             n == Len(ch)
  <1>1. n \in Nat
    BY DEF TokensWired, TokenChain
  <1>2. s0.mem = Fresh(p) /\ s0.height = 0 /\ s0.db = EmptyTables
    BY StartToken
  <1>3. PICK C : /\ W = [h \in 0 .. n |-> C[h].db]
                 /\ \A h \in 0 .. n : C[h] = IF h <= s0.height
                                             THEN [mem |-> s0.mem, db |-> s0.db, stuck |-> FALSE]
                                             ELSE CleanStep(p, ch, C[h - 1], h)
    <2>1. s0.height \in Nat
      BY <1>2
    <2> QED BY <1>1, <2>1, CleanFunction
  <1>4. \A h \in 0 .. n : C[h] = IF h <= 0 THEN [mem |-> Fresh(p), db |-> EmptyTables, stuck |-> FALSE]
                                ELSE CleanStep(p, ch, C[h - 1], h)
    <2> HIDE DEF s0, n
    <2> QED BY <1>2, <1>3
  <1>5. \A h \in 0 .. n : W[h] = C[h].db
    BY <1>3
  <1>6. \A h \in 1 .. Len(ch) : h \in 1 .. n
    OBVIOUS
  <1> HIDE DEF s0, W
  <1> DEFINE S == {h \in Nat : h <= n => CleanGood(p, C[h])}
  <1>7. CleanGood(p, C[0]) /\ W[0] = EmptyTables
    <2>1. 0 \in 0 .. n /\ 0 <= 0
      BY <1>1
    <2>2. PICK s, m : s = C[0] /\ m = Fresh(p)
      OBVIOUS
    <2>3. s = [mem |-> m, db |-> EmptyTables, stuck |-> FALSE]
      BY <1>4, <2>1, <2>2
    <2>4. IsFields(m) /\ Known(p, m) /\ m.buf = <<>>
      BY <2>2, FreshToken
    <2>5. IsTable(EmptyTables)
      BY DEF IsTable, EmptyTables
    <2>6. s.mem = m /\ s.db = EmptyTables
      BY ONLY <2>3
    <2> QED BY <1>5, <2>1, <2>2, <2>3, <2>4, <2>5, <2>6 DEF CleanGood
  <1>8. ASSUME NEW h \in 1 .. n, CleanGood(p, C[h - 1])
        PROVE  CleanGood(p, C[h]) /\ Effect(p, C[h - 1].db, TokenRows(p, Block(ch, h)), C[h].db)
    <2>1. h \in 0 .. n /\ ~(h <= 0) /\ h \in 1 .. Len(ch)
      BY <1>1
    <2>2. PICK s, t : s = C[h - 1] /\ t = C[h]
      OBVIOUS
    <2>3. t = CleanStep(p, ch, s, h)
      <3> HIDE DEF n
      <3> QED BY <1>4, <2>1, <2>2
    <2>4. CleanGood(p, s)
      BY <1>8, <2>2
    <2>5. CleanGood(p, t) /\ Effect(p, s.db, TokenRows(p, Block(ch, h)), t.db)
      BY <2>1, <2>3, <2>4, TokenStepIs
    <2> QED BY <2>2, <2>5
  <1> HIDE DEF n
  <1>9. S = Nat
    <2>1. S \in SUBSET Nat /\ 0 \in S
      BY <1>7
    <2>2. ASSUME NEW h \in S PROVE h + 1 \in S
      <3>1. h + 1 <= n => h + 1 \in 1 .. n /\ (h + 1) - 1 = h /\ h <= n
        BY <1>1
      <3>2. h + 1 <= n => CleanGood(p, C[(h + 1) - 1])
        BY <3>1
      <3>3. h + 1 <= n => CleanGood(p, C[h + 1])
        BY <1>8, <3>1, <3>2
      <3> QED BY <3>3
    <2> HIDE DEF S
    <2> QED BY <2>1, <2>2, SetInduction
  <1>10. \A h \in 0 .. n : CleanGood(p, C[h])
    <2>1. \A h \in 0 .. n : h \in S /\ h <= n
      BY <1>1, <1>9
    <2> QED BY <2>1
  <1>11. \A h \in 0 .. n : p # Keeper => IsTable(W[h])
    BY <1>5, <1>10 DEF CleanGood
  <1>12. ASSUME NEW h \in 1 .. n
         PROVE  Effect(p, W[h - 1], TokenRows(p, Block(ch, h)), W[h])
    <2>1. h - 1 \in 0 .. n /\ h \in 0 .. n
      BY <1>1
    <2>2. Effect(p, C[h - 1].db, TokenRows(p, Block(ch, h)), C[h].db)
      BY <1>8, <1>10, <2>1
    <2> QED BY <1>5, <2>1, <2>2
  <1> QED BY <1>1, <1>7, <1>11, <1>12 DEF W, n

(* What is constant in a behaviour, and the tables each height asks for. *)
LEMMA FactsToken ==
    ASSUME TokensWired, TokenShape
    PROVE  /\ plugin \in Plugins /\ plugin \in Tokens /\ plugin \notin Workers
           /\ Tip \in Nat /\ cache \in Nat /\ row \in Nat /\ cache = row
           /\ last \in Nat /\ last <= Tip /\ at \in Nat
           /\ FaultsOf(plugin) \in Nat /\ BatchOf(plugin) \in Nat
           /\ faults \in Nat /\ faults <= FaultsOf(plugin)
           /\ want[0] = EmptyTables
           /\ \A h \in 0 .. Tip : plugin # Keeper => IsTable(want[h])
           /\ \A h \in 1 .. Tip :
                 /\ Effect(plugin, want[h - 1], TokenRows(plugin, BlockAt(h)), want[h])
                 /\ \E L : BlockAt(h).c \in Seq(L)
                 /\ IsRows(plugin, TokenRows(plugin, BlockAt(h)))
  <1>1. plugin \in Plugins /\ chain \in Chains(plugin) /\ want = Clean(plugin, chain)
        /\ row \in 0 .. Tip /\ cache = row /\ last \in 0 .. Tip /\ at \in 0 .. Tip + 1
        /\ faults \in 0 .. FaultsOf(plugin)
    BY DEF TokenShape
  <1>2. plugin \in Tokens /\ plugin \notin Workers /\ FaultsOf(plugin) \in Nat /\ BatchOf(plugin) \in Nat
    BY <1>1, TokenSets DEF TokensWired
  <1>3. /\ Tip \in Nat /\ want[0] = EmptyTables
        /\ \A h \in 0 .. Tip : plugin # Keeper => IsTable(want[h])
        /\ \A h \in 1 .. Tip :
              Effect(plugin, want[h - 1], TokenRows(plugin, Block(chain, h)), want[h])
    BY <1>1, WantToken DEF Tip
  <1>4. \A h : BlockAt(h) = Block(chain, h) /\ BlockAt(h).c = chain[h]
    BY DEF BlockAt, Block
  <1>5. \A h \in 1 .. Tip : \E L : BlockAt(h).c \in Seq(L)
    BY <1>1, <1>4 DEF TokensWired, TokenChain, Tip
  <1>6. \A h \in 1 .. Tip : IsRows(plugin, TokenRows(plugin, BlockAt(h)))
    BY <1>2, <1>5, TokenRowsAre
  <1>7. \A a : \A x \in 0 .. a : x \in Nat /\ x <= a
    OBVIOUS
  <1>8. row \in Nat /\ last \in Nat /\ last <= Tip /\ at \in Nat /\ faults \in Nat
        /\ faults <= FaultsOf(plugin)
    BY <1>1, <1>7
  <1>9. \A h \in 1 .. Tip :
           Effect(plugin, want[h - 1], TokenRows(plugin, BlockAt(h)), want[h])
    BY <1>3, <1>4
  <1> QED BY <1>1, <1>2, <1>3, <1>5, <1>6, <1>8, <1>9
-----------------------------------------------------------------------------
(* A step that is sure was sure before, and one that costs a failure is    *)
(* not sure for the plugins that may repeat rows.                          *)
LEMMA SureBefore ==
    ASSUME TokensWired, TokenShape, plugin' = plugin, ~hidden' => ~hidden,
           faults' \in Nat, faults' <= faults, TokenSure'
    PROVE  TokenSure /\ (faults' # faults => plugin \notin Repeats)
  <1>1. faults \in Nat /\ FaultsOf(plugin) \in Nat /\ faults <= FaultsOf(plugin)
    BY FactsToken
  <1>2. ~hidden' /\ (plugin \in Repeats => faults' = FaultsOf(plugin))
    BY DEF TokenSure, Unfailed
  <1>3. plugin \in Repeats => faults = FaultsOf(plugin) /\ faults' = faults
    BY <1>1, <1>2
  <1> QED BY <1>2, <1>3 DEF TokenSure, Unfailed

(* The empty buffer has what lies between a height and itself. *)
LEMMA NoneGathered ==
    ASSUME TokensWired, TokenShape, NEW c \in 0 .. Tip
    PROVE  Gathered(<<>>, c, c)
  <1>1. CASE plugin = Keeper
    BY <1>1 DEF Gathered, IsRows
  <1>2. CASE plugin # Keeper
    <2>1. IsTable(want[c])
      BY <1>2, FactsToken
    <2> QED BY <1>2, <2>1, EffectNone DEF Gathered
  <1> QED BY <1>1, <1>2

(* Before Start nothing is written. *)
LEMMA TokenInit == TokensWired /\ Init => TokenIInv
  <1> SUFFICES ASSUME TokensWired, Init PROVE TokenIInv
    OBVIOUS
  <1>1. plugin \in Plugins /\ chain \in Chains(plugin) /\ want = Clean(plugin, chain)
    BY DEF Init
  <1>2. IsFields(mem) /\ Known(plugin, mem) /\ mem.buf = <<>>
    BY <1>1, FreshToken DEF Init
  <1>3. Tip \in Nat
    BY <1>1, WantToken DEF Tip
  <1>4. FaultsOf(plugin) \in Nat /\ faults = FaultsOf(plugin)
    BY <1>1 DEF Init, TokensWired
  <1>5. TokenShape
    <2>1. 0 \in 0 .. Tip /\ 0 \in 0 .. Tip + 1 /\ faults \in 0 .. FaultsOf(plugin)
      BY <1>3, <1>4
    <2> QED BY <1>1, <1>2, <2>1 DEF Init, TokenShape
  <1>6. TokenContent
    BY <1>2 DEF Init, TokenContent
  <1> QED BY <1>5, <1>6 DEF TokenIInv

(* Start: tables and height agree, at height 0 too, where it drops them. *)
LEMMA TokenStart == ASSUME TokensWired, TokenIInv, Start PROVE TokenIInv'
  <1> DEFINE s == StartOf(plugin, mem, db, cache, chain)
  <1>1. TokenShape /\ TokenContent /\ pc = "down"
    BY DEF TokenIInv, Start
  <1>2. plugin \in Plugins /\ cache = row /\ row \in Nat /\ Tip \in Nat /\ want[0] = EmptyTables
        /\ 0 \in 0 .. Tip
    BY <1>1, FactsToken
  <1>3. s.mem = mem /\ s.height = cache /\ s.db = IF cache = 0 THEN EmptyTables ELSE db
    BY <1>2, StartToken
  <1>4. /\ pc' = "idle" /\ mem' = mem /\ cache' = cache /\ row' = row
        /\ db' = IF cache = 0 THEN EmptyTables ELSE db
        /\ UNCHANGED <<plugin, chain, last, at, todo, done, faults, hidden, want>>
        /\ Tip' = Tip
    <2> HIDE DEF s
    <2> QED BY <1>3 DEF Start, s, Tip
  <1>5. TokenShape'
    BY <1>1, <1>4 DEF TokenShape
  <1>6. TokenSure' = TokenSure
    BY <1>4 DEF TokenSure, Unfailed
  <1>7. ASSUME TokenSure PROVE Same(plugin, db', want[row])
    <2>1. CASE cache = 0
      <3>1. db' = EmptyTables /\ want[row] = EmptyTables
        BY <1>2, <1>4, <2>1
      <3>2. IsTable(EmptyTables)
        BY DEF IsTable, EmptyTables
      <3>3. PICK e : e = EmptyTables
        OBVIOUS
      <3>4. Same(plugin, e, e)
        BY <3>2, <3>3 DEF Same
      <3> QED BY <3>1, <3>3, <3>4
    <2>2. CASE cache # 0
      <3>1. row > 0 /\ db' = db
        BY <1>2, <1>4, <2>2
      <3> QED BY <1>1, <1>7, <3>1 DEF TokenContent
    <2> QED BY <2>1, <2>2
  <1>8. TokenContent'
    BY <1>1, <1>4, <1>6, <1>7 DEF TokenContent
  <1> QED BY <1>5, <1>8 DEF TokenIInv

(* A batch begins with an empty buffer. *)
LEMMA TokenFetch == ASSUME TokensWired, TokenIInv, Fetch PROVE TokenIInv'
  <1>1. TokenShape /\ TokenContent /\ pc = "idle"
    BY DEF TokenIInv, Fetch
  <1>2. plugin \in Plugins /\ Tip \in Nat /\ cache \in Nat /\ cache = row /\ BatchOf(plugin) \in Nat
        /\ (plugin = Keeper => BatchOf(plugin) = 1)
    BY <1>1, FactsToken DEF TokensWired
  <1>3. PICK n \in 1 .. BatchOf(plugin) : cache + n <= Tip /\ last' = cache + n
    BY DEF Fetch
  <1>4. /\ at' = cache + 1 /\ pc' = "put" /\ Tip' = Tip
        /\ UNCHANGED <<plugin, chain, mem, db, row, cache, todo, done, faults, hidden, want>>
    BY DEF Fetch, Tip
  <1>5. last' \in 0 .. Tip /\ at' \in 0 .. Tip + 1 /\ cache < last' /\ cache < at'
        /\ at' <= last' + 1 /\ at' - 1 = cache
    BY <1>2, <1>3, <1>4
  <1>6. plugin = Keeper => last' = cache + 1
    BY <1>2, <1>3
  <1>7. TokenShape'
    BY <1>1, <1>4, <1>5, <1>6 DEF TokenShape
  <1>8. TokenSure' = TokenSure
    BY <1>4 DEF TokenSure, Unfailed
  <1>9. ASSUME TokenSure PROVE Gathered(mem.buf, cache, at' - 1)
    <2>1. mem.buf = <<>>
      BY <1>1, <1>9 DEF TokenContent
    <2>2. cache \in 0 .. Tip
      BY <1>1 DEF TokenShape
    <2> QED BY <1>1, <1>5, <2>1, <2>2, NoneGathered
  <1>10. TokenContent'
    BY <1>1, <1>4, <1>8, <1>9 DEF TokenContent, Gathered
  <1> QED BY <1>7, <1>10 DEF TokenIInv

(* What a step may leave of the budget of failures. *)
LEMMA CostsIs ==
    ASSUME TokensWired, TokenShape, NEW r, Costs(r)
    PROVE  /\ faults' \in 0 .. FaultsOf(plugin) /\ faults' \in Nat /\ faults' <= faults
           /\ hidden' \in BOOLEAN /\ (~hidden' => ~hidden /\ r.res # "hid")
           /\ r.res = "err" => faults' # faults
  <1>1. faults \in Nat /\ FaultsOf(plugin) \in Nat /\ faults <= FaultsOf(plugin)
    BY FactsToken
  <1>2. PICK f : f = IF r.res \in {"ok", "panic"} THEN faults ELSE faults - 1
    OBVIOUS
  <1>3. faults' = f /\ f >= 0 /\ hidden' = (hidden \/ r.res = "hid")
    BY <1>2 DEF Costs
  <1>4. hidden \in BOOLEAN
    BY DEF TokenShape
  <1>5. f \in Nat /\ f <= faults /\ f <= FaultsOf(plugin) /\ (r.res = "err" => f # faults)
    BY <1>1, <1>2, <1>3
  <1>6. hidden' \in BOOLEAN /\ (~hidden' => ~hidden /\ r.res # "hid")
    BY <1>3, <1>4
  <1>7. f \in 0 .. FaultsOf(plugin)
    BY <1>1, <1>5
  <1>8. faults' \in 0 .. FaultsOf(plugin) /\ faults' \in Nat /\ faults' <= faults
    BY <1>3, <1>5, <1>7
  <1> QED BY <1>3, <1>5, <1>6, <1>8

(* The rows of one more block. *)
LEMMA MoreGathered ==
    ASSUME TokensWired, TokenShape, at \in 1 .. Tip, cache <= at - 1,
           plugin = Keeper => at = cache + 1,
           NEW q, Gathered(q, cache, at - 1), NEW n,
           n = IF plugin = Keeper THEN TokenRows(plugin, BlockAt(at))
               ELSE q \o TokenRows(plugin, BlockAt(at))
    PROVE  Gathered(n, cache, at)
  <1>1. PICK r : r = TokenRows(plugin, BlockAt(at))
    OBVIOUS
  <1>2. IsRows(plugin, r) /\ Effect(plugin, want[at - 1], r, want[at])
    BY <1>1, FactsToken
  <1>3. CASE plugin = Keeper
    <2>1. n = r /\ at - 1 = cache
      BY <1>1, <1>3, FactsToken
    <2> QED BY <1>2, <2>1 DEF Gathered
  <1>4. CASE plugin # Keeper
    <2>1. cache \in 0 .. Tip
      BY DEF TokenShape
    <2>2. PICK c, e, f : c = want[cache] /\ e = want[at - 1] /\ f = want[at]
      OBVIOUS
    <2>3. IsTable(c)
      BY <1>4, <2>1, <2>2, FactsToken
    <2>4. IsRows(plugin, q) /\ Effect(plugin, c, q, e) /\ Effect(plugin, e, r, f)
      BY <1>2, <1>4, <2>2 DEF Gathered
    <2>5. IsRows(plugin, q \o r) /\ Effect(plugin, c, q \o r, f)
      BY <1>2, <1>4, <2>3, <2>4, EffectConcat
    <2>6. n = q \o r
      BY <1>1, <1>4
    <2> QED BY <1>4, <2>2, <2>5, <2>6 DEF Gathered
  <1> QED BY <1>3, <1>4

(* A block put is in the buffer; after one that failed only plugins that   *)
(* may repeat rows go on with what is left in it.                          *)
LEMMA TokenPut == ASSUME TokensWired, TokenIInv, Put PROVE TokenIInv'
  <1>1. TokenShape /\ TokenContent /\ pc = "put" /\ at <= last
    BY DEF TokenIInv, Put
  <1>2. /\ plugin \in Plugins /\ Tip \in Nat /\ cache \in Nat /\ last \in Nat /\ last <= Tip /\ at \in Nat
        /\ \A h \in 1 .. Tip : \E L : BlockAt(h).c \in Seq(L)
    BY <1>1, FactsToken
  <1>3. cache < at /\ (plugin = Keeper => last = cache + 1) /\ todo = <<>> /\ IsFields(mem)
    BY <1>1 DEF TokenShape
  <1>4. at \in 1 .. Tip /\ cache <= at - 1 /\ (plugin = Keeper => at = cache + 1)
        /\ at + 1 \in 0 .. Tip + 1 /\ cache < at + 1 /\ at + 1 <= last + 1 /\ (at + 1) - 1 = at
        /\ cache < last
    BY <1>1, <1>2, <1>3
  <1>5. PICK r \in PutOf(plugin, mem, db, BlockAt(at)) :
          mem' = r.mem /\ Costs(r) /\ pc' = IF r.res = "err" THEN "idle" ELSE "put"
    BY <1>1 DEF Put
  <1>6. /\ at' = at + 1 /\ Tip' = Tip
        /\ UNCHANGED <<plugin, chain, db, row, cache, last, todo, done, want>>
    BY DEF Put, Tip
  <1>7. PutResult(plugin, mem, BlockAt(at), r)
    <2>1. PICK b, L : b = BlockAt(at) /\ b.c \in Seq(L)
      BY <1>2, <1>4
    <2>2. PICK m : m = mem
      OBVIOUS
    <2>3. \A x \in PutOf(plugin, m, db, b) : PutResult(plugin, m, b, x)
      BY <1>2, <1>3, <2>1, <2>2, PutToken
    <2> QED BY <1>5, <2>1, <2>2, <2>3
  <1>8. /\ faults' \in 0 .. FaultsOf(plugin) /\ faults' \in Nat /\ faults' <= faults
        /\ hidden' \in BOOLEAN /\ (~hidden' => ~hidden /\ r.res # "hid")
        /\ r.res = "err" => faults' # faults
    BY <1>1, <1>5, CostsIs
  <1>9. TokenShape'
    <2>1. pc' \in {"idle", "put"}
      BY <1>5
    <2>2. IsFields(mem')
      BY <1>5, <1>7 DEF PutResult
    <2>3. at' \in 0 .. Tip' + 1 /\ cache' < at' /\ at' <= last' + 1 /\ cache' < last'
          /\ (plugin' = Keeper => last' = cache' + 1)
      BY <1>3, <1>4, <1>6
    <2>4. plugin' \in Plugins /\ chain' \in Chains(plugin') /\ want' = Clean(plugin', chain')
          /\ row' \in 0 .. Tip' /\ cache' = row' /\ last' \in 0 .. Tip' /\ todo' = <<>>
      BY <1>1, <1>3, <1>6 DEF TokenShape
    <2> QED BY <1>6, <1>8, <2>1, <2>2, <2>3, <2>4 DEF TokenShape
  <1>10. TokenContent'
    <2> SUFFICES ASSUME TokenSure' PROVE TokenContent'
      BY DEF TokenContent
    <2>1. TokenSure /\ (faults' # faults => plugin \notin Repeats) /\ ~hidden'
      <3>1. ~hidden'
        BY DEF TokenSure
      <3> QED BY <1>1, <1>6, <1>8, <3>1, SureBefore
    <2>2. r.res = "ok"
      BY <1>7, <1>8, <2>1 DEF PutResult
    <2>3. pc' = "put"
      BY <1>5, <2>2
    <2>4. Known(plugin, mem) /\ Gathered(mem.buf, cache, at - 1) /\ Same(plugin, db, want[row])
      BY <1>1, <2>1 DEF TokenContent
    <2>5. PutGood(plugin, mem, BlockAt(at), r.mem)
      BY <1>7, <2>2, <2>4 DEF PutResult
    <2>6. Known(plugin, mem') /\ Gathered(mem'.buf, cache, at)
      <3>1. PICK q, n : q = mem.buf /\ n = mem'.buf
        OBVIOUS
      <3>2. n = IF plugin = Keeper THEN TokenRows(plugin, BlockAt(at))
                ELSE q \o TokenRows(plugin, BlockAt(at))
        BY <1>5, <2>5, <3>1 DEF PutGood
      <3>3. Gathered(n, cache, at)
        BY <1>1, <1>4, <2>4, <3>1, <3>2, MoreGathered
      <3> QED BY <1>5, <2>5, <3>1, <3>3 DEF PutGood
    <2>7. at' - 1 = at
      BY <1>4, <1>6
    <2> QED BY <1>6, <2>3, <2>4, <2>6, <2>7 DEF TokenContent, Gathered
  <1> QED BY <1>9, <1>10 DEF TokenIInv

(* The transaction of the batch has the rows of the whole buffer. *)
LEMMA TokenBegin == ASSUME TokensWired, TokenIInv, Begin PROVE TokenIInv'
  <1>1. TokenShape /\ TokenContent /\ pc = "put" /\ at > last
    BY DEF TokenIInv, Begin
  <1>2. /\ plugin \in Plugins /\ Tip \in Nat /\ cache \in Nat /\ last \in Nat /\ at \in Nat
    BY <1>1, FactsToken
  <1>3. cache < at /\ at <= last + 1 /\ IsFields(mem) /\ cache < last
        /\ (plugin = Keeper => last = cache + 1)
    BY <1>1 DEF TokenShape
  <1>4. at - 1 = last
    BY <1>1, <1>2, <1>3
  <1>5. PICK c \in CommitOf(plugin, mem, db, cache + 1, last) :
          /\ todo' = c.txs /\ done' = c.after /\ Costs(c)
          /\ mem' = IF c.res \in {"err", "panic"} THEN c.after ELSE mem
          /\ pc' = IF c.res \in {"err", "panic"} THEN "idle" ELSE "commit"
    BY DEF Begin
  <1>6. UNCHANGED <<plugin, chain, db, row, cache, last, at, want>> /\ Tip' = Tip
    BY DEF Begin, Tip
  <1>7. PICK tx : tx = TokenTx(plugin, mem, db, last)
    OBVIOUS
  <1>8. c = Commits(<<tx>>, Emptied(mem))
    BY <1>2, <1>5, <1>7, CommitToken
  <1>9. c.res = "ok" /\ c.txs = <<tx>> /\ c.after = Emptied(mem)
    BY <1>8 DEF Commits
  <1>10. todo' = <<tx>> /\ done' = Emptied(mem) /\ mem' = mem /\ pc' = "commit"
    BY <1>5, <1>9
  <1>11. faults' = faults /\ hidden' = hidden
    <2>1. hidden \in BOOLEAN
      BY <1>1 DEF TokenShape
    <2> QED BY <1>5, <1>9, <2>1 DEF Costs
  <1>12. TokenShape'
    <2>1. todo' = <<TokenTx(plugin', mem', db', last')>> /\ done' = Emptied(mem')
      BY <1>6, <1>7, <1>10
    <2> QED BY <1>1, <1>3, <1>6, <1>10, <1>11, <2>1 DEF TokenShape
  <1>13. TokenSure' = TokenSure
    BY <1>6, <1>11 DEF TokenSure, Unfailed
  <1>14. ASSUME TokenSure PROVE Gathered(mem.buf, cache, last)
    BY <1>1, <1>4, <1>14 DEF TokenContent
  <1>15. TokenContent'
    BY <1>1, <1>6, <1>10, <1>13, <1>14 DEF TokenContent, Gathered
  <1> QED BY <1>12, <1>15 DEF TokenIInv

(* The transaction in hand, and what it makes of the tables: those of the  *)
(* last block of the batch.                                                *)
LEMMA TokenInHand ==
    ASSUME TokensWired, TokenIInv, pc = "commit"
    PROVE  /\ Head(todo) = TokenTx(plugin, mem, db, last) /\ Tail(todo) = <<>>
           /\ Head(todo).sent = Emptied(mem) /\ Head(todo).height = last
           /\ Head(todo).bad = TokenBad(plugin, mem)
           /\ Head(todo).stmts = TokenStmts(plugin, mem.buf, db)
           /\ last # NoHeight /\ last \in 0 .. Tip
           /\ TokenSure => \E e : Run(db, Head(todo).stmts) = {e} /\ Same(plugin, e, want[last])
  <1>1. TokenShape /\ TokenContent
    BY DEF TokenIInv
  <1>2. plugin \in Tokens /\ cache = row /\ cache \in Nat /\ last \in Nat
    BY <1>1, FactsToken
  <1>3. PICK tx : tx = TokenTx(plugin, mem, db, last)
    OBVIOUS
  <1>4. todo = <<tx>> /\ last \in 0 .. Tip /\ cache < last
    BY <1>1, <1>3 DEF TokenShape
  <1>5. Head(todo) = tx /\ Tail(todo) = <<>>
    BY <1>4
  <1>6. /\ tx.sent = Emptied(mem) /\ tx.height = last /\ tx.bad = TokenBad(plugin, mem)
        /\ tx.stmts = TokenStmts(plugin, mem.buf, db)
    BY <1>3 DEF TokenTx
  <1>7. last # NoHeight
    BY <1>2 DEF NoHeight
  <1>8. ASSUME TokenSure
        PROVE  \E e : Run(db, TokenStmts(plugin, mem.buf, db)) = {e} /\ Same(plugin, e, want[last])
    <2>1. PICK q, d, c, f : q = mem.buf /\ d = db /\ c = want[row] /\ f = want[last]
      OBVIOUS
    <2>2. Same(plugin, d, c) /\ Gathered(q, cache, last)
      BY <1>1, <1>8, <2>1 DEF TokenContent
    <2>3. IsRows(plugin, q) /\ Effect(plugin, c, q, f)
      BY <1>2, <1>4, <2>1, <2>2 DEF Gathered
    <2>4. plugin # Keeper => IsTable(d)
      BY <2>2 DEF Same
    <2>5. PICK e : Run(d, TokenStmts(plugin, q, d)) = {e} /\ Effect(plugin, d, q, e)
      BY <1>2, <2>3, <2>4, TokenRun
    <2>6. Same(plugin, e, f)
      BY <2>2, <2>3, <2>5, EffectSame
    <2> QED BY <2>1, <2>5, <2>6
  <1> QED BY <1>3, <1>4, <1>5, <1>6, <1>7, <1>8

(* So they agree after a commit, whether its answer arrived or not. *)
LEMMA TokenCommitted ==
    ASSUME TokensWired, TokenIInv, pc = "commit", Applied(Head(todo)), todo' = <<>>,
           pc' = "idle", mem' = Emptied(mem), faults' \in 0 .. FaultsOf(plugin),
           faults' <= faults, UNCHANGED <<plugin, chain, last, at, done, hidden, want>>
    PROVE  TokenIInv'
  <1>1. TokenShape /\ TokenContent
    BY DEF TokenIInv
  <1>2. PICK tx : tx = Head(todo)
    OBVIOUS
  <1>3. /\ tx.height = last /\ last # NoHeight /\ last \in 0 .. Tip
        /\ TokenSure => \E e : Run(db, tx.stmts) = {e} /\ Same(plugin, e, want[last])
    BY <1>2, TokenInHand
  <1>4. db' \in Run(db, tx.stmts) /\ row' = last /\ cache' = last
    BY <1>2, <1>3 DEF Applied
  <1>5. Tip' = Tip
    BY DEF Tip
  <1>6. IsFields(mem') /\ mem'.buf = <<>> /\ mem'.yes = mem.yes /\ mem'.no = mem.no
    <2>1. PICK m : m = mem
      OBVIOUS
    <2>2. IsFields(m)
      BY <1>1, <2>1 DEF TokenShape
    <2>3. IsFields(Emptied(m)) /\ Emptied(m).buf = <<>>
          /\ Emptied(m).yes = m.yes /\ Emptied(m).no = m.no
      BY <2>2, EmptiedIs
    <2> QED BY <2>1, <2>3
  <1>7. TokenShape'
    BY <1>1, <1>3, <1>4, <1>5, <1>6 DEF TokenShape
  <1>8. TokenContent'
    <2> SUFFICES ASSUME TokenSure' PROVE TokenContent'
      BY DEF TokenContent
    <2>1. faults' \in Nat
      BY <1>1, FactsToken
    <2>2. TokenSure
      BY <1>1, <2>1, SureBefore
    <2>3. Same(plugin, db', want[last])
      BY <1>3, <1>4, <2>2
    <2>4. Known(plugin, mem')
      BY <1>1, <1>6, <2>2 DEF TokenContent, Known
    <2> QED BY <1>4, <1>6, <2>3, <2>4 DEF TokenContent
  <1> QED BY <1>7, <1>8 DEF TokenIInv

(* The transaction succeeds. *)
LEMMA TokenTransact == ASSUME TokensWired, TokenIInv, Transact PROVE TokenIInv'
  <1>1. TokenShape /\ pc = "commit" /\ Applied(Head(todo)) /\ todo' = Tail(todo)
        /\ UNCHANGED <<plugin, chain, last, at, done, faults, hidden, want>>
    BY DEF TokenIInv, Transact
  <1>2. todo' = <<>>
    BY <1>1, TokenInHand
  <1>3. pc' = "idle" /\ mem' = done
    BY <1>2 DEF Transact
  <1>4. done = Emptied(mem) /\ faults \in 0 .. FaultsOf(plugin)
    BY <1>1 DEF TokenShape
  <1>5. faults' \in 0 .. FaultsOf(plugin) /\ faults' <= faults
    BY <1>1, <1>4, FactsToken
  <1> QED BY <1>1, <1>2, <1>3, <1>4, <1>5, TokenCommitted

(* One failure less. *)
LEMMA OneFault ==
    ASSUME TokensWired, TokenShape, faults > 0, faults' = faults - 1
    PROVE  faults' \in 0 .. FaultsOf(plugin) /\ faults' \in Nat /\ faults' <= faults /\ faults' # faults
  <1>1. faults \in Nat /\ FaultsOf(plugin) \in Nat /\ faults <= FaultsOf(plugin)
    BY FactsToken
  <1> QED BY <1>1

(* The transaction succeeds and PutBlocks returns an error. *)
LEMMA TokenLostAck == ASSUME TokensWired, TokenIInv, LostAck PROVE TokenIInv'
  <1>1. TokenShape /\ pc = "commit" /\ Applied(Head(todo)) /\ mem' = Head(todo).sent
        /\ todo' = <<>> /\ pc' = "idle" /\ faults > 0 /\ faults' = faults - 1
        /\ UNCHANGED <<plugin, chain, last, at, done, hidden, want>>
    BY DEF TokenIInv, LostAck, Abandoned
  <1>2. mem' = Emptied(mem)
    BY <1>1, TokenInHand
  <1>3. faults' \in 0 .. FaultsOf(plugin) /\ faults' <= faults
    BY <1>1, OneFault
  <1> QED BY <1>1, <1>2, <1>3, TokenCommitted

(* A failed transaction leaves the fields' shape, and an empty buffer      *)
(* unless the plugin may repeat rows.                                      *)
LEMMA TokenBadIs ==
    ASSUME NEW p, NEW m, IsFields(m), NEW n \in TokenBad(p, m)
    PROVE  /\ IsFields(n) /\ n.yes = m.yes /\ n.no = m.no
           /\ p # "erc20_v2" => n.buf = <<>>
  <1>1. CASE p # "erc20_v2"
    <2>1. n = Emptied(m)
      BY <1>1 DEF TokenBad
    <2> QED BY <2>1, EmptiedIs
  <1>2. CASE p = "erc20_v2"
    <2>1. PICK ts : n = Without(m, ts)
      BY <1>2 DEF TokenBad
    <2>2. PICK e, y, k : e = m.buf /\ y = m.yes /\ k = m.no
      OBVIOUS
    <2>3. m = [buf |-> e, yes |-> y, no |-> k]
      BY <2>2 DEF IsFields
    <2>4. PICK x : n = [m EXCEPT !.buf = x]
      BY <2>1 DEF Without
    <2>5. n = [buf |-> x, yes |-> y, no |-> k]
      BY ONLY <2>3, <2>4
    <2> QED BY <1>2, <2>2, <2>5 DEF IsFields
  <1> QED BY <1>1, <1>2

(* The transaction fails: the rows are dropped with the buffer and read    *)
(* again.  It never refuses its statements when nothing was passed over.   *)
LEMMA TokenRollback == ASSUME TokensWired, TokenIInv, Rollback PROVE TokenIInv'
  <1>1. TokenShape /\ TokenContent /\ pc = "commit" /\ IsFields(mem)
    BY DEF TokenIInv, TokenShape, Rollback
  <1>2. PICK tx : tx = Head(todo)
    OBVIOUS
  <1>3. /\ tx.bad = TokenBad(plugin, mem) /\ tx.stmts = TokenStmts(plugin, mem.buf, db)
        /\ TokenSure => \E e : Run(db, tx.stmts) = {e}
    BY <1>1, <1>2, TokenInHand
  <1>4. /\ pc' = "idle" /\ todo' = <<>> /\ Tip' = Tip /\ mem' \in TokenBad(plugin, mem)
        /\ UNCHANGED <<plugin, chain, last, at, done, hidden, want, db, row>>
        /\ \/ Run(db, tx.stmts) = {} /\ faults' = faults
           \/ faults > 0 /\ faults' = faults - 1
        /\ cache' = IF tx.stmts = <<>> THEN tx.height ELSE cache
    BY <1>2, <1>3 DEF Rollback, Abandoned, Tip
  <1>5. cache' = cache
    <2>1. \A q, d : TokenStmts(plugin, q, d) # <<>>
      BY DEF TokenStmts
    <2> QED BY <1>3, <1>4, <2>1
  <1>6. IsFields(mem') /\ mem'.yes = mem.yes /\ mem'.no = mem.no
        /\ (plugin # "erc20_v2" => mem'.buf = <<>>)
    <2>1. PICK m, n : m = mem /\ n = mem'
      OBVIOUS
    <2> QED BY <1>1, <1>4, <2>1, TokenBadIs
  <1>7. faults' \in 0 .. FaultsOf(plugin) /\ faults' \in Nat /\ faults' <= faults
    <2>1. CASE faults' = faults
      BY <1>1, <2>1, FactsToken DEF TokenShape
    <2>2. CASE faults > 0 /\ faults' = faults - 1
      BY <1>1, <2>2, OneFault
    <2> QED BY <1>4, <2>1, <2>2
  <1>8. TokenShape'
    BY <1>1, <1>4, <1>5, <1>6, <1>7 DEF TokenShape
  <1>9. TokenContent'
    <2> SUFFICES ASSUME TokenSure' PROVE TokenContent'
      BY DEF TokenContent
    <2>1. TokenSure /\ (faults' # faults => plugin \notin Repeats)
      BY <1>1, <1>4, <1>7, SureBefore
    <2>2. faults' # faults
      <3>1. Run(db, tx.stmts) # {}
        BY <1>3, <2>1
      <3>2. faults > 0 /\ faults' = faults - 1
        BY <1>4, <3>1
      <3> QED BY <1>1, <3>2, OneFault
    <2>3. mem'.buf = <<>>
      BY <1>6, <2>1, <2>2 DEF Repeats
    <2>4. Known(plugin, mem') /\ Same(plugin, db, want[row])
      BY <1>1, <1>6, <2>1 DEF TokenContent, Known
    <2> QED BY <1>4, <2>3, <2>4 DEF TokenContent
  <1> QED BY <1>8, <1>9 DEF TokenIInv

(* Unload and load between two batches find an empty buffer. *)
LEMMA TokenReload == ASSUME TokensWired, TokenIInv, Reload PROVE TokenIInv'
  <1>1. /\ TokenShape /\ TokenContent /\ pc = "idle" /\ pc' = "down"
        /\ faults > 0 /\ faults' = faults - 1
        /\ UNCHANGED <<plugin, chain, mem, db, row, cache, last, at, todo, done, hidden, want>>
        /\ Tip' = Tip
    BY DEF TokenIInv, Reload, Tip
  <1>2. faults' \in 0 .. FaultsOf(plugin) /\ faults' \in Nat /\ faults' <= faults
    BY <1>1, OneFault
  <1>3. TokenShape'
    BY <1>1, <1>2 DEF TokenShape
  <1>4. TokenContent'
    <2>1. TokenSure' => TokenSure
      BY <1>1, <1>2, SureBefore
    <2> QED BY <1>1, <2>1 DEF TokenContent
  <1> QED BY <1>3, <1>4 DEF TokenIInv

(* A crash loses the buffer and what is known of contracts, at any step. *)
LEMMA TokenCrash == ASSUME TokensWired, TokenIInv, Crash PROVE TokenIInv'
  <1>1. /\ TokenShape /\ TokenContent /\ pc' = "down" /\ faults > 0 /\ faults' = faults - 1
        /\ mem' = Fresh(plugin) /\ cache' = row /\ last' = 0 /\ at' = 0 /\ todo' = <<>>
        /\ UNCHANGED <<plugin, chain, db, row, hidden, want>> /\ Tip' = Tip
    BY DEF TokenIInv, Crash, Tip
  <1>2. faults' \in 0 .. FaultsOf(plugin) /\ faults' \in Nat /\ faults' <= faults
    BY <1>1, OneFault
  <1>3. plugin \in Plugins /\ Tip \in Nat
    BY <1>1, FactsToken
  <1>4. IsFields(mem') /\ Known(plugin, mem') /\ mem'.buf = <<>>
    BY <1>1, <1>3, FreshToken
  <1>5. 0 \in 0 .. Tip /\ 0 \in 0 .. Tip + 1
    BY <1>3
  <1>6. TokenShape'
    BY <1>1, <1>2, <1>4, <1>5 DEF TokenShape
  <1>7. TokenContent'
    <2>1. TokenSure' => TokenSure
      BY <1>1, <1>2, SureBefore
    <2> QED BY <1>1, <1>4, <2>1 DEF TokenContent
  <1> QED BY <1>6, <1>7 DEF TokenIInv

(* Every step of the harness preserves the invariant. *)
LEMMA TokenNext == TokensWired /\ TokenIInv /\ [Next]_vars => TokenIInv'
  <1> SUFFICES ASSUME TokensWired, TokenIInv, [Next]_vars PROVE TokenIInv'
    OBVIOUS
  <1>1. CASE Start
    BY <1>1, TokenStart
  <1>2. CASE Fetch
    BY <1>2, TokenFetch
  <1>3. CASE Tick
    BY <1>3, FactsToken DEF Tick, TokenIInv
  <1>4. CASE Put
    BY <1>4, TokenPut
  <1>5. CASE Begin
    BY <1>5, TokenBegin
  <1>6. CASE Transact
    BY <1>6, TokenTransact
  <1>7. CASE Rollback
    BY <1>7, TokenRollback
  <1>8. CASE LostAck
    BY <1>8, TokenLostAck
  <1>9. CASE Reload
    BY <1>9, TokenReload
  <1>10. CASE Crash
    BY <1>10, TokenCrash
  <1>11. CASE UNCHANGED vars
    <2>1. UNCHANGED <<plugin, chain, mem, db, row, cache, pc, last, at, todo, done,
                      faults, hidden, want>>
      BY <1>11 DEF vars
    <2>2. Tip' = Tip /\ TokenSure' = TokenSure
      BY <2>1 DEF Tip, TokenSure, Unfailed
    <2>3. TokenShape'
      BY <2>1, <2>2 DEF TokenIInv, TokenShape
    <2>4. TokenContent'
      BY <2>1, <2>2 DEF TokenIInv, TokenContent, Gathered
    <2> QED BY <2>3, <2>4 DEF TokenIInv
  <1>12. CASE Finished
    BY <1>11, <1>12 DEF Finished
  <1> QED BY <1>1, <1>2, <1>3, <1>4, <1>5, <1>6, <1>7, <1>8, <1>9, <1>10, <1>11, <1>12 DEF Next

(* The inductive invariant of the token plugins: what their tables hold,   *)
(* what a batch in hand has gathered and what is known of contracts belong *)
(* together through every batch, failure, lost answer, reload and crash.   *)
THEOREM TokenInductive == ASSUME TokensWired PROVE Spec => []TokenIInv
  <1>1. Init => TokenIInv
    BY TokenInit
  <1>2. TokenIInv /\ [Next]_vars => TokenIInv'
    BY TokenNext
  <1> QED BY <1>1, <1>2, PTL DEF Spec

(* The height in index_heights never passes the tip of the chain, for the  *)
(* token plugins: TypeOK of the harness.                                   *)
THEOREM TokenTypes == ASSUME TokensWired PROVE Spec => []TypeOK
  <1>1. TokenIInv => TypeOK
    <2> SUFFICES ASSUME TokenIInv PROVE TypeOK
      OBVIOUS
    <2>1. \A x : <<x>> # <<>>
      OBVIOUS
    <2>2. pc = "commit" <=> todo # <<>>
      BY <2>1 DEF TokenIInv, TokenShape
    <2> QED BY <2>2 DEF TokenIInv, TokenShape, TypeOK
  <1> QED BY <1>1, TokenInductive, PTL

(* The token tables are those of the chain put block by block, whatever    *)
(* failed and was retried, unless a failed check was taken for an answer;  *)
(* a holder counts once.                                                   *)
THEOREM TokensMatchChain == ASSUME TokensWired PROVE Spec => []TokensExact
  <1>1. TokenIInv => TokensExact
    <2> SUFFICES ASSUME TokenIInv PROVE TokensExact
      OBVIOUS
    <2>1. plugin \in Tokens
      BY FactsToken DEF TokenIInv
    <2>2. plugin # "erc20_meta"
      BY <2>1, TokenSets
    <2>3. ASSUME ~hidden, pc \in {"idle", "put"}, plugin \in Repeats \cup Forgets => Unfailed
          PROVE  Support(db) = Support(want[row])
      <3>1. TokenSure
        BY <2>3 DEF TokenSure
      <3>2. PICK d, e : d = db /\ e = want[row]
        OBVIOUS
      <3>3. Same(plugin, d, e)
        BY <2>3, <3>1, <3>2 DEF TokenIInv, TokenContent
      <3> QED BY <3>2, <3>3, SameSupport
    <2> QED BY <2>2, <2>3 DEF TokensExact
  <1> QED BY <1>1, TokenInductive, PTL
=============================================================================

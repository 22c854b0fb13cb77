---------------------------- MODULE HolderPlugins ----------------------------
(***************************************************************************)
(* The token plugins whose rows depend on the rows before them:            *)
(* plugins/erc1155_721_holder and its second version keep who holds which  *)
(* token, plugins/erc1155_721_meta, its second version and erc20_meta one  *)
(* row per contract.  The value of a log is here the sequence of the       *)
(* <<token, amount>> it moves.                                             *)
(***************************************************************************)
EXTENDS TokenPlugins, ContractPlugins

Own(c, a, id) == <<"own", c, a, id>>
Move(l, std, x) == [std |-> std, c |-> l.c, from |-> l.from, to |-> l.to,
                    id |-> x[1], val |-> x[2]]
Moves(b, i) ==
    LET l == b.c[i]
    IN  CASE l.c[1] = "erc721" /\ l.ev = "transfer" ->
                <<Move(l, "erc721", l.val[1])>>
          [] l.c[1] = "erc1155" /\ l.ev \in {"transferSingle", "transferBatch"} ->
                [j \in DOMAIN l.val |-> Move(l, "erc1155", l.val[j])]
          [] OTHER -> NoRows

Drop(d, ks) == [k \in DOMAIN d \ ks |-> d[k]]
Give(d, k, v) == (k :> (IF k \in DOMAIN d THEN d[k] + v ELSE v)) @@ d

(* plugins/erc1155_721_holder: one transaction per block, a log at a time.  *)
(* A token of erc721 is minted to, burnt for whoever has it, or moved from *)
(* its sender; amounts of erc1155 are added and taken, and the row goes    *)
(* when all of it is taken.                                                *)
HolderStep(d, op) ==
    LET to == Own(op.c, op.to, op.id)
        from == Own(op.c, op.from, op.id)
        take == IF from \notin DOMAIN d THEN d
                ELSE IF d[from] = op.val THEN Drop(d, {from})
                ELSE [d EXCEPT ![from] = @ - op.val]
    IN  CASE op.std = "erc721" /\ op.from = Zero -> (to :> 0) @@ d
          [] op.std = "erc721" /\ op.to = Zero ->
                Drop(d, {k \in DOMAIN d : k[2] = op.c /\ k[4] = op.id})
          [] op.std = "erc721" -> (to :> 0) @@ Drop(d, {from})
          [] op.std = "erc1155" /\ op.from = Zero -> Give(d, to, op.val)
          [] op.std = "erc1155" /\ op.to = Zero -> take
          [] OTHER -> Give(take, to, op.val)

holder_PutBlock(m, b) ==
    LET both == UNION {{[s EXCEPT !.res = IF r.res = "hid" THEN "hid" ELSE @] :
                           s \in isErc(r.mem, "erc1155", Contracts(b))} :
                       r \in isErc(m, "erc721", Contracts(b))}
        kept(x) == {i \in DOMAIN b.c : <<b.c[i].c[1], b.c[i].c>> \in x.yes}
    IN  {[r EXCEPT !.mem.buf = Concat(b, kept(r.mem), Moves)] : r \in both}

holder_commit(m, d, to) ==
    TakeAndCommit(m, <<Become(FoldLeft(HolderStep, d, m.buf))>>, to)

(* plugins/erc1155_721_holder_v2: the operations of the whole batch are     *)
(* applied to a map of the rows they touch (erc1155 only), with what must  *)
(* be deleted by key and by token.  A mint or a transfer takes the token   *)
(* off the second list, the rows of its former holders with it.            *)
applyPositiveDelta(s, k, v) == [s EXCEPT !.rows = Give(@, k, v)]

(* Mutant: a row that is spent is not deleted. *)
applyNegativeDelta_KeepsRow(s, k, v) ==
    IF k \notin DOMAIN s.rows THEN s
    ELSE IF s.rows[k] < v THEN [s EXCEPT !.fails = TRUE]
    ELSE IF s.rows[k] = v THEN [s EXCEPT !.rows = Drop(@, {k})]
    ELSE [s EXCEPT !.rows[k] = @ - v]

applyNegativeDelta(s, k, v) ==
    IF k \notin DOMAIN s.rows THEN s
    ELSE IF s.rows[k] < v THEN [s EXCEPT !.fails = TRUE]
    ELSE IF s.rows[k] = v THEN [s EXCEPT !.rows = Drop(@, {k}), !.byKey = @ \cup {k}]
    ELSE [s EXCEPT !.rows[k] = @ - v]

ApplyOperation(s, op) ==
    LET to == Own(op.c, op.to, op.id)
        from == Own(op.c, op.from, op.id)
        token == <<op.c, op.id>>
        of == {k \in DOMAIN s.rows : k[2] = op.c /\ k[4] = op.id}
    IN  CASE op.std = "erc721" /\ op.from = Zero ->
                [s EXCEPT !.byToken = @ \ {token}, !.rows = (to :> 1) @@ @]
          [] op.std = "erc721" /\ op.to = Zero ->
                [s EXCEPT !.byToken = @ \cup {token}, !.rows = Drop(@, of)]
          [] op.std = "erc721" ->
                [s EXCEPT !.byToken = @ \ {token}, !.byKey = @ \cup {from},
                          !.rows = (to :> 1) @@ Drop(@, {from})]
          [] op.std = "erc1155" /\ op.from = Zero -> applyPositiveDelta(s, to, op.val)
          [] op.std = "erc1155" /\ op.to = Zero -> applyNegativeDelta(s, from, op.val)
          [] OTHER -> applyPositiveDelta(applyNegativeDelta(s, from, op.val), to, op.val)

(* collectTouchedKeys, loadExistingHolderStates: the rows the operations of *)
(* erc1155 name, the zero address never among them.                        *)
loadExistingHolderStates(d, ops) ==
    LET ks == UNION {{Own(op.c, op.from, op.id), Own(op.c, op.to, op.id)} :
                        op \in {x \in Range(ops) : x.std = "erc1155"}}
    IN  [k \in {x \in ks : x \in DOMAIN d /\ x[3] # Zero} |-> d[k]]

applyHolderOperations(d, ops) ==
    LET s == FoldLeft(ApplyOperation,
                      [rows |-> loadExistingHolderStates(d, ops), byKey |-> {},
                       byToken |-> {}, fails |-> FALSE], ops)
        gone == {k \in DOMAIN d : <<k[2], k[4]>> \in s.byToken} \cup s.byKey
    IN  IF s.fails THEN <<Require({<<"balance">>})>>
        ELSE <<Become(s.rows @@ Drop(d, gone))>>

(* Mutant: the operations collected before an error are kept. *)
holder_v2_collect_Keeps(m, b) == PutAsking(m, b, <<"erc721", "erc1155">>, Moves)

holder_v2_collect(m, b) ==
    {IF r.res = "err" THEN Err(Emptied(r.mem)) ELSE r :
        r \in PutAsking(m, b, <<"erc721", "erc1155">>, Moves)}

holder_v2_PutBlocks(m, d, to) ==
    TakeAndCommit(m, applyHolderOperations(d, m.buf), to)

-----------------------------------------------------------------------------
(* plugins/erc1155_721_meta: one row per contract.  A contract is handled   *)
(* when it is in the package map cachedContract or in the table; it enters *)
(* the map when its row is created, before the transaction commits.        *)
MetaRows(b, i) == <<Row(<<"meta", b.c[i].c>>, 1)>>
Handled(m, d, c) == c \in m.cached \/ <<"meta", c>> \in DOMAIN d
Prefix(b, n) == [b EXCEPT !.c = SubSeq(@, 1, n)]

WithMetas(m, d, b, known) ==
    LET new == {c \in Contracts(b) : <<c[1], c>> \in known.yes /\ ~Handled(m, d, c)}
    IN  [known EXCEPT !.buf = m.buf \o Rows({Row(<<"meta", c>>, 1) : c \in new}),
                      !.cached = @ \cup new]

(* The logs at which isSBT is asked, which returns its error. *)
AsksSBT(m, d, b, known) ==
    {i \in DOMAIN b.c : /\ <<b.c[i].c[1], b.c[i].c>> \in known.yes
                        /\ ~Handled(m, d, b.c[i].c)
                        /\ \A j \in 1 .. i - 1 : b.c[j].c # b.c[i].c}

meta_PutBlock(m, d, b) ==
    LET both == UNION {{[s EXCEPT !.res = IF r.res = "hid" THEN "hid" ELSE @] :
                           s \in isErc(r.mem, "erc1155", Contracts(b))} :
                       r \in isErc(m, "erc721", Contracts(b))}
        sbt(i) == WithMetas(m, d, Prefix(b, i - 1), Classified(m, {"erc721", "erc1155"} \X
                                                   Contracts(Prefix(b, i))))
    IN  {[r EXCEPT !.mem = WithMetas(m, d, b, @)] : r \in both}
        \cup {Err(Emptied(sbt(i))) :
                 i \in AsksSBT(m, d, b, Classified(m, {"erc721", "erc1155"} \X Contracts(b)))}

meta_commit(m, to) == TakeAndCommit(m, <<Insert(m.buf)>>, to)

(* plugins/erc1155_721_meta_v2: the same for a batch, with the rows kept    *)
(* in a field that a failed putBlock leaves and commit empties first.      *)
meta_v2_putBlock(m, d, b) ==
    LET asked == PutAsking(m, b, <<"erc721", "erc1155">>, MetaRows)
        whole == CHOOSE r \in asked : r.res = "ok"
        pairs(n) == {"erc721", "erc1155"} \X Contracts(Prefix(b, n))
        sbt(i) == WithMetas(m, d, Prefix(b, i - 1), Classified(m, pairs(i)))
    IN  {[r EXCEPT !.mem = WithMetas(m, d, b, @)] : r \in asked}
        \cup {Err(sbt(i)) : i \in AsksSBT(m, d, b, whole.mem)}

meta_v2_commit(m, to) == TakeAndCommit(m, <<Insert(m.buf)>>, to)

-----------------------------------------------------------------------------
(* plugins/erc20_meta: the contracts of the batch that are not processed,   *)
(* local to the call.                                                      *)
erc20_meta_collectContracts(m, b) ==
    {Ok([m EXCEPT !.buf = @ \o Rows({c \in Contracts(b) : c \notin m.processed})])}

(* The contracts with a row in erc20_holders.  The plugin erc20 has         *)
(* indexed at least the blocks of the batch, and maybe more.               *)
HeldBy(h) == {c \in UNION {Contracts(BlockAt(g)) : g \in 1 .. h} :
                \E g \in 1 .. h : \E i \in DOMAIN chain[g] :
                    chain[g][i].c = c /\ c[1] = "erc20" /\ chain[g][i].ev = "transfer"}

ExistingMetas(d) == {k[2] : k \in {x \in DOMAIN d : x[1] = "meta"}}

(* A contract without a holder is processed for as long as the process     *)
(* lives.  A name the chain did not answer for is stored as empty.         *)
erc20_meta_PutBlocks(m, d, to) ==
    LET cs == Range(m.buf)
        none == Commits(<<Tx(Emptied(m), <<>>, to)>>, Emptied(m))
        old == cs \cap ExistingMetas(d)
        with(held, F) ==
            LET pending == (cs \ old) \cap held
                now == [Emptied(m) EXCEPT !.processed = @ \cup (cs \ pending)]
                rows == Rows({Row(<<"meta", c>>, 1) : c \in pending})
            IN  [Commits(<<Tx(now, <<Serial(rows)>>, to)>>,
                         [now EXCEPT !.processed = @ \cup pending])
                   EXCEPT !.res = IF F THEN "hid" ELSE "ok"]
    IN  IF cs = {} THEN {none}
        ELSE {with(HeldBy(h), F) : h \in to .. MaxHeight, F \in BOOLEAN}

erc20_meta_Start(m, d, h) ==
    LET d0 == AutoMigrate(d, h)
    IN  Started([m EXCEPT !.processed = @ \cup ExistingMetas(d0)], d0, h)

-----------------------------------------------------------------------------
TokenPlugins == {"erc20", "erc20_v2", "erc20_ch", "erc721", "erc721_v2",
    "erc721_v2_ch", "erc1155", "erc1155_v2", "erc1155_721_holder",
    "erc1155_721_holder_v2", "erc1155_721_meta", "erc1155_721_meta_v2",
    "erc20_meta"}

(* Plugins of this family that may repeat rows after a failure: a failed   *)
(* check leaves rows without a key in the buffer (erc721_v2, erc1155_v2), a *)
(* transaction that fails early leaves some of them (erc20_v2).            *)
Repeats == {"erc721_v2", "erc1155_v2", "erc20_v2"}

(* Plugins that may lose rows after a failure: the contract is in the map   *)
(* of handled ones and its row is not in the table.                        *)
Forgets == {"erc1155_721_meta", "erc1155_721_meta_v2"}

Support(d) == [k \in DOMAIN d |-> IF k[1] = "holder" THEN 1 ELSE d[k]]

(* Plugins whose tables are in ClickHouse: no transaction. *)
Sinks == {"erc20_ch", "erc721_v2_ch", "clickhouse", "clickhouse_predelete",
          "clickhouse_v1"}

(* A token that was burnt is minted again later in the chain. *)
Reminted ==
    \E g, h \in Heights : \E i \in DOMAIN chain[g], j \in DOMAIN chain[h] :
        /\ g < h \/ (g = h /\ i < j)
        /\ chain[g][i].c = chain[h][j].c /\ chain[g][i].c[1] = "erc721"
        /\ chain[g][i].to = Zero /\ chain[h][j].from = Zero

(* The token tables are those of the chain put block by block without a    *)
(* failure: neither the batches, nor failed calls, lost answers, unloads   *)
(* or crashes leave a trace, and the maps of contracts the plugins keep    *)
(* never hide one.  The rows of a holder count once.  Excepted are a check *)
(* that was answered wrong because its call failed (hidden), and a batch   *)
(* of erc1155_721_holder_v2 that burns a token and mints it again.         *)
(* erc20_meta may store a contract earlier, yet only once, though its table *)
(* has no key, and with the block of its first log if that is a transfer.  *)
TokensExact ==
    /\ /\ ~hidden
       /\ pc \in {"idle", "put"}
       /\ plugin \in TokenPlugins \ (Sinks \cup {"erc20_meta"})
       /\ plugin \in Repeats \cup Forgets => Unfailed
       /\ plugin = "erc1155_721_holder_v2" => ~Reminted
       => Support(db) = Support(want[row])
    /\ plugin = "erc20_meta" =>
          /\ \A k \in DOMAIN db : db[k] = 1
          /\ \A h \in 1 .. row : \A c \in HeldBy(h) :
                (\A g \in 1 .. h - 1 : c \notin Contracts(BlockAt(g)))
                => <<"meta", c>> \in DOMAIN db

(* The sinks write table after table and then the height.  A reader finds  *)
(* all rows of the indexed blocks at any time, and never one that the      *)
(* chain does not have, however often a batch was put again.               *)
SinksConverge ==
    plugin \in Sinks /\ ~hidden =>
        /\ row > 0 => DOMAIN want[row] \subseteq DOMAIN db
        /\ DOMAIN db \subseteq DOMAIN want[MaxHeight]

(* A token of erc721 has at most one holder, and amounts of erc1155 are    *)
(* neither made nor lost: what is held is what was minted less what was    *)
(* burnt in the indexed blocks.  The amounts of inscribed tokens add up to *)
(* what was minted, unless somebody passes tokens to himself, and one      *)
(* deployment of a token, the first, is verified.                          *)
MovedIn(h, sel(_)) ==
    LET ops == FoldLeft(LAMBDA a, g : IF g <= h THEN a \o Concat(BlockAt(g), DOMAIN chain[g], Moves)
                                      ELSE a, <<>>, [g \in Heights |-> g])
    IN  FoldLeft(LAMBDA s, op : IF op.std = "erc1155" /\ sel(op) THEN s + op.val ELSE s,
                 0, ops)

Inscribed(h, op) ==
    LET as == UNION {{<<g, i>> : i \in DOMAIN chain[g]} : g \in StartHeight .. h}
    IN  {x \in as : chain[x[1]][x[2]].op = op /\ chain[x[1]][x[2]].receipt}
ToOneself == \E x \in Inscribed(row, "transfer") : chain[x[1]][x[2]].from = chain[x[1]][x[2]].to
OfTable(t) == {k \in DOMAIN db : k[1] = t}

Held ==
    /\ plugin \in {"erc1155_721_holder", "erc1155_721_holder_v2"} /\ ~hidden =>
        /\ \A k, l \in DOMAIN db :
              k[2][1] = "erc721" /\ k[2] = l[2] /\ k[4] = l[4] => (k = l \/ Reminted)
        /\ FoldSet(LAMBDA k, s : s + db[k], 0, {k \in DOMAIN db : k[2][1] = "erc1155"})
           = MovedIn(row, LAMBDA op : op.from = Zero) - MovedIn(row, LAMBDA op : op.to = Zero)
    /\ plugin = "inscription" /\ ~hidden =>
        /\ ToOneself \/ FoldSet(LAMBDA k, s : s + db[k], 0, OfTable("inscription_token_holders"))
                        = FoldSet(LAMBDA x, s : s + chain[x[1]][x[2]].amt, 0, Inscribed(row, "mint"))
        /\ \A k, l \in OfTable("inscription_tokens") :
              k[2] = l[2] /\ db[k] /\ db[l] => k = l
=============================================================================

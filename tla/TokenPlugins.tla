----------------------------- MODULE TokenPlugins -----------------------------
(***************************************************************************)
(* The token plugins: plugins/erc20, erc20_v2, erc20_ch, erc721, erc721_v2, *)
(* erc721_v2_ch, erc1155, erc1155_v2, erc1155_721_holder and its second    *)
(* version, erc1155_721_meta and its second version, erc20_meta.           *)
(*                                                                         *)
(* A block is its sequence of logs (the receipts that succeeded).  A log   *)
(* is its contract, <<standard, n>>, its event, sender, recipient and      *)
(* value; Zero is the zero address.  All plugins keep two package maps of  *)
(* the contracts known to follow a standard and known not to, here sets    *)
(* of <<standard, contract>>: fields yes and no.                           *)
(***************************************************************************)
EXTENDS BlockPlugins

Zero == "zero"
Log(c, ev, from, to, val) ==
    [c |-> c, ev |-> ev, from |-> from, to |-> to, val |-> val]
Contracts(b) == {b.c[i].c : i \in DOMAIN b.c}

Follows(pair) == pair[2][1] = pair[1]
Classified(m, pairs) ==
    LET new == pairs \ (m.yes \cup m.no)
    IN  [m EXCEPT !.yes = @ \cup {p \in new : Follows(p)},
                  !.no = @ \cup {p \in new : ~Follows(p)}]

(* isErc20, isErc721, isErc1155 of the first versions: readContract answers *)
(* FALSE for a call that failed, and the contract is put among those that  *)
(* are known not to follow the standard, for as long as the process lives. *)
isErc(m, std, cs) ==
    LET asked == ({std} \X cs) \ (m.yes \cup m.no)
        with(F) == [res |-> IF F = {} THEN "ok" ELSE "hid",
                    mem |-> [Classified(m, asked \ F) EXCEPT !.no = @ \cup F]]
    IN  {with(F) : F \in SUBSET {p \in asked : Follows(p)}}

(* The rows of the logs, in order; rowsOf(b, i) are those of log i. *)
Concat(b, keep, rowsOf(_, _)) ==
    FoldLeft(LAMBDA a, i : IF i \in keep THEN a \o rowsOf(b, i) ELSE a, NoRows,
             [i \in DOMAIN b.c |-> i])

PutSwallowing(m, b, std, rowsOf(_, _)) ==
    {[r EXCEPT !.mem.buf = @ \o Concat(b, {i \in DOMAIN b.c :
                                              <<std, b.c[i].c>> \in r.mem.yes},
                                       rowsOf)] :
        r \in isErc(m, std, Contracts(b))}

(* kernel.CheckInterfaceID returns its error: a plugin that asks it stops  *)
(* at the first log whose contract it does not know, with what the checks  *)
(* before it left.  A log is checked against the standards one by one.     *)
PutAsking(m, b, stds, rowsOf(_, _)) ==
    LET k == Len(stds)
        pair(n) == <<stds[((n - 1) % k) + 1], b.c[((n - 1) \div k) + 1].c>>
        all == 1 .. k * Len(b.c)
        pairs(n) == {pair(j) : j \in 1 .. n}
        kept(n) == {((j - 1) \div k) + 1 : j \in {x \in 1 .. n : Follows(pair(x))}}
        upto(n) == [Classified(m, pairs(n))
                      EXCEPT !.buf = @ \o Concat(b, kept(n), rowsOf)]
        asks(n) == pair(n) \notin m.yes \cup m.no \cup pairs(n - 1)
    IN  {Ok(upto(k * Len(b.c)))} \cup {Err(upto(n - 1)) : n \in {x \in all : asks(x)}}

Fact(t, b, i) == Row(<<t, b.h, i>>, 1)
Holder(b, i, a) == Row(<<"holder", b.c[i].c, a>>, 1)
Distinct(rows) == Rows(Range(rows))

(* Statement t of a plugin that empties its buffers one after the other:    *)
(* what is left of the buffer when it ran, and when it failed.             *)
Without(m, ts) == [m EXCEPT !.buf = SelectSeq(@, LAMBDA r : r.k[1] \notin ts)]

-----------------------------------------------------------------------------
(* plugins/erc20: transfers, approvals and the addresses that ever held.    *)
Erc20Rows(b, i) ==
    LET l == b.c[i]
    IN  CASE l.ev = "transfer" -> <<Fact("transfer", b, i), Holder(b, i, l.from),
                                    Holder(b, i, l.to)>>
          [] l.ev = "approval" -> <<Fact("approval", b, i)>>
          [] l.ev = "deposit" -> <<Fact("transfer", b, i), Holder(b, i, l.to)>>
          [] l.ev = "withdrawal" -> <<Fact("transfer", b, i), Holder(b, i, l.from)>>
          [] OTHER -> NoRows

erc20_putBlock(m, b) == PutSwallowing(m, b, "erc20", Erc20Rows)

(* The holders have no key but the id: DO NOTHING never applies, each       *)
(* batch adds a row for every holder it meets.                             *)
erc20_commit(m, to) ==
    TakeAndCommit(m, <<Serial(From("transfer", m.buf)), Serial(From("approval", m.buf)),
                       Serial(Distinct(From("holder", m.buf)))>>, to)

erc20_v2_putBlock(m, b) == PutSwallowing(m, b, "erc20", Erc20Rows)

(* plugins/erc20_v2 empties each buffer once its statement ran or failed:   *)
(* a transaction that does not begin, or fails at the first tables, leaves *)
(* the rest for the replay to add to.                                      *)
erc20_v2_commit(m, to) ==
    LET stages == <<{}, {"transfer"}, {"transfer", "approval"},
                    {"transfer", "approval", "holder"}>>
        tx == Tx(Emptied(m), <<Serial(From("transfer", m.buf)),
                               Serial(From("approval", m.buf)),
                               Ignore(From("holder", m.buf))>>, to)
    IN  {Commits(<<[tx EXCEPT !.bad = {Without(m, stages[i]) : i \in 1 .. 4}]>>,
                 Emptied(m))}

(* plugins/erc20_ch works on a copy of the plugin: the buffers end with    *)
(* the call.  Three INSERTs and the height, each on its own.               *)
erc20_ch_putBlock(m, b) == PutSwallowing(m, b, "erc20", Erc20Rows)

erc20_ch_commit(m, to) ==
    LET e == Emptied(m)
    IN  {Commits(<<Tx(e, <<Merge(From("transfer", m.buf))>>, NoHeight),
                   Tx(e, <<Merge(From("approval", m.buf))>>, NoHeight),
                   Tx(e, <<Merge(From("holder", m.buf))>>, NoHeight),
                   Tx(e, <<>>, to)>>, e)}

-----------------------------------------------------------------------------
Erc721Rows(b, i) ==
    LET l == b.c[i]
    IN  CASE l.ev = "transfer" -> <<Fact("transfer", b, i), Holder(b, i, l.from),
                                    Holder(b, i, l.to)>>
          [] l.ev = "approval" -> <<Fact("approval", b, i)>>
          [] l.ev = "approvalForAll" -> <<Fact("approvalForAll", b, i)>>
          [] OTHER -> NoRows

(* plugins/erc721: one transaction per block; a holder is looked up before *)
(* it is created.                                                          *)
erc721_PutBlock(m, b) == PutSwallowing(m, b, "erc721", Erc721Rows)

erc721_commit(m, to) ==
    TakeAndCommit(m, <<Serial(From("transfer", m.buf)), Serial(From("approval", m.buf)),
                       Serial(From("approvalForAll", m.buf)),
                       Ignore(From("holder", m.buf))>>, to)

(* plugins/erc721_v2: a batch; the holders have no key again. *)
erc721_v2_putBlock(m, b) == PutAsking(m, b, <<"erc721">>, Erc721Rows)

erc721_v2_commit(m, to) ==
    TakeAndCommit(m, <<Serial(From("transfer", m.buf)), Serial(From("approval", m.buf)),
                       Serial(From("approvalForAll", m.buf)),
                       Serial(Distinct(From("holder", m.buf)))>>, to)

(* plugins/erc721_v2_ch: four INSERTs and the height; a failure leaves the  *)
(* buffers that were not reached.                                          *)
erc721_v2_ch_putBlock(m, b) == PutAsking(m, b, <<"erc721">>, Erc721Rows)

(* Mutant: the height before the last table. *)
erc721_v2_ch_commit_HeightFirst(m, to) ==
    LET ts == <<"transfer", "approval", "holder">>
        done2(n) == Without(m, {ts[j] : j \in 1 .. n})
    IN  {Commits([n \in 1 .. 3 |-> Tx(done2(n), <<Merge(From(ts[n], m.buf))>>, NoHeight)]
                 \o <<Tx(Emptied(m), <<>>, to),
                      Tx(Emptied(m), <<Merge(From("approvalForAll", m.buf))>>, NoHeight)>>,
                 Emptied(m))}

erc721_v2_ch_commit(m, to) ==
    LET ts == <<"transfer", "approval", "holder", "approvalForAll">>
        done2(n) == Without(m, {ts[j] : j \in 1 .. n})
    IN  {Commits([n \in 1 .. 4 |-> Tx(done2(n), <<Merge(From(ts[n], m.buf))>>, NoHeight)]
                 \o <<Tx(Emptied(m), <<>>, to)>>, Emptied(m))}

(* plugins/erc1155 and its second version: four tables without holders. *)
Erc1155Rows(b, i) ==
    IF b.c[i].ev \in {"transferBatch", "transferSingle", "uri", "approvalForAll"}
    THEN <<Fact(b.c[i].ev, b, i)>> ELSE NoRows

erc1155_PutBlock(m, b) == PutSwallowing(m, b, "erc1155", Erc1155Rows)

erc1155_commit(m, to) == TakeAndCommit(m, <<Serial(m.buf)>>, to)

erc1155_v2_putBlock(m, b) == PutAsking(m, b, <<"erc1155">>, Erc1155Rows)

erc1155_v2_commit(m, to) ==
    TakeAndCommit(m, <<Serial(From("transferBatch", m.buf)),
                       Serial(From("transferSingle", m.buf)), Serial(From("uri", m.buf)),
                       Serial(From("approvalForAll", m.buf))>>, to)
=============================================================================

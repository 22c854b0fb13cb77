---------------------------- MODULE ContractPlugins ----------------------------
(***************************************************************************)
(* plugins/account_abstraction, erc1967_proxy and inscription, and the     *)
(* worker gas_burned.                                                      *)
(***************************************************************************)
EXTENDS AccountPlugins

CONSTANT ChunkSize      \* chunkSize of gas_burned

ASSUME ChunkSize \in Nat \ {0}

(* plugins/account_abstraction: the accounts deployed by the entry point.   *)
account_abstraction_putBlock(m, b) ==
    {Ok(Buffer(m, Facts("account_abstraction", b,
                        {i \in Receipts(b) : Acts(b)[i].kind = "deployed"})))}

account_abstraction_commit(m, to) == TakeAndCommit(m, <<Serial(m.buf)>>, to)

account_abstraction_Start(m, d, h) == Started(m, AutoMigrate(d, h), StartAt(h))

(* plugins/erc1967_proxy: the upgrades of proxies.  Whether an address is   *)
(* one is asked of account_meta (a dependency); a lookup that fails, or an *)
(* account that account_meta has passed over, says no.                     *)
erc1967_proxy_putBlock(m, b) ==
    LET upgrades == {i \in Receipts(b) : Acts(b)[i].kind = "upgraded"}
        with(F) == [res |-> IF F = {} THEN "ok" ELSE "hid",
                    mem |-> Buffer(m, Facts("erc1967_proxy", b, upgrades \ F))]
    IN  {with(F) : F \in SUBSET upgrades}

erc1967_proxy_commit(m, to) == TakeAndCommit(m, <<Serial(m.buf)>>, to)

-----------------------------------------------------------------------------
(* plugins/gas_burned adds up the gas fees of block_receipt_transactions,   *)
(* up to the highest block that has a row there when the timer fires.      *)
(* Watermark and sum are one row of the store; the watermark is `row'      *)
(* here.  Each chunk is saved on its own.                                  *)
Burned == <<"burned">>
GasFees(h) == Cardinality({ij \in Logs(BlockAt(h)) : LogAt(BlockAt(h), ij)[2] # Bad})
Highest(h) == FoldLeft(LAMBDA t, g : IF g <= h /\ GasFees(g) > 0 THEN g ELSE t, 0,
                       [g \in Heights |-> g])

gas_burned_track(m, d, watermark, h) ==
    LET target == Highest(h)
        n == (target - watermark + ChunkSize - 1) \div ChunkSize
        to(i) == IF watermark + i * ChunkSize > target THEN target
                 ELSE watermark + i * ChunkSize
        amount(i) == FoldLeft(LAMBDA s, g : IF watermark < g /\ g <= to(i) THEN s + GasFees(g) ELSE s,
                              IF Burned \in DOMAIN d THEN d[Burned] ELSE 0, [g \in Heights |-> g])
        saved(i) == Tx(m, <<Upsert(<<Row(Burned, amount(i))>>)>>, to(i))
    IN  IF target <= watermark THEN {Commits(<<Tx(m, <<>>, watermark)>>, m)}
        ELSE {Commits([i \in 1 .. n |-> saved(i)], m)}

-----------------------------------------------------------------------------
(* plugins/inscription: an action carries a data URI, which makes a new     *)
(* inscription, or the hash of an inscription, which is passed on, or some *)
(* other text.  An inscription is named by its action, <<height, index>>.   *)
Uri(from, to, op, tick, amt) ==
    [kind |-> "uri", from |-> from, to |-> to, op |-> op, tick |-> tick, amt |-> amt,
     hash |-> None, receipt |-> TRUE, logs |-> <<>>]
Hash(from, to, hash) ==
    [kind |-> "hash", from |-> from, to |-> to, op |-> None, tick |-> None, amt |-> 0,
     hash |-> hash, receipt |-> TRUE, logs |-> <<>>]

(* Tables: a row per inscription, and of the others the last row of each    *)
(* key, which is the one that is read.  Lookups find the rows of this      *)
(* block first (s.new), then ask the database, which may fail: the action  *)
(* is skipped then, with what it did before.                               *)
Write(s, k, v) == [s EXCEPT !.d = (k :> v) @@ @, !.new = @ \cup {k}]
Fails(s, i, ks) == i \in s.failing /\ ks \cap s.new = {}
Skip(s) == [s EXCEPT !.failed = TRUE]

HolderOf(x) == <<"inscription_holders", x>>
BalanceOf(a) == <<"inscription_token_holders", a>>

(* The inscription's last holder passes it on. *)
inscription_pass(s, i, a) ==
    LET made == <<"inscriptions", a.hash>>
        k == HolderOf(a.hash)
    IN  CASE Fails(s, i, {made}) -> [s |-> Skip(s), on |-> FALSE]
          [] ~Fails(s, i, {made}) /\ made \notin DOMAIN s.d -> [s |-> s, on |-> FALSE]
          [] OTHER ->
                LET t == Write(s, <<"inscription_transfers", s.h, i>>, a.hash)
                IN  CASE Fails(s, i, {k}) -> [s |-> Skip(t), on |-> FALSE]
                      [] ~Fails(s, i, {k}) /\ s.d[k] # a.from -> [s |-> t, on |-> FALSE]
                      [] OTHER -> [s |-> Write(t, k, a.to), on |-> TRUE]

(* The operation of a token.  A deploy after the first is not verified.  A  *)
(* balance belongs to an address, whatever the tick, and source and        *)
(* recipient of a transfer are read before either is written.              *)
inscription_token(s, i, a) ==
    LET ticks == {k \in DOMAIN s.d : k[1] = "inscription_tokens" /\ k[2] = a.tick}
        to == BalanceOf(a.to)
        from == BalanceOf(a.from)
        held(k) == IF k \in DOMAIN s.d THEN s.d[k] ELSE 0
        logged(t) == Write(t, <<"inscription_token_transfers", s.h, i>>, a.op)
    IN  CASE a.op = "deploy" ->
                IF Fails(s, i, ticks) THEN Skip(s)
                ELSE logged(Write(s, <<"inscription_tokens", a.tick, s.h, i>>, ticks = {}))
          [] a.op = "mint" ->
                IF Fails(s, i, {from}) THEN Skip(s)
                ELSE logged(Write(s, from, held(from) + a.amt))
          [] a.op = "transfer" ->
                IF Fails(s, i, {from}) THEN Skip(s)
                ELSE IF from \notin DOMAIN s.d \/ held(from) < a.amt THEN s
                ELSE IF Fails(s, i, {to}) THEN Skip(s)
                ELSE logged(Write(Write(s, from, held(from) - a.amt), to, held(to) + a.amt))
          [] OTHER -> logged(s)

(* A passed inscription goes on to make a new, empty one as well. *)
inscription_action(s, i, a) ==
    LET raw == Write(s, <<"inscription_raws", s.h, i>>, 1)
        p == IF a.kind = "uri" THEN [s |-> raw, on |-> TRUE] ELSE inscription_pass(raw, i, a)
        id == <<s.h, i>>
    IN  IF ~a.receipt THEN s
        ELSE IF ~p.on THEN p.s
        ELSE inscription_token(Write(Write(p.s, <<"inscriptions", id>>, a.kind), HolderOf(id), a.from),
                               i, a)

inscription_putBlock(m, d, b) ==
    LET end(F) == FoldLeft(LAMBDA s, i : inscription_action(s, i, Acts(b)[i]),
                           [d |-> d, new |-> {}, failing |-> F, failed |-> FALSE, h |-> b.h],
                           [i \in DOMAIN Acts(b) |-> i])
    IN  {[res |-> IF end(F).failed THEN "hid" ELSE "ok", mem |-> [m EXCEPT !.buf = end(F).d]] :
            F \in SUBSET DOMAIN Acts(b)}

inscription_commit(m, to) == TakeAndCommit(m, <<Become(m.buf)>>, to)

inscription_Start(m, d, h) == Started(m, AutoMigrate(d, h), StartAt(h))
=============================================================================

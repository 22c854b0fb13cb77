---------------------------- MODULE SystemStaking ----------------------------
(***************************************************************************)
(* plugins/system_staking_bucket_record, _v2_record and _v3_record: the    *)
(* records of the buckets in the three staking contracts.  Each event of a *)
(* contract adds a row that restates the bucket; the sum of the amounts is *)
(* its balance.  v1 rewrites the weights of what it has at Redsea; v1 and  *)
(* v2 restate the open buckets when the block interval is halved.          *)
(*                                                                         *)
(* Time is counted in new block intervals, 2.5 seconds: a block was two of *)
(* them.  A bucket stored with duration type 0 has days, with type 1 and 2 *)
(* the time itself.  A weight is the tuple of what it is computed from.    *)
(***************************************************************************)
EXTENDS PluginHarness

CONSTANTS RedseaHeight,      \* config.Default.Genesis.RedseaBlockHeight
          HalvingHeight,     \* blockIntervalHalfHeight, muteHeight
          ContractHeight,    \* where v2 and v3 start, v1 one block earlier
          Day

ASSUME SystemAssumption ==
    /\ {RedseaHeight, HalvingHeight, ContractHeight} \subseteq Nat
    /\ ContractHeight >= RedseaHeight - 1 /\ ContractHeight > 0
    /\ HalvingHeight > RedseaHeight
    /\ Day \in Nat \ {0}

T == "system_staking_buckets"
Event(name, b, x, amt, n) == [name |-> name, b |-> b, x |-> x, amt |-> amt, n |-> n]
Id(k) == k[2]
OfBucket(d, b) == {k \in DOMAIN d : k[1] = T /\ d[k].b = b}
NextKey(d) == <<T, 1 + Cardinality({k \in DOMAIN d : k[1] = T})>>
Added(d, r) == Over(d, [k \in {NextKey(d)} |-> r])
SumOf(d, b) == FoldSet(LAMBDA k, s : s + d[k].amt, 0, OfBucket(d, b))
InfoOf(d, b) == d[CHOOSE k \in OfBucket(d, b) : \A l \in OfBucket(d, b) : Id(l) <= Id(k)]

GetVoteWeight(h, duration, amt, auto) ==
    IF h < RedseaHeight THEN <<amt>> ELSE <<amt, duration, auto>>
BlocksToDuration(blocks, half) == IF half THEN blocks ELSE 2 * blocks
DurationByType(duration, type) == IF type = 0 THEN duration \div Day ELSE duration
DurationFromType(n, type) == IF type = 0 THEN n * Day ELSE n

Half(v, h) == v # "v3" /\ h >= HalvingHeight
Mutes(v, h, info) == v = "v2" /\ (h >= HalvingHeight \/ info.muted)
Lasting(v, h, n) == IF v = "v3" THEN n ELSE BlocksToDuration(n, Half(v, h))

(* The bucket's last row again, with the changes of the event. *)
Restated(d, h, e, b, changes) ==
    Added(d, Over(changes, Over([h |-> h, amt |-> 0], InfoOf(d, b))))

(* A bucket that has so much staked, for that long, after the event. *)
Weighed(v, d, h, b, staked, duration, auto, type) ==
    [staked |-> staked, auto |-> auto, dur |-> DurationByType(duration, type),
     type |-> type, vp |-> GetVoteWeight(h, duration, staked, auto),
     muted |-> Mutes(v, h, InfoOf(d, b))]

Closed(d, b) == [staked |-> 0, vp |-> <<0>>, amt |-> -SumOf(d, b)]

Staked(v, d, h, e) ==
    LET type == IF v = "v3" THEN 2 ELSE InfoOf(d, e.b).type
        staked == SumOf(d, e.b) + e.amt
    IN  Restated(d, h, e, e.b, Over([amt |-> e.amt, cand |-> e.x],
                     Weighed(v, d, h, e.b, staked, Lasting(v, h, e.n), TRUE, type)))

(* A mint opens the bucket, its Staked follows in the same receipt.        *)
Transfer(v, d, h, e) ==
    IF OfBucket(d, e.b) # {} THEN Restated(d, h, e, e.b, [owner |-> e.x])
    ELSE Added(d, [b |-> e.b, h |-> h, owner |-> e.x, cand |-> "", staked |-> 0,
                    amt |-> 0, vp |-> <<0>>, auto |-> FALSE, dur |-> 0,
                    muted |-> v = "v2" /\ Half(v, h),
                    type |-> IF v = "v3" THEN 2 ELSE IF Half(v, h) THEN 1 ELSE 0])

Unstaked(v, d, h, e) == Restated(d, h, e, e.b, Closed(d, e.b))

Locked(v, d, h, e) ==
    Restated(d, h, e, e.b, Weighed(v, d, h, e.b, SumOf(d, e.b), Lasting(v, h, e.n), TRUE,
                                   InfoOf(d, e.b).type))

Unlocked(v, d, h, e) ==
    LET info == InfoOf(d, e.b)
    IN  Restated(d, h, e, e.b, Over([muted |-> info.muted],
            Weighed(v, d, h, e.b, SumOf(d, e.b), DurationFromType(info.dur, info.type),
                    FALSE, info.type)))

(* e.b and the buckets e.x become one. *)
Merged(v, d, h, e) ==
    LET gone == FoldSet(LAMBDA b, t : Restated(t, h, e, b,
                            Over([muted |-> Mutes(v, h, InfoOf(t, b))], Closed(t, b))), d, e.x)
    IN  Restated(gone, h, e, e.b, Over([amt |-> e.amt - SumOf(gone, e.b)],
            Weighed(v, gone, h, e.b, e.amt, Lasting(v, h, e.n), TRUE,
                    InfoOf(gone, e.b).type)))

BucketExpanded(v, d, h, e) ==
    Restated(d, h, e, e.b, Over([amt |-> e.amt - SumOf(d, e.b)],
        Weighed(v, d, h, e.b, e.amt, Lasting(v, h, e.n), TRUE, InfoOf(d, e.b).type)))

DelegateChanged(v, d, h, e) == Restated(d, h, e, e.b, [cand |-> e.x])

Withdrawal(v, d, h, e) ==
    Restated(d, h, e, e.b, [staked |-> 0, vp |-> <<0>>, auto |-> FALSE, dur |-> 0])

Donated(v, d, h, e) ==
    LET info == InfoOf(d, e.b)
    IN  Restated(d, h, e, e.b, Over([amt |-> -e.amt],
            Weighed(v, d, h, e.b, SumOf(d, e.b) - e.amt,
                    DurationFromType(info.dur, info.type), info.auto, info.type)))

(* The events in the three parts in which the handlers have them. *)
Holding(v, d, h, e) ==
    CASE e.name = "Staked" -> Staked(v, d, h, e)
      [] e.name = "Transfer" -> Transfer(v, d, h, e)
      [] e.name = "Unstaked" -> Unstaked(v, d, h, e)
Locking(v, d, h, e) ==
    CASE e.name = "Locked" -> Locked(v, d, h, e)
      [] e.name = "Unlocked" -> Unlocked(v, d, h, e)
      [] e.name = "Merged" -> Merged(v, d, h, e)
Changing(v, d, h, e) ==
    CASE e.name = "BucketExpanded" -> BucketExpanded(v, d, h, e)
      [] e.name = "DelegateChanged" -> DelegateChanged(v, d, h, e)
      [] e.name = "Withdrawal" -> Withdrawal(v, d, h, e)
      [] e.name = "Donated" -> Donated(v, d, h, e)

record_holding(d, h, e) == Holding("v1", d, h, e)
record_locking(d, h, e) == Locking("v1", d, h, e)
record_changing(d, h, e) == Changing("v1", d, h, e)
v2_record_holding(d, h, e) == Holding("v2", d, h, e)
v2_record_locking(d, h, e) == Locking("v2", d, h, e)
v2_record_changing(d, h, e) == Changing("v2", d, h, e)
v3_record_event(d, h, e) ==
    CASE e.name \in {"Staked", "Transfer", "Unstaked"} -> Holding("v3", d, h, e)
      [] e.name \in {"Locked", "Unlocked", "Merged"} -> Locking("v3", d, h, e)
      [] OTHER -> Changing("v3", d, h, e)

(* Every bucket with something staked is restated in the new intervals; the *)
(* copy has no amount.                                                     *)
Reviser(d, h, carry) ==
    LET open == {b \in {d[k].b : k \in {l \in DOMAIN d : l[1] = T}} :
                    LET i == InfoOf(d, b) IN i.staked # 0 /\ i.dur # 0 /\ i.type = 0}
        copy(b, t) ==
            LET i == InfoOf(d, b)
                duration == DurationFromType(i.dur, i.type) \div 2
            IN  Added(t, Over([h |-> h, amt |-> IF carry THEN i.amt ELSE 0, type |-> 1,
                               dur |-> DurationByType(duration, 1),
                               vp |-> GetVoteWeight(h, duration, i.staked, i.auto)], i))
    IN  FoldSet(copy, d, open)
record_revise(d, h) == Reviser(d, h, FALSE)
(* Mutant: the copy repeats the last amount. *)
v2_record_revise_WithAmount(d, h) == Reviser(d, h, TRUE)

v2_record_revise(d, h) == Reviser(d, h, FALSE)

Events(b, handle(_, _, _), d) == FoldLeft(LAMBDA t, e : handle(t, b.h, e), d, b.c)
OneBlock(m, d, new, to) == {Commits(<<Tx(m, <<Become(new)>>, to)>>, m)}
NowAt(m, b) == {Ok([m EXCEPT !.b = b])}

v2_record_PutBlock(m, d, to) ==
    LET handle(t, h, e) ==
            CASE e.name \in {"Staked", "Transfer", "Unstaked"} -> v2_record_holding(t, h, e)
              [] e.name \in {"Locked", "Unlocked", "Merged"} -> v2_record_locking(t, h, e)
              [] OTHER -> v2_record_changing(t, h, e)
        revised == IF to = HalvingHeight THEN v2_record_revise(d, to) ELSE d
    IN  OneBlock(m, d, Events(m.b, handle, revised), to)

v3_record_PutBlock(m, d, to) == OneBlock(m, d, Events(m.b, v3_record_event, d), to)

(* v1 brings the weights of its rows up to Redsea, notes that it has done  *)
(* so, and goes on: three transactions.  The error of the first is dropped *)
(* and the note made all the same.                                         *)
Fixed == <<"store", "system_staking_bucket_record_increment_update">>
fixingData(d) ==
    [k \in DOMAIN d |->
        IF k[1] # T \/ d[k].staked = 0 THEN d[k]
        ELSE [d[k] EXCEPT !.vp = GetVoteWeight(RedseaHeight,
                  DurationFromType(d[k].dur, d[k].type), d[k].staked, d[k].auto)]]

record_PutBlock(m, d, to) ==
    LET handle(t, h, e) ==
            CASE e.name \in {"Staked", "Transfer", "Unstaked"} -> record_holding(t, h, e)
              [] e.name \in {"Locked", "Unlocked", "Merged"} -> record_locking(t, h, e)
              [] OTHER -> record_changing(t, h, e)
        due == to >= RedseaHeight /\ Fixed \notin DOMAIN d
        block(d0) == Tx(m, <<Become(Events(m.b, handle,
                         IF to = HalvingHeight THEN record_revise(d0, to) ELSE d0))>>, to)
        note == Tx(m, <<Insert(<<Row(Fixed, 1)>>)>>, NoHeight)
        fix == Tx(m, <<Become(fixingData(d))>>, NoHeight)
        noted(d0) == Over(d0, [k \in {Fixed} |-> 1])
        befores == IF ~due THEN {[res |-> "ok", txs |-> <<>>, d |-> d]}
                   ELSE {[res |-> "ok", txs |-> <<fix, note>>, d |-> noted(fixingData(d))],
                         [res |-> "hid", txs |-> <<note>>, d |-> noted(d)]}
    IN  {[Commits(x.txs \o <<block(x.d)>>, m) EXCEPT !.res = x.res] : x \in befores}

(* At height 0 the tables are made and the blocks before the contract      *)
(* passed over.                                                            *)
record_Start(m, d, h) ==
    Started(m, AutoMigrate(d, h), IF h = 0 THEN ContractHeight - 1 ELSE h)
v2_record_Start(m, d, h) ==
    Started(m, AutoMigrate(d, h), IF h = 0 THEN ContractHeight ELSE h)
v3_record_Start(m, d, h) ==
    Started(m, AutoMigrate(d, h), IF h = 0 THEN ContractHeight ELSE h)

-----------------------------------------------------------------------------
(* External: the staking contracts.  A bucket is its owner, delegate,      *)
(* stake, lock and duration in blocks, v3: in time; it is open until it is *)
(* unstaked or merged.                                                     *)
Contract(bs, e) ==
    LET b == e.b
        with(changes) == Over([c \in {b} |-> Over(changes, bs[b])], bs)
    IN  CASE e.name = "Transfer" /\ b \notin DOMAIN bs ->
                Over(bs, [c \in {b} |-> [owner |-> e.x, cand |-> "", amt |-> 0,
                                         auto |-> FALSE, n |-> 0, open |-> TRUE]])
          [] e.name = "Transfer" /\ b \in DOMAIN bs -> with([owner |-> e.x])
          [] e.name = "Staked" ->
                with([cand |-> e.x, amt |-> bs[b].amt + e.amt, auto |-> TRUE, n |-> e.n])
          [] e.name = "Locked" -> with([auto |-> TRUE, n |-> e.n])
          [] e.name = "Unlocked" -> with([auto |-> FALSE])
          [] e.name \in {"Unstaked", "Withdrawal"} -> with([open |-> FALSE, amt |-> 0])
          [] e.name = "Merged" ->
                [c \in DOMAIN bs |->
                    IF c = b THEN [bs[b] EXCEPT !.amt = e.amt, !.n = e.n, !.auto = TRUE]
                    ELSE IF c \in e.x THEN [bs[c] EXCEPT !.open = FALSE, !.amt = 0]
                    ELSE bs[c]]
          [] e.name = "BucketExpanded" -> with([amt |-> e.amt, n |-> e.n, auto |-> TRUE])
          [] e.name = "DelegateChanged" -> with([cand |-> e.x])
          [] e.name = "Donated" -> with([amt |-> bs[b].amt - e.amt])

ContractAt(ch, h) ==
    FoldLeft(LAMBDA bs, i : FoldLeft(Contract, bs, ch[i]), EmptyTables,
             [i \in 1 .. h |-> i])

SystemPlugins == {"system_staking_bucket_record", "system_staking_bucket_v2_record",
                  "system_staking_bucket_v3_record"}
Version == CASE plugin = "system_staking_bucket_record" -> "v1"
             [] plugin = "system_staking_bucket_v2_record" -> "v2"
             [] OTHER -> "v3"

(* The last row of an open bucket is the bucket: owner, delegate, lock,    *)
(* the time its blocks take at this height, through the change of unit at  *)
(* the halving, and the weight of all that once Redsea is there, unless    *)
(* the fix of the old rows failed and was passed over.  And for any bucket *)
(* "amount is a delta and sum(amount) is the bucket's balance", as revise  *)
(* has it: the rows add up to what the contract holds, and the last row    *)
(* says the same.                                                          *)
MatchesContract ==
    plugin \in SystemPlugins =>
        LET bs == ContractAt(chain, row)
            duration(b) == Lasting(Version, row, bs[b].n)
        IN  /\ \A b \in DOMAIN bs :
                   SumOf(db, b) = bs[b].amt /\ InfoOf(db, b).staked = bs[b].amt
            /\ \A b \in {c \in DOMAIN bs : bs[c].open} :
                   LET i == InfoOf(db, b)
                   IN  /\ i.owner = bs[b].owner /\ i.cand = bs[b].cand
                       /\ i.auto = bs[b].auto
                       /\ DurationFromType(i.dur, i.type) = duration(b)
                       /\ \/ \E h \in {row, row + 1} :
                                 i.vp = GetVoteWeight(h, duration(b), bs[b].amt, bs[b].auto)
                          \/ hidden
=============================================================================

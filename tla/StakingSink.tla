----------------------------- MODULE StakingSink -----------------------------
(***************************************************************************)
(* plugins/staking_actions_ch: the rows of staking_actions in ClickHouse,  *)
(* computed from an LRU cache of bucket states and from what the batch     *)
(* added to them so far, instead of queries inside a transaction.          *)
(*                                                                         *)
(* Fields: batch (blocks of the call), buf (stakingActions), pend          *)
(* (pendingBucketInfo) and lru (bucketStateCache, most recent first).      *)
(***************************************************************************)
EXTENDS NativeStaking

NoInfo == [owner |-> "", cand |-> "", dur |-> 0]
Info(r) == [owner |-> r.owner, cand |-> r.cand, dur |-> r.dur]
NoState == [info |-> NoInfo, total |-> 0, non |-> 0, unst |-> 0]
NoPending == [latest |-> <<>>, positive |-> <<>>, total |-> 0, non |-> 0, unst |-> 0]
SinkFresh == [batch |-> <<>>, buf |-> <<>>, pend |-> <<>>, lru |-> <<>>]

(* The cache holds CacheSize buckets; what is read or set goes to its      *)
(* front, its last entry is dropped.                                       *)
Cached(lru, b) == \E i \in DOMAIN lru : lru[i].b = b
Others(lru, b) == SelectSeq(lru, LAMBDA e : e.b # b)
At(lru, b) == CHOOSE i \in DOMAIN lru : lru[i].b = b
Get(lru, b) == IF Cached(lru, b) THEN lru[At(lru, b)].st ELSE NoState
Touch(lru, b) == IF Cached(lru, b) THEN <<lru[At(lru, b)]>> \o Others(lru, b) ELSE lru
Set(lru, b, st) ==
    LET new == <<[b |-> b, st |-> st]>> \o Others(lru, b)
    IN  IF Len(new) > CacheSize THEN SubSeq(new, 1, CacheSize) ELSE new

(* The state of a bucket in the table: its sums, and owner, candidate and  *)
(* duration of its last row that put something in.                         *)
StateRow(d, b) ==
    LET rows == {k[2] : k \in {k \in DOMAIN d : k[1] = "ch" /\ k[2].b = b}}
        sum(S) == FoldSet(LAMBDA r, s : s + r.amt, 0, S)
        stays == {r \in rows : r.type # "Unstake"}
        positive == {r \in rows : r.amt > 0}
        last_ == CHOOSE r \in positive : \A q \in positive :
                     q.h < r.h \/ (q.h = r.h /\ q.index <= r.index)
    IN  [info |-> IF positive = {} THEN NoInfo ELSE Info(last_),
         total |-> sum(rows), non |-> sum(stays), unst |-> Cardinality(rows \ stays)]

collectBucketIDs(batch) ==
    LET names == {"TransferStake", "Restake", "ChangeCandidate", "DepositToStake", "Unstake"}
        all == FoldLeft(LAMBDA a, b : a \o SelectSeq(b.c, LAMBDA r : r.kind \in names),
                        <<>>, batch)
    IN  FoldLeft(LAMBDA a, r : IF Contains(a, r.b) THEN a ELSE Append(a, r.b), <<>>, all)

(* The buckets that are cached first, then the ones that are read. *)
preloadBucketStates(m, d, bs) ==
    LET missing == SelectSeq(bs, LAMBDA b : ~Cached(m.lru, b))
        touched == FoldLeft(Touch, m.lru, bs)
    IN  [m EXCEPT !.lru =
            FoldLeft(LAMBDA l, b : Set(l, b, StateRow(d, b)), touched, missing)]

Pending(m, b) == IF b \in DOMAIN m.pend THEN m.pend[b] ELSE NoPending
SumFromCache(m, b) == Get(m.lru, b).total + Pending(m, b).total
FixFromCache(m, b) ==
    IF Get(m.lru, b).unst + Pending(m, b).unst = 0 THEN 0
    ELSE Get(m.lru, b).non + Pending(m, b).non
InfoFromCache(m, b) ==
    IF Pending(m, b).latest # <<>> THEN Pending(m, b).latest[1] ELSE Get(m.lru, b).info

recordPendingStakingAction(m, r) ==
    LET p == Pending(m, r.b)
        unstake == r.type = "Unstake"
        new == [latest |-> <<Info(r)>>,
                positive |-> IF r.amt > 0 THEN <<Info(r)>> ELSE p.positive,
                total |-> p.total + r.amt,
                non |-> IF unstake THEN p.non ELSE p.non + r.amt,
                unst |-> IF unstake THEN p.unst + 1 ELSE p.unst]
    IN  [m EXCEPT !.pend = (r.b :> new) @@ @]

appendStakingActions(m, r) ==
    recordPendingStakingAction([m EXCEPT !.buf = Append(@, Row(<<"ch", r>>, 1))], r)

(* The rows of one receipt, from fields that have the state of its bucket. *)
(* The row that takes an amount away is there before the one that puts it. *)
Acted(m, h, i, r, b) ==
    LET sum == SumFromCache(m, b)
        as(n, changes) ==
            appendStakingActions(n, changes @@ [h |-> h, index |-> i, b |-> b,
                                                type |-> r.kind] @@ InfoFromCache(n, b))
    IN  CASE r.kind = "StakeCreate" ->
                as(m, [owner |-> r.who, cand |-> r.x, dur |-> 1, amt |-> r.amt])
          [] r.kind = "TransferStake" -> as(as(m, [amt |-> -sum]), [owner |-> r.x, amt |-> sum])
          [] r.kind = "Restake" ->
                as(m, [owner |-> r.who, dur |-> r.x,
                       amt |-> IF h < GreenlandHeight THEN FixFromCache(m, b) ELSE 0])
          [] r.kind = "ChangeCandidate" ->
                as(as(m, [amt |-> -sum]), [cand |-> r.x, amt |-> sum])
          [] r.kind = "DepositToStake" -> as(m, [amt |-> r.amt])
          [] r.kind = "Unstake" -> as(m, [owner |-> r.who, amt |-> -sum])
          [] r.kind = "CandidateRegister" /\ b # NoBucket ->
                as(m, [owner |-> r.x, cand |-> r.x, dur |-> 1, amt |-> r.amt])
          [] OTHER -> m

(* One receipt: a bucket the action is about is read if it is not cached.  *)
sink_receipt(m, d, h, i, r) ==
    LET sums == r.kind \in {"TransferStake", "ChangeCandidate", "Unstake"}
                \/ (r.kind = "Restake" /\ h < GreenlandHeight)
        asks == r.kind \in {"Restake", "DepositToStake"} /\ Pending(m, r.b).latest = <<>>
        b == IF r.kind \in {"StakeCreate", "CandidateRegister"}
             THEN BucketIndex(r.logs)[1] ELSE r.b
    IN  Acted(IF sums \/ asks THEN preloadBucketStates(m, d, <<r.b>>) ELSE m, h, i, r, b)

(* A name that cannot be looked up fails the batch: rows and pending       *)
(* changes stay as they are, also the first half of a change of candidate. *)
sink_failed(m, d, h, i, r) ==
    IF r.kind = "ChangeCandidate"
    THEN LET n == preloadBucketStates(m, d, <<r.b>>)
         IN  appendStakingActions(n, [h |-> h, index |-> i, b |-> r.b, type |-> r.kind,
                                      amt |-> -SumFromCache(n, r.b)] @@ InfoFromCache(n, r.b))
    ELSE m

sink_putBlocks(m0, d) ==
    LET m == preloadBucketStates([m0 EXCEPT !.batch = <<>>], d, collectBucketIDs(m0.batch))
        receipt(s, h, i, r) ==
            [m |-> IF r.ok THEN sink_receipt(s.m, d, h, i, r) ELSE s.m,
             errs |-> s.errs \cup IF r.ok /\ r.kind \in {"StakeCreate", "ChangeCandidate"}
                                  THEN {sink_failed(s.m, d, h, i, r)} ELSE {}]
        block(s, b) == FoldLeft(LAMBDA x, i : receipt(x, b.h, i, b.c[i]), s,
                                [i \in DOMAIN b.c |-> i])
    IN  FoldLeft(block, [m |-> m, errs |-> {}], m0.batch)

(* Mutant: the cache is left as it was. *)
applyPendingBucketStates_Nothing(m) == m

applyPendingBucketStates(m) ==
    LET apply(b, l) ==
            LET st == Get(l, b)
                p == m.pend[b]
            IN  Set(Touch(l, b), b,
                    [info |-> IF p.positive = <<>> THEN st.info ELSE p.positive[1],
                     total |-> st.total + p.total, non |-> st.non + p.non,
                     unst |-> st.unst + p.unst])
    IN  [m EXCEPT !.lru = FoldSet(apply, @, DOMAIN m.pend)]

(* Rows first, then the height by itself.  A failed insert drops rows and  *)
(* pending changes, also when the rows are in the table.                   *)
sink_commit(m, to) ==
    LET cleared(n) == [n EXCEPT !.buf = <<>>, !.pend = <<>>]
        after == cleared(applyPendingBucketStates(m))
        insert == [Tx(cleared(m), <<Merge(m.buf)>>, NoHeight) EXCEPT !.sent = cleared(m)]
        height == Tx(after, <<>>, to)
    IN  IF m.buf = <<>> THEN Commits(<<Tx(m, <<>>, to)>>, m)
        ELSE Commits(<<insert, height>>, after)

Attempts(m, s, to) ==
    {sink_commit(s.m, to), Refused([m EXCEPT !.batch = <<>>])}
    \cup {Refused(e) : e \in s.errs}

staking_actions_ch_PutBlocks(m, d, to) == Attempts(m, sink_putBlocks(m, d), to)

(* Start makes a new cache and forgets what is pending, not the rows. *)
staking_actions_ch_Start(m, d, h) ==
    Started([SinkFresh EXCEPT !.buf = m.buf], d, h)

(* The rows do not depend on how the chain is cut into batches:            *)
(* plugins/staking_actions_ch/staking_action_test.go:201 says so.          *)
PutBlocksMatchesSequential ==
    plugin = "staking_actions_ch" /\ Unfailed /\ pc = "idle" => db = want[row]
=============================================================================

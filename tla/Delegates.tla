------------------------------ MODULE Delegates ------------------------------
(***************************************************************************)
(* The workers plugins/delegate and delegate_record, which a timer calls:   *)
(* they add up, for the height that staking_actions has reached, what is   *)
(* staked for every candidate in the native buckets and in the contracts   *)
(* of SystemStaking.                                                       *)
(*                                                                         *)
(* A worker reads the tables of plugins that index on their own.  What     *)
(* such a table holds is computed from the chain, kept in field ch, and    *)
(* the height it has reached, which is any.  A block has its receipts and  *)
(* the events of the three contracts.                                      *)
(*                                                                         *)
(* Of the contracts the workers read system_staking_buckets, ..._v2 and    *)
(* ..._v3_record.  Only the last is written here; who fills the first two  *)
(* is not in the repository, and they are not the tables of the plugins    *)
(* whose heights delegate asks for (models/staking_bucket.go).             *)
(***************************************************************************)
EXTENDS CandidatePlugins, SystemStaking

Versions == {"v1", "v2", "v3"}
Elsewhere == {"v1", "v2"}       \* whose tables are filled elsewhere
Gone == "gone"      \* the zero address
StakeBlock(native, v1, v2, v3) == [native |-> native, v1 |-> v1, v2 |-> v2, v3 |-> v3]
Natives(ch) == [h \in DOMAIN ch |-> ch[h].native]

(* The rows of another plugin at the height it has reached. *)
TableAt(ch, h, handle(_, _, _)) ==
    FoldLeft(LAMBDA d, i : FoldLeft(LAMBDA t, r : handle(t, i, r), d, Natives(ch)[i]),
             EmptyTables, [i \in 1 .. h |-> i])
BucketsAt(ch, v, h) == ContractAt([i \in DOMAIN ch |-> ch[i][v]], h)

(* External: how far the tables of the first two contracts are filled: not *)
(* at all, all but the last block, or up to the height.  Nothing relates   *)
(* them to each other; one height for both says enough.                    *)
FilledElsewhere(h) == {[v \in Elsewhere |-> i] : i \in {0, h - 1, h}}

(* External: the list of the candidates with a self stake at the start of  *)
(* an epoch, which candidatelist stores under the epoch.                   *)
GetAllStakingCandidates(ch, epoch) ==
    LET cs == StandingAt(Natives(ch), EpochHeight(epoch))
    IN  {cs[x].op : x \in {y \in DOMAIN cs : cs[y].b # NoBucket}}

-----------------------------------------------------------------------------
GetAllCandidates(ch, h) ==
    LET d == TableAt(ch, h, candidate_handleAction)
        ids == {d[k].cand : k \in RowsOf(d, CD)}
    IN  [x \in ids |-> FetchByCandidateIDWithHeight(d, x, h)]

(* makeMaxIDTempTable and getCandidateStaking: the last row of each bucket. *)
StakingActionsAt(ch, h) == TableAt(ch, h, staking_actions_handleBlock)
getCandidateStaking(d) ==
    [b \in {d[k].b : k \in RowsOf(d, SA)} |-> getBucketInfoAddressByBucketID(d, SA, b)]
getBucketSumAmount(d, b) == getBucketSumAmountByBucketID(d, SA, b)

SelfStakesAt(ch, h) == TableAt(ch, h, self_stake_handleAction)
isSelfStake(d, x, h) ==
    LET mine == FetchSelfStake(d, x, h)
    IN  mine # {} /\ Latest(d, mine).b # NoBucket

Total(bs, B) == FoldSet(LAMBDA b, s : s + bs[b].amt, 0, B)

(* The last row of each bucket counts for the delegate it names. *)
addSystemStakings(ch, v, h, x) ==
    LET bs == BucketsAt(ch, v, h) IN Total(bs, {b \in DOMAIN bs : bs[b].cand = x})

(* One entry for each candidate, from the rows actions of staking_actions   *)
(* and selfs of candidate_self_stake; staked[x] is what the contracts add. *)
Report(h, cands, actions, selfs, staked) ==
    LET stakings == getCandidateStaking(actions)
        of(x) == {b \in DOMAIN stakings : stakings[b].cand = x}
        native(x) == FoldSet(LAMBDA b, s : s + getBucketSumAmount(actions, b), 0, of(x))
    IN  [x \in DOMAIN cands |->
            [owner |-> cands[x].owner, op |-> cands[x].op, cand |-> x, h |-> h,
             amt |-> native(x) + staked[x], self |-> of(x) # {} /\ isSelfStake(selfs, x, h)]]

(* A bucket for somebody who is not in the table of candidates is an error. *)
Unknown(stakings, cands) ==
    \E b \in DOMAIN stakings : stakings[b].cand \notin DOMAIN cands

(* Mutant: the third contract's plugin may be behind. *)
firstBehind_NotV3(H, h) == {v \in {"v1", "v2"} : H[v] < h}

(* The plugins that have not reached the height. *)
firstBehind(H, h) == {v \in Versions : H[v] < h}

(* Without the table of the third version there is nothing to wait for. *)
hasSystemStakingV3(ch) == \E h \in DOMAIN ch : ch[h].v3 # <<>>

(* Who is not in the list of candidates of the epoch is blanked. *)
Blanked(report, listed) ==
    [x \in DOMAIN report |->
        IF report[x].op \in listed THEN report[x]
        ELSE [report[x] EXCEPT !.amt = 0, !.self = FALSE]]

getDelegateMap(ch, h, cands, H) ==
    LET read == IF hasSystemStakingV3(ch) THEN Versions ELSE Elsewhere
        staked == [x \in DOMAIN cands |->
                      FoldSet(LAMBDA v, s : s + addSystemStakings(ch, v, H[v], x), 0, read)]
    IN  Blanked(Report(h, cands, StakingActionsAt(ch, h), SelfStakesAt(ch, h), staked),
                GetAllStakingCandidates(ch, EpochNum(h)))

(* Without an entry the run ends before it deletes or writes anything. *)
Reported(m, report) == IF report = {} THEN Err(m) ELSE Ok([m EXCEPT !.report = report])

(* The heights G of the plugins are the committed ones; one that is behind *)
(* is so by a block.  The third table is read at its plugin's height, the  *)
(* others as far as they are filled, F.  Only the candidates are read as   *)
(* they are now.  A run that is behind, or fails to read, is left to the   *)
(* next tick.                                                              *)
delegate_delegate(m, h) ==
    LET stakings == getCandidateStaking(StakingActionsAt(m.ch, h))
        named == {GetAllCandidates(m.ch, i) : i \in 0 .. Len(m.ch)}
        gated == {G \in [Versions -> h - 1 .. h] : firstBehind(G, h) = {}}
    IN  {Reported(m, Range(getDelegateMap(m.ch, h, cands, F @@ G))) :
            G \in gated, F \in FilledElsewhere(h),
            cands \in {c \in named : ~Unknown(stakings, c)}}
        \cup {Err(m)}

(* The rows of owners who are gone are deleted first, on their own. *)
delegate_commit(m, d, to) ==
    LET key(r) == <<"delegate", r.owner>>
        gone == {k \in RowsOf(d, "delegate") : \A r \in m.report : key(r) # k}
        after == [m EXCEPT !.report = {}]
        upsert == Tx(after, <<Upsert(Rows({Row(key(r), r) : r \in m.report}))>>, to)
    IN  {Commits((IF gone = {} THEN <<>> ELSE <<Tx(after, <<Delete(gone)>>, NoHeight)>>)
                 \o <<upsert>>, after)}

(* plugins/delegate_record keeps the rows of all ticks.  It goes by the     *)
(* cached height and asks only candidate_self_stake: what it reads of      *)
(* staking_actions may end before that.  It does not read the third table. *)
record_delegate(m, h) ==
    LET cands == GetAllCandidates(m.ch, h)
        staked(F) == [x \in DOMAIN cands |-> addSystemStakings(m.ch, "v1", F["v1"], x)
                                              + addSystemStakings(m.ch, "v2", F["v2"], x)]
        of(s, F) == Report(s, cands, StakingActionsAt(m.ch, s), SelfStakesAt(m.ch, s), staked(F))
        outcome(s, F) ==
            LET o == Reported(m, {[r EXCEPT !.h = h] : r \in Range(of(s, F))})
            IN  IF s # h /\ o.res = "ok" THEN Hid(o.mem) ELSE o
    IN  {Err(m)} \cup {outcome(s, F) : s \in h - 1 .. h, F \in FilledElsewhere(h)}

record_commit(m, d, to) ==
    LET after == [m EXCEPT !.report = {}]
        t == "delegate_record"
        rows == FoldSet(LAMBDA r, x : Create(x, t, r), d, m.report)
    IN  {Commits(<<Tx(after, <<Become(rows)>>, to)>>, after)}

worker_Start(m, d, h, ch) == Started([m EXCEPT !.ch = ch], AutoMigrate(d, h), h)

-----------------------------------------------------------------------------
(* External: what is staked for a candidate after block h, in native       *)
(* buckets and in those of a contract.                                     *)
StakedFor(ch, h, x) ==
    LET bs == ProtocolAt(Natives(ch), h) IN Total(bs, {b \in StakedIn(bs) : bs[b].cand = x})
HeldFor(ch, v, h, x) ==
    LET bs == BucketsAt(ch, v, h) IN Total(bs, {b \in DOMAIN bs : bs[b].cand = x})

(* "Read one table past that tx and the other before it, and the stake     *)
(* counts twice, or not at all", plugins/delegate/util.go:54: every row    *)
(* has what was staked at its height for the candidate in native buckets   *)
(* and in the third contract, unless it was blanked for an operator who is *)
(* not in the list of the epoch, and a candidate has one row, also when    *)
(* the owner changed.  Of the first two contracts it has what their tables *)
(* had, which the gate on heights does not protect.  delegate_record does  *)
(* the same without the third one when it read all of staking_actions.     *)
StakeCounted ==
    LET self(x, h) == StandingAt(Natives(chain), h)[x].b # NoBucket
        held(F, r) == HeldFor(chain, "v1", F["v1"], r.cand) + HeldFor(chain, "v2", F["v2"], r.cand)
        counted(r, v3) ==
            LET due == StakedFor(chain, r.h, r.cand) + v3
            IN  \E F \in FilledElsewhere(r.h) : r.amt = due + held(F, r)
    IN  /\ plugin = "delegate" =>
               \A k \in DOMAIN db :
                  LET r == db[k]
                  IN  /\ \/ counted(r, HeldFor(chain, "v3", r.h, r.cand))
                         \/ /\ r.amt = 0
                            /\ r.op \notin GetAllStakingCandidates(chain, EpochNum(r.h))
                      /\ r.self => self(r.cand, r.h)
                      /\ \A l \in DOMAIN db \ {k} : db[l].cand # r.cand
        /\ plugin = "delegate_record" /\ ~hidden =>
               \A k \in DOMAIN db : counted(db[k], 0)
=============================================================================

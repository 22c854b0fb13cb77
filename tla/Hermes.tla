-------------------------------- MODULE Hermes --------------------------------
(***************************************************************************)
(* plugins/hermes and service/hermes_reward: at the first block of an      *)
(* epoch the plugin stores who may vote for whom in it, and what the       *)
(* delegates earned in the epoch that ended, from the tables of the plugins *)
(* it depends on, in a transaction of its own.  The other blocks add the   *)
(* distributions of the Hermes contract.                                   *)
(*                                                                         *)
(* A block has the rewards granted, its producer and the one expected, the *)
(* portions delegates set and the number of distributions; the first block *)
(* of an epoch also has the candidates, buckets and probation list that    *)
(* the chain answers for it and the delegates opted in for the era of that *)
(* number, or NoConfig, which voter_reward writes with the epoch's last    *)
(* block.  The tables hermes depends on go back to block 1.                *)
(***************************************************************************)
EXTENDS SystemStaking, BlockPlugins

CONSTANTS FairbankHeight,                   \* kernel.FairbankEffectiveHeight
          NumDelegatesForEpochReward,       \* 100 in breakdownRewards
          NumDelegatesForFoundationBonus,   \* 36 in breakdownRewards
          LongStake                         \* 91 days in CalculateVoteWeight

ASSUME FairbankHeight > 0

NoConfig == {"none"}
Candidate(name, reward, votes, self) ==
    [name |-> name, reward |-> reward, votes |-> votes, self |-> self]
Bucket(b, cand, owner, amt, native, days) ==
    [b |-> b, cand |-> cand, owner |-> owner, amt |-> amt, native |-> native, days |-> days]
Grant(a, kind, amt) == [a |-> a, kind |-> kind, amt |-> amt]
Kinds == {"block", "epoch", "bonus"}

In(d, t, e) == {k \in DOMAIN d : k[1] = t /\ k[2] = e}
Summed(S, f(_)) == FoldSet(LAMBDA x, s : s + f(x), 0, S)
BlocksOf(e, to) == {h \in 1 .. to : EpochNum(h) = e}
AtEpoch(ch, e) == ch[EpochHeight(e)]
Named(cands) == {c.name : c \in cands}

-----------------------------------------------------------------------------
(* The blocks of an epoch that block_meta has start with its first one. *)
CheckEpochCoverage(e, to) == EpochHeight(e) \in BlocksOf(e, to)

(* Per reward address, what block_rewards has for the epoch up to block to. *)
AggregateReward(ch, e, to) ==
    LET all == FlattenSeq([h \in 1 .. to |-> IF EpochNum(h) = e THEN ch[h].grants ELSE <<>>])
        amt(a, kind) == Summed({i \in DOMAIN all : all[i].a = a /\ all[i].kind = kind},
                                LAMBDA i : all[i].amt)
    IN  [a \in {all[i].a : i \in DOMAIN all} |-> [kind \in Kinds |-> amt(a, kind)]]

getVotingInfo(d, e) ==
    [n \in {k[3] : k \in In(d, "voting_result", e)} |->
        LET k == CHOOSE k \in In(d, "voting_result", e) : k[3] = n
        IN  [reward |-> k[4], votes |-> k[5]]]

(* Of the eras voter_reward has written, the first after the epoch or else *)
(* the last one there is.                                                  *)
optedInDelegates(ch, e, seen) ==
    LET eras == {x \in {EpochNum(h) : h \in 1 .. seen} :
                    EpochHeight(x + 1) - 1 <= seen /\ AtEpoch(ch, x).opted # NoConfig}
        later == {x \in eras : x > e}
    IN  IF eras = {} THEN {}
        ELSE AtEpoch(ch, IF later # {} THEN Min(later) ELSE Max(eras)).opted

(* Mutant: who opted in keeps a share of the pool. *)
contributorsTo_All(names, opted) == names

(* Delegates that opted in no longer pay into a shared address, unless     *)
(* that leaves nobody.                                                     *)
contributorsTo(names, opted) ==
    IF Cardinality(names) <= 1 \/ names \subseteq opted THEN names ELSE names \ opted

(* By the producer expected; who is not expected in the epoch is not there. *)
getProductivity(ch, e, to) ==
    LET blks == BlocksOf(e, to)
        count(f(_), n) == Cardinality({h \in blks : f(ch[h]) = n})
    IN  [n \in {ch[h].exp : h \in blks} |->
            [production |-> count(LAMBDA b : b.prod, n), expected |-> count(LAMBDA b : b.exp, n)]]

(* Sorted by votes; ties fall as the iteration over the map does. *)
Rankings(info) ==
    {r \in [DOMAIN info -> 1 .. Cardinality(DOMAIN info)] :
        \A x, y \in DOMAIN info : x # y =>
            r[x] # r[y] /\ (info[x].votes > info[y].votes => r[x] < r[y])}

breakdownRewards(prod, names, info, rank, total) ==
    LET producing == names \cap DOMAIN prod
        productive(n) == n \in producing =>
                             (prod[n].production * 100) \div prod[n].expected >= 85
        voted == {n \in names : rank[n] <= NumDelegatesForEpochReward /\ productive(n)}
        bonus == {n \in names : rank[n] <= NumDelegatesForFoundationBonus}
        production == Summed(producing, LAMBDA n : prod[n].production)
        votes == Summed(voted, LAMBDA n : info[n].votes)
        share(n) ==
            [block |-> IF n \in producing /\ production > 0
                       THEN (total["block"] * prod[n].production) \div production ELSE 0,
             epoch |-> IF n \in voted /\ votes > 0
                       THEN (total["epoch"] * info[n].votes) \div votes ELSE 0,
             bonus |-> IF n \in bonus THEN total["bonus"] \div Cardinality(bonus) ELSE 0]
    IN  {<<n, share(n)>> : n \in {x \in names : \E kind \in Kinds : share(x)[kind] # 0}}

(* One delegate gets all, several share.  Deleted first, so that doing it  *)
(* again changes nothing; without grants what there is stays.              *)
RebuildAccountRewardTable(d, ch, e, seen, to) ==
    LET info == getVotingInfo(d, e)
        rows == AggregateReward(ch, e, to)
        names(a) == contributorsTo({n \in DOMAIN info : info[n].reward = a},
                                   optedInDelegates(ch, e, seen))
        of(a, rank) == IF Cardinality(names(a)) = 1
                       THEN {<<CHOOSE n \in names(a) : TRUE, rows[a]>>}
                       ELSE breakdownRewards(getProductivity(ch, e, to), names(a), info, rank, rows[a])
        ledger(rank) == UNION {of(a, rank) : a \in DOMAIN rows}
        rewards(rank) == Rows({Row(<<"account_reward", e>> \o s, 1) : s \in ledger(rank)})
    IN  IF ~CheckEpochCoverage(e, to) \/ info = EmptyTables \/ rows = EmptyTables THEN {<<>>}
        ELSE {<<Delete(In(d, "account_reward", e)), Serial(rewards(rank))>> : rank \in Rankings(info)}

-----------------------------------------------------------------------------
(* filterStakingCandidates, stakingProbationListToMap: probation halves.   *)
Reduced(v, probated) == IF probated THEN v \div 2 ELSE v
filterStakingCandidates(cands, probation) ==
    {[c EXCEPT !.votes = Reduced(@, c.name \in probation)] : c \in cands}

(* In tenths: more for a longer duration, and for a long one of a           *)
(* candidate's own bucket.                                                 *)
CalculateVoteWeight(v, self) ==
    v.amt * (10 + (IF v.days > 0 THEN 1 ELSE 0) + (IF self /\ v.days >= LongStake THEN 1 ELSE 0))

(* What a contract's bucket weighs before Redsea is its amount. *)
WeightOf(h, v, cands) ==
    IF v.native THEN CalculateVoteWeight(v, \E c \in cands : c.self = v.b)
    ELSE IF h < RedseaHeight THEN v.amt ELSE CalculateVoteWeight(v, FALSE)

(* The last value a delegate set in a block before the height, 0 without. *)
getAllStakingDelegateRewardPortions(ch, h, n) ==
    LET set == {g \in 1 .. h - 1 : n \in DOMAIN ch[g].profile}
    IN  IF set = {} THEN 0 ELSE ch[Max(set)].profile[n]

updateStakingResult(ch, h, cands) ==
    Serial(Rows({Row(<<"voting_result", EpochNum(h), c.name, c.reward, c.votes,
                       getAllStakingDelegateRewardPortions(ch, h, c.name)>>, 1) : c \in cands}))

(* Votes for a candidate by voter: the sum is reduced, not its terms. *)
updateAggregateStaking(h, buckets, cands, probation) ==
    LET e == EpochNum(h)
        counted == {v \in buckets : v.cand \in Named(cands)}
        key(v) == <<v.cand, v.owner, v.native>>
        sum(k) == Summed({v \in counted : key(v) = k}, LAMBDA v : WeightOf(h, v, cands))
    IN  <<Insert(<<Row(<<"meta", e>>, [voted |-> Summed(counted, LAMBDA v : v.amt),
                                      votes |-> Summed(cands, LAMBDA c : c.votes)])>>),
          Serial(Rows({Row(<<"aggregate", e>> \o k \o <<Reduced(sum(k), k[1] \in probation)>>, 1) :
                          k \in {key(v) : v \in counted}}))>>

updateBucketStaking(h, buckets, cands, probation) ==
    Serial(Rows({Row(<<"bucket", EpochNum(h), v.cand, v.owner, v.native, v.b,
                       Reduced(WeightOf(h, v, cands), v.cand \in probation)>>, 1) :
                    v \in {x \in buckets : x.cand \in Named(cands)}}))

(* The first block of an epoch after Fairbank. *)
Opens(h) == EpochNum(h) > EpochNum(FairbankHeight) /\ h = EpochHeight(EpochNum(h))
buildDistributeBatch(ch, h) == Rows({Row(<<"distribute", h, i>>, 1) : i \in 1 .. ch[h].dist})

(* The candidates and buckets are those of the epoch before.  A table that *)
(* has rows of the epoch is left alone.                                    *)
commitEpochBlock(m, d, h) ==
    LET e == EpochNum(h)
        before == AtEpoch(m.ch, e - 1)
        probation == AtEpoch(m.ch, e).probation
        cands == filterStakingCandidates(before.cands, probation)
        missing(t, stmts) == IF In(d, t, e) = {} THEN stmts ELSE <<>>
    IN  Tx(m, <<Serial(buildDistributeBatch(m.ch, h))>>
              \o missing("voting_result", <<updateStakingResult(m.ch, h, cands)>>)
              \o missing("aggregate", updateAggregateStaking(h, before.buckets, cands, probation))
              \o missing("bucket", <<updateBucketStaking(h, before.buckets, cands, probation)>>), h)

commitDistributeBatch(m, from, to) ==
    IF from > to THEN <<>>
    ELSE <<Tx(m, <<Serial(FlattenSeq([i \in 1 .. to - from + 1 |->
                              buildDistributeBatch(m.ch, from + i - 1)]))>>, to)>>

(* The plugin keeps nothing between two calls; a batch is no longer than an *)
(* epoch.  The tables it reads are complete up to a block, unless the      *)
(* cached height it goes by is ahead of them.                              *)
hermes_PutBlocks(m, d, from, to) ==
    LET opening == {h \in from .. to : Opens(h)}
        h == CHOOSE h \in opening : TRUE
        reads == {[res |-> "ok", seen |-> g, upto |-> h - 1] : g \in h .. Len(m.ch)}
                 \cup {[res |-> "hid", seen |-> h, upto |-> h - 2]}
        rebuild(x) ==
            {[res |-> x.res, txs |-> IF s = <<>> THEN <<>> ELSE <<Tx(m, s, NoHeight)>>] :
                s \in RebuildAccountRewardTable(d, m.ch, EpochNum(h) - 1, x.seen, x.upto)}
        rest == commitDistributeBatch(m, from, h - 1) \o <<commitEpochBlock(m, d, h)>>
                \o commitDistributeBatch(m, h + 1, to)
        call(r) == [Commits(r.txs \o rest, m) EXCEPT !.res = r.res]
    IN  IF opening = {} THEN {Commits(commitDistributeBatch(m, from, to), m)}
        ELSE {Refused(m)} \cup {call(r) : r \in UNION {rebuild(x) : x \in reads}}

hermes_Start(m, d, h, ch) == Started([ch |-> ch], AutoMigrate(d, h), h)

-----------------------------------------------------------------------------
(* Who earns something of what its address is granted, whatever the ties.  *)
Earns(e, kind, n) ==
    LET info == getVotingInfo(db, e)
        prod == getProductivity(chain, e, Tip)
        above == {x \in DOMAIN info \ {n} : info[x].votes >= info[n].votes}
        idle == n \in DOMAIN prod
                /\ (prod[n].production * 100) \div prod[n].expected < 85
    IN  CASE kind = "block" -> n \in DOMAIN prod /\ prod[n].production > 0
          [] kind = "epoch" -> Cardinality(above) < NumDelegatesForEpochReward
                               /\ ~idle /\ info[n].votes > 0
          [] kind = "bonus" -> Cardinality(above) < NumDelegatesForFoundationBonus

(* The delegates of an address get all that it was granted in an epoch but *)
(* the remainders of the divisions, and none that had opted in before the  *)
(* epoch while another one had not.                                        *)
Sharing(e, names) ==
    LET known(x) == optedInDelegates(chain, e, x)
        a == getVotingInfo(db, e)[CHOOSE n \in names : TRUE].reward
        rows == AggregateReward(chain, e, Tip)
        paid(kind) == IF a \in DOMAIN rows THEN rows[a][kind] ELSE 0
        mine == {k \in In(db, "account_reward", e) : k[3] \in names}
        got(kind) == Summed(mine, LAMBDA k : k[4][kind])
        due == ~hidden /\ row >= EpochHeight(e + 1)
    IN  /\ \A kind \in Kinds :
              /\ got(kind) <= paid(kind)
              /\ due /\ (\E n \in names \ known(Tip) : Earns(e, kind, n)) =>
                    paid(kind) - got(kind) < Cardinality(names)
        /\ names \subseteq known(Tip) \/ Cardinality(names) = 1
              \/ \A k \in mine : k[3] \notin known(EpochHeight(e))

(* What a voter has for a candidate is the sum of his buckets, but for what *)
(* halving the sum or its terms makes.                                     *)
VotesAdd(e) ==
    \A k \in In(db, "aggregate", e) :
        LET of == {b \in In(db, "bucket", e) : <<b[3], b[4], b[5]>> = <<k[3], k[4], k[5]>>}
            sum == Summed(of, LAMBDA b : b[7])
        IN  k[6] \in sum .. sum + Cardinality(of) - 1

(* "Re-running it is idempotent", and a pool is not split among "delegates *)
(* that no longer pay into" it, service/hermes_reward/rebuild.go: what an  *)
(* address is granted in an epoch goes to those who fund it, and the votes *)
(* of an epoch and the distributions of a block are stored once, however   *)
(* the batches are cut, fail and are repeated.                             *)
RewardsShared ==
    plugin = "hermes" =>
        /\ \A k \in DOMAIN db : k[1] = "meta" \/ db[k] = 1
        /\ \A h \in 1 .. row : \A i \in 1 .. chain[h].dist : <<"distribute", h, i>> \in DOMAIN db
        /\ \A e \in {EpochNum(h) : h \in 1 .. Tip} :
              LET info == getVotingInfo(db, e)
                  of(a) == {n \in DOMAIN info : info[n].reward = a}
              IN  /\ \A a \in {info[n].reward : n \in DOMAIN info} : Sharing(e, of(a))
                  /\ VotesAdd(e)
                  /\ In(db, "meta", e) # {} <=> Opens(EpochHeight(e)) /\ EpochHeight(e) <= row
=============================================================================

---------------------------- MODULE NativeStaking ----------------------------
(***************************************************************************)
(* The plugins that keep books of the buckets of native staking:           *)
(* service/staking_bucket, service/staking_actions with its exit queue,    *)
(* plugins/staking_actions_ch with its cache of bucket states, and         *)
(* service/stakinglog, which finds the bucket a receipt names.             *)
(*                                                                         *)
(* A block is its sequence of receipts: the kind of the action, whether it *)
(* succeeded, the sender, the bucket the action names, one argument (new   *)
(* owner, candidate, duration, kind of the exit step), the amount and the  *)
(* staking logs.  A table with a serial id has the keys <<table, id>>.     *)
(***************************************************************************)
EXTENDS PluginHarness

CONSTANTS GreenlandHeight,   \* genesis.Default.GreenlandBlockHeight
          CacheSize          \* cfg.BucketStateCacheSize of staking_actions_ch

ASSUME CacheSize \in Nat \ {0}

Receipt(kind, who, b, x, amt, logs) ==
    [kind |-> kind, ok |-> TRUE, who |-> who, b |-> b, x |-> x, amt |-> amt,
     logs |-> logs]
NoBucket == 99               \* 2^64 - 1

Create(d, t, r) == d @@ (<<t, 1 + Cardinality({k \in DOMAIN d : k[1] = t})>> :> r)
Of(d, t, b) == {k \in DOMAIN d : k[1] = t /\ d[k].b = b}
Sum(d, K) == FoldSet(LAMBDA k, s : s + d[k].amt, 0, K)
getBucketSumAmountByBucketID(d, t, b) == Sum(d, Of(d, t, b))
Latest(d, K) == d[CHOOSE k \in K : \A l \in K : l[2] <= k[2]]

(* The last row of a bucket. *)
getBucketInfoAddressByBucketID(d, t, b) == Latest(d, Of(d, t, b))

(* Before Greenland a restake takes an unstaked bucket back. *)
getFixBucketSumAmountByBucketID(d, t, b) ==
    LET unstaked(k) == d[k].type = "Unstake"
    IN  IF \E k \in Of(d, t, b) : unstaked(k)
        THEN Sum(d, {k \in Of(d, t, b) : ~unstaked(k)}) ELSE 0

-----------------------------------------------------------------------------
(* stakinglog.BucketIndex.  A log is its topic, the emitter being the       *)
(* protocol or not, and the number it carries, Undecoded if it does not decode. *)
Undecoded == -1
StakingLog(topic, n) == [topic |-> topic, mine |-> TRUE, n |-> n]
Naming == {"Staked", "CandidateActivated", "createStake", "candidateRegister"}

(* The last log that names an index wins; a registration without an index  *)
(* has no bucket; otherwise there is none, <<>>.                           *)
BucketIndex(logs) ==
    LET named == SelectSeq(logs, LAMBDA l : l.mine /\ l.topic \in Naming /\ l.n # Undecoded)
    IN  IF named # <<>> THEN <<named[Len(named)].n>>
        ELSE IF \E i \in DOMAIN logs : logs[i].mine /\ logs[i].topic = "CandidateRegistered"
        THEN <<NoBucket>> ELSE <<>>

Handled(b) == SelectSeq(b.c, LAMBDA r : r.ok)

(* Both services do a batch in one transaction, reading their own rows.    *)
InOneTransaction(m, d, to, handle(_, _, _)) ==
    LET block(t, b) == FoldLeft(LAMBDA x, r : handle(x, b.h, r), t, Handled(b))
        new == FoldLeft(block, d, m.batch)
        after == [m EXCEPT !.batch = <<>>]
    IN  {Commits(<<Tx(after, <<Become(new)>>, to)>>, after)}

Collect(m, b) == {Ok([m EXCEPT !.batch = Append(@, b)])}

-----------------------------------------------------------------------------
(* service/staking_bucket: every action adds a row with what is staked in  *)
(* the bucket after it; amount is what the action put in.                  *)
SB == "staking_buckets"

Opened(t, d, h, r, b, owner, cand) ==
    Create(d, t, [b |-> b, h |-> h, type |-> r.kind, staked |-> r.amt,
                  amt |-> r.amt, owner |-> owner, cand |-> cand, dur |-> 1])

(* The last row again, with the changes the action makes. *)
Followed(d, h, r, changes) ==
    Create(d, SB, changes @@ [h |-> h, type |-> r.kind, amt |-> 0,
                              staked |-> getBucketSumAmountByBucketID(d, SB, r.b)]
                  @@ getBucketInfoAddressByBucketID(d, SB, r.b))

staking_bucket_WithdrawStake(d, h, r) == Followed(d, h, r, [staked |-> 0, dur |-> 0])
staking_bucket_CreateStake(d, h, r) ==
    Opened(SB, d, h, r, BucketIndex(r.logs)[1], r.who, r.x)
staking_bucket_TransferStake(d, h, r) == Followed(d, h, r, [owner |-> r.x])
staking_bucket_Restake(d, h, r) ==
    Followed(d, h, r,
        [owner |-> r.who, dur |-> r.x,
         amt |-> IF h < GreenlandHeight
                 THEN getFixBucketSumAmountByBucketID(d, SB, r.b) ELSE 0])
staking_bucket_ChangeCandidate(d, h, r) == Followed(d, h, r, [cand |-> r.x])
(* Mutant: the sum is taken before the deposit is in it. *)
staking_bucket_DepositToStake_Before(d, h, r) == Followed(d, h, r, [amt |-> r.amt])

staking_bucket_DepositToStake(d, h, r) ==
    Followed(d, h, r, [amt |-> r.amt,
        staked |-> getBucketSumAmountByBucketID(d, SB, r.b) + r.amt])
staking_bucket_Unstake(d, h, r) == Followed(d, h, r, <<>>)
staking_bucket_CandidateRegister(d, h, r) ==
    LET b == BucketIndex(r.logs)[1]
    IN  IF b = NoBucket THEN d ELSE Opened(SB, d, h, r, b, r.x, r.x)
staking_bucket_MigrateStake(d, h, r) == Followed(d, h, r, [staked |-> 0, dur |-> 0])

(* What is staked is read from the chain, the duration becomes 0.  The     *)
(* receipt stands for that read: its amount is the one of the chain.       *)
staking_bucket_CandidateEndorsement(d, h, r) ==
    Followed(d, h, r, [staked |-> r.amt, dur |-> 0])

(* The slashes the plugin slash stored for the epoch reward. *)
staking_bucket_GrantReward(d, h, r) ==
    Followed(d, h, r, [amt |-> -r.amt,
        staked |-> getBucketSumAmountByBucketID(d, SB, r.b) - r.amt])

staking_bucket_handleBlock(d, h, r) ==
    CASE r.kind = "WithdrawStake" -> staking_bucket_WithdrawStake(d, h, r)
      [] r.kind = "StakeCreate" -> staking_bucket_CreateStake(d, h, r)
      [] r.kind = "TransferStake" -> staking_bucket_TransferStake(d, h, r)
      [] r.kind = "Restake" -> staking_bucket_Restake(d, h, r)
      [] r.kind = "ChangeCandidate" -> staking_bucket_ChangeCandidate(d, h, r)
      [] r.kind = "DepositToStake" -> staking_bucket_DepositToStake(d, h, r)
      [] r.kind = "Unstake" -> staking_bucket_Unstake(d, h, r)
      [] r.kind = "CandidateRegister" -> staking_bucket_CandidateRegister(d, h, r)
      [] r.kind = "MigrateStake" -> staking_bucket_MigrateStake(d, h, r)
      [] r.kind = "CandidateEndorsement" -> staking_bucket_CandidateEndorsement(d, h, r)
      [] r.kind = "SlashCandidate" -> staking_bucket_GrantReward(d, h, r)
      [] OTHER -> d

staking_bucket_PutBlocks(m, d, to) ==
    InOneTransaction(m, d, to, staking_bucket_handleBlock)

-----------------------------------------------------------------------------
(* service/staking_actions: rows whose amounts add up to what is staked,   *)
(* per bucket, owner and candidate.                                        *)
SA == "staking_actions"

Noted(d, h, r, changes) ==
    Create(d, SA, changes @@ [h |-> h, type |-> r.kind, staked |-> 0]
                  @@ getBucketInfoAddressByBucketID(d, SA, r.b))

(* What is staked leaves the last row's owner and candidate for others. *)
Moved(d, h, r, changes) ==
    LET sum == getBucketSumAmountByBucketID(d, SA, r.b)
        info == getBucketInfoAddressByBucketID(d, SA, r.b)
    IN  Create(Noted(d, h, r, [amt |-> -sum]), SA,
               changes @@ [h |-> h, type |-> r.kind, amt |-> sum, staked |-> 0] @@ info)

staking_actions_CreateStake(d, h, r) ==
    Opened(SA, d, h, r, BucketIndex(r.logs)[1], r.who, r.x)
staking_actions_TransferStake(d, h, r) == Moved(d, h, r, [owner |-> r.x])
staking_actions_Restake(d, h, r) ==
    Noted(d, h, r,
        [owner |-> r.who, dur |-> r.x,
         amt |-> IF h < GreenlandHeight
                 THEN getFixBucketSumAmountByBucketID(d, SA, r.b) ELSE 0])
staking_actions_ChangeCandidate(d, h, r) == Moved(d, h, r, [cand |-> r.x])
staking_actions_DepositToStake(d, h, r) == Noted(d, h, r, [amt |-> r.amt])
staking_actions_Unstake(d, h, r) ==
    Noted(d, h, r, [owner |-> r.who,
                    amt |-> -getBucketSumAmountByBucketID(d, SA, r.b)])
staking_actions_CandidateRegister(d, h, r) ==
    LET b == BucketIndex(r.logs)[1]
    IN  IF b = NoBucket THEN d ELSE Opened(SA, d, h, r, b, r.x, r.x)
staking_actions_GrantReward(d, h, r) == Noted(d, h, r, [cand |-> r.x, amt |-> -r.amt])

(* The rows that are about a candidate have no bucket: their bucket_id is  *)
(* the default 0.                                                          *)
Candidacy(d, h, r) ==
    Create(d, SA, [b |-> 0, h |-> h, type |-> r.kind, staked |-> 0, amt |-> 0,
                   owner |-> r.who, cand |-> r.x, dur |-> 0])

(* candidate_exit_queue: a request adds a row, the later steps pick the    *)
(* last row that is one step behind, by id, and fail without one.          *)
Queue == "candidate_exit_queue"
Behind(d, cand, status) ==
    {k \in DOMAIN d : k[1] = Queue /\ d[k].cand = cand /\ d[k].status = status}
Promoted(d, cand, from, to) ==
    LET last_ == CHOOSE k \in Behind(d, cand, from) :
                    \A l \in Behind(d, cand, from) : l[2] <= k[2]
    IN  [d EXCEPT ![last_].status = to]

(* Mutant: the confirmation leaves the row scheduled. *)
updateExitQueue_Unconfirmed(d, type, cand) ==
    CASE type = "CandidateDeactivateRequest" ->
            Create(d, Queue, [cand |-> cand, status |-> "requested", b |-> NoBucket])
      [] type = "ScheduleCandidateDeactivation" ->
            Promoted(d, cand, "requested", "scheduled")
      [] type = "CandidateDeactivateConfirm" -> d

updateExitQueue(d, type, cand) ==
    CASE type = "CandidateDeactivateRequest" ->
            Create(d, Queue, [cand |-> cand, status |-> "requested", b |-> NoBucket])
      [] type = "ScheduleCandidateDeactivation" ->
            Promoted(d, cand, "requested", "scheduled")
      [] type = "CandidateDeactivateConfirm" ->
            Promoted(d, cand, "scheduled", "confirmed")

staking_actions_exit(d, h, r) ==
    updateExitQueue(Candidacy(d, h, r), r.kind, r.x)

(* An endorsement counts when its receipt has the log of a request. *)
staking_actions_CandidateEndorsement(d, h, r) ==
    IF \E i \in DOMAIN r.logs : r.logs[i].mine /\ r.logs[i].topic = "DeactivationRequested"
    THEN staking_actions_exit(d, h, [r EXCEPT !.kind = "CandidateDeactivateRequest"])
    ELSE d
staking_actions_SetVoterRewardOptIn(d, h, r) == Candidacy(d, h, r)

staking_actions_handleBlock(d, h, r) ==
    CASE r.kind = "StakeCreate" -> staking_actions_CreateStake(d, h, r)
      [] r.kind = "TransferStake" -> staking_actions_TransferStake(d, h, r)
      [] r.kind = "Restake" -> staking_actions_Restake(d, h, r)
      [] r.kind = "ChangeCandidate" -> staking_actions_ChangeCandidate(d, h, r)
      [] r.kind = "DepositToStake" -> staking_actions_DepositToStake(d, h, r)
      [] r.kind = "Unstake" -> staking_actions_Unstake(d, h, r)
      [] r.kind = "CandidateRegister" -> staking_actions_CandidateRegister(d, h, r)
      [] r.kind = "SlashCandidate" -> staking_actions_GrantReward(d, h, r)
      [] r.kind = "CandidateEndorsement" -> staking_actions_CandidateEndorsement(d, h, r)
      [] r.kind \in {"CandidateDeactivateRequest", "ScheduleCandidateDeactivation",
                     "CandidateDeactivateConfirm"} -> staking_actions_exit(d, h, r)
      [] r.kind = "SetVoterRewardOptIn" -> staking_actions_SetVoterRewardOptIn(d, h, r)
      [] OTHER -> d

staking_actions_PutBlocks(m, d, to) ==
    InOneTransaction(m, d, to, staking_actions_handleBlock)

-----------------------------------------------------------------------------
(* External: the staking protocol.  A bucket keeps its stake while it is   *)
(* unstaked, until it is withdrawn or migrated.                            *)
Protocol(bs, r) ==
    LET with(b, changes) == (b :> (changes @@ bs[b])) @@ bs
        open(b, owner, cand) ==
            bs @@ (b :> [owner |-> owner, cand |-> cand, amt |-> r.amt, dur |-> 1,
                         status |-> "staked", endorsed |-> FALSE])
        named == BucketIndex(r.logs)
    IN  CASE r.kind = "StakeCreate" -> open(named[1], r.who, r.x)
          [] r.kind = "CandidateRegister" ->
                IF named[1] = NoBucket THEN bs ELSE open(named[1], r.x, r.x)
          [] r.kind = "TransferStake" -> with(r.b, [owner |-> r.x])
          [] r.kind = "Restake" -> with(r.b, [dur |-> r.x, status |-> "staked"])
          [] r.kind = "ChangeCandidate" -> with(r.b, [cand |-> r.x])
          [] r.kind = "DepositToStake" -> with(r.b, [amt |-> bs[r.b].amt + r.amt])
          [] r.kind = "Unstake" -> with(r.b, [status |-> "unstaked"])
          [] r.kind \in {"WithdrawStake", "MigrateStake"} ->
                with(r.b, [status |-> "gone", amt |-> 0, dur |-> 0])
          [] r.kind = "SlashCandidate" -> with(r.b, [amt |-> bs[r.b].amt - r.amt])
          [] r.kind = "CandidateEndorsement" /\ r.b # 0 -> with(r.b, [endorsed |-> TRUE])
          [] OTHER -> bs

ReceiptsTo(ch, h) ==
    SelectSeq(FlattenSeq([i \in 1 .. h |-> ch[i]]), LAMBDA r : r.ok)
ProtocolAt(ch, h) == FoldLeft(Protocol, EmptyTables, ReceiptsTo(ch, h))

(* External: where a candidate stands after its exit steps. *)
Requests == {"CandidateEndorsement", "CandidateDeactivateRequest"}
Exits == {"ScheduleCandidateDeactivation", "CandidateDeactivateConfirm"}
ExitAt(ch, h, cand) ==
    LET mine(r) == r.kind \in Requests \cup Exits /\ r.x = cand
        step(s, r) ==
            CASE r.kind \in Requests -> Append(s, "requested")
              [] r.kind = "ScheduleCandidateDeactivation" -> Append(Front(s), "scheduled")
              [] r.kind = "CandidateDeactivateConfirm" -> Append(Front(s), "confirmed")
    IN  FoldLeft(step, <<>>, SelectSeq(ReceiptsTo(ch, h), mine))

(* staking_bucket: the last row of a bucket is the bucket, whoever moved,  *)
(* topped up, slashed, unstaked or closed it.  An endorsement blanks the   *)
(* duration in every later row until it is set again.                      *)
LatestRight ==
    plugin = "staking_bucket" =>
        LET bs == ProtocolAt(chain, row)
        IN  \A b \in DOMAIN bs :
                LET i == getBucketInfoAddressByBucketID(db, SB, b)
                IN  /\ i.staked = bs[b].amt
                    /\ i.owner = bs[b].owner /\ i.cand = bs[b].cand
                    /\ i.dur = bs[b].dur \/ bs[b].endorsed

(* For a bucket to what is staked in it, nothing while it is unstaked. *)
StakedIn(bs) == {b \in DOMAIN bs : bs[b].status = "staked"}
SumOver(rows, S) == FoldSet(LAMBDA k, s : s + rows[k].amt, 0, S)
BucketsAddUp(rows, bs) ==
    \A b \in DOMAIN bs :
        SumOver(rows, {k \in DOMAIN rows : rows[k].b = b}) = SumOver(bs, {b} \cap StakedIn(bs))

(* And over the rows of an owner and a candidate to what that owner has    *)
(* staked for that candidate.                                              *)
AddsUp(rows, bs) ==
    /\ BucketsAddUp(rows, bs)
    /\ \A o \in {rows[k].owner : k \in DOMAIN rows},
          c \in {rows[k].cand : k \in DOMAIN rows} :
           SumOver(rows, {k \in DOMAIN rows : rows[k].owner = o /\ rows[k].cand = c})
           = SumOver(bs, {b \in StakedIn(bs) : bs[b].owner = o /\ bs[b].cand = c})

(* The rows of candidate_exit_queue are the exits of the candidate, each   *)
(* where it stands: no step is lost or taken by the row of another exit.   *)
ExitQueue ==
    plugin = "staking_actions" =>
        \A cand \in {"x", "y"} :
            LET K == {k \in DOMAIN db : k[1] = Queue /\ db[k].cand = cand}
                exits == ExitAt(chain, row, cand)
            IN  /\ Cardinality(K) = Len(exits)
                /\ \A k \in K :
                       db[k].status = exits[Cardinality({l \in K : l[2] <= k[2]})]
=============================================================================

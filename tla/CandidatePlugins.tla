--------------------------- MODULE CandidatePlugins ---------------------------
(***************************************************************************)
(* plugins/candidate, candidate_self_stake and account_vote: who runs for  *)
(* delegate, with which bucket, and who votes for whom.  All three do a    *)
(* batch in one transaction and read their own rows, as the services of    *)
(* NativeStaking do.                                                       *)
(*                                                                         *)
(* A receipt about a candidate has the operator and the reward address     *)
(* too, None for no address; a candidate is known by its first owner.      *)
(* b and x are the bucket and the candidate an action is about, whatever   *)
(* its logs say; began is the candidate of that bucket when the epoch      *)
(* began, None when there was no such bucket; op of an endorsement is what *)
(* it does with it.                                                        *)
(***************************************************************************)
EXTENDS StakingSink, BlockPlugins

CONSTANTS XinguHeight,     \* genesis.Default.XinguBlockHeight
          CandidateIDs     \* sequence: the candidates, in the order of their ids

CandidateReceipt(kind, who, b, x, op, reward, logs) ==
    [op |-> op, reward |-> reward, began |-> x] @@ Receipt(kind, who, b, x, 0, logs)

CD == "candidate"
RowsOf(d, t) == {k \in DOMAIN d : k[1] = t}
ByCandidateID(d, t, x, h) == {k \in RowsOf(d, t) : d[k].cand = x /\ d[k].h <= h}
FetchByCandidateIDWithHeight(d, x, h) == Latest(d, ByCandidateID(d, CD, x, h))

(* Owner and operator may both sign: the last row that names the signer. *)
FetchByOwnerOrOperatorWithHeight(d, who, h) ==
    Latest(d, {k \in RowsOf(d, CD) : d[k].h <= h /\ who \in {d[k].owner, d[k].op}})

candidate_CandidateRegister(d, h, r) ==
    Create(d, CD, [cand |-> r.x, h |-> h, type |-> r.kind, owner |-> r.x, op |-> r.op,
                   reward |-> r.reward])

(* Mutant: whoever signs becomes the owner. *)
candidate_CandidateUpdate_Signer(d, h, r) ==
    Create(d, CD, [h |-> h, type |-> r.kind, op |-> r.op, reward |-> r.reward,
                   owner |-> r.who]
                  @@ FetchByOwnerOrOperatorWithHeight(d, r.who, h))

(* An update without a reward address blanks the row's. *)
candidate_CandidateUpdate(d, h, r) ==
    Create(d, CD, [h |-> h, type |-> r.kind, op |-> r.op, reward |-> r.reward]
                  @@ FetchByOwnerOrOperatorWithHeight(d, r.who, h))

candidate_CandidateTransferOwnership(d, h, r) ==
    Create(d, CD, [h |-> h, type |-> r.kind, owner |-> r.x]
                  @@ FetchByOwnerOrOperatorWithHeight(d, r.who, h))

(* A new row with what the bucket has, read from the chain as it was when   *)
(* the epoch began: for the candidate it had then.                         *)
candidate_CandidateActivate(d, h, r) ==
    Create(d, CD, [h |-> h, type |-> r.kind] @@ FetchByCandidateIDWithHeight(d, r.began, h))

(* A bucket that is younger than the epoch is not found, and no error: its  *)
(* candidate is then read through a nil pointer.                           *)
GetStakingBucketByID_Nil(r) == r.kind = "CandidateActivate" /\ r.began = None

candidate_CandidateEndorsement(d, h, r) ==
    Create(d, CD, [h |-> h, type |-> r.kind] @@ FetchByCandidateIDWithHeight(d, r.x, h))

candidate_handleAction(d, h, r) ==
    CASE r.kind = "CandidateRegister" -> candidate_CandidateRegister(d, h, r)
      [] r.kind = "CandidateUpdate" -> candidate_CandidateUpdate(d, h, r)
      [] r.kind = "CandidateTransferOwnership" -> candidate_CandidateTransferOwnership(d, h, r)
      [] r.kind = "CandidateActivate" -> candidate_CandidateActivate(d, h, r)
      [] r.kind = "CandidateEndorsement" -> candidate_CandidateEndorsement(d, h, r)
      [] OTHER -> d

(* The panic rolls back; the runner recovers and puts the batch again, with *)
(* the same outcome, for ever.                                             *)
candidate_PutBlocks(m, d, to) ==
    IF \E i \in DOMAIN m.batch : \E r \in Range(Handled(m.batch[i])) : GetStakingBucketByID_Nil(r)
    THEN {Panicked([m EXCEPT !.batch = <<>>])}
    ELSE InOneTransaction(m, d, to, candidate_handleAction)

-----------------------------------------------------------------------------
(* plugins/candidate_self_stake: the bucket a candidate stands with.  The   *)
(* rows of one candidate have different action hashes.                     *)
CSS == "candidate_self_stake"
upsertCandidateSelfStake(d, h, x, b) == Create(d, CSS, [cand |-> x, h |-> h, b |-> b])

(* The last row of every candidate, by height and index in the block. *)
fetchCandidates(d, h) ==
    {Latest(d, ByCandidateID(d, CSS, x, h)) :
        x \in {d[k].cand : k \in {l \in RowsOf(d, CSS) : d[l].h <= h}}}

(* kernel.Parse...Event: the number in the first log of the protocol that   *)
(* the parser looks for, <<>> (nil) when there is none.  From Xingu on that *)
(* of a registration is CandidateActivated, which only one with a self     *)
(* stake and in the new shape has: the others are passed over.             *)
ParseEvent(h, r) ==
    LET topics == CASE r.kind = "CandidateRegister" /\ h < XinguHeight -> {"candidateRegister"}
                    [] r.kind = "CandidateRegister" -> {"CandidateActivated"}
                    [] r.kind = "CandidateActivate" -> {"candidateActivate"}
                    [] OTHER -> {"candidateEndorsement", "candidateEndorsementWithOp"}
        found == SelectSeq(r.logs, LAMBDA l : l.mine /\ l.topic \in topics)
    IN  IF found = <<>> THEN <<>> ELSE <<found[1].n>>

(* Whose last row names the bucket; only the first of them gets a new one. *)
self_stake_Unstake(d, h, r) ==
    LET holders == {c.cand : c \in {e \in fetchCandidates(d, h) : e.b = r.b}}
        all == SelectSeq(CandidateIDs, LAMBDA x : x \in holders)
    IN  IF all = <<>> THEN d ELSE upsertCandidateSelfStake(d, h, all[1], NoBucket)

(* Of the endorsements only a revocation; without an event no row. *)
self_stake_handleAction(d, h, r) ==
    CASE \/ r.kind \in {"CandidateRegister", "CandidateActivate"}
         \/ r.kind = "CandidateEndorsement" /\ r.op = "revoke" ->
            LET event == ParseEvent(h, r)
            IN  IF event = <<>> THEN d ELSE upsertCandidateSelfStake(d, h, r.x, event[1])
      [] r.kind = "Unstake" -> self_stake_Unstake(d, h, r)
      [] OTHER -> d

self_stake_PutBlocks(m, d, to) == InOneTransaction(m, d, to, self_stake_handleAction)

FetchSelfStake(d, x, h) == ByCandidateID(d, CSS, x, h)

-----------------------------------------------------------------------------
(* plugins/account_vote: rows whose amounts add up to an address's votes.   *)
(* The bucket of a new stake comes from staking_buckets and its candidate  *)
(* from delegate, tables of plugins it does not wait for: a row that is not *)
(* there yet answers 0 and the empty name, without an error.               *)
AV == "account_vote"
getBucketInfoByBucketID(d, b) ==
    IF Of(d, AV, b) = {} THEN [b |-> b, owner |-> None, cand |-> None]
    ELSE getBucketInfoAddressByBucketID(d, AV, b)
Vote(d, h, r, changes) ==
    Create(d, AV, changes @@ [h |-> h, type |-> r.kind] @@ getBucketInfoByBucketID(d, r.b))
VotesMoved(d, h, r, b, changes) ==
    LET sum == getBucketSumAmountByBucketID(d, AV, b)
        of == [r EXCEPT !.b = b]
        info == getBucketInfoByBucketID(d, b)
    IN  Vote(Vote(d, h, of, [amt |-> -sum]), h, of, [amt |-> sum] @@ changes @@ info)

vote_CreateStake(found, d, h, r) ==
    Create(d, AV, [b |-> IF found THEN BucketIndex(r.logs)[1] ELSE 0, owner |-> r.who,
                   cand |-> IF found THEN r.x ELSE None, amt |-> r.amt, h |-> h,
                   type |-> r.kind])
vote_TransferStake(d, h, r) == VotesMoved(d, h, r, r.b, [owner |-> r.x])
vote_ChangeCandidate(d, h, r) == VotesMoved(d, h, r, r.b, [cand |-> r.x])
vote_Restake(d, h, r) == Vote(d, h, r, [owner |-> r.who, amt |-> 0])
vote_DepositToStake(d, h, r) == Vote(d, h, r, [amt |-> r.amt])
vote_Unstake(d, h, r) ==
    Vote(d, h, r, [owner |-> r.who, amt |-> -getBucketSumAmountByBucketID(d, AV, r.b)])

(* The buckets whose last row is the address's. *)
getBucketIDsByAddressWithHeight(d, a, h) ==
    {b \in {d[k].b : k \in RowsOf(d, AV)} :
        getBucketInfoByBucketID(d, b).owner = a}

(* A forward moves the votes of all of them.  A cancellation looks for      *)
(* buckets of the address forwarded to that are still the one's who        *)
(* forwards: there are none.                                               *)
vote_GovernaceForward(d, h, r) ==
    FoldSet(LAMBDA b, t : VotesMoved(t, h, r, b, [owner |-> r.x]), d,
            getBucketIDsByAddressWithHeight(d, r.who, h))
vote_GovernaceCacel(d, h, r) ==
    FoldSet(LAMBDA b, t : VotesMoved(t, h, r, b, [owner |-> r.who]), d,
            getBucketIDsByAddressWithHeight(d, r.x, h)
            \cap getBucketIDsByAddressWithHeight(d, r.who, h))

account_vote_handleBlock(found, d, h, r) ==
    CASE r.kind = "StakeCreate" -> vote_CreateStake(found, d, h, r)
      [] r.kind = "TransferStake" -> vote_TransferStake(d, h, r)
      [] r.kind = "ChangeCandidate" -> vote_ChangeCandidate(d, h, r)
      [] r.kind = "Restake" -> vote_Restake(d, h, r)
      [] r.kind = "DepositToStake" -> vote_DepositToStake(d, h, r)
      [] r.kind = "Unstake" -> vote_Unstake(d, h, r)
      [] r.kind = "GovernaceForward" -> vote_GovernaceForward(d, h, r)
      [] r.kind = "GovernaceCacel" -> vote_GovernaceCacel(d, h, r)
      [] OTHER -> d

account_vote_PutBlocks(m, d, to) ==
    LET with(found) ==
            InOneTransaction(m, d, to, LAMBDA t, h, r : account_vote_handleBlock(found, t, h, r))
    IN  with(TRUE) \cup {[c EXCEPT !.res = "hid"] : c \in with(FALSE)}

-----------------------------------------------------------------------------
(* External: the candidates of the staking protocol. *)
Standing(cs, r) ==
    LET mine == {x \in DOMAIN cs : r.who \in {cs[x].owner, cs[x].op}}
        with(X, changes) == [x \in DOMAIN cs |-> IF x \in X THEN changes @@ cs[x] ELSE cs[x]]
    IN  CASE r.kind = "CandidateRegister" ->
                cs @@ (r.x :> [owner |-> r.x, op |-> r.op, reward |-> r.reward, b |-> r.b])
          [] r.kind = "CandidateUpdate" ->
                with(mine, IF r.reward = None THEN [op |-> r.op]
                           ELSE [op |-> r.op, reward |-> r.reward])
          [] r.kind = "CandidateTransferOwnership" -> with(mine, [owner |-> r.x])
          [] r.kind = "CandidateActivate" -> with({r.x}, [b |-> r.b])
          [] r.kind = "Unstake" -> with({x \in DOMAIN cs : cs[x].b = r.b}, [b |-> NoBucket])
          [] OTHER -> cs

StandingAt(ch, h) == FoldLeft(Standing, EmptyTables, ReceiptsTo(ch, h))

(* What gave a candidate its bucket last is in no log the parser knows. *)
Unparsed(x) ==
    LET all == FlattenSeq([h \in 1 .. row |->
                   [i \in DOMAIN chain[h] |-> [h |-> h, r |-> chain[h][i]]]])
        given == SelectSeq(all, LAMBDA e : /\ e.r.kind \in {"CandidateRegister", "CandidateActivate"}
                                           /\ e.r.x = x /\ e.r.b # NoBucket)
    IN  given # <<>> /\ ParseEvent(Last(given).h, Last(given).r) = <<>>

Revoked(b) ==
    \E r \in Range(ReceiptsTo(chain, row)) : r.kind = "CandidateEndorsement" /\ r.b = b

(* The last row of a candidate is the candidate, whoever of owner and      *)
(* operator signed what, through new operators and owners, of this or      *)
(* another candidate; and its last self-stake row is the bucket it stands  *)
(* with, none without a row or once that is unstaked.  Excepted are: a     *)
(* reward address that was left out of an update, which is lost; a         *)
(* candidate whose registration or activation the parser passes over; and  *)
(* a bucket whose endorsement was revoked, which the last rows of two      *)
(* candidates may name, of which an unstake then reaches one.              *)
CandidateRight ==
    plugin \in {"candidate", "candidate_self_stake"} =>
        LET cs == StandingAt(chain, row)
            bucket(x) == LET rows == FetchSelfStake(db, x, row)
                         IN  IF rows = {} THEN NoBucket ELSE Latest(db, rows).b
        IN  \A x \in DOMAIN cs :
                IF plugin = "candidate"
                THEN LET i == FetchByCandidateIDWithHeight(db, x, row)
                     IN  /\ i.owner = cs[x].owner /\ i.op = cs[x].op
                         /\ i.reward \in {cs[x].reward, None}
                ELSE bucket(x) = cs[x].b \/ Unparsed(x) \/ Revoked(bucket(x))

(* The signed amounts of staking_actions add up, whatever failed; those in *)
(* ClickHouse do, through the cache of bucket states that the batches go   *)
(* by, as long as no call failed.  The votes of account_vote do when the   *)
(* rows of the other plugins were there, for a bucket also after its votes *)
(* were forwarded: then they are another address's, the stake is not.      *)
StakesBalance ==
    LET bs == ProtocolAt(chain, row)
        forwarded == \E r \in Range(ReceiptsTo(chain, row)) : r.kind = "GovernaceForward"
    IN  /\ plugin = "staking_actions" => AddsUp(Restrict(db, RowsOf(db, SA)), bs)
        /\ plugin = "staking_actions_ch" /\ Unfailed /\ pc # "commit" =>
               AddsUp([k \in DOMAIN db |-> k[2]], bs)
        /\ plugin = "account_vote" /\ ~hidden =>
               IF forwarded THEN BucketsAddUp(db, bs) ELSE AddsUp(db, bs)
=============================================================================

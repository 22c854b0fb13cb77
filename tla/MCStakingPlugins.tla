--------------------------- MODULE MCStakingPlugins ---------------------------
(***************************************************************************)
(* TLC instance of PluginHarness for the plugins of native staking, of the *)
(* staking contracts and of the voters' rewards.                           *)
(***************************************************************************)
EXTENDS Delegates, VoterReward, Hermes

Made(b) == <<StakingLog("CandidateRegistered", Undecoded), StakingLog("Staked", b)>>
create1 == Receipt("StakeCreate", "a", 0, "x", 4, <<StakingLog("createStake", 1)>>)
create2 == Receipt("StakeCreate", "b", 0, "y", 3, <<StakingLog("Staked", 2)>>)
register2 == Receipt("CandidateRegister", "x", 0, "x", 3, Made(2))
registerOnly == Receipt("CandidateRegister", "y", 0, "y", 0,
                        <<StakingLog("CandidateRegistered", Undecoded)>>)
transfer == Receipt("TransferStake", "a", 1, "b", 0, <<>>)
change == Receipt("ChangeCandidate", "a", 1, "y", 0, <<>>)
deposit == Receipt("DepositToStake", "b", 1, "", 2, <<>>)
restake(who) == Receipt("Restake", who, 1, 3, 0, <<>>)
unstake(who) == Receipt("Unstake", who, 1, "", 0, <<>>)
deposit2 == Receipt("DepositToStake", "b", 2, "", 1, <<>>)

Moves_ == {transfer, change, deposit, deposit2, restake("a"), restake("b"),
           unstake("a"), unstake("b")}
slash == Receipt("SlashCandidate", "", 2, "x", 1, <<>>)
endorse == Receipt("CandidateEndorsement", "a", 1, "x", 4, <<>>)
Closings == {Receipt("WithdrawStake", "a", 1, "", 0, <<>>),
             Receipt("MigrateStake", "a", 1, "", 0, <<>>)}
exit(kind) == Receipt(kind, "a", 0, "x", 0, <<>>)
Exiting == {exit("CandidateDeactivateRequest"), exit("ScheduleCandidateDeactivation"),
          exit("CandidateDeactivateConfirm"), exit("SetVoterRewardOptIn"),
          Receipt("CandidateEndorsement", "a", 0, "x", 0, <<StakingLog("DeactivationRequested", Undecoded)>>)}

(* What the protocol lets through.  A second restake of an unstaked bucket *)
(* before Greenland is left out, for staking_bucket and account_vote also  *)
(* the first.                                                              *)
LegalReceipt(p, bs, before, h, r) ==
    LET exits == FoldLeft(LAMBDA s, e : IF e.kind \in {"CandidateEndorsement",
                              "CandidateDeactivateRequest"} /\ e.b = 0 THEN "requested"
                              ELSE IF e.kind = "ScheduleCandidateDeactivation" THEN "scheduled"
                              ELSE IF e.kind = "CandidateDeactivateConfirm" THEN "" ELSE s,
                          "", before)
        was(kind) == \E i \in DOMAIN before : before[i].kind = kind
    IN  CASE r.kind \in {"StakeCreate", "CandidateRegister", "SetVoterRewardOptIn"} -> TRUE
          [] r.kind = "CandidateEndorsement" /\ r.b # 0 ->
                r.b \in DOMAIN bs /\ bs[r.b].status = "staked" /\ r.amt = bs[r.b].amt
          [] r.kind \in {"CandidateEndorsement", "CandidateDeactivateRequest"} -> exits = ""
          [] r.kind = "ScheduleCandidateDeactivation" -> exits = "requested"
          [] r.kind = "CandidateDeactivateConfirm" -> exits = "scheduled"
          [] OTHER ->
                /\ r.b \in DOMAIN bs
                /\ r.kind \in {"TransferStake", "Restake", "Unstake"} => bs[r.b].owner = r.who
                /\ r.kind \in {"ChangeCandidate", "DepositToStake", "Unstake", "MigrateStake",
                               "SlashCandidate"} => bs[r.b].status = "staked"
                /\ r.kind = "SlashCandidate" => bs[r.b].cand = r.x
                /\ r.kind = "TransferStake" => bs[r.b].status # "gone"
                /\ r.kind = "WithdrawStake" => bs[r.b].status = "unstaked"
                /\ r.kind = "Restake" =>
                      \/ bs[r.b].status = "staked" /\ (h >= GreenlandHeight \/ ~was("Unstake"))
                      \/ /\ bs[r.b].status = "unstaked" /\ h < GreenlandHeight
                         /\ p \notin {"staking_bucket", "account_vote"} /\ ~was("Restake")

LegalNative(p, ch) ==
    LET all == FlattenSeq([h \in DOMAIN ch |-> [i \in DOMAIN ch[h] |-> [h |-> h, r |-> ch[h][i]]]])
        rs == [i \in DOMAIN all |-> all[i].r]
    IN  \A i \in DOMAIN all : LegalReceipt(p, FoldLeft(Protocol, EmptyTables, SubSeq(rs, 1, i - 1)),
                                       SubSeq(rs, 1, i - 1), all[i].h, all[i].r)

NativeChains(p) ==
    LET opsets == CASE p = "staking_bucket" -> {Moves_ \cup Closings \cup {slash, endorse}}
                    [] p = "staking_actions" -> {Moves_ \cup {slash}, Exiting}
                    [] OTHER -> {Moves_}
        firsts == {<<create1, create2>>, <<create1, register2, registerOnly>>}
        of(ops) == {<<f, <<q, r>>, <<s>> >> : f \in firsts, q \in ops, r \in ops, s \in ops}
    IN  {ch \in UNION {of(ops) : ops \in opsets} : LegalNative(p, ch)}

-----------------------------------------------------------------------------
(* p and q are operators; nobody is operator of one and owner of another. *)
legacy(b) == <<StakingLog("candidateRegister", b)>>
abi(b) == <<StakingLog("CandidateRegistered", Undecoded)>> \o
          (IF b = NoBucket THEN <<>>
           ELSE <<StakingLog("Staked", b), StakingLog("CandidateActivated", b)>>)
register(x, op, b, logs) == CandidateReceipt("CandidateRegister", x, b, x, op, "rew", logs)
update(who, op, reward) == CandidateReceipt("CandidateUpdate", who, 0, None, op, reward, <<>>)
owned(who, x) == CandidateReceipt("CandidateTransferOwnership", who, 0, x, None, None, <<>>)
topicOf(kind) == CASE kind = "CandidateActivate" -> "candidateActivate"
                   [] kind = "CandidateEndorsement" -> "candidateEndorsementWithOp"
                   [] OTHER -> kind
candidacy(kind, b, x) ==
    CandidateReceipt(kind, x, b, x, None, None, <<StakingLog(topicOf(kind), b)>>)
revoke(b, x) == [candidacy("CandidateEndorsement", b, x) EXCEPT !.op = "revoke"]
began(r, x) == [r EXCEPT !.began = x]

CandidateOps(p) ==
    {register("y", "p", NoBucket, abi(NoBucket)), register("y", "q", 2, abi(2)),
     register("y", "q", 2, legacy(2)), candidacy("CandidateActivate", 3, "x"),
     candidacy("CandidateActivate", 3, "y"), candidacy("Unstake", 1, None),
     candidacy("Unstake", 2, None), candidacy("Unstake", 3, None)}
    \cup (IF p = "candidate"
          THEN {update("x", "q", "new"), update("x", "p2", None), update("p2", "p", "rew"),
                update("p", "p2", "new"), owned("x", "z"), update("z", "p2", "rew"),
                owned("p2", "x"), candidacy("CandidateEndorsement", 1, "x"),
                began(candidacy("CandidateActivate", 3, "x"), None),
                began(candidacy("CandidateActivate", 3, "x"), "y")}
          ELSE {[candidacy("CandidateActivate", 3, "y") EXCEPT !.logs = <<>>], revoke(3, "x")})

LegalCandidacy(p, ch) ==
    LET rs == FlattenSeq(ch)
        signed(cs, r) ==
            LET mine == {x \in DOMAIN cs : r.who \in {cs[x].owner, cs[x].op}}
            IN  /\ mine # {}
                /\ r.kind = "CandidateUpdate" =>
                       \A x \in DOMAIN cs \ mine : r.op \notin {cs[x].op, cs[x].owner}
                /\ r.kind = "CandidateTransferOwnership" =>
                       \A x \in DOMAIN cs : r.x \notin {cs[x].op, cs[x].owner}
        was(i, r) == \E j \in 1 .. i - 1 : rs[j] = r
        legal(i, cs, r) ==
            CASE r.kind = "CandidateRegister" ->
                    r.x \notin DOMAIN cs /\ \A x \in DOMAIN cs : r.op \notin {cs[x].op, cs[x].owner}
              [] r.kind = "CandidateActivate" ->
                    /\ r.x \in DOMAIN cs /\ r.began \in DOMAIN cs \cup {None}
                    /\ ~was(i, candidacy("Unstake", r.b, None))
                    /\ \A j \in 1 .. i - 1 : rs[j].kind = r.kind =>
                           rs[j].b # r.b \/ was(i, revoke(r.b, rs[j].x))
              [] r.kind = "CandidateEndorsement" ->
                    /\ r.x \in DOMAIN cs
                    /\ p = "candidate_self_stake" => cs[r.x].b = r.b /\ ~was(i, r)
              [] r.kind = "Unstake" -> ~was(i, r) /\ (p = "candidate_self_stake" => i > 1)
              [] OTHER -> signed(cs, r)
    IN  \A i \in DOMAIN rs :
            legal(i, FoldLeft(Standing, EmptyTables, SubSeq(rs, 1, i - 1)), rs[i])

CandidateChains(p) ==
    LET ops == CandidateOps(p)
        first == register("x", "p", 1, legacy(1))
        second == register("y", "q", NoBucket, legacy(NoBucket))
        all == {<<(<<first>>), <<o, q>>, s>> :
                    o \in ops, q \in ops, s \in {<<r>> : r \in ops} \cup {<<>>}}
        two == IF p = "candidate" THEN {}
               ELSE {<<(<<first, second>>), <<candidacy("CandidateActivate", 3, "x"), revoke(3, "x")>>,
                       <<o, q>> >> : o \in ops, q \in ops}
    IN  {ch \in all \cup two : LegalCandidacy(p, ch)}

forward == Receipt("GovernaceForward", "a", 0, "v", 0, <<>>)
cancel == Receipt("GovernaceCacel", "a", 0, "v", 0, <<>>)
VoteChains ==
    {ch \in NativeChains("account_vote") : \A i \in DOMAIN ch[1] : ch[1][i].kind = "StakeCreate"}
    \cup {<<(<<create1, create2>>), <<forward, q>>, <<s>> >> :
              q \in {deposit2, cancel}, s \in {deposit, cancel, deposit2}}

-----------------------------------------------------------------------------
opened(b, who, amt, n) == <<Event("Transfer", b, who, 0, 0), Event("Staked", b, "x", amt, n)>>
Events_ == {Event("Transfer", 1, "p", 0, 0), Event("Unlocked", 1, "", 0, 0),
            Event("Locked", 1, "", 0, 4), Event("Unstaked", 1, "", 0, 0),
            Event("Withdrawal", 1, "", 0, 0), Event("Merged", 1, {2}, 7, 4),
            Event("BucketExpanded", 1, "", 6, 4), Event("DelegateChanged", 1, "y", 0, 0),
            Event("Donated", 2, "", 1, 0)}

LegalEvent(p, bs, e) ==
    /\ e.b \in DOMAIN bs
    /\ e.name \in {"Locked", "Unstaked"} => bs[e.b].open /\ ~bs[e.b].auto
    /\ e.name \in {"Unlocked", "Merged", "BucketExpanded"} => bs[e.b].open /\ bs[e.b].auto
    /\ e.name = "Merged" => 2 \in DOMAIN bs /\ bs[2].open /\ bs[1].amt + bs[2].amt = e.amt
    /\ e.name = "BucketExpanded" => bs[e.b].amt < e.amt
    /\ e.name \in {"Transfer", "DelegateChanged"} => bs[e.b].open
    /\ e.name = "Withdrawal" => ~bs[e.b].open
    /\ e.name = "Donated" => bs[e.b].open /\ p # "system_staking_bucket_record"

LegalSystem(p, ch) ==
    LET all == FlattenSeq([h \in DOMAIN ch |-> ch[h]])
    IN  \A i \in DOMAIN all :
            \/ all[i].name = "Staked"
            \/ all[i].name = "Transfer" /\ all[i].x = "o"
            \/ LegalEvent(p, FoldLeft(Contract, EmptyTables, SubSeq(all, 1, i - 1)), all[i])

SystemChains(p) ==
    LET firsts == {opened(1, "o", 4, 2) \o opened(2, "o", 3, 4)}
        singles == {<<e>> : e \in Events_} \cup {<<>>}
        pairs == {<<e, f>> : e \in Events_, f \in Events_} \cup singles
        all == IF p = "system_staking_bucket_record"
               THEN {<<(<<>>), f, o, q>> : f \in firsts, o \in singles, q \in pairs}
               ELSE {<<(<<>>), (<<>>), f \o o, q>> : f \in firsts, o \in singles, q \in pairs}
    IN  {ch \in all : LegalSystem(p, ch)}

-----------------------------------------------------------------------------
(* x stands with bucket 1, y with none; the second contract has a bucket   *)
(* for x, which may migrate to the third.                                  *)
standing(x, op, b, amt, logs) ==
    [op |-> op, reward |-> "rew"] @@ Receipt("CandidateRegister", x, b, x, amt, logs)
WorkerFirst ==
    StakeBlock(<<standing("x", "p", 1, 4, legacy(1)),
                 standing("y", "q", NoBucket, 0, legacy(NoBucket))>>,
               opened(1, "o", 2, 1), opened(1, "o", 3, 1), <<>>)
ofNative(r) == StakeBlock(<<r>>, <<>>, <<>>, <<>>)
WorkerBlocks ==
    {StakeBlock(<<>>, <<>>, <<Event("DelegateChanged", 1, Gone, 0, 0)>>,
                <<Event("Transfer", 1, "o", 0, 0), Event("Staked", 1, "x", 3, 1)>>),
     StakeBlock(<<>>, <<Event("DelegateChanged", 1, "y", 0, 0)>>, <<>>, <<>>),
     StakeBlock(<<>>, <<Event("Unlocked", 1, None, 0, 0), Event("Unstaked", 1, None, 0, 0)>>,
                <<>>, <<>>),
     ofNative(create2), ofNative(candidacy("Unstake", 1, None)),
     ofNative(candidacy("CandidateActivate", 1, "x")), ofNative(update("x", "p2", "rew")),
     ofNative(owned("p", "z")), ofNative(owned("x", "z"))}
WorkerChains(p) ==
    LET early == {b \in WorkerBlocks : b.native = <<>>} \cup {ofNative(create2)}
        late == {b \in WorkerBlocks : b.v1 = <<>> /\ b # ofNative(create2)}
    IN  IF p = "delegate"
        THEN {<<WorkerFirst, b, c, d>> : b \in early, c \in WorkerBlocks, d \in late}
        ELSE {<<WorkerFirst, b, c>> : b \in early, c \in WorkerBlocks}
LegalWorker(ch) ==
    LET n(b) == Cardinality({h \in DOMAIN ch : ch[h] = b})
    IN  /\ \A b \in WorkerBlocks : n(b) <= 1
        /\ \A h \in DOMAIN ch : ch[h].v1 = <<Event("DelegateChanged", 1, "y", 0, 0)>> =>
               \A i \in 2 .. h : ch[i].v1 = <<>> \/ i = h
        /\ n(ofNative(owned("p", "z"))) + n(ofNative(owned("x", "z"))) <= 1
        /\ n(ofNative(candidacy("Unstake", 1, None))) + n(ofNative(candidacy("CandidateActivate", 1, "x"))) <= 1
        /\ n(ofNative(update("x", "p2", "rew"))) + n(ofNative(owned("p", "z"))) <= 1
        /\ \A h \in DOMAIN ch : ch[h] = ofNative(update("x", "p2", "rew")) =>
               \A i \in 1 .. h : ch[i] # ofNative(owned("x", "z"))

-----------------------------------------------------------------------------
(* Era 2 is frozen at height 2, closed by height 4, settled in 5 and 6. *)
chunk(paid) == <<Progress(2)>> \o paid
RewardChains ==
    {<<first, freeze, third, <<>>, c1, c2>> :
        first \in {<<>>, <<OptIn("a")>>},
        freeze \in {<<>>, <<Freeze(2, "b")>>, <<Freeze(2, "a"), Freeze(2, "b")>>},
        third \in {<<>>, <<OptIn("a")>>},
        c1 \in {<<>>, chunk(<<Paid(2, "b", 1)>>), chunk(<<Paid(2, "a", 1), Paid(2, "b", 1)>>)},
        c2 \in {<<Destination>>, chunk(<<Paid(2, "b", 2)>>), <<Overrun(2, 1)>>}}

(* Who is paid was opted in when the era was frozen; a log names them all. *)
LegalReward(ch) ==
    LET early == ch[1] # <<>>
    IN  /\ ch[3] = <<>> \/ ~early
        /\ Len(ch[2]) # (IF early THEN 1 ELSE 2)
        /\ Len(ch[5]) = 3 => early
        /\ ch[6] = <<Overrun(2, 1)>> => ch[5] # <<>>

-----------------------------------------------------------------------------
(* a and b share the address P.  Epoch 2 is blocks 3 and 4, epoch 3 opens   *)
(* at 5.  Who is opted in for an era is so for the later ones.             *)
HermesBlock == [grants |-> <<>>, prod |-> "c", exp |-> "c", dist |-> 0,
                profile |-> [n \in {} |-> 0]]
Opening(block, cands, buckets, probation, opted) ==
    [cands |-> cands, buckets |-> buckets, probation |-> probation, opted |-> opted] @@ block
Standings ==
    {{Candidate("a", "P", v[1], 1), Candidate("b", "P", v[2], NoBucket),
      Candidate("c", "Q", v[3], NoBucket)} : v \in {<<5, 3, 4>>, <<4, 4, 4>>}}
Votes == {Bucket(1, "a", "x", 3, TRUE, 4), Bucket(2, "a", "x", 3, TRUE, 0),
          Bucket(1, "a", "x", 5, FALSE, 4), Bucket(3, "b", "x", 3, TRUE, 1),
          Bucket(4, "gone", "x", 2, TRUE, 1)}
HermesChains ==
    {<<Opening([HermesBlock EXCEPT !.profile = [n \in {"a"} |-> 7]], cands, Votes, {}, eras[1]),
       HermesBlock,
       Opening([HermesBlock EXCEPT !.grants = grants[1], !.prod = makes[1], !.exp = "a"],
               {c \in cands : c.name # "b"}, Votes, probation, eras[2]),
       [HermesBlock EXCEPT !.grants = grants[2], !.prod = makes[2], !.exp = makes[3], !.dist = 1],
       Opening([HermesBlock EXCEPT !.dist = 2], cands, Votes, {"a"}, eras[3]),
       [HermesBlock EXCEPT !.dist = 1]>> :
         cands \in Standings,
         eras \in {<<NoConfig, NoConfig, NoConfig>>, <<NoConfig, {"a"}, {"a", "b"}>>,
                   <<{"a"}, {"a"}, {"a"}>>, <<{"a"}, {"a", "b"}, {"a", "b"}>>},
         grants \in {<< <<Grant("P", "block", 3)>>, <<Grant("P", "block", 4), Grant("Q", "epoch", 5),
                        Grant("P", "epoch", 7), Grant("P", "bonus", 5)>> >>,
                     << <<Grant("R", "block", 2)>>, <<Grant("P", "bonus", 3)>> >>, << <<>>, <<>> >>},
         makes \in {<<"a", "b", "b">>, <<"b", "b", "b">>, <<"a", "a", "c">>},
         probation \in {{}, {"a"}}}

-----------------------------------------------------------------------------
MCWorkers == {"delegate", "delegate_record"}
MCCandidateIDs == <<"x", "y">>
(* No property says what failures make of staking_actions_ch; nothing that *)
(* a tick of delegate_record leaves behind is met by the next one.         *)
MCFaultsOf(p) == CASE p = "staking_actions_ch" -> 0 [] p = "delegate_record" -> 1 [] OTHER -> 2
MCChains(p) ==
    CASE p \in SystemPlugins -> SystemChains(p)
      [] p = "hermes" -> HermesChains
      [] p = "voter_reward" -> {ch \in RewardChains : LegalReward(ch)}
      [] p \in {"candidate", "candidate_self_stake"} -> CandidateChains(p)
      [] p = "account_vote" -> VoteChains
      [] p \in MCWorkers -> {ch \in WorkerChains(p) : LegalWorker(ch)}
      [] OTHER -> NativeChains(p)
MCBatchOf(p) == CASE p \in SystemPlugins -> 1 [] p = "hermes" -> EpochLength [] OTHER -> 3

MCFresh(p) == CASE p = "staking_actions_ch" -> SinkFresh
                [] p \in SystemPlugins -> [b |-> [h |-> 0, c |-> <<>>]]
                [] p = "voter_reward" -> New
                [] p = "hermes" -> [ch |-> <<>>]
                [] p \in MCWorkers -> [ch |-> <<>>, report |-> {}]
                [] OTHER -> [batch |-> <<>>]

MCStartOf(p, m, d, h, ch) ==
    CASE p = "staking_actions_ch" -> staking_actions_ch_Start(m, d, h)
      [] p = "system_staking_bucket_record" -> record_Start(m, d, h)
      [] p = "system_staking_bucket_v2_record" -> v2_record_Start(m, d, h)
      [] p = "system_staking_bucket_v3_record" -> v3_record_Start(m, d, h)
      [] p = "voter_reward" -> voter_reward_Start(m, d, h)
      [] p = "hermes" -> hermes_Start(m, d, h, ch)
      [] p \in MCWorkers -> worker_Start(m, d, h, ch)
      [] OTHER -> Started(m, AutoMigrate(d, h), h)

MCPutOf(p, m, d, b) ==
    CASE p \in SystemPlugins -> NowAt(m, b)
      [] p = "voter_reward" -> voter_reward_putBlock(m, b)
      [] p = "hermes" -> {Ok(m)}
      [] p = "delegate" -> delegate_delegate(m, b.h)
      [] p = "delegate_record" -> record_delegate(m, b.h)
      [] OTHER -> Collect(m, b)

MCCommitOf(p, m, d, from, to) ==
    CASE p = "staking_bucket" -> staking_bucket_PutBlocks(m, d, to)
      [] p = "staking_actions" -> staking_actions_PutBlocks(m, d, to)
      [] p = "staking_actions_ch" -> staking_actions_ch_PutBlocks(m, d, to)
      [] p = "system_staking_bucket_record" -> record_PutBlock(m, d, to)
      [] p = "system_staking_bucket_v2_record" -> v2_record_PutBlock(m, d, to)
      [] p = "system_staking_bucket_v3_record" -> v3_record_PutBlock(m, d, to)
      [] p = "voter_reward" -> voter_reward_commit(m, d, to)
      [] p = "hermes" -> hermes_PutBlocks(m, d, from, to)
      [] p = "delegate" -> delegate_commit(m, d, to)
      [] p = "delegate_record" -> record_commit(m, d, to)
      [] p = "candidate" -> candidate_PutBlocks(m, d, to)
      [] p = "candidate_self_stake" -> self_stake_PutBlocks(m, d, to)
      [] p = "account_vote" -> account_vote_PutBlocks(m, d, to)
=============================================================================

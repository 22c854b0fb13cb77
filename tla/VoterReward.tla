----------------------------- MODULE VoterReward -----------------------------
(***************************************************************************)
(* service/voter_reward: the payouts of an era, the era's plan and totals, *)
(* and what each delegate had configured when the era was frozen.          *)
(*                                                                         *)
(* A block is its sequence of logs.  What the chain answers to a read at a *)
(* height is external: an era is named after its last epoch and settled in *)
(* chunks after that epoch's last block, by what was frozen FreezeLead     *)
(* blocks before it.  The next freeze comes after the last chunk.          *)
(***************************************************************************)
EXTENDS BlockPlugins

CONSTANTS EpochsPerRewardEra, FreezeLead,
          Delegates,       \* candidates of the staking protocol
          Migrated         \* opted in at the fork, without an action

ASSUME EpochsPerRewardEra > 0 /\ Migrated \subseteq Delegates

Paid(era, d, amt) == [kind |-> "paid", era |-> era, d |-> d, amt |-> amt]
OptIn(d) == [kind |-> "optIn", d |-> d]
Freeze(era, d) == [kind |-> "freeze", era |-> era, d |-> d]
Progress(era) == [kind |-> "progress", era |-> era]
Overrun(era, residue) == [kind |-> "overrun", era |-> era, amt |-> residue]
Destination == [kind |-> "destination"]

GetEpochLastBlockHeight(e) == EpochHeight(e + 1) - 1
IsEraBoundary(e) == e % EpochsPerRewardEra = 0
FrozenAt(era) == GetEpochLastBlockHeight(era) - FreezeLead
Eras == {e \in 1 .. MaxHeight : IsEraBoundary(e) /\ FrozenAt(e) > 0
                                 /\ GetEpochLastBlockHeight(e) <= MaxHeight}
Said(h, l) == \E i \in DOMAIN chain[h] : chain[h][i] = l

ChunkHeights(era) == {h \in DOMAIN chain : Said(h, Progress(era))}
LastChunk(era) == CHOOSE h \in ChunkHeights(era) : \A g \in ChunkHeights(era) : g <= h
OnchainRewardEnabled(d, h) == d \in Migrated \/ \E g \in 1 .. h : Said(g, OptIn(d))
InSettlement(era, d) == OnchainRewardEnabled(d, FrozenAt(era))

VoterAmountFrozen(era, d) ==
    FoldLeft(LAMBDA s, b :
                 FoldLeft(LAMBDA t, l : IF l.kind = "paid" /\ l.era = era /\ l.d = d
                                        THEN t + l.amt ELSE t, s, b), 0, chain)
TotalFrozen(era) == FoldSet(LAMBDA d, s : s + VoterAmountFrozen(era, d), 0, Delegates)

(* ReadDistributionState: the era being settled, 0 if there never was one. *)
TargetEra(h) ==
    LET opened == {e \in Eras : ChunkHeights(e) # {} /\ GetEpochLastBlockHeight(e) <= h}
    IN  IF opened = {} THEN 0 ELSE CHOOSE e \in opened : \A f \in opened : f <= e

(* ReadDelegateSnapshot: the freeze height of the latest snapshot, or 0. *)
ReadDelegateSnapshot(d, h) ==
    LET frozen == {e \in Eras : FrozenAt(e) <= h /\ InSettlement(e, d)}
    IN  IF frozen = {} THEN 0
        ELSE FrozenAt(CHOOSE e \in frozen : \A f \in frozen : f <= e)

-----------------------------------------------------------------------------
NewEra == [count |-> 0, distributed |-> 0, freeze |-> 0, first |-> 0, frozen |-> 0,
           delegates |-> 0, completed |-> 0, last |-> 0, residue |-> 0]

WithoutPending(m) ==
    [m EXCEPT !.pendingRows = NoRows, !.pendingDestinations = NoRows,
              !.pendingEras = EmptyTables, !.pendingConfigs = NoRows]

New == [candidates |-> 0, optInSeen |-> EmptyTables, frozenSnaps |-> EmptyTables,
        eraSeen |-> {}, eraDone |-> {}, eraStatePass |-> {},
        pendingEraSeen |-> {}, pendingEraDone |-> {}, pendingEraStatePass |-> {},
        chunkEras |-> {}, pendingRows |-> NoRows, pendingDestinations |-> NoRows,
        pendingEras |-> EmptyTables, pendingConfigs |-> NoRows]

era(m, e) == IF e \in DOMAIN m.pendingEras THEN m.pendingEras[e] ELSE NewEra
SetEra(m, e, changes) ==
    [m EXCEPT !.pendingEras = (e :> (changes @@ era(m, e))) @@ @]

isEraSeen(m, e) == e \in m.eraSeen \cup m.pendingEraSeen
isEraDone(m, e) == e \in m.eraDone \cup m.pendingEraDone
isEraStatePassed(m, e) == e \in m.eraStatePass \cup m.pendingEraStatePass

(* A step is the fields after it and the fields its failures may leave. *)
Fine(m) == [m |-> m, errs |-> {}]
Read(m) == [m |-> m, errs |-> {m}]
Joined(s, t) == [m |-> t.m, errs |-> s.errs \cup t.errs]
Then(s, step(_)) == Joined(s, step(s.m))

(* Each delegate's freeze height comes from the era's logs, if this process *)
(* saw them, otherwise from the chain.  The delegates come in any order.   *)
frozenSnapshot(m, e, d, h) ==
    IF e \in DOMAIN m.frozenSnaps
    THEN IF d \in m.frozenSnaps[e] THEN FrozenAt(e) ELSE 0
    ELSE ReadDelegateSnapshot(d, h)

DelegateConfig(m, e, d, h, amt) ==
    LET on == OnchainRewardEnabled(d, h)
        acted == d \in DOMAIN m.optInSeen
    IN  Row(<<"config", d, e>>,
            [h |-> h, on |-> on, freeze |-> frozenSnapshot(m, e, d, h), amt |-> amt,
             source |-> IF ~on THEN "" ELSE IF acted THEN "action" ELSE "migration",
             optInHeight |-> IF on /\ acted THEN m.optInSeen[d] ELSE 0])

snapshotDelegateConfigs(m, e, h, amount) ==
    LET some(S) == [m EXCEPT !.pendingConfigs =
                        @ \o Rows({DelegateConfig(m, e, d, h, amount[d]) : d \in S})]
    IN  [m |-> some(Delegates),
         errs |-> {some(S) : S \in SUBSET Delegates \ {Delegates}}]

OptedIn(h) == Cardinality({d \in Delegates : OnchainRewardEnabled(d, h)})

ensureEraPlan(m, e, h) ==
    LET planned == SetEra(m, e, [freeze |-> FrozenAt(e), frozen |-> TotalFrozen(e),
                                 first |-> IF era(m, e).first = 0 THEN h
                                           ELSE era(m, e).first])
        counted(n) == Fine([SetEra(n, e, [delegates |-> OptedIn(h)])
                            EXCEPT !.pendingEraSeen = @ \cup {e}])
        all == snapshotDelegateConfigs(planned, e, h, [d \in Delegates |-> VoterAmountFrozen(e, d)])
        s == Then(all, counted)
    IN  IF isEraSeen(m, e) THEN Fine(m)
        ELSE IF TargetEra(h) # e THEN Read(m)
        ELSE [s EXCEPT !.errs = @ \cup {m}]

consumeLog(m, h, i, l) ==
    LET x == era(m, l.era)
        S == IF l.era \in DOMAIN m.frozenSnaps THEN m.frozenSnaps[l.era] ELSE {}
        n == CASE l.kind = "paid" ->
                    [SetEra(m, l.era, [count |-> x.count + 1, last |-> h,
                                       distributed |-> x.distributed + l.amt])
                        EXCEPT !.pendingRows = Append(@, Row(<<"paid", h, i>>, l))]
               [] l.kind = "optIn" -> [m EXCEPT !.optInSeen = @ @@ (l.d :> h)]
               [] l.kind = "freeze" ->
                    [m EXCEPT !.frozenSnaps = (l.era :> S \cup {l.d}) @@ @]
               [] l.kind = "destination" ->
                    [m EXCEPT !.pendingDestinations = Append(@, Row(<<"destination", h, i>>, 1))]
               [] l.kind = "progress" ->
                    [SetEra(m, l.era, [last |-> h]) EXCEPT !.chunkEras = @ \cup {l.era}]
               [] l.kind = "overrun" -> SetEra(m, l.era, [residue |-> l.amt])
    IN  IF l.kind \in {"paid", "progress"} THEN ensureEraPlan(n, l.era, h) ELSE Fine(n)

(* The phase a chunk leaves behind is only seen in the state after it. *)
refreshChunkedEras(m, h) ==
    LET e == TargetEra(h)
        complete == h >= LastChunk(e)
        settled == [SetEra(m, e, [completed |-> LastChunk(e)])
                 EXCEPT !.pendingEraDone = IF e \in m.eraDone THEN @ ELSE @ \cup {e}]
    IN  IF \A c \in m.chunkEras : isEraDone(m, c) THEN Fine(m)
        ELSE IF e \notin m.chunkEras THEN Read(m)
        ELSE [m |-> IF complete THEN settled ELSE SetEra(m, e, <<>>), errs |-> {m}]

(* The pass over the chain's state at the last block of an era, for an era *)
(* that no chunk will ever show.                                           *)
indexFrozenEra(m, h) ==
    LET e == EpochNum(h)
        s == snapshotDelegateConfigs(m, e, h, [d \in Delegates |-> 0])
        snaps == {frozenSnapshot(m, e, d, h) : d \in Delegates} \ {0}
        passed(n) == Fine([SetEra(n, e, [freeze |-> CHOOSE f \in snaps : TRUE,
                                         delegates |-> OptedIn(h)])
                           EXCEPT !.pendingEraStatePass = @ \cup {e}])
    IN  IF \/ ~IsEraBoundary(e) \/ h # GetEpochLastBlockHeight(e)
           \/ isEraStatePassed(m, e) \/ isEraSeen(m, e)
        THEN Fine(m)
        ELSE IF snaps = {} THEN s ELSE Then(s, passed)

refreshCandidatesIfNeeded(m, h) ==
    IF h # EpochHeight(EpochNum(h)) /\ m.candidates # 0 THEN Fine(m)
    ELSE [m |-> [m EXCEPT !.candidates = h - 1], errs |-> {m}]

Outcomes(s) == {Ok(s.m)} \cup {Err(e) : e \in s.errs}

voter_reward_putBlock(m, b) ==
    LET s0 == refreshCandidatesIfNeeded(m, b.h)
        s1 == Then(s0, LAMBDA n : Fine([n EXCEPT !.chunkEras = {}]))
        s2 == FoldLeft(LAMBDA s, i : Then(s, LAMBDA n : consumeLog(n, b.h, i, b.c[i])),
                       s1, [i \in DOMAIN b.c |-> i])
        s3 == Then(s2, LAMBDA n : refreshChunkedEras(n, b.h))
        s4 == Then(s3, LAMBDA n : indexFrozenEra(n, b.h))
    IN  Outcomes(s4)

-----------------------------------------------------------------------------
upsertEra(d, e, x) ==
    LET k == <<"era", e>>
        old == d[k]
        later == IF x.last > old.last THEN x.last ELSE old.last
        plan == IF x.freeze = 0 THEN <<>>
                ELSE [freeze |-> x.freeze, delegates |-> x.delegates, frozen |-> x.frozen]
        new == plan @@
            [old EXCEPT !.count = @ + x.count, !.distributed = @ + x.distributed,
                        !.last = later,
                        !.first = IF @ = 0 THEN x.first ELSE @,
                        !.completed = IF x.completed # 0 THEN x.completed ELSE @,
                        !.residue = IF x.residue # 0 THEN x.residue ELSE @]
    IN  (k :> IF k \in DOMAIN d THEN new ELSE x) @@ d

(* The attribution is left alone by the upsert and only ever upgraded. *)
upsertConfig(d, k, c) ==
    LET old == d[k]
        upgrade == \/ c.source = "migration" /\ old.source = ""
                   \/ c.source = "action" /\ old.source # "action"
    IN  (k :> IF k \notin DOMAIN d \/ upgrade THEN c
              ELSE [c EXCEPT !.source = old.source, !.optInHeight = old.optInHeight]) @@ d

(* dedupeConfigs keeps the last of each key. *)
dedupeConfigs(rows) ==
    LET kept == SelectSeq([i \in DOMAIN rows |-> i],
                          LAMBDA i : \A j \in DOMAIN rows : rows[j].k = rows[i].k => j <= i)
    IN  [n \in DOMAIN kept |-> rows[kept[n]]]

(* Mutant: what the failed batch has earned is kept. *)
dropPendingMemos_Keeps(m) == m

dropPendingMemos(m) ==
    [m EXCEPT !.pendingEraSeen = {}, !.pendingEraDone = {}, !.pendingEraStatePass = {}]

promotePendingMemos(m) ==
    LET n == [m EXCEPT !.eraSeen = @ \cup m.pendingEraSeen,
                       !.eraDone = @ \cup m.pendingEraDone,
                       !.eraStatePass = @ \cup m.pendingEraStatePass]
    IN  [dropPendingMemos(n) EXCEPT !.frozenSnaps =
            [e \in DOMAIN @ \ (n.eraSeen \cup n.eraStatePass) |-> @[e]]]

voter_reward_commit(m, d, to) ==
    LET paid == CHOOSE x \in Run(d, <<Ignore(m.pendingRows),
                                      Serial(m.pendingDestinations)>>) : TRUE
        eras == FoldSet(LAMBDA e, x : upsertEra(x, e, m.pendingEras[e]), paid,
                        DOMAIN m.pendingEras)
        all == FoldLeft(LAMBDA x, r : upsertConfig(x, r.k, r.v), eras,
                        dedupeConfigs(m.pendingConfigs))
        failed == dropPendingMemos(WithoutPending(m))
    IN  {Commits(<<Tx(failed, <<Become(all)>>, to)>>, promotePendingMemos(WithoutPending(m)))}

(* The opt-ins seen before a restart are those some config row tells of. *)
voter_reward_Start(m, d, h) ==
    LET d0 == AutoMigrate(d, h)
        told == {k \in DOMAIN d0 : k[1] = "config" /\ d0[k].source = "action"}
        of(x) == CHOOSE k \in told : k[2] = x
    IN  Started([m EXCEPT !.optInSeen =
                    @ @@ [x \in {k[2] : k \in told} |-> d0[of(x)].optInHeight]], d0, h)

-----------------------------------------------------------------------------
PaidRows(e) == {k \in DOMAIN db : k[1] = "paid" /\ db[k].era = e}
PaidOut(e) == FoldSet(LAMBDA k, s : s + db[k].amt, 0, PaidRows(e))

(* What is paid is paid by a plan: an era with indexed payouts has its freeze *)
(* height, the frozen total, the completion the chain had, and the         *)
(* configuration of every delegate with its share, whatever batch, replay  *)
(* or process saw which chunk, and its totals leave no payout out.  A memo *)
(* that outlived the rows it stands for would leave them out for good.     *)
PlanRecorded ==
    plugin = "voter_reward" =>
        \A e \in {f \in Eras : \E k \in PaidRows(f) : k[2] <= row} :
            /\ <<"era", e>> \in DOMAIN db
            /\ LET x == db[<<"era", e>>]
               IN  /\ x.freeze = FrozenAt(e) /\ x.frozen = TotalFrozen(e)
                   /\ x.count >= Cardinality(PaidRows(e))
                   /\ PaidOut(e) <= x.distributed /\ PaidOut(e) <= x.frozen
                   /\ row >= LastChunk(e) => x.completed = LastChunk(e)
            /\ \A d \in Delegates :
                   /\ <<"config", d, e>> \in DOMAIN db
                   /\ LET c == db[<<"config", d, e>>]
                      IN  /\ c.freeze = IF InSettlement(e, d) THEN FrozenAt(e) ELSE 0
                          /\ c.amt = VoterAmountFrozen(e, d)
                          /\ c.source = "action" => Said(c.optInHeight, OptIn(d))

(* plugins/voter_reward/readme.md:8-10: the era summary has to agree with  *)
(* the payout rows it summarises.                                          *)
EraAgrees ==
    plugin = "voter_reward" =>
        \A e \in {f \in Eras : <<"era", f>> \in DOMAIN db} :
            /\ db[<<"era", e>>].count = Cardinality(PaidRows(e))
            /\ db[<<"era", e>>].distributed = PaidOut(e)
=============================================================================

------------------------- MODULE SystemStakingProofs -------------------------
(***************************************************************************)
(* Theorems about SystemStaking, for every chain, every height of the      *)
(* upgrades and every number of faults: MatchesContract, the invariant     *)
(* that the run StakingPlugins checks on chains of a few blocks, holds for *)
(* the three versions of the plugin.                                       *)
(*                                                                         *)
(* Rel says how the tables stand to the contract.  A bucket's rows add up  *)
(* to what it holds and its last row is the bucket; its weight is `old'    *)
(* before Redsea, `new' after, and `any' once the fix of v1 has failed and *)
(* was passed over.  One lemma per event shows that Rel is kept by an      *)
(* event, another that the halving's copies keep it, a third that v1's fix *)
(* does; then that a block does, in each version's PutBlock.               *)
(*                                                                         *)
(* IInv puts that on the runner: what is in the database fits the recorded *)
(* height, and when the transactions that are left of the block under way  *)
(* are committed it fits the next.  v1 has three transactions in the block *)
(* at which its fix is due, and may be stopped, fail or lose an answer     *)
(* after each of them.                                                     *)
(***************************************************************************)
EXTENDS SystemStaking, TableProofs, SequenceTheorems

(* The sum of a bucket's amounts is a fold over its rows. *)
SumStep(q, k, s) == s + q[k].amt
SumFold == INSTANCE FoldLemmas WITH step <- SumStep, pick <- AnyOf

Sum(d, S) == SumFold!Iter(d, 0, S)

(* The balance of a bucket is that sum over its rows. *)
LEMMA SumIs == \A d, b : SumOf(d, b) = Sum(d, OfBucket(d, b))
  BY DEF SumOf, Sum, FoldSet, MapThenFoldSet, SumFold!Iter, SumStep, AnyOf

(* A finite set is one that the fold can go through. *)
LEMMA SumFacts ==
    ASSUME NEW S, IsFiniteSet(S)
    PROVE  SumFold!Picks(S) /\ SumFold!IsFiniteSet(S)
  BY DEF AnyOf, SumFold!Picks, IsFiniteSet, SumFold!IsFiniteSet

(* The order in which a sum is taken does not matter. *)
LEMMA SumTake ==
    ASSUME NEW d, NEW S, IsFiniteSet(S), \A k \in S : d[k].amt \in Int
    PROVE  /\ Sum(d, S) \in Int
           /\ \A x \in S : Sum(d, S) = Sum(d, S \ {x}) + d[x].amt
  <1> DEFINE Good(s) == /\ Sum(d, s) \in Int
                        /\ \A x \in s : Sum(d, s) = Sum(d, s \ {x}) + d[x].amt
             Bad == {s \in SUBSET S : ~Good(s)}
  <1>1. Bad \in SUBSET SUBSET S
    OBVIOUS
  <1>2. SUFFICES ASSUME Bad # {} PROVE FALSE
    <2>1. S \notin Bad => Good(S)
      OBVIOUS
    <2> HIDE DEF Bad
    <2> QED BY <2>1
  <1>3. PICK s \in Bad : \A t \in Bad : t \subseteq s => t = s
    <2> HIDE DEF Bad
    <2> QED BY <1>1, <1>2, SumFacts, SumFold!Least
  <1>4. s \subseteq S /\ ~Good(s)
    OBVIOUS
  <1>5. \A t : t \subseteq s /\ t # s => Good(t)
    <2> SUFFICES ASSUME NEW t, t \subseteq s, t # s PROVE Good(t)
      OBVIOUS
    <2>1. t \notin Bad
      <3> HIDE DEF Bad
      <3> QED BY <1>3
    <2> HIDE DEF Good
    <2> QED BY <2>1, <1>4
  <1>6. IsFiniteSet(s)
    BY <1>4, FS_Subset
  <1>7. CASE s = {}
    <2>1. Sum(d, s) = 0
      BY <1>7, SumFold!IterEmpty DEF Sum
    <2> QED BY <2>1, <1>4, <1>7
  <1>8. CASE s # {}
    <2> DEFINE z == AnyOf(s)
               a(x) == d[x].amt
    <2>1. z \in s
      BY <1>8 DEF AnyOf
    <2>2. Sum(d, s) = Sum(d, s \ {z}) + a(z)
      BY <1>6, <1>8, SumFacts, SumFold!IterStep DEF Sum, SumStep
    <2>3. \A x \in s : a(x) \in Int
      BY <1>4
    <2> HIDE DEF z, a
    <2>4. s \ {z} \subseteq s /\ s \ {z} # s
      BY <2>1
    <2>5. Good(s \ {z})
      BY <2>4, <1>5
    <2>6. Sum(d, s \ {z}) \in Int
      BY <2>5
    <2>7. ASSUME NEW x \in s PROVE Sum(d, s) = Sum(d, s \ {x}) + a(x)
      <3>1. CASE x = z
        BY <3>1, <2>2
      <3>2. CASE x # z
        <4>1. x \in s \ {z} /\ z \in s \ {x} /\ s \ {x} \subseteq s /\ s \ {x} # s
          BY <2>1, <2>7, <3>2
        <4>2. Good(s \ {x})
          BY <4>1, <1>5
        <4>3. Sum(d, s \ {z}) = Sum(d, (s \ {z}) \ {x}) + a(x)
          BY <4>1, <2>5 DEF a
        <4>4. Sum(d, s \ {x}) = Sum(d, (s \ {x}) \ {z}) + a(z)
          BY <4>1, <4>2 DEF a
        <4>5. (s \ {z}) \ {x} = (s \ {x}) \ {z}
          OBVIOUS
        <4>6. (s \ {x}) \ {z} \subseteq s /\ (s \ {x}) \ {z} # s
          BY <2>1
        <4>7. Sum(d, (s \ {x}) \ {z}) \in Int /\ Sum(d, s \ {x}) \in Int
          BY <4>2, <4>6, <1>5
        <4>8. a(x) \in Int /\ a(z) \in Int
          BY <2>1, <2>3
        <4> HIDE DEF Good
        <4>9. PICK u : u = Sum(d, (s \ {x}) \ {z})
          OBVIOUS
        <4>10. Sum(d, s \ {z}) = u + a(x) /\ Sum(d, s \ {x}) = u + a(z) /\ u \in Int
          BY <4>3, <4>4, <4>5, <4>7, <4>9
        <4>11. Sum(d, s) = (u + a(x)) + a(z) /\ Sum(d, s \ {x}) + a(x) = (u + a(z)) + a(x)
          BY <4>10, <2>2
        <4>12. (u + a(x)) + a(z) = (u + a(z)) + a(x)
          BY <4>8, <4>10
        <4> QED BY <4>11, <4>12
      <3> QED BY <3>1, <3>2
    <2>8. Sum(d, s) \in Int
      BY <2>2, <2>6, <2>1, <2>3
    <2>9. Good(s)
      BY <2>7, <2>8 DEF a
    <2> QED BY <2>9, <1>4
  <1> QED BY <1>7, <1>8

(* Rows elsewhere do not matter. *)
LEMMA SumSame ==
    ASSUME NEW d, NEW e, NEW S, IsFiniteSet(S), \A k \in S : d[k].amt = e[k].amt
    PROVE  Sum(d, S) = Sum(e, S)
  <1>1. \A x \in S : \A a : SumStep(d, x, a) = SumStep(e, x, a)
    BY DEF SumStep
  <1> QED BY <1>1, SumFacts, SumFold!IterSame DEF Sum
-----------------------------------------------------------------------------
Columns == {"b", "h", "owner", "cand", "staked", "amt", "vp", "auto", "dur",
            "muted", "type"}

(* The rows have the keys 1, 2, ... in the order in which they were added. *)
IdsUpTo(n) == {<<T, i>> : i \in 1 .. n}
RowsOf(d) == {k \in DOMAIN d : k[1] = T}
Log(d) ==
    /\ \E n \in Nat : RowsOf(d) = IdsUpTo(n)
    /\ \A k \in RowsOf(d) : d[k].amt \in Int /\ DOMAIN d[k] = Columns

(* n keys are finitely many, and one more row adds the next key. *)
LEMMA IdsFacts ==
    ASSUME NEW n \in Nat
    PROVE  /\ IsFiniteSet(IdsUpTo(n)) /\ Cardinality(IdsUpTo(n)) = n
           /\ IdsUpTo(n + 1) = IdsUpTo(n) \cup {<<T, n + 1>>}
           /\ <<T, n + 1>> \notin IdsUpTo(n)
           /\ \A k \in IdsUpTo(n) : k[1] = T /\ Id(k) \in 1 .. n /\ k = <<T, Id(k)>>
  <1>1. IdsUpTo(n + 1) = IdsUpTo(n) \cup {<<T, n + 1>>}
    <2>1. 1 .. n + 1 = (1 .. n) \cup {n + 1}
      OBVIOUS
    <2> QED BY <2>1 DEF IdsUpTo
  <1>2. \A k \in IdsUpTo(n) : k[1] = T /\ Id(k) \in 1 .. n /\ k = <<T, Id(k)>>
    BY DEF IdsUpTo, Id
  <1>3. <<T, n + 1>> \notin IdsUpTo(n)
    <2>1. Id(<<T, n + 1>>) = n + 1
      BY DEF Id
    <2> QED BY <1>2, <2>1
  <1>4. IsFiniteSet(IdsUpTo(n)) /\ Cardinality(IdsUpTo(n)) = n
    <2> DEFINE f == [i \in 1 .. n |-> <<T, i>>]
    <2>1. f \in Bijection(1 .. n, IdsUpTo(n))
      <3>1. f \in [1 .. n -> IdsUpTo(n)]
        BY DEF IdsUpTo
      <3>2. \A i, j \in 1 .. n : f[i] = f[j] => i = j
        OBVIOUS
      <3>3. \A k \in IdsUpTo(n) : \E i \in 1 .. n : f[i] = k
        BY DEF IdsUpTo
      <3> QED BY <3>1, <3>2, <3>3 DEF Bijection, Injection, Surjection, IsInjective
    <2>2. IsFiniteSet(1 .. n) /\ Cardinality(1 .. n) = n
      <3>1. 1 \in Int /\ n \in Int
        OBVIOUS
      <3>2. IsFiniteSet(1 .. n) /\ Cardinality(1 .. n) = IF 1 > n THEN 0 ELSE n - 1 + 1
        BY <3>1, FS_Interval
      <3> QED BY <3>2
    <2>3. ExistsBijection(1 .. n, IdsUpTo(n))
      BY <2>1 DEF ExistsBijection
    <2> QED BY <2>2, <2>3, FS_Bijection
  <1> QED BY <1>1, <1>2, <1>3, <1>4

(* Of some rows one is the last. *)
IsLast(S, k) == k \in S /\ \A l \in S : Id(l) <= Id(k)

(* Some rows of a log, not none, have a last one. *)
LEMMA LastExists ==
    ASSUME NEW n \in Nat, NEW S, S \subseteq IdsUpTo(n), S # {}
    PROVE  \E k : IsLast(S, k)
  <1> DEFINE Below == {m \in Nat : \A k \in S : Id(k) <= n - m}
  <1> SUFFICES ASSUME \A k \in S : \E l \in S : ~(Id(l) <= Id(k)) PROVE FALSE
    BY DEF IsLast
  <1>1. \A k \in S : Id(k) \in 1 .. n
    BY IdsFacts
  <1>2. 0 \in Below
    BY <1>1
  <1>3. ASSUME NEW m \in Below PROVE m + 1 \in Below
    <2>1. m \in Nat /\ \A k \in S : Id(k) <= n - m
      OBVIOUS
    <2>2. ASSUME NEW k \in S PROVE Id(k) <= n - (m + 1)
      <3>1. PICK l \in S : ~(Id(l) <= Id(k))
        OBVIOUS
      <3>2. Id(l) \in Int /\ Id(k) \in Int /\ Id(l) <= n - m
        BY <1>1, <2>1
      <3> QED BY <3>1, <3>2, <2>1
    <2> QED BY <2>1, <2>2
  <1>4. Below = Nat
    <2> HIDE DEF Below
    <2>1. Below \in SUBSET Nat
      BY DEF Below
    <2> QED BY <1>2, <1>3, <2>1, SetInduction
  <1>5. n \in Below
    BY <1>4
  <1>6. \A k \in S : Id(k) <= n - n
    BY <1>5
  <1> QED BY <1>1, <1>6

(* What one more row changes. *)
LEMMA AddedIs ==
    ASSUME NEW d, Log(d), NEW r, r.amt \in Int, DOMAIN r = Columns
    PROVE  /\ Log(Added(d, r))
           /\ Fixed \in DOMAIN Added(d, r) => Fixed \in DOMAIN d
           /\ OfBucket(Added(d, r), r.b) # {}
           /\ InfoOf(Added(d, r), r.b) = r
           /\ SumOf(Added(d, r), r.b) = SumOf(d, r.b) + r.amt
           /\ \A c : c # r.b =>
                 /\ OfBucket(Added(d, r), c) = OfBucket(d, c)
                 /\ SumOf(Added(d, r), c) = SumOf(d, c)
                 /\ OfBucket(d, c) # {} => InfoOf(Added(d, r), c) = InfoOf(d, c)
  <1>1. PICK n \in Nat : RowsOf(d) = IdsUpTo(n)
    BY DEF Log
  <1> DEFINE new == <<T, n + 1>>
             e == Added(d, r)
  <1>2. NextKey(d) = new
    <2>1. {k \in DOMAIN d : k[1] = T} = IdsUpTo(n)
      BY <1>1 DEF RowsOf
    <2>2. Cardinality(IdsUpTo(n)) = n
      BY IdsFacts
    <2>3. 1 + n = n + 1
      OBVIOUS
    <2> QED BY <2>1, <2>2, <2>3 DEF NextKey
  <1>3. new \notin RowsOf(d) /\ new[1] = T
    BY <1>1, IdsFacts
  <1>4. new \notin DOMAIN d
    BY <1>3 DEF RowsOf
  <1>5. /\ DOMAIN e = DOMAIN d \cup {new}
        /\ e[new] = r
        /\ \A k \in DOMAIN d : e[k] = d[k]
    BY <1>2, <1>4 DEF Added, Over
  <1> HIDE DEF e
  <1>6. RowsOf(e) = RowsOf(d) \cup {new}
    BY <1>3, <1>5 DEF RowsOf
  <1>7. RowsOf(e) = IdsUpTo(n + 1)
    BY <1>1, <1>6, IdsFacts
  <1>8. RowsOf(d) \subseteq DOMAIN d
    BY DEF RowsOf
  <1>9. Log(e)
    <2>1. \A k \in RowsOf(e) : e[k].amt \in Int /\ DOMAIN e[k] = Columns
      BY <1>5, <1>6, <1>8 DEF Log
    <2>2. n + 1 \in Nat
      OBVIOUS
    <2> QED BY <1>7, <2>1, <2>2 DEF Log
  <1>10. OfBucket(e, r.b) = OfBucket(d, r.b) \cup {new}
    <2> HIDE DEF new
    <2> QED BY <1>3, <1>4, <1>5 DEF OfBucket
  <1>11. \A c : c # r.b => OfBucket(e, c) = OfBucket(d, c)
    <2> HIDE DEF new
    <2> QED BY <1>3, <1>4, <1>5 DEF OfBucket
  <1>12. \A c : OfBucket(d, c) \subseteq IdsUpTo(n) /\ OfBucket(d, c) \subseteq DOMAIN d
    BY <1>1 DEF OfBucket, RowsOf
  <1>13. \A c : IsFiniteSet(OfBucket(d, c))
    BY <1>12, IdsFacts, FS_Subset
  <1>14. \A c : Sum(e, OfBucket(d, c)) = Sum(d, OfBucket(d, c))
    <2> SUFFICES ASSUME NEW c PROVE Sum(e, OfBucket(d, c)) = Sum(d, OfBucket(d, c))
      OBVIOUS
    <2>1. \A k \in OfBucket(d, c) : e[k].amt = d[k].amt
      BY <1>5, <1>12
    <2> QED BY <2>1, <1>13, SumSame
  <1>15. SumOf(e, r.b) = SumOf(d, r.b) + r.amt
    <2> DEFINE S == OfBucket(d, r.b)
    <2>1. IsFiniteSet(S \cup {new})
      BY <1>13, FS_AddElement
    <2>2. \A k \in S \cup {new} : e[k].amt \in Int
      <3>1. S \cup {new} \subseteq RowsOf(e)
        BY <1>6 DEF OfBucket, RowsOf
      <3> QED BY <3>1, <1>9 DEF Log
    <2>3. (S \cup {new}) \ {new} = S
      BY <1>4, <1>12
    <2>4. Sum(e, S \cup {new}) = Sum(e, S) + e[new].amt
      <3> HIDE DEF new, S
      <3>1. Sum(e, S \cup {new}) = Sum(e, (S \cup {new}) \ {new}) + e[new].amt
        BY <2>1, <2>2, SumTake
      <3> QED BY <3>1, <2>3
    <2> QED BY <2>4, <1>5, <1>10, <1>14, SumIs
  <1>16. \A c : c # r.b => SumOf(e, c) = SumOf(d, c)
    BY <1>11, <1>14, SumIs
  <1>17. InfoOf(e, r.b) = r
    <2>1. Id(new) = n + 1 /\ n + 1 \in Int
      BY DEF Id
    <2>2. \A k \in OfBucket(d, r.b) : Id(k) \in 1 .. n
      BY <1>12, IdsFacts
    <2>3. IsLast(OfBucket(e, r.b), new)
      BY <1>10, <2>1, <2>2 DEF IsLast
    <2>4. \A k : IsLast(OfBucket(e, r.b), k) => k = new
      <3> SUFFICES ASSUME NEW k, IsLast(OfBucket(e, r.b), k) PROVE k = new
        OBVIOUS
      <3>1. k \in OfBucket(e, r.b) /\ Id(new) <= Id(k)
        BY <2>3 DEF IsLast
      <3>2. k \notin OfBucket(d, r.b)
        BY <2>1, <2>2, <3>1
      <3> QED BY <1>10, <3>1, <3>2
    <2> HIDE DEF new
    <2>5. (CHOOSE k \in OfBucket(e, r.b) : \A l \in OfBucket(e, r.b) : Id(l) <= Id(k)) = new
      BY <2>3, <2>4 DEF IsLast
    <2> QED BY <2>5, <1>5 DEF InfoOf
  <1>18. \A c : c # r.b /\ OfBucket(d, c) # {} => InfoOf(e, c) = InfoOf(d, c)
    <2> SUFFICES ASSUME NEW c, c # r.b, OfBucket(d, c) # {} PROVE InfoOf(e, c) = InfoOf(d, c)
      OBVIOUS
    <2> DEFINE k0 == CHOOSE k \in OfBucket(d, c) : \A l \in OfBucket(d, c) : Id(l) <= Id(k)
    <2>1. \E k : IsLast(OfBucket(d, c), k)
      BY <1>12, LastExists
    <2>2. k0 \in OfBucket(d, c)
      BY <2>1 DEF IsLast
    <2>3. InfoOf(d, c) = d[k0]
      BY DEF InfoOf
    <2>4. InfoOf(e, c) = e[k0]
      BY <1>11 DEF InfoOf
    <2> HIDE DEF k0
    <2> QED BY <2>2, <2>3, <2>4, <1>5, <1>12
  <1>19. OfBucket(e, r.b) # {}
    BY <1>10
  <1>20. Fixed \in DOMAIN e => Fixed \in DOMAIN d
    <2>1. Fixed[1] = "store" /\ "store" # T
      BY DEF Fixed, T
    <2>2. Fixed # new
      BY <1>3, <2>1
    <2> HIDE DEF new
    <2> QED BY <1>5, <2>2
  <1> QED BY <1>9, <1>11, <1>15, <1>16, <1>17, <1>18, <1>19, <1>20 DEF e
-----------------------------------------------------------------------------
(* What the last row of a bucket says. *)
LEMMA InfoFacts ==
    ASSUME NEW d, Log(d), NEW b
    PROVE  /\ SumOf(d, b) \in Int
           /\ OfBucket(d, b) = {} => SumOf(d, b) = 0
           /\ OfBucket(d, b) # {} => InfoOf(d, b).b = b /\ DOMAIN InfoOf(d, b) = Columns
  <1>1. PICK n \in Nat : RowsOf(d) = IdsUpTo(n)
    BY DEF Log
  <1>2. OfBucket(d, b) \subseteq RowsOf(d)
    BY DEF OfBucket, RowsOf
  <1>3. IsFiniteSet(OfBucket(d, b))
    BY <1>1, <1>2, IdsFacts, FS_Subset
  <1>4. SumOf(d, b) \in Int
    <2>1. \A k \in OfBucket(d, b) : d[k].amt \in Int
      BY <1>2 DEF Log
    <2> QED BY <1>3, <2>1, SumTake, SumIs
  <1>5. OfBucket(d, b) = {} => SumOf(d, b) = 0
    BY SumIs, SumFold!IterEmpty DEF Sum
  <1>6. ASSUME OfBucket(d, b) # {}
        PROVE  InfoOf(d, b).b = b /\ DOMAIN InfoOf(d, b) = Columns
    <2> DEFINE k0 == CHOOSE k \in OfBucket(d, b) : \A l \in OfBucket(d, b) : Id(l) <= Id(k)
    <2>1. \E k : IsLast(OfBucket(d, b), k)
      BY <1>1, <1>2, <1>6, LastExists
    <2>2. k0 \in OfBucket(d, b)
      BY <2>1 DEF IsLast
    <2>3. InfoOf(d, b) = d[k0]
      BY DEF InfoOf
    <2> HIDE DEF k0
    <2>4. d[k0].b = b
      BY <2>2 DEF OfBucket
    <2>5. DOMAIN d[k0] = Columns
      BY <2>2, <1>2 DEF Log
    <2> QED BY <2>3, <2>4, <2>5
  <1> QED BY <1>4, <1>5, <1>6

-----------------------------------------------------------------------------
(* The types a duration is stored with, by version and height, and the     *)
(* durations it can be stored with exactly.                                *)
TypeAt(v, h) == IF v = "v3" THEN 2 ELSE IF Half(v, h) THEN 1 ELSE 0
Whole(v, h, n) ==
    /\ n \in Int
    /\ TypeAt(v, h) = 0 => \E days \in Int : Lasting(v, h, n) = days * Day

(* A lawful duration is stored and read back without loss, in days or in   *)
(* intervals.                                                              *)
LEMMA RoundTrip ==
    ASSUME NEW v, NEW h, NEW n, Whole(v, h, n)
    PROVE  /\ Lasting(v, h, n) \in Int
           /\ DurationByType(Lasting(v, h, n), TypeAt(v, h)) \in Int
           /\ DurationFromType(DurationByType(Lasting(v, h, n), TypeAt(v, h)), TypeAt(v, h))
              = Lasting(v, h, n)
  <1>1. n \in Int /\ Lasting(v, h, n) \in Int
    BY DEF Whole, Lasting, BlocksToDuration
  <1>2. CASE TypeAt(v, h) # 0
    BY <1>1, <1>2 DEF DurationByType, DurationFromType
  <1>3. CASE TypeAt(v, h) = 0
    <2>1. PICK days \in Int : Lasting(v, h, n) = days * Day
      BY <1>3 DEF Whole
    <2>2. Day \in Nat \ {0}
      BY SystemAssumption
    <2>3. (days * Day) \div Day = days
      BY <2>2, Z3
    <2> QED BY <1>1, <1>3, <2>1, <2>3 DEF DurationByType, DurationFromType
  <1> QED BY <1>2, <1>3

(* Weights of rows: of before Redsea, of after it, or whatever a fix that  *)
(* failed has left.                                                        *)
Suits(w, h) == w = "any" \/ w = IF h < RedseaHeight THEN "old" ELSE "new"
WeightOf(w, duration, c) == IF w = "old" THEN <<c.amt>> ELSE <<c.amt, duration, c.auto>>
BucketColumns == {"owner", "cand", "amt", "auto", "n", "open"}

(* The row i and the sum of the amounts are those of the bucket c. *)
Agrees(v, w, h, i, sum, c, fresh) ==
    /\ DOMAIN c = BucketColumns /\ c.amt \in Int
    /\ sum = c.amt /\ i.staked = c.amt
    /\ ~c.open => c.amt = 0
    /\ c.open =>
          /\ i.owner = c.owner /\ i.cand = c.cand /\ i.auto = c.auto
          /\ Whole(v, h, c.n)
          /\ i.type = TypeAt(v, h)
          /\ i.dur = DurationByType(Lasting(v, h, c.n), TypeAt(v, h))
          /\ \/ fresh
             \/ w = "any"
             \/ i.vp = WeightOf(w, Lasting(v, h, c.n), c)

(* The tables are those of the contract bs, where the buckets F have been  *)
(* minted and not been staked; rows of before Redsea have not been fixed.  *)
Rel(v, w, h, d, bs, F) ==
    /\ Log(d)
    /\ w = "old" => Fixed \notin DOMAIN d
    /\ \A b : b \in DOMAIN bs <=> OfBucket(d, b) # {}
    /\ \A b \in DOMAIN bs : Agrees(v, w, h, InfoOf(d, b), SumOf(d, b), bs[b], b \in F)

(* A row added for bucket b keeps the tables right when the row, with the  *)
(* amount it brings, agrees with what the contract now has of b: the other *)
(* buckets are untouched.                                                  *)
LEMMA RowStep ==
    ASSUME NEW v, NEW w, NEW h, NEW d, NEW bs, NEW F, Rel(v, w, h, d, bs, F),
           NEW b, NEW r, r.b = b, r.amt \in Int, DOMAIN r = Columns,
           NEW G, F \ {b} \subseteq G,
           NEW c, Agrees(v, w, h, r, SumOf(d, b) + r.amt, c, b \in G),
           NEW bs2, DOMAIN bs2 = DOMAIN bs \cup {b}, bs2[b] = c,
           \A x \in DOMAIN bs : x # b => bs2[x] = bs[x]
    PROVE  Rel(v, w, h, Added(d, r), bs2, G)
  <1>1. Log(d)
    BY DEF Rel
  <1>2. /\ Log(Added(d, r)) /\ OfBucket(Added(d, r), b) # {}
        /\ InfoOf(Added(d, r), b) = r
        /\ SumOf(Added(d, r), b) = SumOf(d, b) + r.amt
        /\ \A x : x # b =>
              /\ OfBucket(Added(d, r), x) = OfBucket(d, x)
              /\ SumOf(Added(d, r), x) = SumOf(d, x)
              /\ OfBucket(d, x) # {} => InfoOf(Added(d, r), x) = InfoOf(d, x)
        /\ w = "old" => Fixed \notin DOMAIN Added(d, r)
    BY <1>1, AddedIs DEF Rel
  <1>3. \A x : x \in DOMAIN bs2 <=> OfBucket(Added(d, r), x) # {}
    BY <1>2 DEF Rel
  <1>4. ASSUME NEW x \in DOMAIN bs2
        PROVE  Agrees(v, w, h, InfoOf(Added(d, r), x), SumOf(Added(d, r), x), bs2[x], x \in G)
    <2>1. CASE x = b
      BY <2>1, <1>2
    <2>2. CASE x # b
      <3>1. x \in DOMAIN bs /\ bs2[x] = bs[x] /\ (x \in F => x \in G)
        BY <2>2
      <3>2. OfBucket(d, x) # {}
        BY <3>1 DEF Rel
      <3>3. Agrees(v, w, h, InfoOf(d, x), SumOf(d, x), bs[x], x \in F)
        BY <3>1 DEF Rel
      <3>4. Agrees(v, w, h, InfoOf(d, x), SumOf(d, x), bs[x], x \in G)
        BY <3>1, <3>3 DEF Agrees
      <3> QED BY <1>2, <2>2, <3>1, <3>2, <3>4
    <2> QED BY <2>1, <2>2
  <1> QED BY <1>2, <1>3, <1>4 DEF Rel

(* A row that restates a bucket. *)
Again(d, h, b, changes) == Over(changes, Over([h |-> h, amt |-> 0], InfoOf(d, b)))

(* The row that restates a bucket, column by column. *)
LEMMA AgainIs ==
    ASSUME NEW d, NEW h, NEW b, NEW changes, DOMAIN changes \subseteq Columns \ {"b"},
           DOMAIN InfoOf(d, b) = Columns
    PROVE  /\ DOMAIN Again(d, h, b, changes) = Columns
           /\ \A x \in Columns :
                 Again(d, h, b, changes)[x]
                 = IF x \in DOMAIN changes THEN changes[x]
                   ELSE IF x = "h" THEN h ELSE IF x = "amt" THEN 0 ELSE InfoOf(d, b)[x]
  <1> DEFINE base == [h |-> h, amt |-> 0]
             i == InfoOf(d, b)
  <1>1. DOMAIN base = {"h", "amt"} /\ base["h"] = h /\ base["amt"] = 0
    OBVIOUS
  <1>2. {"h", "amt"} \subseteq Columns
    BY DEF Columns
  <1> HIDE DEF base, i
  <1>3. /\ DOMAIN Over(base, i) = Columns
        /\ \A x \in Columns : Over(base, i)[x] = IF x \in DOMAIN base THEN base[x] ELSE i[x]
    BY <1>1, <1>2 DEF Over, i
  <1> DEFINE g == Over(base, i)
  <1> HIDE DEF g
  <1>4. /\ DOMAIN Over(changes, g) = Columns
        /\ \A x \in Columns : Over(changes, g)[x] = IF x \in DOMAIN changes THEN changes[x] ELSE g[x]
    BY <1>3 DEF Over, g
  <1>5. Again(d, h, b, changes) = Over(changes, g)
    BY DEF Again, g, base, i
  <1>6. \A x \in Columns : g[x] = IF x = "h" THEN h ELSE IF x = "amt" THEN 0 ELSE i[x]
    BY <1>1, <1>3 DEF g
  <1> HIDE DEF g
  <1> QED BY <1>4, <1>5, <1>6 DEF i
-----------------------------------------------------------------------------
(* An event with which an open bucket gets another stake, lock or duration. *)
LEMMA WeighStep ==
    ASSUME NEW v, NEW w, NEW h, NEW d, NEW bs, NEW F, Rel(v, w, h, d, bs, F), Suits(w, h),
           NEW b \in DOMAIN bs, bs[b].open,
           NEW changes, DOMAIN changes \subseteq Columns \ {"b", "owner"},
           {"staked", "auto", "dur", "type", "vp"} \subseteq DOMAIN changes,
           NEW delta \in Int,
           delta = IF "amt" \in DOMAIN changes THEN changes["amt"] ELSE 0,
           NEW c, DOMAIN c = BucketColumns,
           c.owner = bs[b].owner, c.open,
           c.cand = IF "cand" \in DOMAIN changes THEN changes["cand"] ELSE bs[b].cand,
           c.amt = SumOf(d, b) + delta,
           Whole(v, h, c.n),
           changes["staked"] = c.amt, changes["auto"] = c.auto,
           changes["type"] = InfoOf(d, b).type,
           changes["dur"] = DurationByType(Lasting(v, h, c.n), InfoOf(d, b).type),
           changes["vp"] = GetVoteWeight(h, Lasting(v, h, c.n), c.amt, c.auto),
           NEW bs2, DOMAIN bs2 = DOMAIN bs, bs2[b] = c,
           \A x \in DOMAIN bs : x # b => bs2[x] = bs[x],
           NEW e
    PROVE  Rel(v, w, h, Restated(d, h, e, b, changes), bs2, F \ {b})
  <1> DEFINE i == InfoOf(d, b)
             r == Again(d, h, b, changes)
  <1>1. Log(d) /\ OfBucket(d, b) # {} /\ Agrees(v, w, h, i, SumOf(d, b), bs[b], b \in F)
    BY DEF Rel
  <1>2. SumOf(d, b) \in Int /\ i.b = b /\ DOMAIN i = Columns
    BY <1>1, InfoFacts
  <1>3. /\ DOMAIN r = Columns
        /\ \A x \in Columns :
              r[x] = IF x \in DOMAIN changes THEN changes[x]
                     ELSE IF x = "h" THEN h ELSE IF x = "amt" THEN 0 ELSE i[x]
    <2>1. DOMAIN changes \subseteq Columns \ {"b"}
      OBVIOUS
    <2> QED BY <1>2, <2>1, AgainIs
  <1> HIDE DEF r
  <1>4. /\ r.b = b /\ r.amt = delta /\ r.staked = c.amt /\ r.auto = c.auto
        /\ r.owner = i.owner /\ r.type = i.type
        /\ r.dur = DurationByType(Lasting(v, h, c.n), i.type)
        /\ r.vp = GetVoteWeight(h, Lasting(v, h, c.n), c.amt, c.auto)
        /\ r.cand = IF "cand" \in DOMAIN changes THEN changes["cand"] ELSE i.cand
    <2> HIDE DEF i
    <2>1. {"b", "amt", "staked", "auto", "owner", "type", "dur", "vp", "cand"} \subseteq Columns
      BY DEF Columns
    <2> QED BY <1>2, <1>3, <2>1 DEF i
  <1>5. i.owner = bs[b].owner /\ i.cand = bs[b].cand /\ i.type = TypeAt(v, h)
    BY <1>1 DEF Agrees
  <1>6. w = "any" \/ r.vp = WeightOf(w, Lasting(v, h, c.n), c)
    BY <1>4 DEF Suits, GetVoteWeight, WeightOf
  <1>7. c.amt \in Int /\ SumOf(d, b) + r.amt = c.amt
    BY <1>2, <1>4
  <1>8. Agrees(v, w, h, r, SumOf(d, b) + r.amt, c, b \in F \ {b})
    BY <1>4, <1>5, <1>6, <1>7 DEF Agrees
  <1>9. Restated(d, h, e, b, changes) = Added(d, r)
    BY DEF Restated, r, Again
  <1>10. DOMAIN bs2 = DOMAIN bs \cup {b}
    OBVIOUS
  <1>11. r.amt \in Int
    BY <1>4
  <1>12. F \ {b} \subseteq F \ {b}
    OBVIOUS
  <1>13. Rel(v, w, h, Added(d, r), bs2, F \ {b})
    <2> HIDE DEF i
    <2> QED BY <1>3, <1>4, <1>8, <1>10, <1>11, <1>12, RowStep
  <1> QED BY <1>9, <1>13

(* An event that closes a bucket. *)
LEMMA CloseStep ==
    ASSUME NEW v, NEW w, NEW h, NEW d, NEW bs, NEW F, Rel(v, w, h, d, bs, F),
           NEW b \in DOMAIN bs,
           NEW changes, DOMAIN changes \subseteq Columns \ {"b"},
           {"staked", "amt"} \subseteq DOMAIN changes,
           changes["staked"] = 0, changes["amt"] = -SumOf(d, b),
           NEW bs2, DOMAIN bs2 = DOMAIN bs,
           DOMAIN bs2[b] = BucketColumns, bs2[b].open = FALSE, bs2[b].amt = 0,
           \A x \in DOMAIN bs : x # b => bs2[x] = bs[x],
           NEW e
    PROVE  Rel(v, w, h, Restated(d, h, e, b, changes), bs2, F)
  <1> DEFINE i == InfoOf(d, b)
             r == Again(d, h, b, changes)
  <1>1. Log(d) /\ OfBucket(d, b) # {}
    BY DEF Rel
  <1>2. SumOf(d, b) \in Int /\ i.b = b /\ DOMAIN i = Columns
    BY <1>1, InfoFacts
  <1>3. /\ DOMAIN r = Columns
        /\ \A x \in Columns :
              r[x] = IF x \in DOMAIN changes THEN changes[x]
                     ELSE IF x = "h" THEN h ELSE IF x = "amt" THEN 0 ELSE i[x]
    BY <1>2, AgainIs
  <1> HIDE DEF r
  <1>4. r.b = b /\ r.amt = -SumOf(d, b) /\ r.staked = 0
    <2> HIDE DEF i
    <2>1. {"b", "amt", "staked"} \subseteq Columns
      BY DEF Columns
    <2> QED BY <1>2, <1>3, <2>1 DEF i
  <1>5. SumOf(d, b) + r.amt = 0 /\ r.amt \in Int
    BY <1>2, <1>4
  <1>6. Agrees(v, w, h, r, SumOf(d, b) + r.amt, bs2[b], b \in F)
    BY <1>4, <1>5 DEF Agrees
  <1>7. Restated(d, h, e, b, changes) = Added(d, r)
    BY DEF Restated, r, Again
  <1>8. DOMAIN bs2 = DOMAIN bs \cup {b} /\ F \ {b} \subseteq F
    OBVIOUS
  <1>9. Rel(v, w, h, Added(d, r), bs2, F)
    <2> HIDE DEF i
    <2>1. PICK c, G : c = bs2[b] /\ G = F
      OBVIOUS
    <2>2. Agrees(v, w, h, r, SumOf(d, b) + r.amt, c, b \in G) /\ F \ {b} \subseteq G
      BY <1>6, <2>1
    <2>3. Rel(v, w, h, d, bs, F)
      OBVIOUS
    <2>4. r.b = b /\ r.amt \in Int /\ DOMAIN r = Columns
      BY <1>3, <1>4, <1>5
    <2>5. DOMAIN bs2 = DOMAIN bs \cup {b} /\ \A x \in DOMAIN bs : x # b => bs2[x] = bs[x]
      BY <1>8
    <2>6. Rel(v, w, h, Added(d, r), bs2, G)
      BY ONLY <2>1, <2>2, <2>3, <2>4, <2>5, RowStep
    <2> QED BY <2>1, <2>6
  <1> QED BY <1>7, <1>9

(* An event that leaves stake and lock alone, or meets a closed bucket. *)
LEMMA KeepStep ==
    ASSUME NEW v, NEW w, NEW h, NEW d, NEW bs, NEW F, Rel(v, w, h, d, bs, F),
           NEW b \in DOMAIN bs,
           NEW changes, DOMAIN changes \subseteq Columns \ {"b", "amt"},
           NEW c, DOMAIN c = BucketColumns, c.amt = bs[b].amt,
           c.open => bs[b].open, ~c.open => c.amt = 0,
           "staked" \in DOMAIN changes => changes["staked"] = c.amt,
           c.open => /\ DOMAIN changes \subseteq {"owner", "cand"}
                     /\ c.n = bs[b].n /\ c.auto = bs[b].auto
                     /\ c.owner = IF "owner" \in DOMAIN changes THEN changes["owner"]
                                  ELSE bs[b].owner
                     /\ c.cand = IF "cand" \in DOMAIN changes THEN changes["cand"]
                                 ELSE bs[b].cand,
           NEW bs2, DOMAIN bs2 = DOMAIN bs, bs2[b] = c,
           \A x \in DOMAIN bs : x # b => bs2[x] = bs[x],
           NEW e
    PROVE  Rel(v, w, h, Restated(d, h, e, b, changes), bs2, F)
  <1> DEFINE i == InfoOf(d, b)
             r == Again(d, h, b, changes)
  <1>1. Log(d) /\ OfBucket(d, b) # {} /\ Agrees(v, w, h, i, SumOf(d, b), bs[b], b \in F)
    BY DEF Rel
  <1>2. SumOf(d, b) \in Int /\ i.b = b /\ DOMAIN i = Columns
    BY <1>1, InfoFacts
  <1>3. /\ DOMAIN r = Columns
        /\ \A x \in Columns :
              r[x] = IF x \in DOMAIN changes THEN changes[x]
                     ELSE IF x = "h" THEN h ELSE IF x = "amt" THEN 0 ELSE i[x]
    <2>1. DOMAIN changes \subseteq Columns \ {"b"}
      OBVIOUS
    <2> QED BY <1>2, <2>1, AgainIs
  <1> HIDE DEF r
  <1>4. /\ r.b = b /\ r.amt = 0
        /\ r.staked = IF "staked" \in DOMAIN changes THEN changes["staked"] ELSE i.staked
    <2> HIDE DEF i
    <2>1. {"b", "amt", "staked"} \subseteq Columns
      BY DEF Columns
    <2> QED BY <1>2, <1>3, <2>1 DEF i
  <1>5. ASSUME DOMAIN changes \subseteq {"owner", "cand"}
        PROVE  /\ r.auto = i.auto /\ r.type = i.type /\ r.dur = i.dur /\ r.vp = i.vp
               /\ r.owner = IF "owner" \in DOMAIN changes THEN changes["owner"] ELSE i.owner
               /\ r.cand = IF "cand" \in DOMAIN changes THEN changes["cand"] ELSE i.cand
    <2> HIDE DEF i
    <2>1. {"auto", "type", "dur", "vp", "owner", "cand"} \subseteq Columns
      BY DEF Columns
    <2> QED BY <1>3, <1>5, <2>1
  <1>6. i.staked = c.amt /\ SumOf(d, b) + r.amt = c.amt /\ c.amt \in Int /\ r.amt \in Int
    BY <1>1, <1>2, <1>4 DEF Agrees
  <1>7. c.amt = bs[b].amt /\ (~c.open => c.amt = 0)
    OBVIOUS
  <1>8. ASSUME c.open
        PROVE  /\ r.owner = c.owner /\ r.cand = c.cand /\ r.auto = c.auto
               /\ Whole(v, h, c.n)
               /\ r.type = TypeAt(v, h)
               /\ r.dur = DurationByType(Lasting(v, h, c.n), TypeAt(v, h))
               /\ b \in F \/ w = "any" \/ r.vp = WeightOf(w, Lasting(v, h, c.n), c)
    <2>1. bs[b].open
      BY <1>8
    <2>2. /\ i.owner = bs[b].owner /\ i.cand = bs[b].cand /\ i.auto = bs[b].auto
          /\ Whole(v, h, bs[b].n)
          /\ i.type = TypeAt(v, h)
          /\ i.dur = DurationByType(Lasting(v, h, bs[b].n), TypeAt(v, h))
          /\ b \in F \/ w = "any" \/ i.vp = WeightOf(w, Lasting(v, h, bs[b].n), bs[b])
      BY <1>1, <2>1 DEF Agrees
    <2>3. WeightOf(w, Lasting(v, h, c.n), c) = WeightOf(w, Lasting(v, h, bs[b].n), bs[b])
      BY <1>8 DEF WeightOf
    <2> HIDE DEF i
    <2> QED BY <1>5, <1>8, <2>2, <2>3
  <1>9. r.staked = c.amt
    BY <1>4, <1>6
  <1>10. Agrees(v, w, h, r, SumOf(d, b) + r.amt, c, b \in F)
    <2> HIDE DEF i
    <2> QED BY <1>6, <1>7, <1>8, <1>9 DEF Agrees
  <1>11. Restated(d, h, e, b, changes) = Added(d, r)
    BY DEF Restated, r, Again
  <1>12. DOMAIN bs2 = DOMAIN bs \cup {b} /\ F \ {b} \subseteq F
    OBVIOUS
  <1>13. Rel(v, w, h, Added(d, r), bs2, F)
    <2> HIDE DEF i
    <2>1. PICK G : G = F
      OBVIOUS
    <2>2. Agrees(v, w, h, r, SumOf(d, b) + r.amt, c, b \in G) /\ F \ {b} \subseteq G
      BY <1>10, <2>1
    <2>3. Rel(v, w, h, d, bs, F)
      OBVIOUS
    <2>4. r.b = b /\ r.amt \in Int /\ DOMAIN r = Columns
      BY <1>3, <1>4, <1>6
    <2>5. /\ DOMAIN bs2 = DOMAIN bs \cup {b} /\ bs2[b] = c
          /\ \A x \in DOMAIN bs : x # b => bs2[x] = bs[x]
      BY <1>12
    <2>6. Rel(v, w, h, Added(d, r), bs2, G)
      BY ONLY <2>2, <2>3, <2>4, <2>5, RowStep
    <2> QED BY <2>1, <2>6
  <1> QED BY <1>11, <1>13
-----------------------------------------------------------------------------
(* The events one by one. *)
LawfulEvent(v, h, bs, e) ==
    /\ e.name \in {"Transfer", "Staked", "Unstaked", "Locked", "Unlocked", "Merged",
                   "BucketExpanded", "DelegateChanged", "Withdrawal", "Donated"}
    /\ e.name # "Transfer" => e.b \in DOMAIN bs
    /\ e.name \notin {"Transfer", "Withdrawal"} => bs[e.b].open
    /\ e.name = "Withdrawal" => ~bs[e.b].open
    /\ e.name \in {"Staked", "Merged", "BucketExpanded", "Donated"} => e.amt \in Int
    /\ e.name \in {"Staked", "Merged", "BucketExpanded", "Locked"} => Whole(v, h, e.n)
    /\ e.name = "Merged" => IsFiniteSet(e.x) /\ e.x \subseteq DOMAIN bs \ {e.b}

(* The bucket that an event leaves minted and not yet staked. *)
Minted(bs, e) == IF e.name = "Transfer" /\ e.b \notin DOMAIN bs THEN {e.b} ELSE {}

(* The contract with one bucket changed. *)
ChangedTo(bs, b, c) == Over([x \in {b} |-> c], bs)

(* An event that weighs the bucket anew, with the columns `extra' besides. *)
LEMMA WeighEvent ==
    ASSUME NEW v, NEW w, NEW h, NEW d, NEW bs, NEW F, Rel(v, w, h, d, bs, F), Suits(w, h),
           NEW b \in DOMAIN bs, bs[b].open,
           NEW extra, DOMAIN extra \subseteq {"amt", "cand", "muted"},
           NEW c, DOMAIN c = BucketColumns,
           c.owner = bs[b].owner, c.open,
           c.cand = IF "cand" \in DOMAIN extra THEN extra["cand"] ELSE bs[b].cand,
           c.amt \in Int,
           c.amt - SumOf(d, b) = IF "amt" \in DOMAIN extra THEN extra["amt"] ELSE 0,
           Whole(v, h, c.n),
           NEW bs2, DOMAIN bs2 = DOMAIN bs, bs2[b] = c,
           \A x \in DOMAIN bs : x # b => bs2[x] = bs[x],
           NEW e
    PROVE  Rel(v, w, h,
               Restated(d, h, e, b,
                   Over(extra, Weighed(v, d, h, b, c.amt, Lasting(v, h, c.n), c.auto,
                                       InfoOf(d, b).type))),
               bs2, F \ {b})
  <1> DEFINE i == InfoOf(d, b)
             u == Weighed(v, d, h, b, c.amt, Lasting(v, h, c.n), c.auto, i.type)
             changes == Over(extra, u)
             W == {"staked", "auto", "dur", "type", "vp", "muted"}
  <1>1. /\ DOMAIN u = W
        /\ u["staked"] = c.amt /\ u["auto"] = c.auto /\ u["type"] = i.type
        /\ u["dur"] = DurationByType(Lasting(v, h, c.n), i.type)
        /\ u["vp"] = GetVoteWeight(h, Lasting(v, h, c.n), c.amt, c.auto)
    BY DEF Weighed
  <1> HIDE DEF u, i
  <1>2. DOMAIN changes = DOMAIN extra \cup W
    BY <1>1 DEF Over
  <1>3. /\ \A x \in DOMAIN extra : changes[x] = extra[x]
        /\ \A x \in {"staked", "auto", "dur", "type", "vp"} : changes[x] = u[x]
    BY <1>1 DEF Over
  <1> HIDE DEF changes
  <1>4. /\ DOMAIN changes \subseteq Columns \ {"b", "owner"}
        /\ {"staked", "auto", "dur", "type", "vp"} \subseteq DOMAIN changes
    BY <1>2 DEF Columns
  <1>5. /\ c.amt - SumOf(d, b) = IF "amt" \in DOMAIN changes THEN changes["amt"] ELSE 0
        /\ c.cand = IF "cand" \in DOMAIN changes THEN changes["cand"] ELSE bs[b].cand
    BY <1>2, <1>3
  <1>6. /\ changes["staked"] = c.amt /\ changes["auto"] = c.auto /\ changes["type"] = i.type
        /\ changes["dur"] = DurationByType(Lasting(v, h, c.n), i.type)
        /\ changes["vp"] = GetVoteWeight(h, Lasting(v, h, c.n), c.amt, c.auto)
    BY <1>1, <1>3
  <1>7. Rel(v, w, h, Restated(d, h, e, b, changes), bs2, F \ {b})
    <2>1. Log(d) /\ SumOf(d, b) \in Int
      BY InfoFacts DEF Rel
    <2>2. PICK delta \in Int : delta = c.amt - SumOf(d, b)
      BY <2>1
    <2>3. c.amt = SumOf(d, b) + delta
      BY <2>1, <2>2
    <2> QED BY <1>4, <1>5, <1>6, <2>2, <2>3, WeighStep DEF i
  <1> QED BY <1>7 DEF changes, u, i

(* Staked: the amount is added to the balance and the bucket gets its      *)
(* delegate.                                                               *)
LEMMA StakedStep ==
    ASSUME NEW v, NEW w, NEW h, NEW d, NEW bs, NEW F, Rel(v, w, h, d, bs, F), Suits(w, h),
           NEW e, LawfulEvent(v, h, bs, e), e.name = "Staked"
    PROVE  Rel(v, w, h, Staked(v, d, h, e), Contract(bs, e), F \ {e.b})
  <1> DEFINE b == e.b
             i == InfoOf(d, b)
             extra == [amt |-> e.amt, cand |-> e.x]
             upd == [cand |-> e.x, amt |-> bs[b].amt + e.amt, auto |-> TRUE, n |-> e.n]
             c == Over(upd, bs[b])
  <1>1. b \in DOMAIN bs /\ bs[b].open /\ e.amt \in Int /\ Whole(v, h, e.n)
    BY DEF LawfulEvent
  <1>2. Agrees(v, w, h, i, SumOf(d, b), bs[b], b \in F)
    BY <1>1 DEF Rel
  <1>3. /\ DOMAIN bs[b] = BucketColumns /\ SumOf(d, b) = bs[b].amt
        /\ v = "v3" => i.type = 2
    BY <1>1, <1>2 DEF Agrees, TypeAt
  <1>4. Contract(bs, e) = ChangedTo(bs, b, c)
    BY DEF Contract, ChangedTo
  <1>5. Staked(v, d, h, e)
        = Restated(d, h, e, b, Over(extra, Weighed(v, d, h, b, SumOf(d, b) + e.amt,
                                                   Lasting(v, h, e.n), TRUE, i.type)))
    BY <1>3 DEF Staked
  <1>6. DOMAIN extra = {"amt", "cand"} /\ extra["amt"] = e.amt /\ extra["cand"] = e.x
    OBVIOUS
  <1>7. /\ DOMAIN upd = {"cand", "amt", "auto", "n"}
        /\ upd["cand"] = e.x /\ upd["amt"] = bs[b].amt + e.amt /\ upd["auto"] = TRUE
        /\ upd["n"] = e.n
    OBVIOUS
  <1> HIDE DEF extra, upd, i
  <1>8. /\ DOMAIN c = BucketColumns
        /\ c.cand = e.x /\ c.amt = SumOf(d, b) + e.amt /\ c.auto = TRUE /\ c.n = e.n
        /\ c.owner = bs[b].owner /\ c.open = bs[b].open
    <2>1. DOMAIN upd \subseteq DOMAIN bs[b]
      BY <1>3, <1>7 DEF BucketColumns
    <2>2. {"owner", "open"} \subseteq DOMAIN bs[b] /\ {"owner", "open"} \cap DOMAIN upd = {}
      BY <1>3, <1>7 DEF BucketColumns
    <2> QED BY <1>3, <1>7, <2>1, <2>2 DEF Over
  <1> HIDE DEF c, b
  <1> DEFINE bs2 == ChangedTo(bs, b, c)
  <1>9. DOMAIN bs2 = DOMAIN bs /\ bs2[b] = c /\ \A x \in DOMAIN bs : x # b => bs2[x] = bs[x]
    <2>1. DOMAIN bs \cup {b} = DOMAIN bs
      BY <1>1
    <2> QED BY <2>1 DEF ChangedTo, Over
  <1> HIDE DEF bs2
  <1>10. Rel(v, w, h,
             Restated(d, h, e, b, Over(extra, Weighed(v, d, h, b, c.amt, Lasting(v, h, c.n),
                                                      c.auto, i.type))), bs2, F \ {b})
    <2>1. PICK k : k = c
      OBVIOUS
    <2>2. /\ DOMAIN k = BucketColumns /\ k.open /\ k.owner = bs[b].owner
          /\ Whole(v, h, k.n)
          /\ k.cand = IF "cand" \in DOMAIN extra THEN extra["cand"] ELSE bs[b].cand
      BY <1>1, <1>6, <1>8, <2>1
    <2>3. /\ DOMAIN extra \subseteq {"amt", "cand", "muted"}
          /\ k.amt \in Int
          /\ k.amt - SumOf(d, b) = IF "amt" \in DOMAIN extra THEN extra["amt"] ELSE 0
      <3>1. Log(d) /\ SumOf(d, b) \in Int
        BY InfoFacts DEF Rel
      <3>2. k.amt = SumOf(d, b) + e.amt
        BY <1>8, <2>1
      <3>3. k.amt - SumOf(d, b) = e.amt /\ k.amt \in Int
        BY ONLY <1>1, <3>1, <3>2
      <3> QED BY <1>6, <3>3
    <2>4. DOMAIN bs2 = DOMAIN bs /\ bs2[b] = k /\ \A x \in DOMAIN bs : x # b => bs2[x] = bs[x]
      BY <1>9, <2>1
    <2>5. Rel(v, w, h, d, bs, F) /\ Suits(w, h)
      OBVIOUS
    <2>6. Rel(v, w, h,
              Restated(d, h, e, b, Over(extra, Weighed(v, d, h, b, k.amt, Lasting(v, h, k.n),
                                                       k.auto, InfoOf(d, b).type))), bs2, F \ {b})
      BY ONLY <1>1, <2>2, <2>3, <2>4, <2>5, WeighEvent
    <2> QED BY <2>1, <2>6 DEF i
  <1> QED BY <1>4, <1>5, <1>8, <1>10 DEF bs2, b

(* The contract's record with some columns changed. *)
LEMMA OverBucket ==
    ASSUME NEW upd, NEW c, DOMAIN c = BucketColumns, DOMAIN upd \subseteq BucketColumns
    PROVE  /\ DOMAIN Over(upd, c) = BucketColumns
           /\ \A x \in BucketColumns :
                 Over(upd, c)[x] = IF x \in DOMAIN upd THEN upd[x] ELSE c[x]
  <1>1. DOMAIN upd \cup DOMAIN c = BucketColumns
    OBVIOUS
  <1> QED BY <1>1 DEF Over

(* An event that weighs a bucket anew, when the contract changes no other. *)
LEMMA WeighTo ==
    ASSUME NEW v, NEW w, NEW h, NEW d, NEW bs, NEW F, Rel(v, w, h, d, bs, F), Suits(w, h),
           NEW b \in DOMAIN bs, bs[b].open,
           NEW extra, DOMAIN extra \subseteq {"amt", "cand", "muted"},
           NEW upd, DOMAIN upd \subseteq {"cand", "amt", "auto", "n"},
           NEW c, c = Over(upd, bs[b]),
           c.cand = IF "cand" \in DOMAIN extra THEN extra["cand"] ELSE bs[b].cand,
           c.amt \in Int,
           c.amt - SumOf(d, b) = IF "amt" \in DOMAIN extra THEN extra["amt"] ELSE 0,
           Whole(v, h, c.n),
           NEW e
    PROVE  Rel(v, w, h,
               Restated(d, h, e, b,
                   Over(extra, Weighed(v, d, h, b, c.amt, Lasting(v, h, c.n), c.auto,
                                       InfoOf(d, b).type))),
               ChangedTo(bs, b, c), F \ {b})
  <1>1. DOMAIN bs[b] = BucketColumns
    BY DEF Rel, Agrees
  <1>2. DOMAIN upd \subseteq BucketColumns /\ {"owner", "open"} \subseteq BucketColumns
    BY DEF BucketColumns
  <1>3. DOMAIN c = BucketColumns /\ c.owner = bs[b].owner /\ c.open = bs[b].open
    <2>1. /\ DOMAIN c = BucketColumns
          /\ \A x \in BucketColumns : c[x] = IF x \in DOMAIN upd THEN upd[x] ELSE bs[b][x]
      BY <1>1, <1>2, OverBucket
    <2>2. "owner" \notin DOMAIN upd /\ "open" \notin DOMAIN upd
      OBVIOUS
    <2> QED BY <1>2, <2>1, <2>2
  <1> DEFINE bs2 == ChangedTo(bs, b, c)
  <1>4. DOMAIN bs2 = DOMAIN bs /\ bs2[b] = c /\ \A x \in DOMAIN bs : x # b => bs2[x] = bs[x]
    <2>1. DOMAIN bs \cup {b} = DOMAIN bs
      OBVIOUS
    <2> QED BY <2>1 DEF ChangedTo, Over
  <1> HIDE DEF bs2
  <1>5. c.open
    BY <1>3
  <1>6. Rel(v, w, h,
            Restated(d, h, e, b,
                Over(extra, Weighed(v, d, h, b, c.amt, Lasting(v, h, c.n), c.auto,
                                    InfoOf(d, b).type))),
            bs2, F \ {b})
    BY <1>3, <1>4, <1>5, WeighEvent
  <1> QED BY <1>6 DEF bs2

(* What is known of a bucket that is open. *)
LEMMA OpenFacts ==
    ASSUME NEW v, NEW w, NEW h, NEW d, NEW bs, NEW F, Rel(v, w, h, d, bs, F),
           NEW b \in DOMAIN bs, bs[b].open
    PROVE  /\ DOMAIN bs[b] = BucketColumns
           /\ SumOf(d, b) = bs[b].amt /\ SumOf(d, b) \in Int /\ bs[b].amt \in Int
           /\ InfoOf(d, b).auto = bs[b].auto
           /\ InfoOf(d, b).type = TypeAt(v, h)
           /\ Whole(v, h, bs[b].n)
           /\ DurationFromType(InfoOf(d, b).dur, InfoOf(d, b).type) = Lasting(v, h, bs[b].n)
  <1>1. Agrees(v, w, h, InfoOf(d, b), SumOf(d, b), bs[b], b \in F)
    BY DEF Rel
  <1>2. /\ Whole(v, h, bs[b].n) /\ InfoOf(d, b).type = TypeAt(v, h)
        /\ InfoOf(d, b).dur = DurationByType(Lasting(v, h, bs[b].n), TypeAt(v, h))
    BY <1>1 DEF Agrees
  <1>3. DurationFromType(InfoOf(d, b).dur, InfoOf(d, b).type) = Lasting(v, h, bs[b].n)
    BY <1>2, RoundTrip
  <1> QED BY <1>1, <1>2, <1>3 DEF Agrees

(* Nothing over a record is the record. *)
None0 == [x \in {} |-> 0]
(* Without other columns the row is the weighed one. *)
LEMMA OverNone ==
    ASSUME NEW v, NEW d, NEW h, NEW b, NEW amt, NEW duration, NEW auto, NEW type
    PROVE  Over(None0, Weighed(v, d, h, b, amt, duration, auto, type))
           = Weighed(v, d, h, b, amt, duration, auto, type)
  <1> DEFINE u == Weighed(v, d, h, b, amt, duration, auto, type)
  <1>1. u = [x \in DOMAIN u |-> u[x]]
    BY DEF Weighed
  <1>2. DOMAIN None0 = {}
    BY DEF None0
  <1> HIDE DEF u
  <1>3. {} \cup DOMAIN u = DOMAIN u
    OBVIOUS
  <1>4. Over(None0, u) = [x \in DOMAIN u |-> u[x]]
    BY <1>2, <1>3 DEF Over
  <1> QED BY <1>1, <1>4 DEF u

(* Locked: the bucket is weighed for its new duration. *)
LEMMA LockedStep ==
    ASSUME NEW v, NEW w, NEW h, NEW d, NEW bs, NEW F, Rel(v, w, h, d, bs, F), Suits(w, h),
           NEW e, LawfulEvent(v, h, bs, e), e.name = "Locked"
    PROVE  Rel(v, w, h, Locked(v, d, h, e), Contract(bs, e), F \ {e.b})
  <1> DEFINE upd == [auto |-> TRUE, n |-> e.n]
  <1>1. PICK b, c : b = e.b /\ c = Over(upd, bs[b])
    OBVIOUS
  <1>2. b \in DOMAIN bs /\ bs[b].open /\ Whole(v, h, e.n)
    BY <1>1 DEF LawfulEvent
  <1>3. /\ DOMAIN bs[b] = BucketColumns
        /\ SumOf(d, b) = bs[b].amt /\ SumOf(d, b) \in Int /\ bs[b].amt \in Int
    BY <1>2, OpenFacts
  <1>4. /\ c.cand = bs[b].cand /\ c.amt = bs[b].amt /\ c.auto = TRUE /\ c.n = e.n
        /\ DOMAIN upd \subseteq {"cand", "amt", "auto", "n"}
    BY <1>1, <1>3, OverBucket DEF BucketColumns
  <1>5. Contract(bs, e) = ChangedTo(bs, b, c)
    BY <1>1 DEF Contract, ChangedTo
  <1>6. Locked(v, d, h, e)
        = Restated(d, h, e, b, Over(None0, Weighed(v, d, h, b, c.amt, Lasting(v, h, c.n),
                                                   c.auto, InfoOf(d, b).type)))
    <2>1. Locked(v, d, h, e)
          = Restated(d, h, e, b, Weighed(v, d, h, b, c.amt, Lasting(v, h, c.n),
                                         c.auto, InfoOf(d, b).type))
      BY <1>1, <1>3, <1>4 DEF Locked
    <2> QED BY <2>1, OverNone
  <1>7. /\ DOMAIN None0 \subseteq {"amt", "cand", "muted"}
        /\ c.cand = IF "cand" \in DOMAIN None0 THEN None0["cand"] ELSE bs[b].cand
        /\ c.amt - SumOf(d, b) = IF "amt" \in DOMAIN None0 THEN None0["amt"] ELSE 0
        /\ c.amt \in Int /\ Whole(v, h, c.n)
    BY <1>2, <1>3, <1>4 DEF None0
  <1> HIDE DEF upd
  <1>8. Rel(v, w, h, d, bs, F) /\ Suits(w, h) /\ c = Over(upd, bs[b])
        /\ DOMAIN upd \subseteq {"cand", "amt", "auto", "n"}
    BY <1>1, <1>4
  <1>9. Rel(v, w, h,
            Restated(d, h, e, b, Over(None0, Weighed(v, d, h, b, c.amt, Lasting(v, h, c.n),
                                                     c.auto, InfoOf(d, b).type))),
            ChangedTo(bs, b, c), F \ {b})
    BY ONLY <1>2, <1>7, <1>8, WeighTo
  <1> QED BY <1>1, <1>5, <1>6, <1>9

(* Unlocked: the duration stays as it was stored, the lock goes. *)
LEMMA UnlockedStep ==
    ASSUME NEW v, NEW w, NEW h, NEW d, NEW bs, NEW F, Rel(v, w, h, d, bs, F), Suits(w, h),
           NEW e, LawfulEvent(v, h, bs, e), e.name = "Unlocked"
    PROVE  Rel(v, w, h, Unlocked(v, d, h, e), Contract(bs, e), F \ {e.b})
  <1> DEFINE upd == [auto |-> FALSE]
             extra == [muted |-> InfoOf(d, e.b).muted]
  <1>1. PICK b, c : b = e.b /\ c = Over(upd, bs[b])
    OBVIOUS
  <1>2. b \in DOMAIN bs /\ bs[b].open
    BY <1>1 DEF LawfulEvent
  <1>3. /\ DOMAIN bs[b] = BucketColumns
        /\ SumOf(d, b) = bs[b].amt /\ SumOf(d, b) \in Int /\ bs[b].amt \in Int
        /\ Whole(v, h, bs[b].n)
        /\ DurationFromType(InfoOf(d, b).dur, InfoOf(d, b).type) = Lasting(v, h, bs[b].n)
    BY <1>2, OpenFacts
  <1>4. /\ c.cand = bs[b].cand /\ c.amt = bs[b].amt /\ c.auto = FALSE /\ c.n = bs[b].n
        /\ DOMAIN upd \subseteq {"cand", "amt", "auto", "n"}
    BY <1>1, <1>3, OverBucket DEF BucketColumns
  <1>5. Contract(bs, e) = ChangedTo(bs, b, c)
    BY <1>1 DEF Contract, ChangedTo
  <1>6. Unlocked(v, d, h, e)
        = Restated(d, h, e, b, Over(extra, Weighed(v, d, h, b, c.amt, Lasting(v, h, c.n),
                                                   c.auto, InfoOf(d, b).type)))
    BY <1>1, <1>3, <1>4 DEF Unlocked
  <1>7. /\ DOMAIN extra \subseteq {"amt", "cand", "muted"}
        /\ c.cand = IF "cand" \in DOMAIN extra THEN extra["cand"] ELSE bs[b].cand
        /\ c.amt - SumOf(d, b) = IF "amt" \in DOMAIN extra THEN extra["amt"] ELSE 0
        /\ c.amt \in Int /\ Whole(v, h, c.n)
    BY <1>2, <1>3, <1>4
  <1> HIDE DEF upd, extra
  <1>8. Rel(v, w, h, d, bs, F) /\ Suits(w, h) /\ c = Over(upd, bs[b])
        /\ DOMAIN upd \subseteq {"cand", "amt", "auto", "n"}
    BY <1>1, <1>4
  <1>9. Rel(v, w, h,
            Restated(d, h, e, b, Over(extra, Weighed(v, d, h, b, c.amt, Lasting(v, h, c.n),
                                                     c.auto, InfoOf(d, b).type))),
            ChangedTo(bs, b, c), F \ {b})
    BY ONLY <1>2, <1>7, <1>8, WeighTo
  <1> QED BY <1>1, <1>5, <1>6, <1>9

(* BucketExpanded: the amount of the row is what is missing to the new     *)
(* stake.                                                                  *)
LEMMA ExpandedStep ==
    ASSUME NEW v, NEW w, NEW h, NEW d, NEW bs, NEW F, Rel(v, w, h, d, bs, F), Suits(w, h),
           NEW e, LawfulEvent(v, h, bs, e), e.name = "BucketExpanded"
    PROVE  Rel(v, w, h, BucketExpanded(v, d, h, e), Contract(bs, e), F \ {e.b})
  <1> DEFINE upd == [amt |-> e.amt, n |-> e.n, auto |-> TRUE]
             extra == [amt |-> e.amt - SumOf(d, e.b)]
  <1>1. PICK b, c : b = e.b /\ c = Over(upd, bs[b])
    OBVIOUS
  <1>2. b \in DOMAIN bs /\ bs[b].open /\ Whole(v, h, e.n) /\ e.amt \in Int
    BY <1>1 DEF LawfulEvent
  <1>3. DOMAIN bs[b] = BucketColumns
    BY <1>2, OpenFacts
  <1>4. /\ c.cand = bs[b].cand /\ c.amt = e.amt /\ c.auto = TRUE /\ c.n = e.n
        /\ DOMAIN upd \subseteq {"cand", "amt", "auto", "n"}
    BY <1>1, <1>3, OverBucket DEF BucketColumns
  <1>5. Contract(bs, e) = ChangedTo(bs, b, c)
    BY <1>1 DEF Contract, ChangedTo
  <1>6. BucketExpanded(v, d, h, e)
        = Restated(d, h, e, b, Over(extra, Weighed(v, d, h, b, c.amt, Lasting(v, h, c.n),
                                                   c.auto, InfoOf(d, b).type)))
    BY <1>1, <1>4 DEF BucketExpanded
  <1>7. /\ DOMAIN extra \subseteq {"amt", "cand", "muted"}
        /\ c.cand = IF "cand" \in DOMAIN extra THEN extra["cand"] ELSE bs[b].cand
        /\ c.amt - SumOf(d, b) = IF "amt" \in DOMAIN extra THEN extra["amt"] ELSE 0
        /\ c.amt \in Int /\ Whole(v, h, c.n)
    BY <1>1, <1>2, <1>4
  <1> HIDE DEF upd, extra
  <1>8. Rel(v, w, h, d, bs, F) /\ Suits(w, h) /\ c = Over(upd, bs[b])
        /\ DOMAIN upd \subseteq {"cand", "amt", "auto", "n"}
    BY <1>1, <1>4
  <1>9. Rel(v, w, h,
            Restated(d, h, e, b, Over(extra, Weighed(v, d, h, b, c.amt, Lasting(v, h, c.n),
                                                     c.auto, InfoOf(d, b).type))),
            ChangedTo(bs, b, c), F \ {b})
    BY ONLY <1>2, <1>7, <1>8, WeighTo
  <1> QED BY <1>1, <1>5, <1>6, <1>9

(* Donated: what is given away leaves the stake and the balance. *)
LEMMA DonatedStep ==
    ASSUME NEW v, NEW w, NEW h, NEW d, NEW bs, NEW F, Rel(v, w, h, d, bs, F), Suits(w, h),
           NEW e, LawfulEvent(v, h, bs, e), e.name = "Donated"
    PROVE  Rel(v, w, h, Donated(v, d, h, e), Contract(bs, e), F \ {e.b})
  <1>0. PICK b, k : b = e.b /\ k = bs[b].amt - e.amt
    OBVIOUS
  <1> DEFINE upd == [amt |-> k]
             extra == [amt |-> -e.amt]
  <1>1. PICK c : b = e.b /\ c = Over(upd, bs[b])
    BY <1>0
  <1>2. b \in DOMAIN bs /\ bs[b].open /\ e.amt \in Int
    BY <1>1 DEF LawfulEvent
  <1>3. /\ DOMAIN bs[b] = BucketColumns
        /\ SumOf(d, b) = bs[b].amt /\ SumOf(d, b) \in Int /\ bs[b].amt \in Int
        /\ Whole(v, h, bs[b].n) /\ InfoOf(d, b).auto = bs[b].auto
        /\ DurationFromType(InfoOf(d, b).dur, InfoOf(d, b).type) = Lasting(v, h, bs[b].n)
    BY <1>2, OpenFacts
  <1>4. /\ c.cand = bs[b].cand /\ c.amt = k /\ c.auto = bs[b].auto
        /\ c.n = bs[b].n
        /\ DOMAIN upd \subseteq {"cand", "amt", "auto", "n"}
    BY <1>1, <1>3, OverBucket DEF BucketColumns
  <1>5. Contract(bs, e) = ChangedTo(bs, b, c)
    BY <1>0, <1>1 DEF Contract, ChangedTo
  <1>6. Donated(v, d, h, e)
        = Restated(d, h, e, b, Over(extra, Weighed(v, d, h, b, c.amt, Lasting(v, h, c.n),
                                                   c.auto, InfoOf(d, b).type)))
    BY <1>0, <1>1, <1>3, <1>4 DEF Donated
  <1>7. /\ DOMAIN extra \subseteq {"amt", "cand", "muted"}
        /\ c.cand = IF "cand" \in DOMAIN extra THEN extra["cand"] ELSE bs[b].cand
        /\ c.amt - SumOf(d, b) = IF "amt" \in DOMAIN extra THEN extra["amt"] ELSE 0
        /\ c.amt \in Int /\ Whole(v, h, c.n)
    BY <1>0, <1>2, <1>3, <1>4
  <1> HIDE DEF upd, extra
  <1>8. Rel(v, w, h, d, bs, F) /\ Suits(w, h) /\ c = Over(upd, bs[b])
        /\ DOMAIN upd \subseteq {"cand", "amt", "auto", "n"}
    BY <1>1, <1>4
  <1>9. Rel(v, w, h,
            Restated(d, h, e, b, Over(extra, Weighed(v, d, h, b, c.amt, Lasting(v, h, c.n),
                                                     c.auto, InfoOf(d, b).type))),
            ChangedTo(bs, b, c), F \ {b})
    BY ONLY <1>2, <1>7, <1>8, WeighTo
  <1> QED BY <1>1, <1>5, <1>6, <1>9

(* An event that keeps the stake, when the contract changes one bucket. *)
LEMMA DelegateStep ==
    ASSUME NEW v, NEW w, NEW h, NEW d, NEW bs, NEW F, Rel(v, w, h, d, bs, F),
           NEW e, LawfulEvent(v, h, bs, e), e.name = "DelegateChanged"
    PROVE  Rel(v, w, h, DelegateChanged(v, d, h, e), Contract(bs, e), F)
  <1> DEFINE upd == [cand |-> e.x]
  <1>1. PICK b, c : b = e.b /\ c = Over(upd, bs[b])
    OBVIOUS
  <1>2. b \in DOMAIN bs /\ bs[b].open
    BY <1>1 DEF LawfulEvent
  <1>3. DOMAIN bs[b] = BucketColumns
    BY <1>2, OpenFacts
  <1>4. /\ DOMAIN c = BucketColumns
        /\ c.cand = e.x /\ c.amt = bs[b].amt /\ c.auto = bs[b].auto /\ c.n = bs[b].n
        /\ c.owner = bs[b].owner /\ c.open = bs[b].open
    BY <1>1, <1>3, OverBucket DEF BucketColumns
  <1> DEFINE bs2 == ChangedTo(bs, b, c)
  <1>5. Contract(bs, e) = bs2
    BY <1>1 DEF Contract, ChangedTo
  <1>6. DelegateChanged(v, d, h, e) = Restated(d, h, e, b, upd)
    BY <1>1 DEF DelegateChanged
  <1>7. DOMAIN bs2 = DOMAIN bs /\ bs2[b] = c /\ \A x \in DOMAIN bs : x # b => bs2[x] = bs[x]
    <2>1. DOMAIN bs \cup {b} = DOMAIN bs
      BY <1>2
    <2> QED BY <2>1 DEF ChangedTo, Over
  <1> HIDE DEF bs2
  <1>8. /\ DOMAIN upd \subseteq Columns \ {"b", "amt"} /\ DOMAIN upd \subseteq {"owner", "cand"}
        /\ ~("staked" \in DOMAIN upd)
        /\ c.owner = IF "owner" \in DOMAIN upd THEN upd["owner"] ELSE bs[b].owner
        /\ c.cand = IF "cand" \in DOMAIN upd THEN upd["cand"] ELSE bs[b].cand
    BY <1>4 DEF Columns
  <1> HIDE DEF upd
  <1>9. Rel(v, w, h, d, bs, F) /\ c.open /\ (c.open => bs[b].open) /\ (~c.open => c.amt = 0)
    BY <1>2, <1>4
  <1>10. Rel(v, w, h, Restated(d, h, e, b, upd), bs2, F)
    BY ONLY <1>2, <1>4, <1>7, <1>8, <1>9, KeepStep
  <1> QED BY <1>5, <1>6, <1>10

(* Withdrawal: the bucket was closed and stays so. *)
LEMMA WithdrawalStep ==
    ASSUME NEW v, NEW w, NEW h, NEW d, NEW bs, NEW F, Rel(v, w, h, d, bs, F),
           NEW e, LawfulEvent(v, h, bs, e), e.name = "Withdrawal"
    PROVE  Rel(v, w, h, Withdrawal(v, d, h, e), Contract(bs, e), F)
  <1> DEFINE upd == [open |-> FALSE, amt |-> 0]
             changes == [staked |-> 0, vp |-> <<0>>, auto |-> FALSE, dur |-> 0]
  <1>1. PICK b, c : b = e.b /\ c = Over(upd, bs[b])
    OBVIOUS
  <1>2. b \in DOMAIN bs /\ ~bs[b].open
    BY <1>1 DEF LawfulEvent
  <1>3. DOMAIN bs[b] = BucketColumns /\ bs[b].amt = 0
    BY <1>2 DEF Rel, Agrees
  <1>4. DOMAIN c = BucketColumns /\ c.amt = bs[b].amt /\ c.amt = 0 /\ c.open = FALSE
    BY <1>1, <1>3, OverBucket DEF BucketColumns
  <1> DEFINE bs2 == ChangedTo(bs, b, c)
  <1>5. Contract(bs, e) = bs2
    BY <1>1 DEF Contract, ChangedTo
  <1>6. Withdrawal(v, d, h, e) = Restated(d, h, e, b, changes)
    BY <1>1 DEF Withdrawal
  <1>7. DOMAIN bs2 = DOMAIN bs /\ bs2[b] = c /\ \A x \in DOMAIN bs : x # b => bs2[x] = bs[x]
    <2>1. DOMAIN bs \cup {b} = DOMAIN bs
      BY <1>2
    <2> QED BY <2>1 DEF ChangedTo, Over
  <1> HIDE DEF bs2
  <1>8. /\ DOMAIN changes \subseteq Columns \ {"b", "amt"}
        /\ "staked" \in DOMAIN changes => changes["staked"] = c.amt
    BY <1>4 DEF Columns
  <1> HIDE DEF changes
  <1>9. Rel(v, w, h, d, bs, F) /\ ~c.open /\ (c.open => bs[b].open) /\ (~c.open => c.amt = 0)
    BY <1>2, <1>4
  <1>10. Rel(v, w, h, Restated(d, h, e, b, changes), bs2, F)
    BY ONLY <1>2, <1>4, <1>7, <1>8, <1>9, KeepStep
  <1> QED BY <1>5, <1>6, <1>10

(* Transfer of a bucket that exists: a new owner, open or closed. *)
LEMMA TransferStep ==
    ASSUME NEW v, NEW w, NEW h, NEW d, NEW bs, NEW F, Rel(v, w, h, d, bs, F),
           NEW e, LawfulEvent(v, h, bs, e), e.name = "Transfer", e.b \in DOMAIN bs
    PROVE  Rel(v, w, h, Transfer(v, d, h, e), Contract(bs, e), F)
  <1> DEFINE upd == [owner |-> e.x]
  <1>1. PICK b, c : b = e.b /\ c = Over(upd, bs[b])
    OBVIOUS
  <1>2. b \in DOMAIN bs /\ OfBucket(d, b) # {}
    BY <1>1 DEF Rel
  <1>3. DOMAIN bs[b] = BucketColumns /\ (~bs[b].open => bs[b].amt = 0)
    BY <1>2 DEF Rel, Agrees
  <1>4. /\ DOMAIN c = BucketColumns
        /\ c.cand = bs[b].cand /\ c.amt = bs[b].amt /\ c.auto = bs[b].auto /\ c.n = bs[b].n
        /\ c.owner = e.x /\ c.open = bs[b].open
    BY <1>1, <1>3, OverBucket DEF BucketColumns
  <1> DEFINE bs2 == ChangedTo(bs, b, c)
  <1>5. Contract(bs, e) = bs2
    BY <1>1, <1>2 DEF Contract, ChangedTo
  <1>6. Transfer(v, d, h, e) = Restated(d, h, e, b, upd)
    BY <1>1, <1>2 DEF Transfer
  <1>7. DOMAIN bs2 = DOMAIN bs /\ bs2[b] = c /\ \A x \in DOMAIN bs : x # b => bs2[x] = bs[x]
    <2>1. DOMAIN bs \cup {b} = DOMAIN bs
      BY <1>2
    <2> QED BY <2>1 DEF ChangedTo, Over
  <1> HIDE DEF bs2
  <1>8. /\ DOMAIN upd \subseteq Columns \ {"b", "amt"} /\ DOMAIN upd \subseteq {"owner", "cand"}
        /\ ~("staked" \in DOMAIN upd)
        /\ c.owner = IF "owner" \in DOMAIN upd THEN upd["owner"] ELSE bs[b].owner
        /\ c.cand = IF "cand" \in DOMAIN upd THEN upd["cand"] ELSE bs[b].cand
    BY <1>4 DEF Columns
  <1> HIDE DEF upd
  <1>9. Rel(v, w, h, d, bs, F) /\ (c.open => bs[b].open) /\ (~c.open => c.amt = 0)
    BY <1>3, <1>4
  <1>10. Rel(v, w, h, Restated(d, h, e, b, upd), bs2, F)
    BY ONLY <1>2, <1>4, <1>7, <1>8, <1>9, KeepStep
  <1> QED BY <1>5, <1>6, <1>10

(* Unstaked: a row with the negative balance closes the bucket. *)
LEMMA UnstakedStep ==
    ASSUME NEW v, NEW w, NEW h, NEW d, NEW bs, NEW F, Rel(v, w, h, d, bs, F),
           NEW e, LawfulEvent(v, h, bs, e), e.name = "Unstaked"
    PROVE  Rel(v, w, h, Unstaked(v, d, h, e), Contract(bs, e), F)
  <1> DEFINE upd == [open |-> FALSE, amt |-> 0]
             changes == Closed(d, e.b)
  <1>1. PICK b, c : b = e.b /\ c = Over(upd, bs[b])
    OBVIOUS
  <1>2. b \in DOMAIN bs /\ bs[b].open
    BY <1>1 DEF LawfulEvent
  <1>3. DOMAIN bs[b] = BucketColumns
    BY <1>2, OpenFacts
  <1>4. DOMAIN c = BucketColumns /\ c.amt = 0 /\ c.open = FALSE
    BY <1>1, <1>3, OverBucket DEF BucketColumns
  <1> DEFINE bs2 == ChangedTo(bs, b, c)
  <1>5. Contract(bs, e) = bs2
    BY <1>1 DEF Contract, ChangedTo
  <1>6. Unstaked(v, d, h, e) = Restated(d, h, e, b, changes)
    BY <1>1 DEF Unstaked
  <1>7. DOMAIN bs2 = DOMAIN bs /\ bs2[b] = c /\ \A x \in DOMAIN bs : x # b => bs2[x] = bs[x]
    <2>1. DOMAIN bs \cup {b} = DOMAIN bs
      BY <1>2
    <2> QED BY <2>1 DEF ChangedTo, Over
  <1> HIDE DEF bs2
  <1>8. /\ DOMAIN changes \subseteq Columns \ {"b"} /\ {"staked", "amt"} \subseteq DOMAIN changes
        /\ changes["staked"] = 0 /\ changes["amt"] = -SumOf(d, b)
    BY <1>1 DEF Closed, Columns
  <1> HIDE DEF changes
  <1>9. Rel(v, w, h, d, bs, F) /\ DOMAIN bs2[b] = BucketColumns /\ bs2[b].open = FALSE
        /\ bs2[b].amt = 0
    BY <1>4, <1>7
  <1>10. Rel(v, w, h, Restated(d, h, e, b, changes), bs2, F)
    BY ONLY <1>2, <1>7, <1>8, <1>9, CloseStep
  <1> QED BY <1>5, <1>6, <1>10

(* The first row of a bucket. *)
LEMMA MintStep ==
    ASSUME NEW v, NEW w, NEW h, NEW d, NEW bs, NEW F, Rel(v, w, h, d, bs, F),
           NEW e, LawfulEvent(v, h, bs, e), e.name = "Transfer", e.b \notin DOMAIN bs
    PROVE  Rel(v, w, h, Transfer(v, d, h, e), Contract(bs, e), F \cup {e.b})
  <1> DEFINE r == [b |-> e.b, h |-> h, owner |-> e.x, cand |-> "", staked |-> 0,
                   amt |-> 0, vp |-> <<0>>, auto |-> FALSE, dur |-> 0,
                   muted |-> v = "v2" /\ Half(v, h),
                   type |-> IF v = "v3" THEN 2 ELSE IF Half(v, h) THEN 1 ELSE 0]
             c == [owner |-> e.x, cand |-> "", amt |-> 0, auto |-> FALSE, n |-> 0, open |-> TRUE]
             G == F \cup {e.b}
  <1>1. PICK b : b = e.b
    OBVIOUS
  <1>2. OfBucket(d, b) = {} /\ Log(d)
    BY <1>1 DEF Rel
  <1>3. SumOf(d, b) = 0
    BY <1>2, InfoFacts
  <1>4. Transfer(v, d, h, e) = Added(d, r)
    BY <1>1, <1>2 DEF Transfer
  <1>5. Contract(bs, e) = Over(bs, [x \in {b} |-> c])
    BY <1>1 DEF Contract
  <1> DEFINE bs2 == Over(bs, [x \in {b} |-> c])
  <1>6. /\ DOMAIN bs2 = DOMAIN bs \cup {b} /\ bs2[b] = c
        /\ \A x \in DOMAIN bs : x # b => bs2[x] = bs[x]
    BY <1>1 DEF Over
  <1> HIDE DEF bs2
  <1>7. /\ r.b = b /\ r.amt \in Int /\ DOMAIN r = Columns /\ r.amt = 0 /\ r.staked = 0
        /\ r.owner = e.x /\ r.cand = "" /\ r.auto = FALSE /\ r.dur = 0 /\ r.type = TypeAt(v, h)
    BY <1>1 DEF Columns, TypeAt
  <1>8. /\ DOMAIN c = BucketColumns /\ c.amt = 0 /\ c.owner = e.x /\ c.cand = ""
        /\ c.auto = FALSE /\ c.n = 0 /\ c.open = TRUE
    BY DEF BucketColumns
  <1> HIDE DEF r, c
  <1>9. Lasting(v, h, 0) = 0
    BY DEF Lasting, BlocksToDuration
  <1>10. Whole(v, h, 0) /\ DurationByType(0, TypeAt(v, h)) = 0
    <2>1. Day \in Nat \ {0}
      BY SystemAssumption
    <2>2. 0 = 0 * Day /\ 0 \div Day = 0
      BY <2>1, Z3
    <2> QED BY <1>9, <2>2 DEF Whole, DurationByType
  <1>11. SumOf(d, b) + r.amt = 0
    <2>1. r.amt = 0
      BY <1>7
    <2> QED BY ONLY <1>3, <2>1
  <1>12. Agrees(v, w, h, r, SumOf(d, b) + r.amt, c, b \in G)
    <2>1. b \in G
      BY <1>1
    <2> HIDE DEF G
    <2> QED BY <2>1, <1>7, <1>8, <1>9, <1>10, <1>11 DEF Agrees
  <1>13. PICK H, k, q : H = G /\ k = c /\ q = r
    OBVIOUS
  <1>14. Agrees(v, w, h, q, SumOf(d, b) + q.amt, k, b \in H)
    BY ONLY <1>12, <1>13
  <1>15. F \ {b} \subseteq H /\ Rel(v, w, h, d, bs, F)
    BY <1>13
  <1>16. q.b = b /\ q.amt \in Int /\ DOMAIN q = Columns
    BY ONLY <1>7, <1>13
  <1>17. bs2[b] = k
    BY ONLY <1>6, <1>13
  <1>18. Rel(v, w, h, Added(d, q), bs2, H)
    BY ONLY <1>6, <1>14, <1>15, <1>16, <1>17, RowStep
  <1> QED BY <1>4, <1>5, <1>13, <1>18 DEF bs2

(* The buckets that are merged into another, closed one after the other. *)
Gone(t, v, h, b) == Over([muted |-> Mutes(v, h, InfoOf(t, b))], Closed(t, b))
MergeStep(q, b, t) == Restated(t, q.h, q.e, b, Gone(t, q.v, q.h, b))
MergeFold == INSTANCE FoldLemmas WITH step <- MergeStep, pick <- AnyOf
Without(bs, S) ==
    [c \in DOMAIN bs |-> IF c \in S THEN [bs[c] EXCEPT !.open = FALSE, !.amt = 0] ELSE bs[c]]

(* One more of the merged buckets is closed. *)
LEMMA GoneStep ==
    ASSUME NEW v, NEW w, NEW h, NEW d, NEW bs, NEW F, NEW e,
           NEW S, S \subseteq DOMAIN bs, NEW t, Rel(v, w, h, t, Without(bs, S), F),
           NEW b \in DOMAIN bs, b \notin S
    PROVE  Rel(v, w, h, Restated(t, h, e, b, Gone(t, v, h, b)), Without(bs, S \cup {b}), F)
  <1> DEFINE bs1 == Without(bs, S)
             bs2 == Without(bs, S \cup {b})
             changes == Gone(t, v, h, b)
  <1>1. DOMAIN bs1 = DOMAIN bs /\ bs1[b] = bs[b] /\ DOMAIN bs2 = DOMAIN bs
    BY DEF Without
  <1>2. bs2[b] = [bs[b] EXCEPT !.open = FALSE, !.amt = 0]
    BY DEF Without
  <1>3. \A x \in DOMAIN bs : x # b => bs2[x] = bs1[x]
    BY DEF Without
  <1> HIDE DEF bs1, bs2
  <1>4. DOMAIN bs[b] = BucketColumns
    BY <1>1 DEF Rel, Agrees, bs1
  <1>5. DOMAIN bs2[b] = BucketColumns /\ bs2[b].open = FALSE /\ bs2[b].amt = 0
    BY <1>2, <1>4 DEF BucketColumns
  <1>6. /\ DOMAIN changes \subseteq Columns \ {"b"}
        /\ {"staked", "amt"} \subseteq DOMAIN changes
        /\ changes["staked"] = 0 /\ changes["amt"] = -SumOf(t, b)
    BY DEF Gone, Closed, Over, Columns
  <1> HIDE DEF changes
  <1>7. b \in DOMAIN bs1 /\ DOMAIN bs2 = DOMAIN bs1 /\ Rel(v, w, h, t, bs1, F)
        /\ \A x \in DOMAIN bs1 : x # b => bs2[x] = bs1[x]
    BY <1>1, <1>3 DEF bs1
  <1>8. Rel(v, w, h, Restated(t, h, e, b, changes), bs2, F)
    BY ONLY <1>5, <1>6, <1>7, CloseStep
  <1> QED BY <1>8 DEF bs2, changes

(* A finite set of merged buckets is one that the fold can go through. *)
LEMMA MergeFacts ==
    ASSUME NEW S, IsFiniteSet(S)
    PROVE  MergeFold!Picks(S) /\ MergeFold!IsFiniteSet(S)
  BY DEF AnyOf, MergeFold!Picks, IsFiniteSet, MergeFold!IsFiniteSet

(* All the merged buckets are closed, whatever the order. *)
LEMMA GoneAll ==
    ASSUME NEW v, NEW w, NEW h, NEW d, NEW bs, NEW F, NEW e, Rel(v, w, h, d, bs, F),
           NEW S, IsFiniteSet(S), S \subseteq DOMAIN bs
    PROVE  Rel(v, w, h, MergeFold!Iter([v |-> v, h |-> h, e |-> e], d, S), Without(bs, S), F)
  <1>1. PICK q : q.v = v /\ q.h = h /\ q.e = e /\ q = [v |-> v, h |-> h, e |-> e]
    OBVIOUS
  <1> DEFINE Good(s) == Rel(v, w, h, MergeFold!Iter(q, d, s), Without(bs, s), F)
             Bad == {s \in SUBSET S : ~Good(s)}
  <1>2. Good({})
    <2>1. MergeFold!Iter(q, d, {}) = d
      BY MergeFold!IterEmpty
    <2>2. Without(bs, {}) = [c \in DOMAIN bs |-> bs[c]]
      BY DEF Without
    <2>3. \A f : (DOMAIN f = DOMAIN bs /\ \A c \in DOMAIN bs : f[c] = bs[c])
                 => Rel(v, w, h, d, f, F)
      <3> SUFFICES ASSUME NEW f, DOMAIN f = DOMAIN bs, \A c \in DOMAIN bs : f[c] = bs[c]
                   PROVE  Rel(v, w, h, d, f, F)
        OBVIOUS
      <3> QED BY DEF Rel
    <2> QED BY <2>1, <2>2, <2>3
  <1>3. Bad = {}
    <2> SUFFICES ASSUME Bad # {} PROVE FALSE
      OBVIOUS
    <2>1. Bad \in SUBSET SUBSET S
      OBVIOUS
    <2>2. PICK s \in Bad : \A t \in Bad : t \subseteq s => t = s
      <3> HIDE DEF Bad
      <3> QED BY <2>1, MergeFacts, MergeFold!Least
    <2>3. s \subseteq S /\ ~Good(s)
      OBVIOUS
    <2>4. s # {}
      <3> HIDE DEF Good
      <3> QED BY <1>2, <2>3
    <2>5. IsFiniteSet(s)
      BY <2>3, FS_Subset
    <2> DEFINE b == AnyOf(s)
               u == s \ {b}
    <2>6. b \in s
      BY <2>4 DEF AnyOf
    <2>7. u \subseteq S /\ u \subseteq s /\ u # s /\ u \cup {b} = s /\ b \notin u
      BY <2>3, <2>6
    <2>8. Good(u)
      <3>1. u \notin Bad
        <4> HIDE DEF Bad, b
        <4> QED BY <2>2, <2>7
      <3> HIDE DEF Good, b
      <3> QED BY <3>1, <2>7
    <2>9. MergeFold!Iter(q, d, s) = MergeStep(q, b, MergeFold!Iter(q, d, u))
      BY <2>4, <2>5, MergeFacts, MergeFold!IterStep
    <2> HIDE DEF b
    <2>10. PICK t : t = MergeFold!Iter(q, d, u)
      OBVIOUS
    <2>11. Rel(v, w, h, t, Without(bs, u), F) /\ u \subseteq DOMAIN bs /\ b \in DOMAIN bs
           /\ b \notin u
      BY <2>3, <2>6, <2>7, <2>8, <2>10
    <2> HIDE DEF u
    <2>12. Rel(v, w, h, Restated(t, h, e, b, Gone(t, v, h, b)), Without(bs, u \cup {b}), F)
      BY ONLY <2>11, GoneStep
    <2>13. MergeStep(q, b, t) = Restated(t, h, e, b, Gone(t, v, h, b))
      BY <1>1 DEF MergeStep
    <2> QED BY <2>3, <2>7, <2>9, <2>10, <2>12, <2>13
  <1>4. Good(S)
    <2> HIDE DEF Good
    <2> QED BY <1>3
  <1> QED BY <1>1, <1>4

(* Merged: the buckets that join are closed, the other gets what they had. *)
LEMMA MergedStep ==
    ASSUME NEW v, NEW w, NEW h, NEW d, NEW bs, NEW F, Rel(v, w, h, d, bs, F), Suits(w, h),
           NEW e, LawfulEvent(v, h, bs, e), e.name = "Merged"
    PROVE  Rel(v, w, h, Merged(v, d, h, e), Contract(bs, e), F \ {e.b})
  <1> DEFINE q == [v |-> v, h |-> h, e |-> e]
  <1>1. PICK b, t, bs1 : b = e.b /\ t = MergeFold!Iter(q, d, e.x) /\ bs1 = Without(bs, e.x)
    OBVIOUS
  <1>2. /\ b \in DOMAIN bs /\ bs[b].open /\ e.amt \in Int /\ Whole(v, h, e.n)
        /\ IsFiniteSet(e.x) /\ e.x \subseteq DOMAIN bs /\ b \notin e.x
    BY <1>1 DEF LawfulEvent
  <1>3. Rel(v, w, h, t, bs1, F)
    BY <1>1, <1>2, GoneAll
  <1>4. /\ DOMAIN bs1 = DOMAIN bs /\ bs1[b] = bs[b]
        /\ \A x \in DOMAIN bs : bs1[x] = IF x \in e.x THEN [bs[x] EXCEPT !.open = FALSE, !.amt = 0]
                                         ELSE bs[x]
    BY <1>1, <1>2 DEF Without
  <1>5. DOMAIN bs[b] = BucketColumns
    BY <1>2, OpenFacts
  <1>6. PICK c : c = [bs[b] EXCEPT !.amt = e.amt, !.n = e.n, !.auto = TRUE]
    OBVIOUS
  <1>7. /\ DOMAIN c = BucketColumns /\ c.amt = e.amt /\ c.n = e.n /\ c.auto = TRUE
        /\ c.owner = bs1[b].owner /\ c.cand = bs1[b].cand /\ c.open = bs1[b].open
    BY <1>4, <1>5, <1>6 DEF BucketColumns
  <1>8. PICK bs2 : bs2 = Contract(bs, e)
    OBVIOUS
  <1>9. DOMAIN bs2 = DOMAIN bs1 /\ bs2[b] = c /\ \A x \in DOMAIN bs1 : x # b => bs2[x] = bs1[x]
    <2>1. bs2 = [x \in DOMAIN bs |->
                    IF x = e.b THEN [bs[e.b] EXCEPT !.amt = e.amt, !.n = e.n, !.auto = TRUE]
                    ELSE IF x \in e.x THEN [bs[x] EXCEPT !.open = FALSE, !.amt = 0]
                    ELSE bs[x]]
      BY <1>8 DEF Contract
    <2>2. DOMAIN bs2 = DOMAIN bs /\ bs2[b] = c
      BY <1>1, <1>2, <1>6, <2>1
    <2>3. \A x \in DOMAIN bs : x # b => bs2[x] = IF x \in e.x THEN [bs[x] EXCEPT !.open = FALSE, !.amt = 0]
                                              ELSE bs[x]
      BY <1>1, <2>1
    <2> QED BY <1>4, <2>2, <2>3
  <1> DEFINE extra == [amt |-> e.amt - SumOf(t, b)]
  <1>10. Merged(v, d, h, e)
         = Restated(t, h, e, b, Over(extra, Weighed(v, t, h, b, c.amt, Lasting(v, h, c.n),
                                                    c.auto, InfoOf(t, b).type)))
    <2>1. FoldSet(LAMBDA c1, t1 : Restated(t1, h, e, c1,
                            Over([muted |-> Mutes(v, h, InfoOf(t1, c1))], Closed(t1, c1))), d, e.x)
          = t
      <3>1. FoldSet(LAMBDA c1, t1 : Restated(t1, h, e, c1,
                            Over([muted |-> Mutes(v, h, InfoOf(t1, c1))], Closed(t1, c1))), d, e.x)
            = MergeFold!Iter(q, d, e.x)
        BY DEF FoldSet, MapThenFoldSet, MergeFold!Iter, AnyOf, MergeStep, Gone
      <3> QED BY ONLY <1>1, <3>1
    <2> QED BY <1>1, <1>7, <2>1 DEF Merged
  <1>11. /\ DOMAIN extra \subseteq {"amt", "cand", "muted"}
         /\ c.cand = IF "cand" \in DOMAIN extra THEN extra["cand"] ELSE bs1[b].cand
         /\ c.amt - SumOf(t, b) = IF "amt" \in DOMAIN extra THEN extra["amt"] ELSE 0
         /\ c.amt \in Int /\ Whole(v, h, c.n)
    BY <1>2, <1>7
  <1> HIDE DEF extra, q
  <1>12. b \in DOMAIN bs1 /\ bs1[b].open /\ c.open /\ Suits(w, h) /\ bs2[b] = c
    BY <1>2, <1>4, <1>7, <1>9
  <1>13. Rel(v, w, h,
             Restated(t, h, e, b, Over(extra, Weighed(v, t, h, b, c.amt, Lasting(v, h, c.n),
                                                      c.auto, InfoOf(t, b).type))),
             bs2, F \ {b})
    BY ONLY <1>3, <1>7, <1>9, <1>11, <1>12, WeighEvent
  <1> QED BY <1>1, <1>8, <1>10, <1>13

(* An event, as the three handlers of the versions share it out. *)
Handled(v, d, h, e) ==
    CASE e.name \in {"Staked", "Transfer", "Unstaked"} -> Holding(v, d, h, e)
      [] e.name \in {"Locked", "Unlocked", "Merged"} -> Locking(v, d, h, e)
      [] OTHER -> Changing(v, d, h, e)

(* Every event leaves tables and contract in agreement, when a mint is     *)
(* followed by its Staked.                                                 *)
LEMMA EventStep ==
    ASSUME NEW v, NEW w, NEW h, NEW d, NEW bs, NEW F, Rel(v, w, h, d, bs, F), Suits(w, h),
           NEW e, LawfulEvent(v, h, bs, e),
           F = {} \/ (F = {e.b} /\ e.name = "Staked")
    PROVE  Rel(v, w, h, Handled(v, d, h, e), Contract(bs, e), Minted(bs, e))
  <1>1. F \ {e.b} = {}
    OBVIOUS
  <1>2. e.name # "Transfer" => Minted(bs, e) = {}
    BY DEF Minted
  <1>3. CASE e.name = "Staked"
    <2>1. Handled(v, d, h, e) = Staked(v, d, h, e)
      BY <1>3 DEF Handled, Holding
    <2> QED BY <1>1, <1>2, <1>3, <2>1, StakedStep
  <1>4. CASE e.name = "Transfer" /\ e.b \in DOMAIN bs
    <2>1. Handled(v, d, h, e) = Transfer(v, d, h, e)
      BY <1>4 DEF Handled, Holding
    <2>2. F = {} /\ Minted(bs, e) = {}
      BY <1>4 DEF Minted
    <2> QED BY <1>4, <2>1, <2>2, TransferStep
  <1>5. CASE e.name = "Transfer" /\ e.b \notin DOMAIN bs
    <2>1. Handled(v, d, h, e) = Transfer(v, d, h, e)
      BY <1>5 DEF Handled, Holding
    <2>2. F \cup {e.b} = Minted(bs, e)
      BY <1>5 DEF Minted
    <2> QED BY <1>5, <2>1, <2>2, MintStep
  <1>6. CASE e.name = "Unstaked"
    <2>1. Handled(v, d, h, e) = Unstaked(v, d, h, e)
      BY <1>6 DEF Handled, Holding
    <2> QED BY <1>2, <1>6, <2>1, UnstakedStep
  <1>7. CASE e.name = "Locked"
    <2>1. Handled(v, d, h, e) = Locked(v, d, h, e)
      BY <1>7 DEF Handled, Locking
    <2> QED BY <1>1, <1>2, <1>7, <2>1, LockedStep
  <1>8. CASE e.name = "Unlocked"
    <2>1. Handled(v, d, h, e) = Unlocked(v, d, h, e)
      BY <1>8 DEF Handled, Locking
    <2> QED BY <1>1, <1>2, <1>8, <2>1, UnlockedStep
  <1>9. CASE e.name = "Merged"
    <2>1. Handled(v, d, h, e) = Merged(v, d, h, e)
      BY <1>9 DEF Handled, Locking
    <2> QED BY <1>1, <1>2, <1>9, <2>1, MergedStep
  <1>10. CASE e.name = "BucketExpanded"
    <2>1. Handled(v, d, h, e) = BucketExpanded(v, d, h, e)
      BY <1>10 DEF Handled, Changing
    <2> QED BY <1>1, <1>2, <1>10, <2>1, ExpandedStep
  <1>11. CASE e.name = "DelegateChanged"
    <2>1. Handled(v, d, h, e) = DelegateChanged(v, d, h, e)
      BY <1>11 DEF Handled, Changing
    <2> QED BY <1>2, <1>11, <2>1, DelegateStep
  <1>12. CASE e.name = "Withdrawal"
    <2>1. Handled(v, d, h, e) = Withdrawal(v, d, h, e)
      BY <1>12 DEF Handled, Changing
    <2> QED BY <1>2, <1>12, <2>1, WithdrawalStep
  <1>13. CASE e.name = "Donated"
    <2>1. Handled(v, d, h, e) = Donated(v, d, h, e)
      BY <1>13 DEF Handled, Changing
    <2> QED BY <1>1, <1>2, <1>13, <2>1, DonatedStep
  <1> QED BY <1>3, <1>4, <1>5, <1>6, <1>7, <1>8, <1>9, <1>10, <1>11, <1>12, <1>13
          DEF LawfulEvent
-----------------------------------------------------------------------------
(* The events of a block, one after the other. *)
HandleStep(q, i, t) == Handled(q.v, t, q.h, q.c[i])
HandleFold == INSTANCE FoldLemmas WITH step <- HandleStep, pick <- LastOf
ContractStep(q, i, t) == Contract(t, q[i])
ContractFold == INSTANCE FoldLemmas WITH step <- ContractStep, pick <- LastOf

(* The contract after the first n events of a block. *)
After(bs, c, n) == FoldLeft(Contract, bs, SubSeq(c, 1, n))
LawfulBlock(v, h, bs, c) ==
    /\ \E R : c \in Seq(R)
    /\ \A i \in DOMAIN c :
          /\ LawfulEvent(v, h, After(bs, c, i - 1), c[i])
          /\ Minted(After(bs, c, i - 1), c[i]) # {} =>
                i + 1 \in DOMAIN c /\ c[i + 1].name = "Staked" /\ c[i + 1].b = c[i].b

(* The events of a block are handled from the first to the last. *)
LEMMA HandlePicks ==
    ASSUME NEW n \in Nat
    PROVE  HandleFold!Picks(1 .. n) /\ HandleFold!IsFiniteSet(1 .. n)
  <1>1. \A S \in SUBSET (1 .. n) : S # {} => LastOf(S) \in S
    BY LastIn
  <1>2. IsFiniteSet(1 .. n)
    BY PrefixFinite
  <1>3. HandleFold!IsFiniteSet(1 .. n)
    BY <1>2 DEF IsFiniteSet, HandleFold!IsFiniteSet
  <1> QED BY <1>1, <1>3 DEF HandleFold!Picks

(* The contract takes them in the same order. *)
LEMMA ContractPicks ==
    ASSUME NEW n \in Nat
    PROVE  ContractFold!Picks(1 .. n) /\ ContractFold!IsFiniteSet(1 .. n)
  <1>1. \A S \in SUBSET (1 .. n) : S # {} => LastOf(S) \in S
    BY LastIn
  <1>2. IsFiniteSet(1 .. n)
    BY PrefixFinite
  <1>3. ContractFold!IsFiniteSet(1 .. n)
    BY <1>2 DEF IsFiniteSet, ContractFold!IsFiniteSet
  <1> QED BY <1>1, <1>3 DEF ContractFold!Picks

(* Handling n + 1 events is handling n and then the next. *)
LEMMA HandleNext ==
    ASSUME NEW q, NEW d, NEW n \in Nat
    PROVE  HandleFold!Iter(q, d, 1 .. n + 1)
           = Handled(q.v, HandleFold!Iter(q, d, 1 .. n), q.h, q.c[n + 1])
  <1>1. PICK S, x : S = 1 .. n + 1 /\ x = n + 1
    OBVIOUS
  <1>2. HandleFold!Picks(S) /\ HandleFold!IsFiniteSet(S)
    <2>1. n + 1 \in Nat
      OBVIOUS
    <2> QED BY <1>1, <2>1, HandlePicks
  <1>3. S # {} /\ S \ {x} = 1 .. n
    <2>1. (1 .. n + 1) \ {n + 1} = 1 .. n
      OBVIOUS
    <2>2. n + 1 \in 1 .. n + 1
      OBVIOUS
    <2>3. x \in S
      BY ONLY <1>1, <2>2
    <2>4. S \ {x} = 1 .. n
      BY ONLY <1>1, <2>1
    <2> QED BY <2>3, <2>4
  <1>4. LastOf(S) = x
    BY <1>1, LastIs
  <1>5. HandleFold!Iter(q, d, S) = HandleStep(q, x, HandleFold!Iter(q, d, S \ {x}))
    BY <1>2, <1>3, <1>4, HandleFold!IterStep
  <1>6. HandleFold!Iter(q, d, S) = HandleStep(q, x, HandleFold!Iter(q, d, 1 .. n))
    BY <1>3, <1>5
  <1> QED BY <1>1, <1>6 DEF HandleStep

(* A part of a block has the events it has in the block. *)
LEMMA AfterIs ==
    ASSUME NEW R, NEW c \in Seq(R), NEW bs, NEW n \in 0 .. Len(c)
    PROVE  /\ After(bs, c, n) = ContractFold!Iter(c, bs, 1 .. n)
           /\ After(bs, c, Len(c)) = FoldLeft(Contract, bs, c)
  <1>1. PICK q : q = SubSeq(c, 1, n)
    OBVIOUS
  <1>2. DOMAIN q = 1 .. n /\ \A i \in 1 .. n : q[i] = c[i]
    BY <1>1
  <1>3. \A f : FoldLeft(Contract, bs, f) = ContractFold!Iter(f, bs, DOMAIN f)
    BY DEF FoldLeft, MapThenFoldSet, ContractFold!Iter, ContractStep, LastOf
  <1>4. After(bs, c, n) = ContractFold!Iter(q, bs, 1 .. n)
    BY <1>1, <1>2, <1>3 DEF After
  <1>5. \A i \in 1 .. n : \A a : ContractStep(q, i, a) = ContractStep(c, i, a)
    BY <1>2 DEF ContractStep
  <1>6. ContractFold!Picks(1 .. n) /\ ContractFold!IsFiniteSet(1 .. n)
    <2>1. n \in Nat
      OBVIOUS
    <2> QED BY <2>1, ContractPicks
  <1>7. ContractFold!Iter(q, bs, 1 .. n) = ContractFold!Iter(c, bs, 1 .. n)
    BY <1>5, <1>6, ContractFold!IterSame
  <1>8. SubSeq(c, 1, Len(c)) = c
    OBVIOUS
  <1> QED BY <1>4, <1>7, <1>8 DEF After

(* So it is for the contract. *)
LEMMA AfterNext ==
    ASSUME NEW R, NEW c \in Seq(R), NEW bs, NEW n \in Nat, n + 1 \in DOMAIN c
    PROVE  After(bs, c, n + 1) = Contract(After(bs, c, n), c[n + 1])
  <1>1. PICK S, x : S = 1 .. n + 1 /\ x = n + 1
    OBVIOUS
  <1>2. ContractFold!Picks(S) /\ ContractFold!IsFiniteSet(S)
    <2>1. n + 1 \in Nat
      OBVIOUS
    <2> QED BY <1>1, <2>1, ContractPicks
  <1>3. S # {} /\ S \ {x} = 1 .. n
    <2>1. (1 .. n + 1) \ {n + 1} = 1 .. n
      OBVIOUS
    <2>2. n + 1 \in 1 .. n + 1
      OBVIOUS
    <2>3. x \in S
      BY ONLY <1>1, <2>2
    <2>4. S \ {x} = 1 .. n
      BY ONLY <1>1, <2>1
    <2> QED BY <2>3, <2>4
  <1>4. LastOf(S) = x
    BY <1>1, LastIs
  <1>5. ContractFold!Iter(c, bs, S) = ContractStep(c, x, ContractFold!Iter(c, bs, S \ {x}))
    BY <1>2, <1>3, <1>4, ContractFold!IterStep
  <1>6. ContractFold!Iter(c, bs, S) = ContractStep(c, x, ContractFold!Iter(c, bs, 1 .. n))
    BY <1>3, <1>5
  <1>7. n \in 0 .. Len(c) /\ n + 1 \in 0 .. Len(c)
    OBVIOUS
  <1>8. After(bs, c, n) = ContractFold!Iter(c, bs, 1 .. n)
    BY <1>7, AfterIs
  <1>9. After(bs, c, n + 1) = ContractFold!Iter(c, bs, 1 .. n + 1)
    BY <1>7, AfterIs
  <1> QED BY <1>1, <1>6, <1>8, <1>9 DEF ContractStep

(* A lawful block keeps tables and contract together. *)
LEMMA BlockStep ==
    ASSUME NEW v, NEW w, NEW h, NEW d, NEW bs, Rel(v, w, h, d, bs, {}), Suits(w, h),
           NEW c, LawfulBlock(v, h, bs, c)
    PROVE  Rel(v, w, h, HandleFold!Iter([v |-> v, h |-> h, c |-> c], d, DOMAIN c),
               FoldLeft(Contract, bs, c), {})
  <1>1. PICK R : c \in Seq(R)
    BY DEF LawfulBlock
  <1>2. PICK q : q.v = v /\ q.h = h /\ q.c = c /\ q = [v |-> v, h |-> h, c |-> c]
    OBVIOUS
  <1> DEFINE m == Len(c)
             D(n) == HandleFold!Iter(q, d, 1 .. n)
             B(n) == After(bs, c, n)
             New(n) == IF n = 0 THEN {} ELSE Minted(B(n - 1), c[n])
             Good == {n \in Nat : n <= m => Rel(v, w, h, D(n), B(n), New(n))}
  <1>3. m \in Nat /\ DOMAIN c = 1 .. m
    BY <1>1
  <1>4. 0 \in Good
    <2>1. 1 .. 0 = {}
      OBVIOUS
    <2>2. D(0) = d
      BY <2>1, HandleFold!IterEmpty
    <2>3. B(0) = bs
      <3>1. 0 \in 0 .. Len(c)
        BY <1>3
      <3>2. B(0) = ContractFold!Iter(c, bs, 1 .. 0)
        BY <1>1, <3>1, AfterIs
      <3> QED BY <2>1, <3>2, ContractFold!IterEmpty
    <2> HIDE DEF D, B
    <2> QED BY <2>2, <2>3
  <1>5. ASSUME NEW n \in Good PROVE n + 1 \in Good
    <2>1. n \in Nat /\ n + 1 \in Nat /\ (n + 1) - 1 = n /\ n + 1 # 0
      OBVIOUS
    <2> SUFFICES ASSUME n + 1 <= m PROVE Rel(v, w, h, D(n + 1), B(n + 1), New(n + 1))
      BY <2>1
    <2>2. n <= m /\ n + 1 \in 1 .. m /\ (n # 0 => n \in 1 .. m)
      BY <1>3, <2>1
    <2>3. Rel(v, w, h, D(n), B(n), New(n))
      BY <2>2
    <2>4. PICK e : e = c[n + 1]
      OBVIOUS
    <2>5. D(n + 1) = Handled(v, D(n), h, e)
      BY <1>2, <2>1, <2>4, HandleNext
    <2>6. B(n + 1) = Contract(B(n), e)
      BY <1>1, <1>3, <2>1, <2>2, <2>4, AfterNext
    <2>7. LawfulEvent(v, h, B(n), e)
      <3>1. LawfulEvent(v, h, B((n + 1) - 1), c[n + 1])
        <4> HIDE DEF D
        <4> QED BY <1>3, <2>2 DEF LawfulBlock
      <3> HIDE DEF B
      <3> QED BY <2>1, <2>4, <3>1
    <2>8. New(n + 1) = Minted(B(n), e)
      <3> HIDE DEF B
      <3> QED BY <2>1, <2>4
    <2>9. New(n) = {} \/ (New(n) = {e.b} /\ e.name = "Staked")
      <3>1. CASE n = 0
        BY <3>1
      <3>2. CASE n # 0 /\ New(n) # {}
        <4>1. New(n) = Minted(B(n - 1), c[n])
          BY <3>2
        <4>2. New(n) = {c[n].b}
          <5> HIDE DEF B, New
          <5> QED BY <3>2, <4>1 DEF Minted
        <4>3. c[n + 1].name = "Staked" /\ c[n + 1].b = c[n].b
          <5> HIDE DEF D, New
          <5> QED BY <1>3, <2>2, <3>2, <4>1 DEF LawfulBlock
        <4> HIDE DEF New
        <4> QED BY <2>4, <4>2, <4>3
      <3> QED BY <3>1, <3>2
    <2> HIDE DEF D, B, New
    <2>10. PICK F : F = New(n)
      OBVIOUS
    <2>11. Rel(v, w, h, Handled(v, D(n), h, e), Contract(B(n), e), Minted(B(n), e))
      BY <2>3, <2>7, <2>9, <2>10, EventStep
    <2> QED BY <2>5, <2>6, <2>8, <2>11
  <1>6. m \in Good
    <2>1. Good \in SUBSET Nat
      OBVIOUS
    <2> HIDE DEF Good, m
    <2> QED BY <1>3, <1>4, <1>5, <2>1, SetInduction
  <1>7. Rel(v, w, h, D(m), B(m), New(m))
    <2>1. m <= m
      BY <1>3
    <2> HIDE DEF D, B, New, m
    <2> QED BY <1>6, <2>1
  <1>8. New(m) = {}
    <2> SUFFICES ASSUME m # 0, Minted(B(m - 1), c[m]) # {} PROVE FALSE
      OBVIOUS
    <2>1. m \in DOMAIN c
      BY <1>3
    <2>2. m + 1 \in DOMAIN c
      <3> HIDE DEF D, New, Good, m
      <3> QED BY <2>1 DEF LawfulBlock
    <2> QED BY <1>3, <2>2
  <1>9. B(m) = FoldLeft(Contract, bs, c)
    <2>1. m \in 0 .. Len(c)
      BY <1>3
    <2> QED BY <1>1, <2>1, AfterIs
  <1>10. D(m) = HandleFold!Iter(q, d, DOMAIN c)
    BY <1>3
  <1> HIDE DEF D, B, New, m, Good
  <1> QED BY <1>2, <1>7, <1>8, <1>9, <1>10
-----------------------------------------------------------------------------
(* What PutBlock of each version makes of the tables with the events of a  *)
(* block.                                                                  *)
Events1(v, b, d) == HandleFold!Iter([v |-> v, h |-> b.h, c |-> b.c], d, DOMAIN b.c)

(* v3: the events and nothing else. *)
LEMMA PutV3 ==
    ASSUME NEW m, NEW d, NEW to
    PROVE  v3_record_PutBlock(m, d, to) = OneBlock(m, d, Events1("v3", m.b, d), to)
  <1>1. Events(m.b, v3_record_event, d) = Events1("v3", m.b, d)
    BY DEF Events, Events1, FoldLeft, MapThenFoldSet, HandleFold!Iter, HandleStep, LastOf,
           Handled, v3_record_event
  <1> QED BY <1>1 DEF v3_record_PutBlock

(* v2: the halving's copies come before the events. *)
LEMMA PutV2 ==
    ASSUME NEW m, NEW d, NEW to
    PROVE  v2_record_PutBlock(m, d, to)
           = OneBlock(m, d, Events1("v2", m.b, IF to = HalvingHeight THEN Reviser(d, to, FALSE)
                                               ELSE d), to)
  BY DEF v2_record_PutBlock, v2_record_revise, Events, Events1, FoldLeft, MapThenFoldSet,
         HandleFold!Iter, HandleStep, LastOf, Handled, v2_record_holding, v2_record_locking,
         v2_record_changing

(* v1 in two parts: what comes before the block, and the block. *)
Revised(v, d, to) == IF v # "v3" /\ to = HalvingHeight THEN Reviser(d, to, FALSE) ELSE d
Block1(m, d, to) == Tx(m, <<Become(Events1("v1", m.b, Revised("v1", d, to)))>>, to)
Note(m) == Tx(m, <<Insert(<<Row(Fixed, 1)>>)>>, NoHeight)
Fix(m, d) == Tx(m, <<Become(fixingData(d))>>, NoHeight)
Noted(d) == Over(d, [k \in {Fixed} |-> 1])
Due(d, to) == to >= RedseaHeight /\ Fixed \notin DOMAIN d
Outcome(m, res, txs) == [res |-> res, txs |-> txs, after |-> m]

(* v1: as v2, and once from Redsea on the fix and its note before the      *)
(* block; when the fix fails the note is made all the same.                *)
LEMMA PutV1 ==
    ASSUME NEW m, NEW d, NEW to
    PROVE  /\ ~Due(d, to) => record_PutBlock(m, d, to) = {Outcome(m, "ok", <<Block1(m, d, to)>>)}
           /\ Due(d, to) =>
                 \A c \in record_PutBlock(m, d, to) :
                    \/ c = Outcome(m, "ok",
                               <<Fix(m, d), Note(m), Block1(m, Noted(fixingData(d)), to)>>)
                    \/ c = Outcome(m, "hid", <<Note(m), Block1(m, Noted(d), to)>>)
  <1> DEFINE handle(t, h, e) ==
               CASE e.name \in {"Staked", "Transfer", "Unstaked"} -> record_holding(t, h, e)
                 [] e.name \in {"Locked", "Unlocked", "Merged"} -> record_locking(t, h, e)
                 [] OTHER -> record_changing(t, h, e)
             befores == IF ~Due(d, to) THEN {[res |-> "ok", txs |-> <<>>, d |-> d]}
                        ELSE {[res |-> "ok", txs |-> <<Fix(m, d), Note(m)>>, d |-> Noted(fixingData(d))],
                              [res |-> "hid", txs |-> <<Note(m)>>, d |-> Noted(d)]}
  <1>1. record_PutBlock(m, d, to)
        = {[Commits(x.txs \o <<Block1(m, x.d, to)>>, m) EXCEPT !.res = x.res] : x \in befores}
    BY DEF record_PutBlock, record_revise, Events, Events1, FoldLeft, MapThenFoldSet,
           HandleFold!Iter, HandleStep, LastOf, Handled, record_holding, record_locking,
           record_changing, Block1, Note, Fix, Noted, Due, Revised
  <1>2. \A q, r : [Commits(q, m) EXCEPT !.res = r] = Outcome(m, r, q)
    BY DEF Commits, Outcome
  <1>3. /\ \A x : <<>> \o <<x>> = <<x>>
        /\ \A x, y : <<x>> \o <<y>> = <<x, y>>
        /\ \A x, y, z : <<x, y>> \o <<z>> = <<x, y, z>>
    <2>1. ASSUME NEW x PROVE <<>> \o <<x>> = <<x>>
      OBVIOUS
    <2>2. ASSUME NEW x, NEW y PROVE <<x>> \o <<y>> = <<x, y>>
      <3>1. PICK S : S = {x, y}
        OBVIOUS
      <3>2. <<x>> \in Seq(S) /\ <<y>> \in Seq(S) /\ <<x, y>> \in Seq(S)
        BY <3>1
      <3>3. <<x>> \o <<y>> \in Seq(S)
        BY <3>2
      <3>4. Len(<<x>> \o <<y>>) = Len(<<x, y>>)
        BY <3>2
      <3>5. \A i \in 1 .. Len(<<x, y>>) : (<<x>> \o <<y>>)[i] = <<x, y>>[i]
        BY <3>2
      <3>6. PICK s, t : s = <<x>> \o <<y>> /\ t = <<x, y>>
        OBVIOUS
      <3>7. s \in Seq(S) /\ t \in Seq(S) /\ Len(s) = Len(t) /\ \A i \in 1 .. Len(s) : s[i] = t[i]
        BY ONLY <3>2, <3>3, <3>4, <3>5, <3>6
      <3>8. s = t
        BY ONLY <3>7, SeqEqual
      <3> QED BY ONLY <3>6, <3>8
    <2>3. ASSUME NEW x, NEW y, NEW z PROVE <<x, y>> \o <<z>> = <<x, y, z>>
      <3>1. PICK S : S = {x, y, z}
        OBVIOUS
      <3>2. <<x, y>> \in Seq(S) /\ <<z>> \in Seq(S) /\ <<x, y, z>> \in Seq(S)
        BY <3>1
      <3>3. <<x, y>> \o <<z>> \in Seq(S)
        BY <3>2
      <3>4. Len(<<x, y>> \o <<z>>) = Len(<<x, y, z>>)
        BY <3>2
      <3>5. \A i \in 1 .. Len(<<x, y, z>>) : (<<x, y>> \o <<z>>)[i] = <<x, y, z>>[i]
        BY <3>2
      <3>6. PICK s, t : s = <<x, y>> \o <<z>> /\ t = <<x, y, z>>
        OBVIOUS
      <3>7. s \in Seq(S) /\ t \in Seq(S) /\ Len(s) = Len(t) /\ \A i \in 1 .. Len(s) : s[i] = t[i]
        BY ONLY <3>2, <3>3, <3>4, <3>5, <3>6
      <3>8. s = t
        BY ONLY <3>7, SeqEqual
      <3> QED BY ONLY <3>6, <3>8
    <2> QED BY <2>1, <2>2, <2>3
  <1> DEFINE of(x) == [Commits(x.txs \o <<Block1(m, x.d, to)>>, m) EXCEPT !.res = x.res]
  <1>4. \A x : of(x) = Outcome(m, x.res, x.txs \o <<Block1(m, x.d, to)>>)
    BY <1>2
  <1>5. CASE ~Due(d, to)
    <2>1. PICK x : x = [res |-> "ok", txs |-> <<>>, d |-> d]
      OBVIOUS
    <2>2. x.res = "ok" /\ x.txs = <<>> /\ x.d = d /\ befores = {x}
      BY <1>5, <2>1
    <2>3. record_PutBlock(m, d, to) = {of(y) : y \in {x}}
      <3> HIDE DEF befores
      <3> QED BY <1>1, <2>2
    <2> HIDE DEF befores, of
    <2>4. record_PutBlock(m, d, to) = {of(x)}
      BY ONLY <2>3
    <2>5. of(x) = Outcome(m, "ok", <<Block1(m, d, to)>>)
      <3>1. x.txs \o <<Block1(m, x.d, to)>> = <<Block1(m, d, to)>>
        BY ONLY <1>3, <2>2
      <3> QED BY ONLY <1>4, <2>2, <3>1
    <2> QED BY <1>5, <2>4, <2>5
  <1>6. CASE Due(d, to)
    <2>1. PICK x : x = [res |-> "ok", txs |-> <<Fix(m, d), Note(m)>>, d |-> Noted(fixingData(d))]
      OBVIOUS
    <2>2. PICK y : y = [res |-> "hid", txs |-> <<Note(m)>>, d |-> Noted(d)]
      OBVIOUS
    <2>3. /\ x.res = "ok" /\ x.txs = <<Fix(m, d), Note(m)>> /\ x.d = Noted(fixingData(d))
          /\ y.res = "hid" /\ y.txs = <<Note(m)>> /\ y.d = Noted(d)
      BY <2>1, <2>2
    <2>4. befores = {x, y}
      BY <1>6, <2>1, <2>2
    <2>5. record_PutBlock(m, d, to) = {of(z) : z \in {x, y}}
      <3> HIDE DEF befores
      <3> QED BY <1>1, <2>4
    <2> HIDE DEF befores, of
    <2>6. record_PutBlock(m, d, to) = {of(x), of(y)}
      BY ONLY <2>5
    <2>7. of(x) = Outcome(m, "ok", <<Fix(m, d), Note(m), Block1(m, Noted(fixingData(d)), to)>>)
      <3>1. x.txs \o <<Block1(m, x.d, to)>>
            = <<Fix(m, d), Note(m), Block1(m, Noted(fixingData(d)), to)>>
        BY ONLY <1>3, <2>3
      <3> QED BY ONLY <1>4, <2>3, <3>1
    <2>8. of(y) = Outcome(m, "hid", <<Note(m), Block1(m, Noted(d), to)>>)
      <3>1. y.txs \o <<Block1(m, y.d, to)>> = <<Note(m), Block1(m, Noted(d), to)>>
        BY ONLY <1>3, <2>3
      <3> QED BY ONLY <1>4, <2>3, <3>1
    <2> QED BY <1>6, <2>6, <2>7, <2>8
  <1> QED BY <1>5, <1>6

(* The contract after the blocks up to h. *)
ChainStep(q, i, t) == FoldLeft(Contract, t, q[1][q[2][i]])
ChainFold == INSTANCE FoldLemmas WITH step <- ChainStep, pick <- LastOf

(* The blocks are taken from the first to the last. *)
LEMMA ChainPicks ==
    ASSUME NEW n \in Nat
    PROVE  ChainFold!Picks(1 .. n) /\ ChainFold!IsFiniteSet(1 .. n)
  <1>1. \A S \in SUBSET (1 .. n) : S # {} => LastOf(S) \in S
    BY LastIn
  <1>2. IsFiniteSet(1 .. n)
    BY PrefixFinite
  <1>3. ChainFold!IsFiniteSet(1 .. n)
    BY <1>2 DEF IsFiniteSet, ChainFold!IsFiniteSet
  <1> QED BY <1>1, <1>3 DEF ChainFold!Picks

(* The contract starts empty and takes one block at a time. *)
LEMMA ContractAtIs ==
    ASSUME NEW ch, NEW n \in Nat
    PROVE  /\ ContractAt(ch, 0) = EmptyTables
           /\ ContractAt(ch, n + 1) = FoldLeft(Contract, ContractAt(ch, n), ch[n + 1])
  <1> DEFINE q(k) == <<ch, [i \in 1 .. k |-> i]>>
  <1>1. \A k : ContractAt(ch, k) = ChainFold!Iter(q(k), EmptyTables, 1 .. k)
    BY DEF ContractAt, FoldLeft, MapThenFoldSet, ChainFold!Iter, ChainStep, LastOf
  <1>2. \A k : q(k)[1] = ch /\ \A i \in 1 .. k : q(k)[2][i] = i
    OBVIOUS
  <1> HIDE DEF q
  <1>3. ContractAt(ch, 0) = EmptyTables
    <2>1. 1 .. 0 = {}
      OBVIOUS
    <2>2. ContractAt(ch, 0) = ChainFold!Iter(q(0), EmptyTables, {})
      BY <1>1, <2>1
    <2> QED BY <2>2, ChainFold!IterEmpty
  <1>4. PICK S, x : S = 1 .. n + 1 /\ x = n + 1
    OBVIOUS
  <1>5. ChainFold!Picks(S) /\ ChainFold!IsFiniteSet(S)
    <2>1. n + 1 \in Nat
      OBVIOUS
    <2> QED BY <1>4, <2>1, ChainPicks
  <1>6. x \in S /\ S # {} /\ S \ {x} = 1 .. n
    <2>1. (1 .. n + 1) \ {n + 1} = 1 .. n
      OBVIOUS
    <2>2. n + 1 \in 1 .. n + 1
      OBVIOUS
    <2>3. x \in S
      BY ONLY <1>4, <2>2
    <2>4. S \ {x} = 1 .. n
      BY ONLY <1>4, <2>1
    <2> QED BY <2>3, <2>4
  <1>7. LastOf(S) = x
    BY <1>4, LastIs
  <1>8. ChainFold!Iter(q(x), EmptyTables, S)
        = ChainStep(q(x), x, ChainFold!Iter(q(x), EmptyTables, 1 .. n))
    <2>1. PICK u : u = q(x)
      OBVIOUS
    <2>2. ChainFold!Iter(u, EmptyTables, S)
          = ChainStep(u, x, ChainFold!Iter(u, EmptyTables, S \ {x}))
      BY <1>5, <1>6, <1>7, ChainFold!IterStep
    <2> QED BY <1>6, <2>1, <2>2
  <1>9. ChainFold!Iter(q(x), EmptyTables, 1 .. n) = ChainFold!Iter(q(n), EmptyTables, 1 .. n)
    <2>1. PICK u, w : u = q(x) /\ w = q(n)
      OBVIOUS
    <2>2. \A i \in 1 .. n : u[1][u[2][i]] = w[1][w[2][i]]
      <3> SUFFICES ASSUME NEW i \in 1 .. n PROVE u[1][u[2][i]] = w[1][w[2][i]]
        OBVIOUS
      <3>1. i \in 1 .. x
        BY <1>4
      <3> QED BY <1>2, <2>1, <3>1
    <2>3. \A i \in 1 .. n : \A a : ChainStep(u, i, a) = ChainStep(w, i, a)
      BY <2>2 DEF ChainStep
    <2>4. ChainFold!Picks(1 .. n) /\ ChainFold!IsFiniteSet(1 .. n)
      BY ChainPicks
    <2> QED BY <2>1, <2>3, <2>4, ChainFold!IterSame
  <1>10. ChainStep(q(x), x, ContractAt(ch, n)) = FoldLeft(Contract, ContractAt(ch, n), ch[n + 1])
    <2>1. q(x)[1] = ch /\ q(x)[2][x] = x
      <3>1. x \in 1 .. x
        BY <1>4, <1>6
      <3> QED BY <1>2, <3>1
    <2> QED BY <1>4, <2>1 DEF ChainStep
  <1>11. ContractAt(ch, x) = ChainFold!Iter(q(x), EmptyTables, S)
    BY <1>1, <1>4
  <1>12. ContractAt(ch, n) = ChainFold!Iter(q(n), EmptyTables, 1 .. n)
    BY <1>1
  <1>13. ContractAt(ch, x) = ChainStep(q(x), x, ContractAt(ch, n))
    BY ONLY <1>8, <1>9, <1>11, <1>12
  <1> QED BY <1>3, <1>4, <1>10, <1>13
-----------------------------------------------------------------------------
(* Whatever the weights are, everything else is as it was. *)
LEMMA AnyWeights ==
    ASSUME NEW v, NEW w, NEW h, NEW d, NEW bs, NEW F, Rel(v, w, h, d, bs, F)
    PROVE  Rel(v, "any", h, d, bs, F)
  <1>1. ASSUME NEW b \in DOMAIN bs
        PROVE  Agrees(v, "any", h, InfoOf(d, b), SumOf(d, b), bs[b], b \in F)
    BY DEF Rel, Agrees
  <1> QED BY <1>1 DEF Rel

(* Empty tables are those of the contract before its first event, at any   *)
(* height.                                                                 *)
LEMMA NothingYet ==
    ASSUME NEW v, NEW w, NEW h
    PROVE  Rel(v, w, h, EmptyTables, EmptyTables, {})
  <1>1. DOMAIN EmptyTables = {}
    BY DEF EmptyTables
  <1>2. RowsOf(EmptyTables) = {} /\ \A b : OfBucket(EmptyTables, b) = {}
    BY <1>1 DEF RowsOf, OfBucket
  <1>3. Log(EmptyTables)
    <2>1. 0 \in Nat /\ 1 .. 0 = {}
      OBVIOUS
    <2>2. IdsUpTo(0) = {}
      BY <2>1 DEF IdsUpTo
    <2> QED BY <1>2, <2>1, <2>2 DEF Log
  <1> QED BY <1>1, <1>2, <1>3 DEF Rel

(* From one height to the next the rows stay right, but at the halving. *)
LEMMA SameInterval ==
    ASSUME NEW v, NEW w, NEW h \in Nat, NEW d, NEW bs, NEW F, Rel(v, w, h, d, bs, F),
           v = "v3" \/ h + 1 # HalvingHeight
    PROVE  Rel(v, w, h + 1, d, bs, F)
  <1>1. Half(v, h + 1) = Half(v, h)
    <2>1. HalvingHeight \in Nat
      BY SystemAssumption
    <2> QED BY <2>1 DEF Half
  <1>2. TypeAt(v, h + 1) = TypeAt(v, h) /\ \A n : Lasting(v, h + 1, n) = Lasting(v, h, n)
    BY <1>1 DEF TypeAt, Lasting
  <1>3. \A n : Whole(v, h, n) => Whole(v, h + 1, n)
    BY <1>2 DEF Whole
  <1>4. ASSUME NEW b \in DOMAIN bs
        PROVE  Agrees(v, w, h + 1, InfoOf(d, b), SumOf(d, b), bs[b], b \in F)
    <2>1. PICK i, s, c, f : i = InfoOf(d, b) /\ s = SumOf(d, b) /\ c = bs[b] /\ f = (b \in F)
      OBVIOUS
    <2>2. Agrees(v, w, h, i, s, c, f)
      BY <2>1 DEF Rel
    <2>3. Agrees(v, w, h + 1, i, s, c, f)
      BY <1>2, <1>3, <2>2 DEF Agrees
    <2> QED BY <2>1, <2>3
  <1> QED BY <1>4 DEF Rel

(* Tables with the same rows, but for the weights. *)
LEMMA Reweighed ==
    ASSUME NEW d, Log(d), NEW d2, RowsOf(d2) = RowsOf(d),
           \A k \in RowsOf(d) : /\ d2[k].b = d[k].b /\ d2[k].amt = d[k].amt
                                /\ DOMAIN d2[k] = DOMAIN d[k]
    PROVE  /\ Log(d2)
           /\ \A b : /\ OfBucket(d2, b) = OfBucket(d, b)
                     /\ SumOf(d2, b) = SumOf(d, b)
                     /\ OfBucket(d, b) # {} =>
                           \E k \in RowsOf(d) : InfoOf(d, b) = d[k] /\ InfoOf(d2, b) = d2[k]
  <1>1. PICK n \in Nat : RowsOf(d) = IdsUpTo(n)
    BY DEF Log
  <1>2. Log(d2)
    BY <1>1 DEF Log
  <1>3. \A b, x : OfBucket(x, b) = {k \in RowsOf(x) : x[k].b = b}
    BY DEF OfBucket, RowsOf
  <1>4. \A b : OfBucket(d2, b) = OfBucket(d, b) /\ OfBucket(d, b) \subseteq RowsOf(d)
    BY <1>3
  <1>5. ASSUME NEW b PROVE SumOf(d2, b) = SumOf(d, b)
    <2>1. IsFiniteSet(OfBucket(d, b))
      BY <1>1, <1>4, IdsFacts, FS_Subset
    <2>2. \A k \in OfBucket(d, b) : d2[k].amt = d[k].amt
      BY <1>4
    <2>3. Sum(d2, OfBucket(d, b)) = Sum(d, OfBucket(d, b))
      BY <2>1, <2>2, SumSame
    <2> QED BY <1>4, <2>3, SumIs
  <1>6. ASSUME NEW b, OfBucket(d, b) # {}
        PROVE  \E k \in RowsOf(d) : InfoOf(d, b) = d[k] /\ InfoOf(d2, b) = d2[k]
    <2> DEFINE k0 == CHOOSE k \in OfBucket(d, b) : \A l \in OfBucket(d, b) : Id(l) <= Id(k)
    <2>1. \E k : IsLast(OfBucket(d, b), k)
      BY <1>1, <1>4, <1>6, LastExists
    <2>2. k0 \in OfBucket(d, b)
      BY <2>1 DEF IsLast
    <2>3. InfoOf(d, b) = d[k0]
      BY DEF InfoOf
    <2>4. InfoOf(d2, b) = d2[k0]
      <3>1. OfBucket(d2, b) = OfBucket(d, b)
        BY <1>4
      <3> QED BY <3>1 DEF InfoOf
    <2> HIDE DEF k0
    <2> QED BY <1>4, <2>2, <2>3, <2>4
  <1> QED BY <1>2, <1>4, <1>5, <1>6

(* The note that the weights have been fixed is no row of the plugin's. *)
LEMMA NotedStep ==
    ASSUME NEW v, NEW w, w # "old", NEW h, NEW d, NEW bs, NEW F, Rel(v, w, h, d, bs, F)
    PROVE  Rel(v, w, h, Noted(d), bs, F)
  <1>1. Fixed[1] # T
    BY DEF Fixed, T
  <1>2. DOMAIN Noted(d) = {Fixed} \cup DOMAIN d /\ \A k \in DOMAIN d : k # Fixed => Noted(d)[k] = d[k]
    BY DEF Noted, Over
  <1>3. RowsOf(Noted(d)) = RowsOf(d) /\ \A k \in RowsOf(d) : Noted(d)[k] = d[k]
    BY <1>1, <1>2 DEF RowsOf
  <1>4. PICK d2 : d2 = Noted(d)
    OBVIOUS
  <1>5. RowsOf(d2) = RowsOf(d) /\ Log(d)
        /\ \A k \in RowsOf(d) : /\ d2[k].b = d[k].b /\ d2[k].amt = d[k].amt
                                /\ DOMAIN d2[k] = DOMAIN d[k]
    BY <1>3, <1>4 DEF Rel
  <1>6. /\ Log(d2)
        /\ \A b : /\ OfBucket(d2, b) = OfBucket(d, b)
                  /\ SumOf(d2, b) = SumOf(d, b)
                  /\ OfBucket(d, b) # {} =>
                        \E k \in RowsOf(d) : InfoOf(d, b) = d[k] /\ InfoOf(d2, b) = d2[k]
    BY ONLY <1>5, Reweighed
  <1>7. \A b \in DOMAIN bs : InfoOf(d2, b) = InfoOf(d, b) /\ SumOf(d2, b) = SumOf(d, b)
    BY <1>3, <1>4, <1>6 DEF Rel
  <1>8. Rel(v, w, h, d2, bs, F)
    BY <1>6, <1>7 DEF Rel
  <1> QED BY <1>4, <1>8

(* Every open bucket has a stake and a duration. *)
Funded(bs) == \A b \in DOMAIN bs : bs[b].open => bs[b].amt # 0 /\ bs[b].n # 0

(* The fix makes the weights those of after Redsea. *)
LEMMA FixStep ==
    ASSUME NEW v, NEW w \in {"old", "new", "any"}, NEW h, NEW d, NEW bs, Rel(v, w, h, d, bs, {}),
           w = "old" => Funded(bs)
    PROVE  Rel(v, IF w = "any" THEN "any" ELSE "new", h, fixingData(d), bs, {})
  <1> DEFINE d2 == fixingData(d)
             u == IF w = "any" THEN "any" ELSE "new"
  <1>1. DOMAIN d2 = DOMAIN d
    BY DEF fixingData
  <1>2. RowsOf(d2) = RowsOf(d)
    <2> HIDE DEF d2
    <2> QED BY <1>1 DEF RowsOf
  <1>3. \A k \in RowsOf(d) :
           d2[k] = IF d[k].staked = 0 THEN d[k]
                   ELSE [d[k] EXCEPT !.vp = GetVoteWeight(RedseaHeight,
                            DurationFromType(d[k].dur, d[k].type), d[k].staked, d[k].auto)]
    BY DEF fixingData, RowsOf
  <1>4. Log(d) /\ \A k \in RowsOf(d) : DOMAIN d[k] = Columns
    BY DEF Rel, Log
  <1>5. \A k \in RowsOf(d) :
           /\ DOMAIN d2[k] = DOMAIN d[k]
           /\ d2[k].b = d[k].b /\ d2[k].amt = d[k].amt /\ d2[k].staked = d[k].staked
           /\ d2[k].owner = d[k].owner /\ d2[k].cand = d[k].cand /\ d2[k].auto = d[k].auto
           /\ d2[k].dur = d[k].dur /\ d2[k].type = d[k].type
           /\ d[k].staked = 0 => d2[k].vp = d[k].vp
           /\ d[k].staked # 0 =>
                 d2[k].vp = <<d[k].staked, DurationFromType(d[k].dur, d[k].type), d[k].auto>>
    <2> HIDE DEF d2
    <2>1. ~(RedseaHeight < RedseaHeight)
      BY SystemAssumption
    <2>2. ASSUME NEW k \in RowsOf(d), d[k].staked = 0 PROVE d2[k] = d[k]
      BY <1>3, <2>2
    <2>3. ASSUME NEW k \in RowsOf(d), d[k].staked # 0
          PROVE  /\ DOMAIN d2[k] = DOMAIN d[k]
                 /\ d2[k].b = d[k].b /\ d2[k].amt = d[k].amt /\ d2[k].staked = d[k].staked
                 /\ d2[k].owner = d[k].owner /\ d2[k].cand = d[k].cand
                 /\ d2[k].auto = d[k].auto
                 /\ d2[k].dur = d[k].dur /\ d2[k].type = d[k].type
                 /\ d2[k].vp = <<d[k].staked, DurationFromType(d[k].dur, d[k].type), d[k].auto>>
      <3>1. "vp" \in DOMAIN d[k]
        BY <1>4 DEF Columns
      <3>2. PICK x : x = <<d[k].staked, DurationFromType(d[k].dur, d[k].type), d[k].auto>>
        OBVIOUS
      <3>3. d2[k] = [d[k] EXCEPT !.vp = x]
        BY <1>3, <2>1, <2>3, <3>2 DEF GetVoteWeight
      <3> QED BY <3>1, <3>2, <3>3
    <2> QED BY <2>2, <2>3
  <1> HIDE DEF d2, u
  <1>6. /\ Log(d2)
        /\ \A b : /\ OfBucket(d2, b) = OfBucket(d, b)
                  /\ SumOf(d2, b) = SumOf(d, b)
                  /\ OfBucket(d, b) # {} =>
                        \E k \in RowsOf(d) : InfoOf(d, b) = d[k] /\ InfoOf(d2, b) = d2[k]
    <2>1. PICK e : e = d2
      OBVIOUS
    <2>2. Log(d) /\ RowsOf(e) = RowsOf(d)
          /\ \A k \in RowsOf(d) : /\ e[k].b = d[k].b /\ e[k].amt = d[k].amt
                                  /\ DOMAIN e[k] = DOMAIN d[k]
      BY <1>2, <1>4, <1>5, <2>1
    <2>3. /\ Log(e)
          /\ \A b : /\ OfBucket(e, b) = OfBucket(d, b)
                    /\ SumOf(e, b) = SumOf(d, b)
                    /\ OfBucket(d, b) # {} =>
                          \E k \in RowsOf(d) : InfoOf(d, b) = d[k] /\ InfoOf(e, b) = e[k]
      BY ONLY <2>2, Reweighed
    <2> QED BY ONLY <2>1, <2>3
  <1>7. ASSUME NEW b \in DOMAIN bs
        PROVE  Agrees(v, u, h, InfoOf(d2, b), SumOf(d2, b), bs[b], b \in {})
    <2>1. PICK k \in RowsOf(d) : InfoOf(d, b) = d[k] /\ InfoOf(d2, b) = d2[k]
      BY <1>6 DEF Rel
    <2>2. PICK i, j, c, s : i = d[k] /\ j = d2[k] /\ c = bs[b] /\ s = SumOf(d, b)
      OBVIOUS
    <2>3. Agrees(v, w, h, i, s, c, FALSE)
      <3>1. Agrees(v, w, h, InfoOf(d, b), SumOf(d, b), bs[b], b \in {})
        BY DEF Rel
      <3>2. (b \in {}) = FALSE
        OBVIOUS
      <3> QED BY <2>1, <2>2, <3>1, <3>2
    <2>4. /\ j.staked = i.staked
          /\ j.owner = i.owner /\ j.cand = i.cand /\ j.auto = i.auto
          /\ j.dur = i.dur /\ j.type = i.type
          /\ i.staked = 0 => j.vp = i.vp
          /\ i.staked # 0 => j.vp = <<i.staked, DurationFromType(i.dur, i.type), i.auto>>
      BY <1>5, <2>2
    <2>5. w = "old" /\ c.open => c.amt # 0
      BY <2>2 DEF Funded
    <2>6. ASSUME c.open, w # "any"
          PROVE  j.vp = WeightOf("new", Lasting(v, h, c.n), c)
      <3>1. Whole(v, h, c.n) /\ i.type = TypeAt(v, h) /\ i.staked = c.amt /\ i.auto = c.auto
            /\ i.dur = DurationByType(Lasting(v, h, c.n), TypeAt(v, h))
            /\ i.vp = WeightOf(w, Lasting(v, h, c.n), c)
        BY <2>3, <2>6 DEF Agrees
      <3>2. DurationFromType(i.dur, i.type) = Lasting(v, h, c.n)
        BY <3>1, RoundTrip
      <3>3. CASE i.staked = 0
        <4>1. w = "new"
          BY <2>5, <2>6, <3>1, <3>3
        <4> QED BY <2>4, <3>1, <3>3, <4>1
      <3>4. CASE i.staked # 0
        BY <2>4, <3>1, <3>2, <3>4 DEF WeightOf
      <3> QED BY <3>3, <3>4
    <2>7. Agrees(v, u, h, j, s, c, FALSE)
      BY <2>3, <2>4, <2>6 DEF Agrees, u
    <2>8. SumOf(d2, b) = SumOf(d, b) /\ (b \in {}) = FALSE
      BY <1>6
    <2> QED BY <2>1, <2>2, <2>7, <2>8
  <1>8. u # "old"
    BY DEF u
  <1>9. \A b : b \in DOMAIN bs <=> OfBucket(d2, b) # {}
    BY <1>6 DEF Rel
  <1>10. Rel(v, u, h, d2, bs, {})
    BY <1>6, <1>7, <1>8, <1>9 DEF Rel
  <1> QED BY <1>10 DEF u, d2
-----------------------------------------------------------------------------
(* At the halving each open bucket gets a copy of its last row in the new  *)
(* intervals.                                                              *)
CopyOf(d, h, b) ==
    LET i == InfoOf(d, b)
        duration == DurationFromType(i.dur, i.type) \div 2
    IN  Over([h |-> h, amt |-> 0, type |-> 1, dur |-> DurationByType(duration, 1),
              vp |-> GetVoteWeight(h, duration, i.staked, i.auto)], i)
CopyStep(q, b, t) == Added(t, CopyOf(q.d, q.h, b))
CopyFold == INSTANCE FoldLemmas WITH step <- CopyStep, pick <- AnyOf
Revisable(d) ==
    {b \in {d[k].b : k \in RowsOf(d)} :
        InfoOf(d, b).staked # 0 /\ InfoOf(d, b).dur # 0 /\ InfoOf(d, b).type = 0}

(* The halving adds the copies of the buckets that are open and in old     *)
(* units.                                                                  *)
LEMMA ReviserIs ==
    ASSUME NEW d, NEW h
    PROVE  Reviser(d, h, FALSE) = CopyFold!Iter([d |-> d, h |-> h], d, Revisable(d))
  BY DEF Reviser, FoldSet, MapThenFoldSet, CopyFold!Iter, CopyStep, CopyOf, AnyOf, Revisable,
         RowsOf

(* The buckets s have their copy in t, the others their row of d. *)
Copied(d, h, t, s) ==
    /\ Log(t)
    /\ Fixed \in DOMAIN t => Fixed \in DOMAIN d
    /\ \A b : /\ OfBucket(t, b) # {} <=> OfBucket(d, b) # {}
              /\ SumOf(t, b) = SumOf(d, b)
              /\ OfBucket(d, b) # {} =>
                    InfoOf(t, b) = IF b \in s THEN CopyOf(d, h, b) ELSE InfoOf(d, b)

(* A copy is the bucket's last row in the new units, without an amount. *)
LEMMA CopyIs ==
    ASSUME NEW d, Log(d), NEW h, NEW b, OfBucket(d, b) # {}
    PROVE  LET i == InfoOf(d, b)
               r == CopyOf(d, h, b)
               duration == DurationFromType(i.dur, i.type) \div 2
           IN  /\ DOMAIN r = Columns /\ r.b = b /\ r.amt = 0 /\ r.type = 1 /\ r.dur = duration
               /\ r.owner = i.owner /\ r.cand = i.cand /\ r.auto = i.auto
               /\ r.staked = i.staked
               /\ r.vp = GetVoteWeight(h, duration, i.staked, i.auto)
  <1> DEFINE duration == DurationFromType(InfoOf(d, b).dur, InfoOf(d, b).type) \div 2
  <1>1. PICK i : i = InfoOf(d, b) /\ i.b = b /\ DOMAIN i = Columns
    BY InfoFacts
  <1>2. PICK y, x, z : y = duration /\ x = GetVoteWeight(h, duration, i.staked, i.auto)
                       /\ z = [h |-> h, amt |-> 0, type |-> 1, dur |-> y, vp |-> x]
    OBVIOUS
  <1>3. CopyOf(d, h, b) = Over(z, i)
    BY <1>1, <1>2 DEF CopyOf, DurationByType
  <1>4. DOMAIN z = {"h", "amt", "type", "dur", "vp"} /\ z.amt = 0 /\ z.type = 1 /\ z.dur = y
        /\ z.vp = x
    BY <1>2
  <1>5. \A f \in Columns : Over(z, i)[f] = IF f \in DOMAIN z THEN z[f] ELSE i[f]
    BY <1>1 DEF Over
  <1>6. DOMAIN Over(z, i) = Columns
    <2>1. DOMAIN z \cup Columns = Columns
      BY <1>4 DEF Columns
    <2> QED BY <1>1, <2>1 DEF Over
  <1>7. {"b", "amt", "type", "dur", "owner", "cand", "auto", "staked", "vp"} \subseteq Columns
    BY DEF Columns
  <1> HIDE DEF duration
  <1>8. PICK r : r = CopyOf(d, h, b)
    OBVIOUS
  <1>9. /\ DOMAIN r = Columns /\ r.b = b /\ r.amt = 0 /\ r.type = 1 /\ r.dur = y
        /\ r.owner = i.owner /\ r.cand = i.cand /\ r.auto = i.auto
        /\ r.staked = i.staked /\ r.vp = x
    BY <1>1, <1>3, <1>4, <1>5, <1>6, <1>7, <1>8
  <1> QED BY <1>1, <1>2, <1>8, <1>9 DEF duration

(* One more copy leaves the sums and the other buckets' last rows alone. *)
LEMMA CopiedStep ==
    ASSUME NEW d, Log(d), NEW h, NEW t, NEW s, Copied(d, h, t, s),
           NEW b, b \notin s, OfBucket(d, b) # {}
    PROVE  Copied(d, h, Added(t, CopyOf(d, h, b)), s \cup {b})
  <1>1. PICK r : r = CopyOf(d, h, b)
    OBVIOUS
  <1>2. DOMAIN r = Columns /\ r.b = b /\ r.amt = 0
    BY <1>1, CopyIs
  <1>3. 0 \in Int /\ Log(t)
    BY DEF Copied
  <1>4. /\ Log(Added(t, r))
        /\ Fixed \in DOMAIN Added(t, r) => Fixed \in DOMAIN t
        /\ OfBucket(Added(t, r), b) # {}
        /\ InfoOf(Added(t, r), b) = r
        /\ SumOf(Added(t, r), b) = SumOf(t, b) + 0
        /\ \A c : c # b =>
              /\ OfBucket(Added(t, r), c) = OfBucket(t, c)
              /\ SumOf(Added(t, r), c) = SumOf(t, c)
              /\ OfBucket(t, c) # {} => InfoOf(Added(t, r), c) = InfoOf(t, c)
    BY <1>2, <1>3, AddedIs
  <1>5. SumOf(t, b) + 0 = SumOf(t, b)
    BY <1>3, InfoFacts
  <1> QED BY <1>1, <1>4, <1>5 DEF Copied

(* A finite set of buckets is one that the fold can go through. *)
LEMMA CopyFacts ==
    ASSUME NEW S, IsFiniteSet(S)
    PROVE  CopyFold!Picks(S) /\ CopyFold!IsFiniteSet(S)
  BY DEF AnyOf, CopyFold!Picks, IsFiniteSet, CopyFold!IsFiniteSet

(* All the copies together, whatever their order. *)
LEMMA CopiedAll ==
    ASSUME NEW d, Log(d), NEW h, NEW S, IsFiniteSet(S), \A b \in S : OfBucket(d, b) # {}
    PROVE  Copied(d, h, CopyFold!Iter([d |-> d, h |-> h], d, S), S)
  <1>1. PICK q : q.d = d /\ q.h = h /\ q = [d |-> d, h |-> h]
    OBVIOUS
  <1> DEFINE Good(s) == Copied(d, h, CopyFold!Iter(q, d, s), s)
             Bad == {s \in SUBSET S : ~Good(s)}
  <1>2. Good({})
    <2>1. CopyFold!Iter(q, d, {}) = d
      BY CopyFold!IterEmpty
    <2>2. Copied(d, h, d, {})
      BY DEF Copied
    <2> QED BY <2>1, <2>2
  <1>3. Bad = {}
    <2> SUFFICES ASSUME Bad # {} PROVE FALSE
      OBVIOUS
    <2>1. Bad \in SUBSET SUBSET S
      OBVIOUS
    <2>2. PICK s \in Bad : \A t \in Bad : t \subseteq s => t = s
      <3> HIDE DEF Bad
      <3> QED BY <2>1, CopyFacts, CopyFold!Least
    <2>3. s \subseteq S /\ ~Good(s)
      OBVIOUS
    <2>4. s # {}
      <3> HIDE DEF Good
      <3> QED BY <1>2, <2>3
    <2>5. IsFiniteSet(s)
      BY <2>3, FS_Subset
    <2> DEFINE b == AnyOf(s)
               u == s \ {b}
    <2>6. b \in s
      BY <2>4 DEF AnyOf
    <2>7. u \subseteq S /\ u \subseteq s /\ u # s /\ u \cup {b} = s /\ b \notin u
      BY <2>3, <2>6
    <2>8. Good(u)
      <3>1. u \notin Bad
        <4> HIDE DEF Bad, b
        <4> QED BY <2>2, <2>7
      <3> HIDE DEF Good, b
      <3> QED BY <3>1, <2>7
    <2>9. CopyFold!Iter(q, d, s) = CopyStep(q, b, CopyFold!Iter(q, d, u))
      BY <2>4, <2>5, CopyFacts, CopyFold!IterStep
    <2> HIDE DEF b
    <2>10. PICK t : t = CopyFold!Iter(q, d, u)
      OBVIOUS
    <2>11. Log(d) /\ Copied(d, h, t, u) /\ b \notin u /\ OfBucket(d, b) # {}
      BY <2>3, <2>6, <2>7, <2>8, <2>10
    <2> HIDE DEF u
    <2>12. Copied(d, h, Added(t, CopyOf(d, h, b)), u \cup {b})
      BY ONLY <2>11, CopiedStep
    <2>13. CopyStep(q, b, t) = Added(t, CopyOf(d, h, b))
      BY <1>1 DEF CopyStep
    <2> QED BY <2>3, <2>7, <2>9, <2>10, <2>12, <2>13
  <1>4. Good(S)
    <2> HIDE DEF Good
    <2> QED BY <1>3
  <1> QED BY <1>1, <1>4

(* What is right before the halving is so after it, in the new intervals: *)
(* two of them for one of before, the time in the row no longer in days.   *)
LEMMA ReviseStep ==
    ASSUME NEW v \in {"v1", "v2"}, NEW w, w # "old", NEW h \in Nat, h + 1 = HalvingHeight,
           NEW d, NEW bs, Rel(v, w, h, d, bs, {}), Funded(bs)
    PROVE  Rel(v, w, h + 1, Reviser(d, h + 1, FALSE), bs, {})
  <1>1. PICK H : H = h + 1
    OBVIOUS
  <1>2. /\ ~Half(v, h) /\ Half(v, H) /\ ~(H < RedseaHeight)
        /\ TypeAt(v, h) = 0 /\ TypeAt(v, H) = 1
    <2>1. {RedseaHeight, HalvingHeight} \subseteq Nat /\ HalvingHeight > RedseaHeight
      BY SystemAssumption
    <2>2. ~Half(v, h) /\ Half(v, H)
      BY <1>1, <2>1 DEF Half
    <2> QED BY <1>1, <2>1, <2>2 DEF TypeAt
  <1>3. \A n : Lasting(v, h, n) = 2 * n /\ Lasting(v, H, n) = n
    BY <1>2 DEF Lasting, BlocksToDuration
  <1>4. Log(d)
    BY DEF Rel
  <1> DEFINE S == Revisable(d)
             t == Reviser(d, H, FALSE)
  <1>5. IsFiniteSet(S)
    <2>1. PICK n \in Nat : RowsOf(d) = IdsUpTo(n)
      BY <1>4 DEF Log
    <2>2. IsFiniteSet(RowsOf(d))
      BY <2>1, IdsFacts
    <2>3. IsFiniteSet({d[k].b : k \in RowsOf(d)})
      <3> DEFINE B == {d[k].b : k \in RowsOf(d)}
                 f == [k \in RowsOf(d) |-> d[k].b]
      <3>1. f \in [RowsOf(d) -> B] /\ \A b \in B : \E k \in RowsOf(d) : f[k] = b
        OBVIOUS
      <3>2. f \in Surjection(RowsOf(d), B)
        <4> HIDE DEF B, f
        <4> QED BY <3>1 DEF Surjection
      <3> QED BY <2>2, <3>2, FS_Surjection
    <2>4. S \subseteq {d[k].b : k \in RowsOf(d)}
      BY DEF Revisable
    <2> HIDE DEF S
    <2> QED BY <2>3, <2>4, FS_Subset
  <1>6. \A b : b \in S <=> /\ OfBucket(d, b) # {}
                           /\ InfoOf(d, b).staked # 0 /\ InfoOf(d, b).dur # 0
                           /\ InfoOf(d, b).type = 0
    <2>1. \A b : b \in {d[k].b : k \in RowsOf(d)} <=> OfBucket(d, b) # {}
      BY DEF OfBucket, RowsOf
    <2> QED BY <2>1 DEF Revisable
  <1>7. Copied(d, H, t, S)
    <2> HIDE DEF S
    <2>1. t = CopyFold!Iter([d |-> d, h |-> H], d, S)
      BY ReviserIs DEF S
    <2> HIDE DEF t
    <2> QED BY <1>4, <1>5, <1>6, <2>1, CopiedAll
  <1> HIDE DEF S, t
  <1>8. ASSUME NEW b \in DOMAIN bs
        PROVE  Agrees(v, w, H, InfoOf(t, b), SumOf(t, b), bs[b], b \in {})
    <2>1. PICK i, j, c, s : i = InfoOf(d, b) /\ j = InfoOf(t, b) /\ c = bs[b] /\ s = SumOf(d, b)
      OBVIOUS
    <2>2. (b \in {}) = FALSE /\ OfBucket(d, b) # {}
      BY DEF Rel
    <2>3. Agrees(v, w, h, i, s, c, FALSE)
      <3>1. Agrees(v, w, h, InfoOf(d, b), SumOf(d, b), bs[b], b \in {})
        BY DEF Rel
      <3> QED BY <2>1, <2>2, <3>1
    <2>4. SumOf(t, b) = s
      BY <1>7, <2>1 DEF Copied
    <2>5. CASE ~c.open
      <3>1. i.staked = 0 /\ c.amt = 0
        BY <2>3, <2>5 DEF Agrees
      <3>2. b \notin S
        BY <1>6, <2>1, <3>1
      <3>3. j = i
        BY <1>7, <2>1, <2>2, <3>2 DEF Copied
      <3>4. Agrees(v, w, H, j, s, c, FALSE)
        BY <2>3, <2>5, <3>3 DEF Agrees
      <3> QED BY <2>1, <2>2, <2>4, <3>4
    <2>6. CASE c.open
      <3>1. /\ DOMAIN c = BucketColumns /\ c.amt \in Int /\ s = c.amt /\ i.staked = c.amt
            /\ i.owner = c.owner /\ i.cand = c.cand /\ i.auto = c.auto
            /\ Whole(v, h, c.n) /\ i.type = 0
            /\ i.dur = DurationByType(Lasting(v, h, c.n), 0)
        BY <1>2, <2>3, <2>6 DEF Agrees
      <3>2. DurationFromType(i.dur, i.type) = 2 * c.n
        BY <1>2, <1>3, <3>1, RoundTrip
      <3>3. c.n \in Int /\ c.n # 0 /\ c.amt # 0
        BY <2>1, <2>6, <3>1 DEF Whole, Funded
      <3>4. i.dur # 0
        <4> SUFFICES ASSUME i.dur = 0 PROVE FALSE
          OBVIOUS
        <4>1. DurationFromType(i.dur, i.type) = 0
          <5>1. Day \in Nat
            BY SystemAssumption
          <5>2. 0 * Day = 0
            BY <5>1
          <5> QED BY <3>1, <5>2 DEF DurationFromType
        <4> QED BY <3>2, <3>3, <4>1
      <3>5. b \in S
        BY <1>6, <2>1, <2>2, <3>1, <3>3, <3>4
      <3>6. j = CopyOf(d, H, b)
        BY <1>7, <2>1, <2>2, <3>5 DEF Copied
      <3>7. DurationFromType(i.dur, i.type) \div 2 = c.n
        <4>1. (2 * c.n) \div 2 = c.n
          BY <3>3
        <4> QED BY <3>2, <4>1
      <3>8. /\ j.type = 1 /\ j.dur = c.n /\ j.owner = i.owner /\ j.cand = i.cand
            /\ j.auto = i.auto /\ j.staked = i.staked
            /\ j.vp = GetVoteWeight(H, c.n, i.staked, i.auto)
        BY <1>4, <2>1, <2>2, <3>6, <3>7, CopyIs
      <3>9. j.vp = <<c.amt, c.n, c.auto>>
        BY <1>2, <3>1, <3>8 DEF GetVoteWeight
      <3>10. Whole(v, H, c.n)
        BY <1>2, <3>3 DEF Whole
      <3>11. j.dur = DurationByType(Lasting(v, H, c.n), TypeAt(v, H))
        BY <1>2, <1>3, <3>8 DEF DurationByType
      <3>12. j.vp = WeightOf(w, Lasting(v, H, c.n), c)
        BY <1>3, <3>9 DEF WeightOf
      <3>13. Agrees(v, w, H, j, s, c, FALSE)
        BY <1>2, <2>6, <3>1, <3>8, <3>10, <3>11, <3>12 DEF Agrees
      <3> QED BY <2>1, <2>2, <2>4, <3>13
    <2> QED BY <2>5, <2>6
  <1>9. Log(t) /\ \A b : b \in DOMAIN bs <=> OfBucket(t, b) # {}
    BY <1>7 DEF Copied, Rel
  <1>10. Rel(v, w, H, t, bs, {})
    BY <1>8, <1>9 DEF Rel
  <1> QED BY <1>1, <1>10 DEF t

(* From one height to the next. *)
LEMMA HeightStep ==
    ASSUME NEW v \in {"v1", "v2", "v3"}, NEW w, NEW h \in Nat, NEW d, NEW bs,
           Rel(v, w, h, d, bs, {}), Suits(w, h + 1),
           v # "v3" /\ h + 1 = HalvingHeight => Funded(bs)
    PROVE  Rel(v, w, h + 1, Revised(v, d, h + 1), bs, {})
  <1>1. CASE v = "v3" \/ h + 1 # HalvingHeight
    <2>1. Rel(v, w, h + 1, d, bs, {})
      BY <1>1, SameInterval
    <2> QED BY <1>1, <2>1 DEF Revised
  <1>2. CASE v # "v3" /\ h + 1 = HalvingHeight
    <2>1. w # "old"
      BY <1>2, SystemAssumption DEF Suits
    <2>2. Rel(v, w, h + 1, Reviser(d, h + 1, FALSE), bs, {})
      BY <1>2, <2>1, ReviseStep
    <2> QED BY <1>2, <2>2 DEF Revised
  <1> QED BY <1>1, <1>2
-----------------------------------------------------------------------------
(* The chains the proofs are about, and the harness with the operators of  *)
(* the three plugins.                                                      *)
VersionOf(p) == CASE p = "system_staking_bucket_record" -> "v1"
                  [] p = "system_staking_bucket_v2_record" -> "v2"
                  [] OTHER -> "v3"

(* The last height a plugin passes over. *)
First(p) == IF p = "system_staking_bucket_record" THEN ContractHeight - 1 ELSE ContractHeight

(* A chain without events of the contract before it exists, whose blocks   *)
(* hold what the contract allows; where the rows are rewritten or restated *)
(* the open buckets have a stake and a duration.                           *)
LawfulChain(p, ch) ==
    /\ \E R : ch \in Seq(R)
    /\ First(p) <= Len(ch)
    /\ \A h \in 1 .. First(p) : ch[h] = <<>>
    /\ \A h \in 1 .. Len(ch) : LawfulBlock(VersionOf(p), h, ContractAt(ch, h - 1), ch[h])
    /\ VersionOf(p) # "v3" =>
          \A h \in 1 .. Len(ch) :
              h + 1 \in {RedseaHeight, HalvingHeight} => Funded(ContractAt(ch, h))

(* What the instance MCStakingPlugins gives these plugins, on any lawful   *)
(* chains; what it gives the others does not matter.                       *)
Wired ==
    \A p \in Plugins \cap SystemPlugins :
        /\ p \notin Workers
        /\ FaultsOf(p) \in Nat /\ BatchOf(p) = 1
        /\ \A ch \in Chains(p) : LawfulChain(p, ch)
        /\ Fresh(p) = [b |-> [h |-> 0, c |-> <<>>]]
        /\ \A m, d, h, ch :
              StartOf(p, m, d, h, ch) =
                  CASE p = "system_staking_bucket_record" -> record_Start(m, d, h)
                    [] p = "system_staking_bucket_v2_record" -> v2_record_Start(m, d, h)
                    [] p = "system_staking_bucket_v3_record" -> v3_record_Start(m, d, h)
        /\ \A m, d, b : PutOf(p, m, d, b) = NowAt(m, b)
        /\ \A m, d, from, to :
              CommitOf(p, m, d, from, to) =
                  CASE p = "system_staking_bucket_record" -> record_PutBlock(m, d, to)
                    [] p = "system_staking_bucket_v2_record" -> v2_record_PutBlock(m, d, to)
                    [] p = "system_staking_bucket_v3_record" -> v3_record_PutBlock(m, d, to)

(* Where each version starts, and how that lies to Redsea. *)
LEMMA VersionFacts ==
    ASSUME NEW p \in SystemPlugins
    PROVE  /\ VersionOf(p) \in {"v1", "v2", "v3"}
           /\ First(p) \in Nat
           /\ VersionOf(p) # "v1" => First(p) + 1 >= RedseaHeight /\ First(p) > 0
           /\ VersionOf(p) = "v1" => First(p) + 2 >= RedseaHeight
  <1>1. {RedseaHeight, ContractHeight} \subseteq Nat /\ ContractHeight >= RedseaHeight - 1
        /\ ContractHeight > 0
    BY SystemAssumption
  <1> QED BY <1>1 DEF SystemPlugins, VersionOf, First

(* A block without events changes nothing. *)
LEMMA NoEvents == \A bs : FoldLeft(Contract, bs, <<>>) = bs
  <1> SUFFICES ASSUME NEW bs PROVE FoldLeft(Contract, bs, <<>>) = bs
    OBVIOUS
  <1>1. PICK c, R : c = <<>> /\ c \in Seq(R)
    <2>1. <<>> \in Seq({})
      OBVIOUS
    <2> QED BY <2>1
  <1>2. Len(c) = 0 /\ 0 \in 0 .. Len(c) /\ 1 .. 0 = {}
    BY <1>1
  <1>3. /\ After(bs, c, 0) = ContractFold!Iter(c, bs, 1 .. 0)
        /\ After(bs, c, Len(c)) = FoldLeft(Contract, bs, c)
    BY <1>1, <1>2, AfterIs
  <1>4. ContractFold!Iter(c, bs, {}) = bs
    BY ContractFold!IterEmpty
  <1> QED BY <1>1, <1>2, <1>3, <1>4

(* Before its first events the contract has no bucket. *)
LEMMA NoContract ==
    ASSUME NEW p \in SystemPlugins, NEW ch, LawfulChain(p, ch), NEW h \in 0 .. First(p)
    PROVE  ContractAt(ch, h) = EmptyTables
  <1> DEFINE Good == {n \in Nat : n <= First(p) => ContractAt(ch, n) = EmptyTables}
  <1>1. First(p) \in Nat
    BY VersionFacts
  <1>2. 0 \in Good
    <2>1. 0 \in Nat
      OBVIOUS
    <2> QED BY <2>1, ContractAtIs
  <1>3. ASSUME NEW n \in Good PROVE n + 1 \in Good
    <2>1. n \in Nat
      OBVIOUS
    <2> SUFFICES ASSUME n + 1 <= First(p) PROVE ContractAt(ch, n + 1) = EmptyTables
      BY <2>1
    <2>2. n <= First(p) /\ n + 1 \in 1 .. First(p)
      BY <1>1, <2>1
    <2>3. ContractAt(ch, n) = EmptyTables
      BY <2>2
    <2> HIDE DEF Good
    <2>4. ch[n + 1] = <<>>
      BY <2>2 DEF LawfulChain
    <2>5. ContractAt(ch, n + 1) = FoldLeft(Contract, ContractAt(ch, n), ch[n + 1])
      BY <2>1, ContractAtIs
    <2> QED BY <2>3, <2>4, <2>5, NoEvents
  <1>4. h \in Good
    <2>1. Good \in SUBSET Nat
      OBVIOUS
    <2> HIDE DEF Good
    <2>2. Good = Nat
      BY <1>2, <1>3, <2>1, SetInduction
    <2> QED BY <1>1, <2>2
  <1> QED BY <1>1, <1>4

(* Open buckets have a stake and a duration when the fix or the copies are *)
(* due.                                                                    *)
LEMMA FundedAt ==
    ASSUME NEW p \in SystemPlugins, VersionOf(p) # "v3", NEW ch, LawfulChain(p, ch),
           NEW h \in Nat, h <= Len(ch), h + 1 \in {RedseaHeight, HalvingHeight}
    PROVE  Funded(ContractAt(ch, h))
  <1>1. CASE h = 0
    <2>1. 0 \in 0 .. First(p)
      BY VersionFacts
    <2>2. ContractAt(ch, h) = EmptyTables
      BY <1>1, <2>1, NoContract
    <2> QED BY <2>2 DEF Funded, EmptyTables
  <1>2. CASE h # 0
    <2>1. h \in 1 .. Len(ch)
      <3>1. Len(ch) \in Nat
        BY DEF LawfulChain
      <3> QED BY <1>2, <3>1
    <2> QED BY <2>1 DEF LawfulChain
  <1> QED BY <1>1, <1>2

(* What the block after height h adds, with the rows restated if it is the *)
(* one at the halving.                                                     *)
LEMMA IndexStep ==
    ASSUME NEW p \in SystemPlugins, NEW ch, LawfulChain(p, ch), NEW h \in Nat, h + 1 <= Len(ch),
           NEW w, NEW d, Rel(VersionOf(p), w, h, d, ContractAt(ch, h), {}), Suits(w, h + 1)
    PROVE  Rel(VersionOf(p), w, h + 1,
               Events1(VersionOf(p), [h |-> h + 1, c |-> ch[h + 1]],
                       Revised(VersionOf(p), d, h + 1)),
               ContractAt(ch, h + 1), {})
  <1>1. PICK v, bs, c, to, d2 :
            v = VersionOf(p) /\ bs = ContractAt(ch, h) /\ c = ch[h + 1] /\ to = h + 1
            /\ d2 = Revised(VersionOf(p), d, h + 1)
    OBVIOUS
  <1>2. Len(ch) \in Nat
    BY DEF LawfulChain
  <1>3. v # "v3" /\ h + 1 = HalvingHeight => Funded(bs)
    <2>1. h <= Len(ch)
      BY <1>2
    <2> QED BY <1>1, <2>1, FundedAt
  <1>4. v \in {"v1", "v2", "v3"} /\ Rel(v, w, h, d, bs, {})
    BY <1>1, VersionFacts
  <1>5. Rel(v, w, to, d2, bs, {})
    BY <1>1, <1>3, <1>4, HeightStep
  <1>6. LawfulBlock(v, to, bs, c)
    <2>1. h + 1 \in 1 .. Len(ch) /\ (h + 1) - 1 = h
      BY <1>2
    <2>2. LawfulBlock(VersionOf(p), h + 1, ContractAt(ch, (h + 1) - 1), ch[h + 1])
      BY <2>1 DEF LawfulChain
    <2> QED BY <1>1, <2>1, <2>2
  <1>7. Suits(w, to)
    BY <1>1
  <1>8. Rel(v, w, to, HandleFold!Iter([v |-> v, h |-> to, c |-> c], d2, DOMAIN c),
            FoldLeft(Contract, bs, c), {})
    BY ONLY <1>5, <1>6, <1>7, BlockStep
  <1>9. ContractAt(ch, to) = FoldLeft(Contract, bs, c)
    BY <1>1, ContractAtIs
  <1>10. Events1(v, [h |-> to, c |-> c], d2) = HandleFold!Iter([v |-> v, h |-> to, c |-> c], d2, DOMAIN c)
    BY DEF Events1
  <1> QED BY <1>1, <1>8, <1>9, <1>10
-----------------------------------------------------------------------------
(* The transaction of the block at `to'. *)
BlockOf(v, m, d, to) == Tx(m, <<Become(Events1(v, m.b, Revised(v, d, to)))>>, to)

(* The outcomes of PutBlock. *)
LEMMA CommitIs ==
    ASSUME Wired, NEW p \in Plugins \cap SystemPlugins, NEW m, NEW d, NEW from, NEW to,
           NEW c \in CommitOf(p, m, d, from, to)
    PROVE  \/ /\ VersionOf(p) = "v1" => ~Due(d, to)
              /\ c = Outcome(m, "ok", <<BlockOf(VersionOf(p), m, d, to)>>)
           \/ /\ VersionOf(p) = "v1" /\ Due(d, to)
              /\ \/ c = Outcome(m, "ok",
                            <<Fix(m, d), Note(m), BlockOf("v1", m, Noted(fixingData(d)), to)>>)
                 \/ c = Outcome(m, "hid", <<Note(m), BlockOf("v1", m, Noted(d), to)>>)
  <1>1. CommitOf(p, m, d, from, to) =
           CASE p = "system_staking_bucket_record" -> record_PutBlock(m, d, to)
             [] p = "system_staking_bucket_v2_record" -> v2_record_PutBlock(m, d, to)
             [] p = "system_staking_bucket_v3_record" -> v3_record_PutBlock(m, d, to)
    <2>1. \A m1, d1, from1, to1 :
              CommitOf(p, m1, d1, from1, to1) =
                  CASE p = "system_staking_bucket_record" -> record_PutBlock(m1, d1, to1)
                    [] p = "system_staking_bucket_v2_record" -> v2_record_PutBlock(m1, d1, to1)
                    [] p = "system_staking_bucket_v3_record" -> v3_record_PutBlock(m1, d1, to1)
      BY Zenon DEF Wired
    <2> QED BY ONLY <2>1, Zenon
  <1>2. \A new : OneBlock(m, d, new, to) = {Outcome(m, "ok", <<Tx(m, <<Become(new)>>, to)>>)}
    BY DEF OneBlock, Commits, Outcome
  <1>3. CASE p = "system_staking_bucket_record"
    <2>1. VersionOf(p) = "v1" /\ c \in record_PutBlock(m, d, to)
      BY <1>1, <1>3 DEF VersionOf
    <2>2. \A e : Block1(m, e, to) = BlockOf("v1", m, e, to)
      BY DEF Block1, BlockOf
    <2>3. CASE ~Due(d, to)
      <3>1. record_PutBlock(m, d, to) = {Outcome(m, "ok", <<Block1(m, d, to)>>)}
        BY <2>3, PutV1
      <3> QED BY <2>1, <2>2, <2>3, <3>1
    <2>4. CASE Due(d, to)
      <3>1. \/ c = Outcome(m, "ok",
                       <<Fix(m, d), Note(m), Block1(m, Noted(fixingData(d)), to)>>)
            \/ c = Outcome(m, "hid", <<Note(m), Block1(m, Noted(d), to)>>)
        BY ONLY <2>1, <2>4, PutV1
      <3> QED BY <2>1, <2>2, <2>4, <3>1
    <2> QED BY <2>3, <2>4
  <1>4. CASE p = "system_staking_bucket_v2_record"
    <2>1. VersionOf(p) = "v2" /\ c \in v2_record_PutBlock(m, d, to)
      BY <1>1, <1>4 DEF VersionOf
    <2>2. v2_record_PutBlock(m, d, to) = OneBlock(m, d, Events1("v2", m.b, Revised("v2", d, to)), to)
      BY PutV2 DEF Revised
    <2> QED BY <1>2, <2>1, <2>2 DEF BlockOf
  <1>5. CASE p = "system_staking_bucket_v3_record"
    <2>1. VersionOf(p) = "v3" /\ c \in v3_record_PutBlock(m, d, to)
      BY <1>1, <1>5 DEF VersionOf
    <2>2. v3_record_PutBlock(m, d, to) = OneBlock(m, d, Events1("v3", m.b, Revised("v3", d, to)), to)
      BY PutV3 DEF Revised
    <2> QED BY <1>2, <2>1, <2>2 DEF BlockOf
  <1> QED BY <1>3, <1>4, <1>5 DEF SystemPlugins

(* What the transactions do. *)
LEMMA BlockRuns ==
    ASSUME NEW v, NEW m, NEW d, NEW to
    PROVE  /\ Run(d, BlockOf(v, m, d, to).stmts) = {Events1(v, m.b, Revised(v, d, to))}
           /\ BlockOf(v, m, d, to).height = to
           /\ BlockOf(v, m, d, to).bad = {m} /\ BlockOf(v, m, d, to).sent = m
           /\ BlockOf(v, m, d, to).stmts # <<>>
  <1>1. \A new : Exec(d, Become(new)) = {new}
    BY DEF Exec, Become
  <1>2. \A new : Run(d, <<Become(new)>>) = {new}
    BY <1>1, RunOne
  <1>3. \A x : <<x>> # <<>>
    OBVIOUS
  <1> QED BY <1>2, <1>3 DEF BlockOf, Tx

(* Run on the tables the fix rewrites their weights; it records no height, *)
(* and when it fails the memory is as it was.                              *)
LEMMA FixRuns ==
    ASSUME NEW m, NEW d
    PROVE  /\ Run(d, Fix(m, d).stmts) = {fixingData(d)}
           /\ Fix(m, d).height = NoHeight /\ Fix(m, d).bad = {m} /\ Fix(m, d).sent = m
           /\ Fix(m, d).stmts # <<>>
  <1>1. \A new : Exec(d, Become(new)) = {new}
    BY DEF Exec, Become
  <1>2. \A new : Run(d, <<Become(new)>>) = {new}
    BY <1>1, RunOne
  <1>3. \A x : <<x>> # <<>>
    OBVIOUS
  <1> QED BY <1>2, <1>3 DEF Fix, Tx

(* The note is one row outside the table of buckets. *)
LEMMA NoteRuns ==
    ASSUME NEW m, NEW d
    PROVE  /\ \A e \in Run(d, Note(m).stmts) : e = Noted(d)
           /\ Note(m).height = NoHeight /\ Note(m).bad = {m} /\ Note(m).sent = m
           /\ Note(m).stmts # <<>>
  <1>1. PICK rows : rows = <<Row(Fixed, 1)>>
    OBVIOUS
  <1>2. DOMAIN rows = {1} /\ rows[1].k = Fixed /\ rows[1].v = 1 /\ Keys(rows) = {Fixed}
    BY <1>1 DEF Row, Keys
  <1>3. \A e \in Exec(d, Insert(rows)) : e = Noted(d)
    <2> DEFINE those(k) == {i \in DOMAIN rows : rows[i].k = k}
               first(k) == rows[CHOOSE i \in those(k) : \A j \in those(k) : i <= j].v
    <2>1. \A e \in Exec(d, Insert(rows)) : e = Over(d, [k \in Keys(rows) |-> first(k)])
      BY DEF Exec, Insert
    <2>2. \A k \in {Fixed} : first(k) = 1
      <3>1. those(Fixed) = {1}
        BY <1>2
      <3> HIDE DEF those
      <3>2. (CHOOSE i \in those(Fixed) : \A j \in those(Fixed) : i <= j) = 1
        BY <3>1
      <3> QED BY <1>2, <3>2
    <2> HIDE DEF first
    <2>3. [k \in Keys(rows) |-> first(k)] = [k \in {Fixed} |-> 1]
      BY <1>2, <2>2
    <2> QED BY <2>1, <2>3 DEF Noted
  <1>4. \A x : <<x>> # <<>>
    OBVIOUS
  <1>5. Run(d, Note(m).stmts) = Exec(d, Insert(rows))
    BY <1>1, RunOne DEF Note, Tx
  <1> QED BY <1>3, <1>4, <1>5 DEF Note, Tx
-----------------------------------------------------------------------------
(* The weights that the rows have at a height: whatever a fix that was     *)
(* passed over has left, or those of before Redsea or after it, as the     *)
(* next block needs them unless v1 has still to fix them.                  *)
Fits(v, w, h, passed) ==
    /\ w \in {"old", "new", "any"}
    /\ passed <=> w = "any"
    /\ w = "new" => h + 1 >= RedseaHeight
    /\ w = "old" => h < RedseaHeight /\ (v = "v1" \/ h + 1 < RedseaHeight)

(* The transactions that are left of a block. *)
Pending(v, w, txs, m, d, to) ==
    \/ Suits(w, to) /\ txs = <<BlockOf(v, m, d, to)>>
    \/ /\ v = "v1" /\ w # "old" /\ to >= RedseaHeight
       /\ txs = <<Note(m), BlockOf(v, m, Noted(d), to)>>
    \/ /\ v = "v1" /\ to >= RedseaHeight
       /\ txs = <<Fix(m, d), Note(m), BlockOf(v, m, Noted(fixingData(d)), to)>>

Right(v, w, h, d, ch, passed) == Fits(v, w, h, passed) /\ Rel(v, w, h, d, ContractAt(ch, h), {})

(* One transaction of a block and what is left after it. *)
LEMMA TxStep ==
    ASSUME NEW p \in SystemPlugins, NEW ch, LawfulChain(p, ch), NEW h \in Nat, h + 1 <= Len(ch),
           First(p) <= h,
           NEW m, m.b = [h |-> h + 1, c |-> ch[h + 1]],
           NEW w, NEW passed, NEW d, Right(VersionOf(p), w, h, d, ch, passed),
           NEW txs, Pending(VersionOf(p), w, txs, m, d, h + 1)
    PROVE  /\ Head(txs).bad = {m} /\ Head(txs).sent = m /\ Head(txs).stmts # <<>>
           /\ \/ /\ Tail(txs) = <<>> /\ Head(txs).height = h + 1
                 /\ \A e \in Run(d, Head(txs).stmts) : \E u :
                       Right(VersionOf(p), u, h + 1, e, ch, passed)
              \/ /\ Tail(txs) # <<>> /\ Head(txs).height = NoHeight
                 /\ \A e \in Run(d, Head(txs).stmts) : \E u :
                       /\ Right(VersionOf(p), u, h, e, ch, passed)
                       /\ Pending(VersionOf(p), u, Tail(txs), m, e, h + 1)
  <1>1. PICK v, bs, to : v = VersionOf(p) /\ bs = ContractAt(ch, h) /\ to = h + 1
    OBVIOUS
  <1>2. Fits(v, w, h, passed) /\ Rel(v, w, h, d, bs, {}) /\ Pending(v, w, txs, m, d, to)
    BY <1>1 DEF Right
  <1>3. RedseaHeight \in Nat
    BY SystemAssumption
  <1>4. CASE Suits(w, to) /\ txs = <<BlockOf(v, m, d, to)>>
    <2>1. PICK x : x = BlockOf(v, m, d, to)
      OBVIOUS
    <2>2. Head(txs) = x /\ Tail(txs) = <<>>
      BY <1>4, <2>1
    <2>3. /\ Run(d, x.stmts) = {Events1(v, m.b, Revised(v, d, to))}
          /\ x.height = to /\ x.bad = {m} /\ x.sent = m /\ x.stmts # <<>>
      BY ONLY <2>1, BlockRuns
    <2>4. Rel(v, w, to, Events1(v, m.b, Revised(v, d, to)), ContractAt(ch, to), {})
      <3>1. Rel(VersionOf(p), w, h, d, ContractAt(ch, h), {}) /\ Suits(w, h + 1)
        BY <1>1, <1>2, <1>4
      <3>2. Rel(VersionOf(p), w, h + 1,
               Events1(VersionOf(p), [h |-> h + 1, c |-> ch[h + 1]],
                       Revised(VersionOf(p), d, h + 1)),
               ContractAt(ch, h + 1), {})
        BY <3>1, IndexStep
      <3> QED BY ONLY <3>2, <1>1, m.b = [h |-> h + 1, c |-> ch[h + 1]]
    <2>5. Fits(v, w, to, passed)
      <3>1. w = "new" => to + 1 >= RedseaHeight
        BY <1>1, <1>2, <1>3 DEF Fits
      <3>2. w = "old" => to < RedseaHeight /\ v = "v1"
        <4>1. w = "old" => to < RedseaHeight
          BY <1>4 DEF Suits
        <4>2. v # "v1" => ~(to < RedseaHeight)
          BY <1>1, <1>3, VersionFacts
        <4> QED BY <4>1, <4>2
      <3> QED BY <1>1, <1>2, <1>3, <1>4, <3>1, <3>2 DEF Fits, Suits
    <2>6. \A e \in Run(d, x.stmts) : Right(v, w, to, e, ch, passed)
      BY <2>3, <2>4, <2>5 DEF Right
    <2> QED BY <1>1, <2>2, <2>3, <2>6
  <1>5. CASE /\ v = "v1" /\ w # "old" /\ to >= RedseaHeight
             /\ txs = <<Note(m), BlockOf(v, m, Noted(d), to)>>
    <2>1. PICK x, y : x = Note(m) /\ y = BlockOf(v, m, Noted(d), to)
      OBVIOUS
    <2>2. Head(txs) = x /\ Tail(txs) = <<y>> /\ <<y>> # <<>>
      BY <1>5, <2>1
    <2>3. /\ \A e \in Run(d, x.stmts) : e = Noted(d)
          /\ x.height = NoHeight /\ x.bad = {m} /\ x.sent = m /\ x.stmts # <<>>
      BY ONLY <2>1, NoteRuns
    <2>4. Rel(v, w, h, Noted(d), bs, {})
      BY <1>2, <1>5, NotedStep
    <2>5. Suits(w, to)
      <3>1. ~(to < RedseaHeight)
        BY <1>1, <1>3, <1>5
      <3> QED BY <1>2, <1>5, <3>1 DEF Suits, Fits
    <2>6. \A e \in Run(d, x.stmts) :
             Right(v, w, h, e, ch, passed) /\ Pending(v, w, <<y>>, m, e, to)
      BY <1>1, <1>2, <2>1, <2>3, <2>4, <2>5 DEF Right, Pending
    <2> QED BY <1>1, <2>2, <2>3, <2>6
  <1>6. CASE /\ v = "v1" /\ to >= RedseaHeight
             /\ txs = <<Fix(m, d), Note(m), BlockOf(v, m, Noted(fixingData(d)), to)>>
    <2>1. PICK x, y, z, u : /\ x = Fix(m, d) /\ y = Note(m)
                            /\ z = BlockOf(v, m, Noted(fixingData(d)), to)
                            /\ u = IF w = "any" THEN "any" ELSE "new"
      OBVIOUS
    <2>2. Head(txs) = x /\ Tail(txs) = <<y, z>> /\ <<y, z>> # <<>>
      BY <1>6, <2>1
    <2>3. /\ Run(d, x.stmts) = {fixingData(d)}
          /\ x.height = NoHeight /\ x.bad = {m} /\ x.sent = m /\ x.stmts # <<>>
      BY ONLY <2>1, FixRuns
    <2>4. w = "old" => Funded(bs)
      <3> SUFFICES ASSUME w = "old" PROVE Funded(bs)
        OBVIOUS
      <3>1. h < RedseaHeight /\ h + 1 >= RedseaHeight
        BY <1>1, <1>2, <1>6 DEF Fits
      <3>2. h + 1 = RedseaHeight
        BY <1>3, <3>1
      <3>3. h <= Len(ch)
        <4>1. Len(ch) \in Nat
          BY DEF LawfulChain
        <4> QED BY <4>1
      <3> QED BY <1>1, <1>6, <3>2, <3>3, FundedAt
    <2>5. Rel(v, u, h, fixingData(d), bs, {})
      BY <1>2, <2>1, <2>4, FixStep DEF Fits
    <2>6. Fits(v, u, h, passed) /\ u # "old"
      BY <1>1, <1>2, <1>6, <2>1 DEF Fits
    <2>7. \A e \in Run(d, x.stmts) :
             Right(v, u, h, e, ch, passed) /\ Pending(v, u, <<y, z>>, m, e, to)
      BY <1>1, <1>6, <2>1, <2>3, <2>5, <2>6 DEF Right, Pending
    <2> QED BY <1>1, <2>2, <2>3, <2>7
  <1> QED BY <1>2, <1>4, <1>5, <1>6 DEF Pending
-----------------------------------------------------------------------------
(* How the steps of the harness hang together, whatever the tables hold.   *)
Shape ==
    /\ plugin \in Plugins /\ chain \in Chains(plugin)
    /\ row \in 0 .. Tip /\ cache = row
    /\ pc \in {"down", "idle", "put", "commit"}
    /\ mem = [b |-> mem.b]
    /\ last \in 0 .. Tip /\ at \in 0 .. Tip + 1
    /\ pc \in {"put", "commit"} => last = row + 1
    /\ pc = "put" => at \in {last, last + 1} /\ (at > last => mem.b = BlockAt(last))
    /\ pc = "commit" => mem.b = BlockAt(last) /\ done = mem
    /\ pc # "down" => First(plugin) <= row
    /\ pc = "down" => row = 0 \/ First(plugin) <= row
    /\ (pc = "commit") <=> (todo # <<>>)
    /\ faults \in 0 .. FaultsOf(plugin)
    /\ hidden \in BOOLEAN

(* The tables are those of the contract at the height in index_heights,    *)
(* and what is left of a block leads to those of the next one.             *)
Content ==
    \E w : /\ Right(VersionOf(plugin), w, row, db, chain, hidden)
           /\ pc = "commit" => Pending(VersionOf(plugin), w, todo, mem, db, last)

IInv == plugin \in SystemPlugins => Shape /\ Content

(* What is constant in a behaviour. *)
LEMMA Facts0 ==
    ASSUME Wired, plugin \in SystemPlugins, Shape
    PROVE  /\ plugin \in Plugins \cap SystemPlugins /\ plugin \notin Workers
           /\ LawfulChain(plugin, chain)
           /\ Tip \in Nat /\ row \in Nat /\ cache = row
           /\ First(plugin) \in Nat /\ First(plugin) <= Tip
           /\ FaultsOf(plugin) \in Nat /\ BatchOf(plugin) = 1
           /\ Fresh(plugin) = [b |-> [h |-> 0, c |-> <<>>]]
  <1>1. plugin \in Plugins \cap SystemPlugins /\ chain \in Chains(plugin) /\ cache = row
        /\ row \in 0 .. Tip
    BY DEF Shape
  <1>2. /\ plugin \notin Workers /\ LawfulChain(plugin, chain)
        /\ FaultsOf(plugin) \in Nat /\ BatchOf(plugin) = 1
        /\ Fresh(plugin) = [b |-> [h |-> 0, c |-> <<>>]]
    BY <1>1 DEF Wired
  <1>3. Tip \in Nat /\ First(plugin) <= Tip
    BY <1>2 DEF LawfulChain, Tip
  <1>4. First(plugin) \in Nat
    BY <1>1, VersionFacts
  <1>5. row \in Nat
    BY <1>1, <1>3
  <1> QED BY <1>1, <1>2, <1>3, <1>4, <1>5

(* Empty tables are right as long as the plugin passes blocks over. *)
LEMMA EmptyRight ==
    ASSUME NEW p \in SystemPlugins, NEW ch, LawfulChain(p, ch), NEW passed \in BOOLEAN,
           NEW h \in {0, First(p)}
    PROVE  \E w : Right(VersionOf(p), w, h, EmptyTables, ch, passed)
  <1>1. h \in Nat /\ h \in 0 .. First(p) /\ RedseaHeight \in Nat
    BY VersionFacts, SystemAssumption
  <1>2. ContractAt(ch, h) = EmptyTables
    BY <1>1, NoContract
  <1> DEFINE w == IF passed THEN "any" ELSE IF h + 1 >= RedseaHeight THEN "new" ELSE "old"
  <1>3. Fits(VersionOf(p), w, h, passed)
    <2>1. h + 1 >= RedseaHeight \/ h + 1 < RedseaHeight
      BY <1>1
    <2>2. ~(h + 1 >= RedseaHeight) => h < RedseaHeight /\ h + 1 < RedseaHeight
      BY <1>1
    <2> QED BY <2>1, <2>2 DEF Fits
  <1> HIDE DEF w
  <1> QED BY <1>2, <1>3, NothingYet DEF Right

(* Before Start nothing is written. *)
LEMMA IInvInit == Wired /\ Init => IInv
  <1> SUFFICES ASSUME Wired, Init, plugin \in SystemPlugins PROVE Shape /\ Content
    BY DEF IInv
  <1>1. plugin \in Plugins \cap SystemPlugins /\ chain \in Chains(plugin)
    BY DEF Init
  <1>2. /\ LawfulChain(plugin, chain) /\ FaultsOf(plugin) \in Nat
        /\ Fresh(plugin) = [b |-> [h |-> 0, c |-> <<>>]]
    BY <1>1 DEF Wired
  <1>3. mem = [b |-> mem.b]
    BY <1>2 DEF Init
  <1>4. Tip \in Nat
    BY <1>2 DEF LawfulChain, Tip
  <1>5. Shape
    <2>1. 0 \in 0 .. Tip /\ 0 \in 0 .. Tip + 1
      BY <1>4
    <2>2. faults \in 0 .. FaultsOf(plugin)
      BY <1>2 DEF Init
    <2> QED BY <1>1, <1>3, <2>1, <2>2 DEF Init, Shape
  <1>6. Content
    <2>1. \E w : Right(VersionOf(plugin), w, 0, EmptyTables, chain, FALSE)
      BY <1>1, <1>2, EmptyRight
    <2> QED BY <2>1 DEF Init, Content
  <1> QED BY <1>5, <1>6

(* What Start of the three plugins does. *)
LEMMA StartIs ==
    ASSUME Wired, NEW p \in Plugins \cap SystemPlugins, NEW m, NEW d, NEW h, NEW ch
    PROVE  StartOf(p, m, d, h, ch)
           = Started(m, AutoMigrate(d, h), IF h = 0 THEN First(p) ELSE h)
  <1>1. \A m1, d1, h1, ch1 :
           StartOf(p, m1, d1, h1, ch1) =
              CASE p = "system_staking_bucket_record" -> record_Start(m1, d1, h1)
                [] p = "system_staking_bucket_v2_record" -> v2_record_Start(m1, d1, h1)
                [] p = "system_staking_bucket_v3_record" -> v3_record_Start(m1, d1, h1)
    BY Zenon DEF Wired
  <1>2. StartOf(p, m, d, h, ch) =
              CASE p = "system_staking_bucket_record" -> record_Start(m, d, h)
                [] p = "system_staking_bucket_v2_record" -> v2_record_Start(m, d, h)
                [] p = "system_staking_bucket_v3_record" -> v3_record_Start(m, d, h)
    BY ONLY <1>1, Zenon
  <1>3. CASE p = "system_staking_bucket_record"
    BY <1>2, <1>3 DEF record_Start, First
  <1>4. CASE p = "system_staking_bucket_v2_record"
    BY <1>2, <1>4 DEF v2_record_Start, First
  <1>5. CASE p = "system_staking_bucket_v3_record"
    BY <1>2, <1>5 DEF v3_record_Start, First
  <1> QED BY <1>3, <1>4, <1>5 DEF SystemPlugins

(* Start drops the tables at height 0 only, and passes the blocks over     *)
(* that are older than the contract.                                       *)
LEMMA StartStep == ASSUME Wired, IInv, plugin \in SystemPlugins, Start PROVE Shape' /\ Content'
  <1>1. Shape /\ Content /\ plugin \in Plugins \cap SystemPlugins /\ cache = row
        /\ LawfulChain(plugin, chain)
        /\ Tip \in Nat /\ row \in Nat /\ First(plugin) \in Nat /\ First(plugin) <= Tip
    BY Facts0 DEF IInv
  <1>2. PICK h, d : h = (IF cache = 0 THEN First(plugin) ELSE cache) /\ d = AutoMigrate(db, cache)
    OBVIOUS
  <1>3. StartOf(plugin, mem, db, cache, chain) = Started(mem, d, h)
    BY <1>1, <1>2, StartIs
  <1>4. /\ pc = "down" /\ pc' = "idle" /\ mem' = mem /\ db' = d /\ cache' = h
        /\ row' = IF h = cache THEN row ELSE h
        /\ UNCHANGED <<plugin, chain, last, at, todo, done, faults, hidden>>
    BY <1>3 DEF Start, Started
  <1>5. row' = h /\ Tip' = Tip
    BY <1>1, <1>4 DEF Tip
  <1>6. h \in 0 .. Tip /\ First(plugin) <= h
    <2>1. row \in 0 .. Tip /\ (row = 0 \/ First(plugin) <= row)
      BY <1>1, <1>4 DEF Shape
    <2> QED BY <1>1, <1>2, <2>1
  <1>7. Shape'
    BY <1>1, <1>4, <1>5, <1>6 DEF Shape
  <1>8. \E w : Right(VersionOf(plugin), w, h, d, chain, hidden)
    <2>1. CASE cache = 0
      <3>1. d = EmptyTables /\ h \in {0, First(plugin)} /\ hidden \in BOOLEAN
        BY <1>1, <1>2, <2>1 DEF AutoMigrate, Shape
      <3> QED BY <1>1, <3>1, EmptyRight
    <2>2. CASE cache # 0
      <3>1. d = db /\ h = row
        BY <1>1, <1>2, <2>2 DEF AutoMigrate
      <3> QED BY <1>1, <3>1 DEF Content
    <2> QED BY <2>1, <2>2
  <1>9. Content'
    BY <1>4, <1>5, <1>8 DEF Content
  <1> QED BY <1>7, <1>9

(* The next block is read. *)
LEMMA FetchStep == ASSUME Wired, IInv, plugin \in SystemPlugins, Fetch PROVE Shape' /\ Content'
  <1>1. Shape /\ Content /\ pc = "idle" /\ cache = row /\ BatchOf(plugin) = 1
        /\ Tip \in Nat /\ row \in Nat
    BY Facts0 DEF IInv, Fetch
  <1>2. PICK n \in 1 .. BatchOf(plugin) : cache + n <= Tip /\ last' = cache + n
    BY DEF Fetch
  <1>3. n = 1
    BY <1>1
  <1>4. /\ at' = cache + 1 /\ pc' = "put" /\ Tip' = Tip
        /\ UNCHANGED <<plugin, chain, mem, db, row, cache, todo, done, faults, hidden>>
    BY DEF Fetch, Tip
  <1>5. last' = row + 1 /\ at' = last' /\ last' \in 0 .. Tip /\ at' \in 0 .. Tip + 1
        /\ ~(at' > last')
    BY <1>1, <1>2, <1>3, <1>4
  <1>6. Shape'
    BY <1>1, <1>4, <1>5 DEF Shape
  <1>7. Content'
    BY <1>1, <1>4 DEF Content
  <1> QED BY <1>6, <1>7

(* Before its transactions a block is only looked at. *)
LEMMA PutStep == ASSUME Wired, IInv, plugin \in SystemPlugins, Put PROVE Shape' /\ Content'
  <1>1. Shape /\ Content /\ pc = "put" /\ at <= last /\ plugin \in Plugins \cap SystemPlugins
        /\ Tip \in Nat /\ row \in Nat
    BY Facts0 DEF IInv, Put
  <1>2. PICK r \in PutOf(plugin, mem, db, BlockAt(at)) :
          mem' = r.mem /\ Costs(r) /\ pc' = IF r.res = "err" THEN "idle" ELSE "put"
    BY DEF Put
  <1>3. /\ at' = at + 1 /\ Tip' = Tip
        /\ UNCHANGED <<plugin, chain, db, row, cache, last, todo, done>>
    BY DEF Put, Tip
  <1>4. PICK k : k = BlockAt(at)
    OBVIOUS
  <1>5. PutOf(plugin, mem, db, k) = NowAt(mem, k)
    BY <1>1 DEF Wired
  <1>6. r.res = "ok" /\ r.mem = [b |-> k]
    <2>1. PICK y : mem = [b |-> y]
      BY <1>1 DEF Shape
    <2> QED BY <1>2, <1>4, <1>5, <2>1 DEF NowAt, Ok
  <1>7. mem' = [b |-> k] /\ pc' = "put" /\ faults' = faults /\ hidden' = hidden
    <2>1. hidden \in BOOLEAN
      BY <1>1 DEF Shape
    <2> QED BY <1>2, <1>6, <2>1 DEF Costs
  <1>8. at \in {last, last + 1} /\ last = row + 1 /\ last \in 0 .. Tip
    BY <1>1 DEF Shape
  <1>9. at = last /\ at' = last' + 1 /\ at' \in 0 .. Tip + 1
    BY <1>1, <1>3, <1>8
  <1>10. mem' = [b |-> mem'.b] /\ mem'.b = k
    BY <1>7
  <1>11. BlockAt(last)' = k
    BY <1>3, <1>4, <1>9 DEF BlockAt
  <1>12. Shape'
    BY <1>1, <1>3, <1>7, <1>8, <1>9, <1>10, <1>11 DEF Shape
  <1>13. Content'
    BY <1>1, <1>3, <1>7 DEF Content
  <1> QED BY <1>12, <1>13

(* A block needs no fix when its height has the weights the rows have. *)
LEMMA NotDue ==
    ASSUME NEW v, NEW w, NEW h \in Nat, NEW d, NEW ch, NEW passed, Right(v, w, h, d, ch, passed),
           v = "v1" => ~Due(d, h + 1),
           v # "v1" => h + 1 >= RedseaHeight
    PROVE  Suits(w, h + 1)
  <1>1. Fits(v, w, h, passed) /\ (w = "old" => Fixed \notin DOMAIN d) /\ RedseaHeight \in Nat
    BY SystemAssumption DEF Right, Rel
  <1>2. CASE h + 1 >= RedseaHeight
    <2>1. w # "old"
      BY <1>1, <1>2 DEF Fits, Due
    <2>2. ~(h + 1 < RedseaHeight)
      BY <1>1, <1>2
    <2> QED BY <1>1, <2>1, <2>2 DEF Fits, Suits
  <1>3. CASE h + 1 < RedseaHeight
    <2>1. w # "new"
      BY <1>1, <1>3 DEF Fits
    <2> QED BY <1>1, <1>3, <2>1 DEF Fits, Suits
  <1> QED BY <1>1, <1>2, <1>3

(* The transactions of a block. *)
LEMMA BeginStep == ASSUME Wired, IInv, plugin \in SystemPlugins, Begin PROVE Shape' /\ Content'
  <1>1. Shape /\ Content /\ pc = "put" /\ at > last /\ cache = row
        /\ plugin \in Plugins \cap SystemPlugins /\ Tip \in Nat /\ row \in Nat
    BY Facts0 DEF IInv, Begin
  <1>2. PICK c \in CommitOf(plugin, mem, db, cache + 1, last) :
          /\ todo' = c.txs /\ done' = c.after /\ Costs(c)
          /\ mem' = IF c.res \in {"err", "panic"} THEN c.after ELSE mem
          /\ pc' = IF c.res \in {"err", "panic"} THEN "idle" ELSE "commit"
    BY DEF Begin
  <1>3. UNCHANGED <<plugin, chain, db, row, cache, last, at>> /\ Tip' = Tip
    BY DEF Begin, Tip
  <1>4. PICK p, v, m, d, to, h, ch :
            /\ p = plugin /\ v = VersionOf(plugin) /\ m = mem /\ d = db /\ to = last /\ h = row
            /\ ch = chain
    OBVIOUS
  <1>5. last = row + 1 /\ last \in 0 .. Tip /\ mem.b = BlockAt(last) /\ First(plugin) <= row
        /\ hidden \in BOOLEAN /\ faults \in 0 .. FaultsOf(plugin)
    BY <1>1 DEF Shape
  <1>6. PICK w : Right(v, w, h, d, ch, hidden)
    BY <1>1, <1>4 DEF Content
  <1> DEFINE A == /\ v = "v1" => ~Due(d, to)
                  /\ c = Outcome(m, "ok", <<BlockOf(v, m, d, to)>>)
             B == /\ v = "v1" /\ Due(d, to)
                  /\ c = Outcome(m, "ok",
                            <<Fix(m, d), Note(m), BlockOf("v1", m, Noted(fixingData(d)), to)>>)
             C == /\ v = "v1" /\ Due(d, to)
                  /\ c = Outcome(m, "hid", <<Note(m), BlockOf("v1", m, Noted(d), to)>>)
  <1>7. A \/ B \/ C
    <2>1. PICK from : from = cache + 1
      OBVIOUS
    <2>2. c \in CommitOf(p, m, d, from, to) /\ p \in Plugins \cap SystemPlugins
      BY <1>1, <1>2, <1>4, <2>1
    <2>3. \/ /\ VersionOf(p) = "v1" => ~Due(d, to)
             /\ c = Outcome(m, "ok", <<BlockOf(VersionOf(p), m, d, to)>>)
          \/ /\ VersionOf(p) = "v1" /\ Due(d, to)
             /\ \/ c = Outcome(m, "ok",
                            <<Fix(m, d), Note(m), BlockOf("v1", m, Noted(fixingData(d)), to)>>)
                \/ c = Outcome(m, "hid", <<Note(m), BlockOf("v1", m, Noted(d), to)>>)
      BY <2>2, CommitIs
    <2> QED BY <1>4, <2>3
  <1>8. c.res \in {"ok", "hid"} /\ c.after = m /\ c.txs # <<>>
    <2>1. \A x, y, z : <<x>> # <<>> /\ <<x, y>> # <<>> /\ <<x, y, z>> # <<>>
      OBVIOUS
    <2> QED BY <1>7, <2>1 DEF Outcome
  <1>9. /\ todo' = c.txs /\ done' = m /\ mem' = m /\ pc' = "commit"
        /\ hidden' = (hidden \/ c.res = "hid") /\ hidden' \in BOOLEAN
        /\ faults' \in 0 .. FaultsOf(plugin)
    <2>1. faults' \in 0 .. FaultsOf(plugin)
      <3>1. faults' >= 0 /\ faults' = IF c.res \in {"ok", "panic"} THEN faults ELSE faults - 1
        BY <1>2 DEF Costs
      <3>2. FaultsOf(plugin) \in Nat
        BY <1>1, Facts0
      <3> QED BY <1>5, <3>1, <3>2
    <2> HIDE DEF A, B, C
    <2> QED BY <1>2, <1>4, <1>5, <1>8, <2>1 DEF Costs
  <1>10. Shape'
    <2>1. BlockAt(last)' = BlockAt(last)
      BY <1>3 DEF BlockAt
    <2>2. mem' = mem /\ done' = mem' /\ todo' # <<>> /\ pc' = "commit"
      BY <1>4, <1>8, <1>9
    <2> HIDE DEF A, B, C
    <2> QED BY <1>1, <1>3, <1>5, <1>9, <2>1, <2>2 DEF Shape
  <1>11. h \in Nat /\ to = h + 1 /\ RedseaHeight \in Nat
    BY <1>1, <1>4, <1>5, SystemAssumption
  <1>12. \E u : Right(v, u, h, d, ch, hidden') /\ Pending(v, u, c.txs, m, d, to)
    <2>1. CASE A
      <3>1. v # "v1" => h + 1 >= RedseaHeight
        <4>1. v # "v1" => First(plugin) \in Nat /\ First(plugin) + 1 >= RedseaHeight
          BY <1>1, <1>4, VersionFacts
        <4> QED BY <1>4, <1>5, <1>11, <4>1
      <3>2. Suits(w, h + 1)
        BY <1>6, <1>11, <2>1, <3>1, NotDue
      <3>3. c.txs = <<BlockOf(v, m, d, to)>> /\ hidden' = hidden
        BY <1>5, <1>9, <2>1 DEF Outcome
      <3> HIDE DEF A
      <3> QED BY <1>6, <1>11, <3>2, <3>3 DEF Pending
    <2>2. CASE B
      <3>1. c.txs = <<Fix(m, d), Note(m), BlockOf(v, m, Noted(fixingData(d)), to)>> /\ hidden' = hidden
        BY <1>5, <1>9, <2>2 DEF Outcome
      <3>2. v = "v1" /\ to >= RedseaHeight
        BY <2>2 DEF Due
      <3> HIDE DEF B
      <3> QED BY <1>6, <3>1, <3>2 DEF Pending
    <2>3. CASE C
      <3>1. c.txs = <<Note(m), BlockOf(v, m, Noted(d), to)>> /\ hidden' = TRUE
        BY <1>9, <2>3 DEF Outcome
      <3>2. v = "v1" /\ to >= RedseaHeight
        BY <2>3 DEF Due
      <3>3. Right(v, "any", h, d, ch, TRUE)
        BY <1>6, AnyWeights DEF Right, Fits
      <3> HIDE DEF C
      <3>4. Pending(v, "any", c.txs, m, d, to)
        <4>1. "any" # "old"
          OBVIOUS
        <4> QED BY <3>1, <3>2, <4>1 DEF Pending
      <3>5. Right(v, "any", h, d, ch, hidden')
        <4>1. PICK x : x = hidden'
          OBVIOUS
        <4> QED BY <3>1, <3>3, <4>1
      <3> QED BY <3>4, <3>5
    <2> QED BY <1>7, <2>1, <2>2, <2>3
  <1>13. Content'
    <2> HIDE DEF A, B, C
    <2> QED BY <1>3, <1>4, <1>9, <1>12 DEF Content
  <1> QED BY <1>10, <1>13

(* A transaction is applied: the last one of a block makes the tables      *)
(* those of its height, which it writes.                                   *)
LEMMA AppliedIs ==
    ASSUME Wired, IInv, plugin \in SystemPlugins, pc = "commit", Applied(Head(todo))
    PROVE  /\ Head(todo).sent = mem
           /\ \/ /\ Tail(todo) = <<>> /\ row' = last /\ cache' = last
                 /\ \E w : Right(VersionOf(plugin), w, last, db', chain, hidden)
              \/ /\ Tail(todo) # <<>> /\ row' = row /\ cache' = cache
                 /\ \E w : /\ Right(VersionOf(plugin), w, row, db', chain, hidden)
                           /\ Pending(VersionOf(plugin), w, Tail(todo), mem, db', last)
  <1>1. Shape /\ Content /\ plugin \in SystemPlugins /\ LawfulChain(plugin, chain)
        /\ Tip \in Nat /\ row \in Nat
    BY Facts0 DEF IInv
  <1>2. last = row + 1 /\ last \in 0 .. Tip /\ mem.b = BlockAt(last) /\ First(plugin) <= row
    BY <1>1 DEF Shape
  <1>3. PICK p, ch, h, m, d, txs, passed :
            /\ p = plugin /\ ch = chain /\ h = row /\ m = mem /\ d = db /\ txs = todo
            /\ passed = hidden
    OBVIOUS
  <1>4. /\ p \in SystemPlugins /\ LawfulChain(p, ch) /\ h \in Nat /\ h + 1 <= Len(ch)
        /\ First(p) <= h /\ m.b = [h |-> h + 1, c |-> ch[h + 1]] /\ last = h + 1
    BY <1>1, <1>2, <1>3 DEF BlockAt, Tip
  <1>5. PICK w : Right(VersionOf(p), w, h, d, ch, passed) /\ Pending(VersionOf(p), w, txs, m, d, h + 1)
    BY <1>1, <1>3, <1>4 DEF Content
  <1>6. /\ Head(txs).bad = {m} /\ Head(txs).sent = m /\ Head(txs).stmts # <<>>
        /\ \/ /\ Tail(txs) = <<>> /\ Head(txs).height = h + 1
              /\ \A e \in Run(d, Head(txs).stmts) : \E u :
                    Right(VersionOf(p), u, h + 1, e, ch, passed)
           \/ /\ Tail(txs) # <<>> /\ Head(txs).height = NoHeight
              /\ \A e \in Run(d, Head(txs).stmts) : \E u :
                    /\ Right(VersionOf(p), u, h, e, ch, passed)
                    /\ Pending(VersionOf(p), u, Tail(txs), m, e, h + 1)
    BY ONLY <1>4, <1>5, TxStep
  <1>7. PICK e : e = db'
    OBVIOUS
  <1>8. /\ e \in Run(d, Head(txs).stmts)
        /\ row' = IF Head(txs).height = NoHeight THEN row ELSE Head(txs).height
        /\ cache' = IF Head(txs).height = NoHeight THEN cache ELSE Head(txs).height
    BY <1>3, <1>7 DEF Applied
  <1>9. h + 1 # NoHeight
    BY <1>4 DEF NoHeight
  <1> QED BY <1>3, <1>4, <1>6, <1>7, <1>8, <1>9

(* A transaction fails with the block in the field, as it was put. *)
LEMMA HeadIs ==
    ASSUME Wired, IInv, plugin \in SystemPlugins, pc = "commit"
    PROVE  Head(todo).bad = {mem} /\ Head(todo).stmts # <<>>
  <1>1. Shape /\ Content /\ plugin \in SystemPlugins /\ LawfulChain(plugin, chain)
        /\ Tip \in Nat /\ row \in Nat
    BY Facts0 DEF IInv
  <1>2. last = row + 1 /\ last \in 0 .. Tip /\ mem.b = BlockAt(last) /\ First(plugin) <= row
    BY <1>1 DEF Shape
  <1>3. PICK p, ch, h, m, d, txs, passed :
            /\ p = plugin /\ ch = chain /\ h = row /\ m = mem /\ d = db /\ txs = todo
            /\ passed = hidden
    OBVIOUS
  <1>4. /\ p \in SystemPlugins /\ LawfulChain(p, ch) /\ h \in Nat /\ h + 1 <= Len(ch)
        /\ First(p) <= h /\ m.b = [h |-> h + 1, c |-> ch[h + 1]] /\ last = h + 1
    BY <1>1, <1>2, <1>3 DEF BlockAt, Tip
  <1>5. PICK w : Right(VersionOf(p), w, h, d, ch, passed) /\ Pending(VersionOf(p), w, txs, m, d, h + 1)
    BY <1>1, <1>3, <1>4 DEF Content
  <1>6. Head(txs).bad = {m} /\ Head(txs).stmts # <<>>
    BY ONLY <1>4, <1>5, TxStep
  <1> QED BY <1>3, <1>6

(* The transaction succeeds. *)
LEMMA TransactStep ==
    ASSUME Wired, IInv, plugin \in SystemPlugins, Transact PROVE Shape' /\ Content'
  <1>1. /\ Shape /\ pc = "commit" /\ Applied(Head(todo)) /\ todo' = Tail(todo)
        /\ pc' = (IF todo' = <<>> THEN "idle" ELSE "commit")
        /\ mem' = (IF todo' = <<>> THEN done ELSE mem)
        /\ UNCHANGED <<plugin, chain, last, at, done, faults, hidden>>
        /\ Tip \in Nat /\ row \in Nat /\ First(plugin) \in Nat
    BY Facts0 DEF IInv, Transact
  <1>2. /\ done = mem /\ mem = [b |-> mem.b] /\ mem.b = BlockAt(last) /\ last = row + 1
        /\ last \in 0 .. Tip /\ First(plugin) <= row
    BY <1>1 DEF Shape
  <1>3. mem' = mem /\ Tip' = Tip /\ BlockAt(last)' = BlockAt(last)
    BY <1>1, <1>2 DEF Tip, BlockAt
  <1>4. \/ /\ todo' = <<>> /\ row' = last /\ cache' = last
           /\ \E w : Right(VersionOf(plugin), w, last, db', chain, hidden)
        \/ /\ todo' # <<>> /\ row' = row /\ cache' = cache
           /\ \E w : /\ Right(VersionOf(plugin), w, row, db', chain, hidden)
                     /\ Pending(VersionOf(plugin), w, todo', mem, db', last)
    BY <1>1, AppliedIs
  <1>5. First(plugin) <= last
    BY <1>1, <1>2
  <1>6. Shape'
    <2>1. CASE todo' = <<>>
      <3>1. row' = last /\ cache' = last /\ pc' = "idle"
        BY <1>1, <1>4, <2>1
      <3> QED BY <1>1, <1>2, <1>3, <1>5, <2>1, <3>1 DEF Shape
    <2>2. CASE todo' # <<>>
      <3>1. row' = row /\ cache' = cache /\ pc' = "commit"
        BY <1>1, <1>4, <2>2
      <3> QED BY <1>1, <1>2, <1>3, <2>2, <3>1 DEF Shape
    <2> QED BY <2>1, <2>2
  <1>7. Content'
    <2>1. CASE todo' = <<>>
      <3>1. row' = last /\ pc' = "idle" /\ \E w : Right(VersionOf(plugin), w, last, db', chain, hidden)
        BY <1>1, <1>4, <2>1
      <3> QED BY <1>1, <3>1 DEF Content
    <2>2. CASE todo' # <<>>
      <3>1. /\ row' = row
            /\ \E w : /\ Right(VersionOf(plugin), w, row, db', chain, hidden)
                      /\ Pending(VersionOf(plugin), w, todo', mem, db', last)
        BY <1>4, <2>2
      <3> QED BY <1>1, <1>3, <3>1 DEF Content
    <2> QED BY <2>1, <2>2
  <1> QED BY <1>6, <1>7

(* The transaction succeeds and PutBlock returns an error: after the fix   *)
(* or its note alone the block is read again.                              *)
LEMMA LostAckStep ==
    ASSUME Wired, IInv, plugin \in SystemPlugins, LostAck PROVE Shape' /\ Content'
  <1>1. /\ Shape /\ pc = "commit" /\ Applied(Head(todo)) /\ todo' = <<>> /\ pc' = "idle"
        /\ mem' = Head(todo).sent /\ faults > 0 /\ faults' = faults - 1
        /\ UNCHANGED <<plugin, chain, last, at, done, hidden>>
        /\ Tip \in Nat /\ row \in Nat /\ First(plugin) \in Nat /\ FaultsOf(plugin) \in Nat
    BY Facts0 DEF IInv, LostAck, Abandoned
  <1>2. /\ mem = [b |-> mem.b] /\ last = row + 1 /\ cache = row /\ row \in 0 .. Tip
        /\ last \in 0 .. Tip /\ First(plugin) <= row /\ faults \in 0 .. FaultsOf(plugin)
    BY <1>1 DEF Shape
  <1>3. /\ mem' = mem
        /\ \/ /\ row' = last /\ cache' = last
              /\ \E w : Right(VersionOf(plugin), w, last, db', chain, hidden)
           \/ /\ row' = row /\ cache' = cache
              /\ \E w : Right(VersionOf(plugin), w, row, db', chain, hidden)
    BY <1>1, AppliedIs
  <1>4. Tip' = Tip /\ faults' \in 0 .. FaultsOf(plugin) /\ First(plugin) <= last
    BY <1>1, <1>2 DEF Tip
  <1>5. row' \in 0 .. Tip /\ cache' = row' /\ First(plugin) <= row'
        /\ \E w : Right(VersionOf(plugin), w, row', db', chain, hidden)
    BY <1>2, <1>3, <1>4
  <1>6. Shape'
    BY <1>1, <1>2, <1>3, <1>4, <1>5 DEF Shape
  <1>7. Content'
    BY <1>1, <1>5 DEF Content
  <1> QED BY <1>6, <1>7

(* The transaction fails: the block is read again. *)
LEMMA RollbackStep ==
    ASSUME Wired, IInv, plugin \in SystemPlugins, Rollback PROVE Shape' /\ Content'
  <1>1. /\ Shape /\ Content /\ pc = "commit" /\ todo' = <<>> /\ pc' = "idle"
        /\ mem' \in Head(todo).bad
        /\ cache' = (IF Head(todo).stmts = <<>> THEN Head(todo).height ELSE cache)
        /\ UNCHANGED <<plugin, chain, last, at, done, hidden, db, row>>
        /\ FaultsOf(plugin) \in Nat
    BY Facts0 DEF IInv, Rollback, Abandoned
  <1>2. mem' = mem /\ cache' = cache /\ Tip' = Tip
    BY <1>1, HeadIs DEF Tip
  <1>3. faults' \in 0 .. FaultsOf(plugin)
    <2>1. faults \in 0 .. FaultsOf(plugin)
      BY <1>1 DEF Shape
    <2>2. faults' = faults \/ (faults > 0 /\ faults' = faults - 1)
      BY DEF Rollback
    <2> QED BY <1>1, <2>1, <2>2
  <1>4. Shape'
    BY <1>1, <1>2, <1>3 DEF Shape
  <1>5. Content'
    BY <1>1 DEF Content
  <1> QED BY <1>4, <1>5

(* Unload and load between two blocks. *)
LEMMA ReloadStep ==
    ASSUME Wired, IInv, plugin \in SystemPlugins, Reload PROVE Shape' /\ Content'
  <1>1. /\ Shape /\ Content /\ pc = "idle" /\ pc' = "down" /\ faults > 0 /\ faults' = faults - 1
        /\ UNCHANGED <<plugin, chain, mem, db, row, cache, last, at, todo, done, hidden>>
        /\ Tip' = Tip /\ FaultsOf(plugin) \in Nat
    BY Facts0 DEF IInv, Reload, Tip
  <1>2. faults' \in 0 .. FaultsOf(plugin)
    BY <1>1 DEF Shape
  <1>3. Shape'
    BY <1>1, <1>2 DEF Shape
  <1>4. Content'
    BY <1>1 DEF Content
  <1> QED BY <1>3, <1>4

(* A crash loses the block in hand, at any step. *)
LEMMA CrashStep ==
    ASSUME Wired, IInv, plugin \in SystemPlugins, Crash PROVE Shape' /\ Content'
  <1>1. /\ Shape /\ Content /\ pc' = "down" /\ faults > 0 /\ faults' = faults - 1
        /\ mem' = Fresh(plugin) /\ cache' = row /\ last' = 0 /\ at' = 0 /\ todo' = <<>>
        /\ UNCHANGED <<plugin, chain, db, row, hidden>>
        /\ Tip' = Tip /\ FaultsOf(plugin) \in Nat /\ Tip \in Nat
        /\ Fresh(plugin) = [b |-> [h |-> 0, c |-> <<>>]]
    BY Facts0 DEF IInv, Crash, Tip
  <1>2. faults' \in 0 .. FaultsOf(plugin) /\ mem' = [b |-> mem'.b]
        /\ 0 \in 0 .. Tip /\ 0 \in 0 .. Tip + 1
    BY <1>1 DEF Shape
  <1>3. row = 0 \/ First(plugin) <= row
    BY <1>1 DEF Shape
  <1>4. Shape'
    BY <1>1, <1>2, <1>3 DEF Shape
  <1>5. Content'
    BY <1>1 DEF Content
  <1> QED BY <1>4, <1>5

(* Every step of the harness preserves the invariant. *)
LEMMA IInvStep == Wired /\ IInv /\ [Next]_vars => IInv'
  <1> SUFFICES ASSUME Wired, IInv, [Next]_vars PROVE IInv'
    OBVIOUS
  <1>1. plugin' = plugin
    BY DEF Next, vars, Start, Fetch, Tick, Put, Begin, Transact, Rollback, Abandoned, LostAck,
           Reload, Crash, Finished
  <1>2. SUFFICES ASSUME plugin \in SystemPlugins PROVE Shape' /\ Content'
    BY <1>1 DEF IInv
  <1>3. CASE Start
    BY <1>2, <1>3, StartStep
  <1>4. CASE Fetch
    BY <1>2, <1>4, FetchStep
  <1>5. CASE Tick
    BY <1>2, <1>5, Facts0 DEF Tick, IInv
  <1>6. CASE Put
    BY <1>2, <1>6, PutStep
  <1>7. CASE Begin
    BY <1>2, <1>7, BeginStep
  <1>8. CASE Transact
    BY <1>2, <1>8, TransactStep
  <1>9. CASE Rollback
    BY <1>2, <1>9, RollbackStep
  <1>10. CASE LostAck
    BY <1>2, <1>10, LostAckStep
  <1>11. CASE Reload
    BY <1>2, <1>11, ReloadStep
  <1>12. CASE Crash
    BY <1>2, <1>12, CrashStep
  <1>13. CASE UNCHANGED vars
    <2>1. UNCHANGED <<plugin, chain, mem, db, row, cache, pc, last, at, todo, done,
                      faults, hidden, want>>
      BY <1>13 DEF vars
    <2>2. Tip' = Tip /\ BlockAt(last)' = BlockAt(last)
      BY <2>1 DEF Tip, BlockAt
    <2>3. Shape /\ Content
      BY <1>2 DEF IInv
    <2>4. Shape'
      BY <2>1, <2>2, <2>3 DEF Shape
    <2>5. Content'
      BY <2>1, <2>3 DEF Content
    <2> QED BY <2>4, <2>5
  <1>14. CASE Finished
    BY <1>13, <1>14 DEF Finished
  <1> QED BY <1>3, <1>4, <1>5, <1>6, <1>7, <1>8, <1>9, <1>10, <1>11, <1>12, <1>13, <1>14 DEF Next

(* The inductive invariant: tables, row and block in hand belong together  *)
(* through every failure, retry, lost answer, reload and crash.            *)
THEOREM Inductive == ASSUME Wired PROVE Spec => []IInv
  <1>1. Init => IInv
    BY IInvInit
  <1>2. IInv /\ [Next]_vars => IInv'
    BY IInvStep
  <1> QED BY <1>1, <1>2, PTL DEF Spec

(* The invariant gives the property: the stored duration is read back as   *)
(* the contract's, and the weight is of this height or the next unless the *)
(* fix failed.                                                             *)
LEMMA Matching == ASSUME Wired, IInv PROVE MatchesContract
  <1> SUFFICES ASSUME plugin \in SystemPlugins PROVE MatchesContract
    BY DEF MatchesContract
  <1>1. PICK v, bs : v = VersionOf(plugin) /\ bs = ContractAt(chain, row)
    OBVIOUS
  <1>2. Version = v
    BY <1>1 DEF Version, VersionOf
  <1>3. PICK w : Fits(v, w, row, hidden) /\ Rel(v, w, row, db, bs, {})
    BY <1>1 DEF IInv, Content, Right
  <1>4. row \in Nat /\ RedseaHeight \in Nat
    BY Facts0, SystemAssumption DEF IInv
  <1>5. ASSUME NEW b \in DOMAIN bs
        PROVE  Agrees(v, w, row, InfoOf(db, b), SumOf(db, b), bs[b], FALSE)
    <2>1. (b \in {}) = FALSE
      OBVIOUS
    <2>2. Agrees(v, w, row, InfoOf(db, b), SumOf(db, b), bs[b], b \in {})
      BY <1>3 DEF Rel
    <2> QED BY <2>1, <2>2
  <1>6. ASSUME NEW b \in DOMAIN bs
        PROVE  SumOf(db, b) = bs[b].amt /\ InfoOf(db, b).staked = bs[b].amt
    BY <1>5 DEF Agrees
  <1>7. ASSUME NEW b \in DOMAIN bs, bs[b].open
        PROVE  LET i == InfoOf(db, b)
                   duration == Lasting(v, row, bs[b].n)
               IN  /\ i.owner = bs[b].owner /\ i.cand = bs[b].cand
                   /\ i.auto = bs[b].auto
                   /\ DurationFromType(i.dur, i.type) = duration
                   /\ \/ \E h \in {row, row + 1} :
                             i.vp = GetVoteWeight(h, duration, bs[b].amt, bs[b].auto)
                      \/ hidden
    <2>1. PICK i, c, n : i = InfoOf(db, b) /\ c = bs[b] /\ n = Lasting(v, row, c.n)
      OBVIOUS
    <2>2. Agrees(v, w, row, i, SumOf(db, b), c, FALSE) /\ c.open
      BY <1>5, <1>7, <2>1
    <2>3. /\ i.owner = c.owner /\ i.cand = c.cand /\ i.auto = c.auto /\ Whole(v, row, c.n)
          /\ i.type = TypeAt(v, row)
          /\ i.dur = DurationByType(Lasting(v, row, c.n), TypeAt(v, row))
          /\ w = "any" \/ i.vp = WeightOf(w, n, c)
      BY <2>1, <2>2 DEF Agrees
    <2>4. DurationFromType(i.dur, i.type) = n
      BY <2>1, <2>3, RoundTrip
    <2>5. (\E h \in {row, row + 1} : i.vp = GetVoteWeight(h, n, c.amt, c.auto)) \/ hidden
      <3>1. CASE w = "any"
        BY <1>3, <3>1 DEF Fits
      <3>2. CASE w = "new"
        <4>1. ~(row + 1 < RedseaHeight)
          BY <1>3, <1>4, <3>2 DEF Fits
        <4>2. i.vp = GetVoteWeight(row + 1, n, c.amt, c.auto)
          BY <2>3, <3>2, <4>1 DEF WeightOf, GetVoteWeight
        <4> QED BY <4>2
      <3>3. CASE w = "old"
        <4>1. row < RedseaHeight
          BY <1>3, <3>3 DEF Fits
        <4>2. i.vp = GetVoteWeight(row, n, c.amt, c.auto)
          BY <2>3, <3>3, <4>1 DEF WeightOf, GetVoteWeight
        <4> QED BY <4>2
      <3> QED BY <1>3, <3>1, <3>2, <3>3 DEF Fits
    <2> QED BY <2>1, <2>3, <2>4, <2>5
  <1> QED BY <1>1, <1>2, <1>6, <1>7 DEF MatchesContract

(* The rows of each bucket add up to what the contract holds, and the last *)
(* one restates the bucket, at every height and in every state of the      *)
(* runner: what the three system_staking plugins are for.                  *)
THEOREM StakingMatchesContract == ASSUME Wired PROVE Spec => []MatchesContract
  <1>1. IInv => MatchesContract
    BY Matching
  <1> QED BY <1>1, Inductive, PTL
=============================================================================

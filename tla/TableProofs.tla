---------------------------- MODULE TableProofs -----------------------------
(***************************************************************************)
(* What the statements of Tables do to a table, for every table and every  *)
(* list of rows: the facts that the proofs about plugins rest on.          *)
(*                                                                         *)
(* The central one is AddsConcat.  A plugin that only inserts rows writes  *)
(* the same tables whether it writes two lists of rows one after the       *)
(* other or both in one transaction, which is why the size of a batch      *)
(* does not matter to it.                                                  *)
(***************************************************************************)
EXTENDS Tables, FiniteSetTheorems, NaturalsInduction, WellFoundedInduction, TLAPS

(* Induction over the natural numbers, by a set instead of an operator. *)
LEMMA SetInduction ==
    ASSUME NEW S \in SUBSET Nat, 0 \in S, \A n \in S : n + 1 \in S
    PROVE  S = Nat
  <1> SUFFICES ASSUME S # Nat PROVE FALSE
    OBVIOUS
  <1>1. PICK x \in Nat \ S : \A y \in Nat \ S : <<y, x>> \notin OpToRel(<, Nat)
    BY NatLessThanWellFounded, WFMin
  <1>2. x # 0 /\ x - 1 \in Nat /\ (x - 1) + 1 = x /\ x - 1 < x
    <2>1. x \in Nat /\ x # 0
      OBVIOUS
    <2> QED BY <2>1
  <1>3. x - 1 \in S
    BY <1>1, <1>2 DEF OpToRel
  <1> QED BY <1>1, <1>2, <1>3

(* The first so many numbers are finitely many. *)
LEMMA PrefixFinite ==
    ASSUME NEW n \in Nat
    PROVE  IsFiniteSet(1 .. n)
  <1>1. 1 \in Int /\ n \in Int
    OBVIOUS
  <1> QED BY <1>1, FS_Interval

(* A fold over a list takes the largest position last. *)
LastOf(s) == Max(s)

(* The last of some positions is one of them.                              *)
LEMMA LastIn ==
    ASSUME NEW n \in Nat, NEW S \in SUBSET (1 .. n), S # {}
    PROVE  LastOf(S) \in S
  <1> DEFINE Good(m) == \A U \in SUBSET (1 .. m) : U # {} => \E i \in U : \A j \in U : i >= j
             N == {m \in Nat : Good(m)}
  <1>1. N \in SUBSET Nat /\ 0 \in N
    <2>1. Good(0)
      <3>1. 1 .. 0 = {}
        OBVIOUS
      <3> QED BY <3>1
    <2> HIDE DEF Good
    <2> QED BY <2>1
  <1>2. ASSUME NEW m \in N PROVE m + 1 \in N
    <2>1. m \in Nat /\ Good(m)
      OBVIOUS
    <2>2. ASSUME NEW U \in SUBSET (1 .. m + 1), U # {}
          PROVE  \E i \in U : \A j \in U : i >= j
      <3>1. CASE m + 1 \in U
        <4>1. \A j \in U : m + 1 >= j
          BY <2>1
        <4> QED BY <3>1, <4>1
      <3>2. CASE m + 1 \notin U
        <4>1. \A j \in U : j \in 1 .. m
          BY <2>1, <3>2
        <4>2. U \in SUBSET (1 .. m)
          BY <4>1
        <4> QED BY <2>1, <2>2, <4>2
      <3> QED BY <3>1, <3>2
    <2> QED BY <2>1, <2>2
  <1>3. N = Nat
    <2> HIDE DEF N
    <2> QED BY <1>1, <1>2, SetInduction
  <1>4. \E i \in S : \A j \in S : i >= j
    BY <1>3
  <1> QED BY <1>4 DEF LastOf, Max

(* The last position up to n + 1 is n + 1. *)
LEMMA LastIs ==
    ASSUME NEW n \in Nat
    PROVE  LastOf(1 .. n + 1) = n + 1
  <1>1. n + 1 \in 1 .. n + 1 /\ \A j \in 1 .. n + 1 : n + 1 >= j
    OBVIOUS
  <1>2. \A k \in 1 .. n + 1 : (\A j \in 1 .. n + 1 : k >= j) => k = n + 1
    OBVIOUS
  <1>3. \E k : k \in 1 .. n + 1 /\ \A j \in 1 .. n + 1 : k >= j
    BY <1>1
  <1> QED BY <1>2, <1>3 DEF LastOf, Max

(* Rows(S), the rows of a set as a list in some order, is a fold. *)
AppendStep(q, x, a) == Append(a, x)
AnyOf(s) == CHOOSE x \in s : TRUE
RowsFold == INSTANCE FoldLemmas WITH step <- AppendStep, pick <- AnyOf

(* Rows is the fold of FoldLemmas. *)
LEMMA RowsIsIter == \A S : Rows(S) = RowsFold!Iter(0, <<>>, S)
  BY DEF Rows, FoldSet, MapThenFoldSet, RowsFold!Iter, AppendStep, AnyOf

(* No row makes an empty list. *)
LEMMA RowsEmpty == Rows({}) = <<>>
  BY RowsIsIter, RowsFold!IterEmpty

(* A list of rows is the list of all but one of them, and that one. *)
LEMMA RowsStep ==
    ASSUME NEW S, IsFiniteSet(S), S # {}
    PROVE  \E x \in S : Rows(S) = Append(Rows(S \ {x}), x)
  <1>1. AnyOf(S) \in S
    BY DEF AnyOf
  <1>2. RowsFold!Picks(S) /\ RowsFold!IsFiniteSet(S)
    BY DEF AnyOf, RowsFold!Picks, IsFiniteSet, RowsFold!IsFiniteSet
  <1>3. RowsFold!Iter(0, <<>>, S)
        = AppendStep(0, AnyOf(S), RowsFold!Iter(0, <<>>, S \ {AnyOf(S)}))
    BY <1>2, RowsFold!IterStep
  <1> QED
    BY <1>1, <1>3, RowsIsIter DEF AppendStep

(* Run, a transaction as the statements in their order, is a fold. *)
ExecAll(q, i, ds) == UNION {Exec(x, q[i]) : x \in ds}
RunFold == INSTANCE FoldLemmas WITH step <- ExecAll, pick <- LastOf

(* Run is the fold of FoldLemmas. *)
LEMMA RunIsIter ==
    ASSUME NEW d, NEW q PROVE Run(d, q) = RunFold!Iter(q, {d}, DOMAIN q)
  BY DEF Run, FoldLeft, MapThenFoldSet, RunFold!Iter, ExecAll, LastOf

(* A transaction without statements changes nothing. *)
LEMMA RunNone ==
    ASSUME NEW d
    PROVE  Run(d, <<>>) = {d}
  <1>1. DOMAIN << >> = {}
    OBVIOUS
  <1> QED BY <1>1, RunIsIter, RunFold!IterEmpty

(* A transaction of one statement does what the statement does. *)
LEMMA RunOne ==
    ASSUME NEW d, NEW st
    PROVE  Run(d, <<st>>) = Exec(d, st)
  <1>1. DOMAIN <<st>> = {1} /\ <<st>>[1] = st
    OBVIOUS
  <1>2. LastOf({1}) = 1
    BY DEF LastOf, Max
  <1>3. RunFold!Picks({1}) /\ RunFold!IsFiniteSet({1})
    <2>1. \A s \in SUBSET {1} : s # {} => s = {1}
      OBVIOUS
    <2>2. IsFiniteSet({1})
      BY FS_Singleton
    <2>3. RunFold!IsFiniteSet({1})
      BY <2>2 DEF IsFiniteSet, RunFold!IsFiniteSet
    <2> QED BY <2>1, <2>3, <1>2 DEF RunFold!Picks
  <1>4. RunFold!Iter(<<st>>, {d}, {1}) = ExecAll(<<st>>, 1, RunFold!Iter(<<st>>, {d}, {1} \ {1}))
    BY <1>2, <1>3, RunFold!IterStep
  <1>5. {1} \ {1} = {}
    OBVIOUS
  <1>6. RunFold!Iter(<<st>>, {d}, {}) = {d}
    BY RunFold!IterEmpty
  <1>7. ExecAll(<<st>>, 1, {d}) = Exec(d, st)
    BY DEF ExecAll
  <1> QED BY <1>1, <1>4, <1>5, <1>6, <1>7, RunIsIter

(* The statements of several transactions, as CleanAfter joins them. *)
JoinStmts(q, i, a) == a \o q[i].stmts
JoinFold == INSTANCE FoldLemmas WITH step <- JoinStmts, pick <- LastOf

(* The statements of one transaction are those statements. *)
LEMMA JoinOne ==
    ASSUME NEW tx, NEW R, tx.stmts \in Seq(R)
    PROVE  FoldLeft(LAMBDA a, t : a \o t.stmts, <<>>, <<tx>>) = tx.stmts
  <1>1. DOMAIN <<tx>> = {1} /\ <<tx>>[1] = tx
    OBVIOUS
  <1>2. LastOf({1}) = 1
    BY DEF LastOf, Max
  <1>3. JoinFold!Picks({1}) /\ JoinFold!IsFiniteSet({1})
    <2>1. \A s \in SUBSET {1} : s # {} => s = {1}
      OBVIOUS
    <2>2. IsFiniteSet({1})
      BY FS_Singleton
    <2>3. JoinFold!IsFiniteSet({1})
      BY <2>2 DEF IsFiniteSet, JoinFold!IsFiniteSet
    <2> QED BY <2>1, <2>3, <1>2 DEF JoinFold!Picks
  <1>4. JoinFold!Iter(<<tx>>, <<>>, {1})
        = JoinStmts(<<tx>>, 1, JoinFold!Iter(<<tx>>, <<>>, {1} \ {1}))
    BY <1>2, <1>3, JoinFold!IterStep
  <1>5. {1} \ {1} = {}
    OBVIOUS
  <1>6. JoinFold!Iter(<<tx>>, <<>>, {}) = <<>>
    BY JoinFold!IterEmpty
  <1>7. JoinStmts(<<tx>>, 1, <<>>) = tx.stmts
    BY DEF JoinStmts
  <1>8. FoldLeft(LAMBDA a, t : a \o t.stmts, <<>>, <<tx>>) = JoinFold!Iter(<<tx>>, <<>>, DOMAIN <<tx>>)
    BY DEF FoldLeft, MapThenFoldSet, JoinFold!Iter, JoinStmts, LastOf
  <1> QED BY <1>1, <1>4, <1>5, <1>6, <1>7, <1>8

(* A transaction of two statements runs the second on what the first left, *)
(* or fails if the first does.                                             *)
LEMMA RunTwo ==
    ASSUME NEW d, NEW st, NEW su
    PROVE  Run(d, <<st, su>>) = UNION {Exec(x, su) : x \in Exec(d, st)}
  <1> DEFINE q == <<st, su>>
  <1>1. DOMAIN q = {1, 2} /\ q[1] = st /\ q[2] = su
    OBVIOUS
  <1> HIDE DEF q
  <1>2. LastOf({1}) = 1 /\ LastOf({1, 2}) = 2 /\ LastOf({2}) = 2
    BY DEF LastOf, Max
  <1>3. RunFold!Picks({1, 2}) /\ RunFold!IsFiniteSet({1, 2}) /\ RunFold!Picks({1}) /\ RunFold!IsFiniteSet({1})
    <2>1. \A s \in SUBSET {1, 2} : s \in {{}, {1}, {2}, {1, 2}}
      OBVIOUS
    <2>2. \A s \in SUBSET {1, 2} : s # {} => LastOf(s) \in s
      <3> SUFFICES ASSUME NEW s \in SUBSET {1, 2}, s # {} PROVE LastOf(s) \in s
        OBVIOUS
      <3>1. s = {1} \/ s = {2} \/ s = {1, 2}
        BY <2>1
      <3> QED BY <3>1, <1>2
    <2>3. IsFiniteSet({1}) /\ IsFiniteSet({1, 2})
      <3>1. {1, 2} = {1} \cup {2}
        OBVIOUS
      <3>2. IsFiniteSet({1})
        BY FS_Singleton
      <3>3. PICK a : a = {1}
        OBVIOUS
      <3>4. IsFiniteSet(a \cup {2})
        BY <3>2, <3>3, FS_AddElement
      <3> QED BY <3>1, <3>2, <3>3, <3>4
    <2>4. RunFold!IsFiniteSet({1}) /\ RunFold!IsFiniteSet({1, 2})
      BY <2>3 DEF IsFiniteSet, RunFold!IsFiniteSet
    <2>5. SUBSET {1} \subseteq SUBSET {1, 2}
      OBVIOUS
    <2> QED BY <2>2, <2>4, <2>5 DEF RunFold!Picks
  <1>4. RunFold!Iter(q, {d}, {1, 2}) = ExecAll(q, 2, RunFold!Iter(q, {d}, {1, 2} \ {2}))
    BY <1>2, <1>3, RunFold!IterStep
  <1>5. RunFold!Iter(q, {d}, {1}) = ExecAll(q, 1, RunFold!Iter(q, {d}, {1} \ {1}))
    BY <1>2, <1>3, RunFold!IterStep
  <1>6. {1} \ {1} = {} /\ {1, 2} \ {2} = {1}
    OBVIOUS
  <1>7. RunFold!Iter(q, {d}, {}) = {d}
    BY RunFold!IterEmpty
  <1>8. ExecAll(q, 1, {d}) = Exec(d, st)
    BY <1>1 DEF ExecAll
  <1>9. ExecAll(q, 2, Exec(d, st)) = UNION {Exec(x, su) : x \in Exec(d, st)}
    BY <1>1 DEF ExecAll
  <1>10. Run(d, q) = RunFold!Iter(q, {d}, {1, 2})
    BY <1>1, RunIsIter
  <1> QED BY <1>10, <1>4, <1>5, <1>6, <1>7, <1>8, <1>9 DEF q
-----------------------------------------------------------------------------
(* How often a key is in a list of rows, and in a table. *)
Times(rows, k) == Cardinality({i \in DOMAIN rows : rows[i].k = k})
Old(d, k) == IF k \in DOMAIN d THEN d[k] ELSE 0
(* The table with the rows added to what it has of each key. *)
Adds(d, rows) == Over([k \in Keys(rows) |-> Old(d, k) + Times(rows, k)], d)
IsTable(d) == d \in [DOMAIN d -> Int]

(* An insert into a table without a unique key adds its rows. *)
LEMMA SerialExec ==
    ASSUME NEW d, NEW rows
    PROVE  Exec(d, Serial(rows)) = {Adds(d, rows)}
  BY DEF Exec, Serial, Adds, Times, Old

(* A key is in two lists as often as in the one and the other together. *)
LEMMA CountConcat ==
    ASSUME NEW R, NEW q \in Seq(R), NEW r \in Seq(R), NEW k
    PROVE  /\ Times(q, k) \in Nat
           /\ Times(q \o r, k) = Times(q, k) + Times(r, k)
           /\ k \notin Keys(q) => Times(q, k) = 0
  <1> DEFINE n == Len(q)
             m == Len(r)
             A == {i \in DOMAIN q : q[i].k = k}
             B == {i \in DOMAIN r : r[i].k = k}
             Z == {i \in DOMAIN (q \o r) : (q \o r)[i].k = k}
             C == {i \in (n + 1) .. (n + m) : r[i - n].k = k}
  <1>1. n \in Nat /\ m \in Nat /\ DOMAIN q = 1 .. n /\ DOMAIN r = 1 .. m
    OBVIOUS
  <1>2. IsFiniteSet(A) /\ IsFiniteSet(B) /\ IsFiniteSet(C)
    <2>1. IsFiniteSet(1 .. n) /\ IsFiniteSet(1 .. m) /\ IsFiniteSet((n + 1) .. (n + m))
      BY <1>1, FS_Interval
    <2>2. A \in SUBSET (1 .. n) /\ B \in SUBSET (1 .. m) /\ C \in SUBSET ((n + 1) .. (n + m))
      BY <1>1
    <2> HIDE DEF A, B, C
    <2> QED BY <2>1, <2>2, FS_Subset
  <1>3. Z = A \cup C
    OBVIOUS
  <1>4. A \cap C = {}
    BY <1>1
  <1>5. Cardinality(C) = Cardinality(B)
    <2> DEFINE f == [i \in B |-> i + n]
    <2>1. f \in [B -> C]
      BY <1>1
    <2>2. \A x, y \in B : f[x] = f[y] => x = y
      BY <1>1
    <2>3. \A y \in C : \E x \in B : f[x] = y
      <3> SUFFICES ASSUME NEW y \in C PROVE \E x \in B : f[x] = y
        OBVIOUS
      <3>1. y - n \in B /\ (y - n) + n = y
        BY <1>1
      <3> QED BY <3>1
    <2> HIDE DEF f, B, C
    <2>4. f \in Bijection(B, C)
      BY <2>1, <2>2, <2>3 DEF Bijection, Injection, Surjection, IsInjective
    <2> QED BY <2>4, <1>2, FS_Bijection DEF ExistsBijection
  <1>6. Cardinality(Z) = Cardinality(A) + Cardinality(C)
    <2> HIDE DEF A, C, Z
    <2>1. Cardinality(Z) = Cardinality(A) + Cardinality(C) - Cardinality(A \cap C)
      BY <1>2, <1>3, FS_Union
    <2>2. Cardinality(A) \in Nat /\ Cardinality(C) \in Nat /\ Cardinality(A \cap C) = 0
      BY <1>2, <1>4, FS_EmptySet, FS_CardinalityType
    <2> QED BY <2>1, <2>2
  <1>7. Cardinality(A) \in Nat
    BY <1>2, FS_CardinalityType
  <1>8. k \notin Keys(q) => A = {}
    BY DEF Keys
  <1> QED
    BY <1>5, <1>6, <1>7, <1>8, FS_EmptySet DEF Times

(* The keys of two lists are those of both. *)
LEMMA KeysConcat ==
    ASSUME NEW R, NEW q \in Seq(R), NEW r \in Seq(R)
    PROVE  Keys(q \o r) = Keys(q) \cup Keys(r)
  <1> DEFINE n == Len(q)
             m == Len(r)
  <1>1. n \in Nat /\ m \in Nat /\ DOMAIN q = 1 .. n /\ DOMAIN r = 1 .. m
        /\ DOMAIN (q \o r) = 1 .. (n + m)
    OBVIOUS
  <1>2. \A i \in 1 .. n : (q \o r)[i] = q[i]
    OBVIOUS
  <1>3. \A i \in 1 .. m : (q \o r)[i + n] = r[i] /\ i + n \in 1 .. (n + m)
    OBVIOUS
  <1>4. \A i \in 1 .. (n + m) : i \in 1 .. n \/ (i - n \in 1 .. m /\ (i - n) + n = i)
    BY <1>1
  <1> QED BY <1>1, <1>2, <1>3, <1>4 DEF Keys

(* Adding rows raises the count of each key by the times it is added. *)
LEMMA AddsValues ==
    ASSUME NEW R, NEW q \in Seq(R), NEW d, IsTable(d)
    PROVE  /\ IsTable(Adds(d, q))
           /\ DOMAIN Adds(d, q) = DOMAIN d \cup Keys(q)
           /\ \A k : Old(Adds(d, q), k) = Old(d, k) + Times(q, k)
  <1>1. \A k : Old(d, k) \in Int
    BY DEF Old, IsTable
  <1>2. \A k : Times(q, k) \in Nat /\ (k \notin Keys(q) => Times(q, k) = 0)
    BY CountConcat
  <1>3. DOMAIN Adds(d, q) = DOMAIN d \cup Keys(q)
    BY DEF Adds, Over
  <1>4. \A k \in DOMAIN Adds(d, q) : Adds(d, q)[k] = Old(d, k) + Times(q, k)
    BY <1>1, <1>2 DEF Adds, Over, Old
  <1>5. \A k : Old(Adds(d, q), k) = Old(d, k) + Times(q, k)
    BY <1>1, <1>2, <1>3, <1>4 DEF Old
  <1>6. Adds(d, q) = [k \in DOMAIN Adds(d, q) |-> Adds(d, q)[k]]
    BY DEF Adds, Over
  <1>7. \A k \in DOMAIN Adds(d, q) : Adds(d, q)[k] \in Int
    BY <1>1, <1>2, <1>4
  <1> QED BY <1>3, <1>5, <1>6, <1>7 DEF IsTable

(* Tables with the same keys, each as often, are equal. *)
LEMMA SameTable ==
    ASSUME NEW d, NEW e, IsTable(d), IsTable(e), DOMAIN d = DOMAIN e,
           \A k : Old(d, k) = Old(e, k)
    PROVE  d = e
  BY DEF IsTable, Old

(* Adding two lists of rows at once or one after the other is the same. *)
LEMMA AddsConcat ==
    ASSUME NEW R, NEW q \in Seq(R), NEW r \in Seq(R), NEW d, IsTable(d)
    PROVE  Adds(d, q \o r) = Adds(Adds(d, q), r)
  <1>1. q \o r \in Seq(R)
    OBVIOUS
  <1>2. IsTable(Adds(d, q))
    BY AddsValues
  <1>3. IsTable(Adds(d, q \o r)) /\ IsTable(Adds(Adds(d, q), r))
    BY <1>1, <1>2, AddsValues
  <1>4. DOMAIN Adds(d, q \o r) = DOMAIN Adds(Adds(d, q), r)
    <2>1. DOMAIN Adds(d, q \o r) = DOMAIN d \cup (Keys(q) \cup Keys(r))
      <3>1. Keys(q \o r) = Keys(q) \cup Keys(r)
        BY KeysConcat
      <3>2. DOMAIN Adds(d, q \o r) = DOMAIN d \cup Keys(q \o r)
        BY <1>1, AddsValues
      <3> QED BY <3>1, <3>2
    <2>2. DOMAIN Adds(Adds(d, q), r) = (DOMAIN d \cup Keys(q)) \cup Keys(r)
      BY <1>2, AddsValues
    <2> QED BY <2>1, <2>2
  <1>5. ASSUME NEW k PROVE Old(Adds(d, q \o r), k) = Old(Adds(Adds(d, q), r), k)
    <2>1. Old(Adds(d, q \o r), k) = Old(d, k) + Times(q \o r, k)
      BY <1>1, AddsValues
    <2>2. Old(Adds(Adds(d, q), r), k) = (Old(d, k) + Times(q, k)) + Times(r, k)
      BY <1>2, AddsValues
    <2>3. Old(d, k) \in Int
      BY DEF Old, IsTable
    <2>4. Times(q, k) \in Nat /\ Times(r, k) \in Nat /\ Times(q \o r, k) = Times(q, k) + Times(r, k)
      BY CountConcat
    <2> QED BY <2>1, <2>2, <2>3, <2>4
  <1> QED BY <1>3, <1>4, <1>5, SameTable
-----------------------------------------------------------------------------
(* No key is twice in the list. *)
KeysOnce(rows) == \A i, j \in DOMAIN rows : rows[i].k = rows[j].k => i = j

(* A list that names no key twice names each of its keys once. *)
LEMMA KeysOnceTimes ==
    ASSUME NEW R, NEW q \in Seq(R), KeysOnce(q)
    PROVE  /\ Cardinality(Keys(q)) = Len(q)
           /\ \A k \in Keys(q) : Times(q, k) = 1
  <1> DEFINE n == Len(q)
  <1>1. n \in Nat /\ DOMAIN q = 1 .. n
    OBVIOUS
  <1>2. Cardinality(Keys(q)) = n
    <2> DEFINE f == [i \in 1 .. n |-> q[i].k]
    <2>1. f \in [1 .. n -> Keys(q)]
      BY <1>1 DEF Keys
    <2>2. \A x, y \in 1 .. n : f[x] = f[y] => x = y
      BY <1>1 DEF KeysOnce
    <2>3. \A y \in Keys(q) : \E x \in 1 .. n : f[x] = y
      BY <1>1 DEF Keys
    <2> HIDE DEF f, n
    <2>4. f \in Bijection(1 .. n, Keys(q))
      BY <2>1, <2>2, <2>3 DEF Bijection, Injection, Surjection, IsInjective
    <2> QED BY <2>4, <1>1, FS_CountingElements DEF ExistsBijection
  <1>3. ASSUME NEW k \in Keys(q) PROVE Times(q, k) = 1
    <2>1. PICK i \in DOMAIN q : q[i].k = k
      BY DEF Keys
    <2>2. {j \in DOMAIN q : q[j].k = k} = {i}
      BY <2>1 DEF KeysOnce
    <2> QED BY <2>2, FS_Singleton DEF Times
  <1> QED BY <1>2, <1>3

(* An insert under a unique key adds its rows, if it names no key twice    *)
(* and none that the table has.                                            *)
LEMMA InsertExec ==
    ASSUME NEW R, NEW q \in Seq(R), KeysOnce(q), \A i \in DOMAIN q : q[i].v = 1,
           NEW d, IsTable(d), Keys(q) \cap DOMAIN d = {}
    PROVE  Exec(d, Insert(q)) = {Adds(d, q)}
  <1> DEFINE first(k) == q[CHOOSE i \in {n \in DOMAIN q : q[n].k = k} :
                             \A j \in {n \in DOMAIN q : q[n].k = k} : i <= j].v
             new == [k \in Keys(q) |-> first(k)]
  <1>1. Cardinality(Keys(q)) = Len(q)
    BY KeysOnceTimes
  <1>2. Exec(d, Insert(q)) = {Over(d, new)}
    BY <1>1 DEF Exec, Insert
  <1>3. ASSUME NEW k \in Keys(q) PROVE first(k) = 1
    <2>1. PICK i \in DOMAIN q : q[i].k = k
      BY DEF Keys
    <2>2. {j \in DOMAIN q : q[j].k = k} = {i}
      BY <2>1 DEF KeysOnce
    <2>3. i <= i
      <3>1. i \in Int OBVIOUS
      <3> QED BY <3>1
    <2> QED BY <2>2, <2>3
  <1>4. new = [k \in Keys(q) |-> 1]
    BY <1>3
  <1>5. [k \in Keys(q) |-> Old(d, k) + Times(q, k)] = [k \in Keys(q) |-> 1]
    BY KeysOnceTimes DEF Old
  <1> HIDE DEF new
  <1>6. Over(d, [k \in Keys(q) |-> 1]) = Over([k \in Keys(q) |-> 1], d)
    BY DEF Over
  <1> QED BY <1>2, <1>4, <1>5, <1>6 DEF Adds

(* A delete that matches no row changes nothing. *)
LEMMA DeleteExec ==
    ASSUME NEW d, IsTable(d), NEW ks, ks \cap DOMAIN d = {}
    PROVE  Exec(d, Delete(ks)) = {d}
  <1>1. Exec(d, Delete(ks)) = {[k \in DOMAIN d \ ks |-> d[k]]}
    BY DEF Exec, Delete
  <1>2. DOMAIN d \ ks = DOMAIN d
    OBVIOUS
  <1> QED BY <1>1, <1>2 DEF IsTable

(* The list of a finite set has each of its elements exactly once. *)
LEMMA RowsOnce ==
    ASSUME NEW S, IsFiniteSet(S)
    PROVE  /\ Rows(S) \in Seq(S)
           /\ \A i, j \in DOMAIN Rows(S) : Rows(S)[i] = Rows(S)[j] => i = j
  <1> DEFINE Good(q, T) == /\ q \in Seq(S)
                           /\ \A i \in DOMAIN q : q[i] \in T
                           /\ \A i, j \in DOMAIN q : q[i] = q[j] => i = j
             Wrong == {T \in SUBSET S : ~Good(Rows(T), T)}
  <1> SUFFICES ASSUME Wrong # {} PROVE FALSE
    OBVIOUS
  <1>0. Wrong \in SUBSET SUBSET S /\ RowsFold!IsFiniteSet(S)
    BY DEF IsFiniteSet, RowsFold!IsFiniteSet
  <1>1. PICK T \in Wrong : \A U \in Wrong : U \subseteq T => U = T
    <2> HIDE DEF Wrong
    <2> QED BY <1>0, RowsFold!Least
  <1>2. T \subseteq S /\ ~Good(Rows(T), T)
    OBVIOUS
  <1>3. \A U : U \subseteq T /\ U # T => Good(Rows(U), U)
    BY <1>1
  <1> HIDE DEF Wrong
  <1>4. CASE T = {}
    <2>1. Good(<< >>, {})
      OBVIOUS
    <2> QED BY <1>4, <2>1, <1>2, RowsEmpty
  <1>5. CASE T # {}
    <2>1. IsFiniteSet(T)
      BY <1>2, FS_Subset
    <2>2. PICK x \in T : Rows(T) = Append(Rows(T \ {x}), x)
      BY <2>1, <1>5, RowsStep
    <2>3. PICK q : q = Rows(T \ {x})
      OBVIOUS
    <2>4. Good(q, T \ {x})
      BY <2>3, <1>3
    <2>5. x \in S
      BY <1>2
    <2>6. Good(Append(q, x), T)
      <3>1. DOMAIN Append(q, x) = 1 .. Len(q) + 1 /\ DOMAIN q = 1 .. Len(q) /\ Len(q) \in Nat
        BY <2>4
      <3>2. \A i \in 1 .. Len(q) : Append(q, x)[i] = q[i] /\ q[i] # x /\ q[i] \in T
        BY <2>4, <3>1
      <3>3. Append(q, x)[Len(q) + 1] = x
        BY <2>4
      <3>4. Append(q, x) \in Seq(S)
        BY <2>4, <2>5
      <3>5. \A i \in 1 .. Len(q) + 1 : i \in 1 .. Len(q) \/ i = Len(q) + 1
        BY <3>1
      <3>6. \A i, j \in 1 .. Len(q) : q[i] = q[j] => i = j
        BY <2>4, <3>1
      <3> QED BY <3>1, <3>2, <3>3, <3>4, <3>5, <3>6
    <2> QED BY <2>2, <2>3, <2>6, <1>2
  <1> QED BY <1>4, <1>5
=============================================================================

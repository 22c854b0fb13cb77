----------------------------- MODULE FoldLemmas -----------------------------
(***************************************************************************)
(* Folds over finite sets for every set, not for the ones TLC tries.  A    *)
(* fold of the community modules is a recursive function over the subsets  *)
(* of its set, Iter here; what such a function is for every set follows    *)
(* from the least set, among the subsets of a finite set, for which a      *)
(* claim is wrong.                                                         *)
(*                                                                         *)
(* `step' says what an element adds to the result and `pick' which         *)
(* element comes last; a module that instantiates this one gives both,     *)
(* and q is whatever else the step depends on.                             *)
(***************************************************************************)
EXTENDS Integers, FiniteSets, FiniteSetTheorems, WellFoundedInduction, TLAPS
CONSTANTS step(_, _, _), pick(_)

(* The fold, written as FoldSet and FoldLeft of the community modules are. *)
Iter(q, base, S) ==
  LET iter[s \in SUBSET S] ==
        IF s = {} THEN base ELSE step(q, pick(s), iter[s \ {pick(s)}])
  IN  iter[S]

(* The choice is one of the elements that are left. *)
Picks(S) == \A s \in SUBSET S : s # {} => pick(s) \in s

(* g is a function that the definition of the fold describes. *)
Rec(q, base, g, S) ==
  g = [s \in SUBSET S |->
        IF s = {} THEN base ELSE step(q, pick(s), g[s \ {pick(s)}])]

(* What such a function is at one subset. *)
LEMMA RecAt ==
  ASSUME NEW q, NEW base, NEW S, NEW g, Rec(q, base, g, S), NEW s \in SUBSET S
  PROVE  g[s] = IF s = {} THEN base ELSE step(q, pick(s), g[s \ {pick(s)}])
  <1> DEFINE F == [t \in SUBSET S |->
        IF t = {} THEN base ELSE step(q, pick(t), g[t \ {pick(t)}])]
  <1>1. g = F BY DEF Rec
  <1>2. F[s] = IF s = {} THEN base ELSE step(q, pick(s), g[s \ {pick(s)}])
    OBVIOUS
  <1> HIDE DEF F
  <1> QED BY <1>1, <1>2

(* Of the sets for which something holds one has no smaller one: induction *)
(* over finite sets, as this prover can cite it.                           *)
LEMMA Least ==
  ASSUME NEW S, IsFiniteSet(S), NEW T \in SUBSET SUBSET S, T # {}
  PROVE  \E s \in T : \A t \in T : t \subseteq s => t = s
  <1>1. IsWellFoundedOn(StrictSubsetOrdering(S), SUBSET S)
    BY FS_StrictSubsetOrderingWellFounded, FS_FiniteSubsetsOfFinite
  <1>2. PICK s \in T : \A t \in T : <<t, s>> \notin StrictSubsetOrdering(S)
    BY <1>1, WFMin
  <1> QED BY <1>2 DEF StrictSubsetOrdering

(* Two functions that the definition describes agree wherever both are     *)
(* defined, also when one of them was made for a larger set.               *)
LEMMA Unique ==
  ASSUME NEW q, NEW base, NEW S, NEW T, IsFiniteSet(S), Picks(S),
         NEW g, Rec(q, base, g, S), NEW h, Rec(q, base, h, T),
         NEW r, r \subseteq S, r \subseteq T
  PROVE  g[r] = h[r]
  <1> DEFINE Diff == {s \in SUBSET S : s \subseteq T /\ g[s] # h[s]}
  <1> SUFFICES ASSUME Diff # {} PROVE FALSE OBVIOUS
  <1>0. Diff \in SUBSET SUBSET S OBVIOUS
  <1>1. PICK s \in Diff : \A t \in Diff : t \subseteq s => t = s
    <2> HIDE DEF Diff
    <2> QED BY <1>0, Least
  <1>2. s \subseteq S /\ s \subseteq T /\ g[s] # h[s] OBVIOUS
  <1>3. CASE s = {}
    BY <1>2, <1>3, RecAt
  <1>4. CASE s # {}
    <2> DEFINE u == s \ {pick(s)}
    <2>1. pick(s) \in s BY <1>2, <1>4 DEF Picks
    <2>2. u \subseteq s /\ u # s BY <2>1
    <2>3. u \notin Diff BY <1>1, <2>2
    <2>4. g[u] = h[u] BY <2>3, <2>2, <1>2
    <2>5. g[s] = step(q, pick(s), g[u]) BY <1>2, <1>4, RecAt
    <2>6. h[s] = step(q, pick(s), h[u])
      <3>1. s \in SUBSET T BY <1>2
      <3> QED BY <3>1, <1>4, RecAt
    <2> QED BY <2>4, <2>5, <2>6, <1>2
  <1> QED BY <1>3, <1>4

(* The definition of the fold describes a function. *)
LEMMA Exists ==
  ASSUME NEW q, NEW base, NEW S, IsFiniteSet(S), Picks(S)
  PROVE  \E g : Rec(q, base, g, S)
  <1> DEFINE Without == {s \in SUBSET S : ~ \E g : Rec(q, base, g, s)}
  <1> SUFFICES ASSUME Without # {} PROVE FALSE OBVIOUS
  <1>0. Without \in SUBSET SUBSET S OBVIOUS
  <1>1. PICK T \in Without : \A t \in Without : t \subseteq T => t = T
    <2> HIDE DEF Without
    <2> QED BY <1>0, Least
  <1>2. T \subseteq S /\ ~ \E g : Rec(q, base, g, T) OBVIOUS
  <1>3. IsFiniteSet(T) BY <1>2, FS_Subset
  <1> DEFINE R(u) == CHOOSE g : Rec(q, base, g, u)
  <1>4. ASSUME NEW u, u \subseteq T, u # T PROVE Rec(q, base, R(u), u)
    <2>1. u \notin Without BY <1>4, <1>1
    <2>2. \E g : Rec(q, base, g, u) BY <2>1, <1>4, <1>2
    <2> QED BY <2>2
  <1> DEFINE G == [s \in SUBSET T |->
        IF s = {} THEN base
        ELSE step(q, pick(s), R(s \ {pick(s)})[s \ {pick(s)}])]
  <1>5. ASSUME NEW s \in SUBSET T, s # {}
        PROVE  G[s \ {pick(s)}] = R(s \ {pick(s)})[s \ {pick(s)}]
    <2> DEFINE u == s \ {pick(s)}
    <2>1. pick(s) \in s BY <1>2, <1>5 DEF Picks
    <2>2. u \subseteq T /\ u # T BY <2>1
    <2>3. Rec(q, base, R(u), u) BY <2>2, <1>4
    <2> HIDE DEF R
    <2>4. CASE u = {} 
      <3>1. R(u)[u] = base
        <4>1. u \in SUBSET u OBVIOUS
        <4> HIDE DEF u
        <4> QED BY <4>1, <2>3, <2>4, RecAt
      <3>2. G[u] = base BY <2>4, <2>2
      <3> QED BY <3>1, <3>2
    <2>5. CASE u # {}
      <3> DEFINE v == u \ {pick(u)}
      <3>1. pick(u) \in u BY <2>2, <1>2, <2>5 DEF Picks
      <3>2. v \subseteq T /\ v # T /\ v \subseteq u BY <2>2, <3>1
      <3>3. Rec(q, base, R(v), v) BY <3>2, <1>4
      <3>4. IsFiniteSet(v) /\ Picks(v) BY <3>2, <1>2, <1>3, FS_Subset DEF Picks
      <3>5. R(v)[v] = R(u)[v] BY <3>2, <3>3, <3>4, <2>3, Unique
      <3>6. R(u)[u] = step(q, pick(u), R(u)[v])
        <4>1. u \in SUBSET u OBVIOUS
        <4> HIDE DEF u
        <4> QED BY <4>1, <2>3, <2>5, RecAt
      <3>7. G[u] = step(q, pick(u), R(v)[v]) BY <2>2, <2>5
      <3> QED BY <3>5, <3>6, <3>7
    <2> QED BY <2>4, <2>5
  <1> HIDE DEF R
  <1>6. \A s \in SUBSET T : 
          G[s] = IF s = {} THEN base ELSE step(q, pick(s), G[s \ {pick(s)}])
    <2> SUFFICES ASSUME NEW s \in SUBSET T 
                 PROVE G[s] = IF s = {} THEN base ELSE step(q, pick(s), G[s \ {pick(s)}])
      OBVIOUS
    <2>1. CASE s = {} BY <2>1
    <2>2. CASE s # {} 
      <3>1. G[s] = step(q, pick(s), R(s \ {pick(s)})[s \ {pick(s)}]) BY <2>2
      <3> QED BY <3>1, <2>2, <1>5
    <2> QED BY <2>1, <2>2
  <1>7. DOMAIN G = SUBSET T /\ G = [s \in SUBSET T |-> G[s]] OBVIOUS
  <1> HIDE DEF G
  <1>8. Rec(q, base, G, T)
    <2>1. [s \in SUBSET T |-> G[s]] = [s \in SUBSET T |-> IF s = {} THEN base ELSE step(q, pick(s), G[s \ {pick(s)}])]
      BY <1>6
    <2> QED BY <2>1, <1>7 DEF Rec
  <1> QED BY <1>8, <1>2

(* The fold is the value of such a function. *)
LEMMA IterRec ==
  ASSUME NEW q, NEW base, NEW S, IsFiniteSet(S), Picks(S)
  PROVE  \E g : Rec(q, base, g, S) /\ Iter(q, base, S) = g[S]
  <1> DEFINE g == CHOOSE g : Rec(q, base, g, S)
  <1>1. Rec(q, base, g, S) BY Exists
  <1>2. Iter(q, base, S) = g[S] BY DEF Iter, Rec
  <1> QED BY <1>1, <1>2

(* A fold over nothing returns its base. *)
LEMMA IterEmpty == ASSUME NEW q, NEW base PROVE Iter(q, base, {}) = base
  <1>1. IsFiniteSet({}) /\ Picks({}) BY FS_EmptySet DEF Picks
  <1>2. PICK g : Rec(q, base, g, {}) /\ Iter(q, base, {}) = g[{}]
    BY <1>1, IterRec
  <1> QED BY <1>2, RecAt

(* A fold over something is a step from the fold over the rest. *)
LEMMA IterStep ==
  ASSUME NEW q, NEW base, NEW S, IsFiniteSet(S), Picks(S), S # {}
  PROVE  Iter(q, base, S) = step(q, pick(S), Iter(q, base, S \ {pick(S)}))
  <1> DEFINE T == S \ {pick(S)}
  <1>1. PICK g : Rec(q, base, g, S) /\ Iter(q, base, S) = g[S] BY IterRec
  <1>2. IsFiniteSet(T) /\ Picks(T) BY FS_Subset DEF Picks
  <1>3. PICK h : Rec(q, base, h, T) /\ Iter(q, base, T) = h[T] BY IterRec, <1>2
  <1>4. g[T] = h[T] BY <1>1, <1>3, <1>2, Unique
  <1>5. g[S] = step(q, pick(S), g[T]) BY <1>1, RecAt
  <1> QED BY <1>1, <1>3, <1>4, <1>5

(* A fold depends on its step for the elements of its set only. *)
LEMMA IterSame ==
  ASSUME NEW q, NEW r, NEW base, NEW S, IsFiniteSet(S), Picks(S),
         \A x \in S : \A a : step(q, x, a) = step(r, x, a)
  PROVE  Iter(q, base, S) = Iter(r, base, S)
  <1> DEFINE Diff == {s \in SUBSET S : Iter(q, base, s) # Iter(r, base, s)}
  <1> SUFFICES ASSUME Diff # {} PROVE FALSE
    <2>1. S \notin Diff => Iter(q, base, S) = Iter(r, base, S) OBVIOUS
    <2> HIDE DEF Diff
    <2> QED BY <2>1
  <1>0. Diff \in SUBSET SUBSET S OBVIOUS
  <1>1. PICK s \in Diff : \A t \in Diff : t \subseteq s => t = s
    <2> HIDE DEF Diff
    <2> QED BY <1>0, Least
  <1>2. s \subseteq S /\ Iter(q, base, s) # Iter(r, base, s) OBVIOUS
  <1>3. s # {} BY <1>2, IterEmpty
  <1>4. IsFiniteSet(s) /\ Picks(s) BY <1>2, FS_Subset DEF Picks
  <1> DEFINE u == s \ {pick(s)}
  <1>5. pick(s) \in s BY <1>3, <1>4 DEF Picks
  <1>6. u \subseteq s /\ u # s BY <1>5
  <1>7. u \notin Diff BY <1>1, <1>6
  <1>8. Iter(q, base, u) = Iter(r, base, u) BY <1>2, <1>6, <1>7
  <1>9. Iter(q, base, s) = step(q, pick(s), Iter(q, base, u)) BY <1>3, <1>4, IterStep
  <1>10. Iter(r, base, s) = step(r, pick(s), Iter(r, base, u)) BY <1>3, <1>4, IterStep
  <1> HIDE DEF u
  <1> QED BY <1>2, <1>5, <1>8, <1>9, <1>10

(* What the base is and every step keeps, a fold is.                       *)
LEMMA IterIn ==
  ASSUME NEW q, NEW base, NEW S, IsFiniteSet(S), Picks(S), NEW T, base \in T,
         \A x \in S : \A a \in T : step(q, x, a) \in T
  PROVE  Iter(q, base, S) \in T
  <1> DEFINE Out == {s \in SUBSET S : Iter(q, base, s) \notin T}
  <1> SUFFICES ASSUME Out # {} PROVE FALSE
    <2>1. S \notin Out => Iter(q, base, S) \in T OBVIOUS
    <2> HIDE DEF Out
    <2> QED BY <2>1
  <1>0. Out \in SUBSET SUBSET S OBVIOUS
  <1>1. PICK s \in Out : \A t \in Out : t \subseteq s => t = s
    <2> HIDE DEF Out
    <2> QED BY <1>0, Least
  <1>2. s \subseteq S /\ Iter(q, base, s) \notin T OBVIOUS
  <1>3. s # {} BY <1>2, IterEmpty
  <1>4. IsFiniteSet(s) /\ Picks(s) BY <1>2, FS_Subset DEF Picks
  <1> DEFINE u == s \ {pick(s)}
  <1>5. pick(s) \in s BY <1>3, <1>4 DEF Picks
  <1>6. u \subseteq s /\ u # s BY <1>5
  <1>7. u \notin Out BY <1>1, <1>6
  <1>8. Iter(q, base, u) \in T BY <1>2, <1>6, <1>7
  <1>9. Iter(q, base, s) = step(q, pick(s), Iter(q, base, u)) BY <1>3, <1>4, IterStep
  <1> HIDE DEF u
  <1> QED BY <1>2, <1>5, <1>8, <1>9

(* A fold over the first n + 1 numbers that takes the largest last.        *)
LEMMA IterNext ==
  ASSUME NEW q, NEW base, NEW n \in Nat, Picks(1 .. n + 1), pick(1 .. n + 1) = n + 1
  PROVE  Iter(q, base, 1 .. n + 1) = step(q, n + 1, Iter(q, base, 1 .. n))
  <1>1. PICK S, x : S = 1 .. n + 1 /\ x = n + 1 OBVIOUS
  <1>2. IsFiniteSet(S)
    <2>1. 1 \in Int /\ n + 1 \in Int OBVIOUS
    <2> QED BY <1>1, <2>1, FS_Interval
  <1>3. S # {} /\ S \ {x} = 1 .. n
    <2>1. (1 .. n + 1) \ {n + 1} = 1 .. n OBVIOUS
    <2>2. n + 1 \in 1 .. n + 1 OBVIOUS
    <2>3. x \in S BY ONLY <1>1, <2>2
    <2>4. S \ {x} = 1 .. n BY ONLY <1>1, <2>1
    <2> QED BY <2>3, <2>4
  <1>4. Picks(S) /\ pick(S) = x BY <1>1
  <1>5. Iter(q, base, S) = step(q, x, Iter(q, base, S \ {x})) BY <1>2, <1>3, <1>4, IterStep
  <1> QED BY <1>1, <1>3, <1>5
=============================================================================

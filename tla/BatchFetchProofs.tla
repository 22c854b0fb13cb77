--------------------------- MODULE BatchFetchProofs ---------------------------
(***************************************************************************)
(* Proofs about BatchFetch for every configured size, threshold, capacity  *)
(* of the messages and chain length.                                       *)
(*                                                                         *)
(* RequestInRange is not inductive: that a put moves nextHeight to at most *)
(* tipHeight + 1 depends on how many blocks are in hand, and that half of  *)
(* a refused count is still a legal size depends on how the count relates  *)
(* to the size it was taken from.                                          *)
(***************************************************************************)
EXTENDS BatchFetch, TLAPS

(* What is in hand never reaches past the tip; a count never exceeds the   *)
(* size it came from, where there is one.                                  *)
IInv ==
    /\ TypeOK
    /\ RequestInRange
    /\ pc = "fetch" /\ InitialSize > 0 => count <= effectiveSize
    /\ pc = "put" => nextHeight + blks <= tipHeight + 1
    /\ pc # "put" => blks = 0

-----------------------------------------------------------------------------
(* The arithmetic of batch_size_manager.go, with its 1.2 and 0.5. *)

(* Half of a size is a size, and less than it unless that is 1. *)
LEMMA HalvedShrinks ==
    ASSUME NEW n \in Nat \ {0}
    PROVE  /\ Halved(n) \in 1 .. n
           /\ n > 1 => Halved(n) < n
  BY DEF Halved

(* The lesser of two numbers. *)
LEMMA AtMostLeast ==
    ASSUME NEW n \in Nat, NEW m \in Nat
    PROVE  /\ AtMost(n, m) \in Nat
           /\ AtMost(n, m) <= n /\ AtMost(n, m) <= m
           /\ AtMost(n, m) \in {n, m}
  BY DEF AtMost

(* A streak never grows the size past the configured one, never shrinks    *)
(* it, and is counted no further than the threshold.                       *)
LEMMA SuccessGrows ==
    ASSUME TypeOK, onSuccess
    PROVE  /\ effectiveSize' \in Nat
           /\ effectiveSize <= effectiveSize'
           /\ effectiveSize \in 1 .. InitialSize => effectiveSize' \in 1 .. InitialSize
           /\ consecutiveSuccesses' \in 0 .. Threshold
  <1>1. Threshold \in Nat /\ InitialSize \in Nat
    BY BatchAssumption
  <1>2. (6 * effectiveSize) \div 5 \in Nat
    BY DEF TypeOK
  <1>3. Grown(effectiveSize) \in Nat /\ Grown(effectiveSize) <= InitialSize
    BY <1>1, <1>2, AtMostLeast DEF Grown
  <1>4. AtMost(consecutiveSuccesses + 1, Threshold) \in 0 .. Threshold
    BY <1>1 DEF TypeOK, AtMost
  <1> QED
    BY <1>1, <1>3, <1>4 DEF onSuccess, TypeOK

-----------------------------------------------------------------------------
(* The blocks of an answer reach no further than the blocks asked for. *)
LEMMA AnswerInRange ==
    ASSUME NEW next \in Nat, NEW asked \in Nat, NEW got \in Nat, NEW tip \in Nat,
           next + asked - 1 <= tip, got <= asked
    PROVE  next + got <= tip + 1
  OBVIOUS

LEMMA IInvInit == Init => IInv
  <1>1. InitialSize \in Nat /\ Threshold \in Nat /\ MaxHeight \in Nat
    BY BatchAssumption
  <1> QED
    BY <1>1 DEF Init, IInv, TypeOK, RequestInRange

(* One step per action of the goroutine, of the node and of the caller. *)
LEMMA IInvStep == IInv /\ [Next]_vars => IInv'
  <1> SUFFICES ASSUME IInv, [Next]_vars PROVE IInv'
    OBVIOUS
  <1>a. InitialSize \in Nat /\ Threshold \in Nat /\ MaxHeight \in Nat
    BY BatchAssumption
  <1> USE <1>a
  <1>1. CASE GetTipHeight
    <2>1. PICK tip \in tipHeight .. MaxHeight : tipHeight' = tip
      BY <1>1 DEF GetTipHeight
    <2>2. tip \in 1 .. MaxHeight /\ nextHeight <= tip + 1
      BY DEF IInv, TypeOK, RequestInRange
    <2> QED
      BY <1>1, <2>1, <2>2 DEF GetTipHeight, IInv, TypeOK, RequestInRange
  <1>2. CASE LoopEnd
    BY <1>2 DEF LoopEnd, IInv, TypeOK, RequestInRange
  <1>3. CASE Exit
    BY <1>3 DEF Exit, IInv, TypeOK, RequestInRange
  <1>4. CASE BeginFetch
    <2>1. Remaining \in Nat \ {0} /\ nextHeight + Remaining - 1 = tipHeight
      BY <1>4 DEF BeginFetch, Remaining, IInv, TypeOK
    <2>2. /\ count' \in Nat \ {0}
          /\ count' <= Remaining
          /\ effectiveSize > 0 => count' <= effectiveSize
      BY <1>4, <2>1 DEF BeginFetch, AtMost, IInv, TypeOK
    <2> QED
      BY <1>4, <2>1, <2>2 DEF BeginFetch, IInv, TypeOK, RequestInRange
  <1>5. CASE FetchOK
    <2>1. blks' \in Nat /\ nextHeight + blks' <= tipHeight + 1
      <3>1. count \in Nat /\ nextHeight \in Nat /\ tipHeight \in Nat
        BY DEF IInv, TypeOK
      <3>2. nextHeight + count - 1 <= tipHeight
        BY <1>5 DEF FetchOK, IInv, RequestInRange
      <3>3. blks' \in Nat /\ blks' <= count
        BY <1>5, <3>1 DEF FetchOK
      <3> QED
        BY <3>1, <3>2, <3>3, AnswerInRange
    <2> QED
      BY <1>5, <2>1, SuccessGrows DEF FetchOK, IInv, TypeOK, RequestInRange
  <1>6. CASE FetchEmpty
    BY <1>6, SuccessGrows DEF FetchEmpty, IInv, TypeOK, RequestInRange
  <1>7. CASE FetchExhausted
    <2>1. count \in Nat \ {0}
      BY <1>7 DEF FetchExhausted, IInv, TypeOK, RequestInRange
    <2>2. count' = Halved(count) /\ effectiveSize' = Halved(count)
      BY <1>7 DEF FetchExhausted, onFailure
    <2>3. Halved(count) \in 1 .. count
      BY <2>1, HalvedShrinks
    <2> QED
      BY <1>7, <2>1, <2>2, <2>3 DEF FetchExhausted, onFailure, IInv, TypeOK, RequestInRange
  <1>8. CASE FetchError
    BY <1>8 DEF FetchError, IInv, TypeOK, RequestInRange
  <1>9. CASE PutOK
    BY <1>9 DEF PutOK, IInv, TypeOK, RequestInRange
  <1>10. CASE PutError
    BY <1>10 DEF PutError, IInv, TypeOK, RequestInRange
  <1>11. CASE Stop
    BY <1>11 DEF Stop, IInv, TypeOK, RequestInRange
  <1>12. CASE UNCHANGED vars
    BY <1>12 DEF vars, IInv, TypeOK, RequestInRange
  <1> QED
    BY <1>1, <1>2, <1>3, <1>4, <1>5, <1>6, <1>7, <1>8, <1>9, <1>10, <1>11, <1>12
       DEF Next, Work

LEMMA Inductive == Spec => []IInv
  BY IInvInit, IInvStep, PTL DEF Spec

(* The manager's size, the runner's heights and the batch in hand keep     *)
(* their types, whatever the node answers.                                 *)
THEOREM TypeCorrect == Spec => []TypeOK
  <1>1. IInv => TypeOK
    BY DEF IInv
  <1> QED
    BY <1>1, Inductive, PTL

(* fetchBlocks never asks for no block, which the manager would take for   *)
(* "no limit", nor for one above the tip height the loop read; and the     *)
(* adaptive size never leaves 1 .. InitialSize.                            *)
THEOREM RequestInRangeAlways == Spec => []RequestInRange
  <1>1. IInv => RequestInRange
    BY DEF IInv
  <1> QED
    BY <1>1, Inductive, PTL

(* After ResourceExhausted fetchBlocks calls itself with fewer blocks, or  *)
(* for the single block it had asked for already: the recursion goes on    *)
(* only where one block does not fit into a message.                       *)
THEOREM RetryShrinksAlways == Spec => RetryShrinks
  <1>1. ASSUME IInv, [Next]_vars, pc = "fetch", pc' = "fetch", running' = running,
               ~ UNCHANGED vars
        PROVE  count' < count \/ count = 1
    <2>1. CASE FetchExhausted
      <3>1. count \in Nat \ {0}
        BY <1>1 DEF IInv, TypeOK, RequestInRange
      <3> QED
        BY <2>1, <3>1, HalvedShrinks DEF FetchExhausted
    <2>2. CASE Stop
      BY <1>1, <2>2 DEF Stop, IInv, TypeOK
    <2> QED
      BY <1>1, <2>1, <2>2 DEF Next, Work, GetTipHeight, LoopEnd, Exit, BeginFetch,
             FetchOK, FetchEmpty, FetchError, PutOK, PutError
  <1>2. IInv /\ [Next]_vars =>
            [pc = "fetch" /\ pc' = "fetch" /\ running' = running =>
                count' < count \/ count = 1]_vars
    BY <1>1
  <1> QED
    BY <1>2, Inductive, PTL DEF Spec, RetryShrinks
=============================================================================

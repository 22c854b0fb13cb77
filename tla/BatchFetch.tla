------------------------------ MODULE BatchFetch ------------------------------
(***************************************************************************)
(* server/batch_size_manager.go and its use in server/runner.go: how many  *)
(* blocks the runner of a BatchAdapter asks for.  The size halves when the *)
(* answer would exceed the gRPC message limit (ResourceExhausted), which   *)
(* fetchBlocks retries at once, and grows by a fifth, up to the configured *)
(* size, after a streak of successful fetches.                             *)
(*                                                                         *)
(* What an answer may hold is abstracted to Capacity[h], the number of     *)
(* blocks from h on that fit into one message.                             *)
(***************************************************************************)
EXTENDS Naturals

CONSTANTS InitialSize,   \* BatchSize() of the plugin, or blockDB.batchSize
          Threshold,     \* batchSizeIncreaseThreshold
          Capacity,      \* Capacity[h]: see above
          MaxHeight      \* bound: height of the chain

ASSUME BatchAssumption ==
    /\ InitialSize \in Nat
    /\ Threshold \in Nat \ {0}
    /\ MaxHeight \in Nat \ {0}
    /\ Capacity \in [1 .. MaxHeight -> Nat]

VARIABLES effectiveSize,         \* the manager's current size
          consecutiveSuccesses,  \* its streak, counted up to Threshold
          tipHeight,             \* the runner's tipHeight
          nextHeight,            \* the runner's nextHeight
          count,                 \* blocks asked for by the fetch under way
          blks,                  \* blocks handed to PutBlocks
          running,               \* r.isRunning
          pc                     \* where the goroutine is

vars == <<effectiveSize, consecutiveSuccesses, tipHeight, nextHeight, count,
          blks, running, pc>>

AtMost(n, m) == IF n < m THEN n ELSE m

-----------------------------------------------------------------------------
(* The batch size manager. *)

(* uint64(float64(n) * 1.2) and uint64(float64(n) * 0.5) *)
Grown(n) == AtMost((6 * n) \div 5, InitialSize)
Halved(n) == IF n \div 2 < 1 THEN 1 ELSE n \div 2

(* The streak only ever meets Threshold in a comparison, so it is counted  *)
(* up to there.  It is reset when the size grows, not when it cannot.      *)
onSuccess ==
    LET n == AtMost(consecutiveSuccesses + 1, Threshold)
        grow == n >= Threshold /\ Grown(effectiveSize) > effectiveSize
    IN /\ effectiveSize' = IF grow THEN Grown(effectiveSize) ELSE effectiveSize
       /\ consecutiveSuccesses' = IF grow THEN 0 ELSE n

onFailure(failed) ==
    /\ effectiveSize' = Halved(failed)
    /\ consecutiveSuccesses' = 0

-----------------------------------------------------------------------------
(* The runner. *)

(* Mutant: one block above the tip. *)
Remaining_OneMore == tipHeight - nextHeight + 2

Remaining == tipHeight - nextHeight + 1

Init ==
    /\ effectiveSize = InitialSize
    /\ consecutiveSuccesses = 0
    /\ tipHeight \in 1 .. MaxHeight
    /\ nextHeight \in 1 .. tipHeight
    /\ count = 0
    /\ blks = 0
    /\ running = TRUE
    /\ pc = "loop"

(* The outer loop reads a new tip height. *)
GetTipHeight ==
    /\ pc = "tip"
    /\ running
    /\ tipHeight' \in tipHeight .. MaxHeight
    /\ pc' = "loop"
    /\ UNCHANGED <<effectiveSize, consecutiveSuccesses, nextHeight, count, blks,
                   running>>

LoopEnd ==
    /\ pc = "loop"
    /\ nextHeight > tipHeight \/ ~running
    /\ pc' = "tip"
    /\ UNCHANGED <<effectiveSize, consecutiveSuccesses, tipHeight, nextHeight,
                   count, blks, running>>

Exit ==
    /\ pc = "tip"
    /\ ~running
    /\ pc' = "done"
    /\ UNCHANGED <<effectiveSize, consecutiveSuccesses, tipHeight, nextHeight,
                   count, blks, running>>

(* Mutant: always the adaptive size. *)
BeginFetch_NoTip ==
    /\ pc = "loop"
    /\ running
    /\ nextHeight <= tipHeight
    /\ count' = effectiveSize
    /\ pc' = "fetch"
    /\ UNCHANGED <<effectiveSize, consecutiveSuccesses, tipHeight, nextHeight,
                   blks, running>>

BeginFetch ==
    /\ pc = "loop"
    /\ running
    /\ nextHeight <= tipHeight
    /\ count' = IF effectiveSize > 0 THEN AtMost(effectiveSize, Remaining)
                ELSE Remaining
    /\ pc' = "fetch"
    /\ UNCHANGED <<effectiveSize, consecutiveSuccesses, tipHeight, nextHeight,
                   blks, running>>

(* A complete answer, cut where the batch exceeds 500 transactions for     *)
(* each block asked for: never before the first block.                     *)
FetchOK ==
    /\ pc = "fetch"
    /\ count <= Capacity[nextHeight]
    /\ onSuccess
    /\ blks' \in 1 .. count
    /\ pc' = "put"
    /\ UNCHANGED <<tipHeight, nextHeight, count, running>>

(* The node may return fewer blocks than asked for, none at the extreme;   *)
(* that is a success to fetchBlocks.                                       *)
FetchEmpty ==
    /\ pc = "fetch"
    /\ onSuccess
    /\ blks' = 0
    /\ pc' = "put"
    /\ UNCHANGED <<tipHeight, nextHeight, count, running>>

(* Mutant: the retry asks for as many blocks as before. *)
FetchExhausted_SameCount ==
    /\ pc = "fetch"
    /\ count > Capacity[nextHeight]
    /\ onFailure(count)
    /\ UNCHANGED <<tipHeight, nextHeight, count, blks, running, pc>>

(* ResourceExhausted: fetchBlocks calls itself with half the blocks.       *)
FetchExhausted ==
    /\ pc = "fetch"
    /\ count > Capacity[nextHeight]
    /\ onFailure(count)
    /\ count' = Halved(count)
    /\ UNCHANGED <<tipHeight, nextHeight, blks, running, pc>>

(* Any other error ends the inner loop and leaves the size alone. *)
FetchError ==
    /\ pc = "fetch"
    /\ pc' = "tip"
    /\ UNCHANGED <<effectiveSize, consecutiveSuccesses, tipHeight, nextHeight,
                   count, blks, running>>

(* Mutant: nextHeight is not moved. *)
PutOK_Stays ==
    /\ pc = "put"
    /\ blks > 0
    /\ blks' = 0
    /\ pc' = "loop"
    /\ UNCHANGED <<effectiveSize, consecutiveSuccesses, tipHeight, nextHeight,
                   count, running>>

PutOK ==
    /\ pc = "put"
    /\ blks > 0
    /\ nextHeight' = nextHeight + blks
    /\ blks' = 0
    /\ pc' = "loop"
    /\ UNCHANGED <<effectiveSize, consecutiveSuccesses, tipHeight, count, running>>

(* PutBlocks fails; on an empty batch it panics and the runner recovers.   *)
(* nextHeight is read from the index again, which a failed commit may have *)
(* moved already (see Runner).                                             *)
PutError ==
    /\ pc = "put"
    /\ nextHeight' \in {nextHeight, nextHeight + blks}
    /\ blks' = 0
    /\ pc' = "tip"
    /\ UNCHANGED <<effectiveSize, consecutiveSuccesses, tipHeight, count, running>>

Stop ==
    /\ running
    /\ running' = FALSE
    /\ UNCHANGED <<effectiveSize, consecutiveSuccesses, tipHeight, nextHeight,
                   count, blks, pc>>

Work == \/ GetTipHeight \/ LoopEnd \/ Exit \/ BeginFetch
        \/ FetchOK \/ FetchExhausted \/ PutOK

Next == Work \/ FetchEmpty \/ FetchError \/ PutError \/ Stop

Spec == Init /\ [][Next]_vars

(* The goroutine keeps running, and the node's and the database's failures *)
(* end some time.                                                          *)
LiveSpec ==
    /\ Spec
    /\ WF_vars(Work \/ PutError)
    /\ <>[][~(FetchEmpty \/ FetchError \/ PutError)]_vars

-----------------------------------------------------------------------------
(* Types. *)
TypeOK ==
    /\ effectiveSize \in Nat
    /\ consecutiveSuccesses \in 0 .. Threshold
    /\ tipHeight \in 1 .. MaxHeight
    /\ nextHeight \in 1 .. MaxHeight + 1
    /\ count \in Nat
    /\ blks \in Nat
    /\ running \in BOOLEAN
    /\ pc \in {"tip", "loop", "fetch", "put", "done"}

(* A fetch asks for at least one block and for none above the tip height   *)
(* it was computed from, also after retries with a halved count; the       *)
(* adaptive size stays between one block and the configured size, so that  *)
(* halving never reaches 0, which BeginFetch would read as "no limit".     *)
RequestInRange ==
    /\ pc = "fetch" => 1 <= count /\ nextHeight + count - 1 <= tipHeight
    /\ nextHeight <= tipHeight + 1
    /\ InitialSize > 0 => effectiveSize \in 1 .. InitialSize

(* A retry after ResourceExhausted asks for less, until a single block is  *)
(* left.                                                                   *)
RetryShrinks ==
    [][pc = "fetch" /\ pc' = "fetch" /\ running' = running =>
          count' < count \/ count = 1]_vars

(* fetchBlocks returns, and so runner.Stop, which waits for the goroutine, *)
(* does too - provided every block fits into a message by itself.          *)
StopReturns == ~running ~> pc = "done"

(* The runner gets through the blocks up to its tip unless it is stopped.  *)
Progress == (pc = "loop") ~> (~running \/ nextHeight > tipHeight)
=============================================================================

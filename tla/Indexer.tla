------------------------------- MODULE Indexer -------------------------------
(***************************************************************************)
(* What the indexer promises to a reader of its database, without runners, *)
(* caches, buffers or faults: every plugin has a height, its tables hold   *)
(* the effects of exactly the blocks up to that height, each once, and     *)
(* both move forward in one step, over blocks the DAO already holds.       *)
(***************************************************************************)
EXTENDS Naturals

CONSTANTS Plugins, MaxHeight

VARIABLES dao,      \* height of the block DAO
          height,   \* height[p]: index height of p
          applied   \* applied[p][h]: how often block h counts in p's tables

vars == <<dao, height, applied>>

Init ==
    /\ dao = 0
    /\ height = [p \in Plugins |-> 0]
    /\ applied = [p \in Plugins |-> [h \in 1 .. MaxHeight |-> 0]]

NewBlock ==
    /\ dao < MaxHeight
    /\ dao' = dao + 1
    /\ UNCHANGED <<height, applied>>

(* p indexes the blocks after its height up to l, all or none of them. *)
Index(p, l) ==
    /\ height' = [height EXCEPT ![p] = l]
    /\ applied' = [applied EXCEPT ![p] =
           [h \in 1 .. MaxHeight |-> IF height[p] < h /\ h <= l
                                     THEN applied[p][h] + 1 ELSE applied[p][h]]]
    /\ UNCHANGED dao

Next ==
    \/ NewBlock
    \/ \E p \in Plugins : \E l \in (height[p] + 1) .. dao : Index(p, l)

Spec == Init /\ [][Next]_vars
=============================================================================

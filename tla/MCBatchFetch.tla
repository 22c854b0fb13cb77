----------------------------- MODULE MCBatchFetch -----------------------------
(***************************************************************************)
(* TLC instances of BatchFetch: a chain with a stretch of heavy blocks, of *)
(* which only a few fit into one message.                                  *)
(***************************************************************************)
EXTENDS BatchFetch

MCCapacity == [h \in 1 .. MaxHeight |->
                  CASE h <= 4 -> 16 - h
                    [] h \in 5 .. 8 -> 1 + (h % 2)
                    [] OTHER -> 16]
=============================================================================

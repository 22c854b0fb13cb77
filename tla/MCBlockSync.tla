----------------------------- MODULE MCBlockSync -----------------------------
(***************************************************************************)
(* The TLC instance of BlockSync: batches of two blocks, and catch-up mode *)
(* with and without a configured start.                                    *)
(***************************************************************************)
EXTENDS BlockSync

MCStartHeights == {0, 1, 2}
=============================================================================

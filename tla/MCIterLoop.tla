----------------------------- MODULE MCIterLoop -----------------------------
(* IterLoop with the constants of iters.py and amounts on both sides of every
   boundary of the checks: 64 pages, 10 per cent of 65 and of 0x100001. *)
EXTENDS IterLoop

MCAmounts == {0, 64, 65, 71, 72, 100,
              1048576, 1048577, 1153434, 1163920, 1163921}
=============================================================================

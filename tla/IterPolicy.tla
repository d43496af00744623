----------------------------- MODULE IterPolicy -----------------------------
(***************************************************************************)
(* When p.haul goes on copying a running process tree and when it stops    *)
(* and freezes it: the constants and the two progress checks of iters.py.  *)
(***************************************************************************)
EXTENDS Integers

CONSTANTS
    MAX_ITERS_COUNT,         \* iter_consts of iters.py
    MIN_ITER_PAGES_COUNT,
    MIN_ITER_FS_XFER_BYTES,
    MAX_ITER_GROW_RATE

ASSUME IterConstsAssumption ==
    /\ MAX_ITERS_COUNT \in Nat
    /\ MIN_ITER_PAGES_COUNT \in Nat
    /\ MIN_ITER_FS_XFER_BYTES \in Nat
    /\ MAX_ITER_GROW_RATE \in Nat

(* prev_dstats and prev_fsstats are None in the first round. *)
NoStats == -1

(* delta * 100 / prev_value is Python 2's integer division, which rounds
   towards minus infinity, as \div does. *)
CalcGrowRateSwapped(value, prev_value) ==
    ((prev_value - value) * 100) \div prev_value

CalcGrowRate(value, prev_value) ==
    ((value - prev_value) * 100) \div prev_value

Grows(value, prev_value) ==
    /\ prev_value # NoStats
    /\ CalcGrowRate(value, prev_value) > MAX_ITER_GROW_RATE

IsSmallStrict(value, min) == value < min

IsSmall(value, min) == value <= min

TooMany(index) == index >= MAX_ITERS_COUNT

CheckLiveIterProgress(index, pages, prev_pages) ==
    /\ ~IsSmall(pages, MIN_ITER_PAGES_COUNT)
    /\ ~Grows(pages, prev_pages)
    /\ ~TooMany(index)

CheckRestartIterProgress(index, bytes, prev_bytes) ==
    /\ ~IsSmall(bytes, MIN_ITER_FS_XFER_BYTES)
    /\ ~Grows(bytes, prev_bytes)
    /\ ~TooMany(index)
=============================================================================

------------------------------ MODULE IterLoop ------------------------------
(***************************************************************************)
(* The loop around the progress checks, alone: "while use_pre_dumps" of    *)
(* __start_live_migration and "while True" of __start_restart_migration.   *)
(* What a round transfers is up to the tasks that keep running, so every   *)
(* amount is possible in every round.                                      *)
(***************************************************************************)
EXTENDS IterPolicy

CONSTANT Amounts    \* pages or bytes one round may transfer

ASSUME AmountsAssumption == Amounts \subseteq Nat

VARIABLES
    mode,    \* "live" or "restart"
    pc,      \* "round": copying; "check": deciding; "final": loop left
    index,   \* iter_index
    amount,  \* pages_written or bytes_xferred of the last round
    prev     \* the same of the round before it

vars == <<mode, pc, index, amount, prev>>

TypeOK ==
    /\ mode \in {"live", "restart"}
    /\ pc \in {"round", "check", "final"}
    /\ index \in Nat
    /\ amount \in Nat \cup {NoStats}
    /\ prev \in Nat \cup {NoStats}

Init ==
    /\ mode \in {"live", "restart"}
    /\ pc = "round"
    /\ index = 0
    /\ amount = NoStats
    /\ prev = NoStats

Continues ==
    \/ mode = "live" /\ CheckLiveIterProgress(index, amount, prev)
    \/ mode = "restart" /\ CheckRestartIterProgress(index, amount, prev)

Round ==
    /\ pc = "round"
    /\ amount' \in Amounts
    /\ pc' = "check"
    /\ UNCHANGED <<mode, index, prev>>

NextIndexStuck == index

NextIndex == index + 1

Proceed ==
    /\ pc = "check"
    /\ Continues
    /\ index' = NextIndex
    /\ prev' = amount
    /\ pc' = "round"
    /\ UNCHANGED <<mode, amount>>

Stop ==
    /\ pc = "check"
    /\ ~Continues
    /\ pc' = "final"
    /\ UNCHANGED <<mode, index, amount, prev>>

Next == Round \/ Proceed \/ Stop

Spec == Init /\ [][Next]_vars

(* Nothing in the loop waits for another party for ever: a round ends and a
   decision is taken. *)
FairSpec == Spec /\ WF_vars(Next)

-----------------------------------------------------------------------------
Min == IF mode = "live" THEN MIN_ITER_PAGES_COUNT ELSE MIN_ITER_FS_XFER_BYTES

(* The round being run or decided on is the one after "index" others. *)
Rounds == index + 1

(* "Maximum number of iterations" is what iters.py:39 calls MAX_ITERS_COUNT: the
   tasks are copied no more often than that before they are stopped. *)
RoundsWithinMaximum == Rounds <= MAX_ITERS_COUNT

(* What the code keeps to: one round more, for the index of the round just done,
   counted from 0, is compared with the maximum (iters.py:335, 357). *)
RoundsBounded == Rounds <= MAX_ITERS_COUNT + 1

(* The amount the grow rate is divided by is never zero nor a stale None
   (iters.py:366): a round is followed by another only if it moved more than the
   minimum. *)
DivisorPositive == (prev # NoStats => prev > Min) /\ (index > 0 => prev # NoStats)

(* A round is followed by another only if it moved less than
   MAX_ITER_GROW_RATE + 1 per cent more than the round before: the rate is
   rounded down before it is compared (iters.py:331, 353, 366). *)
GrowthAccepted ==
    [][Proceed /\ prev # NoStats
         => amount * 100 < prev * (101 + MAX_ITER_GROW_RATE)]_vars

(* The tasks are frozen, or stopped, in the end, whatever they keep writing:
   no sequence of amounts keeps the loop running (iters.py:191, 275). *)
LoopLeft == <>(pc = "final")
=============================================================================

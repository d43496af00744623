----------------------------- MODULE SharedPloop -----------------------------
(***************************************************************************)
(* The shared disks of a vz live migration (fs_haul_ploop.py and the hooks *)
(* of p_haul_vz.py): both hosts see them, so they are not copied but put   *)
(* into two snapshots each, one for either outcome.  When the final copy   *)
(* is over they are prepared one by one; a migration that fails restores   *)
(* them, one that succeeds drops the source's way back and lets the target *)
(* merge its snapshot.  Each of these loops stops at the first error.      *)
(***************************************************************************)
EXTENDS Naturals

CONSTANT MaxDisks   \* disks given with --vz-shared-disks

ASSUME DisksAssumption == MaxDisks \in Nat

VARIABLES
    n,       \* the disks are 1..n, in the order of the option; constant
    pc,      \* where the migration stands
    disk,    \* how far each disk has been taken
    at,      \* the disk whose turn it is
    broken   \* the steps that failed: the loop and the disk

vars == <<n, pc, disk, at, broken>>

(* "copied": the disk descriptor has a copy; "snapped": the original has a
   snapshot; "prepared": and the copy too; "renamed": the copy took the
   original's place; "plain": and its snapshot is merged, as before it all;
   "uncopied", "dropped": the copy, and its lock, are removed; "merged": the
   target has merged the original's snapshot. *)
States == {"plain", "copied", "snapped", "prepared", "renamed", "uncopied",
           "dropped", "merged"}

(* The commands of each loop for one disk, by the state they find it in. *)
Loops ==
   [prepare |-> [plain |-> "copied", copied |-> "snapped", snapped |-> "prepared"],
    restore |-> [prepared |-> "renamed", renamed |-> "plain"],
    cleanup |-> [prepared |-> "uncopied", uncopied |-> "dropped"],
    merge   |-> [dropped |-> "merged"]]

(* What follows a loop or a step between two loops. *)
AfterBug == [prepare |-> "ship", restore |-> "failed", cleanup |-> "umount",
             merge |-> "succeeded", copy_stop |-> "prepare", ship |-> "ack",
             ack |-> "cleanup", umount |-> "succeeded"]

After == [prepare |-> "ship", restore |-> "failed", cleanup |-> "umount",
          merge |-> "succeeded", copy_stop |-> "prepare", ship |-> "ack",
          ack |-> "cleanup", umount |-> "merge"]

HandlerLateBug(p) ==
    CASE p = "ship" -> "restore"
      [] p \in {"copy_stop", "prepare", "restore"} -> "failed"
      [] OTHER -> "succeeded"

HandlerLenientBug(p) ==
    CASE p \in {"copy_stop", "prepare", "ship"} -> "restore"
      [] p = "restore" -> "failed"
      [] p = "cleanup" -> "umount"
      [] OTHER -> "succeeded"

(* Where an exception goes: migration_fail, out of it, or the final warning. *)
Handler(p) ==
    CASE p \in {"copy_stop", "prepare", "ship"} -> "restore"
      [] p = "restore" -> "failed"
      [] OTHER -> "succeeded"

Ended == {"failed", "succeeded", "crashed"}

Points == DOMAIN After \cup Ended

TypeOK ==
    /\ n \in 0..MaxDisks
    /\ pc \in Points
    /\ disk \in [1..n -> States]
    /\ at \in 1..(n + 1)
    /\ broken \subseteq (Points \X (1..(n + 1)))

First == 1

Init ==
    /\ n \in 0..MaxDisks
    /\ pc = "copy_stop"
    /\ disk = [d \in 1..n |-> "plain"]
    /\ at = First
    /\ broken = {}

Looping == pc \in DOMAIN Loops /\ at <= n

(* One command of a loop; the last one for a disk passes on to the next. *)
Command ==
    /\ Looping
    /\ disk[at] \in DOMAIN Loops[pc]
    /\ LET next == Loops[pc][disk[at]] IN
          /\ disk' = [disk EXCEPT ![at] = next]
          /\ at' = IF next \in DOMAIN Loops[pc] THEN at ELSE at + 1
    /\ UNCHANGED <<n, pc, broken>>

(* A loop is over, or one of the steps between them has been taken. *)
Proceed ==
    /\ pc \notin Ended /\ ~Looping
    /\ pc' = After[pc]
    /\ at' = First
    /\ UNCHANGED <<n, disk, broken>>

(* A copy, a snapshot, a file operation or a call fails. *)
Raises ==
    /\ pc \notin Ended
    /\ pc \in DOMAIN Loops => Looping /\ disk[at] \in DOMAIN Loops[pc]
    /\ broken' = broken \cup {<<pc, at>>}
    /\ pc' = Handler(pc)
    /\ at' = First
    /\ UNCHANGED <<n, disk>>

(* restore() of a disk whose prepare() did not get to the end reads a guid
   that was never set. *)
RestoreUnprepared ==
    /\ pc = "restore" /\ Looping
    /\ disk[at] \notin DOMAIN Loops[pc]
    /\ pc' = Handler(pc)
    /\ at' = First
    /\ UNCHANGED <<n, disk, broken>>

(* p.haul is killed.  The merge is the target's, and goes on without it. *)
Crash ==
    /\ pc \notin Ended \cup {"merge"}
    /\ pc' = "crashed"
    /\ UNCHANGED <<n, disk, at, broken>>

Next == Command \/ Proceed \/ Raises \/ RestoreUnprepared \/ Crash

Spec == Init /\ [][Next]_vars

-----------------------------------------------------------------------------
(* Properties *)

(* When a migration has failed, the source finds every shared disk as it was,
   but the one that could not be prepared, and those from the first that could
   not be restored on (fs_haul_ploop.py:47-56, 119-126, iters.py:234-236). *)
RestoredUnlessBroken ==
    pc = "failed" => \A d \in 1..n :
        \/ disk[d] = "plain"
        \/ <<"prepare", d>> \in broken
        \/ \E e \in 1..d : <<"restore", e>> \in broken

(* When it has succeeded, every shared disk has one snapshot less than it was
   given, unless the final steps broke off before (p_haul_vz.py:338-350). *)
MergedUnlessBroken ==
    pc = "succeeded" => \A d \in 1..n :
        \/ disk[d] = "merged"
        \/ \E p \in {"ack", "cleanup", "umount"}, e \in 1..n : <<p, e>> \in broken
        \/ \E e \in 1..d : <<"merge", e>> \in broken

(* The target merges a snapshot only when the source has given up its way back
   to every shared disk (p_haul_vz.py:338-341). *)
MergedLast ==
    (\E d \in 1..n : disk[d] = "merged")
        => \A d \in 1..n : disk[d] \in {"dropped", "merged"}
=============================================================================

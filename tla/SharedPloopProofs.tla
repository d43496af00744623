-------------------------- MODULE SharedPloopProofs --------------------------
(***************************************************************************)
(* Theorems about SharedPloop, for any number of disks: which of them are  *)
(* as they were after a failed migration, which are merged after one that  *)
(* succeeded, and that the target merges nothing the source could restore. *)
(***************************************************************************)
EXTENDS SharedPloop, TLAPS

(* While a loop runs, the disks behind its turn are done, those ahead are as
   the loop before left them, and the one at turn is in between. *)
LoopAt(before, during, ahead) ==
    \A d \in 1..n :
        /\ d < at => disk[d] = before
        /\ d = at => disk[d] \in during
        /\ d > at => disk[d] = ahead

All(s) == \A d \in 1..n : disk[d] = s

(* A restore may meet disks that were not prepared: the one whose preparation
   failed, and plain ones behind it. *)
RestoreAt ==
    /\ \A d \in 1..n : d < at => disk[d] = "plain"
    /\ \A d \in 1..n : disk[d] \in {"plain", "copied", "snapped", "prepared", "renamed"}
    /\ \A d \in 1..n : d > at => disk[d] # "renamed"
    /\ \A d \in 1..n : disk[d] \in {"copied", "snapped"} => <<"prepare", d>> \in broken
    /\ \A d, e \in 1..n : at <= d /\ d < e /\ disk[d] \in {"plain", "copied", "snapped"}
          => disk[e] = "plain"

(* What each point of the migration says of the disks. *)
DisksAtPoint ==
    /\ pc = "copy_stop" => All("plain")
    /\ pc = "prepare" => LoopAt("prepared", {"plain", "copied", "snapped"}, "plain")
    /\ pc = "ship" => All("prepared")
    /\ pc = "restore" => RestoreAt
    /\ pc = "ack" => All("prepared")
    /\ pc = "cleanup" => LoopAt("dropped", {"prepared", "uncopied"}, "prepared")
    /\ pc = "umount" => All("dropped")
    /\ pc = "merge" => LoopAt("merged", {"dropped"}, "dropped")
    /\ pc \in {"copy_stop", "ship", "ack", "umount"} => at = 1

Inv ==
    /\ TypeOK
    /\ DisksAtPoint
    /\ RestoredUnlessBroken
    /\ MergedUnlessBroken
    /\ MergedLast

-----------------------------------------------------------------------------
(* The entries of the tables, for the provers. *)

(* The loops, and at which states of a disk they have something to do. *)
LEMMA LoopPoints ==
    /\ DOMAIN Loops = {"prepare", "restore", "cleanup", "merge"}
    /\ DOMAIN Loops["prepare"] = {"plain", "copied", "snapped"}
    /\ DOMAIN Loops["restore"] = {"prepared", "renamed"}
    /\ DOMAIN Loops["cleanup"] = {"prepared", "uncopied"}
    /\ DOMAIN Loops["merge"] = {"dropped"}
  BY DEF Loops

(* What each command of a loop makes of a disk. *)
LEMMA LoopSteps ==
    /\ Loops["prepare"]["plain"] = "copied"
    /\ Loops["prepare"]["copied"] = "snapped"
    /\ Loops["prepare"]["snapped"] = "prepared"
    /\ Loops["restore"]["prepared"] = "renamed"
    /\ Loops["restore"]["renamed"] = "plain"
    /\ Loops["cleanup"]["prepared"] = "uncopied"
    /\ Loops["cleanup"]["uncopied"] = "dropped"
    /\ Loops["merge"]["dropped"] = "merged"
  BY DEF Loops

(* What follows each loop and each step between them. *)
LEMMA AfterPoints ==
    /\ DOMAIN After = {"prepare", "restore", "cleanup", "merge", "copy_stop",
                       "ship", "ack", "umount"}
    /\ After["prepare"] = "ship" /\ After["restore"] = "failed"
    /\ After["cleanup"] = "umount" /\ After["merge"] = "succeeded"
    /\ After["copy_stop"] = "prepare" /\ After["ship"] = "ack"
    /\ After["ack"] = "cleanup" /\ After["umount"] = "merge"
  BY DEF After

-----------------------------------------------------------------------------
(* A migration begins with plain disks. *)
LEMMA InvInit == Init => Inv
<1> SUFFICES ASSUME Init PROVE Inv
  OBVIOUS
<1> USE DisksAssumption
<1>1. TypeOK
  BY AfterPoints DEF Init, TypeOK, First, Points, Ended, States
<1>2. DisksAtPoint
  BY DEF Init, DisksAtPoint, All, First
<1>3. RestoredUnlessBroken /\ MergedUnlessBroken /\ MergedLast
  BY DEF Init, RestoredUnlessBroken, MergedUnlessBroken, MergedLast
<1> QED
  BY <1>1, <1>2, <1>3 DEF Inv

(* A command takes the disk at turn one step on. *)
LEMMA CommandInv == Inv /\ Command => Inv'
<1> SUFFICES ASSUME Inv, Command PROVE Inv'
  OBVIOUS
<1> USE DisksAssumption, LoopPoints, LoopSteps
<1> DEFINE next == Loops[pc][disk[at]]
<1>1. /\ at \in 1..n /\ n \in Nat /\ pc' = pc /\ n' = n /\ broken' = broken
      /\ pc \in {"prepare", "restore", "cleanup", "merge"}
      /\ disk[at] \in DOMAIN Loops[pc]
      /\ disk' = [disk EXCEPT ![at] = next]
      /\ at' = IF next \in DOMAIN Loops[pc] THEN at ELSE at + 1
      /\ disk \in [1..n -> States]
  BY DEF Inv, TypeOK, Command, Looping
<1>2. next \in States
  BY <1>1 DEF States
<1>3. TypeOK'
  BY <1>1, <1>2 DEF Inv, TypeOK
<1>4. disk'[at] = next /\ \A d \in 1..n : d # at => disk'[d] = disk[d]
  BY <1>1
<1>5. DisksAtPoint'
  <2>1. CASE pc = "prepare"
    BY <1>1, <1>4, <2>1 DEF Inv, DisksAtPoint, LoopAt
  <2>2. CASE pc = "restore"
    BY <1>1, <1>4, <2>2 DEF Inv, DisksAtPoint, RestoreAt
  <2>3. CASE pc = "cleanup"
    BY <1>1, <1>4, <2>3 DEF Inv, DisksAtPoint, LoopAt
  <2>4. CASE pc = "merge"
    BY <1>1, <1>4, <2>4 DEF Inv, DisksAtPoint, LoopAt
  <2> QED
    BY <1>1, <2>1, <2>2, <2>3, <2>4
<1>6. RestoredUnlessBroken' /\ MergedUnlessBroken'
  BY <1>1 DEF RestoredUnlessBroken, MergedUnlessBroken
<1>7. MergedLast'
  <2>1. CASE pc = "merge"
    BY <1>1, <1>5, <2>1 DEF DisksAtPoint, LoopAt, MergedLast
  <2>2. CASE pc # "merge"
    <3>1. \A d \in 1..n : disk'[d] # "merged"
      <4> SUFFICES ASSUME NEW d \in 1..n PROVE disk'[d] # "merged"
        OBVIOUS
      <4>1. CASE d = at
        BY <1>1, <1>4, <2>2, <4>1
      <4>2. CASE d # at
        <5>1. CASE pc = "restore"
          BY <1>1, <1>4, <4>2, <5>1 DEF Inv, DisksAtPoint, RestoreAt
        <5>2. CASE pc \in {"prepare", "cleanup"}
          BY <1>1, <1>4, <4>2, <5>2 DEF Inv, DisksAtPoint, LoopAt
        <5> QED
          BY <1>1, <2>2, <5>1, <5>2
      <4> QED
        BY <4>1, <4>2
    <3> QED
      BY <3>1, <1>1 DEF MergedLast
  <2> QED
    BY <2>1, <2>2
<1> QED
  BY <1>3, <1>5, <1>6, <1>7 DEF Inv

(* A loop that is over leaves every disk in the state the next one expects. *)
LEMMA ProceedInv == Inv /\ Proceed => Inv'
<1> SUFFICES ASSUME Inv, Proceed PROVE Inv'
  OBVIOUS
<1> USE DisksAssumption, LoopPoints, AfterPoints
<1>1. /\ n \in Nat /\ n' = n /\ disk' = disk /\ broken' = broken /\ at' = 1
      /\ pc' = After[pc] /\ at \in 1..(n + 1)
      /\ pc \in DOMAIN After
      /\ pc \in DOMAIN Loops => at = n + 1
      /\ disk \in [1..n -> States]
  BY DEF Inv, TypeOK, Proceed, Points, Ended, First, Looping
<1>2. TypeOK'
  <2>1. pc' \in Points
    BY <1>1 DEF Points, Ended
  <2> QED
    BY <1>1, <2>1 DEF Inv, TypeOK, Points
<1>3. DisksAtPoint'
  BY <1>1 DEF Inv, DisksAtPoint, All, LoopAt
<1>4. RestoredUnlessBroken'
  <2>1. pc' = "failed" => pc = "restore"
    BY <1>1
  <2>2. pc = "restore" => \A d \in 1..n : disk[d] = "plain"
    <3>1. pc = "restore" => RestoreAt /\ at = n + 1
      BY <1>1 DEF Inv, DisksAtPoint
    <3> QED
      BY <3>1, <1>1 DEF RestoreAt
  <2> QED
    BY <1>1, <2>1, <2>2 DEF RestoredUnlessBroken
<1>5. MergedUnlessBroken'
  <2>1. pc' = "succeeded" => pc = "merge"
    BY <1>1
  <2>2. pc = "merge" => \A d \in 1..n : disk[d] = "merged"
    BY <1>1 DEF Inv, DisksAtPoint, LoopAt
  <2> QED
    BY <1>1, <2>1, <2>2 DEF MergedUnlessBroken
<1>6. MergedLast'
  BY <1>1 DEF Inv, MergedLast
<1> QED
  BY <1>2, <1>3, <1>4, <1>5, <1>6 DEF Inv

(* An error is remembered with the disk at whose turn it happened. *)
LEMMA RaisesInv == Inv /\ Raises => Inv'
<1> SUFFICES ASSUME Inv, Raises PROVE Inv'
  OBVIOUS
<1> USE DisksAssumption, LoopPoints, AfterPoints
<1>1. /\ n \in Nat /\ n' = n /\ disk' = disk /\ at' = 1
      /\ broken' = broken \cup {<<pc, at>>}
      /\ pc' = Handler(pc) /\ at \in 1..(n + 1)
      /\ pc \in DOMAIN After
      /\ pc \in DOMAIN Loops => at \in 1..n /\ disk[at] \in DOMAIN Loops[pc]
      /\ disk \in [1..n -> States]
  BY DEF Inv, TypeOK, Raises, Points, Ended, First, Looping
<1>2. pc' \in {"restore", "failed", "succeeded"}
  BY <1>1 DEF Handler
<1>3. TypeOK'
  BY <1>1, <1>2 DEF Inv, TypeOK, Points, Ended
<1>4. DisksAtPoint'
  <2>1. CASE pc = "prepare"
    BY <1>1, <2>1 DEF Inv, DisksAtPoint, LoopAt, RestoreAt, Handler
  <2>2. CASE pc \in {"copy_stop", "ship"}
    BY <1>1, <2>2 DEF Inv, DisksAtPoint, All, RestoreAt, Handler
  <2>3. CASE pc \notin {"prepare", "copy_stop", "ship"}
    BY <1>1, <2>3 DEF DisksAtPoint, Handler
  <2> QED
    BY <2>1, <2>2, <2>3
<1>5. RestoredUnlessBroken'
  <2> SUFFICES ASSUME pc' = "failed", NEW d \in 1..n
               PROVE  disk[d] = "plain" \/ \E e \in 1..d : <<"restore", e>> \in broken'
    BY <1>1 DEF RestoredUnlessBroken
  <2>1. pc = "restore"
    BY <1>1 DEF Handler
  <2>2. CASE d < at
    BY <1>1, <2>1, <2>2 DEF Inv, DisksAtPoint, RestoreAt
  <2>3. CASE d >= at
    BY <1>1, <2>1, <2>3
  <2> QED
    BY <1>1, <2>2, <2>3
<1>6. MergedUnlessBroken'
  BY <1>1 DEF Inv, DisksAtPoint, LoopAt, MergedUnlessBroken, Handler
<1>7. MergedLast'
  BY <1>1 DEF Inv, MergedLast
<1> QED
  BY <1>3, <1>4, <1>5, <1>6, <1>7 DEF Inv

(* restore() stops at the disk that was not prepared: behind it there are only
   plain ones. *)
LEMMA RestoreUnpreparedInv == Inv /\ RestoreUnprepared => Inv'
<1> SUFFICES ASSUME Inv, RestoreUnprepared PROVE Inv'
  OBVIOUS
<1> USE DisksAssumption, LoopPoints, AfterPoints
<1>1. /\ n \in Nat /\ n' = n /\ disk' = disk /\ broken' = broken /\ at' = 1
      /\ pc = "restore" /\ pc' = "failed" /\ at \in 1..n
      /\ disk[at] \notin {"prepared", "renamed"}
  BY DEF Inv, TypeOK, RestoreUnprepared, First, Looping, Handler
<1>2. TypeOK' /\ DisksAtPoint'
  BY <1>1 DEF Inv, TypeOK, DisksAtPoint, Points, Ended
<1>3. RestoredUnlessBroken'
  <2> SUFFICES ASSUME NEW d \in 1..n
               PROVE  disk[d] = "plain" \/ <<"prepare", d>> \in broken
    BY <1>1 DEF RestoredUnlessBroken
  <2>1. RestoreAt
    BY <1>1 DEF Inv, DisksAtPoint
  <2>2. disk[at] \in {"plain", "copied", "snapped"}
    BY <1>1, <2>1 DEF RestoreAt
  <2>3. CASE d < at
    BY <1>1, <2>1, <2>3 DEF RestoreAt
  <2>4. CASE d = at
    BY <1>1, <2>1, <2>2, <2>4 DEF RestoreAt
  <2>5. CASE d > at
    <3>1. disk[d] = "plain"
      BY <1>1, <2>1, <2>2, <2>5 DEF RestoreAt
    <3> QED
      BY <3>1
  <2> QED
    BY <1>1, <2>3, <2>4, <2>5
<1>4. MergedUnlessBroken' /\ MergedLast'
  BY <1>1 DEF Inv, MergedUnlessBroken, MergedLast
<1> QED
  BY <1>2, <1>3, <1>4 DEF Inv

(* A kill leaves the disks as they are. *)
LEMMA CrashInv == Inv /\ Crash => Inv'
<1> SUFFICES ASSUME Inv, Crash PROVE Inv'
  OBVIOUS
<1>1. pc' = "crashed" /\ UNCHANGED <<n, disk, at, broken>>
  BY DEF Crash
<1> QED
  BY <1>1 DEF Inv, TypeOK, Points, Ended, DisksAtPoint, RestoredUnlessBroken,
     MergedUnlessBroken, MergedLast

(* What does not change keeps the invariant. *)
LEMMA StutterInv == Inv /\ UNCHANGED vars => Inv'
<1> SUFFICES ASSUME Inv, UNCHANGED vars PROVE Inv'
  OBVIOUS
<1>1. n' = n /\ pc' = pc /\ disk' = disk /\ at' = at /\ broken' = broken
  BY DEF vars
<1>2. TypeOK'
  BY <1>1 DEF Inv, TypeOK
<1>3. DisksAtPoint'
  BY <1>1 DEF Inv, DisksAtPoint, All, LoopAt, RestoreAt
<1>4. RestoredUnlessBroken' /\ MergedUnlessBroken' /\ MergedLast'
  BY <1>1 DEF Inv, RestoredUnlessBroken, MergedUnlessBroken, MergedLast
<1> QED
  BY <1>2, <1>3, <1>4 DEF Inv

(* The inductive invariant: what each point says of the disks. *)
THEOREM PloopInvariant == Spec => []Inv
<1>1. Inv /\ [Next]_vars => Inv'
  BY CommandInv, ProceedInv, RaisesInv, RestoreUnpreparedInv, CrashInv, StutterInv
     DEF Next
<1> QED
  BY InvInit, <1>1, PTL DEF Spec

(* Type correctness (fs_haul_ploop.py:114-130). *)
THEOREM PloopTypeCorrect == Spec => []TypeOK
<1>1. Inv => TypeOK
  BY DEF Inv
<1> QED
  BY PloopInvariant, <1>1, PTL

(* After a failed migration, for any number of shared disks, those are plain
   again that could be prepared and stand before the first that could not be
   restored (fs_haul_ploop.py:47-56, 119-126). *)
THEOREM PloopRestored == Spec => []RestoredUnlessBroken
<1>1. Inv => RestoredUnlessBroken
  BY DEF Inv
<1> QED
  BY PloopInvariant, <1>1, PTL

(* After a successful one every snapshot is merged, unless a final step broke
   off (p_haul_vz.py:338-350). *)
THEOREM PloopMerged == Spec => []MergedUnlessBroken
<1>1. Inv => MergedUnlessBroken
  BY DEF Inv
<1> QED
  BY PloopInvariant, <1>1, PTL

(* Nothing is merged while the source could go back to any of the disks
   (p_haul_vz.py:338-341). *)
THEOREM PloopMergedLast == Spec => []MergedLast
<1>1. Inv => MergedLast
  BY DEF Inv
<1> QED
  BY PloopInvariant, <1>1, PTL
=============================================================================

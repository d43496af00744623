------------------------------ MODULE Handover ------------------------------
(***************************************************************************)
(* What a migration promises, whatever its mode: a process tree runs on    *)
(* one host, is frozen (or stopped), and from there either runs on the     *)
(* source again or is taken over by the target and disappears from the     *)
(* source.  It never runs twice, and a copy is destroyed only when the     *)
(* other one runs.                                                         *)
(***************************************************************************)
VARIABLES
    src,    \* the tree on the source host: "running", "frozen" or "gone"
    dst     \* the tree on the target host: "absent" or "running"

vars == <<src, dst>>

Init == src = "running" /\ dst = "absent"

Freeze == src = "running" /\ dst = "absent" /\ src' = "frozen" /\ UNCHANGED dst

Thaw == src = "frozen" /\ dst = "absent" /\ src' = "running" /\ UNCHANGED dst

Activate == src = "frozen" /\ dst = "absent" /\ dst' = "running" /\ UNCHANGED src

Retire == src = "frozen" /\ dst = "running" /\ src' = "gone" /\ UNCHANGED dst

Next == Freeze \/ Thaw \/ Activate \/ Retire

Spec == Init /\ [][Next]_vars

(* A frozen tree does not stay so: somebody decides where it runs.  Freezing
   it is up to the migration and may never happen. *)
Decided == WF_vars(Thaw \/ Activate \/ Retire)

FairSpec == Spec /\ Decided

(* The tree never runs on both hosts. *)
OneHome == ~(src = "running" /\ dst = "running")

(* The tree exists somewhere. *)
NeverLost == src = "gone" => dst = "running"
=============================================================================

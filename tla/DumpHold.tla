------------------------------ MODULE DumpHold ------------------------------
(***************************************************************************)
(* What the rest of a live migration sees of the final dump of a tree and  *)
(* of its network: CRIU keeps the tree frozen from "post-dump" on, then it *)
(* kills it when the dump is acknowledged, or lets it run again.  The      *)
(* network of a tree that resumes because the dump failed is what it was;  *)
(* whoever freezes the tree and then leaves gets no such promise.          *)
(***************************************************************************)
VARIABLES
    src,    \* the tree: "running", "frozen" or "gone"
    net,    \* its network devices: "up" or "locked"
    phase   \* of p.haul: "before", "held" or "over"

vars == <<src, net, phase>>

Init == src = "running" /\ net = "up" /\ phase = "before"

Holds ==
    /\ phase = "before" /\ phase' = "held"
    /\ src' = "frozen" /\ net' \in {"up", "locked"}

Fails ==
    /\ phase = "before" /\ phase' = "over"
    /\ UNCHANGED <<src, net>>

BreaksOff ==
    /\ phase = "before" /\ phase' = "over"
    /\ src' = "frozen" /\ net' \in {"up", "locked"}

Kills ==
    /\ phase = "held" /\ phase' = "over"
    /\ src' = "gone" /\ UNCHANGED net

Lets(next) ==
    /\ phase = "held" /\ phase' = "over"
    /\ src' = next /\ UNCHANGED net

Thaws ==
    /\ phase = "over" /\ src = "frozen"
    /\ src' = "running" /\ UNCHANGED <<net, phase>>

Next == Holds \/ Fails \/ BreaksOff \/ Kills \/ Lets("frozen") \/ Lets("running") \/ Thaws

Spec == Init /\ [][Next]_vars

(* A tree that nobody holds any more does not stay frozen. *)
Released == WF_vars(Thaws)
=============================================================================

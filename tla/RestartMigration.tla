-------------------------- MODULE RestartMigration --------------------------
(***************************************************************************)
(* One migration in restart mode: the disks of a container are copied in   *)
(* rounds while it runs, it is stopped on the source, the rest is copied,  *)
(* and it is started on the target (__start_restart_migration of iters.py, *)
(* the vz driver, and the handlers of service.py they call).  The program  *)
(* point and the calls are modelled as in LiveMigration.                   *)
(***************************************************************************)
EXTENDS RpcLink, IterPolicy, FiniteSets

CONSTANTS
    Jobs,      \* the migrations to consider
    Transfers  \* bytes one round may transfer

(* What may go wrong besides calls and commands that fail.  "crash", "reset",
   "service": as in LiveMigration; "stop", "umount", "start": vzctl does not do
   it; "halfstart": vzctl reports a failure although the container runs. *)
AllFaults == {"crash", "reset", "service", "stop", "umount", "start", "halfstart"}

(* Only vz's fs hauler counts what it transfers.  The faults a migration may
   meet are part of it, so that a property can say which it excludes. *)
AllJobs == [driver : {"vz", "other"}, nostart : BOOLEAN, faults : SUBSET AllFaults]

ASSUME RestartAssumption ==
    /\ Jobs \subseteq AllJobs
    /\ Transfers \subseteq Nat

VARIABLES
    job,       \* the driver, --nostart and the faults; constant
    pc,        \* where the source program stands
    index,     \* iter_index
    prev,      \* prev_fsstats.bytes_xferred
    src,       \* the container on the source: "running", "mounted", "stopped"
    dst,       \* the container on the target: "stopped", "running"
    htype,     \* the service has a driver
    restored   \* phaul_service.restored

srcVars == <<job, pc, index, prev>>
dstVars == <<htype, restored>>
vars == <<rpcVars, srcVars, src, dst, dstVars>>

-----------------------------------------------------------------------------
(* The program of the source *)

Site(fn, next) == [fn |-> fn, next |-> next]

Sites ==
   [init_rpc    |-> Site("init_rpc", "setup"),
    setup       |-> Site("setup", "set_options"),
    set_options |-> Site("set_options", "fs_start"),
    start       |-> Site("start_htype", "cleanup"),
    complete    |-> Site("migration_complete", "done")]

TryBlock == {"fs_stop", "umount", "start"}
AfterStart == {"cleanup", "complete"}
Ended == {"succeeded", "failed", "crashed"}

Points == DOMAIN Sites \cup TryBlock \cup AfterStart \cup Ended \cup
          {"fs_start", "round", "stop", "migration_fail", "start_back", "raise", "done"}

TypeOK ==
    /\ RpcTypeOK
    /\ job \in AllJobs
    /\ pc \in Points
    /\ index \in Nat
    /\ prev \in Nat \cup {NoStats}
    /\ src \in {"running", "mounted", "stopped"}
    /\ dst \in {"stopped", "running"}
    /\ htype \in BOOLEAN
    /\ restored \in BOOLEAN

Init ==
    /\ RpcInit
    /\ job \in Jobs
    /\ pc = "init_rpc"
    /\ index = 0
    /\ prev = NoStats
    /\ src = "running"
    /\ dst = "stopped"
    /\ htype = FALSE
    /\ restored = FALSE

Goto(p) == pc' = p /\ UNCHANGED <<job, index, prev>>

HandlerBug(p) ==
    IF p \in {"fs_stop", "umount"} THEN "migration_fail"
    ELSE IF p \in AfterStart THEN "done"
    ELSE "raise"

(* An exception goes to the handler that encloses the program point. *)
Handler(p) ==
    IF p \in TryBlock THEN "migration_fail"
    ELSE IF p \in AfterStart THEN "done"
    ELSE "raise"

CallSite ==
    /\ pc \in DOMAIN Sites
    /\ Send(Sites[pc].fn, FALSE)
    /\ UNCHANGED <<srcVars, src, dst, dstVars>>

CallReturns ==
    /\ pc \in DOMAIN Sites
    /\ Returns
    /\ Goto(Sites[pc].next)
    /\ UNCHANGED <<src, dst, dstVars>>

CallRaises ==
    /\ pc \in DOMAIN Sites
    /\ Raises
    /\ Goto(Handler(pc))
    /\ UNCHANGED <<src, dst, dstVars>>

(* The local driver, the disks or the first copy of them fail. *)
LocalRaises ==
    /\ pc \in {"setup", "set_options", "fs_start", "round", "fs_stop"}
    /\ rpc.kind = "idle"
    /\ Goto(Handler(pc))
    /\ UNCHANGED <<rpcVars, src, dst, dstVars>>

FsStart ==
    /\ pc = "fs_start"
    /\ Goto("round")
    /\ UNCHANGED <<rpcVars, src, dst, dstVars>>

NextIndexBug == index - 1

NextIndex == index + 1

(* One round and the decision after it.  The stats of the other drivers are
   None, which the check cannot read. *)
Round ==
    /\ pc = "round"
    /\ job.driver = "vz"
    /\ \E bytes \in Transfers :
          IF CheckRestartIterProgress(index, bytes, prev)
          THEN index' = NextIndex /\ prev' = bytes /\ UNCHANGED pc
          ELSE pc' = "stop" /\ UNCHANGED <<index, prev>>
    /\ UNCHANGED <<rpcVars, job, src, dst, dstVars>>

StopsBug == UNCHANGED src

Stops == src' = "mounted"

(* "vzctl stop --skip-umount"; its return code is not looked at. *)
Stop ==
    /\ pc = "stop"
    /\ Stops \/ ("stop" \in job.faults /\ UNCHANGED src)
    /\ Goto("fs_stop")
    /\ UNCHANGED <<rpcVars, dst, dstVars>>

FsStop ==
    /\ pc = "fs_stop"
    /\ Goto("umount")
    /\ UNCHANGED <<rpcVars, src, dst, dstVars>>

AfterUmount == IF job.nostart THEN "cleanup" ELSE "start"

UnmountsBug == UNCHANGED src

Unmounts == src' = IF src = "mounted" THEN "stopped" ELSE src

(* "vzctl umount"; its return code is not looked at either. *)
Umount ==
    /\ pc = "umount"
    /\ Unmounts \/ ("umount" \in job.faults /\ UNCHANGED src)
    /\ Goto(AfterUmount)
    /\ UNCHANGED <<rpcVars, dst, dstVars>>

(* vz has no shared disks to restore in restart mode. *)
MigrationFail ==
    /\ pc = "migration_fail"
    /\ Goto("start_back")
    /\ UNCHANGED <<rpcVars, src, dst, dstVars>>

(* "vzctl start" on the source, before the exception goes on. *)
StartBack ==
    /\ pc = "start_back"
    /\ \/ src' = "running"
       \/ "start" \in job.faults /\ UNCHANGED src
    /\ Goto("raise")
    /\ UNCHANGED <<rpcVars, dst, dstVars>>

(* migration_complete of vz: the container is unmounted already. *)
Cleanup ==
    /\ pc = "cleanup"
    /\ Goto("complete")
    /\ UNCHANGED <<rpcVars, src, dst, dstVars>>

Exit ==
    /\ pc \in {"done", "raise"}
    /\ CallerCloses
    /\ Goto(IF pc = "done" THEN "succeeded" ELSE "failed")
    /\ UNCHANGED <<src, dst, dstVars>>

Crash ==
    /\ "crash" \in job.faults
    /\ pc \notin Ended
    /\ CallerCloses
    /\ Goto("crashed")
    /\ UNCHANGED <<src, dst, dstVars>>

SourceStep ==
    \/ CallSite \/ CallReturns \/ CallRaises \/ LocalRaises \/ FsStart \/ Round
    \/ Stop \/ FsStop \/ Umount \/ MigrationFail \/ StartBack \/ Cleanup \/ Exit

-----------------------------------------------------------------------------
(* The service *)

InitRpc ==
    /\ ServeInitRpc
    /\ UNCHANGED <<srcVars, src, dst, dstVars>>

(* The driver may be missing the container's config, or the receivers of the
   disks their directories. *)
Setup ==
    /\ Serving("setup")
    /\ \/ htype' = TRUE /\ (Answers \/ Refuses)
       \/ UNCHANGED htype /\ Refuses
    /\ UNCHANGED <<srcVars, src, dst, restored>>

SetOptions ==
    /\ Serving("set_options")
    /\ Answers
    /\ UNCHANGED <<srcVars, src, dst, dstVars>>

StartHtype ==
    /\ Serving("start_htype")
    /\ dst' = "running"
    /\ restored' = TRUE
    /\ Answers
    /\ UNCHANGED <<srcVars, src, htype>>

(* vzctl start fails, as a rule with the container not running. *)
StartHtypeFails ==
    /\ Serving("start_htype")
    /\ \/ UNCHANGED dst
       \/ "halfstart" \in job.faults /\ dst' = "running"
    /\ Refuses
    /\ UNCHANGED <<srcVars, src, dstVars>>

MigrationComplete ==
    /\ Serving("migration_complete")
    /\ Answers \/ Refuses
    /\ UNCHANGED <<srcVars, src, dst, dstVars>>

StopsOnDisconnectBug == htype

StopsOnDisconnect == htype /\ ~restored

(* on_disconnect stops the container unless it was started for good. *)
OnDisconnect ==
    /\ ReadsEOF
    /\ \/ dst' = IF StopsOnDisconnect THEN "stopped" ELSE dst
       \/ "stop" \in job.faults /\ UNCHANGED dst
    /\ svc' = "closed"
    /\ UNCHANGED <<link, rpc, srcVars, src, dstVars>>

RecvFails ==
    /\ ServerRecvFails
    /\ UNCHANGED <<srcVars, src, dst, dstVars>>

ServiceStep ==
    \/ InitRpc \/ Setup \/ SetOptions \/ StartHtype \/ StartHtypeFails
    \/ MigrationComplete \/ OnDisconnect \/ RecvFails

ConnectionLost ==
    /\ "reset" \in job.faults
    /\ LinkResets
    /\ UNCHANGED <<srcVars, src, dst, dstVars>>

ServiceKilled ==
    /\ "service" \in job.faults
    /\ ServiceDies
    /\ UNCHANGED <<srcVars, src, dst, dstVars>>

Next == SourceStep \/ ServiceStep \/ Crash \/ ConnectionLost \/ ServiceKilled

Spec == Init /\ [][Next]_vars

FairSpec == Spec /\ WF_vars(SourceStep) /\ WF_vars(ServiceStep)

-----------------------------------------------------------------------------
(* Properties *)

(* The source does not know whether its call to start_htype was carried out. *)
StartUnanswered == rpc.fn = "start_htype" /\ rpc.kind = "resp"

(* The target was told by vzctl that a running container failed to start. *)
StartMisreported == dst = "running" /\ ~restored

(* The container runs on both hosts only if the reply to start_htype was lost,
   or vzctl misreported a start, and in that case only until on_disconnect has
   stopped it on the target; provided that "vzctl stop" stops
   (iters.py:292-310, service.py:34-38, 128-132). *)
StartedOnceUnlessInDoubt ==
    src = "running" /\ dst = "running" =>
        \/ StartUnanswered
        \/ StartMisreported /\ svc # "closed"
        \/ "stop" \in job.faults

(* "umount before start on target, or we fail on vzstorage" (iters.py:300):
   while the target starts the container, and once it runs there, the source
   does not have it mounted. *)
UmountedBeforeStart ==
    (rpc.kind = "call" /\ rpc.fn = "start_htype") \/ dst = "running" => src # "mounted"

(* So it is if "vzctl umount" unmounts, and whatever else fails. *)
UmountedIfUmountWorks == "umount" \notin job.faults => UmountedBeforeStart

(* A migration that fails gives the container back: it runs on the source,
   if "vzctl start" can start it (iters.py:307-310). *)
FailureGivesBack == pc = "failed" => src = "running" \/ "start" \in job.faults

(* A migration that succeeded left the container running on the target, also
   after the service has seen the source go, unless the user asked not to
   start it: whatever else fails (iters.py:303-318, service.py:34-38). *)
SuccessKeepsRunning == pc = "succeeded" /\ ~job.nostart => dst = "running"

(* A stopped container does not stay stopped: it runs on one of the hosts in
   the end, unless p.haul was killed or told not to start it, or "vzctl start"
   cannot start it again (iters.py:292-310). *)
StoppedIsTemporary ==
    src # "running" ~>
        \/ src = "running" \/ dst = "running"
        \/ pc = "crashed" \/ job.nostart \/ "start" \in job.faults

(* What the source has of the container, in the words of Handover: stopped is
   frozen, until the target's start is known and only a private area remains.
   Nothing is promised of a migration without a start on the target, or with a
   fault that leaves the source in doubt. *)
Promised == ~job.nostart /\ job.faults \subseteq {"umount"}

H == INSTANCE Handover WITH
        src <- IF ~Promised \/ src = "running" THEN "running"
               ELSE IF dst = "running" /\ pc \in AfterStart \cup {"done", "succeeded"}
               THEN "gone" ELSE "frozen",
        dst <- IF Promised /\ dst = "running" THEN "running" ELSE "absent"

(* Restart mode hands the container over as live mode does: stopped before it
   is started elsewhere, and decided in the end. *)
HandoverDecided == H!FairSpec

-----------------------------------------------------------------------------
(* The inductive invariant behind these properties *)

Adrift == {"migration_fail", "start_back", "raise", "done"} \cup Ended

Early == {"init_rpc", "setup", "set_options", "fs_start", "round", "stop"}

AtStart == rpc.kind = "call" /\ rpc.fn = "start_htype"

(* The outstanding call is the one the source waits for. *)
CallMatchesPoint ==
    /\ pc \in DOMAIN Sites /\ rpc.kind # "idle" => rpc.fn = Sites[pc].fn
    /\ pc \notin DOMAIN Sites \cup Adrift => rpc.kind = "idle"

(* The target starts the container once, with a driver, and only for a source
   that has stopped it. *)
StartedInOrder ==
    /\ AtStart => htype /\ ~restored /\ dst = "stopped"
    /\ pc \notin {"init_rpc", "setup"} \cup Adrift => htype
    /\ pc = "setup" /\ rpc.kind = "resp" => htype
    /\ pc \in Early \cup {"fs_stop", "umount"} => dst = "stopped" /\ ~restored
    /\ pc = "start" /\ rpc.kind = "idle" => dst = "stopped"
    /\ dst = "running" => htype

(* The news of a start is in a reply nobody has read, or the source goes on with
   it, and only with it. *)
StartIsKnown ==
    /\ restored => dst = "running"
    /\ restored =>
          StartUnanswered \/ pc \in AfterStart \cup {"done", "succeeded", "crashed"}
    /\ StartUnanswered => restored
    /\ pc \in AfterStart \cup {"done", "succeeded"} /\ ~job.nostart => restored

(* A service that has ended has stopped what it did not start for good. *)
StoppedAtEnd ==
    svc = "closed" /\ ~restored => dst = "stopped" \/ "stop" \in job.faults

(* The source's container, by program point. *)
SourceInStep ==
    /\ pc \in Early => src = "running"
    /\ pc \in {"raise", "failed"} => src = "running" \/ "start" \in job.faults
    /\ "stop" \notin job.faults =>
          /\ pc \in TryBlock \cup AfterStart \cup {"migration_fail", "start_back",
                                                 "done", "succeeded"} => src # "running"
          /\ restored => StartUnanswered \/ src # "running"
    /\ "umount" \notin job.faults /\ src = "mounted" =>
          /\ ~AtStart /\ dst = "stopped"
          /\ pc \in {"fs_stop", "umount", "migration_fail", "start_back", "raise",
                     "failed", "crashed"}

(* Without the faults that leave it in doubt the source knows what the target does. *)
InTouch ==
    Promised =>
        /\ link # "reset" /\ (link = "closed" => pc \in Ended) /\ pc # "crashed"
        /\ pc \notin DOMAIN Sites => rpc.kind = "idle"
        /\ AtStart => pc = "start"
        /\ dst = "running" => restored
        /\ restored => pc \in {"start", "done", "succeeded"} \cup AfterStart

RestartInv ==
    CallMatchesPoint /\ StartedInOrder /\ StartIsKnown /\ StoppedAtEnd /\ SourceInStep
    /\ InTouch
=============================================================================

--------------------------- MODULE LiveMigration ---------------------------
(***************************************************************************)
(* One live migration: p.haul on the source host (iters.py), p.haul-service*)
(* on the target host (service.py), the htype driver on both, the CRIU     *)
(* processes they talk to (criu_cr.py), the images they ship (images.py)   *)
(* and the calls between them (RpcLink).                                   *)
(*                                                                         *)
(* "pc" is where the source program stands.  A pc in Sites is a remote     *)
(* call: the source stays there from sending the call until the reply is   *)
(* read.  A handler of the service is one action: the server thread does   *)
(* nothing else meanwhile, and the source sees its effect with the reply.  *)
(***************************************************************************)
EXTENDS RpcLink, IterPolicy, FiniteSets

CONSTANTS
    Jobs,    \* the migrations to consider: a driver and the options given
    Pages,   \* pages one pre-dump may write
    Faults   \* what may go wrong besides calls and commands that fail

(* "crash": the source program is killed; "reset": the connection is lost;
   "service": p.haul-service is killed or told to stop; "hook": a driver hook
   raises although CRIU did its part; "ack": CRIU cannot finish the dump after
   the target restored; "untar": images cannot be unpacked, and nobody reads
   the rest of the archive; "umount": the target cannot remove the mount point
   of a failed restore. *)
AllFaults == {"crash", "reset", "service", "hook", "ack", "untar", "umount"}

AllJobs ==
    [driver    : {"pid", "lxc", "runc", "vz", "docker"},
     force     : BOOLEAN,     \* --force
     skip_cpu  : BOOLEAN,     \* --skip-cpu-check
     skip_criu : BOOLEAN,     \* --skip-criu-check
     pre_dump  : {"auto", "enable", "disable"},
     keep      : BOOLEAN]     \* --keep-images

ASSUME LiveAssumption ==
    /\ Jobs \subseteq AllJobs
    /\ Pages \subseteq Nat
    /\ Faults \subseteq AllFaults

VARIABLES
    job,       \* what is migrated, and the options; constant
    pc,        \* where the source program stands
    force,     \* phaul_iter_worker.__force
    index,     \* iter_index
    prev,      \* prev_dstats.pages_written
    sdir,      \* current_iter of the source's images
    vetted,    \* checks the target has passed: "cpu", "criu"
    src,       \* the tasks on the source host
    net,       \* the source container's network devices
    dst,       \* the tasks on the target host
    restored,  \* phaul_service.restored
    root,      \* the restore root of the target's driver
    files,     \* what runc's rsync put into the bundle on the target
    ddir,      \* current_iter of the target's images
    dpages,    \* image directories a page server has filled
    tar,       \* the transfer of an archive to the untar thread
    imgs       \* the image directories of both hosts

srcVars == <<job, pc, force, index, prev, sdir, vetted>>
taskVars == <<src, net, dst>>
dstVars == <<restored, root, files, ddir, dpages, tar>>
vars == <<rpcVars, srcVars, taskVars, dstVars, imgs>>

-----------------------------------------------------------------------------
(* The program of the source *)

Site(fn, next) == [fn |-> fn, next |-> next]

(* Every remote call in program order, with the point reached after it. *)
Sites ==
   [init_rpc    |-> Site("init_rpc", "setup"),
    setup       |-> Site("setup", "set_options"),
    set_options |-> Site("set_options", "validate_cpu"),
    cpu_accept  |-> Site("start_accept_images", "cpu_send"),
    cpu_stop    |-> Site("stop_accept_images", "check_cpu"),
    check_cpu   |-> Site("check_cpuinfo", "validate_criu"),
    check_criu  |-> Site("check_criu_version", "prepare"),
    iter_start  |-> Site("start_iter", "predump"),
    iter_end    |-> Site("end_iter", "check_progress"),
    final_start |-> Site("start_iter", "final_dump"),
    final_end   |-> Site("end_iter", "fs_stop"),
    img_accept  |-> Site("start_accept_images", "img_send"),
    img_stop    |-> Site("stop_accept_images", "restore"),
    restore     |-> Site("restore_from_images", "ack"),
    complete    |-> Site("migration_complete", "restore_time"),
    restore_time |-> Site("restore_time", "close")]

Checks == {"check_cpu", "check_criu"}

(* What runs inside the try block after the final dump, and what runs inside
   the one after the restore. *)
TryBlock == {"fs_stop", "img_accept", "img_send", "img_stop", "restore"}
AfterRestore == {"ack", "cleanup", "complete", "restore_time", "close"}

Ended == {"succeeded", "failed", "crashed"}

Points == DOMAIN Sites \cup TryBlock \cup AfterRestore \cup Ended \cup
          {"validate_cpu", "cpu_dump", "cpu_send", "validate_criu", "prepare",
           "predump", "check_progress", "final_dump", "migration_fail",
           "raise", "done"}

SourceTypeOK ==
    /\ job \in AllJobs
    /\ pc \in Points
    /\ force \in BOOLEAN
    /\ index \in Nat
    /\ prev \in Nat \cup {NoStats}
    /\ sdir \in Nat
    /\ vetted \subseteq {"cpu", "criu"}

TasksTypeOK ==
    /\ src \in {"running", "frozen", "stopped", "gone"}
    /\ net \in {"up", "locked"}
    /\ dst \in {"absent", "running"}

TargetTypeOK ==
    /\ restored \in BOOLEAN
    /\ root \in {"unset", "none", "placed", "mounted"}
    /\ files \in {"kept", "removed"}
    /\ ddir \in Nat
    /\ dpages \subseteq Nat
    /\ tar \in [st  : {"none", "reading", "complete", "done", "failed", "full"},
                dir : {"wdir", "imgdir"}]

ImagesTypeOK == imgs \in [{"src", "dst"} -> {"none", "open", "kept", "removed"}]

TypeOK == RpcTypeOK /\ SourceTypeOK /\ TasksTypeOK /\ TargetTypeOK /\ ImagesTypeOK

Init ==
    /\ RpcInit
    /\ job \in Jobs
    /\ pc = "init_rpc"
    /\ force = job.force
    /\ index = 0
    /\ prev = NoStats
    /\ sdir = 0
    /\ vetted = {}
    /\ src = "running"
    /\ net = "up"
    /\ dst = "absent"
    /\ restored = FALSE
    /\ root = "unset"
    /\ files = "kept"
    /\ ddir = 0
    /\ dpages = {}
    /\ tar = [st |-> "none", dir |-> "wdir"]
    /\ imgs = [h \in {"src", "dst"} |-> "none"]

Goto(p) == pc' = p /\ UNCHANGED <<job, force, index, prev, sdir, vetted>>

(* After set_options the driver's page server question is only asked once:
   docker dumps without one. *)
NeedsPageServer == job.driver # "docker"

(* The argument that matters to the service: need_page_server, or whether the
   archive goes to the image directory (IMGDIR) or the work directory. *)
Argument ==
    \/ pc = "iter_start"
    \/ pc = "final_start" /\ NeedsPageServer
    \/ pc = "img_accept"

HandlerBug(p) ==
    IF p \in TryBlock \cup AfterRestore THEN "migration_fail" ELSE "raise"

(* An exception goes to the handler that encloses the program point. *)
Handler(p) ==
    IF p \in TryBlock THEN "migration_fail"
    ELSE IF p \in AfterRestore THEN "done"
    ELSE "raise"

(* set_options creates the work directory of the source's images before the
   call. *)
CallSite ==
    /\ pc \in DOMAIN Sites
    /\ Send(Sites[pc].fn, Argument)
    /\ imgs' = IF pc = "set_options" THEN [imgs EXCEPT !["src"] = "open"] ELSE imgs
    /\ UNCHANGED <<srcVars, taskVars, dstVars>>

CallReturns ==
    /\ pc \in DOMAIN Sites \ Checks
    /\ Returns
    /\ Goto(Sites[pc].next)
    /\ UNCHANGED <<taskVars, dstVars, imgs>>

CallRaises ==
    /\ pc \in DOMAIN Sites
    /\ Raises
    /\ Goto(Handler(pc))
    /\ UNCHANGED <<taskVars, dstVars, imgs>>

(* The checks the target makes: on False the source raises. *)
CheckReturns ==
    /\ pc \in Checks
    /\ Returns
    /\ pc' = IF rpc.val THEN Sites[pc].next ELSE "raise"
    /\ vetted' = IF rpc.val
                 THEN vetted \cup {IF pc = "check_cpu" THEN "cpu" ELSE "criu"}
                 ELSE vetted
    /\ UNCHANGED <<job, force, index, prev, sdir, taskVars, dstVars, imgs>>

(* Local work fails: a command, a request to the local CRIU, a file.  At a
   call site this is the code between the previous point and the call. *)
LocalMayRaise ==
    {"setup", "set_options", "cpu_dump", "cpu_send", "check_criu", "prepare",
     "predump", "check_progress", "fs_stop", "img_send", "cleanup", "close"}

LocalRaises ==
    /\ pc \in LocalMayRaise
    /\ rpc.kind = "idle"
    /\ Goto(Handler(pc))
    /\ UNCHANGED <<rpcVars, taskVars, dstVars, imgs>>

-----------------------------------------------------------------------------
(* Deciding what to check and how to dump *)

ValidateCpu ==
    /\ pc = "validate_cpu"
    /\ Goto(IF job.skip_cpu \/ force THEN "validate_criu" ELSE "cpu_dump")
    /\ UNCHANGED <<rpcVars, taskVars, dstVars, imgs>>

CpuDumped ==
    /\ pc = "cpu_dump"
    /\ Goto("cpu_accept")
    /\ UNCHANGED <<rpcVars, taskVars, dstVars, imgs>>

(* CRIU answers ENOTSUP: the rest of the migration runs as with --force. *)
CpuDumpUnsupported ==
    /\ pc = "cpu_dump"
    /\ force' = TRUE
    /\ pc' = "validate_criu"
    /\ UNCHANGED <<rpcVars, job, index, prev, sdir, vetted, taskVars, dstVars, imgs>>

SkipsCriuBug == job.skip_cpu \/ force

SkipsCriu == job.skip_criu \/ force

ValidateCriu ==
    /\ pc = "validate_criu"
    /\ Goto(IF SkipsCriu THEN "prepare" ELSE "check_criu")
    /\ UNCHANGED <<rpcVars, taskVars, dstVars, imgs>>

(* Auto detection asks CRIU for memory tracking and the driver for
   can_pre_dump; lxc has no such method, and every exception means no. *)
PreDumpChoices ==
    IF job.pre_dump # "auto" THEN {job.pre_dump = "enable"}
    ELSE IF job.driver \in {"pid", "runc", "vz"} THEN BOOLEAN
    ELSE {FALSE}

Prepare ==
    /\ pc = "prepare"
    /\ \E use_pre_dumps \in PreDumpChoices :
          Goto(IF use_pre_dumps THEN "iter_start" ELSE "final_start")
    /\ UNCHANGED <<rpcVars, taskVars, dstVars, imgs>>

-----------------------------------------------------------------------------
(* Copying memory.  A dump writes its pages through the page server that
   start_iter started for the target's current image directory. *)

NewImageDirBug == sdir' = IF pc = "final_dump" /\ index > 0 THEN sdir ELSE sdir + 1

NewImageDirSignBug == sdir' = sdir - 1

NewImageDir == sdir' = sdir + 1

PagesSent == dpages' = dpages \cup {ddir}

(* The docker driver's "pid" is a container ID, which no request accepts. *)
Predump ==
    /\ pc = "predump"
    /\ job.driver # "docker"
    /\ NewImageDir
    /\ PagesSent
    /\ pc' = "iter_end"
    /\ UNCHANGED <<rpcVars, job, force, index, prev, vetted, taskVars, restored,
                   root, files, ddir, tar, imgs>>

CheckProgress ==
    /\ pc = "check_progress"
    /\ \E pages \in Pages :
          IF CheckLiveIterProgress(index, pages, prev)
          THEN pc' = "iter_start" /\ index' = index + 1 /\ prev' = pages
          ELSE pc' = "final_start" /\ UNCHANGED <<index, prev>>
    /\ UNCHANGED <<rpcVars, job, force, sdir, vetted, taskVars, dstVars, imgs>>

FreezeTasksBug == UNCHANGED src

FreezeTasks == src' = "frozen"

(* CRIU stops at "post-dump" with the tasks frozen, after it had the network
   locked; only lxc's net_lock does anything. *)
FinalDumpFreezes ==
    /\ pc = "final_dump"
    /\ job.driver # "docker"
    /\ NewImageDir
    /\ PagesSent
    /\ FreezeTasks
    /\ net' = IF job.driver = "lxc" THEN "locked" ELSE net
    /\ pc' = "final_end"
    /\ UNCHANGED <<rpcVars, job, force, index, prev, vetted, dst, restored, root,
                   files, ddir, tar, imgs>>

(* "docker checkpoint" dumps and kills the container in one command. *)
FinalDumpDocker ==
    /\ pc = "final_dump"
    /\ job.driver = "docker"
    /\ NewImageDir
    /\ src' = "stopped"
    /\ pc' = "final_end"
    /\ UNCHANGED <<rpcVars, job, force, index, prev, vetted, net, dst, dstVars, imgs>>

(* The dump fails and CRIU has resumed the tasks and unlocked the network. *)
FinalDumpFails ==
    /\ pc = "final_dump"
    /\ NewImageDir
    /\ pc' = "raise"
    /\ UNCHANGED <<rpcVars, job, force, index, prev, vetted, taskVars, dstVars, imgs>>

(* A hook of the driver raises while CRIU waits with frozen tasks: runc has no
   net_lock, vz runs action scripts and writes its extra images. *)
FinalDumpHookRaises ==
    /\ "hook" \in Faults
    /\ pc = "final_dump"
    /\ job.driver \in {"runc", "vz"}
    /\ NewImageDir
    /\ FreezeTasks
    /\ pc' = "raise"
    /\ UNCHANGED <<rpcVars, job, force, index, prev, vetted, net, dst, dstVars, imgs>>

-----------------------------------------------------------------------------
(* Shipping the images, and the end *)

FsStop ==
    /\ pc = "fs_stop"
    /\ Goto("img_accept")
    /\ UNCHANGED <<rpcVars, taskVars, dstVars, imgs>>

(* The untar thread has died and the socket is full: sendall waits for a reader
   that does not come.  The server thread is not in the way, it waits for the
   next call, and the service keeps the socket open as long as it lives. *)
SendBlocked == pc = "img_send" /\ tar.st = "full"

(* The archive is written to the memory socket.  What nobody reads is left there
   if it fits. *)
SendImages ==
    /\ pc \in {"cpu_send", "img_send"}
    /\ ~SendBlocked
    /\ tar' = IF tar.st = "reading" THEN [tar EXCEPT !.st = "complete"] ELSE tar
    /\ Goto(IF pc = "cpu_send" THEN "cpu_stop" ELSE "img_stop")
    /\ UNCHANGED <<rpcVars, taskVars, restored, root, files, ddir, dpages, imgs>>

TerminateTasks == src' = "gone"

(* ack_notify lets CRIU kill the frozen tasks; reading the dump statistics
   afterwards may raise. *)
AckKills ==
    /\ pc = "ack"
    /\ job.driver # "docker"
    /\ TerminateTasks
    /\ \E p \in {"cleanup", "done"} : Goto(p)
    /\ UNCHANGED <<rpcVars, net, dst, dstVars, imgs>>

(* CRIU answers that the dump failed, and resumes the tasks: only a warning. *)
AckRefused ==
    /\ "ack" \in Faults
    /\ pc = "ack"
    /\ job.driver # "docker"
    /\ src' = "running"
    /\ \E p \in {"cleanup", "done"} : Goto(p)
    /\ UNCHANGED <<rpcVars, net, dst, dstVars, imgs>>

(* For docker there is no dump request to acknowledge: ack_notify raises. *)
AckDocker ==
    /\ pc = "ack"
    /\ job.driver = "docker"
    /\ Goto("done")
    /\ UNCHANGED <<rpcVars, taskVars, dstVars, imgs>>

(* migration_complete of the driver: vz ends with a remote call. *)
Cleanup ==
    /\ pc = "cleanup"
    /\ Goto(IF job.driver = "vz" THEN "complete" ELSE "restore_time")
    /\ UNCHANGED <<rpcVars, taskVars, dstVars, imgs>>

Close ==
    /\ pc = "close"
    /\ imgs' = [imgs EXCEPT !["src"] = IF job.keep THEN "kept" ELSE "removed"]
    /\ Goto("done")
    /\ UNCHANGED <<rpcVars, taskVars, dstVars>>

(* htype.migration_fail, whatever else it does or raises, and "raise".  runc's
   removes the bundle on the target over ssh, without a word to the service. *)
MigrationFail ==
    /\ pc = "migration_fail"
    /\ Goto("raise")
    /\ files' \in {files} \cup (IF job.driver = "runc" THEN {"removed"} ELSE {})
    /\ UNCHANGED <<rpcVars, taskVars, restored, root, ddir, dpages, tar, imgs>>

Exit ==
    /\ pc \in {"done", "raise"}
    /\ CallerCloses
    /\ Goto(IF pc = "done" THEN "succeeded" ELSE "failed")
    /\ UNCHANGED <<taskVars, dstVars, imgs>>

Crash ==
    /\ "crash" \in Faults
    /\ pc \notin Ended
    /\ CallerCloses
    /\ Goto("crashed")
    /\ UNCHANGED <<taskVars, dstVars, imgs>>

SourceStep ==
    \/ CallSite \/ CallReturns \/ CallRaises \/ CheckReturns \/ LocalRaises
    \/ ValidateCpu \/ CpuDumped \/ CpuDumpUnsupported \/ ValidateCriu \/ Prepare
    \/ Predump \/ CheckProgress
    \/ FinalDumpFreezes \/ FinalDumpDocker \/ FinalDumpFails \/ FinalDumpHookRaises
    \/ FsStop \/ SendImages \/ AckKills \/ AckRefused \/ AckDocker
    \/ Cleanup \/ Close \/ MigrationFail \/ Exit

-----------------------------------------------------------------------------
(* The handlers of the service *)

InitRpc ==
    /\ ServeInitRpc
    /\ UNCHANGED <<srcVars, taskVars, dstVars, imgs>>

(* htype.get_dst may raise before the driver exists, the receivers and CRIU
   after it. *)
Setup ==
    /\ Serving("setup")
    /\ \/ root' = "none" /\ (Answers \/ Refuses)
       \/ UNCHANGED root /\ Refuses
    /\ UNCHANGED <<srcVars, taskVars, restored, files, ddir, dpages, tar, imgs>>

SetOptions ==
    /\ Serving("set_options")
    /\ \/ imgs' = [imgs EXCEPT !["dst"] = "open"] /\ (Answers \/ Refuses)
       \/ UNCHANGED imgs /\ Refuses
    /\ UNCHANGED <<srcVars, taskVars, dstVars>>

(* A new image directory, and the page server that fills it if asked for. *)
StartIter ==
    /\ Serving("start_iter")
    /\ ddir' = ddir + 1
    /\ Answers \/ Refuses
    /\ UNCHANGED <<srcVars, taskVars, restored, root, files, dpages, tar, imgs>>

EndIter ==
    /\ Serving("end_iter")
    /\ Answers
    /\ UNCHANGED <<srcVars, taskVars, dstVars, imgs>>

StartAcceptImages ==
    /\ Serving("start_accept_images")
    /\ tar' = [st |-> "reading", dir |-> IF rpc.val THEN "imgdir" ELSE "wdir"]
    /\ Answers
    /\ UNCHANGED <<srcVars, taskVars, restored, root, files, ddir, dpages, imgs>>

(* join() waits for the thread and says nothing about how it ended. *)
ThreadEndedBug == tar.st = "done"

ThreadEnded == tar.st \in {"done", "failed", "full"}

StopAcceptImages ==
    /\ Serving("stop_accept_images")
    /\ ThreadEnded
    /\ Answers
    /\ UNCHANGED <<srcVars, taskVars, dstVars, imgs>>

(* CRIU compares the CPU info image, if it arrived, with its own CPU. *)
CheckCpuinfo ==
    /\ Serving("check_cpuinfo")
    /\ \/ tar.st = "done" /\ Reply("resp", TRUE)
       \/ Answers
       \/ Refuses
    /\ UNCHANGED <<srcVars, taskVars, dstVars, imgs>>

CheckCriuVersion ==
    /\ Serving("check_criu_version")
    /\ \/ \E compatible \in BOOLEAN : Reply("resp", compatible)
       \/ Refuses
    /\ UNCHANGED <<srcVars, taskVars, dstVars, imgs>>

(* Drivers whose restore mounts the container's root on the target. *)
Mounts == job.driver \in {"lxc", "runc"}

MetaComplete == tar = [st |-> "done", dir |-> "imgdir"]

(* final_restore of runc begins with the container's config in the bundle. *)
BundleUsable == job.driver = "runc" => MetaComplete /\ files = "kept"

(* put_meta_images, the driver's preparation, mount() or CRIU fails; runc
   knows its bundle as soon as it has read the meta image. *)
RestoreFails ==
    /\ Serving("restore_from_images")
    /\ \/ UNCHANGED root
       \/ job.driver = "runc" /\ MetaComplete /\ root' = "placed"
       \/ Mounts /\ BundleUsable /\ root' = "mounted"
    /\ Refuses
    /\ UNCHANGED <<srcVars, taskVars, restored, files, ddir, dpages, tar, imgs>>

(* CRIU has restored the tasks, then restored() of the driver (pid: the pid
   file; runc: the container's state, the umount) or vz's finally clause
   raises: the service takes the restore for failed. *)
RestoreHookRaises ==
    /\ "hook" \in Faults
    /\ Serving("restore_from_images")
    /\ MetaComplete /\ BundleUsable
    /\ job.driver \in {"pid", "runc", "vz"}
    /\ dst' = "running"
    /\ root' = IF Mounts THEN "mounted" ELSE root
    /\ \/ UNCHANGED files
       \/ job.driver = "runc" /\ "umount" \in Faults /\ files' = "removed"
    /\ Refuses
    /\ UNCHANGED <<srcVars, src, net, restored, ddir, dpages, tar, imgs>>

(* runc unmounts its temporary root once the container runs. *)
RestoreFromImages ==
    /\ Serving("restore_from_images")
    /\ MetaComplete /\ BundleUsable
    /\ dst' = "running"
    /\ restored' = TRUE
    /\ root' = CASE job.driver = "lxc" -> "mounted"
                 [] job.driver = "runc" -> "placed"
                 [] OTHER -> root
    /\ Answers
    /\ UNCHANGED <<srcVars, src, net, files, ddir, dpages, tar, imgs>>

RestoreTime ==
    /\ Serving("restore_time")
    /\ Answers \/ Refuses
    /\ UNCHANGED <<srcVars, taskVars, dstVars, imgs>>

MigrationComplete ==
    /\ Serving("migration_complete")
    /\ Answers \/ Refuses
    /\ UNCHANGED <<srcVars, taskVars, dstVars, imgs>>

Handlers ==
    \/ InitRpc \/ Setup \/ SetOptions \/ StartIter \/ EndIter
    \/ StartAcceptImages \/ StopAcceptImages \/ CheckCpuinfo \/ CheckCriuVersion
    \/ RestoreFails \/ RestoreHookRaises \/ RestoreFromImages
    \/ RestoreTime \/ MigrationComplete

-----------------------------------------------------------------------------
(* The end of the connection on the target: on_disconnect *)

(* The umount of runc needs the bundle's path, an attribute it only has after
   put_meta_images; without it on_disconnect raises, and so does a mount point
   that cannot be removed. *)
UmountRuns == root # "unset" /\ ~restored /\ job.driver = "runc"

UmountMayRaise == root = "none" \/ (root = "mounted" /\ "umount" \in Faults)

UmountedBug == root

(* umount() is called unless the tasks were restored; lxc's does nothing. *)
Umounted == IF UmountRuns /\ root = "mounted" THEN "placed" ELSE root

ClosedImagesBug ==
    IF imgs["dst"] # "open" THEN imgs["dst"]
    ELSE IF job.keep THEN "kept" ELSE "removed"

ClosedImages ==
    IF imgs["dst"] # "open" THEN imgs["dst"]
    ELSE IF ~restored \/ job.keep THEN "kept" ELSE "removed"

OnDisconnect ==
    /\ ReadsEOF
    /\ ~(UmountRuns /\ root = "none")
    /\ root' = Umounted
    /\ imgs' = [imgs EXCEPT !["dst"] = ClosedImages]
    /\ svc' = "closed"
    /\ UNCHANGED <<link, rpc, srcVars, taskVars, restored, files, ddir, dpages, tar>>

(* runc's umount() removes the mount point with all that is in it, whether the
   bind mount of the container's root is still there or not. *)
OnDisconnectRaises ==
    /\ ReadsEOF
    /\ UmountRuns
    /\ UmountMayRaise
    /\ files' = IF root = "mounted" THEN "removed" ELSE files
    /\ svc' = "dead"
    /\ UNCHANGED <<link, rpc, srcVars, taskVars, restored, root, ddir, dpages, tar, imgs>>

RecvFails ==
    /\ ServerRecvFails
    /\ UNCHANGED <<srcVars, taskVars, dstVars, imgs>>

ServiceStep == Handlers \/ OnDisconnect \/ OnDisconnectRaises \/ RecvFails

-----------------------------------------------------------------------------
(* The untar thread, the source's CRIU, and the faults *)

UntarDone ==
    /\ tar.st = "complete"
    /\ tar' = [tar EXCEPT !.st = "done"]
    /\ UNCHANGED <<rpcVars, srcVars, taskVars, restored, root, files, ddir, dpages, imgs>>

(* The source is gone before the archive was complete. *)
UntarReadsEOF ==
    /\ tar.st = "reading"
    /\ pc \in Ended
    /\ tar' = [tar EXCEPT !.st = "failed"]
    /\ UNCHANGED <<rpcVars, srcVars, taskVars, restored, root, files, ddir, dpages, imgs>>

(* What is still to come of the images may be more than the socket holds;
   the archive of cpuinfo.img is not (MemChannel's ChannelAssumption). *)
UntarFails ==
    /\ "untar" \in Faults
    /\ \/ tar.st \in {"reading", "complete"} /\ tar' = [tar EXCEPT !.st = "failed"]
       \/ tar.st = "reading" /\ tar.dir = "imgdir" /\ tar' = [tar EXCEPT !.st = "full"]
    /\ UNCHANGED <<rpcVars, srcVars, taskVars, restored, root, files, ddir, dpages, imgs>>

(* p.haul is gone and with it CRIU's control socket: an unacknowledged dump is
   abandoned, the tasks resume.  Nobody unlocks lxc's network devices. *)
CriuThaws ==
    /\ src = "frozen"
    /\ pc \in Ended
    /\ src' = "running"
    /\ UNCHANGED <<rpcVars, srcVars, net, dst, dstVars, imgs>>

ConnectionLost ==
    /\ "reset" \in Faults
    /\ LinkResets
    /\ UNCHANGED <<srcVars, taskVars, dstVars, imgs>>

ServiceKilled ==
    /\ "service" \in Faults
    /\ ServiceDies
    /\ UNCHANGED <<srcVars, taskVars, dstVars, imgs>>

Fault == Crash \/ ConnectionLost \/ ServiceKilled \/ UntarFails

UntarStep == UntarDone \/ UntarReadsEOF

Next == SourceStep \/ ServiceStep \/ UntarStep \/ CriuThaws \/ Fault

Spec == Init /\ [][Next]_vars

(* Every process goes on while it can; no fault is ever due, nor is an error
   that would end a blocked send. *)
FairSpec ==
    /\ Spec
    /\ WF_vars(SourceStep /\ ~SendBlocked)
    /\ WF_vars(ServiceStep)
    /\ WF_vars(UntarStep)
    /\ WF_vars(CriuThaws)

-----------------------------------------------------------------------------
(* Properties *)

(* The source was told nothing it can rely on: its call to restore has no
   answer it read, though the target may have carried it out. *)
RestoreUnanswered == rpc.fn = "restore_from_images" /\ rpc.kind = "resp"

(* The restore was reported as failed although the tasks run. *)
RestoreMisreported == dst = "running" /\ ~restored

(* CRIU could not finish the dump once the target had restored it. *)
DumpRefused == "ack" \in Faults /\ pc \in (AfterRestore \ {"ack"}) \cup {"done", "succeeded"}

InDoubt ==
    \/ pc = "crashed"
    \/ RestoreUnanswered
    \/ RestoreMisreported
    \/ DumpRefused

(* The tasks run on both hosts only if the source could not know better: it
   was killed, the reply to restore_from_images never reached it, or the
   service answered with an exception after the tasks were restored; or if
   CRIU refused the final acknowledgement (iters.py:223-236, service.py:117-122,
   criu_cr.py:80). *)
SplitBrainOnlyInDoubt == src = "running" /\ dst = "running" => InDoubt

(* The tasks exist somewhere: they are killed on the source only when they run
   on the target, and a docker container, stopped by its checkpoint, is still
   in images nobody deleted (iters.py:238-252, service.py:43-47). *)
NeverLost ==
    /\ src = "gone" => dst = "running"
    /\ src = "stopped" /\ dst = "absent" =>
          imgs["src"] # "removed" /\ imgs["dst"] # "removed"

(* When the target is asked to restore, both sides mean the same directory and
   a page server has filled every directory of its chain of parents
   (images.py:116-141, service.py:82-86, criu_req.py:62, 101). *)
ChainComplete ==
    rpc.kind = "call" /\ rpc.fn = "restore_from_images" =>
        /\ ddir = sdir
        /\ job.driver # "docker" => dpages = 1..sdir

(* Nothing is frozen or stopped before the target passed the checks the user
   did not waive, or CRIU waived by ENOTSUP (iters.py:94-124). *)
CheckedBeforeFreeze ==
    src # "running" =>
        /\ "cpu" \in vetted \/ job.skip_cpu \/ force
        /\ "criu" \in vetted \/ job.skip_criu \/ force

(* A failed restore leaves no mount on the target once the service has dealt
   with the end of the connection (service.py:34-36), but for lxc, whose umount
   does nothing (p_haul_lxc.py:146). *)
NothingLeftMounted ==
    svc = "closed" /\ ~restored => root # "mounted" \/ job.driver = "lxc"

(* The container's files on the target are never removed from under the only
   copy that runs: migration_fail's "rm -r" (p_haul_runc.py:180) and a umount
   that fails before rmtree (p_haul_runc.py:143) meet running tasks only where
   the source was not told that they run, and so keeps its own. *)
TargetFilesKept ==
    files = "removed" /\ dst = "running" =>
        src # "gone" /\ (RestoreUnanswered \/ RestoreMisreported)

(* When p.haul has ended, the service gets to its end too: no handler is left
   waiting for it (service.py:94-95, images.py:187-189, xem_rpc.py:28-34). *)
ServiceEnds == pc \in Ended ~> svc \in {"closed", "dead"}

(* Where the source makes no more calls; a call it gave up may still be on its
   way to the service. *)
Adrift == {"migration_fail", "raise", "done"} \cup Ended

H == INSTANCE Handover WITH src <- IF src = "stopped" THEN "frozen" ELSE src

(* The source was killed, or gave up without the answer the target gave, or
   goes on although CRIU refused the final acknowledgement. *)
OutOfTouch ==
    \/ pc = "crashed"
    \/ RestoreUnanswered /\ pc \in Adrift
    \/ RestoreMisreported
    \/ src = "running" /\ DumpRefused

(* A container is frozen or stopped once, runs on the target only after that,
   runs again on the source only if it does not run there, and disappears from
   the source only if it does: every step is one the abstract handover allows,
   but for those that end where source and target are out of touch
   (iters.py:215-255). *)
HandoverImplemented == H!Init /\ [][H!Next \/ OutOfTouch']_<<src, dst>>

(* And a frozen tree does not stay so, whatever fails, but in one case: it ends up
   running on one of the hosts.  The case is a source that blocks in sendall for
   ever, because the untar thread died and the archive is more than the socket
   holds (util.py:28, images.py:50, 158-165).  docker, which stops the container
   for good, does not promise anything. *)
HandoverDecided == job.driver # "docker" => H!Decided \/ <>[]SendBlocked

DumpPhase ==
    IF job.driver = "docker" THEN "before"
    ELSE IF pc \in (TryBlock \cup {"final_end", "ack"}) THEN "held"
    ELSE IF pc \in (AfterRestore \cup Adrift) THEN "over" ELSE "before"

D == INSTANCE DumpHold WITH
        src   <- IF job.driver = "docker" THEN "running" ELSE src,
        phase <- DumpPhase

(* The final dump takes the steps of the abstraction that a CRIU session is shown
   to implement (CriuSession), docker's apart, which needs no session: from the
   freeze to the acknowledgement or the failure (iters.py:215-242). *)
DumpHoldKept == D!Spec

(* --skip-criu-check is what skips the check of the criu versions
   (args_parser.py:90-93), besides --force. *)
CriuCheckedUnlessSkipped ==
    src # "running" => "criu" \in vetted \/ job.skip_criu \/ job.force

(* "Restored on target, can't fail starting from this point" (iters.py:238):
   a migration that ends from there has terminated the tasks on the source. *)
RestoredCantFail == pc = "succeeded" => src # "running"

-----------------------------------------------------------------------------
(* The inductive invariant behind SplitBrainOnlyInDoubt, NeverLost,
   ChainComplete and CheckedBeforeFreeze *)

(* The outstanding call is the one the source waits for. *)
CallMatchesPoint ==
    /\ pc \in DOMAIN Sites /\ rpc.kind # "idle" => rpc.fn = Sites[pc].fn
    /\ pc \notin DOMAIN Sites \cup Adrift => rpc.kind = "idle"

(* Once restored, the reply is unread, or the source has read it. *)
RestoredIsKnown ==
    restored =>
        \/ RestoreUnanswered
        \/ pc \in AfterRestore \cup {"done", "succeeded", "crashed"}

RestoreReplied == RestoreUnanswered => restored

(* From the final dump to its acknowledgement the tasks do not run. *)
SourceHeld ==
    pc \in {"final_end", "ack"} \cup TryBlock =>
        src = IF job.driver = "docker" THEN "stopped" ELSE "frozen"

SourceReleased ==
    pc \in (AfterRestore \ {"ack"}) \cup {"done", "succeeded"} =>
        src \in {"gone", "stopped"} \/ DumpRefused

(* Everything that can only follow a successful restore. *)
RestoreFirst ==
    /\ restored => dst = "running"
    /\ pc \in AfterRestore => dst = "running"
    /\ src = "gone" => dst = "running"
    /\ imgs["src"] = "removed" => dst = "running"
    /\ imgs["dst"] = "removed" => dst = "running"

HandoverInv ==
    /\ CallMatchesPoint /\ RestoredIsKnown /\ RestoreReplied
    /\ SourceHeld /\ SourceReleased /\ RestoreFirst

(* Between start_iter and the dump it announces, the target's current image
   directory is one ahead of the source's. *)
TargetAhead ==
    \/ pc \in {"predump", "final_dump"}
    \/ pc \in {"iter_start", "final_start"} /\ rpc.kind \in {"resp", "exc"}

DirectoriesInStep ==
    pc \notin Adrift =>
        /\ ddir = IF TargetAhead THEN sdir + 1 ELSE sdir
        /\ job.driver # "docker" => dpages = 1..sdir

ChainInv == CallMatchesPoint /\ DirectoriesInStep /\ ChainComplete

Unchecked == {"init_rpc", "setup", "set_options", "validate_cpu", "cpu_dump",
              "cpu_accept", "cpu_send", "cpu_stop", "check_cpu"}

CheckInv ==
    /\ pc \notin Unchecked \cup Adrift => "cpu" \in vetted \/ job.skip_cpu \/ force
    /\ pc \notin Unchecked \cup Adrift \cup {"validate_criu", "check_criu"} =>
          "criu" \in vetted \/ job.skip_criu \/ force
    /\ CheckedBeforeFreeze

-----------------------------------------------------------------------------
(* What NothingLeftMounted, TargetFilesKept, HandoverImplemented and DumpHoldKept
   need besides *)

(* Only lxc and runc mount, and on_disconnect is the last that happens. *)
MountInv == (root = "mounted" => Mounts) /\ NothingLeftMounted

AtRestore == rpc.kind = "call" /\ rpc.fn = "restore_from_images"

(* A restore that is on its way is the first one, the source's tasks do not run
   while it waits for the answer, and before the final dump they do nowhere else. *)
TasksInStep ==
    /\ AtRestore => ~restored /\ dst = "absent"
    /\ pc \notin AfterRestore \cup Adrift =>
          dst = "absent" \/ (pc = "restore" /\ rpc.kind \in {"resp", "exc"})
    /\ pc \notin TryBlock \cup AfterRestore \cup Adrift \cup {"final_end"} =>
          src = "running"

(* The source terminates its tasks, and goes on after the restore, only with the
   answer it read. *)
ReadAnswer ==
    /\ pc \in AfterRestore \cup {"done", "succeeded"} => restored
    /\ src = "gone" =>
          /\ restored /\ ~RestoreUnanswered
          /\ pc \in (AfterRestore \ {"ack"}) \cup {"done", "succeeded", "crashed"}

(* The container's files are removed where the tasks were not restored, or the
   source gave up without knowing. *)
FilesInv ==
    /\ files = "removed" => job.driver = "runc"
    /\ files = "removed" /\ restored => RestoreUnanswered /\ pc \in Adrift

OwnershipInv == TasksInStep /\ ReadAnswer /\ FilesInv
=============================================================================

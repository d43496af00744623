---------------------------- MODULE CriuSession ----------------------------
(***************************************************************************)
(* One session with "criu swrk" over its control socket: the final dump on *)
(* the source or the restore on the target.  CRIU notifies and waits, the  *)
(* loops of criu_cr.py call the driver's hooks and acknowledge, and        *)
(* iters.py ends a dump that stopped at "post-dump" later, or never.       *)
(*                                                                         *)
(* Either side sends only when the other waits, so "wire" is all there is  *)
(* on the socket.  CRIU is external: it fails wherever it can.             *)
(***************************************************************************)
EXTENDS Naturals, Sequences

CONSTANTS
    Drivers,   \* of "pid", "lxc", "runc" and "vz"; docker does without sessions
    Links      \* for each veth of the container whether it belongs to a bridge

ASSUME SessionAssumption ==
    /\ Drivers \subseteq {"pid", "lxc", "runc", "vz"}
    /\ Links \in Seq(BOOLEAN)

VARIABLES
    job,      \* the driver, the side, and whether the tree has its own network
              \* namespace; constant
    phaul,    \* where the loop, or what follows it, stands
    hook,     \* the notification being handled
    at,       \* the veth whose turn it is
    heard,    \* the last answer p.haul has read; history
    wire,
    stage,    \* how far CRIU got
    tasks,
    dev,      \* the host's end of each veth
    ports,    \* how many times it was added to its bridge
    clumsy    \* an "ip" or "brctl" command failed unnoticed; history

sideVars == <<phaul, hook, at, heard>>
criuVars == <<stage, tasks>>
netVars == <<dev, ports, clumsy>>
vars == <<job, sideVars, wire, criuVars, netVars>>

Veths == DOMAIN Links

Source == job.side = "source"

(* vz's container is restored by vzctl, which talks to CRIU itself. *)
Jobs == {j \in [driver : Drivers, side : {"source", "target"}, netns : BOOLEAN] :
            /\ j.driver = "lxc" => j.netns
            /\ j.driver = "vz" => j.side = "source"}

Notes == {"pre-dump", "network-lock", "post-network-lock", "network-unlock",
          "post-dump", "pre-restore", "setup-namespaces", "post-restore"}

Answers == {"success", "failure"}

InLoop == {"idle", "waits", "hook"}

TypeOK ==
    /\ job \in Jobs
    /\ phaul \in InLoop \cup {"held", "acks", "answered", "restored", "returned",
                              "raised", "closing", "stranded", "gone"}
    /\ hook \in Notes \cup {"none"}
    /\ at \in 1..Len(Links) + 1
    /\ heard \in Answers \cup Notes \cup {"none"}
    /\ wire \in Notes \cup Answers \cup {"none", "request", "ack"}
    /\ stage \in {"idle", "begun", "locking", "locked", "dumped", "created",
                  "restored", "unlocking", "over"}
    /\ tasks \in (IF Source THEN {"running", "frozen", "gone"}
                            ELSE {"absent", "created", "running"})
    /\ dev \in [Veths -> {"up", "down"}]
    /\ ports \in [Veths -> 0..1]
    /\ clumsy \in BOOLEAN

Init ==
    /\ job \in Jobs
    /\ phaul = "idle" /\ hook = "none" /\ at = 1 /\ heard = "none"
    /\ wire = "none" /\ stage = "idle"
    /\ tasks = IF Source THEN "running" ELSE "absent"
    /\ dev = [v \in Veths |-> IF Source THEN "up" ELSE "down"]
    /\ ports = [v \in Veths |-> IF Source /\ Links[v] THEN 1 ELSE 0]
    /\ clumsy = FALSE

-----------------------------------------------------------------------------
(* The loop: criu_dump and criu_restore *)

Request ==
    /\ phaul = "idle"
    /\ phaul' = "waits"
    /\ wire' = "request"
    /\ UNCHANGED <<job, hook, at, heard, criuVars, netVars>>

(* On the target mount() comes first, and lxc and runc make a directory. *)
MountRaises ==
    /\ phaul = "idle" /\ ~Source /\ job.driver \in {"lxc", "runc"}
    /\ phaul' = "raised"
    /\ UNCHANGED <<job, hook, at, heard, wire, criuVars, netVars>>

Reads(messages) == wire \in messages /\ wire' = "none"

LeavesLoopBug == FALSE

LeavesLoop == Source /\ wire = "post-dump"

ReadNotify ==
    /\ phaul = "waits" /\ ~LeavesLoop /\ Reads(Notes)
    /\ phaul' = "hook" /\ hook' = wire /\ at' = 1
    /\ UNCHANGED <<job, heard, criuVars, netVars>>

PostDump ==
    /\ phaul = "waits" /\ LeavesLoop /\ Reads(Notes)
    /\ phaul' = "held"
    /\ UNCHANGED <<job, hook, at, heard, criuVars, netVars>>

NetHook == hook \in {"network-lock", "network-unlock"}

(* runc has neither net_lock nor net_unlock. *)
NoSuchMethod == job.driver = "runc" /\ NetHook

(* The file of vz's action script may be missing. *)
HookRaises ==
    /\ phaul = "hook"
    /\ NoSuchMethod \/ (job.driver = "vz" /\ hook = "post-network-lock")
    /\ phaul' = "raised"
    /\ UNCHANGED <<job, hook, at, heard, wire, criuVars, netVars>>

HasVeths == job.driver = "lxc" /\ phaul = "hook" /\ at <= Len(Links)

(* os.system: that a command failed goes unnoticed. *)
NetLock ==
    /\ HasVeths /\ hook = "network-lock"
    /\ at' = at + 1
    /\ \/ dev' = [dev EXCEPT ![at] = "down"] /\ UNCHANGED clumsy
       \/ UNCHANGED dev /\ clumsy' = TRUE
    /\ UNCHANGED <<job, phaul, hook, heard, wire, criuVars, ports>>

AttachesBug == Links[at]

(* _bridged is set on the source, where the devices already belong to it. *)
Attaches == Links[at] /\ ~Source

NetUnlock ==
    /\ HasVeths /\ hook = "network-unlock"
    /\ at' = at + 1
    /\ \E up, added \in BOOLEAN :
          /\ dev' = IF up THEN [dev EXCEPT ![at] = "up"] ELSE dev
          /\ ports' = IF Attaches /\ added THEN [ports EXCEPT ![at] = @ + 1] ELSE ports
          /\ clumsy' = (clumsy \/ ~up \/ ~added)
    /\ UNCHANGED <<job, phaul, hook, heard, wire, criuVars>>

HookDoneBug == ~NoSuchMethod

HookDone == ~NoSuchMethod /\ (NetHook => ~HasVeths)

AckSentBug == IF hook = "post-network-lock" THEN "none" ELSE "ack"

AckSent == "ack"

AckNotify ==
    /\ phaul = "hook" /\ HookDone
    /\ phaul' = "waits"
    /\ wire' = AckSent
    /\ UNCHANGED <<job, hook, at, heard, criuVars, netVars>>

(* A dump's loop raises at any answer. *)
ReadAnswer ==
    /\ phaul = "waits" /\ Reads(Answers)
    /\ heard' = wire
    /\ phaul' = IF Source \/ wire = "failure" THEN "raised" ELSE "restored"
    /\ UNCHANGED <<job, hook, at, criuVars, netVars>>

RestoredMayRaiseBug == job.driver # "vz"

(* restored(): the pid file, or the state directory of runc; lxc does nothing. *)
RestoredMayRaise == job.driver \in {"pid", "runc"}

Restored ==
    /\ phaul = "restored"
    /\ phaul' = "returned" \/ (RestoredMayRaise /\ phaul' = "raised")
    /\ UNCHANGED <<job, hook, at, heard, wire, criuVars, netVars>>

-----------------------------------------------------------------------------
(* What follows the loop: iters.py on the source, on_disconnect on the target *)

FinalAck ==
    /\ phaul = "held"
    /\ phaul' = "acks"
    /\ wire' = "ack"
    /\ UNCHANGED <<job, hook, at, heard, criuVars, netVars>>

(* Nobody tells CRIU that the migration failed. *)
MigrationFails ==
    /\ phaul = "held"
    /\ phaul' = "raised"
    /\ UNCHANGED <<job, hook, at, heard, wire, criuVars, netVars>>

(* Any message is taken for the answer, a notification says "success", too. *)
ReadFinalAnswer ==
    /\ phaul = "acks" /\ Reads(Notes \cup Answers)
    /\ heard' = wire
    /\ phaul' = "answered"
    /\ UNCHANGED <<job, hook, at, criuVars, netVars>>

(* The control socket: close() shuts it, then waits for the process. *)
Closed == phaul \in {"closing", "gone"}

Close ==
    /\ phaul \in (IF Source THEN {"answered"} ELSE {"returned", "raised"})
    /\ phaul' = "closing"
    /\ UNCHANGED <<job, hook, at, heard, wire, criuVars, netVars>>

CloseReturns ==
    /\ phaul = "closing" /\ stage = "over"
    /\ phaul' = "gone"
    /\ UNCHANGED <<job, hook, at, heard, wire, criuVars, netVars>>

(* p.haul ends without close() when something raised, the last "try" block
   included. *)
Exits ==
    /\ Source /\ phaul \in {"raised", "answered"}
    /\ phaul' = "gone"
    /\ UNCHANGED <<job, hook, at, heard, wire, criuVars, netVars>>

(* The rpc connection was reset: the service lives on without on_disconnect. *)
ThreadDies ==
    /\ ~Source /\ phaul \in {"returned", "raised"}
    /\ phaul' = "stranded"
    /\ UNCHANGED <<job, hook, at, heard, wire, criuVars, netVars>>

Killed ==
    /\ phaul # "gone"
    /\ phaul' = "gone"
    /\ UNCHANGED <<job, hook, at, heard, wire, criuVars, netVars>>

LoopStep ==
    \/ Request \/ MountRaises \/ ReadNotify \/ PostDump \/ HookRaises
    \/ NetLock \/ NetUnlock \/ AckNotify \/ ReadAnswer \/ Restored

EndStep ==
    \/ FinalAck \/ MigrationFails \/ ReadFinalAnswer
    \/ Close \/ CloseReturns \/ Exits

-----------------------------------------------------------------------------
(* CRIU.  Each entry: on which side, with or without a network of its own, from
   which stage to which, what it tells p.haul and what the tasks are by then. *)

Entry(side, netns, from, script, to, state) ==
    [side |-> side, netns |-> netns, from |-> from, script |-> script, to |-> to,
     state |-> state]

Both == {TRUE, FALSE}

Script ==
    {Entry("source", Both,    "idle",     "pre-dump",          "begun",     "running"),
     Entry("source", {TRUE},  "begun",    "network-lock",      "locking",   "frozen"),
     Entry("source", {TRUE},  "locking",  "post-network-lock", "locked",    "frozen"),
     Entry("source", {TRUE},  "locked",   "post-dump",         "dumped",    "frozen"),
     Entry("source", {FALSE}, "begun",    "post-dump",         "dumped",    "frozen"),
     Entry("source", {TRUE},  "locking",  "network-unlock",    "unlocking", "frozen"),
     Entry("source", {TRUE},  "locked",   "network-unlock",    "unlocking", "frozen"),
     Entry("source", {TRUE},  "dumped",   "network-unlock",    "unlocking", "frozen"),
     Entry("target", Both,    "idle",     "pre-restore",       "begun",     "absent"),
     Entry("target", Both,    "begun",    "setup-namespaces",  "created",   "created"),
     Entry("target", Both,    "created",  "post-restore",      "restored",  "created"),
     Entry("target", {TRUE},  "restored", "network-unlock",    "unlocking", "created")}

Asked == wire \in {"request", "ack"}

Notifies ==
    /\ Asked /\ ~Closed
    /\ \E e \in Script :
          /\ e.side = job.side /\ job.netns \in e.netns /\ e.from = stage
          /\ wire' = e.script /\ stage' = e.to /\ tasks' = e.state
    /\ UNCHANGED <<job, sideVars, netVars>>

(* Without a network to unlock it can fail, and on the target end, at once. *)
Fails ==
    IF Source THEN stage \in {"idle", "begun", "unlocking"} \/ ~job.netns
              ELSE stage \in {"idle", "begun", "created", "restored"}

Succeeds ==
    IF Source THEN stage = "dumped"
              ELSE stage = (IF job.netns THEN "unlocking" ELSE "restored")

Finishes(answer, state) ==
    /\ wire' = answer /\ stage' = "over" /\ tasks' = state
    /\ UNCHANGED <<job, sideVars, netVars>>

AnswersFailure ==
    /\ Asked /\ stage # "over" /\ Fails
    /\ Finishes("failure", IF Source THEN "running" ELSE "absent")

AnswersSuccess ==
    /\ Asked /\ Succeeds
    /\ Finishes("success", IF Source THEN "gone" ELSE "running")

(* The socket is closed: a dump is undone; a restore that has only to unlock
   the network may go on without an answer. *)
Abandons ==
    /\ Closed /\ stage # "over"
    /\ \/ Finishes("none", IF Source THEN "running" ELSE "absent")
       \/ ~Source /\ stage = "unlocking" /\ Finishes("none", "running")

CriuStep == Notifies \/ AnswersFailure \/ AnswersSuccess \/ Abandons

-----------------------------------------------------------------------------
Next == LoopStep \/ EndStep \/ CriuStep \/ ThreadDies \/ Killed

Spec == Init /\ [][Next]_vars

(* Both programs go on while they can, and a migration that is held by a frozen
   tree comes to its end one way or the other: that is HandoverDecided of
   LiveMigration, whose exception, a source blocked in sendall, is left out here. *)
FairSpec == Spec /\ WF_vars(LoopStep) /\ WF_vars(EndStep) /\ WF_vars(CriuStep)

-----------------------------------------------------------------------------
(* Properties *)

AllUp == \A v \in Veths : dev[v] = "up"

(* A tree that runs on the source has its network, from before the dump until
   after one that failed: devices go down only for a frozen tree and come up
   before it resumes.  The exceptions are the commands that fail unnoticed and a
   p.haul that left the loop on its own: CRIU resumes the tree then and nobody
   ever runs net_unlock (p_haul_lxc.py:164-172, criu_cr.py:28-47).  The types are
   part of it. *)
NetworkKept ==
    /\ TypeOK
    /\ Source /\ tasks = "running" /\ ~clumsy /\ (phaul \in InLoop \/ heard = "failure")
          => AllUp

(* A tree that CRIU has restored in order runs with every device up and added to
   its bridge once; the source, which unlocks its devices when a dump fails, does
   not add them again to the bridge they never left (p_haul_lxc.py:168-172). *)
BridgedOnce ==
    /\ \A v \in Veths : ports[v] <= (IF Links[v] THEN 1 ELSE 0)
    /\ ~Source /\ job.driver = "lxc" /\ ~clumsy /\ "success" \in {wire, heard} =>
          AllUp /\ \A v \in Veths : Links[v] => ports[v] = 1

(* What LiveMigration assumes of a restore: a service that reports a failure of
   tasks that run does so because a hook of the driver raised after CRIU had told
   it of its success, which only pid's and runc's do (criu_cr.py:72-80). *)
MisreportedByHook ==
    ~Source /\ phaul = "raised" /\ tasks = "running" =>
        heard = "success" /\ job.driver \in {"pid", "runc"}

Phase ==
    IF ~Source \/ phaul \in InLoop THEN "before"
    ELSE IF phaul = "held" \/ (stage = "dumped" /\ wire = "ack") THEN "held"
    ELSE "over"

D == INSTANCE DumpHold WITH
        src   <- IF Phase = "before" THEN "running" ELSE tasks,
        net   <- IF Phase = "before" \/ clumsy \/ AllUp THEN "up" ELSE "locked",
        phase <- Phase

(* The loop and the code behind it make of a dump what the rest of a migration
   takes for one step, and no tree is left frozen by a p.haul that raised, ended
   or was killed (criu_cr.py:28-47, iters.py:218-252). *)
DumpImplemented == D!Spec /\ D!Released

Waiting == stage \notin {"idle", "over"} /\ ~Asked

(* Nobody waits for ever: CRIU gets its acknowledgement or sees the socket
   closed, and close() returns, for it closes the socket before it waits.  The
   exception is a service whose server thread died between the hook that raised
   and on_disconnect: CRIU keeps the tree half restored (criu_api.py:50-52,
   criu_cr.py:72, xem_rpc.py:53). *)
SessionEnds ==
    /\ Waiting ~> ~Waiting \/ phaul = "stranded"
    /\ phaul = "closing" ~> phaul = "gone"

-----------------------------------------------------------------------------
(* The inductive invariant behind these properties *)

StageOf(note) ==
    CASE note \in {"pre-dump", "pre-restore"} -> "begun"
      [] note = "network-lock"      -> "locking"
      [] note = "post-network-lock" -> "locked"
      [] note = "post-dump"         -> "dumped"
      [] note = "setup-namespaces"  -> "created"
      [] note = "post-restore"      -> "restored"
      [] note = "network-unlock"    -> "unlocking"
      [] OTHER                      -> "idle"

HookNotes == IF Source THEN {"pre-dump", "network-lock", "post-network-lock", "network-unlock"}
             ELSE {"pre-restore", "setup-namespaces", "post-restore", "network-unlock"}

(* Whose turn it is: what is on the wire, and what p.haul is doing with it, tell
   how far CRIU has got. *)
TurnTaken ==
    /\ phaul = "idle" => stage = "idle"
    /\ phaul \notin {"waits", "acks", "gone"} => wire = "none"
    /\ phaul = "waits" => wire # "none"
    /\ phaul = "hook" => hook \in HookNotes /\ stage = StageOf(hook)
    /\ phaul = "held" => stage = "dumped"
    /\ phaul = "acks" /\ wire = "ack" => stage = "dumped"
    /\ wire = "request" => stage = "idle" /\ phaul \in {"waits", "gone"}
    /\ wire = "ack" =>
          \/ hook \in HookNotes /\ stage = StageOf(hook)
          \/ Source /\ stage = "dumped" /\ phaul \in {"acks", "gone"}
    /\ wire \in Notes => stage = StageOf(wire) /\ (wire = "post-dump" => Source)
    /\ wire \in Notes \ {"post-dump"} => wire \in HookNotes
    /\ wire \in Answers \/ heard \in Answers => stage = "over"
    /\ heard \in Answers => phaul \notin InLoop
    /\ phaul \in {"held", "acks", "answered"} => Source
    /\ Source => phaul \notin {"restored", "returned", "stranded"}

(* The tasks, by CRIU's stage and its answer. *)
TasksInStep ==
    /\ Source =>
          /\ stage \notin {"created", "restored"}
          /\ stage \in {"idle", "begun"} => tasks = "running"
          /\ stage \in {"locking", "locked", "dumped", "unlocking"} => tasks = "frozen"
          /\ stage = "over" => tasks # "frozen"
          /\ wire = "failure" => tasks = "running"
          /\ wire = "success" => tasks = "gone" /\ phaul # "waits"
    /\ ~Source =>
          /\ tasks = "running" => stage = "over"
          /\ wire = "failure" => tasks = "absent"
          /\ phaul = "restored" => heard = "success"
          /\ phaul = "raised" /\ tasks = "running" =>
                heard = "success" /\ job.driver \in {"pid", "runc"}

Unlocked(n) == \A v \in Veths : v < n => dev[v] = "up" /\ (Links[v] => ports[v] = 1)

(* The devices, by how far net_unlock has got, if it has to. *)
DevicesInStep ==
    /\ \A v \in Veths : ports[v] = 1 => Links[v]
    /\ Source => \A v \in Veths : Links[v] => ports[v] = 1
    /\ Source /\ job.driver # "lxc" => AllUp
    /\ ~Source =>
          /\ stage \in {"idle", "begun", "created", "restored"} \/ wire = "network-unlock" =>
                \A v \in Veths : ports[v] = 0
          /\ phaul = "hook" /\ hook = "network-unlock" =>
                \A v \in Veths : v >= at => ports[v] = 0
    /\ job.driver = "lxc" /\ ~clumsy =>
          /\ phaul = "hook" /\ hook = "network-unlock" => Unlocked(at)
          /\ wire = "ack" /\ stage = "unlocking" => Unlocked(Len(Links) + 1)
          /\ ~Source /\ "success" \in {wire, heard} => Unlocked(Len(Links) + 1)
          /\ Source /\ (stage \in {"idle", "begun"} \/ "failure" \in {wire, heard}) => AllUp

SessionInv == TurnTaken /\ TasksInStep /\ DevicesInStep
=============================================================================

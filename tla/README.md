# p.haul in TLA+

p.haul moves a running process tree or container from one host to another. It
copies memory (with CRIU) or disks while the tasks run, freezes or stops them,
ships what is left, starts them on the target and destroys the copy on the
source. Two programs in Python cooperate: `p.haul` on the source drives, and
`p.haul-service` on the target executes what it is asked for over a hand-made
RPC. What has to be right is the hand-over: the tasks must not run twice, must
not be lost, and must not stay frozen, whatever call, command or connection
fails at whatever point.

Paths below are relative to the root of the repository. The
modules keep the names of the code (`restored`, `iter_start`, `sync_imgs...`)
where TLA+ allows it.

## 1. The system

### Parts

| Part | Code | State it keeps | What it does |
| --- | --- | --- | --- |
| Migration driver | `phaul/iters.py` | the point reached, `__force`, `iter_index`, the statistics of the round before | live mode (checks, pre-dumps, final dump, ship, restore, acknowledge) and restart mode (rounds of disk copies, stop, umount, start) with their `try`/`except` blocks |
| Client program | `p.haul` | two sockets | connects, runs the driver, closes |
| Service | `phaul/service.py` | `restored`, the htype, the images, the page server's pid | one `rpc_` handler per operation, `on_disconnect` |
| Service program | `p.haul-service` | the server thread, SIGTERM | starts the thread, waits, stops it |
| RPC | `phaul/xem_rpc.py`, `phaul/xem_rpc_client.py` | one TCP connection, the server's master object | call, reply or exception, end of connection |
| Images | `phaul/images.py` | `current_iter`, image directories, the untar thread | chain of pre-dump directories, archives over the memory socket, removal or keeping |
| CRIU sessions | `phaul/criu_cr.py`, `criu_api.py`, `criu_req.py` | one socket to `criu swrk`, an unacknowledged dump | requests and notifications; hooks of the driver are called while CRIU waits |
| Drivers | `phaul/p_haul_{pid,lxc,runc,docker,vz}.py` | restore root, net devices, container state | hooks before and after dump and restore, mount and umount, stop and start |
| Disk haulers | `phaul/fs_haul_{ploop,subtree,shared}.py` | shared disk snapshots | copy disks once, in rounds, and finally |
| Helpers | `connection.py`, `util.py`, `mstats.py`, `args_parser.py`, `htype.py`, `p.haul-wrap`, `p.haul-ssh` | | options, socket wrapping, statistics, pairing of sockets |
| Web interface | `webgui/` | partner list | starts migrations from a page |

### How they interact

* The source calls, the service executes one call at a time in one thread, and
  the source blocks until it has read the reply. A handler that raises answers
  RPC_EXC, and the call raises on the source.
* A second TCP connection, the memory socket, is used by the page server
  during a dump and by the untar thread of the target between
  `start_accept_images` and `stop_accept_images`.
* CRIU on the source stops a dump at "post-dump" with the tasks frozen. They
  die when `ack_notify` answers, and resume if p.haul goes away without it.
* When the rpc connection ends in order, the service runs `on_disconnect`:
  umount (or stop) unless `restored`, join the receivers, remove or keep
  the images. A reset connection or a signal ends it without that.
* The service's main thread starts the server thread and sleeps until a signal;
  the signal closes one end of a socket pair that the server thread polls.
* `p.haul-wrap service` accepts connections, and gives every two of them, as
  descriptor numbers, to a `p.haul-service` it starts.

### What is hard, and what correct means

* **Who has the tasks.** Between the final dump and its acknowledgement both
  sides decide on partial knowledge: a lost reply, a kill, a driver hook that
  raises after CRIU restored, an acknowledgement CRIU refuses. Correct: at most
  one running copy but for the cases of doubt that no protocol with one
  outstanding call can avoid; never none; no frozen tree for ever.
* **Exception paths.** Which of the two `try` blocks an exception meets decides
  whether the source gives the tasks back or destroys them.
* **Two counters of image directories.** Source and target count on their own;
  a restore is only possible when the whole chain of parents was filled.
* **Waiting.** The service joins a thread that waits for the source, which
  waits for the service.
* **Cleanup after failure.** Only `on_disconnect` undoes what a failed restore
  left on the target.
* **The loop.** Tasks keep writing; the number of rounds must be bounded, the
  grow rate must not divide by zero.
* **Restart mode.** `vzctl` may fail unnoticed; the container must be unmounted
  before it is started elsewhere and be given back on failure.
* **The network of a container** goes down for the final dump and must come up
  on the host where it runs, and be added to its bridges there once.
* **Descriptors.** CRIU inherits what the service has open; a number on a command
  line may mean another socket when it is used.

`PROJECT.json` has the full list of hazards with the line where each bites, the
properties that cover it, and a note where none does yet.

## 2. Modules

| Module | Models | Uses |
| --- | --- | --- |
| `RpcLink` | the connection, the outstanding call, the server thread | |
| `IterPolicy` | `iter_consts` and the two progress checks | |
| `IterLoop` | the loop around the checks, alone | `IterPolicy` |
| `Handover` | what a migration promises (abstract) | |
| `DumpHold` | what a migration sees of the final dump (abstract) | |
| `LiveMigration` | live mode: source, service, drivers, CRIU, images | `RpcLink`, `IterPolicy`; implements `Handover` and `DumpHold` |
| `RestartMigration` | restart mode with the vz driver | `RpcLink`, `IterPolicy`; implements `Handover` |
| `CriuSession` | a final dump or a restore, notification by notification, with the drivers' hooks | implements `DumpHold` |
| `ServiceProgram` | `p.haul-service` as a process: main thread, server thread, CRIU worker, messages in segments | implements `RpcLink` |
| `WrapService` | `p.haul-wrap service`: accept, pairing, descriptors, forks | |
| `MemChannel` | the memory socket: archives, page servers, the untar thread, padding and its discarding, counted in bytes | |
| `SharedPloop` | the shared disks of a vz live migration: prepare, restore, cleanup, merge | |
| `MC*` | instances for TLC | |
| `*Proofs` | theorems about `IterLoop`, `LiveMigration`, `RestartMigration`, `CriuSession`, `ServiceProgram`, `WrapService`, `MemChannel`, `SharedPloop` | the module they are about |

The two abstract modules are where the compositions meet. `LiveMigration` takes
the freeze, the acknowledgement and the failure of a dump as one step each, and a
call as one message; `CriuSession` and `ServiceProgram` show what the
loops behind these steps do, and the refinements say that it is the same.

### Correspondence with the code

**Program points.** `pc` is where the source stands. Every remote call of
`iters.py` is an entry of `Sites`: the `rpc_` method it calls and the point
after it. `CallSite`, `CallReturns` and `CallRaises` serve all of them; a call
whose result is tested (`check_cpuinfo`, `check_criu_version`) returns with
`CheckReturns`. Everything between two calls is an action of its own when it
changes state or branches, otherwise it is part of the call that follows and
can only fail (`LocalRaises`). `Handler` says which `except` clause an exception
at a point reaches: that is the whole of the error control flow of
`__start_live_migration` (`TryBlock` is lines 223-232, `AfterRestore` 238-252)
and `__start_restart_migration`.

**Calls.** The server thread does nothing between reading a call and sending
the reply, so a handler is one action which changes the target's state and
leaves the reply (`Answers`, `Refuses`). It waits only where the code joins a
thread (`StopAcceptImages`). A reply that is sent and not yet read is
`rpc.kind = "resp"`; it can be lost with a reset (`link`), and the handler has
run all the same. `CallerCloses` and `ReadsEOF` distinguish an orderly end from
a reset, because only the first leads to `on_disconnect`.

**Tasks.** `src` and `dst` say what became of the tasks on each host. In live
mode `src` is "frozen" from post-dump on, "gone" when CRIU killed it, "stopped"
when docker's checkpoint did. In restart mode it is "mounted" between
`vzctl stop --skip-umount` and `vzctl umount`.

**Images.** `sdir` and `ddir` are the two `current_iter`; `dpages` the
directories of the target that a dump has filled through a page server; `tar`
the archive on its way to the untar thread; `imgs` whether each side's image
directory is open, kept or removed.

**Restore root.** `root` follows `mount`, `umount` and `restored` of the lxc
and runc drivers, including runc's `_runc_bundle`, which does not exist before
the meta images have been read ("none") so that `umount` raises. `files` is the
container's own directory on the target, which runc's `rmtree` and its remote
`rm -r` may remove.

**The memory socket.** `MemChannel` looks at what `LiveMigration` treats as one
step: an archive on its way. `sent` and `taken` count the bytes written to and
read from the socket since it was opened, so "whose bytes are these" is a question
about two numbers. The untar thread reads as tarfile does in stream mode: up to
a record at a time while it lacks bytes, to the first block of zeros; then
`Unread` is what `discard_unread_input` computes from `__nread`, and
`UntarDiscards` its `recv` with MSG_WAITALL. The page server knows from the
stream how much is to come. The calls in between are one step each.

**Shared disks.** `SharedPloop` has one loop each for `prepare`, `restore`,
`cleanup` and the target's merge, over the disks in the order of the option, one
command of libploop or the file system per step, and each may raise. `After`
and `Handler` are the code of `iters.py:223-252` as far as these loops see it.
`restore()` of a disk whose `prepare()` did not get to its end reads an attribute
that was never set, and the exception leaves `migration_fail` there
(`RestoreUnprepared`).

**A CRIU session.** In `CriuSession` either side writes to the control socket only
when the other one waits, so `wire` is one message or none. `phaul` is where
`criu_dump` or `criu_restore` stands, and what follows it: `iters.py` on the
source ("held" to "answered"), `on_disconnect` on the target. CRIU is
external; `Script` is the order of its notifications as the loop relies on it, one
entry per notification, and it may fail at any stage but those where the network
has to be unlocked first. `NetLock` and `NetUnlock` are one veth of lxc's loops
each, `dev` and `ports` what their `ip` and `brctl` commands leave.

**The service as a process.** A message of `ServiceProgram` is a number of
segments; `wire` are on their way, `here` have arrived, and a `recv` takes
what has arrived, up to `Buf`. `ready` is the list `select` returned, worked off in
its order although the sockets may have changed. `swrk` says whether the CRIU
worker has inherited the stop pair: `criu_api.py:39` spawns it without closing
descriptors, so the pair's end (and the rpc socket) stay open while it lives.
`Link` and `Svc` are what `RpcLink` calls `link` and `svc`.

**The wrapper.** `fds` is its descriptor table, `sks` the list of the two sockets
whose overwriting closes the ones before. A service is started with two numbers and
becomes a copy of the table when its thread gets to `fork` (`Fork`); `late` records
that another connection was accepted in between. The client of `p.haul-wrap client` and
a request of the web interface connect in the same way.

**What is abstract.** Page contents, archives as byte streams in all modules but
`MemChannel` (an archive is unread, complete, unpacked or failed), the contents of
calls and replies, statistics but the two amounts the loop uses, driver configuration,
the options of CRIU's requests.

**Faults.** Any call and any local command may fail in any run. What else may
go wrong is named: `Faults` of `LiveMigration`, `job.faults` of
`RestartMigration` (a field, so that a property can say which faults it
excludes).

**Variants.** A definition whose name ends in `Bug`, `Late`, `Strict`,
`Swapped` or `Stuck` stands before the definition it is a defective variant of
and is used by nothing: with it in the definition's place, the
property it is listed with in `PROJECT.json` is violated under the same run.

## 3. What the runs check

All bounds are in the `.cfg` files and the `MC` modules. Deadlock is not
checked because a migration ends, and both programs with it; that nobody
is stuck before the end is what the liveness properties say.

| Run | Question | States |
| --- | --- | --- |
| `iter_loop` | Is the divisor positive, the growth limited, the loop left? Constants of `iters.py`. | 2 thousand |
| `live_faults` | Every driver, every fault at every point: split brain only in doubt, tasks never lost, chain complete, checks before the freeze, no mount left, no files removed under the only copy. Is each step one of `Handover`, but where source and target are out of touch? Is a frozen tree decided on, unless the source blocks for ever in `sendall`? Does the dump keep to `DumpHold`? Does the service end? | 410 thousand |
| `restart_faults` | Restart mode under sets of faults from none to all: started once, unmounted first, given back, kept running; does a stopped container run again, and does restart mode implement `Handover` with its fairness? | 25 thousand |
| `criu_session` | Every driver, each side: does the network follow the tree, is a bridge joined once, is a failed restore with running tasks a hook's fault only, does the dump implement `DumpHold`, is CRIU left waiting? | 1.5 thousand |
| `service_program` | Does the service do to the connection what `RpcLink` says; does a signal stop it, and between migrations only; does every call end? | 60 thousand |
| `wrap_service` | Does a service get the two sockets of one client, how long is a dead service's socket held, who gets no answer? | 159 thousand |
| `mem_channel` | Does every reader of the memory socket get its own bytes, does an archive leave nothing behind, is what is being sent taken? | 49 thousand |
| `shared_ploop` | After a failure at any command: which shared disks are as they were, which are merged, and is nothing merged too early? | 563 |
| `iter_count`, `live_enotsup`, `live_ack`, `restart_umount` | A disagreement of the code with its comments or help texts, see below; TLC finds the violation. | |

The types are an invariant of their own in `live_faults` and `restart_faults`, and
the first conjunct of `OwnBytes`, `StoppedBetweenMigrations`, `OwnSockets` and
`NetworkKept`. Those of `IterLoop` and `SharedPloop` are only proved.

### Bounds

* `MAX_ITERS_COUNT` is 2 in live and 3 in restart runs, so a migration has none
  to three (four) rounds: the first round, with no statistics before it; one
  with; one that ends because of the count. `iter_loop` has the real 8.
* `Pages = {1, 2, 3}` with a minimum of 1: too few to go on, enough, and enough
  but grown too much after a 2 (50 per cent). `Transfers` adds 20 and 22, whose
  growth is exactly the limit. `MCAmounts` has both sides of every
  boundary of the real constants for both modes.
* Jobs are, in `live_faults`, every driver with each choice of pre-dumps and of
  keeping images, and for the pid driver every combination with `--force` and the
  two skipped checks: these change nothing but the path to the first dump, which is
  the same for all drivers. The theorems have every job.
* `MemChannel` has records of four blocks of two bytes, image archives of one to
  seven blocks (every length modulo a record, over one to three records), a
  cpuinfo archive of half a record, two dumps of one or five bytes, and a socket that
  holds nine bytes, one more than a record: small enough that every larger
  archive blocks the source until the thread reads.
* `SharedPloop` has up to four disks: one that fails, and some before and after
  it. The theorems have any number.
* `CriuSession` has three veths, the second without a bridge, so that each loop
  can be interrupted in its middle and a device without a bridge lies between two
  with one; all drivers, with and without a network namespace of the tree.
* `ServiceProgram` has messages of one to three segments and a buffer of two: a
  message that comes whole, one that may be read in parts, one that never fits.
  Four calls are `init_rpc`, `setup` and two others, and two signals one to be
  missed and one to repeat it.
* `WrapService` has three clients, each connecting once, and a backlog of three: a
  fork that is two accepts late can find its number in use again.
* One migration: a service serves one connection.
* At most one call is outstanding (the code's own bound), and an archive, once
  started, is the only one.

### Fairness

`WF` on `SourceStep`: p.haul is a sequential program, and every wait of its own
is for a command or a CRIU that ends (a page server that goes on reading included),
but for one: a source that stands in `sendall` with
a full socket and a dead untar thread (`SendBlocked`) need not take another step. `WF` on `ServiceStep`: the same for
the server thread. Two cases deserve a word. A process blocked in `recv` has no
enabled step, so nothing is assumed about it; a broken connection ends the wait
on both sides, which assumes that TCP reports it eventually, and that nobody else holds the socket
(`p.haul-wrap` does until its next client, see `HeldUntilNext`). `WF` on
`UntarStep`: the thread unpacks an archive that has arrived and reads end of
file when the source has gone. `WF` on `CriuThaws`: CRIU resumes the tasks
of a dump whose client has gone. No fault is fair. If the untar thread
dies, what remains of the archive may or may not fit in the buffers of the socket:
"failed" and "full" of `UntarFails`. `HandoverDecided` and `MemChannel`'s `Delivered`,
where the bytes are counted, both have the dead thread with a full socket as their
one exception. A service whose thread died on a reset keeps the socket open too, for
its process does not exit, so the exception does not depend on what becomes of it.
`MemChannel`: `WF` for the source, the
untar thread and the page server, each of which only waits for the others.

`CriuSession`: `WF` for the loop, for what follows it and for CRIU, all sequential
programs; `ThreadDies` and `Killed` are not fair. `EndStep` includes
both the acknowledgement and the failure of the migration, whose decision is
`LiveMigration`'s (`HandoverDecided`): what `CriuSession` says of the end of a held
tree is said of migrations that do not meet its exception. `ServiceProgram`: `WF` for each thread, the
client, the delivery of segments (TCP) and the exit of a CRIU whose socket is
closed. Signals, resets and kills are not fair. `WrapService`: `WF` for the main
thread, each service's start and work, and a client's reading of the end of
file; nobody is obliged to connect, to quit or to die.

## 4. What the runs show

What holds is the table above. Some properties hold only with their
exceptions, and these are worth reading as statements about the code:

* `SplitBrainOnlyInDoubt` lists the four ways to have the tasks running on both
  hosts. In three of them (kill, lost reply, hook raising after the restore) the
  source cannot know. The fourth, an acknowledgement that CRIU refuses, it is
  told and ignores.
* `NothingLeftMounted` excludes lxc: its `umount` (`p_haul_lxc.py:146`) does
  nothing, so a failed restore leaves the mounts of `mount` behind.
* docker always ends the migration in the handler of
  `iters.py:251`: no CRIU request is open and `ack_notify` raises, so
  the source's images are never removed and `restore_time` is never asked.
  `NeverLost` uses that nobody deletes images of a container that does not run.
* `GrowthAccepted` is strictly less than *one more* than the rate: the division
  rounds down (`iters.py:366`).
* `HandoverDecided` of live mode excludes `SendBlocked`: the untar thread
  swallows its exception (`images.py:50`), nobody tells the source, and an archive that is
  larger than what the socket still takes blocks it in `sendall` (`util.py:28`,
  from `images.py:158-165`) with the tasks frozen. Killing p.haul releases them.
* `StartedOnceUnlessInDoubt` excludes a `vzctl stop` that fails unnoticed
  (`p_haul_vz.py:370`): then the container is started while it runs on the
  source.
* `DrainedUnlessShort` excludes the archives whose last record holds exactly one
  block before the end. `discard_unread_input` (`util.py:31`) discards what is left
  of the record the reader is in; if the first of the two blocks of zeros at the end
  is the last of a record, the reader stops there and the whole record that
  holds the second stays in the socket. `ChannelAssumption` says that
  cpuinfo.img's archive is not one of them; all other bytes on the socket precede the
  archive of the images, so no reader gets another's bytes (`OwnBytes`). A second
  use of `sync_imgs_to_target` would be misled.
* `RestoredUnlessBroken` is what the exceptions of `shared_ploop` leave of "a
  failed migration gives the disks back": the disk whose preparation failed keeps
  its copy or snapshot, and one failed restore is the end of all those behind it.
* `HandoverImplemented` excludes the states of `OutOfTouch`: the source was killed,
  gave up without the reply, was told of a failure though the tasks run, or goes on
  after a refused acknowledgement. `TargetFilesKept` needs none of that for the
  only copy: runc's remote `rm -r` (`p_haul_runc.py:180`) and its `rmtree` after a
  failed umount (`p_haul_runc.py:143`) can remove the files of a container that runs,
  but only while the source still has its own.
* `NetworkKept` holds inside the loop and after CRIU's own failure only. If
  anything fails after post-dump, p.haul closes no session and reads no
  notification: CRIU resumes the tree, and lxc's devices stay down, for
  nobody runs `net_unlock` (`p_haul_lxc.py:168`).
* runc has neither `net_lock` nor `net_unlock`: a tree with its own network namespace
  cannot be dumped, the first of these notifications ends it with an
  AttributeError (`NoSuchMethod`).
* The answer to the last acknowledgement is not checked for its type
  (`iters.py:241`): a notification that is still to come, network-unlock after a dump
  that failed, says "success" and is read as the end. The tree resumes all the same
  (`DumpImplemented`).
* `SessionEnds` excludes a server thread that died on a reset after a hook raised:
  the half restored tree is kept until the service is killed.
* `LinkImplemented` is only claimed until a message was read in parts. A part of a
  call ends the server thread, for `eval` is outside the `try` block
  (`xem_rpc.py:36`); its sockets stay open, and the caller waits for ever
  (`CallEnds`).
* `StopsUnlessMissed` excludes a signal handled between `t.start()` and
  `signal.pause()` (`p.haul-service:42`): the server thread stops, the main thread
  sleeps, and a client that connected keeps waiting. Nothing but a signal wakes the
  main thread either, so a service never exits by itself after its migration, and
  `p.haul-wrap service --one-shot` does not return before that.
* `StoppedBetweenMigrations`: because the CRIU worker has inherited the stop pair, a
  signal in the middle of a live migration takes effect only after `on_disconnect`.
  For `LiveMigration` this means that `ServiceKilled` stands for SIGKILL, a
  crash, or a signal before the worker exists.
* `OwnSockets` and `Answered` name what the wrapper cannot do: tell two clients apart
  that connect at the same time, keep a number's meaning until a late fork, or close the
  sockets of a dead service before the next connection comes (`HeldUntilNext`).

### Disagreements found

* `iter_count`: `MAX_ITERS_COUNT`, 8, is the "Maximum number of iterations"
  (`iters.py:39`). `iter_index` counts from 0 and is compared with `>=` after the
  round it numbers (`iters.py:335`, `357`), so tasks that keep writing
  are copied nine times before the final round. That it is one round more and
  never two is a theorem (`LoopRoundsBounded`).
* `live_enotsup`: when CRIU does not support dumping CPU information,
  `__validate_cpu` sets `__force` (`iters.py:104`), which `__validate_criu_version`
  reads as well. The versions of CRIU are not compared though
  the help text says that this is what `--skip-criu-check` does.
* `live_ack`: "Restored on target, can't fail starting from this point"
  (`iters.py:238`); if CRIU answers the last acknowledgement with a failure it
  resumes the tasks, the code logs a warning (`iters.py:242`) and
  reports success with two running copies.
* `restart_umount`: "umount before start on target, or we fail on vzstorage"
  (`iters.py:300`); the driver's `umount` (`p_haul_vz.py:331`) ignores the
  return code, so the start follows a failed umount.

## 5. What is proved

With TLAPS, for every value of the constants: every invariant the runs check, the
two action properties `GrowthAccepted` and `DumpHoldKept`, and the steps of every
refinement. The assumptions are those stated in the modules: constants and
inputs have their types (`IterConstsAssumption`, `AmountsAssumption`,
`LiveAssumption`, ...), there are finitely many clients (`WrapAssumption`), and `ChannelAssumption`: the socket holds a record, a record
whole blocks and at least two, and the archive of cpuinfo.img does not end short.

Each `*Proofs` module has the same layout: lemmas about the operators, the
invariant at the beginning, one lemma per part of the invariant with one case
per action, the invariant, and what follows from it. The inductive
invariants are at the end of the modules they are about (`SharedPloop`'s with its
proof), in named parts with a comment each. TLC confirms each on the instance of its
module's run.

| Module | Inductive invariant | Properties that follow |
| --- | --- | --- |
| `IterLoopProofs` | each property with the types | `RoundsBounded`, `DivisorPositive`, `GrowthAccepted` |
| `LiveMigrationProofs` | `HandoverInv`, `ChainInv`, `CheckInv`; `OwnershipInv`; `MountInv` | `TypeOK`, `SplitBrainOnlyInDoubt`, `NeverLost`, `ChainComplete`, `CheckedBeforeFreeze`, `TargetFilesKept`, `NothingLeftMounted`, `HandoverImplemented`, `DumpHoldKept` |
| `RestartMigrationProofs` | `RestartInv` | `TypeOK`, `StartedOnceUnlessInDoubt`, `UmountedIfUmountWorks`, `FailureGivesBack`, `SuccessKeepsRunning`, `H!Spec` |
| `CriuSessionProofs` | `SessionInv` | `NetworkKept`, `BridgedOnce`, `MisreportedByHook`, `D!Spec` |
| `ServiceProgramProofs` | `ServiceInv` | `StoppedBetweenMigrations`, `LinkImplemented` |
| `WrapServiceProofs` | `WrapInv` | `OwnSockets`, `HeldUntilNext` |
| `MemChannelProofs` | `ChannelInv` | `OwnBytes`, `DrainedUnlessShort` |
| `SharedPloopProofs` | `Inv` | `RestoredUnlessBroken`, `MergedUnlessBroken`, `MergedLast` |

### The arguments

**The loop.** It goes on only with an amount above the minimum and rounds left
(`ContinuesBounds`), which carries the bound and the divisor. The growth theorem rests on a lemma about
integer division by a positive number, and so on `LoopDivisorPositive`.

**Live migration**, for any set of jobs, pages and faults, so for any number of
rounds:

* `CallMatchesPoint` ties the outstanding call to the program point, so that a
  handler can only run where the source waits for it. Once the source has given
  up (`Adrift`) a call may still be on its way; this exception is why "the
  target may restore after the source gave up" has to be dealt with at all.
* `RestoredIsKnown` and `RestoreReplied` say where the news of a restore is: in
  an unread reply, or at a point behind the call.
* `SourceHeld` and `SourceReleased`: from the final dump to its acknowledgement
  the tasks do not run on the source, behind it they do not exist there.
* `RestoreFirst`: what can only follow a restore (killing, deleting images).
* `DirectoriesInStep`: the counters agree, but between `start_iter` and
  the dump it announces the target's is one ahead, and every directory up to
  the source's is filled. Without `TargetAhead` it is not inductive.
* `CheckInv`: the verdicts needed, by program point.
* `OwnershipInv` is what the refinement needs besides. A step of `Handover` has a
  guard about the *other* host (`Freeze` and `Activate` want the tasks absent on the
  target), so the invariant has to say that a restore on its way is the first one,
  and that the source kills its tasks only with an answer it has read.
* `MountInv`: only lxc and runc mount.

**Restart mode.** `RestartInv` has the calls by program point again; what differs is that
`start_htype` is the last call that matters. `StartedInOrder` and `StartIsKnown` say
that the target runs nothing before it, and where its news is after it;
`SourceInStep` gives the state of the source's container at each point under the
faults of the job, which is the whole content of "unmounted first" and "given
back". `InTouch` says that the two agree when no fault leaves them in doubt; from it
follows the refinement of `Handover`, and with `HandoverPromise`, which is proved
of `Handover` itself, that such a container never runs on both hosts.

**A CRIU session**, for any number of veths. `TurnTaken` makes one program of two: what is
on the wire or in a hook tells CRIU's stage. `TasksInStep` follows. `DevicesInStep` is
the invariant of lxc's loops over the devices: `Unlocked(at)` holds of those behind the
loop's turn, and the acknowledgement of "network-unlock" turns it into "all". In
the refinement of `DumpHold` the interesting steps are a p.haul that leaves the
loop on an exception while the tree is frozen (`BreaksOff`) and a notification that is
read as the last answer (`Lets("frozen")`).

**The service program**, for messages and buffers of any size. `OneMessage` says that all
segments belong to one message, so that the sockets `select` returned can be stale
(`RpcListed`) only in the direction of an end of connection. `ToldToStop` says
that the stop pair reads as closed only if no worker holds it; with it
`StoppedBetweenMigrations` is immediate, and without the part about `StopListed`, a
stale list, it is not inductive.

**The wrapper**, for any finite number of clients and any backlog. `ArrivedInOrder` says that
a client's first connection is its rpc socket, so that two neighbours of one client are
in the right order. `LatestOpen` says which connection each entry of `connection_sks`
stands for; `TimelyFork` that a service's numbers are those until the next accept. That
the lowest free number exists and is never one in use is a lemma (`FreeFd`) on the
size of the descriptor table.

**The memory socket**, for records, blocks, sockets and archives of any size. The
invariants are equations between the counters: what has been written and what is
left is the archive, what has been read is `nread` more than where it began. The
lemmas before it are about `\div` and `%`: that tar's padding makes an archive a multiple of a
record (`RecordSize`, `ArchiveSize`), and that `discard_unread_input` computes its
end (`DiscardEnds`). The exception `EndsShort` is where that lemma fails.

**Shared disks**, for any number of them: for each loop, what the disks behind, at and ahead
of the loop's turn look like. A restore needs one thing more, that behind a disk that
was not prepared there are only plain ones, for that is why its exception does no harm
there.

**Only model-checked:** liveness and fairness, which are out of the prover's reach:
`LoopLeft`, `HandoverDecided` of live mode, `ServiceEnds`, `StoppedIsTemporary`,
`Delivered`, `SessionEnds`, `StopsUnlessMissed`, `CallEnds`, `Answered`, and the
fairness in `DumpImplemented` and in `HandoverDecided` of restart mode, whose
steps are proved (`SessionDump`, `RestartHandover`).

## 6. What is not modelled

* The options of CRIU's requests (`criu_req.py`) and the configuration drivers
  read; a pre-dump's and the page server's sessions are single steps of
  `LiveMigration`, their loop is the one of `CriuSession` without a network.
* CRIU dying on its own: `CriuSession` has it fail and answer, not vanish. The same
  goes for the page server: while the service holds the socket, a source whose page
  server vanished would block as one whose untar thread did.
* Paths of `criu_restore` that no run of the script reaches: "network-lock" during a
  restore (`criu_cr.py:70-71`), and runc's missing `net_unlock` on the target, since
  the dump of such a tree has already failed on the source.
* `p.haul-wrap service --web-gui` (`p.haul-wrap:27-32`), off by default: a
  migration started from the page is then a child of the wrapper's process
  (`webgui/p_haul_web_gui.py:90`) and inherits the sockets it has open, so
  `HeldUntilNext` is about the wrapper without the page.
* The threads that receive ploop deltas on the target, with sockets of their own.
* The web interface but for its request to migrate: the globals in which it keeps
  partner and port are shared by all its requests; the process list only reads
  `/proc`.
* `mstats.py` (adds and prints), `p.haul-ssh` (a shell script that sets up a tunnel),
  `test/`, packaging: nothing there changes the state of a migration.
* CRIU, vzctl, docker, rsync, libploop, `ip`, `brctl`: external, modelled by the
  outcomes the code distinguishes.

## 7. Plan

Every component that decides something about a migration has its module, and every
safety property a theorem. What is left:

1. Theorems that compose: what `Handover` promises, for a live migration up to the
   step that ends out of touch, as `RestartOneHome` has it for restart mode.
2. That the sources' rounds in `LiveMigration` and `RestartMigration` are those of
   `IterLoop`, so that `RoundsBounded` and `GrowthAccepted` hold of the compositions.
3. Sharper statements where an exception is wider than the proof needs.

Of the code, the receivers of ploop deltas (a socket and a thread each) and the globals
of the web interface.

--------------------------- MODULE ServiceProgram ---------------------------
(***************************************************************************)
(* p.haul-service as a process: the main thread that waits for a signal    *)
(* (p.haul-service), the thread that serves calls (xem_rpc.py), the CRIU   *)
(* worker it spawns (criu_api.py), and at the other end of the connection  *)
(* a client that makes one call at a time (xem_rpc_client.py).             *)
(*                                                                         *)
(* A message is a number of segments that TCP delivers one by one.  Both   *)
(* sides take what one recv returns for a whole message.  As only one      *)
(* message is under way at any time, "wire" and "here" are enough to count *)
(* the segments on their way and those that have arrived unread.           *)
(***************************************************************************)
EXTENDS Naturals, Sequences

CONSTANTS
    Modes,       \* the modes of migration: "live" and "restart"
    MaxLen,      \* segments of the longest message
    Buf,         \* rpc_sk_buf, in segments
    MaxCalls,    \* bound on the calls of the client
    MaxSignals   \* bound on SIGTERM and SIGINT

ASSUME ServiceAssumption ==
    /\ Modes \subseteq {"live", "restart"}
    /\ {MaxLen, Buf} \subseteq Nat \ {0}
    /\ {MaxCalls, MaxSignals} \subseteq Nat

VARIABLES
    mode,      \* of the migration; constant
    main,      \* where the main thread stands
    pending,   \* a signal has arrived and its Python handler has not run
    stop_fd,   \* the main thread's end of the stop pair
    signals,   \* signals sent so far
    thread,    \* the server thread
    alive,     \* _rpc_server_manager._alive
    polled,    \* the rpc socket is in _poll_list
    ready,     \* what select returned and the loop has not worked on yet
    master,    \* _master exists
    left,      \* on_disconnect is done
    swrk,      \* the process "criu swrk"; "holding" if it inherited stop_fd
    client,    \* the caller
    calls,     \* calls made so far
    rpc,       \* as in RpcLink: the outstanding call or the unread reply
    wire, here,
    rst,       \* the connection was reset
    cut        \* somebody took a part of a message for the whole; history

mainVars == <<mode, main, pending, stop_fd, signals>>
threadVars == <<thread, alive, polled, ready, master, left, swrk>>
connVars == <<client, calls, rpc, wire, here, rst, cut>>
vars == <<mainVars, threadVars, connVars>>

Exited == main = "exited"

(* The child inherits every open descriptor of the service: the rpc socket, and
   both ends of the stop pair, stay open until it is gone too. *)
CriuRuns == swrk \in {"running", "holding"}

ServerEndClosed == Exited /\ ~CriuRuns

Link == IF rst THEN "reset"
        ELSE IF ServerEndClosed \/ client = "closed" THEN "closed" ELSE "up"

Svc == IF left THEN "closed"
       ELSE IF thread = "failed" \/ ServerEndClosed THEN "dead"
       ELSE IF master THEN "serving" ELSE "fresh"

L == INSTANCE RpcLink WITH link <- Link, svc <- Svc

TypeOK ==
    /\ mode \in Modes
    /\ main \in {"setup", "ready", "started", "paused", "woken", "joining", "exited"}
    /\ {pending, alive, polled, master, left, rst, cut} \subseteq BOOLEAN
    /\ stop_fd \in {"open", "closed"}
    /\ signals \in 0..MaxSignals
    /\ thread \in {"none", "running", "busy", "stopped", "failed", "cut"}
    /\ ready \in {<<>>, <<"rpc">>, <<"stop">>, <<"rpc", "stop">>}
    /\ swrk \in {"none", "running", "holding", "gone"}
    /\ client \in {"free", "waiting", "raised", "closed"}
    /\ calls \in 0..MaxCalls
    /\ L!RpcTypeOK
    /\ wire \in 0..MaxLen /\ here \in 0..MaxLen

Init ==
    /\ mode \in Modes
    /\ main = "setup" /\ pending = FALSE /\ stop_fd = "open" /\ signals = 0
    /\ thread = "none" /\ alive = TRUE /\ polled = TRUE /\ ready = <<>>
    /\ master = FALSE /\ left = FALSE /\ swrk = "none"
    /\ client = "free" /\ calls = 0 /\ rpc = L!NoCall
    /\ wire = 0 /\ here = 0 /\ rst = FALSE /\ cut = FALSE

-----------------------------------------------------------------------------
(* The connection *)

Arrives ==
    /\ wire > 0
    /\ wire' = wire - 1
    /\ here' = here + 1
    /\ UNCHANGED <<mainVars, threadVars, client, calls, rpc, rst, cut>>

(* A reset is taken to discard what was not read. *)
Resets == rst' = TRUE /\ wire' = 0 /\ here' = 0

Unaffected == UNCHANGED <<rst, wire, here>>

ConnectionLost ==
    /\ Link = "up"
    /\ Resets
    /\ UNCHANGED <<mainVars, threadVars, client, calls, rpc, cut>>

(* recv returns all of the message: everything has arrived and fits. *)
Whole == wire = 0 /\ here <= Buf

(* The server's end is closed by the last process that holds it: with data it
   has not read, or still to come, the client sees a reset. *)
ServerEndCloses ==
    IF Link = "up" /\ rpc.kind = "call" /\ wire + here > 0 THEN Resets ELSE Unaffected

-----------------------------------------------------------------------------
(* The client: init_rpc, setup, then other calls *)

NextCallBug == IF calls = 0 THEN "setup" ELSE "start_iter"

NextCall == CASE calls = 0 -> "init_rpc" [] calls = 1 -> "setup" [] OTHER -> "start_iter"

Call ==
    /\ client = "free" /\ calls < MaxCalls /\ Link = "up"
    /\ rpc' = [kind |-> "call", fn |-> NextCall, val |-> FALSE]
    /\ wire' \in 1..MaxLen
    /\ client' = "waiting"
    /\ calls' = calls + 1
    /\ UNCHANGED <<mainVars, threadVars, here, rst, cut>>

CallFails ==
    /\ client = "free" /\ calls < MaxCalls /\ Link # "up"
    /\ client' = "raised"
    /\ UNCHANGED <<mainVars, threadVars, calls, rpc, wire, here, rst, cut>>

ReplyReadable == client = "waiting" /\ rpc.kind \in {"resp", "exc"} /\ here > 0

GetsReply ==
    /\ ReplyReadable /\ Whole
    /\ client' = IF rpc.kind = "resp" THEN "free" ELSE "raised"
    /\ rpc' = L!NoCall
    /\ here' = 0
    /\ UNCHANGED <<mainVars, threadVars, calls, wire, rst, cut>>

(* eval of a part of a tuple raises. *)
GetsPartOfReply ==
    /\ ReplyReadable /\ ~Whole
    /\ client' = "raised"
    /\ cut' = TRUE
    /\ UNCHANGED <<mainVars, threadVars, calls, rpc, wire, here, rst>>

GetsNoReply ==
    /\ client = "waiting"
    /\ rst \/ (ServerEndClosed /\ rpc.kind = "call")
    /\ client' = "raised"
    /\ UNCHANGED <<mainVars, threadVars, calls, rpc, wire, here, rst, cut>>

(* The end of p.haul, in order or not; a reply it left unread becomes a RST. *)
Closes ==
    /\ client' = "closed"
    /\ IF Link = "up" /\ rpc.kind \in {"resp", "exc"} THEN Resets ELSE Unaffected
    /\ UNCHANGED <<mainVars, threadVars, calls, rpc, cut>>

ClientCloses == client \in {"free", "raised"} /\ Closes

ClientKilled == client = "waiting" /\ Closes

ClientStep == Call \/ CallFails \/ GetsReply \/ GetsPartOfReply \/ GetsNoReply \/ ClientCloses

-----------------------------------------------------------------------------
(* The server thread *)

EOF == client = "closed" /\ wire = 0 /\ here = 0

RpcReadable == polled /\ (rst \/ EOF \/ (rpc.kind = "call" /\ here > 0))

StopReadableBug == stop_fd = "closed"

(* sks[0] sees the end of sks[1] when nobody has it open any more. *)
StopReadable == stop_fd = "closed" /\ swrk # "holding"

Readable == (IF RpcReadable THEN <<"rpc">> ELSE <<>>)
            \o (IF StopReadable THEN <<"stop">> ELSE <<>>)

Loops == thread = "running" /\ ~Exited

Select ==
    /\ Loops /\ ready = <<>> /\ alive
    /\ Readable # <<>>
    /\ ready' = Readable
    /\ UNCHANGED <<mainVars, thread, alive, polled, master, left, swrk, connVars>>

LoopEnds ==
    /\ Loops /\ ready = <<>> /\ ~alive
    /\ thread' = "stopped"
    /\ UNCHANGED <<mainVars, alive, polled, ready, master, left, swrk, connVars>>

WorksOn(item) == Loops /\ ready # <<>> /\ Head(ready) = item

WorkStop ==
    /\ WorksOn("stop")
    /\ alive' = FALSE
    /\ ready' = Tail(ready)
    /\ UNCHANGED <<mainVars, thread, polled, master, left, swrk, connVars>>

(* recv raises, and the exception ends the loop and the thread. *)
RecvFails ==
    /\ WorksOn("rpc") /\ rst
    /\ thread' = "failed"
    /\ UNCHANGED <<mainVars, alive, polled, ready, master, left, swrk, connVars>>

TakesCall ==
    /\ WorksOn("rpc") /\ ~rst /\ here > 0 /\ Whole
    /\ thread' = "busy"
    /\ here' = 0
    /\ UNCHANGED <<mainVars, alive, polled, ready, master, left, swrk,
                   client, calls, rpc, wire, rst, cut>>

(* The same eval, outside the try block. *)
TakesPartOfCall ==
    /\ WorksOn("rpc") /\ ~rst /\ here > 0 /\ ~Whole
    /\ thread' = "cut"
    /\ cut' = TRUE
    /\ UNCHANGED <<mainVars, alive, polled, ready, master, left, swrk,
                   client, calls, rpc, wire, here, rst>>

(* A handler of setup that raises may have come to the last line or not. *)
SwrkAfter(kind) ==
    IF rpc.fn # "setup" \/ mode # "live" \/ ~master THEN {swrk}
    ELSE {IF stop_fd = "open" THEN "holding" ELSE "running"}
         \cup (IF kind = "exc" THEN {swrk} ELSE {})

(* init_rpc makes the master that every other call needs. *)
Outcomes == IF rpc.fn = "init_rpc" THEN {"resp"}
            ELSE IF master THEN {"resp", "exc"} ELSE {"exc"}

SendReplyBug(kind) ==
    IF kind = "exc" THEN UNCHANGED <<rpc, wire>>
    ELSE /\ rpc' = [rpc EXCEPT !.kind = kind]
         /\ IF Link = "up" THEN wire' \in 1..MaxLen ELSE UNCHANGED wire

(* It goes to a client that may have closed its end. *)
SendReply(kind) ==
    /\ rpc' = [rpc EXCEPT !.kind = kind]
    /\ IF Link = "up" THEN wire' \in 1..MaxLen ELSE UNCHANGED wire

(* The handler is done; on a connection that was reset meanwhile send raises. *)
Reply ==
    /\ thread = "busy" /\ ~Exited
    /\ \E kind \in Outcomes : SendReply(kind) /\ swrk' \in SwrkAfter(kind)
    /\ master' = (master \/ rpc.fn = "init_rpc")
    /\ thread' = IF rst THEN "failed" ELSE "running"
    /\ ready' = Tail(ready)
    /\ UNCHANGED <<mainVars, alive, polled, left, client, calls, here, rst, cut>>

ReadsEOF == WorksOn("rpc") /\ ~rst /\ EOF

CriuClosedBug == swrk

(* criu_connection.close() waits for the child. *)
CriuClosed == IF CriuRuns THEN "gone" ELSE swrk

(* on_disconnect, and then only the stop pair is polled. *)
Disconnects ==
    /\ ReadsEOF
    /\ polled' = FALSE
    /\ left' = TRUE
    /\ swrk' = CriuClosed
    /\ ready' = Tail(ready)
    /\ UNCHANGED <<mainVars, thread, alive, master, connVars>>

(* What follows the closing of CRIU in on_disconnect may raise. *)
DisconnectRaises ==
    /\ ReadsEOF /\ master
    /\ polled' = FALSE
    /\ thread' = "failed"
    /\ swrk' = CriuClosed
    /\ UNCHANGED <<mainVars, alive, ready, master, left, connVars>>

ThreadStep ==
    \/ Select \/ LoopEnds \/ WorkStop \/ RecvFails \/ TakesCall \/ TakesPartOfCall
    \/ Reply \/ Disconnects \/ DisconnectRaises

-----------------------------------------------------------------------------
(* The main thread *)

MainGoes(from, to) == main = from /\ main' = to

InstallHandlers ==
    /\ MainGoes("setup", "ready")
    /\ UNCHANGED <<mode, pending, stop_fd, signals, threadVars, connVars>>

StartThread ==
    /\ MainGoes("ready", "started") /\ ~pending
    /\ thread' = "running"
    /\ UNCHANGED <<mode, pending, stop_fd, signals, alive, polled, ready, master,
                   left, swrk, connVars>>

(* Nothing looks at "pending" between the last bytecode and pause(2). *)
Pause ==
    /\ MainGoes("started", "paused")
    /\ UNCHANGED <<mode, pending, stop_fd, signals, threadVars, connVars>>

Fin == pending' = FALSE /\ stop_fd' = "closed"

FinBeforePause ==
    /\ pending /\ main \in {"ready", "started"}
    /\ Fin
    /\ UNCHANGED <<mode, main, signals, threadVars, connVars>>

FinAfterPause ==
    /\ MainGoes("woken", "joining")
    /\ Fin
    /\ UNCHANGED <<mode, signals, threadVars, connVars>>

Joinable == thread \in {"stopped", "failed", "cut"}

Exits ==
    /\ MainGoes("joining", "exited")
    /\ Joinable
    /\ IF CriuRuns THEN Unaffected ELSE ServerEndCloses
    /\ UNCHANGED <<mode, pending, stop_fd, signals, threadVars, client, calls, rpc, cut>>

MainStep == InstallHandlers \/ StartThread \/ Pause \/ FinBeforePause \/ FinAfterPause \/ Exits

-----------------------------------------------------------------------------
(* Signals, and the CRIU worker of a process that is gone *)

Signal ==
    /\ main \in {"ready", "started", "paused", "woken", "joining"}
    /\ signals < MaxSignals
    /\ signals' = signals + 1
    /\ pending' = TRUE
    /\ main' = IF main = "paused" THEN "woken" ELSE main
    /\ UNCHANGED <<mode, stop_fd, threadVars, connVars>>

(* SIGKILL, or SIGTERM while its default action is in place. *)
Killed ==
    /\ ~Exited
    /\ main' = "exited"
    /\ IF CriuRuns THEN Unaffected ELSE ServerEndCloses
    /\ UNCHANGED <<mode, pending, stop_fd, signals, threadVars, client, calls, rpc, cut>>

(* The control socket is not inherited: CRIU reads its end and exits. *)
CriuExits ==
    /\ Exited /\ CriuRuns
    /\ swrk' = "gone"
    /\ ServerEndCloses
    /\ UNCHANGED <<mainVars, thread, alive, polled, ready, master, left,
                   client, calls, rpc, cut>>

Fault == ConnectionLost \/ ClientKilled \/ Killed

Next == Arrives \/ ClientStep \/ ThreadStep \/ MainStep \/ Signal \/ CriuExits \/ Fault

Spec == Init /\ [][Next]_vars

FairSpec ==
    /\ Spec
    /\ WF_vars(Arrives)
    /\ WF_vars(ClientStep)
    /\ WF_vars(ThreadStep)
    /\ WF_vars(MainStep)
    /\ WF_vars(CriuExits)

-----------------------------------------------------------------------------
(* Properties *)

(* As long as no message is taken in parts, client and service do to the
   connection what RpcLink says and nothing else: one call at a time, executed
   by a server that has a master, answered once, the end of the stream seen only
   by a server that has answered all, a service that goes away only with its
   end of the socket (xem_rpc.py:28-54, xem_rpc_client.py:15-28). *)
LinkImplemented == L!RpcInit /\ [][L!LinkNext \/ cut']_<<Link, rpc, Svc>>

(* The signal came between t.start() and signal.pause(), and nothing will wake
   the main thread (p.haul-service:42-43). *)
Missed == main = "paused" /\ (pending \/ stop_fd = "closed")

(* A service that was told to stop exits, whatever its thread, its client and
   CRIU were doing, unless it missed the signal (p.haul-service:13-49). *)
StopsUnlessMissed == signals > 0 ~> Exited \/ Missed

(* Nobody serves the connection and nobody closes it. *)
Deserted == thread = "cut" \/ (Missed /\ thread = "stopped")

(* A call comes to its end: a reply is read or the caller raises; the
   exceptions are a server thread that died of a part of a message, or stopped
   on a signal the main thread missed: the socket stays open and the caller
   waits (xem_rpc.py:36, p.haul-service:43). *)
CallEnds == client = "waiting" ~> client # "waiting" \/ Deserted

(* Once the CRIU worker is spawned, a signal does not cut a live migration in
   two on the target: the worker's copy of stop_fd keeps the loop from seeing the
   end of the pair until on_disconnect has closed it; a loop told to stop before
   setup goes on to the end of its round only (criu_api.py:39, xem_rpc.py:98-101).
   The types are part of it. *)
StoppedBetweenMigrations ==
    /\ TypeOK
    /\ thread = "stopped" => swrk # "holding"

-----------------------------------------------------------------------------
(* The inductive invariant behind LinkImplemented and StoppedBetweenMigrations *)

RpcListed == ready \in {<<"rpc">>, <<"rpc", "stop">>}
StopListed == ready \in {<<"stop">>, <<"rpc", "stop">>}

(* A loop is told to stop by a closed pair that no worker holds open, and no
   worker will: one spawned later inherits only what is still open. *)
ToldToStop ==
    /\ ~alive \/ StopListed => stop_fd = "closed" /\ swrk # "holding"
    /\ thread = "stopped" => ~alive

(* The segments on the connection are those of the one message under way; a call
   without any is being executed, if they were not lost, and what the loop is
   about to read is a call or the end. *)
OneMessage ==
    /\ wire + here <= MaxLen
    /\ rst \/ rpc.kind = "idle" => wire = 0 /\ here = 0
    /\ client = "free" => rpc.kind = "idle"
    /\ rpc.kind = "call" => rpc.fn # "none"
    /\ thread = "busy" => rpc.kind = "call" /\ wire = 0 /\ here = 0 /\ RpcListed
    /\ rpc.kind = "call" /\ wire = 0 /\ here = 0 => rst \/ thread = "busy"
    /\ RpcListed => rpc.kind = "call" \/ rst \/ (client = "closed" /\ wire = 0 /\ here = 0)
    /\ rpc.val = FALSE

(* init_rpc is the first call, and no other is made without its master. *)
MasterFirst ==
    /\ calls = 0 => ~master /\ rpc.kind = "idle"
    /\ client = "free" /\ calls > 0 => master
    /\ rpc.kind = "call" => (master <=> rpc.fn # "init_rpc")
    /\ rpc.kind = "resp" => master

(* on_disconnect runs once, behind a client that is gone; a thread that failed has
   lost its connection. *)
EndsInOrder ==
    /\ left => client = "closed" /\ ~polled
    /\ ~polled => thread = "failed" \/ (~RpcListed /\ thread # "busy")
    /\ thread = "failed" => rst \/ client = "closed"
    /\ thread = "cut" => cut
    /\ main \in {"setup", "ready"} => thread = "none"

ServiceInv == ToldToStop /\ OneMessage /\ MasterFirst /\ EndsInOrder
=============================================================================

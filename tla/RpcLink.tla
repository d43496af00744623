------------------------------ MODULE RpcLink ------------------------------
(***************************************************************************)
(* The remote procedure calls of p.haul: one TCP connection, a client that *)
(* sends a call and blocks until the reply (xem_rpc_client.py), a server   *)
(* thread that receives, executes and answers one call at a time           *)
(* (xem_rpc.py).  This module holds the state of the connection and the    *)
(* steps from which the source's and the service's actions are composed.   *)
(***************************************************************************)
EXTENDS Naturals

VARIABLES
    link,   \* the connection: "up", "closed" (FIN) or "reset" (RST, or lost)
    rpc,    \* the outstanding call, or its reply that nobody has read yet
    svc     \* the server thread of p.haul-service

rpcVars == <<link, rpc, svc>>

(* The rpc_* methods of phaul_service and the one RPC_CMD, init_rpc. *)
Calls == {"init_rpc", "setup", "set_options", "start_iter", "end_iter",
          "start_accept_images", "stop_accept_images", "check_cpuinfo",
          "check_criu_version", "restore_from_images", "restore_time",
          "start_htype", "migration_complete"}

NoCall == [kind |-> "idle", fn |-> "none", val |-> FALSE]

(* "val" is the argument while the call travels and the result afterwards;
   "exc" is RPC_EXC, a reply that makes the caller raise. *)
RpcTypeOK ==
    /\ link \in {"up", "closed", "reset"}
    /\ rpc \in [kind : {"idle", "call", "resp", "exc"},
                fn   : Calls \cup {"none"},
                val  : BOOLEAN]
    /\ svc \in {"fresh", "serving", "closed", "dead"}

RpcInit == link = "up" /\ rpc = NoCall /\ svc = "fresh"

-----------------------------------------------------------------------------
(* The caller *)

Send(fn, arg) ==
    /\ link = "up"
    /\ rpc.kind = "idle"
    /\ rpc' = [kind |-> "call", fn |-> fn, val |-> arg]
    /\ UNCHANGED <<link, svc>>

(* Bytes that arrived before a FIN are still read; a reset discards them. *)
Returns ==
    /\ rpc.kind = "resp"
    /\ link # "reset"
    /\ rpc' = NoCall
    /\ UNCHANGED <<link, svc>>

(* The call raises in the caller: an RPC_EXC reply was read, or send/recv
   failed.  In the second case the call, or its reply, is left behind. *)
Raises ==
    /\ \/ rpc.kind = "exc" /\ link # "reset" /\ rpc' = NoCall
       \/ link = "closed" /\ rpc.kind \in {"idle", "call"} /\ UNCHANGED rpc
       \/ link = "reset" /\ UNCHANGED rpc
    /\ UNCHANGED <<link, svc>>

(* The source process is gone: its sockets are closed, and a reply that was
   never read turns the FIN into a RST. *)
CallerCloses ==
    /\ link' = IF link # "up" THEN link
               ELSE IF rpc.kind \in {"resp", "exc"} THEN "reset" ELSE "closed"
    /\ UNCHANGED <<rpc, svc>>

-----------------------------------------------------------------------------
(* The server *)

Serving(fn) == svc = "serving" /\ rpc.kind = "call" /\ rpc.fn = fn

(* The reply is sent outside the try block: on a reset connection the send
   raises out of work() and ends the thread, the call has run all the same. *)
ServerAfterSend(s) == IF link = "reset" THEN "dead" ELSE s

Reply(kind, v) ==
    /\ rpc' = [rpc EXCEPT !.kind = kind, !.val = v]
    /\ svc' = ServerAfterSend("serving")
    /\ UNCHANGED link

Answers == Reply("resp", FALSE)
Refuses == Reply("exc", FALSE)

ServeInitRpc ==
    /\ svc = "fresh" /\ rpc.kind = "call" /\ rpc.fn = "init_rpc"
    /\ rpc' = [rpc EXCEPT !.kind = "resp"]
    /\ svc' = ServerAfterSend("serving")
    /\ UNCHANGED link

ReadsEOFBug == link = "closed" /\ svc \in {"fresh", "serving"} /\ rpc.kind = "idle"

(* recv returns no data: every byte sent before the FIN has been served. *)
ReadsEOF == link = "closed" /\ svc \in {"fresh", "serving"} /\ rpc.kind # "call"

(* recv raises on a reset connection, the exception leaves loop(), run() logs
   it and the thread ends: nobody calls on_disconnect. *)
ServerRecvFails ==
    /\ link = "reset"
    /\ svc \in {"fresh", "serving"}
    /\ svc' = "dead"
    /\ UNCHANGED <<link, rpc>>

-----------------------------------------------------------------------------
(* The environment *)

LinkResets == link = "up" /\ link' = "reset" /\ UNCHANGED <<rpc, svc>>

(* SIGTERM closes stop_fd, the loop ends between two calls and the process
   closes its sockets; SIGKILL also ends a handler that has not yet sent its
   reply, which "reset" stands for.  Neither calls on_disconnect. *)
ServiceDies ==
    /\ svc \in {"fresh", "serving"}
    /\ svc' = "dead"
    /\ IF link = "up" THEN link' \in {"closed", "reset"} ELSE UNCHANGED link
    /\ UNCHANGED rpc

-----------------------------------------------------------------------------
(* The connection alone: what either program may do to it.  The compositions
   take these steps with their own; ServiceProgram is shown to take no other. *)
EndsAtEOF ==
    /\ ReadsEOF
    /\ svc' \in {"closed", "dead"}
    /\ UNCHANGED <<link, rpc>>

LinkNext ==
    \/ \E fn \in Calls : Send(fn, FALSE) \/ (Serving(fn) /\ (Answers \/ Refuses))
    \/ Returns \/ Raises \/ CallerCloses
    \/ ServeInitRpc \/ EndsAtEOF \/ ServerRecvFails
    \/ LinkResets \/ ServiceDies
=============================================================================

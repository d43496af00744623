---------------------------- MODULE WrapService ----------------------------
(***************************************************************************)
(* "p.haul-wrap service": it accepts connections, takes every two for the  *)
(* rpc and the memory socket of one client, and starts a p.haul-service    *)
(* with their descriptor numbers.  A client is "p.haul-wrap client" or a   *)
(* request to migrate of the web interface: it connects twice, then runs   *)
(* p.haul.                                                                 *)
(*                                                                         *)
(* The wrapper is one process: a descriptor table, a main thread that      *)
(* accepts, and a thread per service that calls os.system.  A service is   *)
(* a copy of the table as it is when that thread gets to fork.             *)
(***************************************************************************)
EXTENDS Integers, Sequences, FiniteSets, FiniteSetsExt, Functions

CONSTANTS
    Clients,   \* who connects, each at most once
    Backlog,   \* connections the listening socket keeps
    OneShots   \* the values of --one-shot to consider

ASSUME WrapAssumption ==
    /\ IsFiniteSet(Clients)
    /\ Backlog \in Nat \ {0}
    /\ OneShots \subseteq BOOLEAN

VARIABLES
    one_shot,  \* args.one_shot; constant
    main,      \* the wrapper's main thread
    client,    \* where each client stands
    arrived,   \* the connections made, in order
    accepted,  \* how many of them the wrapper has accepted
    fds,       \* the wrapper's descriptor table: the connections it has open
    sks,       \* connection_sks, as descriptor numbers
    services   \* the services started, in order

vars == <<one_shot, main, client, arrived, accepted, fds, sks, services>>

Conns == [client : Clients, sock : {"rpc", "mem"}]

(* Enough numbers for every connection, whatever is closed in between. *)
Fds == 1..2 * Cardinality(Clients) + 1
NoFd == 0

Tables == UNION {[used -> Conns] : used \in SUBSET Fds}

EmptyTable == [fd \in {} |-> NoFd]

(* "fd" are the numbers on the command line; "late" tells whether the wrapper
   accepted another connection before the fork. *)
Service(st, fd, late, table) == [st |-> st, fd |-> fd, late |-> late, table |-> table]

Services == [st : {"started", "running", "dead"}, fd : [1..2 -> Fds], late : BOOLEAN,
             table : Tables]

Running == {k \in DOMAIN services : services[k].st = "running"}

TypeOK ==
    /\ one_shot \in OneShots
    /\ main \in {"accept", "wait", "returned"}
    /\ client \in [Clients -> {"start", "half", "connected", "served", "gone"}]
    /\ arrived \in Seq(Conns)
    /\ accepted \in 0..Len(arrived)
    /\ fds \in Tables /\ Cardinality(DOMAIN fds) <= 2
    /\ sks \in [1..2 -> Fds \cup {NoFd}]
    /\ services \in Seq(Services)

Init ==
    /\ one_shot \in OneShots
    /\ main = "accept"
    /\ client = [c \in Clients |-> "start"]
    /\ arrived = <<>>
    /\ accepted = 0
    /\ fds = EmptyTable
    /\ sks = [i \in 1..2 |-> NoFd]
    /\ services = <<>>

-----------------------------------------------------------------------------
(* The clients *)

(* The kernel completes the connection; accept comes later. *)
Connect(c) ==
    /\ client[c] \in {"start", "half"}
    /\ main # "returned"
    /\ Len(arrived) - accepted < Backlog
    /\ arrived' = Append(arrived, [client |-> c,
                                   sock |-> IF client[c] = "start" THEN "rpc" ELSE "mem"])
    /\ client' = [client EXCEPT ![c] = IF @ = "start" THEN "half" ELSE "connected"]
    /\ UNCHANGED <<one_shot, main, accepted, fds, sks, services>>

ConnectRefused(c) ==
    /\ client[c] \in {"start", "half"}
    /\ main = "returned"
    /\ client' = [client EXCEPT ![c] = "gone"]
    /\ UNCHANGED <<one_shot, main, arrived, accepted, fds, sks, services>>

(* A client that is interrupted leaves the connections it has made. *)
Quits(c) ==
    /\ client[c] \in {"half", "connected"}
    /\ client' = [client EXCEPT ![c] = "gone"]
    /\ UNCHANGED <<one_shot, main, arrived, accepted, fds, sks, services>>

(* Some process on this side has the connection open, or will accept it. *)
Open(conn) ==
    \/ conn \in Range(fds)
    \/ \E k \in Running : conn \in Range(services[k].table)
    \/ main # "returned" /\ \E n \in accepted + 1 .. Len(arrived) : arrived[n] = conn

SeesEOF(c) ==
    /\ client[c] = "connected"
    /\ ~Open([client |-> c, sock |-> "rpc"])
    /\ client' = [client EXCEPT ![c] = "gone"]
    /\ UNCHANGED <<one_shot, main, arrived, accepted, fds, sks, services>>

-----------------------------------------------------------------------------
(* The wrapper *)

Turn == (accepted % 2) + 1

SlotBug == 2 - (accepted % 2)

(* The place in connection_sks: the rpc socket's, then the memory socket's. *)
Slot == Turn

LowestFree == Min(Fds \ DOMAIN fds)

DisplacedBug == {}

(* The assignment to the slot drops, and so closes, the socket in it. *)
Displaced == {sks[Slot]}

MainAfterStartBug == "wait"

MainAfterStart == IF one_shot THEN "wait" ELSE "accept"

AcceptInto(fd) ==
    /\ fds' = [f \in (DOMAIN fds \cup {fd}) \ Displaced |->
                  IF f = fd THEN arrived[accepted + 1] ELSE fds[f]]
    /\ sks' = [sks EXCEPT ![Slot] = fd]
    /\ accepted' = accepted + 1

Overtaken == [k \in DOMAIN services |->
                 [services[k] EXCEPT !.late = (@ \/ services[k].st = "started")]]

AcceptFirst ==
    /\ main = "accept" /\ accepted < Len(arrived) /\ Turn = 1
    /\ AcceptInto(LowestFree)
    /\ services' = Overtaken
    /\ UNCHANGED <<one_shot, main, client, arrived>>

(* With the second socket the command line is complete and a service started. *)
AcceptSecond ==
    /\ main = "accept" /\ accepted < Len(arrived) /\ Turn = 2
    /\ AcceptInto(LowestFree)
    /\ services' = Append(Overtaken, Service("started", sks', FALSE, EmptyTable))
    /\ main' = MainAfterStart
    /\ UNCHANGED <<one_shot, client, arrived>>

(* os.system forks and p.haul-service makes its sockets of the two numbers; a
   number that is not open ends it there. *)
Fork(k) ==
    /\ services[k].st = "started"
    /\ services' = [services EXCEPT ![k] =
          IF Range(@.fd) \subseteq DOMAIN fds
          THEN Service("running", @.fd, @.late, fds)
          ELSE Service("dead", @.fd, @.late, EmptyTable)]
    /\ UNCHANGED <<one_shot, main, client, arrived, accepted, fds, sks>>

(* The connections a service works with. *)
RpcOf(k) == services[k].table[services[k].fd[1]]
MemOf(k) == services[k].table[services[k].fd[2]]

(* The client's p.haul gets its answers from the service that has its rpc
   socket, and ends; the service itself stays until it is told to stop. *)
Serve(k) ==
    /\ k \in Running
    /\ RpcOf(k).sock = "rpc"
    /\ client[RpcOf(k).client] = "connected"
    /\ client' = [client EXCEPT ![RpcOf(k).client] = "served"]
    /\ UNCHANGED <<one_shot, main, arrived, accepted, fds, sks, services>>

Dies(k) ==
    /\ k \in Running
    /\ services' = [services EXCEPT ![k] = Service("dead", @.fd, @.late, EmptyTable)]
    /\ UNCHANGED <<one_shot, main, client, arrived, accepted, fds, sks>>

(* With --one-shot os.system runs in the main thread, and the wrapper ends with
   the service. *)
Returns ==
    /\ main = "wait" /\ services[1].st = "dead"
    /\ main' = "returned"
    /\ fds' = EmptyTable
    /\ UNCHANGED <<one_shot, client, arrived, accepted, sks, services>>

Next ==
    \/ \E c \in Clients : Connect(c) \/ ConnectRefused(c) \/ Quits(c) \/ SeesEOF(c)
    \/ AcceptFirst \/ AcceptSecond \/ Returns
    \/ \E k \in DOMAIN services : Fork(k) \/ Serve(k) \/ Dies(k)

Spec == Init /\ [][Next]_vars

(* Every service takes two connections: there are no more than clients.  A client
   need not connect, and a service need not die. *)
FairSpec ==
    /\ Spec
    /\ WF_vars(AcceptFirst \/ AcceptSecond \/ Returns)
    /\ \A c \in Clients : WF_vars(SeesEOF(c))
    /\ \A k \in 1..Cardinality(Clients) :
          WF_vars(k \in DOMAIN services /\ (Fork(k) \/ Serve(k)))

-----------------------------------------------------------------------------
(* Properties *)

(* The k-th service is started for two connections of one client: nobody else
   connected between them, and no client before it gave up halfway. *)
InOrder(k) == arrived[2 * k - 1].client = arrived[2 * k].client

(* A service works with the two connections it was started for, which are the
   rpc and the memory socket of one client, provided that the clients connected
   one after the other and that os.system forked before the next accept: the
   numbers on the command line mean nothing later (p.haul-wrap:49-67).  The
   types, and that the wrapper never keeps more than two sockets, are part of it. *)
OwnSockets ==
    /\ TypeOK
    /\ \A k \in Running :
          InOrder(k) /\ ~services[k].late =>
              /\ RpcOf(k) = arrived[2 * k - 1] /\ RpcOf(k).sock = "rpc"
              /\ MemOf(k) = arrived[2 * k] /\ MemOf(k).sock = "mem"

(* The wrapper keeps the sockets of a service that died, so its client goes on
   waiting, but only until it has accepted the next connection; none is kept for
   longer but by a service that was forked late (p.haul-wrap:51). *)
HeldUntilNext ==
    \A k \in DOMAIN services :
        services[k].st = "dead" /\ Open(arrived[2 * k - 1]) =>
            (accepted <= 2 * k) \/ (\E l \in Running : services[l].late)

(* Why a client with two connections may get neither an answer nor an end of
   file: it was paired with somebody else, the fork was late, the service died
   and the wrapper holds its socket, or the wrapper is busy with --one-shot. *)
Stranded(c) ==
    \E k \in 1..Cardinality(Clients) :
        /\ 2 * k <= Len(arrived)
        /\ [client |-> c, sock |-> "rpc"] \in {arrived[2 * k - 1], arrived[2 * k]}
        /\ \/ ~InOrder(k)
           \/ (one_shot /\ main = "wait" /\ k > 1)
           \/ /\ k \in DOMAIN services
              /\ \/ services[k].late
                 \/ /\ services[k].st = "dead"
                    /\ arrived[2 * k - 1] \in Range(fds)

(* Every other client is served or learns that it will not be
   (p.haul-wrap:48-67, webgui/p_haul_web_gui.py:74-90). *)
Answered ==
    \A c \in Clients :
        client[c] = "connected" ~> client[c] # "connected" \/ Stranded(c)

-----------------------------------------------------------------------------
(* The inductive invariant behind OwnSockets and HeldUntilNext *)

(* A client's rpc connection comes before its memory connection, each once. *)
ArrivedInOrder ==
    \A n \in DOMAIN arrived :
        LET c == arrived[n].client
        IN  /\ client[c] # "start"
            /\ client[c] = "half" => arrived[n].sock = "rpc"
            /\ \A m \in 1..n - 1 :
                  arrived[m].client = c => arrived[m].sock = "rpc" /\ arrived[n].sock = "mem"

(* A service for every two connections accepted, and but one with --one-shot. *)
ServicePerPair ==
    /\ accepted \in {2 * Len(services), 2 * Len(services) + 1}
    /\ IF main = "accept" THEN one_shot => services = <<>>
                          ELSE one_shot /\ Len(services) = 1 /\ accepted = 2
    /\ main = "returned" => services[1].st = "dead" /\ fds = EmptyTable

(* The last connection that went into a slot of connection_sks, below 1 if none. *)
Latest(i) ==
    IF i = 1 THEN 2 * Len(services) + (IF accepted = 2 * Len(services) THEN -1 ELSE 1)
             ELSE 2 * Len(services)

(* The wrapper has the two latest connections open and no other. *)
LatestOpen ==
    main # "returned" =>
        /\ DOMAIN fds = {sks[1], sks[2]} \ {NoFd}
        /\ sks[1] = sks[2] => sks[1] = NoFd
        /\ \A i \in 1..2 :
              IF Latest(i) < 1 THEN sks[i] = NoFd
              ELSE sks[i] \in DOMAIN fds /\ fds[sks[i]] = arrived[Latest(i)]

(* The numbers of the newest service are in connection_sks until the next accept;
   forked by then, it has its own two connections open and no other. *)
TimelyFork ==
    \A k \in DOMAIN services : ~services[k].late =>
        /\ services[k].st = "started" => accepted = 2 * k /\ services[k].fd = sks
        /\ services[k].st = "running" =>
              /\ DOMAIN services[k].table = Range(services[k].fd)
              /\ RpcOf(k) = arrived[2 * k - 1] /\ MemOf(k) = arrived[2 * k]

WrapInv == ArrivedInOrder /\ ServicePerPair /\ LatestOpen /\ TimelyFork
=============================================================================

-------------------------- MODULE WrapServiceProofs --------------------------
(* Proofs about WrapService, for any finite set of clients and any backlog. *)
EXTENDS WrapService, FiniteSetTheorems, TLAPS

(* What is used of the types: each service is a record, the table a function. *)
LEMMA Typed ==
    ASSUME TypeOK
    PROVE  /\ Len(arrived) \in Nat /\ DOMAIN arrived = 1..Len(arrived)
           /\ \A n \in 1..Len(arrived) :
                 /\ arrived[n] \in Conns /\ arrived[n].client \in Clients
                 /\ arrived[n].sock \in {"rpc", "mem"}
                 /\ arrived[n] = [client |-> arrived[n].client, sock |-> arrived[n].sock]
           /\ accepted \in Nat /\ accepted <= Len(arrived)
           /\ DOMAIN fds \subseteq Fds /\ \A f \in DOMAIN fds : fds[f] \in Conns
           /\ Len(services) \in Nat /\ DOMAIN services = 1..Len(services)
           /\ \A k \in DOMAIN services : services[k] \in Services
<1>1. /\ Len(arrived) \in Nat /\ DOMAIN arrived = 1..Len(arrived)
      /\ \A n \in 1..Len(arrived) : arrived[n] \in Conns
  BY DEF TypeOK
<1>2. \A c \in Conns : c.client \in Clients /\ c.sock \in {"rpc", "mem"}
                       /\ c = [client |-> c.client, sock |-> c.sock]
  BY DEF Conns
<1>3. DOMAIN fds \subseteq Fds /\ \A f \in DOMAIN fds : fds[f] \in Conns
  <2>1. PICK used \in SUBSET Fds : fds \in [used -> Conns]
    BY DEF TypeOK, Tables
  <2>. QED
    BY <2>1
<1>4. /\ Len(services) \in Nat /\ DOMAIN services = 1..Len(services)
      /\ \A k \in DOMAIN services : services[k] \in Services
  BY DEF TypeOK
<1>5. accepted \in Nat /\ accepted <= Len(arrived)
  BY <1>1 DEF TypeOK
<1>. QED
  BY <1>1, <1>2, <1>3, <1>4, <1>5

(* A function from descriptors to connections is a table. *)
LEMMA TableType ==
    ASSUME NEW used \in SUBSET Fds, NEW f \in [used -> Conns]
    PROVE  f \in Tables
  BY DEF Tables

(* No more than two descriptors. *)
LEMMA TwoFds ==
    ASSUME NEW S, NEW a, NEW b, S \subseteq {a, b}
    PROVE  Cardinality(S) <= 2
<1>1. IsFiniteSet({a}) /\ Cardinality({a}) = 1
  BY FS_Singleton
<1>2. IsFiniteSet({a} \cup {b}) /\ Cardinality({a} \cup {b}) \in {1, 2}
  BY <1>1, FS_AddElement
<1>3. {a, b} = {a} \cup {b}
  OBVIOUS
<1>4. Cardinality(S) <= Cardinality({a, b}) /\ Cardinality(S) \in Nat
  BY <1>2, <1>3, FS_Subset, FS_CardinalityType
<1>. QED
  BY <1>2, <1>3, <1>4

(* The lowest free number exists, for two are in use at most, and is free. *)
LEMMA FreeFd ==
    ASSUME TypeOK, accepted < Len(arrived), DOMAIN fds \subseteq {sks[1], sks[2]}
    PROVE  LowestFree \in Fds /\ LowestFree \notin DOMAIN fds /\ LowestFree # NoFd
<1>1. Clients # {}
  BY Typed
<1>2. Cardinality(Clients) \in Nat /\ Cardinality(Clients) # 0
  BY <1>1, WrapAssumption, FS_EmptySet, FS_CardinalityType
<1> DEFINE free == Fds \ DOMAIN fds
<1>3. \A n \in Fds : n \in Nat /\ n >= 1
  BY <1>2 DEF Fds
<1>4. 1 \in Fds /\ 2 \in Fds /\ 3 \in Fds
  BY <1>2 DEF Fds
<1>5. 1 \in free \/ 2 \in free \/ 3 \in free
  BY <1>4
<1>6. \A n \in free : n \in Nat /\ n >= 1
  BY <1>3
<1> HIDE DEF free
<1>7. \E n \in free : \A m \in free : n =< m
  <2>1. CASE 1 \in free
    BY <1>6, <2>1
  <2>2. CASE 1 \notin free /\ 2 \in free
    <3>1. \A m \in free : 2 =< m
      BY <1>6, <2>2
    <3>. QED
      BY <2>2, <3>1
  <2>3. CASE 1 \notin free /\ 2 \notin free
    <3>1. \A m \in free : 3 =< m
      BY <1>6, <2>3
    <3>. QED
      BY <1>5, <2>3, <3>1
  <2>. QED
    BY <2>1, <2>2, <2>3
<1>8. LowestFree \in free
  BY <1>7 DEF LowestFree, Min, free
<1>. QED
  BY <1>6, <1>8 DEF free, NoFd

(* An accept makes every service late that is not forked, and changes nothing else. *)
LEMMA OvertakenFacts ==
    ASSUME TypeOK
    PROVE  /\ Overtaken \in Seq(Services) /\ Len(Overtaken) = Len(services)
           /\ \A k \in 1..Len(services) :
                 Overtaken[k] = [services[k] EXCEPT !.late =
                                    (@ \/ services[k].st = "started")]
<1>1. \A k \in 1..Len(services) : Overtaken[k] \in Services
  BY Typed DEF Overtaken, Services
<1>2. DOMAIN Overtaken = 1..Len(services)
  BY Typed DEF Overtaken
<1>3. Overtaken = [k \in 1..Len(services) |-> Overtaken[k]]
  BY <1>2 DEF Overtaken
<1>4. Overtaken \in Seq(Services)
  BY <1>1, <1>3, Typed
<1>. QED
  BY <1>2, <1>4, Typed DEF Overtaken

(* Even and odd. *)
LEMMA Parity == \A n \in Nat : (2 * n) % 2 = 0 /\ (2 * n + 1) % 2 = 1
  OBVIOUS

(* Which slot the next connection goes into. *)
LEMMA TurnFacts ==
    ASSUME TypeOK, ServicePerPair
    PROVE  Turn = IF accepted = 2 * Len(services) THEN 1 ELSE 2
<1> DEFINE n == Len(services)
<1>1. n \in Nat
  BY Typed
<1>2. (2 * n) % 2 = 0 /\ (2 * n + 1) % 2 = 1
  BY <1>1, Parity
<1>3. accepted = 2 * n \/ (accepted = 2 * n + 1 /\ accepted # 2 * n)
  BY <1>1 DEF ServicePerPair
<1> HIDE DEF n
<1>4. accepted % 2 = (IF accepted = 2 * n THEN 0 ELSE 1)
  BY <1>2, <1>3
<1>. QED
  BY <1>4 DEF Turn, n

(* What an accept does to the descriptors. *)
LEMMA AcceptFacts ==
    ASSUME TypeOK, WrapInv, AcceptFirst \/ AcceptSecond
    PROVE  LET fd == LowestFree
           IN  /\ main = "accept" /\ accepted' = accepted + 1 /\ accepted < Len(arrived)
               /\ fd \in Fds /\ fd \notin DOMAIN fds /\ fd # NoFd
               /\ sks' = [sks EXCEPT ![Turn] = fd]
               /\ DOMAIN fds' = (DOMAIN fds \ {sks[Turn]}) \cup {fd}
               /\ fds'[fd] = arrived[accepted + 1]
               /\ \A f \in DOMAIN fds' \ {fd} : f \in DOMAIN fds /\ fds'[f] = fds[f]
               /\ fds' \in Tables
               /\ UNCHANGED <<one_shot, client, arrived>>
<1> DEFINE fd == LowestFree
<1>1. /\ main = "accept" /\ accepted < Len(arrived) /\ AcceptInto(fd)
      /\ UNCHANGED <<one_shot, client, arrived>>
  BY DEF AcceptFirst, AcceptSecond
<1>2. DOMAIN fds = {sks[1], sks[2]} \ {NoFd}
  BY <1>1 DEF WrapInv, LatestOpen
<1>3. fd \in Fds /\ fd \notin DOMAIN fds /\ fd # NoFd
  BY <1>1, <1>2, FreeFd
<1>4. Turn \in 1..2
  BY TurnFacts DEF WrapInv
<1>5. fd # sks[Turn]
  BY <1>2, <1>3, <1>4
<1> HIDE DEF fd
<1>6. /\ fds' = [f \in (DOMAIN fds \cup {fd}) \ {sks[Turn]} |->
                     IF f = fd THEN arrived[accepted + 1] ELSE fds[f]]
      /\ sks' = [sks EXCEPT ![Turn] = fd] /\ accepted' = accepted + 1
  BY <1>1 DEF AcceptInto, Displaced, Slot
<1>7. DOMAIN fds' = (DOMAIN fds \ {sks[Turn]}) \cup {fd}
  BY <1>5, <1>6
<1>8. /\ fds'[fd] = arrived[accepted + 1]
      /\ \A f \in DOMAIN fds' \ {fd} : f \in DOMAIN fds /\ fds'[f] = fds[f]
  BY <1>6, <1>7
<1>9. fds' \in Tables
  <2>1. DOMAIN fds' \in SUBSET Fds
    BY <1>3, <1>7, Typed
  <2>2. arrived[accepted + 1] \in Conns
    BY <1>1, Typed
  <2>3. \A f \in DOMAIN fds' : fds'[f] \in Conns
    BY <1>8, <2>2, Typed
  <2>4. fds' = [f \in DOMAIN fds' |-> fds'[f]]
    BY <1>6
  <2>5. fds' \in [DOMAIN fds' -> Conns]
    BY <2>3, <2>4
  <2>. QED
    BY <2>1, <2>5, TableType
<1>. QED
  BY <1>1, <1>3, <1>6, <1>7, <1>8, <1>9 DEF fd

(* What an accept does to the services. *)
LEMMA AcceptServices ==
    ASSUME TypeOK, WrapInv, AcceptFirst \/ AcceptSecond
    PROVE  /\ services' \in Seq(Services)
           /\ \/ /\ AcceptFirst /\ Len(services') = Len(services) /\ main' = main
                 /\ accepted = 2 * Len(services)
              \/ /\ AcceptSecond /\ Len(services') = Len(services) + 1
                 /\ services'[Len(services) + 1] = Service("started", sks', FALSE, EmptyTable)
                 /\ main' = MainAfterStart /\ accepted = 2 * Len(services) + 1
           /\ \A k \in 1..Len(services) :
                 services'[k] = [services[k] EXCEPT !.late = (@ \/ services[k].st = "started")]
<1>1. /\ Overtaken \in Seq(Services) /\ Len(Overtaken) = Len(services)
      /\ \A k \in 1..Len(services) :
            Overtaken[k] = [services[k] EXCEPT !.late = (@ \/ services[k].st = "started")]
  BY OvertakenFacts
<1>2. Len(services) \in Nat
  BY Typed
<1>3. CASE AcceptFirst
  <2>1. accepted = 2 * Len(services)
    BY <1>3, TurnFacts DEF AcceptFirst, WrapInv
  <2>. QED
    BY <1>1, <1>3, <2>1 DEF AcceptFirst
<1>4. CASE AcceptSecond
  <2>1. accepted = 2 * Len(services) + 1
    BY <1>4, TurnFacts DEF AcceptSecond, WrapInv, ServicePerPair
  <2>2. Latest(1) >= 1 /\ Turn = 2
    BY <1>2, <2>1, TurnFacts DEF Latest, WrapInv
  <2>3. sks[1] \in Fds
    <3>1. main # "returned" /\ ~(Latest(1) < 1) /\ 1 \in 1..2
      BY <1>2, <1>4, <2>2 DEF AcceptSecond, Latest
    <3>2. sks[1] \in DOMAIN fds
      BY <3>1 DEF WrapInv, LatestOpen
    <3>. QED
      BY <3>2, Typed
  <2>4. sks' \in [1..2 -> Fds]
    <3>1. sks' = [sks EXCEPT ![2] = LowestFree] /\ LowestFree \in Fds
      BY <2>2, AcceptFacts
    <3>2. sks' = [i \in 1..2 |-> IF i = 2 THEN LowestFree ELSE sks[i]]
      BY <3>1 DEF TypeOK
    <3>3. \A i \in 1..2 : (IF i = 2 THEN LowestFree ELSE sks[i]) \in Fds
      BY <2>3, <3>1
    <3>. QED
      BY <3>2, <3>3
  <2>5. EmptyTable \in Tables
    <3>1. EmptyTable \in [{} -> Conns]
      BY DEF EmptyTable
    <3>. QED
      BY <3>1, TableType
  <2>6. Service("started", sks', FALSE, EmptyTable) \in Services
    BY <2>4, <2>5 DEF Service, Services
  <2>7. services' = Append(Overtaken, Service("started", sks', FALSE, EmptyTable))
    BY <1>4 DEF AcceptSecond
  <2>8. /\ services' \in Seq(Services) /\ Len(services') = Len(services) + 1
        /\ services'[Len(services) + 1] = Service("started", sks', FALSE, EmptyTable)
        /\ \A k \in 1..Len(services) : services'[k] = Overtaken[k]
    <3> DEFINE new == Service("started", sks', FALSE, EmptyTable)
    <3> HIDE DEF new
    <3>1. Overtaken \in Seq(Services) /\ new \in Services /\ services' = Append(Overtaken, new)
      BY <1>1, <2>6, <2>7 DEF new
    <3>2. /\ services' \in Seq(Services) /\ Len(services') = Len(Overtaken) + 1
          /\ services'[Len(Overtaken) + 1] = new
          /\ \A k \in 1..Len(Overtaken) : services'[k] = Overtaken[k]
      BY <3>1
    <3>. QED
      BY <1>1, <3>2 DEF new
  <2>9. main' = MainAfterStart
    BY <1>4 DEF AcceptSecond
  <2>. QED
    BY <1>1, <1>4, <2>1, <2>8, <2>9
<1>. QED
  BY <1>3, <1>4

-----------------------------------------------------------------------------
(* A step that only clients take leaves the wrapper and the services alone. *)
LEMMA ClientStep ==
    ASSUME TypeOK, WrapInv, UNCHANGED <<one_shot, main, accepted, fds, sks, services>>,
           \/ arrived' = arrived
           \/ \E conn \in Conns : arrived' = Append(arrived, conn)
    PROVE  ServicePerPair' /\ LatestOpen' /\ TimelyFork'
<1>1. \A n \in 1..Len(arrived) : arrived'[n] = arrived[n]
  BY Typed DEF TypeOK
<1>2. 2 * Len(services) <= Len(arrived) /\ Len(services) \in Nat
  BY Typed DEF WrapInv, ServicePerPair
<1>3. \A i \in 1..2 : Latest(i)' = Latest(i) /\ Latest(i) \in Int /\ Latest(i) <= accepted
  BY <1>2, Typed DEF WrapInv, ServicePerPair, Latest
<1>4. ServicePerPair'
  BY DEF WrapInv, ServicePerPair
<1>5. LatestOpen'
  BY <1>1, <1>3, Typed DEF WrapInv, LatestOpen
<1>6. TimelyFork'
  <2>1. \A k \in DOMAIN services : 2 * k \in 1..Len(arrived) /\ 2 * k - 1 \in 1..Len(arrived)
    BY <1>2, Typed
  <2>. QED
    BY <1>1, <2>1 DEF WrapInv, TimelyFork, RpcOf, MemOf
<1>. QED
  BY <1>4, <1>5, <1>6

(* A client that has the rpc connection makes the memory connection next. *)
LEMMA ArrivalStep ==
    ASSUME TypeOK, ArrivedInOrder, [Next]_vars
    PROVE  ArrivedInOrder'
<1> USE Typed
<1>1. CASE \E c \in Clients : Connect(c)
  <2>1. PICK c \in Clients : Connect(c)
    BY <1>1
  <2> DEFINE last == Len(arrived) + 1
             conn == [client |-> c, sock |-> IF client[c] = "start" THEN "rpc" ELSE "mem"]
  <2>2. /\ DOMAIN arrived' = 1..last /\ arrived'[last] = conn
        /\ \A n \in 1..Len(arrived) : arrived'[n] = arrived[n]
    <3>1. conn \in Conns /\ arrived' = Append(arrived, conn)
      BY <2>1 DEF Connect, Conns
    <3>. QED
      BY <3>1 DEF TypeOK
  <2>3. \A d \in Clients : client'[d] =
            IF d # c THEN client[d] ELSE IF client[c] = "start" THEN "half" ELSE "connected"
    BY <2>1 DEF Connect, TypeOK
  <2>4. client[c] \in {"start", "half"}
    BY <2>1 DEF Connect
  <2>5. conn.client = c /\ conn.sock = (IF client[c] = "start" THEN "rpc" ELSE "mem")
    OBVIOUS
  <2> HIDE DEF conn
  <2>6. ASSUME NEW n \in 1..Len(arrived)
        PROVE  /\ arrived'[n] = arrived[n] /\ arrived[n].client \in Clients
               /\ client'[arrived[n].client] # "start"
               /\ client'[arrived[n].client] = "half" => arrived[n].sock = "rpc"
               /\ \A m \in 1..n - 1 : arrived'[m] = arrived[m]
    <3>1. client[arrived[n].client] # "start"
      BY DEF ArrivedInOrder
    <3>2. client[arrived[n].client] = "half" => arrived[n].sock = "rpc"
      BY DEF ArrivedInOrder
    <3>. QED
      BY <2>2, <2>3, <2>4, <3>1, <3>2
  <2>7. ASSUME NEW m \in 1..Len(arrived), arrived[m].client = c
        PROVE  client[c] = "half" /\ arrived[m].sock = "rpc"
    BY <2>4, <2>7 DEF ArrivedInOrder
  <2>8. \A n \in 1..Len(arrived) :
            LET d == arrived[n].client
            IN  \A m \in 1..n - 1 :
                   arrived[m].client = d => arrived[m].sock = "rpc" /\ arrived[n].sock = "mem"
    BY DEF ArrivedInOrder
  <2>9. client'[c] # "start" /\ (client'[c] = "half" => conn.sock = "rpc")
    BY <2>3, <2>4, <2>5
  <2>10. \A m \in 1..last - 1 : /\ arrived'[m] = arrived[m]
                                /\ arrived[m].client = c => arrived[m].sock = "rpc" /\ conn.sock = "mem"
    BY <2>2, <2>5, <2>7
  <2>11. ASSUME NEW n \in DOMAIN arrived'
         PROVE  LET d == arrived'[n].client
                IN  /\ client'[d] # "start"
                    /\ client'[d] = "half" => arrived'[n].sock = "rpc"
                    /\ \A m \in 1..n - 1 : arrived'[m].client = d =>
                          arrived'[m].sock = "rpc" /\ arrived'[n].sock = "mem"
    <3>1. CASE n = last
      BY <2>2, <2>5, <2>9, <2>10, <3>1
    <3>2. CASE n # last
      <4>1. n \in 1..Len(arrived)
        BY <2>2, <3>2
      <4>. QED
        BY <2>6, <2>8, <4>1
    <3>. QED
      BY <3>1, <3>2
  <2>. QED
    BY <2>11 DEF ArrivedInOrder
<1>2. CASE UNCHANGED arrived /\ \A c \in Clients : client'[c] \in {client[c], "gone", "served"}
  BY <1>2 DEF ArrivedInOrder
<1>3. \/ /\ UNCHANGED arrived
         /\ \A c \in Clients : client'[c] \in {client[c], "gone", "served"}
      \/ \E c \in Clients : Connect(c)
  <2>1. CASE \E c \in Clients : ConnectRefused(c) \/ Quits(c) \/ SeesEOF(c)
    BY <2>1 DEF ConnectRefused, Quits, SeesEOF, TypeOK
  <2>2. CASE \E k \in DOMAIN services : Fork(k) \/ Serve(k) \/ Dies(k)
    BY <2>2 DEF Fork, Serve, Dies, TypeOK
  <2>3. CASE AcceptFirst \/ AcceptSecond \/ Returns \/ UNCHANGED vars
    BY <2>3 DEF AcceptFirst, AcceptSecond, Returns, vars
  <2>. QED
    BY <2>1, <2>2, <2>3 DEF Next
<1>. QED
  BY <1>1, <1>2, <1>3

-----------------------------------------------------------------------------
(* An accept puts the newest connection into its slot and keeps the other. *)
LEMMA AcceptStep ==
    ASSUME TypeOK, WrapInv, AcceptFirst \/ AcceptSecond
    PROVE  ServicePerPair' /\ LatestOpen' /\ TimelyFork'
<1> DEFINE n == Len(services)
<1>0. n \in Nat /\ accepted \in {2 * n, 2 * n + 1} /\ main = "accept"
  BY Typed, AcceptFacts DEF WrapInv, ServicePerPair
<1>1. ServicePerPair'
  <2>1. accepted' = accepted + 1 /\ UNCHANGED one_shot /\ (one_shot => services = <<>>)
    BY <1>0, AcceptFacts DEF WrapInv, ServicePerPair
  <2>2. CASE AcceptFirst /\ Len(services') = n /\ main' = main /\ accepted = 2 * n
    <3>1. one_shot => services' = <<>>
      BY <2>1, <2>2, AcceptServices
    <3>. QED
      BY <1>0, <2>1, <2>2, <3>1 DEF ServicePerPair
  <2>3. CASE AcceptSecond /\ Len(services') = n + 1 /\ main' = MainAfterStart
             /\ accepted = 2 * n + 1
    <3>1. one_shot => n = 0
      BY <2>1
    <3>. QED
      BY <1>0, <2>1, <2>3, <3>1 DEF ServicePerPair, MainAfterStart
  <2>. QED
    BY <2>2, <2>3, AcceptServices
<1>2. LatestOpen'
  <2> DEFINE fd == LowestFree
  <2>1. /\ fd \notin DOMAIN fds /\ fd # NoFd
        /\ sks' = [sks EXCEPT ![Turn] = fd]
        /\ DOMAIN fds' = (DOMAIN fds \ {sks[Turn]}) \cup {fd}
        /\ fds'[fd] = arrived[accepted + 1] /\ accepted' = accepted + 1
        /\ \A f \in DOMAIN fds' \ {fd} : f \in DOMAIN fds /\ fds'[f] = fds[f]
        /\ UNCHANGED arrived
    BY AcceptFacts
  <2> HIDE DEF fd
  <2>2. /\ DOMAIN fds = {sks[1], sks[2]} \ {NoFd}
        /\ sks[1] = sks[2] => sks[1] = NoFd
        /\ \A i \in 1..2 :
              IF Latest(i) < 1 THEN sks[i] = NoFd
              ELSE sks[i] \in DOMAIN fds /\ fds[sks[i]] = arrived[Latest(i)]
    BY <1>0 DEF WrapInv, LatestOpen
  <2>3. \E i, j \in 1..2 :
           /\ i # j /\ Turn = i /\ {i, j} = {1, 2}
           /\ Latest(i)' = accepted + 1 /\ Latest(j)' = Latest(j)
    <3>1. CASE AcceptFirst /\ Len(services') = n /\ accepted = 2 * n
      <4>1. /\ Turn = 1 /\ Latest(1)' = accepted + 1 /\ Latest(2)' = Latest(2)
        BY <1>0, <2>1, <3>1, TurnFacts DEF Latest, WrapInv
      <4>. QED
        BY <4>1
    <3>2. CASE AcceptSecond /\ Len(services') = n + 1 /\ accepted = 2 * n + 1
      <4>1. /\ Turn = 2 /\ Latest(2)' = accepted + 1 /\ Latest(1)' = Latest(1)
        BY <1>0, <2>1, <3>2, TurnFacts DEF Latest, WrapInv
      <4>. QED
        BY <4>1
    <3>. QED
      BY <3>1, <3>2, AcceptServices
  <2>4. PICK i \in 1..2, j \in 1..2 :
           /\ i # j /\ Turn = i /\ {i, j} = {1, 2}
           /\ Latest(i)' = accepted + 1 /\ Latest(j)' = Latest(j)
    BY <2>3
  <2>5. sks'[i] = fd /\ sks'[j] = sks[j]
    BY <2>1, <2>4 DEF TypeOK
  <2>6. DOMAIN fds = {sks[i], sks[j]} \ {NoFd} /\ (sks[i] = sks[j] => sks[i] = NoFd)
    BY <2>2, <2>4
  <2>7. sks[j] # fd
    BY <2>1, <2>6
  <2>8. DOMAIN fds' = {fd, sks[j]} \ {NoFd}
    BY <2>1, <2>4, <2>6
  <2>9. ~(Latest(i)' < 1) /\ sks'[i] \in DOMAIN fds' /\ fds'[sks'[i]] = arrived'[Latest(i)']
    BY <1>0, <2>1, <2>4, <2>5
  <2>10. IF Latest(j)' < 1 THEN sks'[j] = NoFd
         ELSE sks'[j] \in DOMAIN fds' /\ fds'[sks'[j]] = arrived'[Latest(j)']
    <3>1. CASE Latest(j) < 1
      BY <2>2, <2>4, <2>5, <3>1
    <3>2. CASE ~(Latest(j) < 1)
      <4>1. sks[j] \in DOMAIN fds /\ fds[sks[j]] = arrived[Latest(j)]
        BY <2>2, <3>2
      <4>2. sks[j] \in DOMAIN fds' \ {fd}
        BY <2>6, <2>7, <2>8, <4>1
      <4>. QED
        BY <2>1, <2>4, <2>5, <3>2, <4>1, <4>2
    <3>. QED
      BY <3>1, <3>2
  <2>11. \A h \in 1..2 : h = i \/ h = j
    BY <2>4
  <2>12. {sks'[1], sks'[2]} = {fd, sks[j]} /\ sks'[1] # sks'[2]
    BY <2>4, <2>5, <2>7
  <2>. QED
    BY <2>8, <2>9, <2>10, <2>11, <2>12 DEF LatestOpen
<1>3. TimelyFork'
  <2> SUFFICES ASSUME NEW k \in DOMAIN services', ~services'[k].late
               PROVE  /\ services'[k].st = "started" => accepted' = 2 * k /\ services'[k].fd = sks'
                      /\ services'[k].st = "running" =>
                            /\ DOMAIN services'[k].table = Range(services'[k].fd)
                            /\ RpcOf(k)' = arrived'[2 * k - 1] /\ MemOf(k)' = arrived'[2 * k]
    BY DEF TimelyFork
  <2>1. k \in Nat /\ k >= 1 /\ k <= n + 1 /\ (k <= n \/ (AcceptSecond /\ accepted = 2 * n + 1))
    <3>1. DOMAIN services' = 1..Len(services') /\ Len(services') \in Nat
      BY AcceptServices
    <3>2. k \in Nat /\ k >= 1 /\ k <= Len(services')
      BY <3>1
    <3>3. Len(services') = n \/ (Len(services') = n + 1 /\ AcceptSecond /\ accepted = 2 * n + 1)
      BY AcceptServices
    <3>. QED
      BY <1>0, <3>2, <3>3
  <2>2. CASE k <= n
    <3>0. k \in 1..n
      BY <1>0, <2>1, <2>2
    <3>1. /\ k \in DOMAIN services /\ services[k] \in Services
          /\ services'[k] = [services[k] EXCEPT !.late = (@ \/ services[k].st = "started")]
      BY <3>0, AcceptServices, Typed
    <3>2. /\ services'[k].st = services[k].st /\ services'[k].fd = services[k].fd
          /\ services'[k].table = services[k].table
          /\ services'[k].late = (services[k].late \/ services[k].st = "started")
      BY <3>1 DEF Services
    <3>3. services[k].st # "started" /\ ~services[k].late
      BY <3>2
    <3>4. UNCHANGED arrived
      BY AcceptFacts
    <3>. QED
      BY <3>1, <3>2, <3>3, <3>4 DEF WrapInv, TimelyFork, RpcOf, MemOf
  <2>3. CASE k = n + 1 /\ AcceptSecond /\ accepted = 2 * n + 1
    <3>1. services'[k] = Service("started", sks', FALSE, EmptyTable)
      <4>1. accepted # 2 * Len(services)
        BY <1>0, <2>3
      <4>. QED
        BY <2>3, <4>1, AcceptServices
    <3>2. accepted' = 2 * k
      BY <1>0, <2>3, AcceptFacts
    <3>. QED
      BY <3>1, <3>2 DEF Service
  <2>. QED
    BY <1>0, <2>1, <2>2, <2>3
<1>. QED
  BY <1>1, <1>2, <1>3

(* Who changes one service leaves the wrapper alone. *)
LEMMA ServiceStep ==
    ASSUME TypeOK, WrapInv, NEW k \in DOMAIN services, Fork(k) \/ Serve(k) \/ Dies(k)
    PROVE  /\ ServicePerPair' /\ LatestOpen' /\ TimelyFork'
           /\ services' \in Seq(Services)
<1>1. CASE Serve(k)
  <2>1. UNCHANGED <<one_shot, main, arrived, accepted, fds, sks, services>>
    BY <1>1 DEF Serve
  <2>. QED
    BY <2>1, ClientStep DEF TypeOK
<1>2. CASE Fork(k) \/ Dies(k)
  <2>1. UNCHANGED <<one_shot, main, arrived, accepted, fds, sks>>
    BY <1>2 DEF Fork, Dies
  <2>2. services[k] \in Services /\ fds \in Tables /\ EmptyTable \in Tables
    <3>1. EmptyTable \in [{} -> Conns]
      BY DEF EmptyTable
    <3>. QED
      BY <3>1, TableType, Typed DEF TypeOK
  <2>3. \E s \in Services : services' = [services EXCEPT ![k] = s] /\ s.st # "started"
           /\ (services[k].st = "dead" => s.st = "dead")
           /\ (s.st = "running" =>
                  /\ services[k].st = "started" /\ s.fd = services[k].fd
                  /\ s.late = services[k].late /\ s.table = fds
                  /\ Range(services[k].fd) \subseteq DOMAIN fds)
    <3> DEFINE ran  == Service("running", services[k].fd, services[k].late, fds)
               died == Service("dead", services[k].fd, services[k].late, EmptyTable)
    <3>1. ran \in Services /\ died \in Services
      BY <2>2 DEF Service, Services
    <3>2. /\ ran.st = "running" /\ ran.fd = services[k].fd /\ ran.late = services[k].late
          /\ ran.table = fds /\ died.st = "dead"
      BY DEF Service
    <3>3. CASE Dies(k)
      <4>1. services' = [services EXCEPT ![k] = died]
        BY <3>3 DEF Dies
      <4>. QED
        BY <3>1, <3>2, <4>1
    <3>4. CASE Fork(k)
      <4>1. /\ services[k].st = "started"
            /\ services' = [services EXCEPT ![k] =
                  IF Range(services[k].fd) \subseteq DOMAIN fds THEN ran ELSE died]
        BY <3>4 DEF Fork
      <4>. QED
        BY <3>1, <3>2, <4>1
    <3>. QED
      BY <1>2, <3>3, <3>4
  <2>4. PICK s \in Services : services' = [services EXCEPT ![k] = s] /\ s.st # "started"
           /\ (services[k].st = "dead" => s.st = "dead")
           /\ (s.st = "running" =>
                  /\ services[k].st = "started" /\ s.fd = services[k].fd
                  /\ s.late = services[k].late /\ s.table = fds
                  /\ Range(services[k].fd) \subseteq DOMAIN fds)
    BY <2>3
  <2>5. /\ services' \in Seq(Services) /\ Len(services') = Len(services)
        /\ DOMAIN services' = DOMAIN services
        /\ services'[k] = s /\ \A l \in DOMAIN services \ {k} : services'[l] = services[l]
    BY <2>4 DEF TypeOK
  <2>6. ServicePerPair'
    <3>1. (services = <<>>) = (services' = <<>>)
      BY <2>5
    <3>2. Len(services) = 1 => 1 \in DOMAIN services
      BY Typed
    <3>. QED
      BY <2>1, <2>4, <2>5, <3>1, <3>2 DEF WrapInv, ServicePerPair
  <2>7. LatestOpen'
    BY <2>1, <2>5 DEF WrapInv, LatestOpen, Latest
  <2>8. TimelyFork'
    <3> SUFFICES ASSUME NEW l \in DOMAIN services, ~services'[l].late
                 PROVE  /\ services'[l].st = "started" => accepted' = 2 * l /\ services'[l].fd = sks'
                        /\ services'[l].st = "running" =>
                              /\ DOMAIN services'[l].table = Range(services'[l].fd)
                              /\ RpcOf(l)' = arrived'[2 * l - 1] /\ MemOf(l)' = arrived'[2 * l]
      BY <2>5 DEF TimelyFork
    <3>1. CASE l # k
      BY <2>1, <2>5, <3>1 DEF WrapInv, TimelyFork, RpcOf, MemOf
    <3>2. CASE l = k /\ s.st = "running"
      <4>1. /\ services[k].st = "started" /\ s.fd = services[k].fd /\ ~services[k].late
            /\ s.table = fds /\ Range(services[k].fd) \subseteq DOMAIN fds
        BY <2>4, <2>5, <3>2
      <4>2. accepted = 2 * k /\ s.fd = sks
        BY <4>1 DEF WrapInv, TimelyFork
      <4>3. main # "returned"
        BY <2>5, <4>1, Typed DEF WrapInv, ServicePerPair
      <4>4. k = Len(services) /\ k \in Nat /\ k >= 1
        BY <4>2, Typed DEF WrapInv, ServicePerPair
      <4>5. Latest(1) = 2 * k - 1 /\ Latest(2) = 2 * k
        BY <4>2, <4>4 DEF Latest
      <4>6. 1 \in 1..2 /\ 2 \in 1..2 /\ ~(2 * k - 1 < 1) /\ ~(2 * k < 1)
        BY <4>4
      <4>7. fds[sks[1]] = arrived[2 * k - 1] /\ fds[sks[2]] = arrived[2 * k]
        BY <4>3, <4>5, <4>6 DEF WrapInv, LatestOpen
      <4>8. sks[1] \in DOMAIN fds /\ sks[2] \in DOMAIN fds
        BY <4>3, <4>5, <4>6 DEF WrapInv, LatestOpen
      <4>9. DOMAIN fds = Range(sks)
        <5>1. Range(sks) = {sks[1], sks[2]}
          BY DEF Range, TypeOK
        <5>. QED
          BY <4>3, <4>8, <5>1 DEF WrapInv, LatestOpen
      <4>. QED
        BY <2>1, <2>5, <3>2, <4>1, <4>2, <4>7, <4>9 DEF RpcOf, MemOf
    <3>3. CASE l = k /\ s.st # "running"
      BY <2>4, <2>5, <3>3
    <3>. QED
      BY <3>1, <3>2, <3>3
  <2>. QED
    BY <2>5, <2>6, <2>7, <2>8
<1>. QED
  BY <1>1, <1>2

-----------------------------------------------------------------------------
(* Every step keeps what the wrapper, its descriptors and its services have in
   common, and the types of the services. *)
LEMMA WrapperStep ==
    ASSUME TypeOK, WrapInv, [Next]_vars
    PROVE  ServicePerPair' /\ LatestOpen' /\ TimelyFork' /\ services' \in Seq(Services)
<1>1. CASE \E c \in Clients : Connect(c) \/ ConnectRefused(c) \/ Quits(c) \/ SeesEOF(c)
  <2>1. /\ UNCHANGED <<one_shot, main, accepted, fds, sks, services>>
        /\ \/ arrived' = arrived
           \/ \E conn \in Conns : arrived' = Append(arrived, conn)
    BY <1>1 DEF Connect, ConnectRefused, Quits, SeesEOF, Conns
  <2>. QED
    BY <2>1, ClientStep DEF TypeOK
<1>2. CASE UNCHANGED vars
  BY <1>2, ClientStep DEF vars, TypeOK
<1>3. CASE AcceptFirst \/ AcceptSecond
  BY <1>3, AcceptStep, AcceptServices
<1>4. CASE \E k \in DOMAIN services : Fork(k) \/ Serve(k) \/ Dies(k)
  BY <1>4, ServiceStep
<1>5. CASE Returns
  <2>1. /\ main = "wait" /\ services[1].st = "dead" /\ main' = "returned"
        /\ fds' = EmptyTable /\ UNCHANGED <<one_shot, arrived, accepted, sks, services>>
    BY <1>5 DEF Returns
  <2>2. ServicePerPair' /\ LatestOpen'
    BY <2>1 DEF WrapInv, ServicePerPair, LatestOpen
  <2>3. TimelyFork'
    BY <2>1 DEF WrapInv, TimelyFork, RpcOf, MemOf
  <2>. QED
    BY <2>1, <2>2, <2>3 DEF TypeOK
<1>. QED
  BY <1>1, <1>2, <1>3, <1>4, <1>5 DEF Next

(* Every step keeps the types, the number of sockets the wrapper has among them. *)
LEMMA TypeStep ==
    ASSUME TypeOK, WrapInv, WrapInv', services' \in Seq(Services), [Next]_vars
    PROVE  TypeOK'
<1>1. one_shot' \in OneShots /\ main' \in {"accept", "wait", "returned"}
  BY DEF TypeOK, Next, Connect, ConnectRefused, Quits, SeesEOF, AcceptFirst, AcceptSecond,
     MainAfterStart, Returns, Fork, Serve, Dies, vars
<1>2. client' \in [Clients -> {"start", "half", "connected", "served", "gone"}]
  <2>1. CASE \E c \in Clients : Connect(c) \/ ConnectRefused(c) \/ Quits(c) \/ SeesEOF(c)
    BY <2>1 DEF TypeOK, Connect, ConnectRefused, Quits, SeesEOF
  <2>2. CASE \E k \in DOMAIN services : Fork(k) \/ Serve(k) \/ Dies(k)
    BY <2>2 DEF TypeOK, Fork, Serve, Dies
  <2>3. CASE AcceptFirst \/ AcceptSecond \/ Returns \/ UNCHANGED vars
    BY <2>3 DEF TypeOK, AcceptFirst, AcceptSecond, Returns, vars
  <2>. QED
    BY <2>1, <2>2, <2>3 DEF Next
<1>3. arrived' \in Seq(Conns) /\ accepted' \in 0..Len(arrived')
  <2>1. CASE \E c \in Clients : Connect(c)
    <3>1. \E conn \in Conns : arrived' = Append(arrived, conn)
      BY <2>1 DEF Connect, Conns
    <3>2. accepted' = accepted
      BY <2>1 DEF Connect
    <3>. QED
      BY <3>1, <3>2 DEF TypeOK
  <2>2. CASE AcceptFirst \/ AcceptSecond
    BY <2>2, AcceptFacts, Typed DEF TypeOK
  <2>3. CASE UNCHANGED <<arrived, accepted>>
    BY <2>3 DEF TypeOK
  <2>. QED
    BY <2>1, <2>2, <2>3 DEF Next, ConnectRefused, Quits, SeesEOF, Returns, Fork, Serve, Dies, vars
<1>4. fds' \in Tables /\ sks' \in [1..2 -> Fds \cup {NoFd}]
  <2>1. CASE AcceptFirst \/ AcceptSecond
    BY <2>1, AcceptFacts DEF TypeOK
  <2>2. CASE Returns
    <3>1. EmptyTable \in [{} -> Conns]
      BY DEF EmptyTable
    <3>. QED
      BY <2>2, <3>1, TableType DEF Returns, TypeOK
  <2>3. CASE UNCHANGED <<fds, sks>>
    BY <2>3 DEF TypeOK
  <2>. QED
    BY <2>1, <2>2, <2>3 DEF Next, Connect, ConnectRefused, Quits, SeesEOF, Fork, Serve, Dies, vars
<1>5. Cardinality(DOMAIN fds') <= 2
  <2>1. DOMAIN fds' \subseteq {sks'[1], sks'[2]}
    BY DEF WrapInv, LatestOpen, ServicePerPair, EmptyTable
  <2>. QED
    BY <2>1, TwoFds
<1>. QED
  BY <1>1, <1>2, <1>3, <1>4, <1>5 DEF TypeOK

(* The wrapper begins with no connection and in a state of the invariant. *)
LEMMA WrapInit == Init => TypeOK /\ WrapInv
<1>. SUFFICES ASSUME Init PROVE TypeOK /\ WrapInv
  OBVIOUS
<1>1. EmptyTable \in Tables /\ DOMAIN EmptyTable = {}
  <2>1. EmptyTable \in [{} -> Conns] /\ DOMAIN EmptyTable = {}
    BY DEF EmptyTable
  <2>. QED
    BY <2>1, TableType
<1>2. Cardinality(DOMAIN fds) <= 2
  BY <1>1, TwoFds DEF Init
<1>3. TypeOK
  BY <1>1, <1>2 DEF Init, TypeOK
<1>4. ArrivedInOrder /\ ServicePerPair /\ TimelyFork
  BY DEF Init, ArrivedInOrder, ServicePerPair, TimelyFork
<1>5. LatestOpen
  <2>1. Latest(1) < 1 /\ Latest(2) < 1
    BY DEF Init, Latest
  <2>. QED
    BY <1>1, <2>1 DEF Init, LatestOpen
<1>. QED
  BY <1>3, <1>4, <1>5 DEF WrapInv

(* The inductive invariant, with the types: the wrapper has the two latest
   connections open, and a service that forks in time has copied its own two. *)
THEOREM WrapInvariant == Spec => [](TypeOK /\ WrapInv)
<1>1. TypeOK /\ WrapInv /\ [Next]_vars => TypeOK' /\ WrapInv'
  BY WrapperStep, ArrivalStep, TypeStep DEF WrapInv
<1>. QED
  BY <1>1, WrapInit, PTL DEF Spec

(* A service that is forked before the next accept works with the rpc and the
   memory socket of its own client, if the clients connected one after the other. *)
THEOREM WrapOwnSockets == Spec => []OwnSockets
<1>1. TypeOK /\ WrapInv => OwnSockets
  <2>. SUFFICES ASSUME TypeOK, WrapInv, NEW k \in Running, InOrder(k), ~services[k].late
                PROVE  /\ RpcOf(k) = arrived[2 * k - 1] /\ RpcOf(k).sock = "rpc"
                       /\ MemOf(k) = arrived[2 * k] /\ MemOf(k).sock = "mem"
    BY DEF OwnSockets
  <2>1. /\ k \in 1..Len(services) /\ services[k].st = "running" /\ 2 * k <= Len(arrived)
        /\ k \in Nat
    BY Typed DEF Running, WrapInv, ServicePerPair
  <2>2. RpcOf(k) = arrived[2 * k - 1] /\ MemOf(k) = arrived[2 * k]
    BY <2>1, Typed DEF WrapInv, TimelyFork
  <2>3. arrived[2 * k - 1].sock = "rpc" /\ arrived[2 * k].sock = "mem"
    <3>1. 2 * k \in DOMAIN arrived /\ 2 * k - 1 \in 1..(2 * k) - 1
      BY <2>1, Typed
    <3>. QED
      BY <3>1 DEF InOrder, WrapInv, ArrivedInOrder
  <2>. QED
    BY <2>2, <2>3
<1>. QED
  BY <1>1, WrapInvariant, PTL

(* The sockets of a service that died are closed by the time the wrapper has
   accepted the next connection, if every fork came in time. *)
THEOREM WrapHeldUntilNext == Spec => []HeldUntilNext
<1>1. TypeOK /\ WrapInv => HeldUntilNext
  <2>. SUFFICES ASSUME TypeOK, WrapInv, NEW k \in DOMAIN services, services[k].st = "dead",
                       Open(arrived[2 * k - 1]), ~(accepted <= 2 * k),
                       \A l \in Running : ~services[l].late
                PROVE  FALSE
    BY DEF HeldUntilNext
  <2>1. k \in Nat /\ k >= 1 /\ k <= Len(services) /\ accepted \in Nat /\ 2 * k < accepted
        /\ accepted <= Len(arrived)
    BY Typed
  <2>2. ASSUME NEW n \in 1..Len(arrived), arrived[n] = arrived[2 * k - 1]
        PROVE  n = 2 * k - 1
    <3>1. 2 * k - 1 \in 1..Len(arrived)
      BY <2>1, Typed
    <3>2. \A m, o \in 1..Len(arrived) : m < o => arrived[m] # arrived[o]
      <4>. SUFFICES ASSUME NEW m \in 1..Len(arrived), NEW o \in 1..Len(arrived), m < o,
                           arrived[m] = arrived[o]
                    PROVE  FALSE
        OBVIOUS
      <4>1. m \in 1..o - 1 /\ o \in DOMAIN arrived
        BY Typed
      <4>. QED
        BY <4>1 DEF WrapInv, ArrivedInOrder
    <3>. QED
      BY <2>1, <2>2, <3>1, <3>2, Typed
  <2>3. CASE arrived[2 * k - 1] \in Range(fds)
    <3>1. PICK f \in DOMAIN fds : fds[f] = arrived[2 * k - 1]
      BY <2>3 DEF Range
    <3>2. main # "returned"
      BY <3>1 DEF WrapInv, ServicePerPair, EmptyTable
    <3>3. PICK i \in 1..2 : f = sks[i] /\ f # NoFd
      BY <3>1, <3>2 DEF WrapInv, LatestOpen
    <3>4. fds[f] = arrived[Latest(i)] /\ Latest(i) >= 1
      <4>1. ~(Latest(i) < 1)
        BY <3>2, <3>3 DEF WrapInv, LatestOpen
      <4>. QED
        BY <2>1, <3>2, <3>3, <4>1, Typed DEF WrapInv, LatestOpen, Latest
    <3>5. Latest(i) \in 1..Len(arrived) /\ Latest(i) > 2 * k - 1
      BY <2>1, <3>4, Typed DEF WrapInv, ServicePerPair, Latest
    <3>. QED
      <4>1. arrived[Latest(i)] = arrived[2 * k - 1]
        BY <3>1, <3>4
      <4>2. Latest(i) = 2 * k - 1
        BY <2>2, <3>5, <4>1
      <4>. QED
        BY <2>1, <3>5, <4>2
  <2>4. CASE \E l \in Running : arrived[2 * k - 1] \in Range(services[l].table)
    <3>1. PICK l \in Running : arrived[2 * k - 1] \in Range(services[l].table)
      BY <2>4
    <3>2. l \in DOMAIN services /\ services[l].st = "running" /\ ~services[l].late /\ l # k
      BY DEF Running
    <3>3. PICK f \in DOMAIN services[l].table : services[l].table[f] = arrived[2 * k - 1]
      BY <3>1 DEF Range
    <3>4. /\ DOMAIN services[l].table = Range(services[l].fd)
          /\ RpcOf(l) = arrived[2 * l - 1] /\ MemOf(l) = arrived[2 * l]
      BY <3>2 DEF WrapInv, TimelyFork
    <3>5. f = services[l].fd[1] \/ f = services[l].fd[2]
      <4>1. services[l].fd \in [1..2 -> Fds]
        BY <3>2, Typed DEF Services
      <4>. QED
        BY <3>3, <3>4, <4>1 DEF Range
    <3>6. arrived[2 * k - 1] \in {arrived[2 * l - 1], arrived[2 * l]}
      BY <3>3, <3>4, <3>5 DEF RpcOf, MemOf
    <3>7. 2 * l - 1 \in 1..Len(arrived) /\ 2 * l \in 1..Len(arrived) /\ l \in Nat
      BY <3>2, Typed DEF WrapInv, ServicePerPair
    <3>. QED
      <4>1. 2 * l - 1 = 2 * k - 1 \/ 2 * l = 2 * k - 1
        BY <2>2, <3>6, <3>7
      <4>. QED
        BY <2>1, <3>2, <3>7, <4>1
  <2>5. CASE \E n \in accepted + 1 .. Len(arrived) : arrived[n] = arrived[2 * k - 1]
    <3>1. PICK n \in accepted + 1 .. Len(arrived) : arrived[n] = arrived[2 * k - 1]
      BY <2>5
    <3>2. n \in 1..Len(arrived) /\ n > 2 * k - 1
      BY <2>1, Typed
    <3>. QED
      BY <2>1, <2>2, <3>1, <3>2
  <2>. QED
    BY <2>3, <2>4, <2>5 DEF Open
<1>. QED
  BY <1>1, WrapInvariant, PTL
=============================================================================

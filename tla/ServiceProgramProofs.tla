------------------------ MODULE ServiceProgramProofs ------------------------
(* Proofs about ServiceProgram, for messages, buffers and numbers of calls of any
   size. *)
EXTENDS ServiceProgram, SequenceTheorems, TLAPS

(* What select can return. *)
LEMMA BothReadable == <<"rpc">> \o <<"stop">> = <<"rpc", "stop">>
<1> DEFINE Item == {"rpc", "stop"}
           r == <<"rpc">>
           s == <<"stop">>
           b == <<"rpc", "stop">>
<1>1. r \in Seq(Item) /\ s \in Seq(Item) /\ b \in Seq(Item)
  OBVIOUS
<1>2. Len(r) = 1 /\ Len(s) = 1 /\ Len(b) = 2
  OBVIOUS
<1>3. r \o s \in Seq(Item) /\ Len(r \o s) = 2
  BY <1>1, <1>2, ConcatProperties
<1>4. (r \o s)[1] = "rpc" /\ (r \o s)[2] = "stop"
  <2>1. \A i \in 1..2 : (r \o s)[i] = IF i <= 1 THEN r[i] ELSE s[i - 1]
    BY <1>1, <1>2, ConcatProperties
  <2>. QED
    BY <2>1
<1>5. \A i \in 1..Len(r \o s) : (r \o s)[i] = b[i]
  BY <1>3, <1>4
<1>. QED
  BY <1>1, <1>2, <1>3, <1>5, SeqEqual

(* What select returns: the rpc socket before the stop pair, each if it is readable. *)
LEMMA ReadableCases ==
    Readable = (IF RpcReadable THEN IF StopReadable THEN <<"rpc", "stop">> ELSE <<"rpc">>
                ELSE IF StopReadable THEN <<"stop">> ELSE <<>>)
<1>1. /\ <<"rpc">> \o <<>> = <<"rpc">>
      /\ <<>> \o <<"stop">> = <<"stop">>
      /\ <<>> \o <<>> = <<>>
  OBVIOUS
<1>2. CASE RpcReadable
  BY <1>1, <1>2, BothReadable DEF Readable
<1>3. CASE ~RpcReadable
  BY <1>1, <1>3 DEF Readable
<1>. QED
  BY <1>2, <1>3

(* What is left of it when the first has been worked on. *)
LEMMA TailCases ==
    ASSUME ready \in {<<>>, <<"rpc">>, <<"stop">>, <<"rpc", "stop">>}
    PROVE  /\ ready = <<"rpc">> \/ ready = <<"stop">> => Tail(ready) = <<>>
           /\ ready = <<"rpc", "stop">> => Tail(ready) = <<"stop">>
           /\ ready # <<>> => Head(ready) = (IF RpcListed THEN "rpc" ELSE "stop")
<1>1. CASE ready = <<"rpc">>
  BY <1>1 DEF RpcListed
<1>2. CASE ready = <<"stop">>
  BY <1>2 DEF RpcListed
<1>3. CASE ready = <<"rpc", "stop">>
  BY <1>3 DEF RpcListed
<1>. QED
  BY <1>1, <1>2, <1>3

(* A round with the rpc socket in it is not over. *)
LEMMA ListedIsSome == RpcListed => ready # <<>>
<1>1. <<"rpc">> # <<>> /\ <<"rpc", "stop">> # <<>>
  OBVIOUS
<1>. QED
  BY <1>1 DEF RpcListed

(* A worked-on round has lost its first item. *)
LEMMA AfterWork ==
    ASSUME ready \in {<<>>, <<"rpc">>, <<"stop">>, <<"rpc", "stop">>}, ready # <<>>,
           ready' = Tail(ready)
    PROVE  ~RpcListed' /\ (StopListed' => StopListed)
<1>1. ready' = <<>> \/ (ready' = <<"stop">> /\ ready = <<"rpc", "stop">>)
  BY TailCases
<1>2. <<"stop">> # <<"rpc">> /\ <<"stop">> # <<"rpc", "stop">> /\ <<>> # <<"rpc">>
      /\ <<>> # <<"rpc", "stop">> /\ <<>> # <<"stop">>
  OBVIOUS
<1>3. ~RpcListed'
  BY <1>1, <1>2 DEF RpcListed
<1>. QED
  BY <1>1, <1>2, <1>3 DEF StopListed

(* The type of the connection is that of the call: its other parts are computed. *)
LEMMA LinkTypes ==
    /\ L!RpcTypeOK <=> rpc \in [kind : {"idle", "call", "resp", "exc"},
                                fn : L!Calls \cup {"none"}, val : BOOLEAN]
    /\ L!RpcTypeOK' <=> rpc' \in [kind : {"idle", "call", "resp", "exc"},
                                 fn : L!Calls \cup {"none"}, val : BOOLEAN]
  BY DEF L!RpcTypeOK, Link, Svc

(* Every step keeps the types. *)
LEMMA TypeStep ==
    ASSUME TypeOK, ServiceInv, [Next]_vars
    PROVE  TypeOK'
<1> USE ServiceAssumption, LinkTypes DEF TypeOK, ServiceInv, OneMessage, EndsInOrder, RpcListed,
     mainVars, threadVars, connVars, Exited
<1>1. CASE Arrives
  BY <1>1 DEF Arrives
<1>2. CASE Call
  <2>1. NextCall \in L!Calls
    BY DEF NextCall, L!Calls
  <2>2. rpc' \in [kind : {"idle", "call", "resp", "exc"},
                 fn : L!Calls \cup {"none"}, val : BOOLEAN]
    BY <1>2, <2>1 DEF Call
  <2>. QED
    BY <1>2, <2>2 DEF Call
<1>3. CASE CallFails
  BY <1>3 DEF CallFails
<1>4. CASE GetsReply
  BY <1>4 DEF GetsReply, ReplyReadable, Whole, L!NoCall
<1>5. CASE GetsPartOfReply
  BY <1>5 DEF GetsPartOfReply, ReplyReadable, Whole
<1>6. CASE GetsNoReply
  BY <1>6 DEF GetsNoReply
<1>7. CASE ClientCloses
  <2>1. (rst' = TRUE /\ wire' = 0 /\ here' = 0) \/ UNCHANGED <<rst, wire, here>>
    BY <1>7 DEF ClientCloses, Closes, Resets, Unaffected
  <2>a. rst \in BOOLEAN
    OBVIOUS
  <2>b. MaxLen \in Nat
    OBVIOUS
  <2>2. rst' \in BOOLEAN
    BY <2>1, <2>a
  <2>4. wire' \in 0..MaxLen /\ here' \in 0..MaxLen
    BY <2>1, <2>b
  <2>3. UNCHANGED <<mode, main, pending, stop_fd, signals, threadVars, calls, rpc, cut>> /\ client' = "closed"
    BY <1>7 DEF ClientCloses, Closes, Resets, Unaffected
  <2>. QED
    BY <2>2, <2>3, <2>4
<1>8. CASE ClientKilled
  <2>1. (rst' = TRUE /\ wire' = 0 /\ here' = 0) \/ UNCHANGED <<rst, wire, here>>
    BY <1>8 DEF ClientKilled, Closes, Resets, Unaffected
  <2>a. rst \in BOOLEAN
    OBVIOUS
  <2>b. MaxLen \in Nat
    OBVIOUS
  <2>2. rst' \in BOOLEAN
    BY <2>1, <2>a
  <2>4. wire' \in 0..MaxLen /\ here' \in 0..MaxLen
    BY <2>1, <2>b
  <2>3. UNCHANGED <<mode, main, pending, stop_fd, signals, threadVars, calls, rpc, cut>> /\ client' = "closed"
    BY <1>8 DEF ClientKilled, Closes, Resets, Unaffected
  <2>. QED
    BY <2>2, <2>3, <2>4
<1>9. CASE Select
  BY <1>9, ReadableCases DEF Select, Loops
<1>10. CASE LoopEnds
  BY <1>10 DEF LoopEnds, Loops
<1>11. CASE WorkStop
  BY <1>11, TailCases DEF WorkStop, WorksOn, Loops
<1>12. CASE RecvFails
  BY <1>12 DEF RecvFails, WorksOn, Loops
<1>13. CASE TakesCall
  BY <1>13 DEF TakesCall, WorksOn, Loops, Whole
<1>14. CASE TakesPartOfCall
  BY <1>14 DEF TakesPartOfCall, WorksOn, Loops, Whole
<1>15. CASE Reply
  BY <1>15, TailCases DEF Reply, SendReply, SwrkAfter, Outcomes
<1>16. CASE Disconnects
  BY <1>16, TailCases DEF Disconnects, ReadsEOF, EOF, WorksOn, Loops, CriuClosed, CriuRuns
<1>17. CASE DisconnectRaises
  BY <1>17 DEF DisconnectRaises, ReadsEOF, EOF, WorksOn, Loops, CriuClosed, CriuRuns
<1>18. CASE InstallHandlers
  BY <1>18 DEF InstallHandlers, MainGoes
<1>19. CASE StartThread
  BY <1>19 DEF StartThread, MainGoes
<1>20. CASE Pause
  BY <1>20 DEF Pause, MainGoes
<1>21. CASE FinBeforePause
  BY <1>21 DEF FinBeforePause, Fin
<1>22. CASE FinAfterPause
  BY <1>22 DEF FinAfterPause, MainGoes, Fin
<1>23. CASE Exits
  <2>1. (rst' = TRUE /\ wire' = 0 /\ here' = 0) \/ UNCHANGED <<rst, wire, here>>
    BY <1>23 DEF Exits, MainGoes, Joinable, ServerEndCloses, Resets, Unaffected
  <2>a. rst \in BOOLEAN
    OBVIOUS
  <2>b. MaxLen \in Nat
    OBVIOUS
  <2>2. rst' \in BOOLEAN
    BY <2>1, <2>a
  <2>4. wire' \in 0..MaxLen /\ here' \in 0..MaxLen
    BY <2>1, <2>b
  <2>3. UNCHANGED <<mode, pending, stop_fd, signals, threadVars, client, calls, rpc, cut>> /\ main' = "exited"
    BY <1>23 DEF Exits, MainGoes, Joinable, ServerEndCloses, Resets, Unaffected
  <2>. QED
    BY <2>2, <2>3, <2>4
<1>24. CASE Signal
  BY <1>24 DEF Signal
<1>25. CASE Killed
  <2>1. (rst' = TRUE /\ wire' = 0 /\ here' = 0) \/ UNCHANGED <<rst, wire, here>>
    BY <1>25 DEF Killed, ServerEndCloses, Resets, Unaffected
  <2>a. rst \in BOOLEAN
    OBVIOUS
  <2>b. MaxLen \in Nat
    OBVIOUS
  <2>2. rst' \in BOOLEAN
    BY <2>1, <2>a
  <2>4. wire' \in 0..MaxLen /\ here' \in 0..MaxLen
    BY <2>1, <2>b
  <2>3. UNCHANGED <<mode, pending, stop_fd, signals, threadVars, client, calls, rpc, cut>> /\ main' = "exited"
    BY <1>25 DEF Killed, ServerEndCloses, Resets, Unaffected
  <2>. QED
    BY <2>2, <2>3, <2>4
<1>26. CASE CriuExits
  <2>1. (rst' = TRUE /\ wire' = 0 /\ here' = 0) \/ UNCHANGED <<rst, wire, here>>
    BY <1>26 DEF CriuExits, ServerEndCloses, Resets, Unaffected, CriuRuns
  <2>a. rst \in BOOLEAN
    OBVIOUS
  <2>b. MaxLen \in Nat
    OBVIOUS
  <2>2. rst' \in BOOLEAN
    BY <2>1, <2>a
  <2>4. wire' \in 0..MaxLen /\ here' \in 0..MaxLen
    BY <2>1, <2>b
  <2>3. UNCHANGED <<mainVars, thread, alive, polled, ready, master, left, client, calls, rpc, cut>> /\ swrk' = "gone"
    BY <1>26 DEF CriuExits, ServerEndCloses, Resets, Unaffected, CriuRuns
  <2>. QED
    BY <2>2, <2>3, <2>4
<1>27. CASE ConnectionLost
  BY <1>27 DEF ConnectionLost, Resets
<1>28. CASE UNCHANGED vars
  BY <1>28 DEF vars
<1>. QED
  BY <1>1, <1>2, <1>3, <1>4, <1>5, <1>6, <1>7, <1>8, <1>9, <1>10, <1>11, <1>12, <1>13,
     <1>14, <1>15, <1>16, <1>17, <1>18, <1>19, <1>20, <1>21, <1>22, <1>23, <1>24, <1>25,
     <1>26, <1>27, <1>28
     DEF Next, ClientStep, ThreadStep, MainStep, Fault

(* Every step keeps a worker from holding the pair of a loop told to stop. *)
LEMMA ToldStep ==
    ASSUME TypeOK, ServiceInv, [Next]_vars
    PROVE  ToldToStop'
<1> USE DEF TypeOK, ServiceInv, ToldToStop, OneMessage, RpcListed, StopListed,
     mainVars, threadVars, connVars, Exited, StopReadable, CriuRuns, CriuClosed
<1>1. CASE Arrives
  BY <1>1 DEF Arrives
<1>2. CASE Call
  BY <1>2 DEF Call, NextCall
<1>3. CASE CallFails
  BY <1>3 DEF CallFails
<1>4. CASE GetsReply
  BY <1>4 DEF GetsReply, ReplyReadable, Whole, L!NoCall
<1>5. CASE GetsPartOfReply
  BY <1>5 DEF GetsPartOfReply, ReplyReadable, Whole
<1>6. CASE GetsNoReply
  BY <1>6 DEF GetsNoReply
<1>7. CASE ClientCloses
  BY <1>7 DEF ClientCloses, Closes, Resets, Unaffected
<1>8. CASE ClientKilled
  BY <1>8 DEF ClientKilled, Closes, Resets, Unaffected
<1>9. CASE Select
  BY <1>9, ReadableCases DEF Select, Loops
<1>10. CASE LoopEnds
  BY <1>10 DEF LoopEnds, Loops
<1>11. CASE WorkStop
  BY <1>11, TailCases DEF WorkStop, WorksOn, Loops
<1>12. CASE RecvFails
  BY <1>12 DEF RecvFails, WorksOn, Loops
<1>13. CASE TakesCall
  BY <1>13 DEF TakesCall, WorksOn, Loops, Whole
<1>14. CASE TakesPartOfCall
  BY <1>14 DEF TakesPartOfCall, WorksOn, Loops, Whole
<1>15. CASE Reply
  <2>1. RpcListed /\ ready' = Tail(ready)
    BY <1>15 DEF Reply
  <2>2. StopListed' => StopListed
    <3>1. ready # <<>>
      BY <2>1, ListedIsSome
    <3>. QED
      BY <2>1, <3>1, AfterWork
  <2>3. swrk' \in {swrk, "holding", "running"} /\ (swrk' = "holding" => swrk = "holding" \/ stop_fd = "open")
    BY <1>15 DEF Reply, SwrkAfter
  <2>4. UNCHANGED <<alive, stop_fd>> /\ thread' \in {"failed", "running"}
    BY <1>15 DEF Reply
  <2>. QED
    BY <2>2, <2>3, <2>4
<1>16. CASE Disconnects
  <2>1. RpcListed /\ ready # <<>> /\ ready' = Tail(ready)
    BY <1>16, TailCases DEF Disconnects, ReadsEOF, WorksOn
  <2>2. StopListed' => StopListed
    BY <2>1, AfterWork
  <2>3. swrk' = "holding" => swrk = "holding"
    BY <1>16 DEF Disconnects, CriuClosed, CriuRuns
  <2>4. UNCHANGED <<alive, stop_fd, thread>>
    BY <1>16 DEF Disconnects
  <2>. QED
    BY <2>2, <2>3, <2>4
<1>17. CASE DisconnectRaises
  BY <1>17 DEF DisconnectRaises, ReadsEOF, EOF, WorksOn, Loops, CriuClosed, CriuRuns
<1>18. CASE InstallHandlers
  BY <1>18 DEF InstallHandlers, MainGoes
<1>19. CASE StartThread
  BY <1>19 DEF StartThread, MainGoes
<1>20. CASE Pause
  BY <1>20 DEF Pause, MainGoes
<1>21. CASE FinBeforePause
  BY <1>21 DEF FinBeforePause, Fin
<1>22. CASE FinAfterPause
  BY <1>22 DEF FinAfterPause, MainGoes, Fin
<1>23. CASE Exits
  BY <1>23 DEF Exits, MainGoes, Joinable, ServerEndCloses, Resets, Unaffected
<1>24. CASE Signal
  BY <1>24 DEF Signal
<1>25. CASE Killed
  BY <1>25 DEF Killed, ServerEndCloses, Resets, Unaffected
<1>26. CASE CriuExits
  BY <1>26 DEF CriuExits, ServerEndCloses, Resets, Unaffected, CriuRuns
<1>27. CASE ConnectionLost
  BY <1>27 DEF ConnectionLost, Resets
<1>28. CASE UNCHANGED vars
  BY <1>28 DEF vars
<1>. QED
  BY <1>1, <1>2, <1>3, <1>4, <1>5, <1>6, <1>7, <1>8, <1>9, <1>10, <1>11, <1>12, <1>13,
     <1>14, <1>15, <1>16, <1>17, <1>18, <1>19, <1>20, <1>21, <1>22, <1>23, <1>24, <1>25,
     <1>26, <1>27, <1>28
     DEF Next, ClientStep, ThreadStep, MainStep, Fault

(* Every step keeps the connection to one message. *)
LEMMA MessageStep ==
    ASSUME TypeOK, ServiceInv, [Next]_vars
    PROVE  OneMessage'
<1> USE ServiceAssumption DEF TypeOK, ServiceInv, OneMessage, EndsInOrder, RpcListed, L!RpcTypeOK,
     mainVars, threadVars, connVars, Exited
<1>1. CASE Arrives
  BY <1>1 DEF Arrives
<1>2. CASE Call
  <2>1. here' = 0 /\ wire' \in 1..MaxLen /\ ~rst' /\ thread # "busy" /\ thread' = thread
    BY <1>2 DEF Call, Link
  <2>2. rpc'.kind = "call" /\ rpc'.val = FALSE /\ client' = "waiting"
    BY <1>2 DEF Call
  <2>3. rpc'.fn # "none"
    BY <1>2 DEF Call, NextCall
  <2>. QED
    BY <2>1, <2>2, <2>3
<1>3. CASE CallFails
  BY <1>3 DEF CallFails
<1>4. CASE GetsReply
  BY <1>4 DEF GetsReply, ReplyReadable, Whole, L!NoCall
<1>5. CASE GetsPartOfReply
  BY <1>5 DEF GetsPartOfReply, ReplyReadable, Whole
<1>6. CASE GetsNoReply
  BY <1>6 DEF GetsNoReply
<1>7. CASE ClientCloses
  BY <1>7 DEF ClientCloses, Closes, Resets, Unaffected
<1>8. CASE ClientKilled
  BY <1>8 DEF ClientKilled, Closes, Resets, Unaffected
<1>9. CASE Select
  <2>1. RpcListed' => RpcReadable
    BY <1>9, ReadableCases DEF Select
  <2>2. ready = <<>> /\ thread = "running" /\ thread' = thread
        /\ UNCHANGED <<client, rpc, wire, here, rst>>
    BY <1>9 DEF Select, Loops
  <2>. QED
    BY <2>1, <2>2 DEF RpcReadable, EOF
<1>10. CASE LoopEnds
  BY <1>10 DEF LoopEnds, Loops
<1>11. CASE WorkStop
  <2>1. ready # <<>> /\ ready' = Tail(ready) /\ thread = "running"
    BY <1>11 DEF WorkStop, WorksOn, Loops
  <2>2. ~RpcListed'
    BY <2>1, AfterWork
  <2>. QED
    BY <1>11, <2>1, <2>2 DEF WorkStop
<1>12. CASE RecvFails
  BY <1>12 DEF RecvFails, WorksOn, Loops
<1>13. CASE TakesCall
  <2>1. RpcListed /\ ready' = ready
    BY <1>13, TailCases DEF TakesCall, WorksOn
  <2>2. wire = 0 /\ wire' = 0 /\ here' = 0 /\ here > 0 /\ thread' = "busy" /\ ~rst
        /\ UNCHANGED <<client, rpc, rst>>
    BY <1>13 DEF TakesCall, Whole
  <2>3. rpc.kind = "call"
    BY <2>1, <2>2, <1>13 DEF TakesCall
  <2>. QED
    BY <2>1, <2>2, <2>3
<1>14. CASE TakesPartOfCall
  BY <1>14 DEF TakesPartOfCall, WorksOn, Loops, Whole
<1>15. CASE Reply
  <2>1. here' = 0 /\ wire' \in 0..MaxLen /\ (rst => wire' = 0) /\ rst' = rst
    BY <1>15 DEF Reply, SendReply, Link
  <2>2. rpc'.kind \in {"resp", "exc"} /\ rpc'.val = FALSE /\ rpc'.fn = rpc.fn
        /\ client' = client /\ client # "free"
    BY <1>15 DEF Reply, SendReply, Outcomes
  <2>3. thread' # "busy" /\ RpcListed /\ ready' = Tail(ready)
    BY <1>15 DEF Reply
  <2>4. ~RpcListed'
    <3>1. ready # <<>>
      BY <2>3, ListedIsSome
    <3>. QED
      BY <2>3, <3>1, AfterWork
  <2>. QED
    BY <2>1, <2>2, <2>3, <2>4
<1>16. CASE Disconnects
  BY <1>16, TailCases DEF Disconnects, ReadsEOF, EOF, WorksOn, Loops, CriuClosed, CriuRuns
<1>17. CASE DisconnectRaises
  BY <1>17 DEF DisconnectRaises, ReadsEOF, EOF, WorksOn, Loops, CriuClosed, CriuRuns
<1>18. CASE InstallHandlers
  BY <1>18 DEF InstallHandlers, MainGoes
<1>19. CASE StartThread
  BY <1>19 DEF StartThread, MainGoes
<1>20. CASE Pause
  BY <1>20 DEF Pause, MainGoes
<1>21. CASE FinBeforePause
  BY <1>21 DEF FinBeforePause, Fin
<1>22. CASE FinAfterPause
  BY <1>22 DEF FinAfterPause, MainGoes, Fin
<1>23. CASE Exits
  BY <1>23 DEF Exits, MainGoes, Joinable, ServerEndCloses, Resets, Unaffected
<1>24. CASE Signal
  BY <1>24 DEF Signal
<1>25. CASE Killed
  BY <1>25 DEF Killed, ServerEndCloses, Resets, Unaffected
<1>26. CASE CriuExits
  BY <1>26 DEF CriuExits, ServerEndCloses, Resets, Unaffected, CriuRuns
<1>27. CASE ConnectionLost
  BY <1>27 DEF ConnectionLost, Resets
<1>28. CASE UNCHANGED vars
  BY <1>28 DEF vars
<1>. QED
  BY <1>1, <1>2, <1>3, <1>4, <1>5, <1>6, <1>7, <1>8, <1>9, <1>10, <1>11, <1>12, <1>13,
     <1>14, <1>15, <1>16, <1>17, <1>18, <1>19, <1>20, <1>21, <1>22, <1>23, <1>24, <1>25,
     <1>26, <1>27, <1>28
     DEF Next, ClientStep, ThreadStep, MainStep, Fault

(* Every step keeps the master before the calls that need it. *)
LEMMA MasterStep ==
    ASSUME TypeOK, ServiceInv, [Next]_vars
    PROVE  MasterFirst'
<1> USE DEF TypeOK, ServiceInv, OneMessage, MasterFirst, RpcListed, L!RpcTypeOK,
     mainVars, threadVars, connVars, Exited
<1>1. CASE Arrives
  BY <1>1 DEF Arrives
<1>2. CASE Call
  BY <1>2 DEF Call, NextCall
<1>3. CASE CallFails
  BY <1>3 DEF CallFails
<1>4. CASE GetsReply
  BY <1>4 DEF GetsReply, ReplyReadable, Whole, L!NoCall
<1>5. CASE GetsPartOfReply
  BY <1>5 DEF GetsPartOfReply, ReplyReadable, Whole
<1>6. CASE GetsNoReply
  BY <1>6 DEF GetsNoReply
<1>7. CASE ClientCloses
  BY <1>7 DEF ClientCloses, Closes, Resets, Unaffected
<1>8. CASE ClientKilled
  BY <1>8 DEF ClientKilled, Closes, Resets, Unaffected
<1>9. CASE Select
  BY <1>9, ReadableCases DEF Select, Loops
<1>10. CASE LoopEnds
  BY <1>10 DEF LoopEnds, Loops
<1>11. CASE WorkStop
  BY <1>11, TailCases DEF WorkStop, WorksOn, Loops
<1>12. CASE RecvFails
  BY <1>12 DEF RecvFails, WorksOn, Loops
<1>13. CASE TakesCall
  BY <1>13 DEF TakesCall, WorksOn, Loops, Whole
<1>14. CASE TakesPartOfCall
  BY <1>14 DEF TakesPartOfCall, WorksOn, Loops, Whole
<1>15. CASE Reply
  BY <1>15, TailCases DEF Reply, SendReply, SwrkAfter, Outcomes
<1>16. CASE Disconnects
  BY <1>16, TailCases DEF Disconnects, ReadsEOF, EOF, WorksOn, Loops, CriuClosed, CriuRuns
<1>17. CASE DisconnectRaises
  BY <1>17 DEF DisconnectRaises, ReadsEOF, EOF, WorksOn, Loops, CriuClosed, CriuRuns
<1>18. CASE InstallHandlers
  BY <1>18 DEF InstallHandlers, MainGoes
<1>19. CASE StartThread
  BY <1>19 DEF StartThread, MainGoes
<1>20. CASE Pause
  BY <1>20 DEF Pause, MainGoes
<1>21. CASE FinBeforePause
  BY <1>21 DEF FinBeforePause, Fin
<1>22. CASE FinAfterPause
  BY <1>22 DEF FinAfterPause, MainGoes, Fin
<1>23. CASE Exits
  BY <1>23 DEF Exits, MainGoes, Joinable, ServerEndCloses, Resets, Unaffected
<1>24. CASE Signal
  BY <1>24 DEF Signal
<1>25. CASE Killed
  BY <1>25 DEF Killed, ServerEndCloses, Resets, Unaffected
<1>26. CASE CriuExits
  BY <1>26 DEF CriuExits, ServerEndCloses, Resets, Unaffected, CriuRuns
<1>27. CASE ConnectionLost
  BY <1>27 DEF ConnectionLost, Resets
<1>28. CASE UNCHANGED vars
  BY <1>28 DEF vars
<1>. QED
  BY <1>1, <1>2, <1>3, <1>4, <1>5, <1>6, <1>7, <1>8, <1>9, <1>10, <1>11, <1>12, <1>13,
     <1>14, <1>15, <1>16, <1>17, <1>18, <1>19, <1>20, <1>21, <1>22, <1>23, <1>24, <1>25,
     <1>26, <1>27, <1>28
     DEF Next, ClientStep, ThreadStep, MainStep, Fault

(* Every step keeps the order in which thread, client and connection end. *)
LEMMA EndsStep ==
    ASSUME TypeOK, ServiceInv, [Next]_vars
    PROVE  EndsInOrder'
<1> USE DEF TypeOK, ServiceInv, OneMessage, EndsInOrder, RpcListed,
     mainVars, threadVars, connVars, Exited, RpcReadable
<1>1. CASE Arrives
  BY <1>1 DEF Arrives
<1>2. CASE Call
  BY <1>2 DEF Call, NextCall
<1>3. CASE CallFails
  BY <1>3 DEF CallFails
<1>4. CASE GetsReply
  BY <1>4 DEF GetsReply, ReplyReadable, Whole, L!NoCall
<1>5. CASE GetsPartOfReply
  BY <1>5 DEF GetsPartOfReply, ReplyReadable, Whole
<1>6. CASE GetsNoReply
  BY <1>6 DEF GetsNoReply
<1>7. CASE ClientCloses
  BY <1>7 DEF ClientCloses, Closes, Resets, Unaffected
<1>8. CASE ClientKilled
  BY <1>8 DEF ClientKilled, Closes, Resets, Unaffected
<1>9. CASE Select
  BY <1>9, ReadableCases DEF Select, Loops
<1>10. CASE LoopEnds
  BY <1>10 DEF LoopEnds, Loops
<1>11. CASE WorkStop
  <2>1. ready # <<>> /\ ready' = Tail(ready) /\ thread = "running"
    BY <1>11 DEF WorkStop, WorksOn, Loops
  <2>2. ~RpcListed'
    BY <2>1, AfterWork
  <2>. QED
    BY <1>11, <2>1, <2>2 DEF WorkStop
<1>12. CASE RecvFails
  BY <1>12 DEF RecvFails, WorksOn, Loops
<1>13. CASE TakesCall
  BY <1>13 DEF TakesCall, WorksOn, Loops, Whole
<1>14. CASE TakesPartOfCall
  BY <1>14 DEF TakesPartOfCall, WorksOn, Loops, Whole
<1>15. CASE Reply
  BY <1>15, TailCases DEF Reply, SendReply, SwrkAfter, Outcomes
<1>16. CASE Disconnects
  <2>1. RpcListed /\ ready # <<>> /\ ready' = Tail(ready) /\ thread = "running"
    BY <1>16, TailCases DEF Disconnects, ReadsEOF, WorksOn, Loops
  <2>2. ~RpcListed'
    BY <2>1, AfterWork
  <2>3. UNCHANGED <<thread, client, rst, cut, main>> /\ client = "closed" /\ polled' = FALSE
    BY <1>16 DEF Disconnects, ReadsEOF, EOF
  <2>. QED
    BY <2>1, <2>2, <2>3
<1>17. CASE DisconnectRaises
  BY <1>17 DEF DisconnectRaises, ReadsEOF, EOF, WorksOn, Loops, CriuClosed, CriuRuns
<1>18. CASE InstallHandlers
  BY <1>18 DEF InstallHandlers, MainGoes
<1>19. CASE StartThread
  BY <1>19 DEF StartThread, MainGoes
<1>20. CASE Pause
  BY <1>20 DEF Pause, MainGoes
<1>21. CASE FinBeforePause
  BY <1>21 DEF FinBeforePause, Fin
<1>22. CASE FinAfterPause
  BY <1>22 DEF FinAfterPause, MainGoes, Fin
<1>23. CASE Exits
  BY <1>23 DEF Exits, MainGoes, Joinable, ServerEndCloses, Resets, Unaffected
<1>24. CASE Signal
  BY <1>24 DEF Signal
<1>25. CASE Killed
  BY <1>25 DEF Killed, ServerEndCloses, Resets, Unaffected
<1>26. CASE CriuExits
  BY <1>26 DEF CriuExits, ServerEndCloses, Resets, Unaffected, CriuRuns
<1>27. CASE ConnectionLost
  BY <1>27 DEF ConnectionLost, Resets
<1>28. CASE UNCHANGED vars
  BY <1>28 DEF vars
<1>. QED
  BY <1>1, <1>2, <1>3, <1>4, <1>5, <1>6, <1>7, <1>8, <1>9, <1>10, <1>11, <1>12, <1>13,
     <1>14, <1>15, <1>16, <1>17, <1>18, <1>19, <1>20, <1>21, <1>22, <1>23, <1>24, <1>25,
     <1>26, <1>27, <1>28
     DEF Next, ClientStep, ThreadStep, MainStep, Fault

-----------------------------------------------------------------------------
(* The service begins in a state of the inductive invariant. *)
LEMMA ServiceInit == Init => TypeOK /\ ServiceInv
<1>. SUFFICES ASSUME Init PROVE TypeOK /\ ServiceInv
  OBVIOUS
<1>1. L!RpcTypeOK
  BY LinkTypes DEF Init, L!NoCall, L!Calls
<1>2. TypeOK
  <2>1. /\ {pending, alive, polled, master, left, rst, cut} \subseteq BOOLEAN
        /\ wire \in 0..MaxLen /\ here \in 0..MaxLen
        /\ signals \in 0..MaxSignals /\ calls \in 0..MaxCalls
    <3>1. MaxLen \in Nat /\ MaxSignals \in Nat /\ MaxCalls \in Nat
      BY ServiceAssumption
    <3>3. {pending, alive, polled, master, left, rst, cut} \subseteq BOOLEAN
      BY DEF Init
    <3>4. /\ wire \in 0..MaxLen /\ here \in 0..MaxLen
          /\ signals \in 0..MaxSignals /\ calls \in 0..MaxCalls
      BY <3>1 DEF Init
    <3>. QED
      BY <3>3, <3>4
  <2>. QED
    BY <1>1, <2>1 DEF Init, TypeOK
<1>3. ~RpcListed /\ ~StopListed
  <2>1. <<>> # <<"rpc">> /\ <<>> # <<"rpc", "stop">> /\ <<>> # <<"stop">>
    OBVIOUS
  <2>. QED
    BY <2>1 DEF Init, RpcListed, StopListed
<1>4. ServiceInv
  BY <1>3, ServiceAssumption
     DEF Init, L!NoCall, ServiceInv, ToldToStop, OneMessage, MasterFirst, EndsInOrder
<1>. QED
  BY <1>2, <1>4

(* The inductive invariant, with the types: what is on the connection, which calls
   have a master, and in which order thread, client and process end. *)
THEOREM ServiceInvariant == Spec => [](TypeOK /\ ServiceInv)
<1>1. TypeOK /\ ServiceInv /\ [Next]_vars => TypeOK' /\ ServiceInv'
  BY TypeStep, ToldStep, MessageStep, MasterStep, EndsStep DEF ServiceInv
<1>. QED
  BY <1>1, ServiceInit, PTL DEF Spec

(* A server loop never stops while a CRIU worker holds the stop pair: a migration
   whose worker is spawned is not cut in two by a signal. *)
THEOREM ServiceStopsBetween == Spec => []StoppedBetweenMigrations
<1>1. TypeOK /\ ServiceInv => StoppedBetweenMigrations
  BY DEF ServiceInv, ToldToStop, StoppedBetweenMigrations
<1>. QED
  BY <1>1, ServiceInvariant, PTL

-----------------------------------------------------------------------------
(* What RpcLink sees depends on a few variables only. *)
LEMMA LinkKept ==
    ASSUME UNCHANGED <<rst, main, swrk, client>>
    PROVE  Link' = Link
  BY DEF Link, ServerEndClosed, CriuRuns, Exited

(* So does the service's part. *)
LEMMA SvcKept ==
    ASSUME UNCHANGED <<left, thread, master, main, swrk>>
    PROVE  Svc' = Svc
  BY DEF Svc, ServerEndClosed, CriuRuns, Exited

(* The server's end of the connection goes away with the last process that has it:
   RpcLink's service dies, if it has not ended before. *)
LEMMA EndGone ==
    ASSUME TypeOK, ServiceInv, ServerEndCloses, ~ServerEndClosed, ServerEndClosed',
           UNCHANGED <<left, thread, client, rpc, cut>>
    PROVE  [L!LinkNext \/ cut']_<<Link, rpc, Svc>>
<1>1. CASE thread = "cut"
  BY <1>1 DEF ServiceInv, EndsInOrder
<1>2. CASE left \/ (thread = "failed" /\ ~left)
  <2>1. Link # "up"
    BY <1>2 DEF Link, ServiceInv, EndsInOrder
  <2>2. UNCHANGED <<rst, wire, here>>
    BY <2>1 DEF ServerEndCloses, Unaffected
  <2>3. Link' = Link
    BY <2>1, <2>2 DEF Link
  <2>4. Svc' = Svc
    BY <1>2 DEF Svc
  <2>. QED
    BY <2>3, <2>4
<1>3. CASE ~left /\ thread \notin {"cut", "failed"}
  <2>1. Svc \in {"fresh", "serving"} /\ Svc' = "dead"
    BY <1>3 DEF Svc
  <2>2. CASE Link = "up"
    <3>1. Link' \in {"closed", "reset"}
      BY DEF Link
    <3>. QED
      BY <2>1, <2>2, <3>1 DEF L!LinkNext, L!ServiceDies
  <2>3. CASE Link # "up"
    <3>1. UNCHANGED <<rst, wire, here>>
      BY <2>3 DEF ServerEndCloses, Unaffected
    <3>2. Link' = Link
      BY <2>3, <3>1 DEF Link
    <3>. QED
      BY <2>1, <2>3, <3>2 DEF L!LinkNext, L!ServiceDies
  <2>. QED
    BY <2>2, <2>3
<1>. QED
  BY <1>1, <1>2, <1>3

(* The client's end goes away. *)
LEMMA ClientGone ==
    ASSUME Closes
    PROVE  [L!LinkNext \/ cut']_<<Link, rpc, Svc>>
<1>1. Svc' = Svc /\ rpc' = rpc
  BY SvcKept DEF Closes, mainVars, threadVars
<1>2. UNCHANGED <<main, swrk>> /\ client' = "closed"
  BY DEF Closes, mainVars, threadVars
<1>3. Link' = IF Link # "up" THEN Link
              ELSE IF rpc.kind \in {"resp", "exc"} THEN "reset" ELSE "closed"
  <2>1. CASE Link = "up" /\ rpc.kind \in {"resp", "exc"}
    BY <2>1 DEF Closes, Resets, Link
  <2>2. CASE Link = "up" /\ rpc.kind \notin {"resp", "exc"}
    BY <1>2, <2>2 DEF Closes, Unaffected, Link
  <2>3. CASE Link # "up"
    BY <1>2, <2>3 DEF Closes, Unaffected, Link, ServerEndClosed, CriuRuns, Exited
  <2>. QED
    BY <2>1, <2>2, <2>3
<1>. QED
  BY <1>1, <1>3 DEF L!LinkNext, L!CallerCloses

(* The handler's reply is the one RpcLink's server gives. *)
LEMMA ReplyRefined ==
    ASSUME TypeOK, ServiceInv, Reply
    PROVE  L!LinkNext
<1>1. thread = "busy" /\ main # "exited" /\ main' = main /\ ~ServerEndClosed /\ ~ServerEndClosed'
  BY DEF Reply, ServerEndClosed, Exited, mainVars
<1>2. Link' = Link /\ (rst <=> Link = "reset")
  BY <1>1 DEF Reply, Link, TypeOK
<1>3. rpc.kind = "call" /\ rpc.val = FALSE /\ ~left /\ left' = left
      /\ (master <=> rpc.fn # "init_rpc")
  BY <1>1 DEF Reply, ServiceInv, OneMessage, MasterFirst, EndsInOrder
<1>4. Svc = (IF master THEN "serving" ELSE "fresh")
  BY <1>1, <1>3 DEF Svc
<1>5. Svc' = L!ServerAfterSend("serving")
  <2>1. thread' = (IF rst THEN "failed" ELSE "running") /\ left' = left
        /\ master' = (master \/ rpc.fn = "init_rpc")
    BY DEF Reply
  <2>2. master'
    BY <1>3, <2>1
  <2>. QED
    BY <1>1, <1>2, <1>3, <2>1, <2>2 DEF Svc, L!ServerAfterSend
<1>6. PICK kind \in Outcomes : rpc' = [rpc EXCEPT !.kind = kind]
  BY DEF Reply, SendReply
<1>7. CASE rpc.fn = "init_rpc"
  <2>1. rpc' = [rpc EXCEPT !.kind = "resp"] /\ Svc = "fresh"
    BY <1>3, <1>4, <1>6, <1>7 DEF Outcomes
  <2>. QED
    BY <1>2, <1>3, <1>5, <1>7, <2>1 DEF L!LinkNext, L!ServeInitRpc
<1>8. CASE rpc.fn # "init_rpc"
  <2>1. kind \in {"resp", "exc"} /\ Svc = "serving"
    BY <1>3, <1>4, <1>6, <1>8 DEF Outcomes
  <2>2. rpc' = [rpc EXCEPT !.kind = kind, !.val = FALSE]
    BY <1>3, <1>6 DEF TypeOK, L!RpcTypeOK
  <2>3. L!Reply(kind, FALSE)
    BY <1>2, <1>5, <2>2 DEF L!Reply
  <2>4. rpc.fn \in L!Calls
    BY <1>3 DEF TypeOK, L!RpcTypeOK, ServiceInv, OneMessage
  <2>5. L!Serving(rpc.fn)
    BY <1>3, <2>1 DEF L!Serving
  <2>. QED
    BY <2>1, <2>3, <2>4, <2>5 DEF L!LinkNext, L!Answers, L!Refuses
<1>. QED
  BY <1>7, <1>8

(* Every step of client, thread, process and network does to the connection what
   RpcLink allows, or takes a part of a message for the whole. *)
LEMMA LinkRefined ==
    ASSUME TypeOK, ServiceInv, [Next]_vars
    PROVE  [L!LinkNext \/ cut']_<<Link, rpc, Svc>>
<1> USE DEF mainVars, threadVars, connVars
<1>1. ASSUME UNCHANGED <<rst, main, swrk, client, left, thread, master, rpc>>
      PROVE  UNCHANGED <<Link, rpc, Svc>>
  BY <1>1, LinkKept, SvcKept
<1>2. CASE \/ Arrives \/ Select \/ WorkStop \/ FinBeforePause \/ UNCHANGED vars
  BY <1>1, <1>2 DEF Arrives, Select, WorkStop, FinBeforePause, vars
<1>3. CASE InstallHandlers \/ StartThread \/ Pause \/ FinAfterPause \/ Signal
  <2>1. main # "exited" /\ main' # "exited" /\ UNCHANGED <<rst, swrk, client, left, master, rpc>>
    BY <1>3 DEF InstallHandlers, StartThread, Pause, FinAfterPause, Signal, MainGoes
  <2>2. thread' = thread \/ (thread = "none" /\ thread' = "running")
    BY <1>3 DEF InstallHandlers, StartThread, Pause, FinAfterPause, Signal, MainGoes,
       ServiceInv, EndsInOrder
  <2>3. Link' = Link /\ Svc' = Svc
    BY <2>1, <2>2 DEF Link, Svc, ServerEndClosed, Exited
  <2>. QED
    BY <2>1, <2>3
<1>4. CASE Call
  <2>1. L!Send(NextCall, FALSE)
    <3>1. Link' = Link
      BY <1>4 DEF Call, Link, ServerEndClosed, CriuRuns, Exited
    <3>2. Svc' = Svc
      BY <1>4, SvcKept DEF Call
    <3>. QED
      BY <1>4, <3>1, <3>2 DEF Call, L!Send, ServiceInv, OneMessage
  <2>2. NextCall \in L!Calls
    BY DEF NextCall, L!Calls
  <2>. QED
    BY <2>1, <2>2 DEF L!LinkNext
<1>5. CASE CallFails \/ GetsNoReply
  <2>1. /\ client # "closed" /\ client' # "closed"
        /\ UNCHANGED <<rst, main, swrk, left, thread, master, rpc>>
    BY <1>5 DEF CallFails, GetsNoReply
  <2>2. Link' = Link /\ Svc' = Svc
    BY <2>1, SvcKept DEF Link, ServerEndClosed, CriuRuns, Exited
  <2>. QED
    BY <2>1, <2>2
<1>6. CASE GetsPartOfReply \/ TakesPartOfCall
  BY <1>6 DEF GetsPartOfReply, TakesPartOfCall
<1>7. CASE GetsReply
  <2>1. /\ client # "closed" /\ client' # "closed" /\ rpc' = L!NoCall
        /\ UNCHANGED <<rst, main, swrk, left, thread, master>>
    BY <1>7 DEF GetsReply, ReplyReadable
  <2>2. Link' = Link /\ Svc' = Svc
    BY <2>1, SvcKept DEF Link, ServerEndClosed, CriuRuns, Exited
  <2>3. ~rst /\ rpc.kind \in {"resp", "exc"}
    BY <1>7 DEF GetsReply, ReplyReadable, ServiceInv, OneMessage, TypeOK
  <2>4. Link # "reset"
    BY <2>3 DEF Link
  <2>. QED
    BY <2>1, <2>2, <2>3, <2>4 DEF L!LinkNext, L!Returns, L!Raises
<1>8. CASE ClientCloses \/ ClientKilled
  BY <1>8, ClientGone DEF ClientCloses, ClientKilled
<1>9. CASE LoopEnds \/ TakesCall
  <2>1. /\ thread = "running" /\ thread' \in {"stopped", "busy"}
        /\ UNCHANGED <<rst, main, swrk, client, left, master, rpc>>
    BY <1>9 DEF LoopEnds, TakesCall, WorksOn, Loops
  <2>2. Link' = Link /\ Svc' = Svc
    BY <2>1, LinkKept DEF Svc, ServerEndClosed, CriuRuns, Exited
  <2>. QED
    BY <2>1, <2>2
<1>10. CASE RecvFails
  <2>1. /\ thread = "running" /\ thread' = "failed" /\ rst /\ ~ServerEndClosed
        /\ UNCHANGED <<rst, main, swrk, client, left, master, rpc>>
    BY <1>10 DEF RecvFails, WorksOn, Loops, ServerEndClosed
  <2>2. Link = "reset" /\ Link' = Link
    BY <2>1, LinkKept DEF Link
  <2>3. CASE left
    BY <2>1, <2>2, <2>3 DEF Svc
  <2>4. CASE ~left
    <3>1. Svc \in {"fresh", "serving"} /\ Svc' = "dead"
      BY <2>1, <2>4 DEF Svc
    <3>. QED
      BY <2>1, <2>2, <3>1 DEF L!LinkNext, L!ServerRecvFails
  <2>. QED
    BY <2>3, <2>4
<1>11. CASE Reply
  BY <1>11, ReplyRefined
<1>12. CASE Disconnects \/ DisconnectRaises
  <2>1. /\ ReadsEOF /\ UNCHANGED <<rst, main, client, master, rpc>>
        /\ left' \/ thread' = "failed"
    BY <1>12 DEF Disconnects, DisconnectRaises
  <2>2. /\ thread = "running" /\ ~Exited /\ RpcListed /\ ~rst
        /\ client = "closed" /\ wire = 0 /\ here = 0
    BY <2>1, TailCases DEF ReadsEOF, WorksOn, Loops, EOF, TypeOK
  <2>3. ~left /\ rpc.kind # "call"
    BY <2>2 DEF ServiceInv, EndsInOrder, OneMessage
  <2>4. Link = "closed" /\ Link' = Link
    BY <2>1, <2>2 DEF Link, ServerEndClosed, Exited
  <2>5. Svc \in {"fresh", "serving"} /\ Svc' \in {"closed", "dead"}
    BY <2>1, <2>2, <2>3 DEF Svc, ServerEndClosed, Exited
  <2>. QED
    BY <2>1, <2>3, <2>4, <2>5 DEF L!LinkNext, L!EndsAtEOF, L!ReadsEOF
<1>13. CASE Exits \/ Killed
  <2>1. /\ main # "exited" /\ main' = "exited"
        /\ UNCHANGED <<left, thread, master, swrk, client, rpc, cut>>
    BY <1>13 DEF Exits, Killed, MainGoes, Exited
  <2>2. ~ServerEndClosed /\ CriuRuns' = CriuRuns
    BY <2>1 DEF ServerEndClosed, CriuRuns, Exited
  <2>3. CASE CriuRuns
    <3>1. rst' = rst /\ ~ServerEndClosed'
      BY <1>13, <2>2, <2>3 DEF Exits, Killed, Unaffected, ServerEndClosed
    <3>2. Link' = Link /\ Svc' = Svc
      BY <2>1, <2>2, <3>1 DEF Link, Svc
    <3>. QED
      BY <2>1, <3>2
  <2>4. CASE ~CriuRuns
    <3>1. ServerEndClosed' /\ ServerEndCloses
      BY <1>13, <2>1, <2>2, <2>4 DEF Exits, Killed, ServerEndClosed, Exited
    <3>. QED
      BY <2>1, <2>2, <3>1, EndGone
  <2>. QED
    BY <2>3, <2>4
<1>14. CASE CriuExits
  <2>1. /\ ~ServerEndClosed /\ ServerEndClosed' /\ ServerEndCloses
        /\ UNCHANGED <<left, thread, client, rpc, cut>>
    BY <1>14 DEF CriuExits, ServerEndClosed, CriuRuns, Exited
  <2>. QED
    BY <2>1, EndGone
<1>15. CASE ConnectionLost
  <2>1. /\ Link = "up" /\ rst' /\ UNCHANGED <<main, swrk, client, left, thread, master, rpc>>
    BY <1>15 DEF ConnectionLost, Resets
  <2>2. Link' = "reset" /\ Svc' = Svc
    BY <2>1, SvcKept DEF Link
  <2>. QED
    BY <2>1, <2>2 DEF L!LinkNext, L!LinkResets
<1>. QED
  BY <1>2, <1>3, <1>4, <1>5, <1>6, <1>7, <1>8, <1>9, <1>10, <1>11, <1>12, <1>13, <1>14, <1>15
     DEF Next, ClientStep, ThreadStep, MainStep, Fault

(* The program implements the connection that the models of the migration use, as
   long as no message is taken in parts: for every length of messages and any
   number of calls and signals. *)
THEOREM ServiceLink == Spec => LinkImplemented
<1>1. Init => L!RpcInit
  BY DEF Init, L!RpcInit, Link, Svc, ServerEndClosed, Exited
<1>. QED
  BY <1>1, LinkRefined, ServiceInvariant, PTL DEF Spec, LinkImplemented
=============================================================================

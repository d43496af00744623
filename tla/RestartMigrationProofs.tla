------------------------ MODULE RestartMigrationProofs ------------------------
(* Proofs about RestartMigration, for every set of jobs, faults and amounts. *)
EXTENDS RestartMigration, TLAPS

(* A reply answers the call it is for, and keeps the types of the connection. *)
LEMMA ReplyStep ==
    ASSUME RpcTypeOK, Answers \/ Refuses
    PROVE  RpcTypeOK' /\ rpc'.fn = rpc.fn /\ rpc'.kind \in {"resp", "exc"}
<1>1. ASSUME NEW k \in {"resp", "exc"}, Reply(k, FALSE)
      PROVE  RpcTypeOK' /\ rpc'.fn = rpc.fn /\ rpc'.kind \in {"resp", "exc"}
  BY <1>1 DEF Reply, ServerAfterSend, RpcTypeOK
<1>. QED
  BY <1>1 DEF Answers, Refuses

(* So does an exception in the caller. *)
LEMMA RaiseTypes ==
    ASSUME RpcTypeOK, Raises
    PROVE  RpcTypeOK'
<1>1. (rpc' = NoCall \/ rpc' = rpc) /\ link' = link /\ svc' = svc
  BY DEF Raises
<1>2. NoCall \in [kind : {"idle", "call", "resp", "exc"},
                 fn : Calls \cup {"none"}, val : BOOLEAN]
  BY DEF NoCall
<1>. QED
  BY <1>1, <1>2 DEF RpcTypeOK

(* Every step keeps the types. *)
LEMMA TypeStep ==
    ASSUME TypeOK, [Next]_vars
    PROVE  TypeOK'
<1> USE DEF TypeOK, Points, Sites, Site, TryBlock, AfterStart, Ended, Goto,
            rpcVars, srcVars, dstVars
<1>1. CASE CallSite
  BY <1>1 DEF CallSite, Send, RpcTypeOK, Calls
<1>2. CASE CallReturns
  BY <1>2 DEF CallReturns, Returns, NoCall, RpcTypeOK
<1>3. CASE CallRaises
  <2>1. RpcTypeOK'
    BY <1>3, RaiseTypes DEF CallRaises
  <2>. QED
    BY <1>3, <2>1 DEF CallRaises, Handler
<1>4. CASE LocalRaises
  BY <1>4 DEF LocalRaises, Handler, RpcTypeOK
<1>5. CASE FsStart
  BY <1>5 DEF FsStart, RpcTypeOK
<1>6. CASE Round
  BY <1>6, RestartAssumption DEF Round, NextIndex, RpcTypeOK
<1>7. CASE Stop
  BY <1>7 DEF Stop, Stops, RpcTypeOK
<1>8. CASE FsStop
  BY <1>8 DEF FsStop, RpcTypeOK
<1>9. CASE Umount
  BY <1>9 DEF Umount, Unmounts, AfterUmount, RpcTypeOK
<1>10. CASE MigrationFail
  BY <1>10 DEF MigrationFail, RpcTypeOK
<1>11. CASE StartBack
  BY <1>11 DEF StartBack, RpcTypeOK
<1>12. CASE Cleanup
  BY <1>12 DEF Cleanup, RpcTypeOK
<1>13. CASE Exit
  BY <1>13 DEF Exit, CallerCloses, RpcTypeOK
<1>14. CASE Crash
  BY <1>14 DEF Crash, CallerCloses, RpcTypeOK
<1>15. CASE InitRpc
  BY <1>15 DEF InitRpc, ServeInitRpc, ServerAfterSend, RpcTypeOK
<1>16. CASE Setup
  <2>1. RpcTypeOK'
    BY <1>16, ReplyStep DEF Setup
  <2>. QED
    BY <1>16, <2>1 DEF Setup
<1>17. CASE SetOptions
  <2>1. RpcTypeOK'
    BY <1>17, ReplyStep DEF SetOptions
  <2>. QED
    BY <1>17, <2>1 DEF SetOptions
<1>18. CASE StartHtype
  <2>1. RpcTypeOK'
    BY <1>18, ReplyStep DEF StartHtype
  <2>. QED
    BY <1>18, <2>1 DEF StartHtype
<1>19. CASE StartHtypeFails
  <2>1. RpcTypeOK'
    BY <1>19, ReplyStep DEF StartHtypeFails
  <2>. QED
    BY <1>19, <2>1 DEF StartHtypeFails
<1>20. CASE MigrationComplete
  <2>1. RpcTypeOK'
    BY <1>20, ReplyStep DEF MigrationComplete
  <2>. QED
    BY <1>20, <2>1 DEF MigrationComplete
<1>21. CASE OnDisconnect
  BY <1>21 DEF OnDisconnect, ReadsEOF, StopsOnDisconnect, RpcTypeOK
<1>22. CASE RecvFails
  BY <1>22 DEF RecvFails, ServerRecvFails, RpcTypeOK
<1>23. CASE ConnectionLost
  BY <1>23 DEF ConnectionLost, LinkResets, RpcTypeOK
<1>24. CASE ServiceKilled
  BY <1>24 DEF ServiceKilled, ServiceDies, RpcTypeOK
<1>25. CASE UNCHANGED vars
  BY <1>25 DEF vars, RpcTypeOK
<1>. QED
  BY <1>1, <1>2, <1>3, <1>4, <1>5, <1>6, <1>7, <1>8, <1>9, <1>10, <1>11, <1>12, <1>13,
     <1>14, <1>15, <1>16, <1>17, <1>18, <1>19, <1>20, <1>21, <1>22, <1>23, <1>24, <1>25
     DEF Next, SourceStep, ServiceStep

(* Every step keeps the outstanding call the one the source waits for. *)
LEMMA CallStep ==
    ASSUME TypeOK, CallMatchesPoint, [Next]_vars
    PROVE  CallMatchesPoint'
<1> USE DEF CallMatchesPoint, TypeOK, RpcTypeOK, Sites, Site, Adrift, Early, TryBlock,
            AfterStart, Ended, AtStart, StartUnanswered, rpcVars, srcVars, dstVars
<1>1. CASE CallSite
  BY <1>1 DEF CallSite, Send, NoCall
<1>2. CASE CallReturns
  BY <1>2 DEF CallReturns, Returns, NoCall, Goto
<1>3. CASE CallRaises
  BY <1>3 DEF CallRaises, Raises, NoCall, Goto, Handler
<1>4. CASE LocalRaises
  BY <1>4 DEF LocalRaises, Goto, Handler
<1>5. CASE FsStart
  BY <1>5 DEF FsStart, Goto
<1>6. CASE Round
  BY <1>6 DEF Round
<1>7. CASE Stop
  BY <1>7 DEF Stop, Stops, Goto
<1>8. CASE FsStop
  BY <1>8 DEF FsStop, Goto
<1>9. CASE Umount
  BY <1>9 DEF Umount, Unmounts, AfterUmount, Goto
<1>10. CASE MigrationFail
  BY <1>10 DEF MigrationFail, Goto
<1>11. CASE StartBack
  BY <1>11 DEF StartBack, Goto
<1>12. CASE Cleanup
  BY <1>12 DEF Cleanup, Goto
<1>13. CASE Exit
  BY <1>13 DEF Exit, CallerCloses, Goto
<1>14. CASE Crash
  BY <1>14 DEF Crash, CallerCloses, Goto
<1>15. CASE InitRpc
  BY <1>15 DEF InitRpc, ServeInitRpc, ServerAfterSend
<1>16. CASE Setup
  BY <1>16 DEF Setup, Serving, Answers, Refuses, Reply, ServerAfterSend
<1>17. CASE SetOptions
  BY <1>17 DEF SetOptions, Serving, Answers, Reply, ServerAfterSend
<1>18. CASE StartHtype
  BY <1>18 DEF StartHtype, Serving, Answers, Reply, ServerAfterSend
<1>19. CASE StartHtypeFails
  BY <1>19 DEF StartHtypeFails, Serving, Refuses, Reply, ServerAfterSend
<1>20. CASE MigrationComplete
  BY <1>20, ReplyStep DEF MigrationComplete, Serving, Answers, Refuses, Reply
<1>21. CASE OnDisconnect
  BY <1>21 DEF OnDisconnect, ReadsEOF, StopsOnDisconnect
<1>22. CASE RecvFails
  BY <1>22 DEF RecvFails, ServerRecvFails
<1>23. CASE ConnectionLost
  BY <1>23 DEF ConnectionLost, LinkResets
<1>24. CASE ServiceKilled
  BY <1>24 DEF ServiceKilled, ServiceDies
<1>25. CASE UNCHANGED vars
  BY <1>25 DEF vars
<1>. QED
  BY <1>1, <1>2, <1>3, <1>4, <1>5, <1>6, <1>7, <1>8, <1>9, <1>10, <1>11, <1>12, <1>13,
     <1>14, <1>15, <1>16, <1>17, <1>18, <1>19, <1>20, <1>21, <1>22, <1>23, <1>24, <1>25
     DEF Next, SourceStep, ServiceStep

(* Every step keeps what is known about the start on the target. *)
LEMMA StartStep ==
    ASSUME TypeOK, CallMatchesPoint, StartedInOrder, StartIsKnown, [Next]_vars
    PROVE  StartedInOrder' /\ StartIsKnown'
<1> USE DEF CallMatchesPoint, StartedInOrder, StartIsKnown, TypeOK, RpcTypeOK, Sites, Site, Adrift, Early, TryBlock,
            AfterStart, Ended, AtStart, StartUnanswered, rpcVars, srcVars, dstVars
<1>1. CASE CallSite
  BY <1>1 DEF CallSite, Send, NoCall
<1>2. CASE CallReturns
  BY <1>2 DEF CallReturns, Returns, NoCall, Goto
<1>3. CASE CallRaises
  BY <1>3 DEF CallRaises, Raises, NoCall, Goto, Handler
<1>4. CASE LocalRaises
  BY <1>4 DEF LocalRaises, Goto, Handler
<1>5. CASE FsStart
  BY <1>5 DEF FsStart, Goto
<1>6. CASE Round
  BY <1>6 DEF Round
<1>7. CASE Stop
  BY <1>7 DEF Stop, Stops, Goto
<1>8. CASE FsStop
  BY <1>8 DEF FsStop, Goto
<1>9. CASE Umount
  BY <1>9 DEF Umount, Unmounts, AfterUmount, Goto
<1>10. CASE MigrationFail
  BY <1>10 DEF MigrationFail, Goto
<1>11. CASE StartBack
  BY <1>11 DEF StartBack, Goto
<1>12. CASE Cleanup
  BY <1>12 DEF Cleanup, Goto
<1>13. CASE Exit
  BY <1>13 DEF Exit, CallerCloses, Goto
<1>14. CASE Crash
  BY <1>14 DEF Crash, CallerCloses, Goto
<1>15. CASE InitRpc
  BY <1>15 DEF InitRpc, ServeInitRpc, ServerAfterSend
<1>16. CASE Setup
  BY <1>16 DEF Setup, Serving, Answers, Refuses, Reply, ServerAfterSend
<1>17. CASE SetOptions
  BY <1>17 DEF SetOptions, Serving, Answers, Reply, ServerAfterSend
<1>18. CASE StartHtype
  BY <1>18 DEF StartHtype, Serving, Answers, Reply, ServerAfterSend
<1>19. CASE StartHtypeFails
  BY <1>19 DEF StartHtypeFails, Serving, Refuses, Reply, ServerAfterSend
<1>20. CASE MigrationComplete
  <2>1. rpc.fn = "migration_complete" /\ rpc.kind = "call" /\ rpc'.fn = rpc.fn
    BY <1>20, ReplyStep DEF MigrationComplete, Serving
  <2>2. rpc'.kind \in {"resp", "exc"} /\ UNCHANGED <<pc, job, dst, htype, restored>>
    BY <1>20, ReplyStep DEF MigrationComplete
  <2>. QED
    BY <2>1, <2>2
<1>21. CASE OnDisconnect
  BY <1>21 DEF OnDisconnect, ReadsEOF, StopsOnDisconnect
<1>22. CASE RecvFails
  BY <1>22 DEF RecvFails, ServerRecvFails
<1>23. CASE ConnectionLost
  BY <1>23 DEF ConnectionLost, LinkResets
<1>24. CASE ServiceKilled
  BY <1>24 DEF ServiceKilled, ServiceDies
<1>25. CASE UNCHANGED vars
  BY <1>25 DEF vars
<1>. QED
  BY <1>1, <1>2, <1>3, <1>4, <1>5, <1>6, <1>7, <1>8, <1>9, <1>10, <1>11, <1>12, <1>13,
     <1>14, <1>15, <1>16, <1>17, <1>18, <1>19, <1>20, <1>21, <1>22, <1>23, <1>24, <1>25
     DEF Next, SourceStep, ServiceStep

(* Every step after on_disconnect leaves the container stopped on the target. *)
LEMMA StopStep ==
    ASSUME TypeOK, StartedInOrder, StoppedAtEnd, [Next]_vars
    PROVE  StoppedAtEnd'
<1> USE DEF StartedInOrder, StoppedAtEnd, TypeOK, RpcTypeOK, Sites, Site, Adrift, Early, TryBlock,
            AfterStart, Ended, AtStart, StartUnanswered, rpcVars, srcVars, dstVars
<1>1. CASE CallSite
  BY <1>1 DEF CallSite, Send, NoCall
<1>2. CASE CallReturns
  BY <1>2 DEF CallReturns, Returns, NoCall, Goto
<1>3. CASE CallRaises
  BY <1>3 DEF CallRaises, Raises, NoCall, Goto, Handler
<1>4. CASE LocalRaises
  BY <1>4 DEF LocalRaises, Goto, Handler
<1>5. CASE FsStart
  BY <1>5 DEF FsStart, Goto
<1>6. CASE Round
  BY <1>6 DEF Round
<1>7. CASE Stop
  BY <1>7 DEF Stop, Stops, Goto
<1>8. CASE FsStop
  BY <1>8 DEF FsStop, Goto
<1>9. CASE Umount
  BY <1>9 DEF Umount, Unmounts, AfterUmount, Goto
<1>10. CASE MigrationFail
  BY <1>10 DEF MigrationFail, Goto
<1>11. CASE StartBack
  BY <1>11 DEF StartBack, Goto
<1>12. CASE Cleanup
  BY <1>12 DEF Cleanup, Goto
<1>13. CASE Exit
  BY <1>13 DEF Exit, CallerCloses, Goto
<1>14. CASE Crash
  BY <1>14 DEF Crash, CallerCloses, Goto
<1>15. CASE InitRpc
  BY <1>15 DEF InitRpc, ServeInitRpc, ServerAfterSend
<1>16. CASE Setup
  BY <1>16 DEF Setup, Serving, Answers, Refuses, Reply, ServerAfterSend
<1>17. CASE SetOptions
  BY <1>17 DEF SetOptions, Serving, Answers, Reply, ServerAfterSend
<1>18. CASE StartHtype
  BY <1>18 DEF StartHtype, Serving, Answers, Reply, ServerAfterSend
<1>19. CASE StartHtypeFails
  BY <1>19 DEF StartHtypeFails, Serving, Refuses, Reply, ServerAfterSend
<1>20. CASE MigrationComplete
  BY <1>20 DEF MigrationComplete, Serving, Answers, Refuses, Reply, ServerAfterSend
<1>21. CASE OnDisconnect
  BY <1>21 DEF OnDisconnect, ReadsEOF, StopsOnDisconnect
<1>22. CASE RecvFails
  BY <1>22 DEF RecvFails, ServerRecvFails
<1>23. CASE ConnectionLost
  BY <1>23 DEF ConnectionLost, LinkResets
<1>24. CASE ServiceKilled
  BY <1>24 DEF ServiceKilled, ServiceDies
<1>25. CASE UNCHANGED vars
  BY <1>25 DEF vars
<1>. QED
  BY <1>1, <1>2, <1>3, <1>4, <1>5, <1>6, <1>7, <1>8, <1>9, <1>10, <1>11, <1>12, <1>13,
     <1>14, <1>15, <1>16, <1>17, <1>18, <1>19, <1>20, <1>21, <1>22, <1>23, <1>24, <1>25
     DEF Next, SourceStep, ServiceStep

(* Every step keeps what the program point says of the source's container. *)
LEMMA SourceInStepStep ==
    ASSUME TypeOK, CallMatchesPoint, StartedInOrder, StartIsKnown, SourceInStep, [Next]_vars
    PROVE  SourceInStep'
<1> USE DEF CallMatchesPoint, StartedInOrder, StartIsKnown, SourceInStep, TypeOK, RpcTypeOK, Sites, Site, Adrift, Early, TryBlock,
            AfterStart, Ended, AtStart, StartUnanswered, rpcVars, srcVars, dstVars
<1>1. CASE CallSite
  BY <1>1 DEF CallSite, Send, NoCall
<1>2. CASE CallReturns
  BY <1>2 DEF CallReturns, Returns, NoCall, Goto
<1>3. CASE CallRaises
  BY <1>3 DEF CallRaises, Raises, NoCall, Goto, Handler
<1>4. CASE LocalRaises
  BY <1>4 DEF LocalRaises, Goto, Handler
<1>5. CASE FsStart
  BY <1>5 DEF FsStart, Goto
<1>6. CASE Round
  BY <1>6 DEF Round
<1>7. CASE Stop
  BY <1>7 DEF Stop, Stops, Goto
<1>8. CASE FsStop
  BY <1>8 DEF FsStop, Goto
<1>9. CASE Umount
  BY <1>9 DEF Umount, Unmounts, AfterUmount, Goto
<1>10. CASE MigrationFail
  BY <1>10 DEF MigrationFail, Goto
<1>11. CASE StartBack
  BY <1>11 DEF StartBack, Goto
<1>12. CASE Cleanup
  BY <1>12 DEF Cleanup, Goto
<1>13. CASE Exit
  BY <1>13 DEF Exit, CallerCloses, Goto
<1>14. CASE Crash
  BY <1>14 DEF Crash, CallerCloses, Goto
<1>15. CASE InitRpc
  BY <1>15 DEF InitRpc, ServeInitRpc, ServerAfterSend
<1>16. CASE Setup
  BY <1>16 DEF Setup, Serving, Answers, Refuses, Reply, ServerAfterSend
<1>17. CASE SetOptions
  BY <1>17 DEF SetOptions, Serving, Answers, Reply, ServerAfterSend
<1>18. CASE StartHtype
  BY <1>18 DEF StartHtype, Serving, Answers, Reply, ServerAfterSend
<1>19. CASE StartHtypeFails
  BY <1>19 DEF StartHtypeFails, Serving, Refuses, Reply, ServerAfterSend
<1>20. CASE MigrationComplete
  BY <1>20 DEF MigrationComplete, Serving, Answers, Refuses, Reply, ServerAfterSend
<1>21. CASE OnDisconnect
  BY <1>21 DEF OnDisconnect, ReadsEOF, StopsOnDisconnect
<1>22. CASE RecvFails
  BY <1>22 DEF RecvFails, ServerRecvFails
<1>23. CASE ConnectionLost
  BY <1>23 DEF ConnectionLost, LinkResets
<1>24. CASE ServiceKilled
  BY <1>24 DEF ServiceKilled, ServiceDies
<1>25. CASE UNCHANGED vars
  BY <1>25 DEF vars
<1>. QED
  BY <1>1, <1>2, <1>3, <1>4, <1>5, <1>6, <1>7, <1>8, <1>9, <1>10, <1>11, <1>12, <1>13,
     <1>14, <1>15, <1>16, <1>17, <1>18, <1>19, <1>20, <1>21, <1>22, <1>23, <1>24, <1>25
     DEF Next, SourceStep, ServiceStep

(* Every step keeps the source informed, without the faults that do not. *)
LEMMA InTouchStep ==
    ASSUME TypeOK, CallMatchesPoint, StartedInOrder, StartIsKnown, InTouch, [Next]_vars
    PROVE  InTouch'
<1> USE DEF CallMatchesPoint, StartedInOrder, StartIsKnown, InTouch, Promised, TypeOK, RpcTypeOK, Sites, Site, Adrift, Early, TryBlock,
            AfterStart, Ended, AtStart, StartUnanswered, rpcVars, srcVars, dstVars
<1>1. CASE CallSite
  BY <1>1 DEF CallSite, Send, NoCall
<1>2. CASE CallReturns
  BY <1>2 DEF CallReturns, Returns, NoCall, Goto
<1>3. CASE CallRaises
  BY <1>3 DEF CallRaises, Raises, NoCall, Goto, Handler
<1>4. CASE LocalRaises
  BY <1>4 DEF LocalRaises, Goto, Handler
<1>5. CASE FsStart
  BY <1>5 DEF FsStart, Goto
<1>6. CASE Round
  BY <1>6 DEF Round
<1>7. CASE Stop
  BY <1>7 DEF Stop, Stops, Goto
<1>8. CASE FsStop
  BY <1>8 DEF FsStop, Goto
<1>9. CASE Umount
  BY <1>9 DEF Umount, Unmounts, AfterUmount, Goto
<1>10. CASE MigrationFail
  BY <1>10 DEF MigrationFail, Goto
<1>11. CASE StartBack
  BY <1>11 DEF StartBack, Goto
<1>12. CASE Cleanup
  BY <1>12 DEF Cleanup, Goto
<1>13. CASE Exit
  BY <1>13 DEF Exit, CallerCloses, Goto
<1>14. CASE Crash
  BY <1>14 DEF Crash, CallerCloses, Goto
<1>15. CASE InitRpc
  BY <1>15 DEF InitRpc, ServeInitRpc, ServerAfterSend
<1>16. CASE Setup
  BY <1>16 DEF Setup, Serving, Answers, Refuses, Reply, ServerAfterSend
<1>17. CASE SetOptions
  BY <1>17 DEF SetOptions, Serving, Answers, Reply, ServerAfterSend
<1>18. CASE StartHtype
  BY <1>18 DEF StartHtype, Serving, Answers, Reply, ServerAfterSend
<1>19. CASE StartHtypeFails
  BY <1>19 DEF StartHtypeFails, Serving, Refuses, Reply, ServerAfterSend
<1>20. CASE MigrationComplete
  BY <1>20 DEF MigrationComplete, Serving, Answers, Refuses, Reply, ServerAfterSend
<1>21. CASE OnDisconnect
  BY <1>21 DEF OnDisconnect, ReadsEOF, StopsOnDisconnect
<1>22. CASE RecvFails
  BY <1>22 DEF RecvFails, ServerRecvFails
<1>23. CASE ConnectionLost
  BY <1>23 DEF ConnectionLost, LinkResets
<1>24. CASE ServiceKilled
  BY <1>24 DEF ServiceKilled, ServiceDies
<1>25. CASE UNCHANGED vars
  BY <1>25 DEF vars
<1>. QED
  BY <1>1, <1>2, <1>3, <1>4, <1>5, <1>6, <1>7, <1>8, <1>9, <1>10, <1>11, <1>12, <1>13,
     <1>14, <1>15, <1>16, <1>17, <1>18, <1>19, <1>20, <1>21, <1>22, <1>23, <1>24, <1>25
     DEF Next, SourceStep, ServiceStep

-----------------------------------------------------------------------------
(* A migration begins in a state of the inductive invariant. *)
LEMMA RestartInit == Init => TypeOK /\ RestartInv
<1>. SUFFICES ASSUME Init PROVE TypeOK /\ RestartInv
  OBVIOUS
<1>1. RpcTypeOK
  BY DEF Init, RpcInit, RpcTypeOK, NoCall, Calls
<1>2. job \in AllJobs
  BY RestartAssumption DEF Init
<1>3. TypeOK
  BY <1>1, <1>2 DEF Init, TypeOK, Points, Sites, NoStats
<1>4. rpc.kind = "idle" /\ rpc.fn = "none" /\ link = "up" /\ svc = "fresh"
  BY DEF Init, RpcInit, NoCall
<1>5. CallMatchesPoint /\ StartedInOrder /\ StartIsKnown /\ StoppedAtEnd
  BY <1>4 DEF Init, CallMatchesPoint, StartedInOrder, StartIsKnown, StoppedAtEnd, AtStart,
     StartUnanswered, Adrift, Early, Ended, AfterStart, Sites
<1>6. SourceInStep /\ InTouch
  BY <1>4 DEF Init, SourceInStep, InTouch, AtStart, StartUnanswered, Early, TryBlock,
     AfterStart, Ended, Sites
<1>. QED
  BY <1>3, <1>5, <1>6 DEF RestartInv

(* Type correctness (the fields of the driver, the service and the connection
   are what the code puts into them), for all jobs and transfers. *)
THEOREM RestartTypeCorrect == Spec => []TypeOK
  BY RestartInit, TypeStep, PTL DEF Spec

(* The inductive invariant: which call is outstanding at each program point, who
   knows of a start on the target, and where the container may run. *)
THEOREM RestartInvariant == Spec => []RestartInv
<1>1. TypeOK /\ RestartInv /\ [Next]_vars => RestartInv'
  BY CallStep, StartStep, StopStep, SourceInStepStep, InTouchStep DEF RestartInv
<1>. QED
  BY <1>1, RestartInit, RestartTypeCorrect, PTL DEF Spec

(* The container runs on both hosts only while a reply to start_htype is in
   doubt, or until on_disconnect has stopped what vzctl misreported. *)
THEOREM RestartStartedOnce == Spec => []StartedOnceUnlessInDoubt
<1>1. RestartInv => StartedOnceUnlessInDoubt
  BY DEF RestartInv, StartedOnceUnlessInDoubt, StartIsKnown, StoppedAtEnd, SourceInStep,
     StartMisreported
<1>. QED
  BY <1>1, RestartInvariant, PTL

(* "umount before start on target" holds whenever vzctl umount unmounts, whatever
   else fails. *)
THEOREM RestartUmounted == Spec => []UmountedIfUmountWorks
<1>1. RestartInv => UmountedIfUmountWorks
  BY DEF RestartInv, UmountedIfUmountWorks, UmountedBeforeStart, SourceInStep, AtStart
<1>. QED
  BY <1>1, RestartInvariant, PTL

(* A failed migration leaves the container running on the source, unless vzctl
   start did not start it again. *)
THEOREM RestartFailureGivesBack == Spec => []FailureGivesBack
<1>1. RestartInv => FailureGivesBack
  BY DEF RestartInv, FailureGivesBack, SourceInStep
<1>. QED
  BY <1>1, RestartInvariant, PTL

(* A migration that succeeded with a start leaves the container running on the
   target for good. *)
THEOREM RestartSuccessRuns == Spec => []SuccessKeepsRunning
<1>1. RestartInv => SuccessKeepsRunning
  BY DEF RestartInv, SuccessKeepsRunning, StartIsKnown
<1>. QED
  BY <1>1, RestartInvariant, PTL

-----------------------------------------------------------------------------
(* No step changes the job. *)
LEMMA JobKept == ASSUME [Next]_vars PROVE job' = job
  BY DEF Next, SourceStep, ServiceStep, CallSite, CallReturns, CallRaises, LocalRaises,
     FsStart, Round, Stop, FsStop, Umount, MigrationFail, StartBack, Cleanup, Exit, Crash,
     InitRpc, Setup, SetOptions, StartHtype, StartHtypeFails, MigrationComplete,
     OnDisconnect, RecvFails, ConnectionLost, ServiceKilled, Goto, vars, srcVars

(* The steps of the handover are the stop, the start on the target, the news of it
   and the start back; all others keep what Handover sees. *)
LEMMA HandoverRefined ==
    ASSUME TypeOK, RestartInv, Promised, [Next]_vars
    PROVE  [H!Next]_(H!vars)
<1> USE DEF TypeOK, RestartInv, StartIsKnown, InTouch
<1>0. Promised' /\ job.faults \cap {"stop", "start", "halfstart", "crash"} = {}
  BY JobKept DEF Promised
<1> DEFINE Knows(p) == p \in AfterStart \cup {"done", "succeeded"}
<1>1. ASSUME dst' = dst, Knows(pc') <=> Knows(pc),
             (src' = "running") <=> (src = "running")
      PROVE  UNCHANGED H!vars
  BY <1>0, <1>1 DEF H!vars
<1>2. CASE Stop
  <2>1. src = "running" /\ dst = "stopped" /\ pc = "stop" /\ pc' = "fs_stop"
    BY <1>2 DEF Stop, Goto, SourceInStep, StartedInOrder, Early
  <2>2. src' = "mounted" /\ dst' = dst
    BY <1>0, <1>2 DEF Stop, Stops
  <2>. QED
    BY <1>0, <2>1, <2>2 DEF H!Next, H!Freeze
<1>3. CASE StartHtype
  <2>1. pc = "start" /\ dst = "stopped" /\ UNCHANGED <<pc, src>> /\ dst' = "running"
    BY <1>3 DEF StartHtype, Serving, AtStart, StartedInOrder, srcVars
  <2>2. src # "running"
    BY <1>0, <2>1 DEF SourceInStep, TryBlock
  <2>. QED
    BY <1>0, <2>1, <2>2 DEF H!Next, H!Activate, AfterStart
<1>4. CASE CallReturns
  <2>1. CASE pc = "start"
    <3>1. dst = "running" /\ src # "running"
      BY <1>0, <1>4, <2>1 DEF CallReturns, Returns, CallMatchesPoint, Sites, Site,
           StartUnanswered, SourceInStep, TryBlock
    <3>2. pc' = "cleanup" /\ UNCHANGED <<src, dst>>
      BY <1>4, <2>1 DEF CallReturns, Goto, Sites, Site
    <3>. QED
      BY <1>0, <2>1, <3>1, <3>2 DEF H!Next, H!Retire, AfterStart
  <2>2. CASE pc # "start"
    BY <1>1, <1>4, <2>2 DEF CallReturns, Goto, Sites, Site, AfterStart
  <2>. QED
    BY <2>1, <2>2
<1>5. CASE StartBack
  <2>1. pc = "start_back" /\ pc' = "raise" /\ src' = "running" /\ dst' = dst
    BY <1>0, <1>5 DEF StartBack, Goto
  <2>2. dst = "stopped" /\ src # "running"
    BY <1>0, <2>1 DEF SourceInStep, AfterStart
  <2>. QED
    BY <1>0, <2>1, <2>2 DEF H!Next, H!Thaw
<1>6. CASE OnDisconnect
  BY <1>0, <1>1, <1>6 DEF OnDisconnect, StopsOnDisconnect, srcVars
<1>7. CASE StartHtypeFails
  BY <1>0, <1>1, <1>7 DEF StartHtypeFails, srcVars
<1>8. CASE CallRaises
  BY <1>1, <1>8 DEF CallRaises, Goto, Handler, Sites, TryBlock, AfterStart
<1>9. CASE Umount
  <2>1. pc = "umount" /\ pc' \in {"start", "cleanup"} /\ dst' = dst /\ ~job.nostart
    BY <1>9 DEF Umount, Goto, AfterUmount, Promised
  <2>2. (src' = "running") <=> (src = "running")
    BY <1>9 DEF Umount, Unmounts
  <2>3. pc' = "start"
    BY <2>1, <1>9 DEF Umount, Goto, AfterUmount
  <2>. QED
    BY <1>1, <2>1, <2>2, <2>3 DEF AfterStart
<1>10. CASE \/ CallSite \/ LocalRaises \/ FsStart \/ Round \/ FsStop
            \/ MigrationFail \/ Cleanup \/ Exit
  BY <1>1, <1>10 DEF CallSite, LocalRaises, FsStart, Round, FsStop, MigrationFail, Cleanup,
     Exit, Goto, Handler, TryBlock, AfterStart, srcVars
<1>11. CASE \/ InitRpc \/ Setup \/ SetOptions \/ MigrationComplete \/ RecvFails
            \/ ConnectionLost \/ ServiceKilled \/ UNCHANGED vars
  BY <1>1, <1>11 DEF InitRpc, Setup, SetOptions, MigrationComplete, RecvFails,
     ConnectionLost, ServiceKilled, vars, srcVars
<1>12. CASE Crash
  BY <1>0, <1>12 DEF Crash
<1>. QED
  BY <1>2, <1>3, <1>4, <1>5, <1>6, <1>7, <1>8, <1>9, <1>10, <1>11, <1>12
     DEF Next, SourceStep, ServiceStep

(* Restart mode implements the abstract handover wherever one is promised, for all
   jobs: the safety half of HandoverDecided. *)
THEOREM RestartHandover == Spec => H!Spec
<1>1. Init => H!Init
  BY DEF Init, H!Init
<1>2. ASSUME TypeOK, RestartInv, [Next]_vars
      PROVE  [H!Next]_(H!vars)
  <2>1. CASE Promised
    BY <1>2, <2>1, HandoverRefined
  <2>2. CASE ~Promised
    <3>1. ~Promised'
      BY <1>2, <2>2, JobKept DEF Promised
    <3>. QED
      BY <2>2, <3>1 DEF H!vars
  <2>. QED
    BY <2>1, <2>2
<1>. QED
  BY <1>1, <1>2, RestartTypeCorrect, RestartInvariant, PTL DEF Spec, H!Spec

(* The promise of the abstract handover, from its steps alone: one home, never lost. *)
LEMMA HandoverPromise == H!Spec => [](H!OneHome /\ H!NeverLost)
<1>1. H!Init => H!OneHome /\ H!NeverLost
  BY DEF H!Init, H!OneHome, H!NeverLost
<1>2. H!OneHome /\ H!NeverLost /\ [H!Next]_(H!vars) => (H!OneHome /\ H!NeverLost)'
  BY DEF H!OneHome, H!NeverLost, H!Next, H!Freeze, H!Thaw, H!Activate, H!Retire, H!vars
<1>. QED
  BY <1>1, <1>2, PTL DEF H!Spec

(* So a container never runs on both hosts in a migration that promises a handover. *)
THEOREM RestartOneHome == Spec => [](Promised => ~(src = "running" /\ dst = "running"))
<1>1. H!OneHome => (Promised => ~(src = "running" /\ dst = "running"))
  BY DEF H!OneHome
<1>. QED
  BY <1>1, RestartHandover, HandoverPromise, PTL
=============================================================================

------------------------ MODULE LiveMigrationProofs ------------------------
(* Proofs about LiveMigration, for every job, fault and number of rounds. *)
EXTENDS LiveMigration, TLAPS

(* The remote calls lead from program points to program points. *)
LEMMA SiteTypes ==
    ASSUME NEW p \in DOMAIN Sites
    PROVE  /\ Sites[p].fn \in Calls
           /\ Sites[p].next \in Points
  BY DEF Sites, Site, Calls, Points, TryBlock, AfterRestore, Ended

(* An exception leads to a program point. *)
LEMMA HandlerType == ASSUME NEW p PROVE Handler(p) \in Points
  BY DEF Handler, Points

(* A migration begins with variables of their types. *)
LEMMA TypeInit == Init => TypeOK
<1>. SUFFICES ASSUME Init PROVE TypeOK
  OBVIOUS
<1>1. RpcTypeOK
  BY DEF Init, RpcInit, RpcTypeOK, NoCall, Calls
<1>2. job \in AllJobs /\ force \in BOOLEAN
  BY LiveAssumption DEF Init, AllJobs
<1>3. pc \in Points
  BY DEF Init, Points, Sites
<1>4. imgs \in [{"src", "dst"} -> {"none", "open", "kept", "removed"}]
  BY DEF Init
<1>. QED
  BY <1>1, <1>2, <1>3, <1>4
     DEF Init, TypeOK, SourceTypeOK, TasksTypeOK, TargetTypeOK, ImagesTypeOK, NoStats

-----------------------------------------------------------------------------
(* Every step of the connection keeps its part of the type invariant. *)
LEMMA RpcStepTypes ==
    ASSUME RpcTypeOK
    PROVE  /\ \A fn \in Calls, arg \in BOOLEAN : Send(fn, arg) => RpcTypeOK'
           /\ Returns => RpcTypeOK'
           /\ Raises => RpcTypeOK'
           /\ CallerCloses => RpcTypeOK'
           /\ Answers => RpcTypeOK'
           /\ Refuses => RpcTypeOK'
           /\ \A v \in BOOLEAN : Reply("resp", v) => RpcTypeOK'
           /\ ServeInitRpc => RpcTypeOK'
           /\ ServerRecvFails => RpcTypeOK'
           /\ LinkResets => RpcTypeOK'
           /\ ServiceDies => RpcTypeOK'
           /\ UNCHANGED rpcVars => RpcTypeOK'
<1> USE DEF RpcTypeOK
<1>1. \A fn \in Calls, arg \in BOOLEAN : Send(fn, arg) => RpcTypeOK'
  BY DEF Send
<1>2. Returns => RpcTypeOK'
  BY DEF Returns, NoCall
<1>3. Raises => RpcTypeOK'
  <2>. SUFFICES ASSUME Raises PROVE RpcTypeOK'
    OBVIOUS
  <2>1. rpc' = NoCall \/ rpc' = rpc
    BY DEF Raises
  <2>2. link' = link /\ svc' = svc
    BY DEF Raises
  <2>3. NoCall \in [kind : {"idle", "call", "resp", "exc"},
                   fn : Calls \cup {"none"}, val : BOOLEAN]
    BY DEF NoCall
  <2>. QED
    BY <2>1, <2>2, <2>3
<1>4. CallerCloses => RpcTypeOK'
  BY DEF CallerCloses
<1>5. \A v \in BOOLEAN : Reply("resp", v) => RpcTypeOK'
  BY DEF Reply, ServerAfterSend
<1>6. \A v \in BOOLEAN : Reply("exc", v) => RpcTypeOK'
  BY DEF Reply, ServerAfterSend
<1>7. ServeInitRpc => RpcTypeOK'
  BY DEF ServeInitRpc, ServerAfterSend
<1>8. ServerRecvFails => RpcTypeOK'
  BY DEF ServerRecvFails
<1>9. LinkResets => RpcTypeOK'
  BY DEF LinkResets
<1>10. ServiceDies => RpcTypeOK'
  BY DEF ServiceDies
<1>11. UNCHANGED rpcVars => RpcTypeOK'
  BY DEF rpcVars
<1>. QED
  BY <1>1, <1>2, <1>3, <1>4, <1>5, <1>6, <1>7, <1>8, <1>9, <1>10, <1>11
     DEF Answers, Refuses

(* One fact per action of the source: it keeps the type invariant. *)
LEMMA TypeSource ==
    ASSUME TypeOK, SourceStep
    PROVE  TypeOK'
<1> USE DEF TypeOK, SourceTypeOK, TasksTypeOK, TargetTypeOK, ImagesTypeOK, Goto,
            srcVars, taskVars, dstVars
<1>1. CASE CallSite
  <2>1. pc \in DOMAIN Sites /\ Argument \in BOOLEAN /\ Send(Sites[pc].fn, Argument)
    BY <1>1 DEF CallSite, Argument
  <2>2. RpcTypeOK'
    BY <2>1, SiteTypes, RpcStepTypes
  <2>. QED
    BY <1>1, <2>2 DEF CallSite
<1>2. CASE CallReturns
  <2>1. Sites[pc].next \in Points /\ RpcTypeOK'
    BY <1>2, SiteTypes, RpcStepTypes DEF CallReturns
  <2>. QED
    BY <1>2, <2>1 DEF CallReturns
<1>3. CASE CallRaises
  <2>1. Handler(pc) \in Points /\ RpcTypeOK'
    BY <1>3, HandlerType, RpcStepTypes DEF CallRaises
  <2>. QED
    BY <1>3, <2>1 DEF CallRaises
<1>4. CASE CheckReturns
  <2>1. Sites[pc].next \in Points /\ RpcTypeOK'
    BY <1>4, SiteTypes, RpcStepTypes DEF CheckReturns, Checks, Sites
  <2>2. "raise" \in Points
    BY DEF Points
  <2>. QED
    BY <1>4, <2>1, <2>2 DEF CheckReturns
<1>5. CASE LocalRaises
  <2>1. Handler(pc) \in Points /\ RpcTypeOK'
    BY <1>5, HandlerType, RpcStepTypes DEF LocalRaises
  <2>. QED
    BY <1>5, <2>1 DEF LocalRaises
<1>6. CASE ValidateCpu
  <2>1. RpcTypeOK'
    BY <1>6, RpcStepTypes DEF ValidateCpu
  <2>2. pc' \in Points
    BY <1>6 DEF ValidateCpu, Points, Sites, Ended
  <2>. QED
    BY <1>6, <2>1, <2>2 DEF ValidateCpu
<1>7. CASE CpuDumped
  <2>1. RpcTypeOK'
    BY <1>7, RpcStepTypes DEF CpuDumped
  <2>2. pc' \in Points
    BY <1>7 DEF CpuDumped, Points, Sites, Ended
  <2>. QED
    BY <1>7, <2>1, <2>2 DEF CpuDumped
<1>8. CASE CpuDumpUnsupported
  <2>1. RpcTypeOK'
    BY <1>8, RpcStepTypes DEF CpuDumpUnsupported
  <2>2. pc' \in Points
    BY <1>8 DEF CpuDumpUnsupported, Points, Sites, Ended
  <2>. QED
    BY <1>8, <2>1, <2>2 DEF CpuDumpUnsupported
<1>9. CASE ValidateCriu
  <2>1. RpcTypeOK'
    BY <1>9, RpcStepTypes DEF ValidateCriu
  <2>2. pc' \in Points
    BY <1>9 DEF ValidateCriu, Points, Sites, Ended
  <2>. QED
    BY <1>9, <2>1, <2>2 DEF ValidateCriu
<1>10. CASE Prepare
  <2>1. RpcTypeOK'
    BY <1>10, RpcStepTypes DEF Prepare
  <2>2. pc' \in Points
    BY <1>10 DEF Prepare, Points, Sites, Ended
  <2>. QED
    BY <1>10, <2>1, <2>2 DEF Prepare
<1>11. CASE Predump
  <2>1. RpcTypeOK'
    BY <1>11, RpcStepTypes DEF Predump
  <2>2. pc' \in Points
    BY <1>11 DEF Predump, Points, Sites, Ended
  <2>. QED
    BY <1>11, <2>1, <2>2 DEF Predump, NewImageDir, PagesSent
<1>12. CASE CheckProgress
  <2>1. RpcTypeOK'
    BY <1>12, RpcStepTypes DEF CheckProgress
  <2>2. pc' \in Points
    BY <1>12 DEF CheckProgress, Points, Sites, Ended
  <2>. QED
    BY <1>12, <2>1, <2>2, LiveAssumption DEF CheckProgress
<1>13. CASE FinalDumpFreezes
  <2>1. RpcTypeOK'
    BY <1>13, RpcStepTypes DEF FinalDumpFreezes
  <2>2. pc' \in Points
    BY <1>13 DEF FinalDumpFreezes, Points, Sites, Ended
  <2>. QED
    BY <1>13, <2>1, <2>2 DEF FinalDumpFreezes, NewImageDir, PagesSent, FreezeTasks
<1>14. CASE FinalDumpDocker
  <2>1. RpcTypeOK'
    BY <1>14, RpcStepTypes DEF FinalDumpDocker
  <2>2. pc' \in Points
    BY <1>14 DEF FinalDumpDocker, Points, Sites, Ended
  <2>. QED
    BY <1>14, <2>1, <2>2 DEF FinalDumpDocker, NewImageDir
<1>15. CASE FinalDumpFails
  <2>1. RpcTypeOK'
    BY <1>15, RpcStepTypes DEF FinalDumpFails
  <2>2. pc' \in Points
    BY <1>15 DEF FinalDumpFails, Points, Sites, Ended
  <2>. QED
    BY <1>15, <2>1, <2>2 DEF FinalDumpFails, NewImageDir
<1>16. CASE FinalDumpHookRaises
  <2>1. RpcTypeOK'
    BY <1>16, RpcStepTypes DEF FinalDumpHookRaises
  <2>2. pc' \in Points
    BY <1>16 DEF FinalDumpHookRaises, Points, Sites, Ended
  <2>. QED
    BY <1>16, <2>1, <2>2 DEF FinalDumpHookRaises, NewImageDir, FreezeTasks
<1>17. CASE FsStop
  <2>1. RpcTypeOK'
    BY <1>17, RpcStepTypes DEF FsStop
  <2>2. pc' \in Points
    BY <1>17 DEF FsStop, Points, Sites, Ended
  <2>. QED
    BY <1>17, <2>1, <2>2 DEF FsStop
<1>18. CASE SendImages
  <2>1. RpcTypeOK'
    BY <1>18, RpcStepTypes DEF SendImages
  <2>2. pc' \in Points
    BY <1>18 DEF SendImages, Points, Sites, Ended
  <2>. QED
    BY <1>18, <2>1, <2>2 DEF SendImages
<1>19. CASE AckKills
  <2>1. RpcTypeOK'
    BY <1>19, RpcStepTypes DEF AckKills
  <2>2. pc' \in Points
    <3>1. pc' \in {"cleanup", "done"}
      BY <1>19 DEF AckKills
    <3>. QED
      BY <3>1 DEF Points, AfterRestore
  <2>3. UNCHANGED <<job, force, index, prev, sdir, vetted>>
    BY <1>19 DEF AckKills
  <2>4. TasksTypeOK' /\ TargetTypeOK' /\ ImagesTypeOK'
    BY <1>19 DEF AckKills, TerminateTasks
  <2>. QED
    BY <2>1, <2>2, <2>3, <2>4
<1>20. CASE AckRefused
  <2>1. RpcTypeOK'
    BY <1>20, RpcStepTypes DEF AckRefused
  <2>2. pc' \in Points
    <3>1. pc' \in {"cleanup", "done"}
      BY <1>20 DEF AckRefused
    <3>. QED
      BY <3>1 DEF Points, AfterRestore
  <2>3. UNCHANGED <<job, force, index, prev, sdir, vetted>>
    BY <1>20 DEF AckRefused
  <2>4. TasksTypeOK' /\ TargetTypeOK' /\ ImagesTypeOK'
    BY <1>20 DEF AckRefused
  <2>. QED
    BY <2>1, <2>2, <2>3, <2>4
<1>21. CASE AckDocker
  <2>1. RpcTypeOK'
    BY <1>21, RpcStepTypes DEF AckDocker
  <2>2. pc' \in Points
    BY <1>21 DEF AckDocker, Points, Sites, Ended
  <2>. QED
    BY <1>21, <2>1, <2>2 DEF AckDocker
<1>22. CASE Cleanup
  <2>1. RpcTypeOK'
    BY <1>22, RpcStepTypes DEF Cleanup
  <2>2. pc' \in Points
    BY <1>22 DEF Cleanup, Points, Sites, Ended
  <2>. QED
    BY <1>22, <2>1, <2>2 DEF Cleanup
<1>23. CASE Close
  <2>1. RpcTypeOK'
    BY <1>23, RpcStepTypes DEF Close
  <2>2. pc' \in Points
    BY <1>23 DEF Close, Points, Sites, Ended
  <2>. QED
    BY <1>23, <2>1, <2>2 DEF Close
<1>24. CASE MigrationFail
  <2>1. RpcTypeOK'
    BY <1>24, RpcStepTypes DEF MigrationFail
  <2>2. pc' \in Points
    BY <1>24 DEF MigrationFail, Points, Sites, Ended
  <2>. QED
    BY <1>24, <2>1, <2>2 DEF MigrationFail
<1>25. CASE Exit
  <2>1. RpcTypeOK'
    BY <1>25, RpcStepTypes DEF Exit
  <2>2. pc' \in Points
    BY <1>25 DEF Exit, Points, Sites, Ended
  <2>. QED
    BY <1>25, <2>1, <2>2 DEF Exit
<1>. QED
  BY <1>1, <1>2, <1>3, <1>4, <1>5, <1>6, <1>7, <1>8, <1>9, <1>10, <1>11, <1>12, <1>13, <1>14, <1>15, <1>16, <1>17, <1>18, <1>19, <1>20, <1>21, <1>22, <1>23, <1>24, <1>25 DEF SourceStep

(* The same for the handlers of the service and the end of the connection. *)
LEMMA TypeService ==
    ASSUME TypeOK, ServiceStep
    PROVE  TypeOK'
<1> USE DEF TypeOK, SourceTypeOK, TasksTypeOK, TargetTypeOK, ImagesTypeOK,
            srcVars, taskVars, dstVars
<1>1. CASE InitRpc
  <2>1. RpcTypeOK'
    BY <1>1, RpcStepTypes DEF InitRpc
  <2>. QED
    BY <1>1, <2>1 DEF InitRpc
<1>2. CASE Setup
  <2>1. RpcTypeOK'
    BY <1>2, RpcStepTypes DEF Setup
  <2>. QED
    BY <1>2, <2>1 DEF Setup
<1>3. CASE SetOptions
  <2>1. RpcTypeOK'
    BY <1>3, RpcStepTypes DEF SetOptions
  <2>. QED
    BY <1>3, <2>1 DEF SetOptions
<1>4. CASE StartIter
  <2>1. RpcTypeOK'
    BY <1>4, RpcStepTypes DEF StartIter
  <2>. QED
    BY <1>4, <2>1 DEF StartIter
<1>5. CASE EndIter
  <2>1. RpcTypeOK'
    BY <1>5, RpcStepTypes DEF EndIter
  <2>. QED
    BY <1>5, <2>1 DEF EndIter
<1>6. CASE StartAcceptImages
  <2>1. RpcTypeOK'
    BY <1>6, RpcStepTypes DEF StartAcceptImages
  <2>. QED
    BY <1>6, <2>1 DEF StartAcceptImages
<1>7. CASE StopAcceptImages
  <2>1. RpcTypeOK'
    BY <1>7, RpcStepTypes DEF StopAcceptImages
  <2>. QED
    BY <1>7, <2>1 DEF StopAcceptImages
<1>8. CASE CheckCpuinfo
  <2>1. RpcTypeOK'
    BY <1>8, RpcStepTypes DEF CheckCpuinfo
  <2>. QED
    BY <1>8, <2>1 DEF CheckCpuinfo
<1>9. CASE CheckCriuVersion
  <2>1. RpcTypeOK'
    BY <1>9, RpcStepTypes DEF CheckCriuVersion
  <2>. QED
    BY <1>9, <2>1 DEF CheckCriuVersion
<1>10. CASE RestoreFails
  <2>1. RpcTypeOK'
    BY <1>10, RpcStepTypes DEF RestoreFails
  <2>. QED
    BY <1>10, <2>1 DEF RestoreFails
<1>11. CASE RestoreHookRaises
  <2>1. RpcTypeOK'
    BY <1>11, RpcStepTypes DEF RestoreHookRaises
  <2>. QED
    BY <1>11, <2>1 DEF RestoreHookRaises
<1>12. CASE RestoreFromImages
  <2>1. RpcTypeOK'
    BY <1>12, RpcStepTypes DEF RestoreFromImages
  <2>. QED
    BY <1>12, <2>1 DEF RestoreFromImages
<1>13. CASE RestoreTime
  <2>1. RpcTypeOK'
    BY <1>13, RpcStepTypes DEF RestoreTime
  <2>. QED
    BY <1>13, <2>1 DEF RestoreTime
<1>14. CASE MigrationComplete
  <2>1. RpcTypeOK'
    BY <1>14, RpcStepTypes DEF MigrationComplete
  <2>. QED
    BY <1>14, <2>1 DEF MigrationComplete
<1>15. CASE OnDisconnect
  <2>1. RpcTypeOK'
    BY <1>15 DEF OnDisconnect, RpcTypeOK
  <2>. QED
    BY <1>15, <2>1 DEF OnDisconnect, ReadsEOF, Umounted, ClosedImages
<1>16. CASE OnDisconnectRaises
  <2>1. RpcTypeOK'
    BY <1>16 DEF OnDisconnectRaises, RpcTypeOK
  <2>. QED
    BY <1>16, <2>1 DEF OnDisconnectRaises
<1>17. CASE RecvFails
  <2>1. RpcTypeOK'
    BY <1>17, RpcStepTypes DEF RecvFails
  <2>. QED
    BY <1>17, <2>1 DEF RecvFails
<1>. QED
  BY <1>1, <1>2, <1>3, <1>4, <1>5, <1>6, <1>7, <1>8, <1>9, <1>10, <1>11, <1>12, <1>13, <1>14, <1>15, <1>16, <1>17 DEF ServiceStep, Handlers

(* The same for the untar thread, the source's CRIU and the faults. *)
LEMMA TypeEnvironment ==
    ASSUME TypeOK, UntarStep \/ CriuThaws \/ Fault
    PROVE  TypeOK'
<1> USE DEF TypeOK, SourceTypeOK, TasksTypeOK, TargetTypeOK, ImagesTypeOK,
            srcVars, taskVars, dstVars
<1>1. CASE UntarDone
  <2>1. RpcTypeOK'
    BY <1>1, RpcStepTypes DEF UntarDone
  <2>. QED
    BY <1>1, <2>1 DEF UntarDone
<1>2. CASE UntarReadsEOF
  <2>1. RpcTypeOK'
    BY <1>2, RpcStepTypes DEF UntarReadsEOF
  <2>. QED
    BY <1>2, <2>1 DEF UntarReadsEOF
<1>3. CASE UntarFails
  <2>1. RpcTypeOK'
    BY <1>3, RpcStepTypes DEF UntarFails
  <2>. QED
    BY <1>3, <2>1 DEF UntarFails
<1>4. CASE CriuThaws
  <2>1. RpcTypeOK'
    BY <1>4, RpcStepTypes DEF CriuThaws
  <2>. QED
    BY <1>4, <2>1 DEF CriuThaws
<1>5. CASE ConnectionLost
  <2>1. RpcTypeOK'
    BY <1>5, RpcStepTypes DEF ConnectionLost
  <2>. QED
    BY <1>5, <2>1 DEF ConnectionLost
<1>6. CASE ServiceKilled
  <2>1. RpcTypeOK'
    BY <1>6, RpcStepTypes DEF ServiceKilled
  <2>. QED
    BY <1>6, <2>1 DEF ServiceKilled
<1>7. CASE Crash
  <2>1. RpcTypeOK'
    BY <1>7, RpcStepTypes DEF Crash
  <2>. QED
    BY <1>7, <2>1 DEF Crash, Goto, Points, Ended
<1>. QED
  BY <1>1, <1>2, <1>3, <1>4, <1>5, <1>6, <1>7 DEF UntarStep, Fault

(* What does not change keeps its type. *)
LEMMA TypeStutter == TypeOK /\ UNCHANGED vars => TypeOK'
  BY DEF vars, rpcVars, srcVars, taskVars, dstVars, TypeOK, RpcTypeOK,
         SourceTypeOK, TasksTypeOK, TargetTypeOK, ImagesTypeOK

(* Every step keeps the types: one case per action. *)
LEMMA TypeStep == TypeOK /\ [Next]_vars => TypeOK'
  BY TypeSource, TypeService, TypeEnvironment, TypeStutter DEF Next

(* Type correctness of a live migration, for every set of jobs and faults. *)
THEOREM LiveTypeCorrect == Spec => []TypeOK
  BY TypeInit, TypeStep, PTL DEF Spec

-----------------------------------------------------------------------------
(* What a handler does to the outstanding call: it turns it into a reply. *)
LEMMA RepliesKeepCall ==
    ASSUME RpcTypeOK, Answers \/ Refuses \/ \E v \in BOOLEAN : Reply("resp", v)
    PROVE  rpc'.fn = rpc.fn /\ rpc'.kind \in {"resp", "exc"}
<1>1. ASSUME NEW k \in {"resp", "exc"}, NEW v \in BOOLEAN, Reply(k, v)
      PROVE  rpc'.fn = rpc.fn /\ rpc'.kind \in {"resp", "exc"}
  BY <1>1 DEF Reply, RpcTypeOK
<1>. QED
  BY <1>1 DEF Answers, Refuses

(* The handlers that touch neither tasks nor the chain of directories. *)
QuietHandler ==
    \/ Setup \/ SetOptions \/ EndIter \/ StartAcceptImages \/ StopAcceptImages
    \/ CheckCpuinfo \/ CheckCriuVersion \/ RestoreFails \/ RestoreTime
    \/ MigrationComplete

(* They answer the call that was made, and a restore among them failed. *)
LEMMA QuietHandlers ==
    ASSUME TypeOK, QuietHandler
    PROVE  /\ UNCHANGED <<srcVars, taskVars, restored, files, ddir, dpages>>
           /\ rpc.kind = "call" /\ rpc.fn # "start_iter"
           /\ rpc'.fn = rpc.fn /\ rpc'.kind \in {"resp", "exc"}
           /\ rpc.fn = "restore_from_images" => rpc'.kind = "exc"
           /\ imgs' = imgs \/ imgs' = [imgs EXCEPT !["dst"] = "open"]
<1> USE DEF dstVars, Serving
<1>1. CASE Setup
  <2>1. Answers \/ Refuses \/ \E v \in BOOLEAN : Reply("resp", v)
    BY <1>1 DEF Setup
  <2>2. rpc'.fn = rpc.fn /\ rpc'.kind \in {"resp", "exc"}
    BY <2>1, RepliesKeepCall DEF TypeOK
  <2>. QED
    BY <1>1, <2>2 DEF Setup
<1>2. CASE SetOptions
  <2>1. Answers \/ Refuses \/ \E v \in BOOLEAN : Reply("resp", v)
    BY <1>2 DEF SetOptions
  <2>2. rpc'.fn = rpc.fn /\ rpc'.kind \in {"resp", "exc"}
    BY <2>1, RepliesKeepCall DEF TypeOK
  <2>. QED
    BY <1>2, <2>2 DEF SetOptions
<1>3. CASE EndIter
  <2>1. Answers \/ Refuses \/ \E v \in BOOLEAN : Reply("resp", v)
    BY <1>3 DEF EndIter
  <2>2. rpc'.fn = rpc.fn /\ rpc'.kind \in {"resp", "exc"}
    BY <2>1, RepliesKeepCall DEF TypeOK
  <2>. QED
    BY <1>3, <2>2 DEF EndIter
<1>4. CASE StartAcceptImages
  <2>1. Answers \/ Refuses \/ \E v \in BOOLEAN : Reply("resp", v)
    BY <1>4 DEF StartAcceptImages
  <2>2. rpc'.fn = rpc.fn /\ rpc'.kind \in {"resp", "exc"}
    BY <2>1, RepliesKeepCall DEF TypeOK
  <2>. QED
    BY <1>4, <2>2 DEF StartAcceptImages
<1>5. CASE StopAcceptImages
  <2>1. Answers \/ Refuses \/ \E v \in BOOLEAN : Reply("resp", v)
    BY <1>5 DEF StopAcceptImages
  <2>2. rpc'.fn = rpc.fn /\ rpc'.kind \in {"resp", "exc"}
    BY <2>1, RepliesKeepCall DEF TypeOK
  <2>. QED
    BY <1>5, <2>2 DEF StopAcceptImages
<1>6. CASE CheckCpuinfo
  <2>1. Answers \/ Refuses \/ \E v \in BOOLEAN : Reply("resp", v)
    BY <1>6 DEF CheckCpuinfo
  <2>2. rpc'.fn = rpc.fn /\ rpc'.kind \in {"resp", "exc"}
    BY <2>1, RepliesKeepCall DEF TypeOK
  <2>. QED
    BY <1>6, <2>2 DEF CheckCpuinfo
<1>7. CASE CheckCriuVersion
  <2>1. Answers \/ Refuses \/ \E v \in BOOLEAN : Reply("resp", v)
    BY <1>7 DEF CheckCriuVersion
  <2>2. rpc'.fn = rpc.fn /\ rpc'.kind \in {"resp", "exc"}
    BY <2>1, RepliesKeepCall DEF TypeOK
  <2>. QED
    BY <1>7, <2>2 DEF CheckCriuVersion
<1>8. CASE RestoreTime
  <2>1. Answers \/ Refuses \/ \E v \in BOOLEAN : Reply("resp", v)
    BY <1>8 DEF RestoreTime
  <2>2. rpc'.fn = rpc.fn /\ rpc'.kind \in {"resp", "exc"}
    BY <2>1, RepliesKeepCall DEF TypeOK
  <2>. QED
    BY <1>8, <2>2 DEF RestoreTime
<1>9. CASE MigrationComplete
  <2>1. Answers \/ Refuses \/ \E v \in BOOLEAN : Reply("resp", v)
    BY <1>9 DEF MigrationComplete
  <2>2. rpc'.fn = rpc.fn /\ rpc'.kind \in {"resp", "exc"}
    BY <2>1, RepliesKeepCall DEF TypeOK
  <2>. QED
    BY <1>9, <2>2 DEF MigrationComplete
<1>10. CASE RestoreFails
  BY <1>10 DEF RestoreFails, Refuses, Reply, TypeOK, RpcTypeOK
<1>. QED
  BY <1>1, <1>2, <1>3, <1>4, <1>5, <1>6, <1>7, <1>8, <1>9, <1>10 DEF QuietHandler

(* Every step keeps what is known about the tasks and the restore. *)
LEMMA HandoverStep ==
    ASSUME TypeOK, HandoverInv, [Next]_vars
    PROVE  HandoverInv'
<1> USE DEF HandoverInv, CallMatchesPoint, RestoredIsKnown, RestoreReplied,
            SourceHeld, SourceReleased, RestoreFirst, RestoreUnanswered, DumpRefused,
            Adrift, TryBlock, AfterRestore, Ended, Sites, Site, TypeOK, RpcTypeOK,
            TasksTypeOK, ImagesTypeOK,
            rpcVars, srcVars, taskVars, dstVars
<1>1. CASE CallSite
  BY <1>1 DEF CallSite, Send, NoCall
<1>2. CASE CallReturns
  BY <1>2 DEF CallReturns, Returns, NoCall, Goto, Checks
<1>3. CASE CallRaises
  BY <1>3 DEF CallRaises, Raises, NoCall, Goto, Handler
<1>4. CASE CheckReturns
  BY <1>4 DEF CheckReturns, Returns, NoCall, Checks
<1>5. CASE LocalRaises
  BY <1>5 DEF LocalRaises, LocalMayRaise, Goto, Handler
<1>6. CASE ValidateCpu
  BY <1>6 DEF ValidateCpu, Goto
<1>7. CASE CpuDumped
  BY <1>7 DEF CpuDumped, Goto
<1>8. CASE CpuDumpUnsupported
  BY <1>8 DEF CpuDumpUnsupported
<1>9. CASE ValidateCriu
  BY <1>9 DEF ValidateCriu, Goto
<1>10. CASE Prepare
  BY <1>10 DEF Prepare, Goto
<1>11. CASE Predump
  BY <1>11 DEF Predump, NewImageDir, PagesSent
<1>12. CASE CheckProgress
  BY <1>12 DEF CheckProgress
<1>13. CASE FinalDumpFreezes
  BY <1>13 DEF FinalDumpFreezes, NewImageDir, PagesSent, FreezeTasks
<1>14. CASE FinalDumpDocker
  BY <1>14 DEF FinalDumpDocker, NewImageDir
<1>15. CASE FinalDumpFails
  BY <1>15 DEF FinalDumpFails, NewImageDir
<1>16. CASE FinalDumpHookRaises
  BY <1>16 DEF FinalDumpHookRaises, NewImageDir, FreezeTasks
<1>17. CASE FsStop
  BY <1>17 DEF FsStop, Goto
<1>18. CASE SendImages
  BY <1>18 DEF SendImages, Goto
<1>19. CASE AckKills
  BY <1>19 DEF AckKills, TerminateTasks, Goto
<1>20. CASE AckRefused
  BY <1>20 DEF AckRefused, Goto
<1>21. CASE AckDocker
  BY <1>21 DEF AckDocker, Goto
<1>22. CASE Cleanup
  BY <1>22 DEF Cleanup, Goto
<1>23. CASE Close
  BY <1>23 DEF Close, Goto
<1>24. CASE MigrationFail
  BY <1>24 DEF MigrationFail, Goto
<1>25. CASE Exit
  BY <1>25 DEF Exit, Goto, CallerCloses
<1>26. CASE InitRpc
  BY <1>26 DEF InitRpc, ServeInitRpc
<1>27. CASE QuietHandler
  BY <1>27, QuietHandlers
<1>28. CASE StartIter
  <2>1. rpc'.fn = rpc.fn /\ rpc'.kind \in {"resp", "exc"}
    BY <1>28, RepliesKeepCall DEF StartIter
  <2>. QED
    BY <1>28, <2>1 DEF StartIter, Serving
<1>29. CASE RestoreHookRaises
  BY <1>29 DEF RestoreHookRaises, Serving, Refuses, Reply
<1>30. CASE RestoreFromImages
  BY <1>30 DEF RestoreFromImages, Serving, Answers, Reply
<1>31. CASE OnDisconnect
  BY <1>31 DEF OnDisconnect, ReadsEOF, Umounted, ClosedImages
<1>32. CASE OnDisconnectRaises
  BY <1>32 DEF OnDisconnectRaises, ReadsEOF
<1>33. CASE RecvFails
  BY <1>33 DEF RecvFails, ServerRecvFails
<1>34. CASE UntarDone
  BY <1>34 DEF UntarDone
<1>35. CASE UntarReadsEOF
  BY <1>35 DEF UntarReadsEOF
<1>36. CASE CriuThaws
  BY <1>36 DEF CriuThaws
<1>37. CASE Crash
  BY <1>37 DEF Crash, Goto, CallerCloses
<1>38. CASE ConnectionLost
  BY <1>38 DEF ConnectionLost, LinkResets
<1>39. CASE ServiceKilled
  BY <1>39 DEF ServiceKilled, ServiceDies
<1>40. CASE UntarFails
  BY <1>40 DEF UntarFails
<1>41. CASE UNCHANGED vars
  BY <1>41 DEF vars
<1>. QED
  BY <1>1, <1>2, <1>3, <1>4, <1>5, <1>6, <1>7, <1>8, <1>9, <1>10, <1>11, <1>12,
     <1>13, <1>14, <1>15, <1>16, <1>17, <1>18, <1>19, <1>20, <1>21, <1>22, <1>23, <1>24,
     <1>25, <1>26, <1>27, <1>28, <1>29, <1>30, <1>31, <1>32, <1>33, <1>34, <1>35, <1>36,
     <1>37, <1>38, <1>39, <1>40, <1>41
     DEF Next, SourceStep, ServiceStep, Handlers, QuietHandler, UntarStep, Fault

(* Every step keeps the image directories of both hosts in step. *)
LEMMA ChainStep ==
    ASSUME TypeOK, ChainInv, [Next]_vars
    PROVE  ChainInv'
<1> USE DEF ChainInv, CallMatchesPoint, DirectoriesInStep, ChainComplete, TargetAhead,
            Adrift, TryBlock, AfterRestore, Ended, Sites, Site, TypeOK, RpcTypeOK,
            SourceTypeOK, TargetTypeOK,
            rpcVars, srcVars, taskVars, dstVars
<1>1. CASE CallSite
  BY <1>1 DEF CallSite, Send, NoCall
<1>2. CASE CallReturns
  BY <1>2 DEF CallReturns, Returns, NoCall, Goto, Checks
<1>3. CASE CallRaises
  BY <1>3 DEF CallRaises, Raises, NoCall, Goto, Handler
<1>4. CASE CheckReturns
  BY <1>4 DEF CheckReturns, Returns, NoCall, Checks
<1>5. CASE LocalRaises
  BY <1>5 DEF LocalRaises, LocalMayRaise, Goto, Handler
<1>6. CASE ValidateCpu
  BY <1>6 DEF ValidateCpu, Goto
<1>7. CASE CpuDumped
  BY <1>7 DEF CpuDumped, Goto
<1>8. CASE CpuDumpUnsupported
  BY <1>8 DEF CpuDumpUnsupported
<1>9. CASE ValidateCriu
  BY <1>9 DEF ValidateCriu, Goto
<1>10. CASE Prepare
  BY <1>10 DEF Prepare, Goto
<1>11. CASE Predump
  BY <1>11 DEF Predump, NewImageDir, PagesSent
<1>12. CASE CheckProgress
  BY <1>12 DEF CheckProgress
<1>13. CASE FinalDumpFreezes
  BY <1>13 DEF FinalDumpFreezes, NewImageDir, PagesSent, FreezeTasks
<1>14. CASE FinalDumpDocker
  BY <1>14 DEF FinalDumpDocker, NewImageDir
<1>15. CASE FinalDumpFails
  BY <1>15 DEF FinalDumpFails, NewImageDir
<1>16. CASE FinalDumpHookRaises
  BY <1>16 DEF FinalDumpHookRaises, NewImageDir, FreezeTasks
<1>17. CASE FsStop
  BY <1>17 DEF FsStop, Goto
<1>18. CASE SendImages
  BY <1>18 DEF SendImages, Goto
<1>19. CASE AckKills
  BY <1>19 DEF AckKills, TerminateTasks, Goto
<1>20. CASE AckRefused
  BY <1>20 DEF AckRefused, Goto
<1>21. CASE AckDocker
  BY <1>21 DEF AckDocker, Goto
<1>22. CASE Cleanup
  BY <1>22 DEF Cleanup, Goto
<1>23. CASE Close
  BY <1>23 DEF Close, Goto
<1>24. CASE MigrationFail
  BY <1>24 DEF MigrationFail, Goto
<1>25. CASE Exit
  BY <1>25 DEF Exit, Goto, CallerCloses
<1>26. CASE InitRpc
  BY <1>26 DEF InitRpc, ServeInitRpc
<1>27. CASE QuietHandler
  BY <1>27, QuietHandlers
<1>28. CASE StartIter
  <2>1. rpc'.fn = rpc.fn /\ rpc'.kind \in {"resp", "exc"}
    BY <1>28, RepliesKeepCall DEF StartIter
  <2>. QED
    BY <1>28, <2>1 DEF StartIter, Serving
<1>29. CASE RestoreHookRaises
  BY <1>29 DEF RestoreHookRaises, Serving, Refuses, Reply
<1>30. CASE RestoreFromImages
  BY <1>30 DEF RestoreFromImages, Serving, Answers, Reply
<1>31. CASE OnDisconnect
  BY <1>31 DEF OnDisconnect, ReadsEOF, Umounted, ClosedImages
<1>32. CASE OnDisconnectRaises
  BY <1>32 DEF OnDisconnectRaises, ReadsEOF
<1>33. CASE RecvFails
  BY <1>33 DEF RecvFails, ServerRecvFails
<1>34. CASE UntarDone
  BY <1>34 DEF UntarDone
<1>35. CASE UntarReadsEOF
  BY <1>35 DEF UntarReadsEOF
<1>36. CASE CriuThaws
  BY <1>36 DEF CriuThaws
<1>37. CASE Crash
  BY <1>37 DEF Crash, Goto, CallerCloses
<1>38. CASE ConnectionLost
  BY <1>38 DEF ConnectionLost, LinkResets
<1>39. CASE ServiceKilled
  BY <1>39 DEF ServiceKilled, ServiceDies
<1>40. CASE UntarFails
  BY <1>40 DEF UntarFails
<1>41. CASE UNCHANGED vars
  BY <1>41 DEF vars
<1>. QED
  BY <1>1, <1>2, <1>3, <1>4, <1>5, <1>6, <1>7, <1>8, <1>9, <1>10, <1>11, <1>12,
     <1>13, <1>14, <1>15, <1>16, <1>17, <1>18, <1>19, <1>20, <1>21, <1>22, <1>23, <1>24,
     <1>25, <1>26, <1>27, <1>28, <1>29, <1>30, <1>31, <1>32, <1>33, <1>34, <1>35, <1>36,
     <1>37, <1>38, <1>39, <1>40, <1>41
     DEF Next, SourceStep, ServiceStep, Handlers, QuietHandler, UntarStep, Fault

(* Every step keeps what is known about the checks. *)
LEMMA CheckStep ==
    ASSUME TypeOK, CallMatchesPoint, CheckInv, [Next]_vars
    PROVE  CheckInv'
<1> USE DEF CheckInv, CheckedBeforeFreeze, CallMatchesPoint, Unchecked, Adrift, TryBlock,
            AfterRestore, Ended, Sites, Site, TypeOK, SourceTypeOK, TasksTypeOK,
            rpcVars, srcVars, taskVars, dstVars
<1>1. CASE CallSite
  BY <1>1 DEF CallSite, Send, NoCall
<1>2. CASE CallReturns
  BY <1>2 DEF CallReturns, Returns, NoCall, Goto, Checks
<1>3. CASE CallRaises
  BY <1>3 DEF CallRaises, Raises, NoCall, Goto, Handler
<1>4. CASE CheckReturns
  BY <1>4 DEF CheckReturns, Returns, NoCall, Checks
<1>5. CASE LocalRaises
  BY <1>5 DEF LocalRaises, LocalMayRaise, Goto, Handler
<1>6. CASE ValidateCpu
  BY <1>6 DEF ValidateCpu, Goto
<1>7. CASE CpuDumped
  BY <1>7 DEF CpuDumped, Goto
<1>8. CASE CpuDumpUnsupported
  BY <1>8 DEF CpuDumpUnsupported
<1>9. CASE ValidateCriu
  BY <1>9 DEF ValidateCriu, Goto, SkipsCriu
<1>10. CASE Prepare
  BY <1>10 DEF Prepare, Goto
<1>11. CASE Predump
  BY <1>11 DEF Predump, NewImageDir, PagesSent
<1>12. CASE CheckProgress
  BY <1>12 DEF CheckProgress
<1>13. CASE FinalDumpFreezes
  BY <1>13 DEF FinalDumpFreezes, NewImageDir, PagesSent, FreezeTasks
<1>14. CASE FinalDumpDocker
  BY <1>14 DEF FinalDumpDocker, NewImageDir
<1>15. CASE FinalDumpFails
  BY <1>15 DEF FinalDumpFails, NewImageDir
<1>16. CASE FinalDumpHookRaises
  BY <1>16 DEF FinalDumpHookRaises, NewImageDir, FreezeTasks
<1>17. CASE FsStop
  BY <1>17 DEF FsStop, Goto
<1>18. CASE SendImages
  BY <1>18 DEF SendImages, Goto
<1>19. CASE AckKills
  BY <1>19 DEF AckKills, TerminateTasks, Goto
<1>20. CASE AckRefused
  BY <1>20 DEF AckRefused, Goto
<1>21. CASE AckDocker
  BY <1>21 DEF AckDocker, Goto
<1>22. CASE Cleanup
  BY <1>22 DEF Cleanup, Goto
<1>23. CASE Close
  BY <1>23 DEF Close, Goto
<1>24. CASE MigrationFail
  BY <1>24 DEF MigrationFail, Goto
<1>25. CASE Exit
  BY <1>25 DEF Exit, Goto, CallerCloses
<1>26. CASE InitRpc
  BY <1>26 DEF InitRpc, ServeInitRpc
<1>27. CASE QuietHandler
  BY <1>27, QuietHandlers
<1>28. CASE StartIter
  <2>1. rpc'.fn = rpc.fn /\ rpc'.kind \in {"resp", "exc"}
    BY <1>28, RepliesKeepCall DEF StartIter
  <2>. QED
    BY <1>28, <2>1 DEF StartIter, Serving
<1>29. CASE RestoreHookRaises
  BY <1>29 DEF RestoreHookRaises, Serving, Refuses, Reply
<1>30. CASE RestoreFromImages
  BY <1>30 DEF RestoreFromImages, Serving, Answers, Reply
<1>31. CASE OnDisconnect
  BY <1>31 DEF OnDisconnect, ReadsEOF, Umounted, ClosedImages
<1>32. CASE OnDisconnectRaises
  BY <1>32 DEF OnDisconnectRaises, ReadsEOF
<1>33. CASE RecvFails
  BY <1>33 DEF RecvFails, ServerRecvFails
<1>34. CASE UntarDone
  BY <1>34 DEF UntarDone
<1>35. CASE UntarReadsEOF
  BY <1>35 DEF UntarReadsEOF
<1>36. CASE CriuThaws
  BY <1>36 DEF CriuThaws
<1>37. CASE Crash
  BY <1>37 DEF Crash, Goto, CallerCloses
<1>38. CASE ConnectionLost
  BY <1>38 DEF ConnectionLost, LinkResets
<1>39. CASE ServiceKilled
  BY <1>39 DEF ServiceKilled, ServiceDies
<1>40. CASE UntarFails
  BY <1>40 DEF UntarFails
<1>41. CASE UNCHANGED vars
  BY <1>41 DEF vars
<1>. QED
  BY <1>1, <1>2, <1>3, <1>4, <1>5, <1>6, <1>7, <1>8, <1>9, <1>10, <1>11, <1>12,
     <1>13, <1>14, <1>15, <1>16, <1>17, <1>18, <1>19, <1>20, <1>21, <1>22, <1>23, <1>24,
     <1>25, <1>26, <1>27, <1>28, <1>29, <1>30, <1>31, <1>32, <1>33, <1>34, <1>35, <1>36,
     <1>37, <1>38, <1>39, <1>40, <1>41
     DEF Next, SourceStep, ServiceStep, Handlers, QuietHandler, UntarStep, Fault

(* A migration begins in a state of the inductive invariant. *)
LEMMA LiveInvInit == Init => HandoverInv /\ ChainInv /\ CheckInv
<1>. SUFFICES ASSUME Init PROVE HandoverInv /\ ChainInv /\ CheckInv
  OBVIOUS
<1> USE DEF Init, RpcInit, NoCall, Adrift, TryBlock, AfterRestore, Ended, Sites, Site
<1>1. CallMatchesPoint
  BY DEF CallMatchesPoint
<1>2. HandoverInv
  BY <1>1 DEF HandoverInv, RestoredIsKnown, RestoreReplied, SourceHeld, SourceReleased,
              RestoreFirst, RestoreUnanswered
<1>3. ChainInv
  BY <1>1 DEF ChainInv, DirectoriesInStep, ChainComplete, TargetAhead
<1>4. CheckInv
  BY DEF CheckInv, CheckedBeforeFreeze, Unchecked
<1>. QED
  BY <1>2, <1>3, <1>4

(* The inductive invariant holds for every job, every set of faults and every
   number of rounds. *)
THEOREM LiveInvariant == Spec => [](HandoverInv /\ ChainInv /\ CheckInv)
<1>1. TypeOK /\ HandoverInv /\ ChainInv /\ CheckInv /\ [Next]_vars
        => (HandoverInv /\ ChainInv /\ CheckInv)'
  BY HandoverStep, ChainStep, CheckStep DEF HandoverInv
<1>. QED
  BY <1>1, LiveInvInit, LiveTypeCorrect, PTL DEF Spec

(* The tasks run on both hosts only when the source could not know better. *)
THEOREM LiveSplitBrain == Spec => []SplitBrainOnlyInDoubt
<1>1. TypeOK /\ HandoverInv => SplitBrainOnlyInDoubt
  BY DEF HandoverInv, RestoredIsKnown, SourceHeld, SourceReleased, SplitBrainOnlyInDoubt,
         InDoubt, RestoreMisreported, TypeOK, TargetTypeOK, AfterRestore, TryBlock
<1>. QED
  BY <1>1, LiveTypeCorrect, LiveInvariant, PTL

(* The source's copy is destroyed only when the target's runs. *)
THEOREM LiveNeverLost == Spec => []NeverLost
<1>1. TypeOK /\ HandoverInv => NeverLost
  BY DEF HandoverInv, RestoreFirst, NeverLost
<1>. QED
  BY <1>1, LiveTypeCorrect, LiveInvariant, PTL

(* The target restores from the directory the source dumped to, and from a
   chain of parents without gaps. *)
THEOREM LiveChainComplete == Spec => []ChainComplete
<1>1. ChainInv => ChainComplete
  BY DEF ChainInv
<1>. QED
  BY <1>1, LiveInvariant, PTL

(* Nothing is frozen before the checks that were not waived have passed. *)
THEOREM LiveCheckedBeforeFreeze == Spec => []CheckedBeforeFreeze
<1>1. CheckInv => CheckedBeforeFreeze
  BY DEF CheckInv
<1>. QED
  BY <1>1, LiveInvariant, PTL

-----------------------------------------------------------------------------
(* Who has the tasks, and what the target's files are worth *)

(* Every step keeps what is known about who has the tasks and the files. *)
LEMMA OwnershipStep ==
    ASSUME TypeOK, HandoverInv, OwnershipInv, [Next]_vars
    PROVE  OwnershipInv'
<1> USE DEF HandoverInv, CallMatchesPoint, RestoredIsKnown, RestoreReplied, SourceHeld,
            OwnershipInv, TasksInStep, ReadAnswer, FilesInv, AtRestore, RestoreUnanswered,
            Adrift, TryBlock, AfterRestore, Ended, Sites, Site, TypeOK, RpcTypeOK,
            SourceTypeOK, TasksTypeOK, rpcVars, srcVars, taskVars, dstVars
<1>1. CASE CallSite
  BY <1>1 DEF CallSite, Send, NoCall
<1>2. CASE CallReturns
  BY <1>2 DEF CallReturns, Returns, NoCall, Goto, Checks
<1>3. CASE CallRaises
  BY <1>3 DEF CallRaises, Raises, NoCall, Goto, Handler
<1>4. CASE CheckReturns
  BY <1>4 DEF CheckReturns, Returns, NoCall, Checks
<1>5. CASE LocalRaises
  BY <1>5 DEF LocalRaises, LocalMayRaise, Goto, Handler
<1>6. CASE ValidateCpu
  BY <1>6 DEF ValidateCpu, Goto
<1>7. CASE CpuDumped
  BY <1>7 DEF CpuDumped, Goto
<1>8. CASE CpuDumpUnsupported
  BY <1>8 DEF CpuDumpUnsupported
<1>9. CASE ValidateCriu
  BY <1>9 DEF ValidateCriu, Goto
<1>10. CASE Prepare
  BY <1>10 DEF Prepare, Goto
<1>11. CASE Predump
  BY <1>11 DEF Predump, NewImageDir, PagesSent
<1>12. CASE CheckProgress
  BY <1>12 DEF CheckProgress
<1>13. CASE FinalDumpFreezes
  BY <1>13 DEF FinalDumpFreezes, NewImageDir, PagesSent, FreezeTasks
<1>14. CASE FinalDumpDocker
  BY <1>14 DEF FinalDumpDocker, NewImageDir
<1>15. CASE FinalDumpFails
  BY <1>15 DEF FinalDumpFails, NewImageDir
<1>16. CASE FinalDumpHookRaises
  BY <1>16 DEF FinalDumpHookRaises, NewImageDir, FreezeTasks
<1>17. CASE FsStop
  BY <1>17 DEF FsStop, Goto
<1>18. CASE SendImages
  BY <1>18 DEF SendImages, Goto
<1>19. CASE AckKills
  BY <1>19 DEF AckKills, TerminateTasks, Goto
<1>20. CASE AckRefused
  BY <1>20 DEF AckRefused, Goto
<1>21. CASE AckDocker
  BY <1>21 DEF AckDocker, Goto
<1>22. CASE Cleanup
  BY <1>22 DEF Cleanup, Goto
<1>23. CASE Close
  BY <1>23 DEF Close, Goto
<1>24. CASE MigrationFail
  BY <1>24 DEF MigrationFail, Goto
<1>25. CASE Exit
  BY <1>25 DEF Exit, Goto, CallerCloses
<1>26. CASE InitRpc
  BY <1>26 DEF InitRpc, ServeInitRpc
<1>27. CASE QuietHandler
  BY <1>27, QuietHandlers
<1>28. CASE StartIter
  <2>1. rpc'.fn = rpc.fn /\ rpc'.kind \in {"resp", "exc"}
    BY <1>28, RepliesKeepCall DEF StartIter
  <2>. QED
    BY <1>28, <2>1 DEF StartIter, Serving
<1>29. CASE RestoreHookRaises
  BY <1>29 DEF RestoreHookRaises, BundleUsable, Serving, Refuses, Reply
<1>30. CASE RestoreFromImages
  BY <1>30 DEF RestoreFromImages, BundleUsable, Serving, Answers, Reply
<1>31. CASE OnDisconnect
  BY <1>31 DEF OnDisconnect, ReadsEOF, Umounted, ClosedImages
<1>32. CASE OnDisconnectRaises
  BY <1>32 DEF OnDisconnectRaises, ReadsEOF, UmountRuns
<1>33. CASE RecvFails
  BY <1>33 DEF RecvFails, ServerRecvFails
<1>34. CASE UntarDone
  BY <1>34 DEF UntarDone
<1>35. CASE UntarReadsEOF
  BY <1>35 DEF UntarReadsEOF
<1>36. CASE CriuThaws
  BY <1>36 DEF CriuThaws
<1>37. CASE Crash
  BY <1>37 DEF Crash, Goto, CallerCloses
<1>38. CASE ConnectionLost
  BY <1>38 DEF ConnectionLost, LinkResets
<1>39. CASE ServiceKilled
  BY <1>39 DEF ServiceKilled, ServiceDies
<1>40. CASE UntarFails
  BY <1>40 DEF UntarFails
<1>41. CASE UNCHANGED vars
  BY <1>41 DEF vars
<1>. QED
  BY <1>1, <1>2, <1>3, <1>4, <1>5, <1>6, <1>7, <1>8, <1>9, <1>10, <1>11, <1>12,
     <1>13, <1>14, <1>15, <1>16, <1>17, <1>18, <1>19, <1>20, <1>21, <1>22, <1>23, <1>24,
     <1>25, <1>26, <1>27, <1>28, <1>29, <1>30, <1>31, <1>32, <1>33, <1>34, <1>35, <1>36,
     <1>37, <1>38, <1>39, <1>40, <1>41
     DEF Next, SourceStep, ServiceStep, Handlers, QuietHandler, UntarStep, Fault

(* Nobody has restored or removed anything at the beginning. *)
LEMMA OwnershipInit == Init => OwnershipInv
  BY DEF Init, RpcInit, NoCall, OwnershipInv, TasksInStep, ReadAnswer, FilesInv, AtRestore,
         RestoreUnanswered, Adrift, TryBlock, AfterRestore, Ended

(* Which host's tasks run, where the news of it is, and whose files the target has:
   the invariant on which the files and the refinements of Handover and DumpHold rest. *)
THEOREM LiveOwnership == Spec => []OwnershipInv
<1>1. TypeOK /\ HandoverInv /\ OwnershipInv /\ [Next]_vars => OwnershipInv'
  BY OwnershipStep
<1>. QED
  BY <1>1, OwnershipInit, LiveTypeCorrect, LiveInvariant, PTL DEF Spec

(* The container's files on the target are never removed from under the only copy
   that runs. *)
THEOREM LiveTargetFilesKept == Spec => []TargetFilesKept
<1>1. TypeOK /\ OwnershipInv => TargetFilesKept
  BY DEF OwnershipInv, ReadAnswer, FilesInv, TargetFilesKept, RestoreMisreported, TypeOK,
         TargetTypeOK
<1>. QED
  BY <1>1, LiveTypeCorrect, LiveOwnership, PTL

-----------------------------------------------------------------------------
(* The restore root *)

(* Nothing the source, its CRIU, the untar thread or the environment does concerns
   the root; the end of the connection that leaves on_disconnect undone does not
   close the service either. *)
LEMMA RootUntouched ==
    ASSUME TypeOK, SourceStep \/ UntarStep \/ CriuThaws \/ Fault \/ RecvFails
                   \/ OnDisconnectRaises \/ UNCHANGED vars
    PROVE  UNCHANGED <<job, restored, root>> /\ (svc' = "closed" => svc = "closed")
<1> USE DEF Goto, rpcVars, srcVars, dstVars
<1>1. CASE SourceStep
  BY <1>1 DEF SourceStep, CallSite, Send, CallReturns, Returns, CallRaises, Raises,
       CheckReturns, LocalRaises, ValidateCpu, CpuDumped, CpuDumpUnsupported, ValidateCriu,
       Prepare, Predump, CheckProgress, FinalDumpFreezes, FinalDumpDocker, FinalDumpFails,
       FinalDumpHookRaises, FsStop, SendImages, AckKills, AckRefused, AckDocker, Cleanup,
       Close, MigrationFail, Exit, CallerCloses
<1>2. CASE UntarStep
  BY <1>2 DEF UntarStep, UntarDone, UntarReadsEOF
<1>3. CASE CriuThaws
  BY <1>3 DEF CriuThaws
<1>4. CASE Fault
  BY <1>4 DEF Fault, Crash, CallerCloses, ConnectionLost, LinkResets, ServiceKilled,
       ServiceDies, UntarFails
<1>5. CASE RecvFails
  BY <1>5 DEF RecvFails, ServerRecvFails
<1>6. CASE OnDisconnectRaises
  BY <1>6 DEF OnDisconnectRaises
<1>7. CASE UNCHANGED vars
  BY <1>7 DEF vars
<1>. QED
  BY <1>1, <1>2, <1>3, <1>4, <1>5, <1>6, <1>7

(* A service that executes a call is not one that has closed. *)
LEMMA HandlersServe ==
    ASSUME Handlers
    PROVE  svc' # "closed" /\ UNCHANGED job
<1> USE DEF srcVars, Answers, Refuses, Reply, ServerAfterSend
<1>1. CASE InitRpc
  BY <1>1 DEF InitRpc, ServeInitRpc
<1>2. CASE Setup \/ SetOptions \/ StartIter \/ EndIter
  BY <1>2 DEF Setup, SetOptions, StartIter, EndIter
<1>3. CASE StartAcceptImages \/ StopAcceptImages \/ CheckCpuinfo \/ CheckCriuVersion
  BY <1>3 DEF StartAcceptImages, StopAcceptImages, CheckCpuinfo, CheckCriuVersion
<1>4. CASE RestoreFails \/ RestoreHookRaises \/ RestoreFromImages
  BY <1>4 DEF RestoreFails, RestoreHookRaises, RestoreFromImages
<1>5. CASE RestoreTime \/ MigrationComplete
  BY <1>5 DEF RestoreTime, MigrationComplete
<1>. QED
  BY <1>1, <1>2, <1>3, <1>4, <1>5 DEF Handlers

(* Only a handler mounts, and an orderly end of the connection umounts what a
   failed restore left. *)
LEMMA MountStep ==
    ASSUME TypeOK, MountInv, [Next]_vars
    PROVE  MountInv'
<1> USE DEF MountInv, NothingLeftMounted, Mounts
<1>1. CASE SourceStep \/ UntarStep \/ CriuThaws \/ Fault \/ RecvFails
           \/ OnDisconnectRaises \/ UNCHANGED vars
  BY <1>1, RootUntouched
<1>2. CASE Handlers
  <2>1. svc' # "closed" /\ UNCHANGED job
    BY <1>2, HandlersServe
  <2>2. root' = "mounted" => root = "mounted" \/ Mounts
    BY <1>2 DEF Handlers, InitRpc, Setup, SetOptions, StartIter, EndIter, StartAcceptImages,
         StopAcceptImages, CheckCpuinfo, CheckCriuVersion, RestoreFails, RestoreHookRaises,
         RestoreFromImages, RestoreTime, MigrationComplete, dstVars
  <2>. QED
    BY <2>1, <2>2
<1>3. CASE OnDisconnect
  <2>1. UNCHANGED <<job, restored>> /\ root' = Umounted
    BY <1>3 DEF OnDisconnect, srcVars
  <2>2. root' = "mounted" => root = "mounted" /\ ~UmountRuns
    BY <2>1 DEF Umounted
  <2>. QED
    BY <2>1, <2>2 DEF UmountRuns
<1>. QED
  BY <1>1, <1>2, <1>3 DEF Next, ServiceStep

(* No failed restore leaves a mount behind, once the service has closed. *)
THEOREM LiveNothingLeftMounted == Spec => []NothingLeftMounted
<1>1. Init => MountInv
  BY DEF Init, RpcInit, MountInv, NothingLeftMounted
<1>2. TypeOK /\ MountInv /\ [Next]_vars => MountInv'
  BY MountStep
<1>3. MountInv => NothingLeftMounted
  BY DEF MountInv
<1>. QED
  BY <1>1, <1>2, <1>3, LiveTypeCorrect, PTL DEF Spec

-----------------------------------------------------------------------------
(* The refinements *)

(* The actions that concern the tasks of either host. *)
TaskStep ==
    \/ FinalDumpFreezes \/ FinalDumpDocker \/ FinalDumpHookRaises
    \/ AckKills \/ AckRefused \/ CriuThaws \/ RestoreHookRaises \/ RestoreFromImages

(* Every other step leaves the tasks alone. *)
LEMMA OtherSteps ==
    ASSUME TypeOK, [Next]_vars
    PROVE  TaskStep \/ UNCHANGED taskVars
<1> USE DEF rpcVars, srcVars, dstVars
<1>1. CASE SourceStep
  BY <1>1 DEF TaskStep, SourceStep, CallSite, CallReturns, CallRaises, CheckReturns,
       LocalRaises, ValidateCpu, CpuDumped, CpuDumpUnsupported, ValidateCriu, Prepare,
       Predump, CheckProgress, FinalDumpFails, FsStop, SendImages, AckDocker, Cleanup,
       Close, MigrationFail, Exit
<1>2. CASE QuietHandler
  BY <1>2, QuietHandlers
<1>3. CASE InitRpc \/ StartIter \/ OnDisconnect \/ OnDisconnectRaises \/ RecvFails
  BY <1>3 DEF InitRpc, StartIter, OnDisconnect, OnDisconnectRaises, RecvFails
<1>4. CASE UntarStep \/ Fault
  BY <1>4 DEF UntarStep, UntarDone, UntarReadsEOF, Fault, Crash, ConnectionLost,
       ServiceKilled, UntarFails
<1>5. CASE UNCHANGED vars
  BY <1>5 DEF vars
<1>. QED
  BY <1>1, <1>2, <1>3, <1>4, <1>5
     DEF Next, ServiceStep, Handlers, QuietHandler, TaskStep

(* Every step of a live migration is one of the abstract handover, or leads to a
   state in which source and target are out of touch. *)
LEMMA HandoverRefined ==
    ASSUME TypeOK, HandoverInv, OwnershipInv, [Next]_vars
    PROVE  [H!Next \/ OutOfTouch']_<<src, dst>>
<1> USE DEF TypeOK, SourceTypeOK, TasksTypeOK
<1>1. CASE FinalDumpFreezes \/ FinalDumpDocker \/ FinalDumpHookRaises
  <2>1. src = "running" /\ dst = "absent"
    BY <1>1 DEF FinalDumpFreezes, FinalDumpDocker, FinalDumpHookRaises, OwnershipInv,
         TasksInStep, TryBlock, AfterRestore, Adrift, Ended
  <2>2. src' \in {"frozen", "stopped"} /\ dst' = dst
    BY <1>1 DEF FinalDumpFreezes, FinalDumpDocker, FinalDumpHookRaises, FreezeTasks, taskVars
  <2>. QED
    BY <2>1, <2>2 DEF H!Next, H!Freeze
<1>2. CASE AckKills
  <2>1. src = "frozen" /\ dst = "running"
    BY <1>2 DEF AckKills, HandoverInv, SourceHeld, RestoreFirst, AfterRestore
  <2>2. src' = "gone" /\ dst' = dst
    BY <1>2 DEF AckKills, TerminateTasks
  <2>. QED
    BY <2>1, <2>2 DEF H!Next, H!Retire
<1>3. CASE AckRefused
  BY <1>3 DEF AckRefused, OutOfTouch, DumpRefused, Goto, AfterRestore
<1>4. CASE CriuThaws
  <2>1. src = "frozen" /\ src' = "running" /\ pc \in Ended
        /\ UNCHANGED <<pc, rpc, dst, restored>>
    BY <1>4 DEF CriuThaws, rpcVars, srcVars, dstVars
  <2>2. CASE dst = "absent"
    BY <2>1, <2>2 DEF H!Next, H!Thaw
  <2>3. CASE dst = "running" /\ ~restored
    BY <2>1, <2>3 DEF OutOfTouch, RestoreMisreported
  <2>4. CASE dst = "running" /\ restored
    <3>1. RestoreUnanswered \/ pc \in {"succeeded", "crashed"}
      BY <2>1, <2>4 DEF HandoverInv, RestoredIsKnown, AfterRestore, Ended
    <3>2. pc = "succeeded" => DumpRefused
      BY <2>1 DEF HandoverInv, SourceReleased
    <3>. QED
      BY <2>1, <3>1, <3>2 DEF OutOfTouch, RestoreUnanswered, DumpRefused, Adrift
  <2>. QED
    BY <2>2, <2>3, <2>4
<1>5. CASE RestoreHookRaises \/ RestoreFromImages
  <2>1. dst = "absent" /\ rpc.fn = "restore_from_images" /\ ~restored /\ AtRestore
    BY <1>5 DEF RestoreHookRaises, RestoreFromImages, Serving, OwnershipInv, TasksInStep,
         AtRestore
  <2>2. dst' = "running" /\ UNCHANGED <<src, pc>>
    BY <1>5 DEF RestoreHookRaises, RestoreFromImages, srcVars
  <2>3. CASE RestoreHookRaises
    BY <2>1, <2>2, <2>3 DEF RestoreHookRaises, OutOfTouch, RestoreMisreported
  <2>4. CASE RestoreFromImages /\ pc \in Adrift
    <3>1. RestoreUnanswered'
      BY <2>4, <2>1 DEF RestoreFromImages, Answers, Reply, RestoreUnanswered, RpcTypeOK
    <3>. QED
      BY <3>1, <2>2, <2>4 DEF OutOfTouch
  <2>5. CASE RestoreFromImages /\ pc \notin Adrift
    <3>1. pc = "restore"
      BY <2>1, <2>5 DEF AtRestore, HandoverInv, CallMatchesPoint, Sites, Site
    <3>2. src \in {"frozen", "stopped"}
      BY <3>1 DEF HandoverInv, SourceHeld, TryBlock
    <3>. QED
      BY <2>1, <2>2, <3>2 DEF H!Next, H!Activate
  <2>. QED
    BY <1>5, <2>3, <2>4, <2>5
<1>. QED
  BY <1>1, <1>2, <1>3, <1>4, <1>5, OtherSteps DEF TaskStep, taskVars

(* Live mode implements the abstract handover, but for the ends that are out of
   touch: for every job, every set of faults and every number of rounds. *)
THEOREM LiveHandover == Spec => HandoverImplemented
<1>1. Init => H!Init
  BY DEF Init, H!Init
<1>. QED
  BY <1>1, HandoverRefined, LiveTypeCorrect, LiveInvariant, LiveOwnership, PTL
     DEF Spec, HandoverImplemented

(* Where the phase of the final dump can go without a step of the tasks. *)
PhaseKept ==
    \/ DumpPhase' = DumpPhase
    \/ DumpPhase' = "over" /\ DumpPhase \in {"before", "held"}

(* A step that leaves the tasks alone does not begin or repeat the dump. *)
LEMMA PhaseStep ==
    ASSUME TypeOK, job.driver # "docker", [Next]_vars, ~TaskStep
    PROVE  PhaseKept
<1> USE DEF PhaseKept, DumpPhase, TryBlock, AfterRestore, Adrift, Ended, Sites, Site,
            TypeOK, SourceTypeOK, Points, Goto
<1>1. CASE CallReturns
  BY <1>1 DEF CallReturns, Checks
<1>2. CASE CheckReturns
  BY <1>2 DEF CheckReturns, Checks
<1>3. CASE CallRaises
  BY <1>3 DEF CallRaises, Handler
<1>4. CASE LocalRaises
  BY <1>4 DEF LocalRaises, LocalMayRaise, Handler
<1>5. CASE ValidateCpu \/ CpuDumped \/ CpuDumpUnsupported \/ ValidateCriu \/ Prepare
  BY <1>5 DEF ValidateCpu, CpuDumped, CpuDumpUnsupported, ValidateCriu, Prepare
<1>6. CASE Predump \/ CheckProgress \/ FinalDumpFails
  BY <1>6 DEF Predump, CheckProgress, FinalDumpFails
<1>7. CASE FsStop \/ SendImages \/ AckDocker
  BY <1>7 DEF FsStop, SendImages, AckDocker
<1>8. CASE Cleanup \/ Close \/ MigrationFail \/ Exit
  BY <1>8 DEF Cleanup, Close, MigrationFail, Exit
<1>9. CASE Crash
  BY <1>9 DEF Crash
<1>10. ASSUME UNCHANGED <<job, pc>> PROVE PhaseKept
  BY <1>10
<1>11. CASE CallSite \/ UntarStep \/ ConnectionLost \/ ServiceKilled \/ UntarFails
           \/ InitRpc \/ StartIter \/ OnDisconnect \/ OnDisconnectRaises \/ RecvFails
           \/ UNCHANGED vars
  BY <1>10, <1>11 DEF CallSite, UntarStep, UntarDone, UntarReadsEOF, ConnectionLost,
       ServiceKilled, UntarFails, InitRpc, StartIter, OnDisconnect, OnDisconnectRaises,
       RecvFails, srcVars, vars
<1>12. CASE QuietHandler
  BY <1>10, <1>12, QuietHandlers DEF srcVars
<1>. QED
  BY <1>1, <1>2, <1>3, <1>4, <1>5, <1>6, <1>7, <1>8, <1>9, <1>11, <1>12
     DEF Next, SourceStep, ServiceStep, Handlers, QuietHandler, Fault, TaskStep

(* The options of a migration never change. *)
LEMMA JobKept == ASSUME [Next]_vars PROVE job' = job
  BY RootUntouched, HandlersServe
     DEF Next, SourceStep, ServiceStep, OnDisconnect, srcVars, vars, rpcVars, Goto,
         CallSite, CallReturns, CallRaises, CheckReturns, LocalRaises, ValidateCpu,
         CpuDumped, CpuDumpUnsupported, ValidateCriu, Prepare, Predump, CheckProgress,
         FinalDumpFreezes, FinalDumpDocker, FinalDumpFails, FinalDumpHookRaises, FsStop,
         SendImages, AckKills, AckRefused, AckDocker, Cleanup, Close, MigrationFail, Exit,
         OnDisconnectRaises, RecvFails, UntarStep, UntarDone, UntarReadsEOF, CriuThaws,
         Fault, Crash, ConnectionLost, ServiceKilled, UntarFails

(* Every step of a live migration is one of the abstract final dump. *)
LEMMA DumpRefined ==
    ASSUME TypeOK, HandoverInv, [Next]_vars
    PROVE  [D!Next]_(D!vars)
<1> USE DEF TypeOK, SourceTypeOK, TasksTypeOK
<1>1. job' = job
  BY JobKept
<1>2. CASE job.driver = "docker"
  <2>1. net' = net
    BY <1>2, OtherSteps DEF TaskStep, FinalDumpFreezes, FinalDumpDocker,
         FinalDumpHookRaises, AckKills, AckRefused, CriuThaws, RestoreHookRaises,
         RestoreFromImages, taskVars
  <2>. QED
    BY <1>1, <1>2, <2>1 DEF D!vars, DumpPhase
<1>3. CASE job.driver # "docker" /\ TaskStep
  <2> USE <1>1, <1>3 DEF DumpPhase, TryBlock, AfterRestore, Adrift, Ended, Goto
  <2>1. CASE FinalDumpFreezes
    BY <2>1 DEF FinalDumpFreezes, FreezeTasks, D!Next, D!Holds
  <2>2. CASE FinalDumpDocker
    BY <2>2 DEF FinalDumpDocker
  <2>3. CASE FinalDumpHookRaises
    BY <2>3 DEF FinalDumpHookRaises, FreezeTasks, D!Next, D!BreaksOff
  <2>4. CASE AckKills
    BY <2>4 DEF AckKills, TerminateTasks, D!Next, D!Kills
  <2>5. CASE AckRefused
    BY <2>5 DEF AckRefused, D!Next, D!Lets
  <2>6. CASE CriuThaws
    BY <2>6 DEF CriuThaws, srcVars, D!Next, D!Thaws
  <2>7. CASE RestoreHookRaises \/ RestoreFromImages
    BY <2>7 DEF RestoreHookRaises, RestoreFromImages, srcVars, D!vars
  <2>. QED
    BY <2>1, <2>2, <2>3, <2>4, <2>5, <2>6, <2>7 DEF TaskStep
<1>4. CASE job.driver # "docker" /\ ~TaskStep
  <2>1. UNCHANGED <<src, net>> /\ PhaseKept
    BY <1>4, OtherSteps, PhaseStep DEF taskVars
  <2>2. CASE DumpPhase' = DumpPhase
    BY <1>1, <1>4, <2>1, <2>2 DEF D!vars
  <2>3. CASE DumpPhase = "before" /\ DumpPhase' = "over"
    BY <1>1, <1>4, <2>1, <2>3 DEF D!Next, D!Fails
  <2>4. CASE DumpPhase = "held" /\ DumpPhase' = "over"
    <3>1. CASE src = "frozen"
      BY <1>1, <1>4, <2>1, <2>4, <3>1 DEF D!Next, D!Lets
    <3>2. pc \in TryBlock \cup {"final_end", "ack"}
      BY <1>4, <2>4 DEF DumpPhase
    <3>. QED
      BY <1>4, <3>1, <3>2 DEF HandoverInv, SourceHeld
  <2>. QED
    BY <2>1, <2>2, <2>3, <2>4 DEF PhaseKept
<1>. QED
  BY <1>2, <1>3, <1>4

(* Live mode sees of the final dump what the abstraction says, which is also what
   a CRIU session implements. *)
THEOREM LiveDumpHold == Spec => DumpHoldKept
<1>1. Init => D!Init
  BY DEF Init, D!Init, DumpPhase, TryBlock, AfterRestore, Adrift, Ended
<1>. QED
  BY <1>1, DumpRefined, LiveTypeCorrect, LiveInvariant, PTL
     DEF Spec, DumpHoldKept, D!Spec
=============================================================================

-------------------------- MODULE CriuSessionProofs --------------------------
(* Proofs about CriuSession, for every set of drivers and any number of veths. *)
EXTENDS CriuSession, TLAPS

(* What CRIU's script says: the notification tells the stage, the stage the tasks. *)
LEMMA ScriptFacts ==
    ASSUME NEW e \in Script
    PROVE  /\ e.script \in Notes /\ e.to = StageOf(e.script) /\ e.to # "idle"
           /\ e.from # "over" /\ e.from # "unlocking"
           /\ e.side = "source" =>
                 /\ e.script \in {"pre-dump", "network-lock", "post-network-lock",
                                 "network-unlock", "post-dump"}
                 /\ e.state = (IF e.to = "begun" THEN "running" ELSE "frozen")
                 /\ e.to = "begun" => e.from = "idle"
           /\ e.side = "target" =>
                 /\ e.script \in {"pre-restore", "setup-namespaces", "post-restore",
                                 "network-unlock"}
                 /\ e.state \in {"absent", "created"}
                 /\ e.script = "network-unlock" => e.from = "restored"
                 /\ e.from \in {"idle", "begun", "created", "restored"}
<1>1. \A side, netns, from, script, to, state :
         LET x == Entry(side, netns, from, script, to, state)
         IN  x.side = side /\ x.from = from /\ x.script = script /\ x.to = to /\ x.state = state
  BY DEF Entry
<1>2. \/ e = Entry("source", Both, "idle", "pre-dump", "begun", "running")
      \/ e = Entry("source", {TRUE}, "begun", "network-lock", "locking", "frozen")
      \/ e = Entry("source", {TRUE}, "locking", "post-network-lock", "locked", "frozen")
      \/ e = Entry("source", {TRUE}, "locked", "post-dump", "dumped", "frozen")
      \/ e = Entry("source", {FALSE}, "begun", "post-dump", "dumped", "frozen")
      \/ e = Entry("source", {TRUE}, "locking", "network-unlock", "unlocking", "frozen")
      \/ e = Entry("source", {TRUE}, "locked", "network-unlock", "unlocking", "frozen")
      \/ e = Entry("source", {TRUE}, "dumped", "network-unlock", "unlocking", "frozen")
      \/ e = Entry("target", Both, "idle", "pre-restore", "begun", "absent")
      \/ e = Entry("target", Both, "begun", "setup-namespaces", "created", "created")
      \/ e = Entry("target", Both, "created", "post-restore", "restored", "created")
      \/ e = Entry("target", {TRUE}, "restored", "network-unlock", "unlocking", "created")
  BY DEF Script
<1>3. CASE e = Entry("source", Both, "idle", "pre-dump", "begun", "running")
  BY <1>1, <1>3 DEF Notes, StageOf
<1>4. CASE e = Entry("source", {TRUE}, "begun", "network-lock", "locking", "frozen")
  BY <1>1, <1>4 DEF Notes, StageOf
<1>5. CASE e = Entry("source", {TRUE}, "locking", "post-network-lock", "locked", "frozen")
  BY <1>1, <1>5 DEF Notes, StageOf
<1>6. CASE e = Entry("source", {TRUE}, "locked", "post-dump", "dumped", "frozen")
  BY <1>1, <1>6 DEF Notes, StageOf
<1>7. CASE e = Entry("source", {FALSE}, "begun", "post-dump", "dumped", "frozen")
  BY <1>1, <1>7 DEF Notes, StageOf
<1>8. CASE e = Entry("source", {TRUE}, "locking", "network-unlock", "unlocking", "frozen")
  BY <1>1, <1>8 DEF Notes, StageOf
<1>9. CASE e = Entry("source", {TRUE}, "locked", "network-unlock", "unlocking", "frozen")
  BY <1>1, <1>9 DEF Notes, StageOf
<1>10. CASE e = Entry("source", {TRUE}, "dumped", "network-unlock", "unlocking", "frozen")
  BY <1>1, <1>10 DEF Notes, StageOf
<1>11. CASE e = Entry("target", Both, "idle", "pre-restore", "begun", "absent")
  BY <1>1, <1>11 DEF Notes, StageOf
<1>12. CASE e = Entry("target", Both, "begun", "setup-namespaces", "created", "created")
  BY <1>1, <1>12 DEF Notes, StageOf
<1>13. CASE e = Entry("target", Both, "created", "post-restore", "restored", "created")
  BY <1>1, <1>13 DEF Notes, StageOf
<1>14. CASE e = Entry("target", {TRUE}, "restored", "network-unlock", "unlocking", "created")
  BY <1>1, <1>14 DEF Notes, StageOf
<1>. QED
  BY <1>2, <1>3, <1>4, <1>5, <1>6, <1>7, <1>8, <1>9, <1>10, <1>11, <1>12, <1>13, <1>14

(* The step CRIU takes with a notification. *)
LEMMA NotifiesCases ==
    ASSUME TypeOK, Notifies
    PROVE  /\ wire \in {"request", "ack"} /\ phaul \notin {"closing", "gone"}
           /\ wire' \in Notes /\ stage' = StageOf(wire') /\ stage' # "idle"
           /\ stage \notin {"over", "unlocking"}
           /\ UNCHANGED <<job, phaul, hook, at, heard, dev, ports, clumsy>>
           /\ Source =>
                 /\ wire' \in {"pre-dump", "network-lock", "post-network-lock",
                               "network-unlock", "post-dump"}
                 /\ tasks' = (IF stage' = "begun" THEN "running" ELSE "frozen")
                 /\ stage' = "begun" => stage = "idle"
           /\ ~Source =>
                 /\ wire' \in {"pre-restore", "setup-namespaces", "post-restore",
                               "network-unlock"}
                 /\ tasks' \in {"absent", "created"}
                 /\ wire' = "network-unlock" => stage = "restored"
                 /\ stage \in {"idle", "begun", "created", "restored"}
<1>1. PICK e \in Script :
         /\ e.side = job.side /\ e.from = stage
         /\ wire' = e.script /\ stage' = e.to /\ tasks' = e.state
  BY DEF Notifies
<1>2. e.side = "source" \/ e.side = "target"
  BY <1>1 DEF TypeOK, Jobs
<1>. QED
  BY <1>1, <1>2, ScriptFacts DEF Notifies, Asked, Closed, Source, sideVars, netVars

(* Every step keeps the turns. *)
LEMMA TurnStep ==
    ASSUME TypeOK, TurnTaken, TasksInStep, [Next]_vars
    PROVE  TurnTaken'
<1> USE DEF TypeOK, TurnTaken, TasksInStep, HookNotes, StageOf, Source, Notes, Answers, InLoop,
     criuVars, netVars, sideVars
<1>1. CASE Request
  BY <1>1 DEF Request
<1>2. CASE MountRaises
  BY <1>2 DEF MountRaises
<1>3. CASE ReadNotify
  BY <1>3 DEF ReadNotify, LeavesLoop, Reads
<1>4. CASE PostDump
  BY <1>4 DEF PostDump, LeavesLoop, Reads
<1>5. CASE HookRaises
  BY <1>5 DEF HookRaises, NoSuchMethod, NetHook
<1>6. CASE NetLock
  BY <1>6 DEF NetLock, HasVeths
<1>7. CASE NetUnlock
  BY <1>7 DEF NetUnlock, HasVeths, Attaches
<1>8. CASE AckNotify
  BY <1>8 DEF AckNotify, AckSent, HookDone, NoSuchMethod, NetHook, HasVeths
<1>9. CASE ReadAnswer
  BY <1>9 DEF ReadAnswer, Reads
<1>10. CASE Restored
  BY <1>10 DEF Restored, RestoredMayRaise
<1>11. CASE FinalAck
  BY <1>11 DEF FinalAck
<1>12. CASE MigrationFails
  BY <1>12 DEF MigrationFails
<1>13. CASE ReadFinalAnswer
  BY <1>13 DEF ReadFinalAnswer, Reads
<1>14. CASE Close
  BY <1>14 DEF Close
<1>15. CASE CloseReturns
  BY <1>15 DEF CloseReturns
<1>16. CASE Exits
  BY <1>16 DEF Exits
<1>17. CASE Notifies
  BY <1>17, NotifiesCases
<1>18. CASE AnswersFailure
  BY <1>18 DEF AnswersFailure, Asked, Fails, Finishes
<1>19. CASE AnswersSuccess
  BY <1>19 DEF AnswersSuccess, Asked, Succeeds, Finishes
<1>20. CASE Abandons
  BY <1>20 DEF Abandons, Closed, Finishes
<1>21. CASE ThreadDies
  BY <1>21 DEF ThreadDies
<1>22. CASE Killed
  BY <1>22 DEF Killed
<1>23. CASE UNCHANGED vars
  BY <1>23 DEF vars
<1>. QED
  BY <1>1, <1>2, <1>3, <1>4, <1>5, <1>6, <1>7, <1>8, <1>9, <1>10, <1>11, <1>12, <1>13,
     <1>14, <1>15, <1>16, <1>17, <1>18, <1>19, <1>20, <1>21, <1>22, <1>23
     DEF Next, LoopStep, EndStep, CriuStep

(* Every step keeps the tasks in step with CRIU. *)
LEMMA TasksStep ==
    ASSUME TypeOK, TurnTaken, TasksInStep, [Next]_vars
    PROVE  TasksInStep'
<1> USE DEF TypeOK, TurnTaken, TasksInStep, HookNotes, StageOf, Source, Notes, Answers, InLoop,
     criuVars, netVars, sideVars
<1>1. CASE Request
  BY <1>1 DEF Request
<1>2. CASE MountRaises
  BY <1>2 DEF MountRaises
<1>3. CASE ReadNotify
  BY <1>3 DEF ReadNotify, LeavesLoop, Reads
<1>4. CASE PostDump
  BY <1>4 DEF PostDump, LeavesLoop, Reads
<1>5. CASE HookRaises
  BY <1>5 DEF HookRaises, NoSuchMethod, NetHook
<1>6. CASE NetLock
  BY <1>6 DEF NetLock, HasVeths
<1>7. CASE NetUnlock
  BY <1>7 DEF NetUnlock, HasVeths, Attaches
<1>8. CASE AckNotify
  BY <1>8 DEF AckNotify, AckSent, HookDone, NoSuchMethod, NetHook, HasVeths
<1>9. CASE ReadAnswer
  BY <1>9 DEF ReadAnswer, Reads
<1>10. CASE Restored
  BY <1>10 DEF Restored, RestoredMayRaise
<1>11. CASE FinalAck
  BY <1>11 DEF FinalAck
<1>12. CASE MigrationFails
  BY <1>12 DEF MigrationFails
<1>13. CASE ReadFinalAnswer
  BY <1>13 DEF ReadFinalAnswer, Reads
<1>14. CASE Close
  BY <1>14 DEF Close
<1>15. CASE CloseReturns
  BY <1>15 DEF CloseReturns
<1>16. CASE Exits
  BY <1>16 DEF Exits
<1>17. CASE Notifies
  BY <1>17, NotifiesCases
<1>18. CASE AnswersFailure
  BY <1>18 DEF AnswersFailure, Asked, Fails, Finishes
<1>19. CASE AnswersSuccess
  BY <1>19 DEF AnswersSuccess, Asked, Succeeds, Finishes
<1>20. CASE Abandons
  BY <1>20 DEF Abandons, Closed, Finishes
<1>21. CASE ThreadDies
  BY <1>21 DEF ThreadDies
<1>22. CASE Killed
  BY <1>22 DEF Killed
<1>23. CASE UNCHANGED vars
  BY <1>23 DEF vars
<1>. QED
  BY <1>1, <1>2, <1>3, <1>4, <1>5, <1>6, <1>7, <1>8, <1>9, <1>10, <1>11, <1>12, <1>13,
     <1>14, <1>15, <1>16, <1>17, <1>18, <1>19, <1>20, <1>21, <1>22, <1>23
     DEF Next, LoopStep, EndStep, CriuStep

(* The veths are numbered. *)
LEMMA VethsFacts == Len(Links) \in Nat /\ Veths = 1..Len(Links) /\ \A v \in Veths : Links[v] \in BOOLEAN
  BY SessionAssumption DEF Veths

(* Every step keeps the types. *)
LEMMA TypeStep ==
    ASSUME TypeOK, SessionInv, [Next]_vars
    PROVE  TypeOK'
<1> USE VethsFacts DEF TypeOK, SessionInv, Source, InLoop, criuVars, netVars, sideVars
<1>1. CASE Request
  BY <1>1 DEF Request
<1>2. CASE MountRaises
  BY <1>2 DEF MountRaises
<1>3. CASE ReadNotify
  BY <1>3 DEF ReadNotify, LeavesLoop, Reads
<1>4. CASE PostDump
  BY <1>4 DEF PostDump, LeavesLoop, Reads
<1>5. CASE HookRaises
  BY <1>5 DEF HookRaises, NoSuchMethod, NetHook
<1>6. CASE NetLock
  <2>1. at \in Veths /\ at + 1 \in 1..Len(Links) + 1
    BY <1>6 DEF NetLock, HasVeths
  <2>2. dev' \in [Veths -> {"up", "down"}] /\ clumsy' \in BOOLEAN
    BY <1>6 DEF NetLock
  <2>. QED
    BY <1>6, <2>1, <2>2 DEF NetLock
<1>7. CASE NetUnlock
  <2>1. at \in Veths /\ at + 1 \in 1..Len(Links) + 1 /\ phaul = "hook" /\ hook = "network-unlock"
    BY <1>7 DEF NetUnlock, HasVeths
  <2>2. dev' \in [Veths -> {"up", "down"}]
    BY <1>7 DEF NetUnlock
  <2>3. ~Source => ports[at] = 0
    BY <2>1 DEF DevicesInStep
  <2>4. ports' \in [Veths -> 0..1]
    BY <1>7, <2>1, <2>3 DEF NetUnlock, Attaches
  <2>5. clumsy' \in BOOLEAN
    BY <1>7 DEF NetUnlock
  <2>. QED
    BY <1>7, <2>1, <2>2, <2>4, <2>5 DEF NetUnlock
<1>8. CASE AckNotify
  BY <1>8 DEF AckNotify, AckSent, HookDone, NoSuchMethod, NetHook, HasVeths
<1>9. CASE ReadAnswer
  BY <1>9 DEF ReadAnswer, Reads
<1>10. CASE Restored
  BY <1>10 DEF Restored, RestoredMayRaise
<1>11. CASE FinalAck
  BY <1>11 DEF FinalAck
<1>12. CASE MigrationFails
  BY <1>12 DEF MigrationFails
<1>13. CASE ReadFinalAnswer
  BY <1>13 DEF ReadFinalAnswer, Reads
<1>14. CASE Close
  BY <1>14 DEF Close
<1>15. CASE CloseReturns
  BY <1>15 DEF CloseReturns
<1>16. CASE Exits
  BY <1>16 DEF Exits
<1>17. CASE Notifies
  <2>1. wire' \in Notes /\ stage' = StageOf(wire')
        /\ UNCHANGED <<job, phaul, hook, at, heard, dev, ports, clumsy>>
    BY <1>17, NotifiesCases
  <2>2. stage' \in {"idle", "begun", "locking", "locked", "dumped", "created",
                   "restored", "unlocking", "over"}
    BY <2>1 DEF StageOf
  <2>3. (Source => tasks' \in {"running", "frozen", "gone"})
        /\ (~Source => tasks' \in {"absent", "created", "running"})
    BY <1>17, NotifiesCases
  <2>. QED
    BY <2>1, <2>2, <2>3
<1>18. CASE AnswersFailure
  <2>1. wire' \in Answers /\ stage' = "over"
        /\ UNCHANGED <<job, phaul, hook, at, heard, dev, ports, clumsy>>
    BY <1>18 DEF AnswersFailure, Finishes, Answers
  <2>2. tasks' = (IF Source THEN "running" ELSE "absent")
    BY <1>18 DEF AnswersFailure, Finishes
  <2>. QED
    BY <2>1, <2>2
<1>19. CASE AnswersSuccess
  <2>1. wire' \in Answers /\ stage' = "over"
        /\ UNCHANGED <<job, phaul, hook, at, heard, dev, ports, clumsy>>
    BY <1>19 DEF AnswersSuccess, Finishes, Answers
  <2>2. tasks' = (IF Source THEN "gone" ELSE "running")
    BY <1>19 DEF AnswersSuccess, Finishes
  <2>. QED
    BY <2>1, <2>2
<1>20. CASE Abandons
  BY <1>20 DEF Abandons, Closed, Finishes
<1>21. CASE ThreadDies
  BY <1>21 DEF ThreadDies
<1>22. CASE Killed
  BY <1>22 DEF Killed
<1>23. CASE UNCHANGED vars
  BY <1>23 DEF vars
<1>. QED
  BY <1>1, <1>2, <1>3, <1>4, <1>5, <1>6, <1>7, <1>8, <1>9, <1>10, <1>11, <1>12, <1>13,
     <1>14, <1>15, <1>16, <1>17, <1>18, <1>19, <1>20, <1>21, <1>22, <1>23
     DEF Next, LoopStep, EndStep, CriuStep

(* Every step keeps the devices in step with the hooks. *)
LEMMA DevicesStep ==
    ASSUME TypeOK, SessionInv, [Next]_vars
    PROVE  DevicesInStep'
<1> USE VethsFacts DEF TypeOK, SessionInv, TurnTaken, TasksInStep, DevicesInStep, Source, StageOf, HookNotes,
     Notes, Answers, InLoop, AllUp, Unlocked, criuVars, netVars, sideVars
<1>1. CASE Request
  BY <1>1 DEF Request
<1>2. CASE MountRaises
  BY <1>2 DEF MountRaises
<1>3. CASE ReadNotify
  BY <1>3 DEF ReadNotify, LeavesLoop, Reads
<1>4. CASE PostDump
  BY <1>4 DEF PostDump, LeavesLoop, Reads
<1>5. CASE HookRaises
  BY <1>5 DEF HookRaises, NoSuchMethod, NetHook
<1>6. CASE NetLock
  BY <1>6 DEF NetLock, HasVeths
<1>7. CASE NetUnlock
  <2>1. PICK up \in BOOLEAN, added \in BOOLEAN :
           /\ dev' = IF up THEN [dev EXCEPT ![at] = "up"] ELSE dev
           /\ ports' = IF Attaches /\ added THEN [ports EXCEPT ![at] = @ + 1] ELSE ports
           /\ clumsy' = (clumsy \/ ~up \/ ~added)
    BY <1>7 DEF NetUnlock
  <2>2. /\ at \in Veths /\ phaul = "hook" /\ hook = "network-unlock" /\ job.driver = "lxc"
        /\ at' = at + 1 /\ UNCHANGED <<job, phaul, hook, heard, wire, stage, tasks>>
    BY <1>7 DEF NetUnlock, HasVeths
  <2>3. stage = "unlocking" /\ wire = "none" /\ heard \notin Answers
    BY <2>2
  <2>4. \A v \in Veths : dev'[v] = IF v = at /\ up THEN "up" ELSE dev[v]
    BY <2>1, <2>2
  <2>5. \A v \in Veths : ports'[v] = IF v = at /\ Links[v] /\ ~Source /\ added THEN 1 ELSE ports[v]
    <3>1. ~Source => ports[at] = 0
      BY <2>2
    <3>. QED
      BY <2>1, <2>2, <3>1 DEF Attaches
  <2>6. /\ \A v \in Veths : ports'[v] = 1 => Links[v]
        /\ Source => \A v \in Veths : Links[v] => ports'[v] = 1
    BY <2>5
  <2>7. ~Source => \A v \in Veths : v >= at' => ports'[v] = 0
    BY <2>2, <2>5
  <2>8. ~clumsy' => Unlocked(at)'
    <3>. SUFFICES ASSUME ~clumsy', NEW v \in Veths, v < at'
                  PROVE  dev'[v] = "up" /\ (Links[v] => ports'[v] = 1)
      OBVIOUS
    <3>1. ~clumsy /\ up /\ added
      BY <2>1
    <3>2. CASE v = at
      BY <2>2, <2>4, <2>5, <2>6, <3>1, <3>2
    <3>3. CASE v # at
      BY <2>2, <2>4, <2>5, <3>1, <3>3
    <3>. QED
      BY <3>2, <3>3
  <2>. QED
    BY <2>2, <2>3, <2>6, <2>7, <2>8
<1>8. CASE AckNotify
  BY <1>8 DEF AckNotify, AckSent, HookDone, NoSuchMethod, NetHook, HasVeths
<1>9. CASE ReadAnswer
  BY <1>9 DEF ReadAnswer, Reads
<1>10. CASE Restored
  BY <1>10 DEF Restored, RestoredMayRaise
<1>11. CASE FinalAck
  BY <1>11 DEF FinalAck
<1>12. CASE MigrationFails
  BY <1>12 DEF MigrationFails
<1>13. CASE ReadFinalAnswer
  BY <1>13 DEF ReadFinalAnswer, Reads
<1>14. CASE Close
  BY <1>14 DEF Close
<1>15. CASE CloseReturns
  BY <1>15 DEF CloseReturns
<1>16. CASE Exits
  BY <1>16 DEF Exits
<1>17. CASE Notifies
  <2>1. wire' \in Notes /\ stage' = StageOf(wire') /\ stage \notin {"over", "unlocking"}
        /\ stage' # "idle" /\ UNCHANGED <<job, phaul, hook, at, heard, dev, ports, clumsy>>
    BY <1>17, NotifiesCases
  <2>2. phaul # "hook" /\ heard \notin Answers
    BY <1>17, NotifiesCases
  <2>3. ~Source => stage \in {"idle", "begun", "created", "restored"}
    BY <1>17, NotifiesCases
  <2>4. Source /\ stage' = "begun" => stage = "idle"
    BY <1>17, NotifiesCases
  <2>. QED
    BY <2>1, <2>2, <2>3, <2>4
<1>18. CASE AnswersFailure
  <2>1. /\ wire \in {"request", "ack"} /\ wire' = "failure" /\ stage' = "over"
        /\ UNCHANGED <<job, phaul, hook, at, heard, dev, ports, clumsy>>
    BY <1>18 DEF AnswersFailure, Asked, Finishes
  <2>2. phaul # "hook" /\ heard \notin Answers
    BY <1>18, <2>1 DEF AnswersFailure
  <2>3. Source /\ job.driver = "lxc" /\ ~clumsy => AllUp
    <3>1. Source /\ job.driver = "lxc" => stage \in {"idle", "begun"} \/ (stage = "unlocking" /\ wire = "ack")
      BY <1>18, <2>1 DEF AnswersFailure, Fails, Jobs
    <3>. QED
      BY <3>1
  <2>. QED
    BY <2>1, <2>2, <2>3
<1>19. CASE AnswersSuccess
  <2>1. /\ wire \in {"request", "ack"} /\ wire' = "success" /\ stage' = "over"
        /\ UNCHANGED <<job, phaul, hook, at, heard, dev, ports, clumsy>>
    BY <1>19 DEF AnswersSuccess, Asked, Finishes
  <2>2. phaul # "hook" /\ stage # "over"
    BY <1>19, <2>1 DEF AnswersSuccess, Succeeds
  <2>3. ~Source /\ job.driver = "lxc" => stage = "unlocking" /\ wire = "ack"
    BY <1>19, <2>1 DEF AnswersSuccess, Succeeds, Jobs
  <2>4. heard \notin Answers
    BY <2>2
  <2>. QED
    BY <2>1, <2>2, <2>3, <2>4
<1>20. CASE Abandons
  BY <1>20 DEF Abandons, Closed, Finishes
<1>21. CASE ThreadDies
  BY <1>21 DEF ThreadDies
<1>22. CASE Killed
  BY <1>22 DEF Killed
<1>23. CASE UNCHANGED vars
  BY <1>23 DEF vars
<1>. QED
  BY <1>1, <1>2, <1>3, <1>4, <1>5, <1>6, <1>7, <1>8, <1>9, <1>10, <1>11, <1>12, <1>13,
     <1>14, <1>15, <1>16, <1>17, <1>18, <1>19, <1>20, <1>21, <1>22, <1>23
     DEF Next, LoopStep, EndStep, CriuStep

-----------------------------------------------------------------------------
(* A session begins in a state of the inductive invariant. *)
LEMMA SessionInit == Init => TypeOK /\ SessionInv
<1>. SUFFICES ASSUME Init PROVE TypeOK /\ SessionInv
  OBVIOUS
<1>1. TypeOK
  <2>1. /\ job \in Jobs /\ phaul \in InLoop /\ hook = "none" /\ heard = "none"
        /\ wire = "none" /\ stage = "idle" /\ clumsy \in BOOLEAN
        /\ tasks = (IF Source THEN "running" ELSE "absent")
    BY DEF Init, InLoop
  <2>2. at \in 1..Len(Links) + 1
    BY VethsFacts DEF Init
  <2>3. dev \in [Veths -> {"up", "down"}] /\ ports \in [Veths -> 0..1]
    BY DEF Init
  <2>. QED
    BY <2>1, <2>2, <2>3 DEF TypeOK
<1>2. TurnTaken /\ TasksInStep
  BY DEF Init, TurnTaken, TasksInStep, Notes, Answers, Source
<1>3. DevicesInStep
  BY VethsFacts DEF Init, DevicesInStep, AllUp, Unlocked, Source
<1>. QED
  BY <1>1, <1>2, <1>3 DEF SessionInv

(* The inductive invariant, with the types: whose turn it is, the tasks by CRIU's
   stage, and the devices by how far the hooks have got. *)
THEOREM SessionInvariant == Spec => [](TypeOK /\ SessionInv)
<1>1. TypeOK /\ SessionInv /\ [Next]_vars => TypeOK' /\ SessionInv'
  BY TypeStep, TurnStep, TasksStep, DevicesStep DEF SessionInv
<1>. QED
  BY <1>1, SessionInit, PTL DEF Spec

(* A tree that runs on the source has its network, whatever the number of veths,
   but for commands that failed unnoticed and a p.haul that left the loop. *)
THEOREM SessionNetworkKept == Spec => []NetworkKept
<1>1. TypeOK /\ SessionInv => NetworkKept
  <2>. SUFFICES ASSUME TypeOK, SessionInv, Source, tasks = "running", ~clumsy,
                       phaul \in InLoop \/ heard = "failure"
                PROVE  AllUp
    BY DEF NetworkKept
  <2>1. CASE job.driver # "lxc"
    BY <2>1 DEF SessionInv, DevicesInStep
  <2>2. CASE job.driver = "lxc" /\ heard = "failure"
    BY <2>2 DEF SessionInv, DevicesInStep
  <2>3. CASE job.driver = "lxc" /\ phaul \in InLoop
    <3>1. CASE stage \in {"idle", "begun"}
      BY <2>3, <3>1 DEF SessionInv, DevicesInStep
    <3>2. CASE stage = "over"
      <4>1. phaul = "waits" /\ wire \in Answers \cup Notes \cup {"request", "ack"}
        BY <2>3, <3>2 DEF SessionInv, TurnTaken, StageOf, HookNotes, InLoop, TypeOK
      <4>2. wire = "failure"
        BY <3>2, <4>1 DEF SessionInv, TurnTaken, TasksInStep, StageOf, HookNotes, Answers, Notes
      <4>. QED
        BY <2>3, <4>2 DEF SessionInv, DevicesInStep
    <3>3. CASE stage \in {"locking", "locked", "dumped", "unlocking"}
      BY <3>3 DEF SessionInv, TasksInStep
    <3>4. stage \notin {"created", "restored"}
      BY <2>3 DEF SessionInv, TurnTaken, TypeOK, InLoop, HookNotes, StageOf, Notes, Answers
    <3>. QED
      BY <3>1, <3>2, <3>3, <3>4 DEF TypeOK
  <2>. QED
    BY <2>1, <2>2, <2>3
<1>. QED
  BY <1>1, SessionInvariant, PTL

(* Every device of a restored tree is up and was added to its bridge once. *)
THEOREM SessionBridgedOnce == Spec => []BridgedOnce
<1>1. TypeOK /\ SessionInv => BridgedOnce
  BY VethsFacts DEF TypeOK, SessionInv, DevicesInStep, BridgedOnce, Unlocked, AllUp
<1>. QED
  BY <1>1, SessionInvariant, PTL

(* Only a hook of pid or runc makes a failure of a restore that succeeded. *)
THEOREM SessionMisreported == Spec => []MisreportedByHook
<1>1. SessionInv => MisreportedByHook
  BY DEF SessionInv, TasksInStep, MisreportedByHook
<1>. QED
  BY <1>1, SessionInvariant, PTL

-----------------------------------------------------------------------------
(* Every step of a session is a step of the dump that LiveMigration takes as one,
   or none of its business. *)
LEMMA DumpRefined ==
    ASSUME TypeOK, SessionInv, NetworkKept, [Next]_vars
    PROVE  [D!Next]_(D!vars)
<1> USE DEF sideVars, criuVars, netVars
<1>0. job' = job
  <2>1. Notifies => job' = job
    BY DEF Notifies
  <2>. QED
    BY <2>1 DEF Next, LoopStep, EndStep, CriuStep, Request, MountRaises, ReadNotify, PostDump,
       HookRaises, NetLock, NetUnlock, AckNotify, ReadAnswer, Restored, FinalAck,
       MigrationFails, ReadFinalAnswer, Close, CloseReturns, Exits, AnswersFailure,
       AnswersSuccess, Abandons, Finishes, ThreadDies, Killed, vars
<1>1. CASE ~Source
  BY <1>0, <1>1 DEF D!vars, Phase, Source
<1>2. CASE Source
  <2>0. Source'
    BY <1>0, <1>2 DEF Source
  <2>1. ASSUME phaul \in InLoop, phaul' \in InLoop
        PROVE  UNCHANGED D!vars
    BY <2>1 DEF D!vars, Phase
  <2>2. CASE \/ Request \/ ReadNotify \/ NetLock \/ NetUnlock \/ AckNotify \/ UNCHANGED vars
             \/ (phaul \in InLoop /\ CriuStep)
    <3>1. (phaul \in InLoop /\ phaul' \in InLoop) \/ UNCHANGED vars
      BY <2>2, NotifiesCases DEF Request, ReadNotify, NetLock, NetUnlock, HasVeths, AckNotify,
         CriuStep, AnswersFailure, AnswersSuccess, Abandons, Finishes, InLoop
    <3>2. CASE UNCHANGED vars
      BY <3>2 DEF vars, D!vars, Phase, Source, AllUp
    <3>. QED
      BY <2>1, <3>1, <3>2
  <2>3. CASE MountRaises \/ Restored \/ ThreadDies
    BY <1>2, <2>3 DEF MountRaises, Restored, ThreadDies, SessionInv, TurnTaken
  <2>4. CASE PostDump
    <3>1. Phase = "before" /\ Phase' = "held"
      BY <1>2, <2>0, <2>4 DEF PostDump, Phase, InLoop
    <3>2. tasks' = "frozen"
      BY <1>2, <2>4 DEF PostDump, LeavesLoop, SessionInv, TurnTaken, TasksInStep, StageOf, Notes
    <3>. QED
      BY <3>1, <3>2 DEF D!Next, D!Holds
  <2>5. CASE HookRaises
    <3>1. Phase = "before" /\ Phase' = "over"
      BY <1>2, <2>0, <2>5 DEF HookRaises, Phase, InLoop, SessionInv, TurnTaken
    <3>2. tasks' = "frozen"
      BY <1>2, <2>5 DEF HookRaises, NoSuchMethod, NetHook, SessionInv, TurnTaken, TasksInStep,
         StageOf
    <3>. QED
      BY <3>1, <3>2 DEF D!Next, D!BreaksOff
  <2>6. CASE ReadAnswer
    <3>1. Phase = "before" /\ Phase' = "over"
      BY <1>2, <2>0, <2>6 DEF ReadAnswer, Reads, Phase, InLoop
    <3>2. tasks = "running" /\ tasks' = tasks
      BY <1>2, <2>6 DEF ReadAnswer, Reads, Answers, SessionInv, TasksInStep
    <3>3. clumsy' \/ AllUp'
      BY <1>2, <2>6, <3>2 DEF ReadAnswer, NetworkKept, InLoop, AllUp
    <3>. QED
      BY <3>1, <3>2, <3>3 DEF D!Next, D!Fails
  <2>7. CASE Killed
    <3>1. phaul' = "gone" /\ UNCHANGED <<wire, stage, tasks, dev, clumsy>>
      BY <2>7 DEF Killed
    <3>2. CASE phaul \in InLoop
      <4>1. Phase = "before" /\ Phase' = "over"
        <5>1. ~(stage = "dumped" /\ wire = "ack")
          BY <1>2, <3>2 DEF SessionInv, TurnTaken, InLoop, HookNotes, StageOf
        <5>. QED
          BY <1>2, <2>0, <3>1, <3>2, <5>1 DEF Phase, InLoop
      <4>2. CASE tasks = "frozen"
        BY <3>1, <4>1, <4>2 DEF D!Next, D!BreaksOff
      <4>3. CASE tasks = "running"
        <5>1. clumsy' \/ AllUp'
          BY <1>2, <3>1, <3>2, <4>3 DEF NetworkKept, AllUp
        <5>. QED
          BY <3>1, <4>1, <4>3, <5>1 DEF D!Next, D!Fails
      <4>4. tasks \in {"frozen", "running"}
        <5>1. CASE stage = "over"
          BY <1>2, <3>2, <5>1 DEF SessionInv, TurnTaken, TasksInStep, StageOf, HookNotes,
             InLoop, Answers, Notes, TypeOK
        <5>2. CASE stage # "over"
          BY <1>2, <3>2, <5>2 DEF SessionInv, TurnTaken, TasksInStep, StageOf, HookNotes,
             InLoop, Answers, Notes, TypeOK
        <5>. QED
          BY <5>1, <5>2
      <4>. QED
        BY <4>2, <4>3, <4>4
    <3>3. CASE phaul = "held"
      <4>1. Phase = "held" /\ Phase' = "over" /\ tasks = "frozen"
        BY <1>2, <2>0, <3>1, <3>3 DEF Phase, InLoop, SessionInv, TurnTaken, TasksInStep
      <4>2. D!Lets("frozen")
        BY <3>1, <4>1 DEF D!Lets, AllUp
      <4>. QED
        BY <4>2 DEF D!Next
    <3>4. CASE phaul \notin InLoop \cup {"held"}
      BY <1>2, <2>0, <3>1, <3>4 DEF Phase, InLoop, D!vars, AllUp
    <3>. QED
      BY <3>2, <3>3, <3>4
  <2>8. CASE FinalAck
    BY <1>2, <2>0, <2>8 DEF FinalAck, Phase, InLoop, SessionInv, TurnTaken, D!vars, AllUp
  <2>9. CASE MigrationFails
    <3>1. Phase = "held" /\ Phase' = "over" /\ tasks = "frozen"
      BY <1>2, <2>0, <2>9 DEF MigrationFails, Phase, InLoop, SessionInv, TurnTaken, TasksInStep
    <3>2. D!Lets("frozen")
      BY <2>9, <3>1 DEF MigrationFails, D!Lets, AllUp
    <3>. QED
      BY <3>2 DEF D!Next
  <2>10. CASE ReadFinalAnswer \/ Close \/ CloseReturns \/ Exits
    <3>1. /\ phaul \notin InLoop \cup {"held"} /\ phaul' \notin InLoop \cup {"held"}
          /\ UNCHANGED <<stage, tasks, dev, clumsy>>
          /\ wire' = wire \/ (wire # "ack" /\ wire' # "ack")
      BY <1>2, <2>10 DEF ReadFinalAnswer, Reads, Close, CloseReturns, Exits, InLoop, Notes, Answers
    <3>. QED
      BY <1>2, <2>0, <3>1 DEF Phase, D!vars, AllUp
  <2>11. CASE phaul \notin InLoop /\ Notifies
    <3>1. wire = "ack" /\ phaul = "acks" /\ stage = "dumped"
      BY <1>2, <2>11, NotifiesCases DEF SessionInv, TurnTaken, InLoop, TypeOK
    <3>2. /\ wire' \in Notes /\ stage' # "begun"
          /\ UNCHANGED <<phaul, dev, clumsy>> /\ tasks' = "frozen"
      BY <1>2, <2>11, <3>1, NotifiesCases
    <3>3. Phase = "held" /\ Phase' = "over"
      BY <1>2, <2>0, <3>1, <3>2 DEF Phase, InLoop, Notes
    <3>4. D!Lets("frozen")
      BY <3>2, <3>3 DEF D!Lets, AllUp
    <3>. QED
      BY <3>4 DEF D!Next
  <2>12. CASE phaul \notin InLoop /\ (AnswersFailure \/ AnswersSuccess \/ Abandons)
    <3>1. /\ phaul \notin InLoop \cup {"held"} /\ stage # "over" /\ wire' # "ack"
          /\ UNCHANGED <<phaul, dev, clumsy>>
          /\ tasks' = "running" \/ (tasks' = "gone" /\ stage = "dumped" /\ wire = "ack")
      BY <1>2, <2>12 DEF AnswersFailure, AnswersSuccess, Abandons, Asked, Closed, Succeeds,
         Finishes, SessionInv, TurnTaken
    <3>2. Phase' = "over" /\ AllUp' = AllUp
      BY <1>2, <2>0, <3>1 DEF Phase, AllUp
    <3>3. CASE stage = "dumped" /\ wire = "ack"
      <4>1. Phase = "held"
        BY <1>2, <3>1, <3>3 DEF Phase
      <4>2. D!Lets("running") \/ D!Kills
        BY <3>1, <3>2, <4>1 DEF D!Lets, D!Kills
      <4>. QED
        BY <4>2 DEF D!Next
    <3>4. CASE ~(stage = "dumped" /\ wire = "ack")
      <4>1. Phase = "over" /\ tasks' = "running"
        BY <1>2, <3>1, <3>4 DEF Phase
      <4>2. tasks \in {"running", "frozen"}
        BY <1>2, <3>1 DEF SessionInv, TasksInStep, TypeOK, TurnTaken
      <4>3. CASE tasks = "running"
        BY <3>1, <3>2, <4>1, <4>3 DEF D!vars
      <4>4. CASE tasks = "frozen"
        BY <3>1, <3>2, <4>1, <4>4 DEF D!Next, D!Thaws
      <4>. QED
        BY <4>2, <4>3, <4>4
    <3>. QED
      BY <3>3, <3>4
  <2>. QED
    BY <2>2, <2>3, <2>4, <2>5, <2>6, <2>7, <2>8, <2>9, <2>10, <2>11, <2>12
       DEF Next, LoopStep, EndStep, CriuStep
<1>. QED
  BY <1>1, <1>2

(* The loop and the code behind it implement the final dump as LiveMigration sees
   it: the safety half of DumpImplemented. *)
THEOREM SessionDump == Spec => D!Spec
<1>1. Init => D!Init
  BY DEF Init, D!Init, Phase, InLoop, Source
<1>. QED
  BY <1>1, DumpRefined, SessionInvariant, SessionNetworkKept, PTL DEF Spec, D!Spec
=============================================================================

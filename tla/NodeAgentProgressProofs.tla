---------------------- MODULE NodeAgentProgressProofs -----------------------
(***************************************************************************)
(* Which containers run, and what becomes of the sessions in them. As long *)
(* as the forced removals whose errors Runtime.Start ignores do succeed, a *)
(* running container is always owned by the service's durable assignment,  *)
(* so a sealed workspace has no running server. When, besides, the control *)
(* plane issues one assignment of a service at a time, the session of an   *)
(* assignment that was reported started is never destroyed, the revision   *)
(* at the head of a service continues the earlier ones, and it carries the *)
(* sessions of the assignments that were reported started.                 *)
(***************************************************************************)
EXTENDS NodeAgentProofs

\* A leaf is tried with Zenon, then with the SMT solver.
USE ZenonT(5), SMTT(15)

-----------------------------------------------------------------------------
(* Running containers are owned *)

Owned(s) == /\ mem.active[s].asg = container[s].asg
            /\ mem.active[s].phase \in {"starting", "running"}

\* After reconciliation every running container is owned, and one whose
\* assignment is still starting belongs to the Start in progress.
RunningOwned ==
    pc # "reconcile" => \A s \in Service : container[s].run =>
        /\ Owned(s)
        /\ mem.active[s].phase = "starting" => pc = "waitNew" /\ s = cmd.svc

\* What a restart will read: an entry that matches a running container is not
\* one of a stopped assignment, for which Reconcile does nothing.
DurablyOwned ==
    \A s \in Service :
        container[s].run /\ disk.active[s].asg = container[s].asg =>
            disk.active[s].phase \in {"starting", "running"}

\* What Execute knows about the entry and the container at each position.
AtPosition ==
    /\ pc # "waitOld"
    /\ pc \in {"dockerStart", "waitNew"} => Act.asg = cmd.asg /\ Act.phase = "starting"
    /\ pc = "setStarting" => Act.phase \in {"none", "stopped"}
    /\ pc = "setStopped" => ~Box.run
    /\ pc \in {"publish", "syncDone"} => Act.phase = "stopped"

\* Inductive strengthening of SealOnlyWhenStopped and RunningIsOwned.
OwnedInv == RunningOwned /\ DurablyOwned /\ AtPosition

-----------------------------------------------------------------------------
(* Shapes of steps *)

\* No container is started, nor does a running one change its label.
NothingStarts ==
    \A s \in Service : container'[s].run =>
        container[s].run /\ container'[s].asg = container[s].asg

\* A step that writes no entry and starts nothing; a Start that gives up has
\* removed its container.
LEMMA OwnedQuiet ==
    ASSUME OwnedInv, pc # "reconcile", UNCHANGED store, NothingStarts,
           pc = "waitNew" => ~container'[cmd.svc].run
    PROVE  RunningOwned' /\ DurablyOwned'
BY DEF OwnedInv, RunningOwned, DurablyOwned, Owned, NothingStarts, store

\* A step that writes the entry of the command's service: a container that still
\* runs after it is the running assignment the entry names.
LEMMA OwnedWrite ==
    ASSUME TypeOK, OwnedInv, Processing, NothingStarts, NEW a \in Active,
           container'[cmd.svc].run => a.asg = container[cmd.svc].asg /\ a.phase = "running",
           NEW m, m.active = [mem.active EXCEPT ![cmd.svc] = a],
           NEW ok \in BOOLEAN, Persist(m, ok)
    PROVE  RunningOwned' /\ DurablyOwned'
<1>1. cmd.svc \in Service /\ pc # "reconcile"
  BY TypeParts, CommandType DEF Processing
<1>2. mem.active \in [Service -> Active]
  BY DEF TypeOK, Store
<1>3. /\ mem'.active[cmd.svc] = a
      /\ \A s \in Service : s # cmd.svc => mem'.active[s] = mem.active[s]
  BY <1>1, <1>2 DEF Persist
<1>4. ASSUME NEW s \in Service, container'[s].run
      PROVE  Owned(s)' /\ mem'.active[s].phase = "running"
  <2>1. CASE s = cmd.svc
    BY <1>3, <1>4, <2>1 DEF NothingStarts, Owned
  <2>2. CASE s # cmd.svc
    BY <1>1, <1>3, <1>4, <2>2 DEF NothingStarts, Owned, OwnedInv, RunningOwned
  <2> QED
    BY <2>1, <2>2
<1>5. RunningOwned'
  BY <1>4 DEF RunningOwned
<1>6. DurablyOwned'
  <2>1. CASE ok
    BY <1>4, <2>1 DEF DurablyOwned, Persist
  <2>2. CASE ~ok
    BY <2>2 DEF DurablyOwned, OwnedInv, NothingStarts, Persist
  <2> QED
    BY <2>1, <2>2
<1> QED
  BY <1>5, <1>6

\* Commit, likewise; afterwards Process is past Execute or has returned.
LEMMA OwnedCommit ==
    ASSUME TypeOK, OwnedInv, Processing, NothingStarts, NEW r, NEW a \in Active,
           container'[cmd.svc].run => a.asg = container[cmd.svc].asg /\ a.phase = "running",
           Commit(r, a)
    PROVE  OwnedInv'
<1>1. PICK ok \in BOOLEAN : /\ Persist(WithResult(cmd, r, a), ok)
                            /\ IF ok THEN Finish("decide", r) ELSE Return
  BY DEF Commit
<1>2. WithResult(cmd, r, a).active = [mem.active EXCEPT ![cmd.svc] = a]
  BY DEF WithResult
<1>3. RunningOwned' /\ DurablyOwned'
  BY <1>1, <1>2, OwnedWrite
<1>4. AtPosition'
  BY <1>1 DEF AtPosition, Finish, Return
<1> QED
  BY <1>3, <1>4 DEF OwnedInv

\* A step with no new container at all starts nothing.
LEMMA SameContainers ==
    ASSUME container' = container
    PROVE  NothingStarts
BY DEF NothingStarts

\* With working removals an ignored removal leaves no container behind.
LEMMA RemovalWorks ==
    ASSUME ~RemoveMayFail, TypeOK, Processing, RemoveIgnoringError
    PROVE  NothingStarts /\ ~container'[cmd.svc].run
<1>1. container' = [container EXCEPT ![cmd.svc] = NoContainer] /\ cmd.svc \in Service
  BY TypeParts, CommandType DEF RemoveIgnoringError
<1>2. container \in [Service -> Container] /\ ~NoContainer.run
  BY DEF TypeOK, NoContainer
<1> QED
  BY <1>1, <1>2 DEF NothingStarts

\* Outside the health wait of its own Start, a running container of the command's
\* service belongs to a running entry.
LEMMA BoxIsRunning ==
    ASSUME TypeOK, OwnedInv, Processing, pc # "waitNew"
    PROVE  Box.run => Act.asg = Box.asg /\ Act.phase = "running"
<1>1. cmd.svc \in Service /\ pc # "reconcile"
  BY TypeParts, CommandType DEF Processing
<1> QED
  BY <1>1 DEF OwnedInv, RunningOwned, Owned, Act, Box

-----------------------------------------------------------------------------
(* The steps *)

\* RestoreAndStart starts a container only under its own starting entry, and
\* deletes or replaces that entry only when the container is gone or healthy.
LEMMA OwnedStart ==
    ASSUME ~RemoveMayFail, TypeOK, InSync, OwnedInv, StartSteps
    PROVE  OwnedInv'
<1>0. Processing
  BY DEF StartSteps, StartRefused, StartAlreadyRunning, StartResume, Restore,
         RestoreFail, SetStarting, RestoreTailFail, StartInvalid,
         StartForeignContainer, StartExisting, StartNew, StartFail, HealthOK,
         HealthTerminal, HealthError, Executing, Restoring, Waiting, Processing
<1>1. /\ cmd.svc \in Service /\ cmd.asg \in Assignment /\ Act \in Active
      /\ NoActive \in Active /\ pc # "reconcile" /\ AtPosition
      /\ ActiveAs(cmd.asg, "starting") \in Active /\ ActiveAs(cmd.asg, "running") \in Active
  BY <1>0, TypeParts, CommandType, ActType, ActiveTypes DEF Processing, OwnedInv
<1>2. CASE StartRefused \/ StartAlreadyRunning
  <2>1. PICK r : Commit(r, Act)
    BY <1>2 DEF StartRefused, StartAlreadyRunning
  <2>2. container' = container /\ pc # "waitNew"
    BY <1>2 DEF StartRefused, StartAlreadyRunning, Executing, host
  <2>3. container'[cmd.svc].run => Act.asg = container[cmd.svc].asg /\ Act.phase = "running"
    BY <1>0, <2>2, BoxIsRunning DEF Box
  <2> QED
    BY <1>0, <1>1, <2>1, <2>2, <2>3, SameContainers, OwnedCommit
<1>3. CASE StartResume \/ Restore
  <2>1. /\ container' = container /\ UNCHANGED store /\ pc = "execute"
        /\ Act.phase = "starting" => Act.asg = cmd.asg
        /\ \/ Goto("dockerStart") /\ Act.phase = "starting"
           \/ Goto("setStarting") /\ Act.phase \in {"none", "stopped"}
    BY <1>3 DEF StartResume, Restore, Restoring, Executing, OtherAssignmentActive, host, store
  <2>2. RunningOwned' /\ DurablyOwned'
    BY <1>1, <2>1, SameContainers, OwnedQuiet
  <2>3. AtPosition'
    BY <2>1 DEF AtPosition, Goto, Act, Box, store
  <2> QED
    BY <2>2, <2>3 DEF OwnedInv
<1>4. CASE RestoreFail \/ RestoreTailFail \/ StartForeignContainer
  <2>1. /\ container' = container /\ UNCHANGED store /\ Return /\ pc # "waitNew"
    BY <1>4 DEF RestoreFail, RestoreTailFail, StartForeignContainer, Restoring, Executing,
                host, store
  <2> QED
    BY <1>1, <2>1, SameContainers, OwnedQuiet DEF OwnedInv, AtPosition, Return
<1>5. CASE SetStarting
  <2>1. PICK ok \in BOOLEAN :
           /\ Persist(WithActive(cmd.svc, ActiveAs(cmd.asg, "starting")), ok)
           /\ IF ok THEN Goto("dockerStart") ELSE Return
    BY <1>5 DEF SetStarting
  <2>2. container' = container /\ ~container[cmd.svc].run
    BY <1>0, <1>1, <1>5, BoxIsRunning DEF SetStarting, host, AtPosition, Box
  <2>3. WithActive(cmd.svc, ActiveAs(cmd.asg, "starting")).active
            = [mem.active EXCEPT ![cmd.svc] = ActiveAs(cmd.asg, "starting")]
    BY DEF WithActive
  <2>4. RunningOwned' /\ DurablyOwned'
    BY <1>0, <1>1, <2>1, <2>2, <2>3, SameContainers, OwnedWrite
  <2>5. mem'.active[cmd.svc] = ActiveAs(cmd.asg, "starting")
    BY <1>1, <2>1, <2>3 DEF Persist, TypeOK, Store
  <2>6. AtPosition'
    BY <2>1, <2>5 DEF AtPosition, Goto, Return, Act, Box, ActiveAs
  <2> QED
    BY <2>4, <2>6 DEF OwnedInv
<1>6. CASE StartInvalid
  <2>1. ~container[cmd.svc].run
    BY <1>0, <1>1, <1>6, BoxIsRunning DEF StartInvalid, AtPosition, Box
  <2>2. NothingStarts /\ ~container'[cmd.svc].run
    <3>1. PICK c \in {Box, NoContainer} : container' = [container EXCEPT ![cmd.svc] = c]
      BY <1>6 DEF StartInvalid
    <3>2. ~c.run
      BY <2>1, <3>1 DEF Box, NoContainer
    <3> QED
      BY <1>1, <3>1, <3>2 DEF NothingStarts, TypeOK
  <2> QED
    BY <1>0, <1>1, <1>6, <2>2, OwnedCommit DEF StartInvalid
<1>7. CASE StartExisting
  BY <1>0, <1>1, <1>7, BoxIsRunning DEF StartExisting, AtPosition
<1>8. CASE StartNew
  <2>1. /\ container' = [container EXCEPT ![cmd.svc] = [asg |-> cmd.asg, run |-> TRUE]]
        /\ pc = "dockerStart" /\ Goto("waitNew") /\ UNCHANGED store
    BY <1>8 DEF StartNew, store
  <2>2. /\ container'[cmd.svc].asg = cmd.asg
        /\ \A s \in Service : s # cmd.svc => container'[s] = container[s]
    BY <1>1, <2>1 DEF TypeOK
  <2>3. Act.asg = cmd.asg /\ Act.phase = "starting"
    BY <1>1, <2>1 DEF AtPosition
  <2>4. AtPosition'
    BY <2>1, <2>3 DEF AtPosition, Goto, Act, store
  <2>5. DurablyOwned'
    BY <1>1, <2>1, <2>2, <2>3 DEF InSync, OwnedInv, DurablyOwned, Act, store
  <2>6. RunningOwned'
    BY <1>1, <2>1, <2>2, <2>3 DEF OwnedInv, RunningOwned, Owned, Act, Goto, store
  <2> QED
    BY <2>4, <2>5, <2>6 DEF OwnedInv
<1>9. CASE StartFail
  <2>1. NothingStarts /\ UNCHANGED store /\ Return /\ pc = "dockerStart"
    <3>1. CASE container' = container
      BY <1>9, <3>1, SameContainers DEF StartFail, store
    <3>2. CASE container' = [container EXCEPT ![cmd.svc] = NoContainer]
      BY <1>1, <1>9, <3>2 DEF StartFail, store, NothingStarts, NoContainer, TypeOK
    <3> QED
      BY <1>9, <3>1, <3>2 DEF StartFail
  <2> QED
    BY <1>1, <2>1, OwnedQuiet DEF OwnedInv, AtPosition, Return
<1>10. CASE HealthOK
  <2>1. container' = container /\ pc = "waitNew" /\ Box.run
    BY <1>1, <1>10 DEF HealthOK, Waiting, AtPosition, host
  <2>2. Box.asg = cmd.asg
    BY <1>1, <2>1 DEF OwnedInv, RunningOwned, Owned, AtPosition, Act, Box
  <2>3. /\ ActiveAs(cmd.asg, "running").asg = container[cmd.svc].asg
        /\ ActiveAs(cmd.asg, "running").phase = "running"
    BY <2>2 DEF ActiveAs, Box
  <2> QED
    BY <1>0, <1>1, <1>10, <2>1, <2>3, SameContainers, OwnedCommit DEF HealthOK
<1>11. CASE HealthTerminal
  <2>1. NothingStarts /\ ~container'[cmd.svc].run
    BY <1>0, <1>1, <1>11, RemovalWorks DEF HealthTerminal, Waiting, AtPosition, CleanUpStart
  <2> QED
    BY <1>0, <1>1, <1>11, <2>1, OwnedCommit DEF HealthTerminal
<1>12. CASE HealthError
  <2>1. NothingStarts /\ ~container'[cmd.svc].run
    BY <1>0, <1>1, <1>12, RemovalWorks DEF HealthError, Waiting, AtPosition, CleanUpStart
  <2>2. RunningOwned' /\ DurablyOwned'
    BY <1>1, <1>12, <2>1, OwnedQuiet DEF HealthError, store
  <2> QED
    BY <1>12, <2>2 DEF OwnedInv, AtPosition, HealthError, Return
<1> QED
  BY <1>2, <1>3, <1>4, <1>5, <1>6, <1>7, <1>8, <1>9, <1>10, <1>11, <1>12 DEF StartSteps

\* StopAndSync marks an assignment stopped only when its container is not running.
LEMMA OwnedStop ==
    ASSUME TypeOK, InSync, OwnedInv, StopSteps
    PROVE  OwnedInv'
<1>0. Processing /\ pc # "waitNew"
  BY DEF StopSteps, StopUnknown, StopMismatch, StopContainer, StopFail, SetStopped,
         StopNotReported, SyncSeal, SyncPublish, SyncFail, SyncCommit, Executing,
         Stopping, AlreadyStopped, Processing
<1>1. /\ cmd.svc \in Service /\ cmd.asg \in Assignment /\ Act \in Active
      /\ NoActive \in Active /\ pc # "reconcile" /\ AtPosition
      /\ ActiveAs(cmd.asg, "stopped") \in Active
  BY <1>0, TypeParts, CommandType, ActType, ActiveTypes DEF Processing, OwnedInv
<1>2. Box.run => Act.asg = Box.asg /\ Act.phase = "running"
  BY <1>0, BoxIsRunning
<1>3. CASE StopUnknown \/ SetStopped
  <2>1. PICK ok \in BOOLEAN :
           /\ Persist(WithActive(cmd.svc, ActiveAs(cmd.asg, "stopped")), ok)
           /\ IF ok THEN Goto("reportStopped") ELSE Return
    BY <1>3 DEF StopUnknown, SetStopped
  <2>2. container' = container /\ ~container[cmd.svc].run
    BY <1>1, <1>2, <1>3 DEF StopUnknown, SetStopped, host, AtPosition, Box
  <2>3. WithActive(cmd.svc, ActiveAs(cmd.asg, "stopped")).active
            = [mem.active EXCEPT ![cmd.svc] = ActiveAs(cmd.asg, "stopped")]
    BY DEF WithActive
  <2>4. RunningOwned' /\ DurablyOwned'
    BY <1>0, <1>1, <2>1, <2>2, <2>3, SameContainers, OwnedWrite
  <2> QED
    BY <2>1, <2>4 DEF OwnedInv, AtPosition, Goto, Return
<1>4. CASE StopMismatch
  <2>1. container' = container /\ Commit("failed", Act)
    BY <1>4 DEF StopMismatch, host
  <2>2. container'[cmd.svc].run => Act.asg = container[cmd.svc].asg /\ Act.phase = "running"
    BY <1>2, <2>1 DEF Box
  <2> QED
    BY <1>0, <1>1, <2>1, <2>2, SameContainers, OwnedCommit
<1>5. CASE StopContainer \/ StopFail
  <2>1. NothingStarts /\ UNCHANGED store
    BY <1>1, <1>5 DEF StopContainer, StopFail, NothingStarts, TypeOK, Container, store
  <2>2. RunningOwned' /\ DurablyOwned'
    BY <1>0, <1>1, <2>1, OwnedQuiet
  <2>3. CASE StopContainer
    <3>1. ~container'[cmd.svc].run
      BY <1>1, <2>3 DEF StopContainer, TypeOK, Container
    <3> QED
      BY <2>2, <2>3, <3>1 DEF OwnedInv, AtPosition, StopContainer, Goto, Box
  <2>4. CASE StopFail
    BY <2>2, <2>4 DEF OwnedInv, AtPosition, StopFail, Return
  <2> QED
    BY <1>5, <2>3, <2>4
<1>6. CASE StopNotReported
  <2>1. PICK ok \in BOOLEAN :
           Persist(mem, ok) /\ IF ok THEN Goto("reportStopped") ELSE Return
    BY <1>6 DEF StopNotReported
  <2>2. container' = container /\ UNCHANGED store
    BY <1>1, <1>6, <2>1 DEF StopNotReported, host, store, Persist, InSync,
           AlreadyStopped, Executing
  <2> QED
    BY <1>0, <1>1, <2>1, <2>2, SameContainers, OwnedQuiet DEF OwnedInv, AtPosition, Goto, Return
<1>7. CASE SyncSeal \/ SyncPublish \/ SyncFail
  <2>1. container' = container /\ UNCHANGED store
    BY <1>7 DEF SyncSeal, SyncPublish, SyncFail, host, store
  <2>2. Return \/ (Act.phase = "stopped" /\ \E p \in {"publish", "syncDone"} : Goto(p))
    BY <1>1, <1>7 DEF SyncSeal, AlreadyStopped, SyncPublish, SyncFail, AtPosition
  <2>3. RunningOwned' /\ DurablyOwned'
    BY <1>0, <1>1, <2>1, SameContainers, OwnedQuiet
  <2>4. AtPosition'
    BY <2>1, <2>2 DEF AtPosition, Goto, Return, Act, store
  <2> QED
    BY <2>3, <2>4 DEF OwnedInv
<1>8. CASE SyncCommit
  <2>1. /\ container' = container /\ ~container'[cmd.svc].run
        /\ Commit("stopped-and-synced", NoActive)
    BY <1>1, <1>2, <1>8 DEF SyncCommit, AtPosition, host, Box
  <2> QED
    BY <1>0, <1>1, <2>1, SameContainers, OwnedCommit
<1> QED
  BY <1>3, <1>4, <1>5, <1>6, <1>7, <1>8 DEF StopSteps

\* Process itself touches no container and writes only the reported flag.
LEMMA OwnedProcess ==
    ASSUME TypeOK, InSync, OwnedInv, ProcessSteps
    PROVE  OwnedInv'
<1>1. ASSUME NEW c \in Command, Deliver(c)
      PROVE  OwnedInv'
  <2>1. container' = container /\ pc = "next"
    BY <1>1 DEF Deliver, host
  <2>2. RunningOwned' /\ DurablyOwned'
    BY <1>1, <2>1 DEF Deliver, Persist, proc, OwnedInv, RunningOwned, DurablyOwned, Owned
  <2>3. AtPosition'
    BY <1>1, <2>1 DEF Deliver, AtPosition, proc
  <2> QED
    BY <2>2, <2>3 DEF OwnedInv
<1>2. CASE \/ ExecuteCached \/ ExecuteLeaseLost \/ DecideLost \/ Decide \/ ReportStopped
           \/ ReportStarted \/ ReportSynced \/ Release \/ ReleaseFail \/ CheckLease \/ Ack
           \/ CredentialRejected
  <2>1. /\ container' = container /\ UNCHANGED store
        /\ pc \in {"execute", "decide"} \cup Reporting \cup {"release", "checkLease"}
        /\ pc' \in {"next", "decide", "markReported", "checkLease", "clearLease", "release"}
                     \cup Reporting
    BY <1>2 DEF ExecuteCached, ExecuteLeaseLost, DecideLost, Decide, ReportStopped,
                ReportStarted, ReportSynced, Release, ReleaseFail, CheckLease, Ack,
                CredentialRejected, host,
                store, proc, Goto, Finish, Return, Reporting
  <2>2. RunningOwned' /\ DurablyOwned'
    BY <2>1, SameContainers, OwnedQuiet DEF Reporting
  <2> QED
    BY <2>1, <2>2 DEF OwnedInv, AtPosition, Reporting
<1>3. CASE MarkReported
  <2>1. PICK ok \in BOOLEAN :
           /\ Persist(WithActive(cmd.svc, [Act EXCEPT !.reported = TRUE]), ok)
           /\ IF ok THEN Goto("execute") ELSE Return
    BY <1>3 DEF MarkReported
  <2>2. Processing /\ pc # "waitNew" /\ Act.phase = "stopped" /\ container' = container
    BY <1>3 DEF MarkReported, Processing, host
  <2>3. ~container'[cmd.svc].run
    BY <2>2, BoxIsRunning DEF Box
  <2>4. [Act EXCEPT !.reported = TRUE] \in Active
    BY <2>2, TypeParts, ActType DEF Active
  <2>5. WithActive(cmd.svc, [Act EXCEPT !.reported = TRUE]).active
            = [mem.active EXCEPT ![cmd.svc] = [Act EXCEPT !.reported = TRUE]]
    BY DEF WithActive
  <2>6. RunningOwned' /\ DurablyOwned'
    BY <2>1, <2>2, <2>3, <2>4, <2>5, SameContainers, OwnedWrite
  <2> QED
    BY <2>1, <2>6 DEF OwnedInv, AtPosition, Goto, Return
<1>4. CASE ClearLease
  <2>1. container' = container /\ UNCHANGED store /\ pc = "clearLease" /\ Return
    BY <1>4 DEF ClearLease, Persist, InSync, host, store
  <2> QED
    BY <2>1, SameContainers, OwnedQuiet DEF OwnedInv, AtPosition, Return
<1> QED
  BY <1>1, <1>2, <1>3, <1>4 DEF ProcessSteps

\* Reconcile re-establishes ownership after a restart; nothing else starts one.
LEMMA OwnedOther ==
    ASSUME TypeOK, InSync, OwnedInv, LeaseSteps \/ RestartSteps \/ Environment
    PROVE  OwnedInv'
<1>1. CASE Renew
  BY <1>1 DEF Renew, Persist, Processing, InSync, host, OwnedInv, RunningOwned, DurablyOwned,
              Owned, AtPosition, Act, Box
<1>2. CASE RenewFail \/ LeaseLapse
  BY <1>2 DEF RenewFail, LeaseLapse, store, host, OwnedInv, RunningOwned, DurablyOwned,
              Owned, AtPosition, Act, Box
<1>3. CASE Crash
  BY <1>3 DEF Crash, host, OwnedInv, RunningOwned, DurablyOwned, AtPosition
<1>4. CASE ReconcileDone
  BY <1>4 DEF ReconcileDone, Orphan, Resumed, Goto, InSync, store, host, OwnedInv,
              RunningOwned, DurablyOwned, Owned, AtPosition
<1>5. ASSUME NEW s \in Service, ReconcileOrphan(s) \/ ContainerExit(s)
      PROVE  OwnedInv'
  <2>1. NothingStarts /\ UNCHANGED store /\ UNCHANGED proc
    BY <1>5 DEF ReconcileOrphan, ContainerExit, NothingStarts, TypeOK, Container, NoContainer,
                store, proc
  <2>2. pc = "setStopped" => cmd.svc \in Service
    BY TypeParts, CommandType DEF Processing
  <2> QED
    BY <2>1, <2>2 DEF NothingStarts, store, proc, OwnedInv, RunningOwned, DurablyOwned, Owned,
                      AtPosition, Act, Box
<1>6. ASSUME NEW s \in Service, ReconcileStarting(s)
      PROVE  OwnedInv'
  <2>1. /\ pc = "reconcile" /\ UNCHANGED <<pc, container>> /\ mem = disk
        /\ disk' = WithActive(s, [mem.active[s] EXCEPT !.phase = "running"])
    BY <1>6 DEF ReconcileStarting, Persist, proc, host, InSync
  <2>2. disk.active \in [Service -> Active]
    BY DEF TypeOK, Store
  <2>3. /\ disk'.active[s].phase = "running"
        /\ \A q \in Service : q # s => disk'.active[q] = disk.active[q]
    BY <2>1, <2>2 DEF WithActive, Active
  <2>4. DurablyOwned'
    BY <2>1, <2>3 DEF OwnedInv, DurablyOwned
  <2> QED
    BY <2>1, <2>4 DEF OwnedInv, RunningOwned, AtPosition
<1>7. ASSUME NEW s \in Service, Play(s)
      PROVE  OwnedInv'
  BY <1>7 DEF Play, store, proc, OwnedInv, RunningOwned, DurablyOwned, Owned, AtPosition,
              Act, Box
<1>8. ASSUME NEW s \in Service, NEW a \in Assignment, IssueStart(s, a) \/ IssueStop(s, a)
      PROVE  OwnedInv'
  BY <1>8 DEF IssueStart, IssueStop, Issue, store, proc, host, OwnedInv, RunningOwned,
              DurablyOwned, Owned, AtPosition, Act, Box
<1> QED
  BY <1>1, <1>2, <1>3, <1>4, <1>5, <1>6, <1>7, <1>8 DEF LeaseSteps, RestartSteps, Environment

\* With working removals the strengthened invariant holds of every run.
LEMMA OwnedInvariant == ASSUME ~RemoveMayFail PROVE Spec => []OwnedInv
<1>1. Init => OwnedInv
  BY DEF Init, NoContainer, OwnedInv, RunningOwned, DurablyOwned, AtPosition
<1>2. TypeOK /\ DurableInv /\ OwnedInv /\ [Next]_vars => OwnedInv'
  <2> SUFFICES ASSUME TypeOK, DurableInv, OwnedInv, [Next]_vars PROVE OwnedInv'
    OBVIOUS
  <2>1. CASE Next
    BY <2>1, OwnedStart, OwnedStop, OwnedProcess, OwnedOther DEF Next, DurableInv
  <2>2. CASE UNCHANGED vars
    BY <2>2 DEF vars, OwnedInv, RunningOwned, DurablyOwned, Owned, AtPosition, Act, Box
  <2> QED
    BY <2>1, <2>2
<1> QED
  BY <1>1, <1>2, TypeCorrect, DurableInvariant, PTL DEF Spec

\* If the forced removals of Runtime.Start succeed, no container of the service
\* runs between the seal of its workspace and the commit of the sync, whatever
\* crashes, failed writes, lost leases and overlapping assignments came before.
THEOREM SealedWorkspaceIsQuiet == ASSUME ~RemoveMayFail PROVE Spec => []SealOnlyWhenStopped
<1>1. TypeOK /\ OwnedInv => SealOnlyWhenStopped
  BY BoxIsRunning DEF OwnedInv, AtPosition, SealOnlyWhenStopped, Processing
<1> QED
  BY <1>1, OwnedInvariant, TypeCorrect, PTL

\* Under the same assumption, a daemon that waits for work leaves no container
\* running that its durable assignment does not own.
THEOREM WaitingDaemonOwnsContainers == ASSUME ~RemoveMayFail PROVE Spec => []RunningIsOwned
<1>1. OwnedInv => RunningIsOwned
  BY DEF OwnedInv, RunningOwned, Owned, RunningIsOwned
<1> QED
  BY <1>1, OwnedInvariant, PTL

-----------------------------------------------------------------------------
(* What a step does to workspaces, sessions and containers *)

HostStep ==
    /\ \/ ws' = ws
       \/ Restore \/ RestoreFail \/ SyncSeal \/ Release \/ ReleaseFail
       \/ \E s \in Service : Play(s)
    /\ saved' = saved \/ \E s \in Service : Play(s)
    /\ NothingStarts \/ StartNew

\* Every step has this shape.
LEMMA HostShape ==
    ASSUME TypeOK, [Next]_vars
    PROVE  HostStep
<1>0. Processing => cmd.svc \in Service /\ Box \in Container
  BY TypeParts, CommandType, BoxType
<1>1. CASE UNCHANGED vars
  BY <1>1, SameContainers DEF vars, HostStep
<1>2. CASE \/ StartRefused \/ StartAlreadyRunning \/ StartResume \/ Restore \/ RestoreFail
           \/ SetStarting \/ RestoreTailFail \/ StartForeignContainer \/ StartExisting
           \/ HealthOK
  <2>1. container' = container
    BY <1>2 DEF StartRefused, StartAlreadyRunning, StartResume, Restore, RestoreFail,
                SetStarting, RestoreTailFail, StartForeignContainer, StartExisting, HealthOK,
                host
  <2>2. saved' = saved
    BY <1>2 DEF StartRefused, StartAlreadyRunning, StartResume, Restore, RestoreFail,
                SetStarting, RestoreTailFail, StartForeignContainer, StartExisting, HealthOK,
                hist
  <2>3. ws' = ws \/ Restore \/ RestoreFail
    BY <1>2 DEF StartRefused, StartAlreadyRunning, StartResume, SetStarting, RestoreTailFail,
                StartForeignContainer, StartExisting, HealthOK, host
  <2> QED
    BY <2>1, <2>2, <2>3, SameContainers DEF HostStep
<1>3. CASE StartInvalid \/ StartFail \/ HealthTerminal \/ HealthError
  <2>1. ws' = ws /\ saved' = saved /\ Processing
    BY <1>3 DEF StartInvalid, StartFail, HealthTerminal, HealthError, hist, Processing, Waiting
  <2>2. \/ container' = container
        \/ \E c \in {NoContainer, Created, Box} : container' = [container EXCEPT ![cmd.svc] = c]
    BY <1>3 DEF StartInvalid, StartFail, HealthTerminal, HealthError, CleanUpStart,
                RemoveIgnoringError
  <2>3. NothingStarts
    BY <1>0, <2>1, <2>2, SameContainers
       DEF NothingStarts, NoContainer, Created, Box, Container, TypeOK
  <2> QED
    BY <2>1, <2>3 DEF HostStep
<1>4. CASE StartNew
  BY <1>4 DEF StartNew, HostStep, hist
<1>5. CASE StopContainer \/ StopFail
  <2>1. ws' = ws /\ saved' = saved /\ Processing
    BY <1>5 DEF StopContainer, StopFail, Stopping, Executing, Processing, hist
  <2>2. NothingStarts
    BY <1>0, <1>5, <2>1 DEF StopContainer, StopFail, NothingStarts, TypeOK, Container
  <2> QED
    BY <2>1, <2>2 DEF HostStep
<1>6. CASE \/ StopUnknown \/ StopMismatch \/ SetStopped \/ StopNotReported \/ SyncSeal
           \/ SyncPublish \/ SyncFail \/ SyncCommit
  <2>1. container' = container /\ saved' = saved
    BY <1>6 DEF StopUnknown, StopMismatch, SetStopped, StopNotReported, SyncSeal, SyncPublish,
                SyncFail, SyncCommit, host, hist
  <2>2. ws' = ws \/ SyncSeal
    BY <1>6 DEF StopUnknown, StopMismatch, SetStopped, StopNotReported, SyncPublish, SyncFail,
                SyncCommit, host
  <2> QED
    BY <2>1, <2>2, SameContainers DEF HostStep
<1>7. CASE ProcessSteps \/ LeaseSteps \/ Crash \/ ReconcileDone
  <2>1. container' = container /\ saved' = saved
    BY <1>7 DEF ProcessSteps, Deliver, ExecuteCached, ExecuteLeaseLost, DecideLost, Decide,
                ReportStopped, MarkReported, ReportStarted, ReportSynced, Release, ReleaseFail,
                CheckLease, Ack, ClearLease, CredentialRejected, LeaseSteps, Renew, RenewFail,
                LeaseLapse, Crash, ReconcileDone, host, hist
  <2>2. ws' = ws \/ Release \/ ReleaseFail
    BY <1>7 DEF ProcessSteps, Deliver, ExecuteCached, ExecuteLeaseLost, DecideLost, Decide,
                ReportStopped, MarkReported, ReportStarted, ReportSynced, CheckLease, Ack,
                ClearLease, CredentialRejected, LeaseSteps, Renew, RenewFail, LeaseLapse, Crash,
                ReconcileDone, host
  <2> QED
    BY <2>1, <2>2, SameContainers DEF HostStep
<1>8. ASSUME NEW s \in Service, ReconcileOrphan(s) \/ ContainerExit(s)
      PROVE  HostStep
  <2>1. NothingStarts /\ ws' = ws /\ saved' = saved
    BY <1>8 DEF ReconcileOrphan, ContainerExit, NothingStarts, NoContainer, TypeOK, Container,
                hist
  <2> QED
    BY <2>1 DEF HostStep
<1>9. ASSUME NEW s \in Service, Play(s)
      PROVE  HostStep
  BY <1>9, SameContainers DEF Play, HostStep
<1>10. ASSUME NEW s \in Service,
              \/ ReconcileStarting(s)
              \/ \E a \in Assignment : IssueStart(s, a) \/ IssueStop(s, a)
       PROVE  HostStep
  <2>1. container' = container /\ ws' = ws /\ saved' = saved
    BY <1>10 DEF ReconcileStarting, IssueStart, IssueStop, Issue, host, hist
  <2> QED
    BY <2>1, SameContainers DEF HostStep
<1> QED
  BY <1>1, <1>2, <1>3, <1>4, <1>5, <1>6, <1>7, <1>8, <1>9, <1>10
     DEF Next, StartSteps, StopSteps, RestartSteps, Environment


-----------------------------------------------------------------------------
(* The progress of an assignment is kept *)

\* The store has an entry of assignment a whose server may have run.
Live(st, s, a) == st.active[s].asg = a /\ st.active[s].phase \in {"starting", "running"}

\* The store shows that assignment a got as far as an entry or a result.
Begun(st, s, a) == \/ st.active[s].asg = a /\ st.active[s].phase # "none"
                   \/ st.results[StartOf(s, a)] # "none"
                   \/ st.results[StopOf(s, a)] # "none"

\* The agent knows assignment a as one that is starting, running or was started.
Holds(s, a) == \/ Live(mem, s, a) \/ Live(disk, s, a)
               \/ mem.results[StartOf(s, a)] = "started"

\* The stop of a is stored, or about to be: its revision is published.
SyncStored(s, a) == \/ mem.results[StopOf(s, a)] # "none"
                    \/ pc = "syncDone" /\ cmd = StopOf(s, a)

InBlob(s, a) == \E m \in blob[s] : a \in m.data

Kept(s, a) == (ws[s].there /\ a \in ws[s].data) \/ InBlob(s, a)

StartedStored ==
    \A s \in Service, a \in Assignment : <<s, a>> \in started =>
        mem.results[StartOf(s, a)] = "started" /\ disk.results[StartOf(s, a)] = "started"

\* Sessions are written, and containers run, only for assignments that have begun.
SavedBegun ==
    \A s \in Service, a \in Assignment : <<s, a>> \in saved =>
        Begun(mem, s, a) /\ Begun(disk, s, a)

RunningBegun ==
    \A s \in Service : container[s].run =>
        LET a == container[s].asg
        IN  Begun(mem, s, a) /\ Begun(disk, s, a) /\ mem.results[StopOf(s, a)] = "none"

\* The sync of a started assignment has put its session into the object store.
SyncedKept ==
    \A s \in Service, a \in Assignment :
        <<s, a>> \in saved /\ mem.results[StartOf(s, a)] = "started" /\ SyncStored(s, a) =>
            InBlob(s, a)

HeldKept ==
    \A s \in Service, a \in Assignment : <<s, a>> \in saved /\ Holds(s, a) => Kept(s, a)

\* Inductive strengthening of ProgressKept.
KeptInv == StartedStored /\ SavedBegun /\ RunningBegun /\ SyncedKept /\ HeldKept

KeptFacts == OrderFacts /\ OwnedInv /\ KeptInv

\* A result appears in memory only when the command in progress commits it.
LEMMA ResultAppears ==
    ASSUME OrderFacts, StoreStep, NEW c \in Command, mem'.results[c] # "none"
    PROVE  \/ mem'.results[c] = mem.results[c]
           \/ /\ Processing /\ c = cmd /\ mem.results[c] = "none" /\ pc \notin AfterExecute
              /\ pc' \in {"decide", "next"} /\ mem'.results[c] \in Status
              /\ \A d \in Command : d # cmd => mem'.results[d] = mem.results[d]
              /\ \E e \in Active : Commits(mem'.results[c], e)
<1>0. TypeOK /\ MemAhead
  BY DEF OrderFacts, OrderInv
<1>1. CASE Rereads
  BY <1>0, <1>1 DEF Rereads, MemAhead
<1>2. ASSUME NEW s \in Service, NEW e, NEW ok, Persist(WithActive(s, e), ok)
      PROVE  mem'.results[c] = mem.results[c]
  BY <1>2 DEF Persist, WithActive
<1>3. ASSUME Processing, NEW ok \in BOOLEAN, NEW r \in Status, NEW e \in Active, Commits(r, e),
             Persist(WithResult(cmd, r, e), ok)
      PROVE  \/ mem'.results[c] = mem.results[c]
             \/ /\ c = cmd /\ mem.results[c] = "none" /\ pc \notin AfterExecute
                /\ mem'.results[c] = r
                /\ \A d \in Command : d # cmd => mem'.results[d] = mem.results[d]
  <2>1. mem' = WithResult(cmd, r, e)
    BY <1>3 DEF Persist
  <2>2. mem.results[cmd] = "none" /\ pc \notin AfterExecute
    BY <1>3, CommitInOrder
  <2>3. /\ mem'.results[cmd] = r
        /\ \A d \in Command : d # cmd => mem'.results[d] = mem.results[d]
    BY <1>0, <1>3, <2>1, CommitValues
  <2> QED
    BY <2>2, <2>3
<1>4. Processing => cmd.svc \in Service
  BY <1>0, TypeParts, CommandType
<1>5. CASE Processing /\ \E ok \in BOOLEAN, e \in Active :
               SetsEntry(e) /\ Persist(WithActive(cmd.svc, e), ok)
  BY <1>2, <1>4, <1>5
<1>6. CASE /\ Processing /\ pc' \in {"decide", "next"}
           /\ \E ok \in BOOLEAN, r \in Status, e \in Active :
                  Commits(r, e) /\ Persist(WithResult(cmd, r, e), ok)
  BY <1>3, <1>6
<1>7. CASE \E s \in Service : ReconcileStarting(s)
  BY <1>2, <1>7 DEF ReconcileStarting
<1> QED
  BY <1>1, <1>5, <1>6, <1>7 DEF StoreStep

\* What has begun stays begun.
LEMMA BegunStays ==
    ASSUME OrderFacts, StoreStep, NEW s \in Service, NEW a \in Assignment,
           Begun(mem, s, a), Begun(disk, s, a)
    PROVE  Begun(mem', s, a) /\ Begun(disk', s, a)
<1>0. TypeOK /\ DurableInv
  BY DEF OrderFacts
<1>1. CASE Rereads
  BY <1>1 DEF Rereads, Begun
<1>2. ASSUME Processing, NEW ok \in BOOLEAN, NEW m, Persist(m, ok), Begun(m, s, a)
      PROVE  Begun(mem', s, a) /\ Begun(disk', s, a)
  BY <1>2 DEF Persist, Begun
<1>3. ASSUME Processing, acked[cmd] = "none", s = cmd.svc, Act.phase # "none", Act.asg = a
      PROVE  a = cmd.asg
  BY <1>3, EntryIsCommands DEF Act
<1>4. ASSUME Processing, NEW ok \in BOOLEAN, NEW e \in Active, SetsEntry(e),
             Persist(WithActive(cmd.svc, e), ok)
      PROVE  Begun(mem', s, a) /\ Begun(disk', s, a)
  <2> DEFINE m == WithActive(cmd.svc, e)
  <2>1. cmd.svc \in Service /\ acked[cmd] = "none" /\ e.asg = cmd.asg /\ e.phase # "none"
    BY <1>0, <1>4, TypeParts, CommandType, WrittenEntry
       DEF DurableInv, NotYetAcked, AfterExecute
  <2>2. /\ m.results = mem.results /\ m.active[cmd.svc] = e
        /\ \A q \in Service : q # cmd.svc => m.active[q] = mem.active[q]
    BY <1>0, <2>1, EntryValues
  <2> HIDE DEF m
  <2>3. Begun(m, s, a)
    BY <1>3, <1>4, <2>1, <2>2 DEF Begun, Act
  <2> QED
    BY <1>2, <1>4, <2>3 DEF m
<1>5. ASSUME Processing, NEW ok \in BOOLEAN, NEW r \in Status, NEW e \in Active, Commits(r, e),
             Persist(WithResult(cmd, r, e), ok)
      PROVE  Begun(mem', s, a) /\ Begun(disk', s, a)
  <2> DEFINE m == WithResult(cmd, r, e)
  <2>1. /\ cmd \in Command /\ cmd.svc \in Service /\ acked[cmd] = "none"
        /\ mem.results[cmd] = "none" /\ r # "none"
    BY <1>0, <1>5, TypeParts, CommandType, CommitInOrder
       DEF DurableInv, NotYetAcked, AfterExecute
  <2>2. /\ m.results[cmd] = r
        /\ \A c \in Command : c # cmd => m.results[c] = mem.results[c]
        /\ \A q \in Service : q # cmd.svc => m.active[q] = mem.active[q]
    BY <1>0, <1>5, CommitValues
  <2> HIDE DEF m
  <2>3. cmd = StartOf(cmd.svc, cmd.asg) \/ cmd = StopOf(cmd.svc, cmd.asg)
    BY <2>1, CommandForms
  <2>4. \A c \in Command : mem.results[c] # "none" => m.results[c] # "none"
    BY <2>1, <2>2
  <2>5. ASSUME mem.active[s].asg = a, mem.active[s].phase # "none"
        PROVE  Begun(m, s, a)
    BY <1>3, <1>5, <2>1, <2>2, <2>3, <2>5 DEF Begun, Act
  <2>6. ASSUME mem.results[StartOf(s, a)] # "none" \/ mem.results[StopOf(s, a)] # "none"
        PROVE  Begun(m, s, a)
    BY <2>4, <2>6, CommandForms DEF Begun
  <2>7. Begun(m, s, a)
    BY <2>5, <2>6 DEF Begun
  <2> QED
    BY <1>2, <1>5, <2>7 DEF m
<1>6. ASSUME NEW q \in Service, ReconcileStarting(q)
      PROVE  Begun(mem', s, a) /\ Begun(disk', s, a)
  <2> DEFINE e == [mem.active[q] EXCEPT !.phase = "running"]
  <2>1. mem' = WithActive(q, e) /\ disk' = mem' /\ e.asg = mem.active[q].asg
        /\ e.phase = "running"
    BY <1>0, <1>6 DEF ReconcileStarting, Persist, TypeOK, Store, Active
  <2> HIDE DEF e
  <2>2. /\ mem'.results = mem.results /\ mem'.active[q] = e
        /\ \A p \in Service : p # q => mem'.active[p] = mem.active[p]
    BY <1>0, <2>1, EntryValues
  <2> QED
    BY <2>1, <2>2 DEF Begun
<1> QED
  BY <1>1, <1>4, <1>5, <1>6 DEF StoreStep

\* An assignment that is being restored has not begun.
LEMMA RestoredIsFresh ==
    ASSUME OrderFacts, OwnedInv, Restoring \/ pc = "setStarting"
    PROVE  /\ Processing /\ acked[cmd] = "none" /\ cmd.kind = "start"
           /\ ~Begun(mem, cmd.svc, cmd.asg) /\ ~Holds(cmd.svc, cmd.asg)
<1>1. /\ TypeOK /\ DurableInv /\ AtCommand /\ AtPosition /\ Processing
      /\ pc \notin AfterExecute /\ cmd.kind = "start"
  BY DEF OrderFacts, OrderInv, OwnedInv, Restoring, Executing, Processing, AfterExecute,
         AtCommand, StartPositions
<1>2. /\ cmd \in Command /\ cmd.svc \in Service /\ cmd.asg \in Assignment
      /\ acked[cmd] = "none" /\ mem = disk
  BY <1>1, TypeParts, CommandType DEF DurableInv, NotYetAcked, InSync, AfterExecute, Processing
<1>3. cmd = StartOf(cmd.svc, cmd.asg)
  BY <1>1, <1>2, CommandForms
<1>4. mem.results[cmd] = "none"
  <2>1. mem.results[cmd] \in {"none", "started", "failed-coded"}
    BY <1>2, <1>3 DEF OrderFacts, OrderInv, ResultsInOrder
  <2>2. pc = "setStarting" => mem.results[cmd] = "none"
    BY <1>1 DEF AtCommand, AfterExecute
  <2> QED
    BY <2>1, <2>2 DEF Restoring, Executing, Cached
<1>5. mem.results[StopOf(cmd.svc, cmd.asg)] = "none"
  BY <1>1 DEF AtCommand
<1>6. Act.phase \in {"none", "stopped"} /\ ~(Act.phase = "stopped" /\ Act.asg = cmd.asg)
  BY <1>1 DEF AtPosition, AtCommand, Restoring
<1> QED
  BY <1>1, <1>2, <1>3, <1>4, <1>5, <1>6 DEF Begun, Holds, Live, Act

\* An assignment is held from the entry that its start writes on.
LEMMA HoldsBefore ==
    ASSUME OrderFacts, OwnedInv, StoreStep, NEW s \in Service, NEW a \in Assignment,
           Holds(s, a)'
    PROVE  Holds(s, a) \/ (pc = "setStarting" /\ cmd = StartOf(s, a))
<1>0. TypeOK /\ DurableInv /\ MemAhead /\ AtPosition
  BY DEF OrderFacts, OrderInv, OwnedInv
<1>1. CASE Rereads
  BY <1>0, <1>1, CommandForms DEF Rereads, Holds, Live, MemAhead
<1>2. ASSUME NEW q \in Service, NEW e, NEW ok \in BOOLEAN, Persist(WithActive(q, e), ok),
             q = s /\ e.asg = a /\ e.phase \in {"starting", "running"} => Live(mem, s, a)
      PROVE  Holds(s, a)
  <2>1. mem' = WithActive(q, e) /\ disk' \in {mem', disk}
    BY <1>2 DEF Persist
  <2>2. /\ mem'.results = mem.results /\ mem'.active[q] = e
        /\ \A p \in Service : p # q => mem'.active[p] = mem.active[p]
    BY <1>0, <2>1, EntryValues
  <2> QED
    BY <1>2, <2>1, <2>2 DEF Holds, Live
<1>3. ASSUME Processing, NEW ok \in BOOLEAN, NEW e \in Active, SetsEntry(e),
             Persist(WithActive(cmd.svc, e), ok)
      PROVE  Holds(s, a) \/ (pc = "setStarting" /\ cmd = StartOf(s, a))
  <2>1. cmd \in Command /\ cmd.svc \in Service
    BY <1>0, <1>3, TypeParts, CommandType
  <2>2. CASE pc = "setStarting"
    <3>1. e.asg = cmd.asg /\ cmd.kind = "start"
      BY <1>3, <2>2, WrittenEntry
         DEF OrderFacts, OrderInv, AtCommand, StartPositions
    <3> QED
      BY <1>2, <1>3, <2>1, <2>2, <3>1, CommandForms
  <2>3. CASE pc # "setStarting"
    <3>1. e.phase = "stopped"
      BY <1>3, <2>3, TypeParts, ActType DEF SetsEntry, ActiveAs, Active, OrderFacts
    <3> QED
      BY <1>2, <1>3, <2>1, <3>1
  <2> QED
    BY <2>2, <2>3
<1>4. ASSUME Processing, NEW ok \in BOOLEAN, NEW r \in Status, NEW e \in Active, Commits(r, e),
             Persist(WithResult(cmd, r, e), ok)
      PROVE  Holds(s, a)
  <2>1. cmd \in Command /\ cmd.svc \in Service /\ cmd.asg \in Assignment
    BY <1>0, <1>4, TypeParts, CommandType
  <2>2. mem' = WithResult(cmd, r, e) /\ disk' \in {mem', disk}
    BY <1>4 DEF Persist
  <2>3. /\ mem'.results[cmd] = r /\ mem'.active[cmd.svc] = e
        /\ \A c \in Command : c # cmd => mem'.results[c] = mem.results[c]
        /\ \A q \in Service : q # cmd.svc => mem'.active[q] = mem.active[q]
    BY <1>0, <1>4, <2>2, CommitValues
  <2>4. r = "started" => Act.asg = cmd.asg /\ Act.phase \in {"starting", "running"}
    BY <1>0, <1>4 DEF Commits, AtPosition
  <2>5. e.phase # "none" => e.asg = cmd.asg /\ r = "started"
    BY <1>4, CommitInOrder
  <2>6. Live(mem, s, a)' => Live(mem, s, a)
    BY <2>3, <2>4, <2>5 DEF Live, Act
  <2>7. mem'.results[StartOf(s, a)] = "started" => Holds(s, a)
    BY <2>1, <2>3, <2>4, CommandForms DEF Holds, Live, Act
  <2> QED
    BY <2>2, <2>6, <2>7 DEF Holds, Live
<1>5. ASSUME NEW q \in Service, ReconcileStarting(q)
      PROVE  Holds(s, a)
  <2> DEFINE e == [mem.active[q] EXCEPT !.phase = "running"]
  <2>1. Persist(WithActive(q, e), TRUE) /\ mem.active[q].phase = "starting"
    BY <1>5 DEF ReconcileStarting, Resumed
  <2>2. e.asg = mem.active[q].asg
    BY <1>0 DEF TypeOK, Store, Active
  <2> HIDE DEF e
  <2> QED
    BY <1>2, <2>1, <2>2 DEF Live
<1> QED
  BY <1>1, <1>3, <1>4, <1>5 DEF StoreStep

\* The session of an earlier assignment of the service is in the object store.
LEMMA EarlierIsKept ==
    ASSUME OrderFacts, SyncedKept, NEW s \in Service, NEW a \in Assignment,
           NEW b \in Assignment, Latest(s, b), a # b, <<s, a>> \in saved, Holds(s, a)
    PROVE  InBlob(s, a)
<1>1. ~Live(mem, s, a) /\ ~Live(disk, s, a)
  BY LatestIsUnique DEF OrderFacts, OrderInv, EntryIsLatest, Live
<1>2. mem.results[StartOf(s, a)] = "started" /\ StartOf(s, a) \in issued
  BY <1>1, CommandForms DEF Holds, OrderFacts, PublishedInv, PublishedResults
<1>3. a < b
  BY <1>2 DEF Latest, Assignment
<1>4. Over(s, a)
  BY <1>3 DEF OrderFacts, OrderInv, IssueOrder, Latest
<1>5. acked[StopOf(s, a)] # "none"
  BY <1>2, <1>4, CommandForms DEF Over, OrderFacts, DurableInv, AckedInStore
<1>6. mem.results[StopOf(s, a)] # "none"
  BY <1>5, CommandForms DEF OrderFacts, DurableInv, AckedInStore
<1> QED
  BY <1>2, <1>6 DEF SyncedKept, SyncStored

\* What a step adds to the recorded sessions.
LEMMA SavedBefore ==
    ASSUME TypeOK, HostStep, NEW s \in Service, NEW a \in Assignment, <<s, a>> \in saved'
    PROVE  \/ <<s, a>> \in saved
           \/ Play(s) /\ container[s].run /\ container[s].asg = a
BY DEF HostStep, Play

\* A started report follows a stored result, and stored results stay.
LEMMA StartedStays ==
    ASSUME KeptFacts, StoreStep, PlaneStep
    PROVE  StartedStored'
<1>0. TypeOK /\ DurableInv /\ AtCommand /\ StartedStored
  BY DEF KeptFacts, OrderFacts, OrderInv, KeptInv
<1>1. \A c \in Command : disk.results[c] # "none" =>
          mem'.results[c] = disk.results[c] /\ disk'.results[c] = disk.results[c]
  BY ResultsOnlyAdded DEF KeptFacts
<1>2. \A s \in Service, a \in Assignment : disk.results[StartOf(s, a)] = "started" =>
          mem'.results[StartOf(s, a)] = "started" /\ disk'.results[StartOf(s, a)] = "started"
  BY <1>1, CommandForms
<1>3. CASE ReportStarted
  <2>1. pc = "reportStarted" /\ started' = started \cup {<<cmd.svc, cmd.asg>>}
    BY <1>3 DEF ReportStarted
  <2>2. /\ cmd \in Command /\ cmd = StartOf(cmd.svc, cmd.asg)
        /\ disk.results[cmd] = "started"
    BY <1>0, <2>1, TypeParts, CommandType, CommandForms
       DEF Processing, DurableInv, InSync, ResultStored, AtCommand, AfterExecute, StartPositions
  <2> QED
    BY <1>0, <1>2, <2>1, <2>2, CommandForms DEF StartedStored
<1>4. CASE started' = started
  BY <1>0, <1>2, <1>4 DEF StartedStored
<1> QED
  BY <1>3, <1>4
     DEF PlaneStep, SyncPublish, ReportSynced, Ack, IssueStart, IssueStop, Issue

\* While a workspace is sealed nothing runs in it.
LEMMA SealedIsQuiet ==
    ASSUME TypeOK, OwnedInv, pc \in {"publish", "syncDone"}
    PROVE  Processing /\ ~container[cmd.svc].run
BY BoxIsRunning DEF OwnedInv, AtPosition, Processing, Box

\* A container that runs, and one that is started, is of a begun assignment.
LEMMA RunningStays ==
    ASSUME KeptFacts, StoreStep, HostStep
    PROVE  RunningBegun'
<1>0. TypeOK /\ OrderFacts /\ OwnedInv /\ RunningBegun /\ AtCommand
  BY DEF KeptFacts, OrderFacts, OrderInv, KeptInv
<1> SUFFICES ASSUME NEW s \in Service, container'[s].run
             PROVE  LET a == container'[s].asg
                    IN  /\ Begun(mem', s, a) /\ Begun(disk', s, a)
                        /\ mem'.results[StopOf(s, a)] = "none"
  BY DEF RunningBegun, Begun
<1> DEFINE a == container'[s].asg
<1>1. CASE container[s].run /\ container'[s].asg = container[s].asg
  <2>1. /\ a \in Assignment /\ Begun(mem, s, a) /\ Begun(disk, s, a)
        /\ mem.results[StopOf(s, a)] = "none"
    BY <1>0, <1>1, ConstantsAssumption DEF TypeOK, Container, RunningBegun, Assignment
  <2> HIDE DEF a
  <2>2. Begun(mem', s, a) /\ Begun(disk', s, a)
    BY <1>0, <2>1, BegunStays
  <2>3. StopOf(s, a) \in Command /\ StopOf(s, a).kind = "stop" /\ StopOf(s, a).svc = s
    BY <2>1, CommandForms
  <2>4. mem'.results[StopOf(s, a)] = "none"
    <3> SUFFICES ASSUME mem'.results[StopOf(s, a)] # "none" PROVE FALSE
      OBVIOUS
    <3>1. PICK e \in Active : /\ Processing /\ cmd = StopOf(s, a)
                              /\ Commits(mem'.results[StopOf(s, a)], e)
                              /\ mem'.results[StopOf(s, a)] \in Status
      BY <1>0, <2>1, <2>3, ResultAppears
    <3>2. cmd.kind = "stop" /\ mem'.results[StopOf(s, a)] = "stopped-and-synced"
      BY <1>0, <2>3, <3>1, CommitInOrder
    <3>3. pc = "syncDone"
      BY <3>1, <3>2 DEF Commits
    <3> QED
      BY <1>0, <1>1, <2>3, <3>1, <3>3, SealedIsQuiet
  <2> QED
    BY <2>2, <2>4 DEF a
<1>2. CASE StartNew /\ s = cmd.svc
  <2>1. /\ pc = "dockerStart" /\ UNCHANGED store
        /\ container' = [container EXCEPT ![cmd.svc] = [asg |-> cmd.asg, run |-> TRUE]]
    BY <1>2 DEF StartNew
  <2>2. a = cmd.asg
    BY <1>0, <1>2, <2>1 DEF TypeOK
  <2>3. /\ Act.asg = cmd.asg /\ Act.phase = "starting" /\ mem = disk
        /\ mem.results[StopOf(cmd.svc, cmd.asg)] = "none"
    BY <1>0, <2>1 DEF OwnedInv, AtPosition, OrderFacts, DurableInv, InSync, AtCommand,
                      StartPositions, Processing
  <2> QED
    BY <1>2, <2>1, <2>2, <2>3 DEF Begun, Act, store
<1>3. CASE StartNew /\ s # cmd.svc
  BY <1>0, <1>1, <1>3 DEF StartNew, TypeOK
<1> QED
  BY <1>1, <1>2, <1>3 DEF HostStep, NothingStarts

\* So is every recorded session.
LEMMA SavedStays ==
    ASSUME KeptFacts, StoreStep, HostStep
    PROVE  SavedBegun'
<1>0. TypeOK /\ OrderFacts /\ RunningBegun /\ SavedBegun
  BY DEF KeptFacts, OrderFacts, KeptInv
<1> SUFFICES ASSUME NEW s \in Service, NEW a \in Assignment, <<s, a>> \in saved'
             PROVE  Begun(mem', s, a) /\ Begun(disk', s, a)
  BY DEF SavedBegun, Begun
<1>1. Begun(mem, s, a) /\ Begun(disk, s, a)
  BY <1>0, SavedBefore DEF RunningBegun, SavedBegun
<1> QED
  BY <1>0, <1>1, BegunStays

\* Publication puts the session into the object store before the sync is stored.
LEMMA SyncedStays ==
    ASSUME KeptFacts, StoreStep, HostStep, PlaneGrows, ControlStep
    PROVE  SyncedKept'
<1>0. /\ TypeOK /\ OrderFacts /\ OwnedInv /\ AtCommand /\ RunningBegun /\ SyncedKept /\ HeldKept
  BY DEF KeptFacts, OrderFacts, OrderInv, KeptInv
<1> SUFFICES ASSUME NEW s \in Service, NEW a \in Assignment, <<s, a>> \in saved',
                    mem'.results[StartOf(s, a)] = "started", SyncStored(s, a)'
             PROVE  InBlob(s, a)'
  BY DEF SyncedKept, SyncStored, InBlob
<1>1. InBlob(s, a) => InBlob(s, a)'
  BY DEF InBlob, PlaneGrows
<1>2. /\ StartOf(s, a) \in Command /\ StopOf(s, a) \in Command
      /\ StartOf(s, a) # StopOf(s, a) /\ StartOf(s, a).kind = "start"
      /\ StartOf(s, a).svc = s /\ StartOf(s, a).asg = a
      /\ StopOf(s, a).svc = s /\ StopOf(s, a).asg = a
  BY CommandForms
<1>3. CASE Play(s) /\ container[s].run /\ container[s].asg = a
  <2>1. mem.results[StopOf(s, a)] = "none"
    BY <1>0, <1>3 DEF RunningBegun
  <2>2. ~(pc = "syncDone" /\ cmd = StopOf(s, a))
    BY <1>0, <1>2, <1>3, SealedIsQuiet
  <2> QED
    BY <1>3, <2>1, <2>2 DEF Play, store, proc, SyncStored
<1>4. CASE <<s, a>> \in saved
  <2>1. mem.results[StartOf(s, a)] = "started"
    <3> SUFFICES ASSUME mem.results[StartOf(s, a)] # "started" PROVE FALSE
      OBVIOUS
    <3>1. /\ Processing /\ cmd = StartOf(s, a) /\ pc' \in {"decide", "next"}
          /\ mem'.results[StopOf(s, a)] = mem.results[StopOf(s, a)]
      BY <1>0, <1>2, ResultAppears
    <3>2. mem.results[StopOf(s, a)] = "none"
      BY <1>0, <1>2, <3>1 DEF AtCommand
    <3> QED
      BY <3>1, <3>2 DEF SyncStored
  <2>2. CASE mem'.results[StopOf(s, a)] # "none"
    <3>1. CASE mem'.results[StopOf(s, a)] = mem.results[StopOf(s, a)]
      BY <1>0, <1>1, <1>4, <2>1, <2>2, <3>1 DEF SyncedKept, SyncStored
    <3>2. CASE mem'.results[StopOf(s, a)] # mem.results[StopOf(s, a)]
      <4>1. PICK e \in Active : /\ Processing /\ cmd = StopOf(s, a)
                                /\ Commits(mem'.results[StopOf(s, a)], e)
                                /\ mem'.results[StopOf(s, a)] \in Status
        BY <1>0, <1>2, <2>2, <3>2, ResultAppears
      <4>2. cmd.kind = "stop" /\ mem'.results[StopOf(s, a)] = "stopped-and-synced"
        BY <1>0, <4>1, CommitInOrder, CommandForms
      <4>3. pc = "syncDone"
        BY <4>1, <4>2 DEF Commits
      <4> QED
        BY <1>0, <1>1, <1>4, <2>1, <4>1, <4>3 DEF SyncedKept, SyncStored
    <3> QED
      BY <3>1, <3>2
  <2>3. CASE pc' = "syncDone" /\ cmd' = StopOf(s, a)
    <3>1. cmd = StopOf(s, a) /\ (pc = "syncDone" \/ SyncPublish)
      BY <2>3 DEF ControlStep, Moves
    <3>2. CASE pc = "syncDone"
      BY <1>0, <1>1, <1>4, <2>1, <3>1, <3>2 DEF SyncedKept, SyncStored
    <3>3. CASE SyncPublish
      <4> DEFINE m == [rev |-> revOf[cmd] + 1, data |-> ws[s].data]
      <4>1. m \in blob'[s] /\ m.data = ws[s].data
        BY <1>0, <1>2, <3>1, <3>3 DEF SyncPublish, TypeOK
      <4>2. Kept(s, a)
        BY <1>0, <1>4, <2>1 DEF HeldKept, Holds
      <4> HIDE DEF m
      <4> QED
        BY <1>1, <4>1, <4>2 DEF Kept, InBlob
    <3> QED
      BY <3>1, <3>2, <3>3
  <2> QED
    BY <2>2, <2>3 DEF SyncStored
<1> QED
  BY <1>0, <1>3, <1>4, SavedBefore

\* Whatever replaces or removes a workspace leaves the progress that is held: a
\* restore is the first step of its assignment, a release comes after the sync.
LEMMA WorkspaceSpared ==
    ASSUME KeptFacts, HostStep, NEW s \in Service, NEW a \in Assignment,
           <<s, a>> \in saved, Holds(s, a), ~InBlob(s, a)
    PROVE  ws'[s].there /\ a \in ws'[s].data
<1>0. /\ TypeOK /\ OrderFacts /\ OwnedInv /\ AtCommand /\ SyncedKept /\ HeldKept /\ SavedBegun
      /\ SyncedStored
  BY DEF KeptFacts, OrderFacts, OrderInv, KeptInv
<1>1. ws[s].there /\ a \in ws[s].data
  BY <1>0 DEF HeldKept, Kept
<1>2. ~Restoring \/ cmd.svc # s
  <2> SUFFICES ASSUME Restoring, cmd.svc = s PROVE FALSE
    OBVIOUS
  <2>1. /\ Processing /\ acked[cmd] = "none" /\ ~Begun(mem, s, cmd.asg)
    BY <1>0, RestoredIsFresh
  <2>2. cmd.asg \in Assignment /\ Latest(s, cmd.asg)
    BY <1>0, <2>1, CommandIsLatest, TypeParts, CommandType
  <2>3. a # cmd.asg
    BY <1>0, <2>1 DEF SavedBegun
  <2> QED
    BY <1>0, <2>2, <2>3, EarlierIsKept
<1>3. pc # "release" \/ cmd.svc # s
  <2> SUFFICES ASSUME pc = "release", cmd.svc = s PROVE FALSE
    OBVIOUS
  <2>1. Processing /\ acked[cmd] = "none"
    BY <1>0 DEF Processing, OrderFacts, DurableInv, NotYetAcked
  <2>2. cmd.asg \in Assignment /\ Latest(s, cmd.asg)
    BY <1>0, <2>1, CommandIsLatest, TypeParts, CommandType
  <2>3. mem.results[StopOf(s, cmd.asg)] # "none" /\ disk.results[StopOf(s, cmd.asg)] # "none"
    BY <1>0, <2>2 DEF AtCommand, SyncedStored
  <2>4. a = cmd.asg
    BY <1>0, <2>2, EarlierIsKept
  <2>5. ~Live(mem, s, a) /\ ~Live(disk, s, a)
    BY <1>0, <2>3, <2>4 DEF OrderFacts, OrderInv, EntryIsLatest, Live
  <2> QED
    BY <1>0, <2>3, <2>4, <2>5 DEF Holds, SyncedKept, SyncStored
<1>4. CASE ws' = ws
  BY <1>1, <1>4
<1>5. CASE Restore \/ RestoreFail
  BY <1>0, <1>1, <1>2, <1>5 DEF Restore, RestoreFail, TypeOK
<1>6. CASE SyncSeal
  BY <1>0, <1>1, <1>6 DEF SyncSeal, EnsureWorkspace, TypeOK
<1>7. CASE Release \/ ReleaseFail
  BY <1>0, <1>1, <1>3, <1>7 DEF Release, ReleaseFail, TypeOK
<1>8. ASSUME NEW q \in Service, Play(q)
      PROVE  ws'[s].there /\ a \in ws'[s].data
  BY <1>0, <1>1, <1>8 DEF Play, TypeOK, Workspace
<1> QED
  BY <1>4, <1>5, <1>6, <1>7, <1>8 DEF HostStep

\* The progress of an assignment that the agent holds stays.
LEMMA HeldStays ==
    ASSUME KeptFacts, StoreStep, HostStep, PlaneGrows
    PROVE  HeldKept'
<1>0. TypeOK /\ OrderFacts /\ OwnedInv /\ SavedBegun
  BY DEF KeptFacts, OrderFacts, KeptInv
<1> SUFFICES ASSUME NEW s \in Service, NEW a \in Assignment, <<s, a>> \in saved', Holds(s, a)'
             PROVE  Kept(s, a)'
  BY DEF HeldKept, Holds, Live, Kept, InBlob
<1>1. CASE Play(s) /\ container[s].run /\ container[s].asg = a
  BY <1>0, <1>1 DEF Play, TypeOK, Workspace, Kept
<1>2. CASE <<s, a>> \in saved
  <2>1. Holds(s, a)
    <3> SUFFICES ASSUME pc = "setStarting", cmd = StartOf(s, a) PROVE FALSE
      BY <1>0, HoldsBefore
    <3>1. ~Begun(mem, s, a)
      BY <1>0, RestoredIsFresh, CommandForms
    <3> QED
      BY <1>0, <1>2, <3>1 DEF SavedBegun
  <2>2. CASE InBlob(s, a)
    BY <2>2 DEF InBlob, PlaneGrows, Kept
  <2>3. CASE ~InBlob(s, a)
    BY <1>2, <2>1, <2>3, WorkspaceSpared DEF Kept
  <2> QED
    BY <2>2, <2>3
<1> QED
  BY <1>0, <1>1, <1>2, SavedBefore

\* The strengthened invariant holds of every run in which assignments do not overlap
\* and forced removals work.
LEMMA KeptInvariant == ASSUME ~Overlap, ~RemoveMayFail PROVE Spec => []KeptInv
<1>1. Init => KeptInv
  <2> SUFFICES ASSUME Init PROVE KeptInv
    OBVIOUS
  <2>1. StartedStored /\ SavedBegun /\ SyncedKept /\ HeldKept
    BY Zenon DEF Init, StartedStored, SavedBegun, SyncedKept, HeldKept
  <2>2. RunningBegun
    BY DEF Init, NoContainer, RunningBegun
  <2> QED
    BY <2>1, <2>2 DEF KeptInv
<1>2. TypeOK /\ DurableInv /\ PublishedInv /\ OrderInv /\ OwnedInv /\ KeptInv /\ [Next]_vars =>
          KeptInv'
  <2> SUFFICES ASSUME KeptFacts, [Next]_vars PROVE KeptInv'
    BY DEF KeptFacts, OrderFacts
  <2>1. StoreStep /\ PlaneGrows /\ PlaneStep /\ ControlStep /\ HostStep
    BY StepShape, PlaneShape, ControlFlow, HostShape DEF KeptFacts, OrderFacts
  <2> QED
    BY <2>1, StartedStays, SavedStays, RunningStays, SyncedStays, HeldStays DEF KeptInv
<1> QED
  BY <1>1, <1>2, TypeCorrect, DurableInvariant, PublishedInvariant, OrderInvariant,
     OwnedInvariant, PTL DEF Spec

\* When assignments of a service do not overlap and forced removals work, no
\* restore, release, crash, failed write or lost lease destroys the progress of an
\* assignment that was reported started.
THEOREM ProgressSurvives == ASSUME ~Overlap, ~RemoveMayFail PROVE Spec => []ProgressKept
<1>1. KeptInv => ProgressKept
  BY DEF KeptInv, StartedStored, HeldKept, Holds, Kept, InBlob, ProgressKept
<1> QED
  BY <1>1, KeptInvariant, PTL
-----------------------------------------------------------------------------
(* The head of a service carries the progress *)

\* A revision is published once.
OneManifest == \A s \in Service : \A m, n \in blob[s] : m.rev = n.rev => m = n

\* The head is the revision that the latest assignment restored, and after its sync
\* the one it published; the sync of any assignment is behind the head.
HeadFollows ==
    \A s \in Service, b \in Assignment :
        /\ Latest(s, b) =>
               IF <<s, b>> \in synced
                 THEN rev[s] = revOf[StopOf(s, b)] + 1
                 ELSE /\ rev[s] = revOf[StartOf(s, b)]
                      /\ StopOf(s, b) \in issued => rev[s] = revOf[StopOf(s, b)]
        /\ <<s, b>> \in synced => revOf[StopOf(s, b)] < rev[s]

\* The workspace continues the revision that assignment b restored.
Continues(s, b) ==
    /\ ws[s].there
    /\ \A m \in blob[s] : m.rev = revOf[StartOf(s, b)] => m.data \subseteq ws[s].data
    /\ <<s, b>> \in saved => b \in ws[s].data

\* The revision that assignment b published continues the one before it.
Extends(s, b) ==
    \A m, n \in blob[s] :
        m.rev = revOf[StopOf(s, b)] /\ n.rev = m.rev + 1 =>
            m.data \subseteq n.data /\ (<<s, b>> \in saved => b \in n.data)

HeldContinues ==
    /\ \A s \in Service, b \in Assignment :
           Holds(s, b) /\ <<s, b>> \notin synced => Continues(s, b)
    /\ pc = "setStarting" => Continues(cmd.svc, cmd.asg)

SyncedExtends ==
    \A s \in Service, b \in Assignment :
        mem.results[StartOf(s, b)] = "started" /\ SyncStored(s, b) => Extends(s, b)

\* Every synced assignment of the service was reported started.
AllStarted(s) == \A b \in Assignment : <<s, b>> \in synced => <<s, b>> \in started

HeadCarries ==
    \A s \in Service, a \in Assignment :
        AllStarted(s) /\ <<s, a>> \in saved \cap started \cap synced =>
            \A m \in blob[s] : m.rev = rev[s] => a \in m.data

\* Inductive strengthening of HeadCarriesProgress.
HeadInv == OneManifest /\ HeadFollows /\ HeldContinues /\ SyncedExtends /\ HeadCarries

HeadFacts == KeptFacts /\ HeadInv

\* The manifest is written once.
LEMMA OneManifestStays ==
    ASSUME TypeOK, PlaneStep, OneManifest
    PROVE  OneManifest'
<1>1. CASE SyncPublish
  <2> DEFINE p == [rev |-> revOf[cmd] + 1, data |-> ws[cmd.svc].data]
  <2>1. /\ \A n \in blob[cmd.svc] : n.rev = p.rev => n = p
        /\ blob' = [blob EXCEPT ![cmd.svc] = @ \cup {p}]
    BY <1>1 DEF SyncPublish
  <2>2. cmd.svc \in Service
    BY <1>1, TypeParts, CommandType DEF SyncPublish, Processing
  <2> HIDE DEF p
  <2>3. \A s \in Service : blob'[s] = IF s = cmd.svc THEN blob[s] \cup {p} ELSE blob[s]
    BY <2>1, <2>2 DEF TypeOK
  <2> QED
    BY <2>1, <2>3 DEF OneManifest
<1>2. CASE blob' = blob
  BY <1>2 DEF OneManifest
<1> QED
  BY <1>1, <1>2 DEF PlaneStep, ReportStarted, ReportSynced, Ack, IssueStart, IssueStop, Issue

\* A synced assignment was issued; one that was never stopped is not synced.
LEMMA SyncedIsIssued ==
    ASSUME OrderFacts, NEW s \in Service, NEW a \in Assignment, <<s, a>> \in synced
    PROVE  StopOf(s, a) \in issued /\ StartOf(s, a) \in issued
<1>1. StopOf(s, a) \in issued
  BY CommandForms DEF OrderFacts, OrderInv, SyncedStored, PublishedInv, PublishedResults
<1> QED
  BY <1>1 DEF OrderFacts, OrderInv, IssueOrder

\* A stop is issued for the latest assignment.
LEMMA StopOfLatest ==
    ASSUME ~Overlap, OrderFacts, NEW s \in Service, NEW a \in Assignment, IssueStop(s, a)
    PROVE  Latest(s, a)
<1>1. /\ StartOf(s, a) \in issued /\ IssueOrder
      /\ a < MaxAssignment => StartOf(s, a + 1) \notin issued
  BY DEF IssueStop, OrderFacts, OrderInv
<1>2. ASSUME NEW b \in Assignment, b > a, StartOf(s, b) \in issued
      PROVE  FALSE
  <2>1. a + 1 \in Assignment /\ a < MaxAssignment /\ (b = a + 1 \/ a + 1 < b)
    BY <1>2, ConstantsAssumption DEF Assignment
  <2> QED
    BY <1>1, <1>2, <2>1 DEF IssueOrder
<1> QED
  BY <1>1, <1>2 DEF Latest

\* A start makes its assignment the latest.
LEMMA StartIsLatest ==
    ASSUME OrderFacts, NEW s \in Service, NEW a \in Assignment, IssueStart(s, a),
           NEW b \in Assignment, Latest(s, b)'
    PROVE  a = b
<1>1. issued' = issued \cup {StartOf(s, a)} /\ StartOf(s, a) \notin issued /\ IssueOrder
  BY DEF IssueStart, Issue, OrderFacts, OrderInv
<1>2. ~(a > b)
  BY <1>1 DEF Latest
<1>3. ~(b > a)
  <2> SUFFICES ASSUME b > a PROVE FALSE
    OBVIOUS
  <2>1. StartOf(s, b) # StartOf(s, a)
    BY CommandForms DEF Assignment
  <2>2. StartOf(s, b) \in issued
    BY <1>1, <2>1 DEF Latest
  <2> QED
    BY <1>1, <2>2 DEF IssueOrder, Assignment
<1> QED
  BY <1>2, <1>3 DEF Assignment

\* The head moves by one, when the latest assignment is synced.
LEMMA HeadSynced ==
    ASSUME OrderFacts, HeadFollows, ReportSynced
    PROVE  /\ HeadFollows'
           /\ LET s == cmd.svc
                  b == cmd.asg
              IN  /\ s \in Service /\ b \in Assignment /\ cmd = StopOf(s, b)
                  /\ rev' = [rev EXCEPT ![s] = revOf[StopOf(s, b)] + 1]
                  /\ synced' = synced \cup {<<s, b>>}
                  /\ IF <<s, b>> \in synced THEN rev[s] = revOf[StopOf(s, b)] + 1
                                            ELSE rev[s] = revOf[StopOf(s, b)]
<1> DEFINE s == cmd.svc
           b == cmd.asg
<1>1. /\ TypeOK /\ pc = "reportSynced" /\ UNCHANGED <<issued, revOf>>
      /\ synced' = synced \cup {<<s, b>>}
      /\ rev' = [rev EXCEPT ![s] = revOf[cmd] + 1]
  BY DEF ReportSynced, OrderFacts
<1>2. Processing /\ acked[cmd] = "none" /\ cmd.kind = "stop" /\ cmd \in issued
  BY <1>1 DEF Processing, OrderFacts, DurableInv, NotYetAcked, OrderInv, AtCommand,
              StopPositions, PublishedInv
<1>3. s \in Service /\ b \in Assignment /\ cmd = StopOf(s, b) /\ Latest(s, b)
  BY <1>1, <1>2, TypeParts, CommandType, CommandForms, CommandIsLatest
<1>4. IF <<s, b>> \in synced THEN rev[s] = revOf[StopOf(s, b)] + 1
                             ELSE rev[s] = revOf[StopOf(s, b)]
  BY <1>2, <1>3 DEF HeadFollows
<1>5. /\ \A q \in Service : rev[q] \in Nat
      /\ \A c \in Command : revOf[c] \in Nat
      /\ rev'[s] = revOf[StopOf(s, b)] + 1 /\ rev[s] <= rev'[s]
      /\ \A q \in Service : q # s => rev'[q] = rev[q]
  BY <1>1, <1>3, <1>4, CommandForms DEF TypeOK
<1> HIDE DEF s, b
<1>6. ASSUME NEW q \in Service, NEW c \in Assignment, Latest(q, c)'
      PROVE  IF <<q, c>> \in synced'
               THEN rev'[q] = revOf'[StopOf(q, c)] + 1
               ELSE /\ rev'[q] = revOf'[StartOf(q, c)]
                    /\ StopOf(q, c) \in issued' => rev'[q] = revOf'[StopOf(q, c)]
  <2>1. Latest(q, c)
    BY <1>1, <1>6 DEF Latest
  <2>2. CASE q = s
    <3>1. c = b
      BY <1>3, <2>1, <2>2, LatestIsUnique
    <3> QED
      BY <1>1, <1>5, <2>2, <3>1
  <2>3. CASE q # s
    BY <1>1, <1>5, <2>1, <2>3 DEF HeadFollows
  <2> QED
    BY <2>2, <2>3
<1>7. ASSUME NEW q \in Service, NEW c \in Assignment, <<q, c>> \in synced'
      PROVE  revOf'[StopOf(q, c)] < rev'[q]
  <2>0. StopOf(q, c) \in Command /\ revOf' = revOf
    BY <1>1, CommandForms
  <2>1. CASE q = s /\ c = b
    BY <1>5, <2>0, <2>1
  <2>2. CASE <<q, c>> \in synced
    <3>1. revOf[StopOf(q, c)] < rev[q]
      BY <2>2 DEF HeadFollows
    <3>2. CASE q = s
      <4>1. rev[q] \in Nat /\ rev'[q] \in Nat /\ revOf[StopOf(q, c)] \in Nat /\ rev[q] <= rev'[q]
        BY <1>3, <1>5, <2>0, <3>2, CommandForms
      <4> QED
        BY <2>0, <3>1, <4>1
    <3>3. CASE q # s
      BY <1>5, <2>0, <3>1, <3>3
    <3> QED
      BY <3>2, <3>3
  <2> QED
    BY <1>1, <1>7, <2>1, <2>2
<1> QED
  BY <1>1, <1>3, <1>4, <1>6, <1>7 DEF s, b, HeadFollows

\* An issued command carries the head.
LEMMA HeadIssued ==
    ASSUME ~Overlap, OrderFacts, HeadFollows, PlaneGrows, NEW s \in Service,
           NEW a \in Assignment, IssueStart(s, a) \/ IssueStop(s, a)
    PROVE  HeadFollows'
<1>0. /\ TypeOK /\ UNCHANGED <<rev, synced>> /\ issued \subseteq issued'
      /\ \A c \in issued : revOf'[c] = revOf[c]
  BY DEF OrderFacts, IssueStart, IssueStop, Issue, PlaneGrows
<1>1. ASSUME NEW q \in Service, NEW c \in Assignment, <<q, c>> \in synced
      PROVE  revOf'[StopOf(q, c)] < rev'[q] /\ revOf'[StopOf(q, c)] = revOf[StopOf(q, c)]
  BY <1>0, <1>1, SyncedIsIssued DEF HeadFollows
<1>2. CASE IssueStart(s, a)
  <2> DEFINE n == StartOf(s, a)
  <2>1. /\ n \notin issued /\ issued' = issued \cup {n}
        /\ revOf' = [revOf EXCEPT ![n] = rev[n.svc]]
    BY <1>2 DEF IssueStart, Issue
  <2>2. n.svc = s /\ n \in Command /\ n.kind = "start"
    BY CommandForms
  <2>3. revOf'[n] = rev[s]
    BY <1>0, <2>1, <2>2 DEF TypeOK
  <2> HIDE DEF n
  <2>4. ASSUME NEW q \in Service, NEW c \in Assignment, Latest(q, c)'
        PROVE  IF <<q, c>> \in synced'
                 THEN rev'[q] = revOf'[StopOf(q, c)] + 1
                 ELSE /\ rev'[q] = revOf'[StartOf(q, c)]
                      /\ StopOf(q, c) \in issued' => rev'[q] = revOf'[StopOf(q, c)]
    <3>0. StopOf(q, c) # n
      BY <2>2, CommandForms
    <3>1. CASE q = s
      <4>1. c = a
        BY <1>2, <2>4, <3>1, StartIsLatest
      <4>2. StopOf(s, a) \notin issued /\ StopOf(s, a) \notin issued'
        BY <2>1, <3>0, <3>1, <4>1 DEF OrderFacts, OrderInv, IssueOrder, n
      <4>3. <<s, a>> \notin synced
        BY <4>2, SyncedIsIssued
      <4> QED
        BY <1>0, <2>3, <3>1, <4>1, <4>2, <4>3 DEF n
    <3>2. CASE q # s
      <4>1. \A d \in Assignment : StartOf(q, d) # n
        BY <2>2, <3>2, CommandForms
      <4>2. Latest(q, c)
        BY <2>1, <2>4, <4>1 DEF Latest
      <4>3. StartOf(q, c) \in issued /\ (StopOf(q, c) \in issued' => StopOf(q, c) \in issued)
        BY <2>1, <3>0, <4>2 DEF Latest
      <4> QED
        BY <1>0, <1>1, <4>2, <4>3 DEF HeadFollows
    <3> QED
      BY <3>1, <3>2
  <2> QED
    BY <1>0, <1>1, <2>4 DEF HeadFollows
<1>3. CASE IssueStop(s, a)
  <2> DEFINE n == StopOf(s, a)
  <2>1. /\ n \notin issued /\ issued' = issued \cup {n}
        /\ revOf' = [revOf EXCEPT ![n] = rev[n.svc]]
    BY <1>3 DEF IssueStop, Issue
  <2>2. n.svc = s /\ n \in Command /\ n.kind = "stop" /\ n.asg = a
    BY CommandForms
  <2>3. revOf'[n] = rev[s]
    BY <1>0, <2>1, <2>2 DEF TypeOK
  <2> HIDE DEF n
  <2>4. ASSUME NEW q \in Service, NEW c \in Assignment, Latest(q, c)'
        PROVE  IF <<q, c>> \in synced'
                 THEN rev'[q] = revOf'[StopOf(q, c)] + 1
                 ELSE /\ rev'[q] = revOf'[StartOf(q, c)]
                      /\ StopOf(q, c) \in issued' => rev'[q] = revOf'[StopOf(q, c)]
    <3>1. \A d \in Assignment : StartOf(q, d) # n
      BY <2>2, CommandForms
    <3>2. Latest(q, c) /\ StartOf(q, c) \in issued
      BY <2>1, <2>4, <3>1 DEF Latest
    <3>3. StopOf(q, c) \in issued' => StopOf(q, c) \in issued \/ StopOf(q, c) = n
      BY <2>1
    <3>4. StopOf(q, c) = n => q = s
      BY <2>2, CommandForms
    <3> QED
      BY <1>0, <1>1, <2>3, <3>2, <3>3, <3>4 DEF HeadFollows
  <2> QED
    BY <1>0, <1>1, <2>4 DEF HeadFollows
<1> QED
  BY <1>2, <1>3

\* The head follows the assignments.
LEMMA HeadFollowsStays ==
    ASSUME ~Overlap, OrderFacts, HeadFollows, PlaneGrows, PlaneStep
    PROVE  HeadFollows'
<1>1. CASE UNCHANGED <<issued, revOf, synced, rev>>
  BY <1>1 DEF HeadFollows, Latest
<1> QED
  BY <1>1, HeadSynced, HeadIssued DEF PlaneStep, SyncPublish, ReportStarted, Ack

\* Until its sync, an assignment that the agent holds is the latest of its service.
LEMMA HeldIsLatest ==
    ASSUME OrderFacts, NEW s \in Service, NEW b \in Assignment,
           Holds(s, b), <<s, b>> \notin synced
    PROVE  Latest(s, b)
<1>1. CASE Live(mem, s, b) \/ Live(disk, s, b)
  BY <1>1 DEF OrderFacts, OrderInv, EntryIsLatest, Live
<1>2. CASE mem.results[StartOf(s, b)] = "started"
  <2>1. StartOf(s, b) \in issued
    BY <1>2, CommandForms DEF OrderFacts, PublishedInv, PublishedResults
  <2>2. ~Over(s, b)
    BY <1>2, CommandForms
       DEF Over, OrderFacts, DurableInv, AckedInStore, OrderInv, SyncedStored
  <2> QED
    BY <2>1, <2>2 DEF Latest, OrderFacts, OrderInv, IssueOrder, Assignment
<1> QED
  BY <1>1, <1>2 DEF Holds

\* A step that publishes adds the manifest of the sealed workspace, one revision
\* beyond the head of the latest assignment.
LEMMA PublicationIsNext ==
    ASSUME OrderFacts, HeadFollows, SyncPublish
    PROVE  LET s == cmd.svc
               b == cmd.asg
               p == [rev |-> rev[s] + 1, data |-> ws[s].data]
           IN  /\ s \in Service /\ b \in Assignment /\ cmd = StopOf(s, b)
               /\ Latest(s, b) /\ <<s, b>> \notin synced /\ mem.results[cmd] = "none"
               /\ rev[s] = revOf[StopOf(s, b)] /\ rev[s] = revOf[StartOf(s, b)]
               /\ blob'[s] = blob[s] \cup {p}
               /\ \A n \in blob[s] : n.rev = p.rev => n = p
               /\ \A q \in Service : q # s => blob'[q] = blob[q]
<1> DEFINE s == cmd.svc
           b == cmd.asg
<1>1. /\ TypeOK /\ pc = "publish"
      /\ blob' = [blob EXCEPT ![s] = @ \cup {[rev |-> revOf[cmd] + 1, data |-> ws[s].data]}]
      /\ \A n \in blob[s] : n.rev = revOf[cmd] + 1 =>
             n = [rev |-> revOf[cmd] + 1, data |-> ws[s].data]
  BY DEF SyncPublish, OrderFacts
<1>2. /\ Processing /\ acked[cmd] = "none" /\ cmd.kind = "stop" /\ cmd \in issued
      /\ mem.results[cmd] = "none"
  BY <1>1 DEF Processing, OrderFacts, DurableInv, NotYetAcked, OrderInv, AtCommand,
              StopPositions, AfterExecute, PublishedInv
<1>3. s \in Service /\ b \in Assignment /\ cmd = StopOf(s, b) /\ Latest(s, b)
  BY <1>1, <1>2, TypeParts, CommandType, CommandForms, CommandIsLatest
<1>4. <<s, b>> \notin synced
  BY <1>2, <1>3 DEF OrderFacts, OrderInv, SyncedStored
<1>5. rev[s] = revOf[StopOf(s, b)] /\ rev[s] = revOf[StartOf(s, b)]
  BY <1>2, <1>3, <1>4 DEF HeadFollows
<1>6. /\ blob'[s] = blob[s] \cup {[rev |-> rev[s] + 1, data |-> ws[s].data]}
      /\ \A q \in Service : q # s => blob'[q] = blob[q]
  BY <1>1, <1>3, <1>5 DEF TypeOK
<1> QED
  BY <1>1, <1>2, <1>3, <1>4, <1>5, <1>6

\* Between its restore and its sync nothing replaces the workspace of an assignment.
LEMMA ContinuesStays ==
    ASSUME HeadFacts, HostStep, PlaneGrows, PlaneStep, NEW s \in Service,
           NEW b \in Assignment, Continues(s, b),
           \/ Holds(s, b) /\ <<s, b>> \notin synced
           \/ pc = "setStarting" /\ cmd = StartOf(s, b)
    PROVE  Continues(s, b)'
<1>0. /\ TypeOK /\ OrderFacts /\ OwnedInv /\ AtCommand /\ HeadFollows
  BY DEF HeadFacts, KeptFacts, OrderFacts, OrderInv, HeadInv
<1>1. Latest(s, b)
  <2>1. CASE pc = "setStarting" /\ cmd = StartOf(s, b)
    BY <1>0, <2>1, RestoredIsFresh, CommandIsLatest, CommandForms
  <2> QED
    BY <1>0, <2>1, HeldIsLatest
<1>2. revOf'[StartOf(s, b)] = revOf[StartOf(s, b)]
  BY <1>1 DEF Latest, PlaneGrows
<1>3. ~(Restoring /\ cmd.svc = s)
  <2> SUFFICES ASSUME Restoring, cmd.svc = s PROVE FALSE
    OBVIOUS
  <2>1. Processing /\ acked[cmd] = "none" /\ ~Holds(s, cmd.asg) /\ pc = "execute"
    BY <1>0, RestoredIsFresh DEF Restoring, Executing
  <2>2. cmd.asg \in Assignment /\ Latest(s, cmd.asg)
    BY <1>0, <2>1, CommandIsLatest, TypeParts, CommandType
  <2> QED
    BY <1>1, <2>1, <2>2, LatestIsUnique
<1>4. ~(pc = "release" /\ cmd.svc = s)
  <2> SUFFICES ASSUME pc = "release", cmd.svc = s PROVE FALSE
    OBVIOUS
  <2>1. Processing /\ acked[cmd] = "none" /\ <<s, cmd.asg>> \in synced
    BY <1>0 DEF Processing, OrderFacts, DurableInv, NotYetAcked, AtCommand
  <2>2. cmd.asg \in Assignment /\ Latest(s, cmd.asg)
    BY <1>0, <2>1, CommandIsLatest, TypeParts, CommandType
  <2> QED
    BY <1>1, <2>1, <2>2, LatestIsUnique
<1>5. ws'[s].there /\ ws[s].data \subseteq ws'[s].data
  <2>1. CASE ws' = ws
    BY <2>1 DEF Continues
  <2>2. CASE Restore \/ RestoreFail
    BY <1>0, <1>3, <2>2 DEF Restore, RestoreFail, TypeOK, Continues
  <2>3. CASE SyncSeal
    BY <1>0, <2>3 DEF SyncSeal, EnsureWorkspace, TypeOK, Continues
  <2>4. CASE Release \/ ReleaseFail
    BY <1>0, <1>4, <2>4 DEF Release, ReleaseFail, TypeOK, Continues
  <2>5. ASSUME NEW q \in Service, Play(q)
        PROVE  ws'[s].there /\ ws[s].data \subseteq ws'[s].data
    BY <1>0, <2>5 DEF Play, TypeOK, Workspace, Continues
  <2> QED
    BY <2>1, <2>2, <2>3, <2>4, <2>5 DEF HostStep
<1>6. <<s, b>> \in saved' => b \in ws'[s].data
  <2>1. CASE <<s, b>> \in saved
    BY <1>5, <2>1 DEF Continues
  <2>2. CASE Play(s) /\ container[s].asg = b
    BY <1>0, <2>2 DEF Play, TypeOK, Workspace
  <2> QED
    BY <1>0, <2>1, <2>2, SavedBefore
<1>7. ASSUME NEW m \in blob'[s], m.rev = revOf[StartOf(s, b)]
      PROVE  m.data \subseteq ws'[s].data
  <2>1. CASE m \in blob[s]
    BY <1>5, <1>7, <2>1 DEF Continues
  <2>2. CASE SyncPublish /\ s = cmd.svc
    <3>1. m \in blob[s] \/ m = [rev |-> rev[s] + 1, data |-> ws[s].data]
      BY <1>0, <1>7, <2>2, PublicationIsNext
    <3> QED
      BY <1>5, <2>1, <3>1
  <2>3. blob'[s] = blob[s] \/ (SyncPublish /\ s = cmd.svc)
    <3>1. blob' = blob \/ SyncPublish
      BY DEF PlaneStep, ReportStarted, ReportSynced, Ack, IssueStart, IssueStop, Issue
    <3> QED
      BY <1>0, <3>1, PublicationIsNext
  <2> QED
    BY <1>7, <2>1, <2>2, <2>3
<1> QED
  BY <1>2, <1>5, <1>6, <1>7 DEF Continues

\* So the workspace of an assignment that is held continues what it restored.
LEMMA HeldContinuesStays ==
    ASSUME HeadFacts, StoreStep, HostStep, PlaneGrows, PlaneStep, ControlStep
    PROVE  HeldContinues'
<1>0. /\ TypeOK /\ OrderFacts /\ OwnedInv /\ AtCommand /\ HeldContinues /\ OneManifest
      /\ SavedBegun
  BY DEF HeadFacts, KeptFacts, OrderFacts, OrderInv, HeadInv, KeptInv
<1>1. ASSUME NEW s \in Service, NEW b \in Assignment, Holds(s, b)', <<s, b>> \notin synced'
      PROVE  Continues(s, b)'
  <2>1. <<s, b>> \notin synced
    BY <1>1 DEF PlaneGrows
  <2>2. Holds(s, b) \/ (pc = "setStarting" /\ cmd = StartOf(s, b))
    BY <1>0, <1>1, HoldsBefore
  <2>3. Continues(s, b)
    BY <1>0, <2>1, <2>2, CommandForms DEF HeldContinues
  <2> QED
    BY <2>1, <2>2, <2>3, ContinuesStays
<1>2. ASSUME pc' = "setStarting"
      PROVE  Continues(cmd.svc, cmd.asg)' /\ cmd' = cmd
  <2>1. Processing /\ cmd' = cmd /\ (pc = "setStarting" \/ Restore)
    BY <1>2 DEF ControlStep, Moves
  <2>2. cmd \in Command /\ cmd.svc \in Service /\ cmd.asg \in Assignment
    BY <1>0, <2>1, TypeParts, CommandType
  <2>3. CASE pc = "setStarting"
    <3>1. cmd = StartOf(cmd.svc, cmd.asg)
      BY <1>0, <2>2, <2>3, CommandForms DEF AtCommand, StartPositions
    <3>2. Continues(cmd.svc, cmd.asg)
      BY <1>0, <2>3 DEF HeldContinues
    <3> DEFINE s == cmd.svc
               b == cmd.asg
    <3>3. s \in Service /\ b \in Assignment /\ cmd = StartOf(s, b) /\ Continues(s, b)
      BY <2>2, <3>1, <3>2
    <3>4. /\ ws'[s].there
          /\ \A m \in blob'[s] : m.rev = revOf'[StartOf(s, b)] => m.data \subseteq ws'[s].data
          /\ <<s, b>> \in saved' => b \in ws'[s].data
      <4> HIDE DEF s, b
      <4> QED
        BY <2>3, <3>3, ContinuesStays DEF Continues
    <3> QED
      BY <2>1, <3>4 DEF Continues
  <2>4. CASE Restore
    <3>1. Restoring /\ UNCHANGED plane /\ saved' = saved
      BY <2>4 DEF Restore, hist
    <3>2. PICK m \in blob[cmd.svc] :
             /\ m.rev = revOf[cmd]
             /\ ws' = [ws EXCEPT ![cmd.svc] =
                          [there |-> TRUE, owner |-> cmd.asg, data |-> m.data]]
      BY <2>4 DEF Restore
    <3>3. cmd = StartOf(cmd.svc, cmd.asg) /\ <<cmd.svc, cmd.asg>> \notin saved
      BY <1>0, <2>2, <3>1, RestoredIsFresh, CommandForms DEF SavedBegun
    <3>4. ws'[cmd.svc].there /\ ws'[cmd.svc].data = m.data
      BY <1>0, <2>2, <3>2 DEF TypeOK
    <3>5. \A n \in blob[cmd.svc] : n.rev = revOf[cmd] => n = m
      BY <1>0, <2>2, <3>2 DEF OneManifest
    <3> QED
      BY <2>1, <3>1, <3>3, <3>4, <3>5 DEF Continues, plane
  <2> QED
    BY <2>1, <2>3, <2>4
<1> QED
  BY <1>1, <1>2 DEF HeldContinues, Continues, Holds, Live

\* The stop of an assignment whose revision is published, or about to be stored as
\* such, stays behind the revisions that later assignments publish.
LEMMA ExtendsStays ==
    ASSUME HeadFacts, HostStep, PlaneGrows, PlaneStep, NEW s \in Service,
           NEW b \in Assignment, mem.results[StartOf(s, b)] = "started", SyncStored(s, b),
           Extends(s, b)
    PROVE  Extends(s, b)'
<1>0. /\ TypeOK /\ OrderFacts /\ OwnedInv /\ HeadFollows /\ RunningBegun
  BY DEF HeadFacts, KeptFacts, OrderFacts, HeadInv, KeptInv
<1>1. /\ StopOf(s, b) \in Command /\ StopOf(s, b) \in issued /\ StartOf(s, b) \in issued
      /\ StartOf(s, b) \in Command /\ StopOf(s, b).svc = s
  <2>1. StopOf(s, b) \in Command /\ StartOf(s, b) \in Command /\ StopOf(s, b).svc = s
    BY CommandForms
  <2>2. StopOf(s, b) \in issued
    BY <1>0, <2>1 DEF SyncStored, OrderFacts, PublishedInv, PublishedResults, Processing
  <2> QED
    BY <1>0, <2>1, <2>2 DEF OrderFacts, OrderInv, IssueOrder
<1>2. revOf'[StopOf(s, b)] = revOf[StopOf(s, b)]
  BY <1>1 DEF PlaneGrows
<1>3. <<s, b>> \in saved' => <<s, b>> \in saved
  <2> SUFFICES ASSUME container[s].run, container[s].asg = b PROVE FALSE
    BY <1>0, SavedBefore
  <2>1. mem.results[StopOf(s, b)] = "none"
    BY <1>0 DEF RunningBegun
  <2> QED
    BY <1>0, <1>1, <2>1, SealedIsQuiet DEF SyncStored
<1>4. CASE blob'[s] = blob[s]
  BY <1>2, <1>3, <1>4 DEF Extends
<1>5. CASE SyncPublish /\ s = cmd.svc
  <2> DEFINE c == cmd.asg
             p == [rev |-> rev[s] + 1, data |-> ws[s].data]
  <2>1. /\ c \in Assignment /\ cmd = StopOf(s, c) /\ Latest(s, c) /\ pc = "publish"
        /\ mem.results[cmd] = "none" /\ blob'[s] = blob[s] \cup {p}
    BY <1>0, <1>5, PublicationIsNext DEF SyncPublish
  <2>2. c # b
    BY <2>1 DEF SyncStored
  <2>3. Over(s, b)
    BY <1>0, <1>1, <2>1, <2>2 DEF Latest, OrderFacts, OrderInv, IssueOrder, Assignment
  <2>4. <<s, b>> \in synced
    BY <1>0, <1>1, <2>3
       DEF Over, OrderFacts, DurableInv, AckedInStore, OrderInv, SyncedStored
  <2>5. revOf[StopOf(s, b)] < rev[s] /\ revOf[StopOf(s, b)] \in Nat /\ rev[s] \in Nat
    BY <1>0, <1>1, <2>4 DEF HeadFollows, TypeOK
  <2>6. p.rev = rev[s] + 1
    OBVIOUS
  <2> HIDE DEF p, c
  <2>7. \A x, y \in Nat : x < y => y + 1 # x /\ y + 1 # x + 1
    OBVIOUS
  <2>8. p.rev # revOf[StopOf(s, b)] /\ p.rev # revOf[StopOf(s, b)] + 1
    BY <2>5, <2>6, <2>7
  <2> QED
    BY <1>2, <1>3, <2>1, <2>8 DEF Extends
<1>6. blob'[s] = blob[s] \/ (SyncPublish /\ s = cmd.svc)
  <2>1. blob' = blob \/ SyncPublish
    BY Zenon DEF PlaneStep, ReportStarted, ReportSynced, Ack, IssueStart, IssueStop, Issue
  <2> QED
    BY <1>0, <2>1, PublicationIsNext
<1> QED
  BY <1>4, <1>5, <1>6

\* The publication itself extends the revision that its assignment restored.
LEMMA PublicationExtends ==
    ASSUME HeadFacts, SyncPublish, mem.results[StartOf(cmd.svc, cmd.asg)] = "started"
    PROVE  LET s == cmd.svc
               b == cmd.asg
           IN  \A m, n \in blob'[s] :
                   m.rev = revOf'[StopOf(s, b)] /\ n.rev = m.rev + 1 =>
                       m.data \subseteq n.data /\ (<<s, b>> \in saved' => b \in n.data)
<1> DEFINE s == cmd.svc
           b == cmd.asg
           p == [rev |-> rev[s] + 1, data |-> ws[s].data]
<1>0. /\ TypeOK /\ OrderFacts /\ HeadFollows /\ HeldContinues
  BY DEF HeadFacts, KeptFacts, OrderFacts, HeadInv
<1>1. /\ s \in Service /\ b \in Assignment /\ <<s, b>> \notin synced
      /\ rev[s] = revOf[StopOf(s, b)] /\ rev[s] = revOf[StartOf(s, b)]
      /\ blob'[s] = blob[s] \cup {p} /\ \A n \in blob[s] : n.rev = p.rev => n = p
  BY <1>0, PublicationIsNext
<1>2. revOf' = revOf /\ saved' = saved /\ rev[s] \in Nat
  BY <1>0, <1>1 DEF SyncPublish, hist, TypeOK
<1>3. Continues(s, b)
  BY <1>0, <1>1 DEF HeldContinues, Holds
<1>4. p.rev = rev[s] + 1 /\ p.data = ws[s].data
  OBVIOUS
<1> HIDE DEF s, b, p
<1>5. \A m \in blob'[s] : m.rev = rev[s] => m \in blob[s]
  <2>1. \A x \in Nat : x + 1 # x
    OBVIOUS
  <2>2. p.rev # rev[s]
    BY <1>2, <1>4, <2>1
  <2> QED
    BY <1>1, <2>2
<1>6. \A n \in blob'[s] : n.rev = rev[s] + 1 => n = p
  BY <1>1, <1>4
<1>7. \A m, n \in blob'[s] : m.rev = revOf'[StopOf(s, b)] /\ n.rev = m.rev + 1 =>
          m.data \subseteq n.data /\ (<<s, b>> \in saved' => b \in n.data)
  BY <1>1, <1>2, <1>3, <1>4, <1>5, <1>6 DEF Continues
<1> QED
  BY <1>7 DEF s, b

\* Revisions of started assignments extend one another.
LEMMA SyncedExtendsStays ==
    ASSUME HeadFacts, StoreStep, HostStep, PlaneGrows, PlaneStep, ControlStep
    PROVE  SyncedExtends'
<1>0. /\ TypeOK /\ OrderFacts /\ OwnedInv /\ AtCommand /\ SyncedExtends
  BY DEF HeadFacts, KeptFacts, OrderFacts, OrderInv, HeadInv
<1> SUFFICES ASSUME NEW s \in Service, NEW b \in Assignment,
                    mem'.results[StartOf(s, b)] = "started", SyncStored(s, b)'
             PROVE  Extends(s, b)'
  BY DEF SyncedExtends, SyncStored, Extends
<1>1. /\ StartOf(s, b) \in Command /\ StopOf(s, b) \in Command
      /\ StartOf(s, b) # StopOf(s, b) /\ StartOf(s, b).kind = "start"
      /\ StartOf(s, b).svc = s /\ StartOf(s, b).asg = b
      /\ StopOf(s, b).svc = s /\ StopOf(s, b).asg = b
  BY CommandForms
<1>2. mem.results[StartOf(s, b)] = "started"
  <2> SUFFICES ASSUME mem.results[StartOf(s, b)] # "started" PROVE FALSE
    OBVIOUS
  <2>1. /\ Processing /\ cmd = StartOf(s, b) /\ pc' \in {"decide", "next"}
        /\ mem'.results[StopOf(s, b)] = mem.results[StopOf(s, b)]
    BY <1>0, <1>1, ResultAppears
  <2>2. mem.results[StopOf(s, b)] = "none"
    BY <1>0, <1>1, <2>1 DEF AtCommand
  <2> QED
    BY <2>1, <2>2 DEF SyncStored
<1>3. SyncStored(s, b) \/ (SyncPublish /\ cmd = StopOf(s, b))
  <2>1. CASE mem'.results[StopOf(s, b)] # "none" /\ mem.results[StopOf(s, b)] = "none"
    <3>1. PICK e \in Active : /\ Processing /\ cmd = StopOf(s, b)
                              /\ Commits(mem'.results[StopOf(s, b)], e)
                              /\ mem'.results[StopOf(s, b)] \in Status
      BY <1>0, <1>1, <2>1, ResultAppears
    <3>2. cmd.kind = "stop" /\ mem'.results[StopOf(s, b)] = "stopped-and-synced"
      BY <1>0, <3>1, CommitInOrder, CommandForms
    <3> QED
      BY <3>1, <3>2 DEF Commits, SyncStored
  <2>2. CASE pc' = "syncDone" /\ cmd' = StopOf(s, b)
    BY <2>2 DEF ControlStep, Moves, SyncStored
  <2> QED
    BY <2>1, <2>2 DEF SyncStored
<1>4. CASE SyncStored(s, b)
  BY <1>0, <1>2, <1>4, ExtendsStays DEF SyncedExtends
<1>5. CASE SyncPublish /\ cmd = StopOf(s, b)
  BY <1>1, <1>2, <1>5, PublicationExtends DEF Extends
<1> QED
  BY <1>3, <1>4, <1>5

\* The head carries the sessions of all started assignments, when all synced ones
\* were started.
LEMMA HeadCarriesStays ==
    ASSUME HeadFacts, StoreStep, HostStep, PlaneStep
    PROVE  HeadCarries'
<1>0. /\ TypeOK /\ OrderFacts /\ AtCommand /\ SyncedStored /\ RunningBegun /\ StartedStored
      /\ HeadFollows /\ SyncedExtends /\ HeadCarries /\ HeadIsPublished /\ DurableInv
  BY DEF HeadFacts, KeptFacts, OrderFacts, OrderInv, HeadInv, KeptInv, PublishedInv
<1> SUFFICES ASSUME NEW s \in Service, NEW a \in Assignment, AllStarted(s)',
                    <<s, a>> \in saved', <<s, a>> \in started', <<s, a>> \in synced',
                    NEW n \in blob'[s], n.rev = rev'[s]
             PROVE  a \in n.data
  BY DEF HeadCarries, AllStarted
<1>1. CASE ReportStarted
  <2>1. /\ started' = started \cup {<<cmd.svc, cmd.asg>>} /\ pc = "reportStarted"
        /\ UNCHANGED <<blob, rev, synced, saved>>
    BY <1>1 DEF ReportStarted, hist
  <2>2. /\ cmd.svc \in Service /\ cmd.asg \in Assignment /\ <<cmd.svc, cmd.asg>> \notin synced
    BY <1>0, <2>1, TypeParts, CommandType
       DEF Processing, AtCommand, StartPositions, SyncedStored
  <2>3. AllStarted(s) /\ <<s, a>> \in started
    BY <2>1, <2>2 DEF AllStarted
  <2> QED
    BY <1>0, <2>1, <2>3 DEF HeadCarries
<1>2. CASE ReportSynced
  <2> DEFINE q == cmd.svc
             b == cmd.asg
  <2>1. /\ q \in Service /\ b \in Assignment /\ cmd = StopOf(q, b)
        /\ rev' = [rev EXCEPT ![q] = revOf[StopOf(q, b)] + 1]
        /\ synced' = synced \cup {<<q, b>>}
        /\ IF <<q, b>> \in synced THEN rev[q] = revOf[StopOf(q, b)] + 1
                                  ELSE rev[q] = revOf[StopOf(q, b)]
    BY <1>0, <1>2, HeadSynced
  <2>2. UNCHANGED <<blob, started, saved>> /\ pc = "reportSynced"
    BY <1>2 DEF ReportSynced, hist
  <2>3. rev \in [Service -> Nat] /\ AllStarted(s)
    BY <1>0, <2>1, <2>2 DEF TypeOK, AllStarted
  <2> HIDE DEF q, b
  <2>4. CASE q # s \/ <<q, b>> \in synced
    <3>1. rev'[s] = rev[s] /\ <<s, a>> \in synced
      BY <2>1, <2>3, <2>4
    <3> QED
      BY <1>0, <2>2, <2>3, <3>1 DEF HeadCarries
  <2>5. CASE q = s /\ <<q, b>> \notin synced
    <3>1. rev[s] = revOf[StopOf(s, b)] /\ rev'[s] = rev[s] + 1
      BY <2>1, <2>3, <2>5
    <3>2. <<s, b>> \in started
      BY <2>1, <2>2, <2>5 DEF AllStarted
    <3>3. mem.results[StartOf(s, b)] = "started"
      BY <1>0, <2>1, <3>2 DEF StartedStored
    <3>4. mem.results[StopOf(s, b)] # "none"
      BY <1>0, <2>1, <2>2, <2>5 DEF DurableInv, ResultStored, AtCommand, AfterExecute
    <3>5. Extends(s, b)
      BY <1>0, <2>1, <3>3, <3>4 DEF SyncedExtends, SyncStored
    <3>6. PICK m \in blob[s] : m.rev = rev[s]
      BY <1>0 DEF HeadIsPublished
    <3>7. n \in blob[s] /\ m.rev = revOf[StopOf(s, b)] /\ n.rev = m.rev + 1
      BY <2>2, <3>1, <3>6
    <3>8. m.data \subseteq n.data /\ (<<s, b>> \in saved => b \in n.data)
      BY <3>5, <3>7 DEF Extends
    <3>9. CASE a = b
      BY <2>2, <3>8, <3>9
    <3>10. CASE a # b
      <4>1. <<s, a>> \in synced
        BY <2>1, <3>10
      <4> QED
        BY <1>0, <2>2, <2>3, <3>6, <3>8, <4>1 DEF HeadCarries
    <3> QED
      BY <3>9, <3>10
  <2> QED
    BY <2>4, <2>5
<1>3. CASE UNCHANGED <<started, synced, rev>> /\ (blob' = blob \/ SyncPublish)
  <2>1. <<s, a>> \in saved
    <3> SUFFICES ASSUME container[s].run, container[s].asg = a PROVE FALSE
      BY <1>0, SavedBefore
    <3> QED
      BY <1>0, <1>3 DEF RunningBegun, SyncedStored
  <2>2. n \in blob[s]
    <3> SUFFICES ASSUME SyncPublish PROVE n \in blob[s]
      BY <1>3
    <3>1. CASE cmd.svc # s
      BY <1>0, <3>1, PublicationIsNext
    <3>2. CASE cmd.svc = s
      <4>1. n \in blob[s] \/ n = [rev |-> rev[s] + 1, data |-> ws[s].data]
        BY <1>0, <3>2, PublicationIsNext
      <4>2. n.rev = rev[s] /\ rev[s] \in Nat
        BY <1>0, <1>3 DEF TypeOK
      <4> QED
        BY <4>1, <4>2
    <3> QED
      BY <3>1, <3>2
  <2> QED
    BY <1>0, <1>3, <2>1, <2>2 DEF HeadCarries, AllStarted
<1> QED
  BY <1>1, <1>2, <1>3 DEF PlaneStep, SyncPublish, Ack, IssueStart, IssueStop, Issue

\* The strengthened invariant holds of every run in which assignments do not overlap
\* and forced removals work.
LEMMA HeadInvariant == ASSUME ~Overlap, ~RemoveMayFail PROVE Spec => []HeadInv
<1>1. Init => HeadInv
  <2> SUFFICES ASSUME Init PROVE HeadInv
    OBVIOUS
  <2>1. OneManifest
    BY DEF Init, OneManifest
  <2>2. HeadFollows /\ HeadCarries
    BY DEF Init, HeadFollows, HeadCarries, Latest
  <2>3. \A s \in Service, b \in Assignment : ~Holds(s, b) /\ ~SyncStored(s, b)
    BY CommandForms DEF Init, EmptyStore, NoActive, Holds, Live, SyncStored
  <2>4. HeldContinues /\ SyncedExtends
    BY <2>3 DEF Init, HeldContinues, SyncedExtends
  <2> QED
    BY <2>1, <2>2, <2>4 DEF HeadInv
<1>2. TypeOK /\ DurableInv /\ PublishedInv /\ OrderInv /\ OwnedInv /\ KeptInv /\ HeadInv
      /\ [Next]_vars => HeadInv'
  <2> SUFFICES ASSUME HeadFacts, [Next]_vars PROVE HeadInv'
    BY DEF HeadFacts, KeptFacts, OrderFacts
  <2>1. StoreStep /\ PlaneGrows /\ PlaneStep /\ ControlStep /\ HostStep
    BY StepShape, PlaneShape, ControlFlow, HostShape DEF HeadFacts, KeptFacts, OrderFacts
  <2> QED
    BY <2>1, OneManifestStays, HeadFollowsStays, HeldContinuesStays, SyncedExtendsStays,
       HeadCarriesStays DEF HeadInv, HeadFacts, KeptFacts, OrderFacts
<1> QED
  BY <1>1, <1>2, TypeCorrect, DurableInvariant, PublishedInvariant, OrderInvariant,
     OwnedInvariant, KeptInvariant, PTL DEF Spec

\* Under the same assumptions the progress of a started assignment is in the
\* workspace or in the revision that the next start restores, as long as no stop of
\* an assignment that was never started here has published in between.
THEOREM NextStartSeesProgress ==
    ASSUME ~Overlap, ~RemoveMayFail PROVE Spec => []HeadCarriesProgress
<1>1. HeadIsPublished /\ KeptInv /\ HeadInv => HeadCarriesProgress
  <2> SUFFICES ASSUME HeadIsPublished, KeptInv, HeadInv, NEW s \in Service,
                      NEW a \in Assignment, <<s, a>> \in saved \cap started, AllStarted(s)
               PROVE  \/ ws[s].there /\ a \in ws[s].data
                      \/ \E m \in blob[s] : m.rev = rev[s] /\ a \in m.data
    BY DEF HeadCarriesProgress, AllStarted
  <2>1. CASE <<s, a>> \in synced
    BY <2>1 DEF HeadIsPublished, HeadInv, HeadCarries
  <2>2. CASE <<s, a>> \notin synced
    BY <2>2 DEF KeptInv, StartedStored, HeadInv, HeldContinues, Holds, Continues
  <2> QED
    BY <2>1, <2>2
<1> QED
  BY <1>1, NextStartFindsItsRevision, KeptInvariant, HeadInvariant, PTL
=============================================================================

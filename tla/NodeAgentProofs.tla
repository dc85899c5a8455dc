-------------------------- MODULE NodeAgentProofs ---------------------------
(***************************************************************************)
(* Type correctness of the agent, for every set of services and every      *)
(* combination of faults; the shapes that its steps have (what they write  *)
(* to commands.json, what they change at the control plane, and where they *)
(* take Process); what survives in commands.json: acknowledged results are *)
(* durable, and no sync runs for an assignment whose stopped report is     *)
(* still open; and what the control plane can rely on: the head of a       *)
(* service is a published revision, and when assignments of a service do   *)
(* not overlap, acknowledged stops are synced and no stored result is ever *)
(* replaced.                                                               *)
(***************************************************************************)
EXTENDS NodeAgent, TLAPS

\* A leaf is tried with Zenon, then with the SMT solver.
USE ZenonT(5), SMTT(15)

-----------------------------------------------------------------------------
(* Types of the store and of the daemon's position *)

TypeStore == mem \in Store /\ disk \in Store

TypeProc ==
    /\ pc \in PC /\ cmd \in Command \cup {NoCommand} /\ res \in Status
    /\ lost \in BOOLEAN /\ lease \in BOOLEAN
    /\ Processing <=> cmd # NoCommand

TypeHost == container \in [Service -> Container] /\ ws \in [Service -> Workspace]

TypePlane ==
    /\ issued \subseteq Command /\ revOf \in [Command -> Nat]
    /\ acked \in [Command -> Status]
    /\ started \subseteq Slot /\ stopped \subseteq Slot /\ synced \subseteq Slot
    /\ rev \in [Service -> Nat]
    /\ blob \in [Service -> SUBSET Manifest]

TypeHist == saved \subseteq Slot /\ healthy \subseteq Slot

\* TypeOK is the conjunction of its parts.
LEMMA TypeParts ==
    TypeOK <=> TypeStore /\ TypeProc /\ TypeHost /\ TypePlane /\ TypeHist
BY DEF TypeOK, TypeStore, TypeProc, TypeHost, TypePlane, TypeHist

\* The command that Process works on is a real one.
LEMMA CommandType ==
    ASSUME TypeProc, Processing
    PROVE  cmd \in Command /\ cmd.svc \in Service /\ cmd.asg \in Assignment
           /\ cmd.kind \in {"start", "stop"}
BY DEF TypeProc, Command

\* NoCommand is not a command.
LEMMA NoCommandIsNone == NoCommand \notin Command
BY DEF NoCommand, Command

\* FileStore.SetActive keeps the shape of the file.
LEMMA WithActiveType ==
    ASSUME mem \in Store, NEW s \in Service, NEW a \in Active
    PROVE  WithActive(s, a) \in Store
BY DEF WithActive, Store

\* FileStore.Commit keeps the shape of the file.
LEMMA WithResultType ==
    ASSUME mem \in Store, NEW c \in Command, NEW r \in Status, NEW a \in Active
    PROVE  WithResult(c, r, a) \in Store
BY Zenon DEF WithResult, Store, Command

\* A write, successful or not, leaves memory and file well-formed.
LEMMA PersistType ==
    ASSUME TypeStore, NEW m \in Store, NEW ok \in BOOLEAN, Persist(m, ok)
    PROVE  TypeStore'
BY DEF TypeStore, Persist

\* The entries the executor writes are assignments in one of their phases.
LEMMA ActiveTypes ==
    /\ NoActive \in Active
    /\ \A a \in Assignment, p \in {"starting", "running", "stopped"} :
           ActiveAs(a, p) \in Active
BY ConstantsAssumption DEF NoActive, ActiveAs, Active, Assignment

\* Moving on inside Process keeps the daemon's types.
LEMMA GotoType ==
    ASSUME TypeProc, Processing, NEW p \in PC \ {"reconcile", "next"}, Goto(p)
    PROVE  TypeProc'
BY DEF TypeProc, Processing, Goto

\* So does moving on with a result.
LEMMA FinishType ==
    ASSUME TypeProc, Processing, NEW p \in PC \ {"reconcile", "next"},
           NEW r \in Status, Finish(p, r)
    PROVE  TypeProc'
BY DEF TypeProc, Processing, Finish

\* A Process that returned works on no command.
LEMMA ReturnType ==
    ASSUME Return
    PROVE  TypeProc'
BY Zenon DEF TypeProc, Processing, Return, PC, Status

\* Commit ends Execute or makes Process return.
LEMMA CommitType ==
    ASSUME TypeStore, TypeProc, Processing, NEW r \in Status, NEW a \in Active,
           Commit(r, a)
    PROVE  TypeStore' /\ TypeProc'
<1>1. PICK ok \in BOOLEAN : /\ Persist(WithResult(cmd, r, a), ok)
                            /\ IF ok THEN Finish("decide", r) ELSE Return
  BY DEF Commit
<1>2. WithResult(cmd, r, a) \in Store
  BY CommandType, WithResultType DEF TypeStore
<1>3. TypeStore'
  BY <1>1, <1>2, PersistType
<1>4. TypeProc'
  BY <1>1, FinishType, ReturnType DEF PC
<1> QED
  BY <1>3, <1>4

\* Executor.Execute works on a real command and a well-formed entry.
LEMMA ActType ==
    ASSUME TypeStore, TypeProc, Processing
    PROVE  Act \in Active
BY CommandType DEF TypeStore, Store, Act

\* The container Docker holds for the command's service is well-formed.
LEMMA BoxType ==
    ASSUME TypeHost, TypeProc, Processing
    PROVE  Box \in Container
BY CommandType DEF TypeHost, Box

\* A missing container and a missing workspace are well-formed.
LEMMA AbsentTypes == NoContainer \in Container /\ NoWorkspace \in Workspace
BY ConstantsAssumption DEF NoContainer, Container, NoWorkspace, Workspace

\* A removal whose error is ignored leaves the container gone or as it was.
LEMMA RemoveType ==
    ASSUME TypeHost, TypeProc, Processing, RemoveIgnoringError
    PROVE  container' \in [Service -> Container]
BY AbsentTypes, BoxType, CommandType DEF RemoveIgnoringError, TypeHost

\* The steps of RestoreAndStart preserve the types.
LEMMA StartStepsType ==
    ASSUME TypeOK, StartSteps
    PROVE  TypeStore' /\ TypeProc' /\ TypeHost' /\ TypePlane' /\ TypeHist'
<1> USE TypeParts
<1>0. Processing
  BY DEF StartSteps, StartRefused, StartAlreadyRunning, StartResume, Restore,
         RestoreFail, SetStarting, RestoreTailFail, StartInvalid,
         StartForeignContainer, StartExisting, StartNew, StartFail, HealthOK,
         HealthTerminal, HealthError, Executing, Restoring, Waiting, Processing
<1>a. cmd \in Command /\ cmd.svc \in Service /\ cmd.asg \in Assignment
  BY <1>0, CommandType
<1>b. Act \in Active /\ NoActive \in Active /\ Box \in Container
  BY <1>0, ActType, BoxType, ActiveTypes
<1>c. /\ ActiveAs(cmd.asg, "starting") \in Active
      /\ ActiveAs(cmd.asg, "running") \in Active
  BY <1>a, ActiveTypes
<1>1. CASE StartRefused
  BY <1>0, <1>1, <1>b, CommitType
     DEF StartRefused, host, plane, hist, TypeHost, TypePlane, TypeHist, Status
<1>2. CASE StartAlreadyRunning
  BY <1>0, <1>2, <1>b, CommitType
     DEF StartAlreadyRunning, host, plane, hist, TypeHost, TypePlane, TypeHist, Status
<1>3. CASE StartResume
  BY <1>0, <1>3, GotoType
     DEF StartResume, store, host, plane, hist, TypeStore, TypeHost, TypePlane, TypeHist, PC
<1>4. CASE Restore
  <2>1. PICK m \in blob[cmd.svc] :
           ws' = [ws EXCEPT ![cmd.svc] =
                     [there |-> TRUE, owner |-> cmd.asg, data |-> m.data]]
    BY <1>4 DEF Restore
  <2>2. m \in Manifest
    BY <1>a DEF TypePlane
  <2>3. [there |-> TRUE, owner |-> cmd.asg, data |-> m.data] \in Workspace
    BY <2>2, <1>a, ConstantsAssumption DEF Workspace, Manifest, Assignment
  <2>4. ws' \in [Service -> Workspace]
    BY <2>1, <2>3, <1>a DEF TypeHost
  <2>5. TypeProc'
    BY <1>0, <1>4, GotoType DEF Restore, PC
  <2> QED
    BY <1>4, <2>4, <2>5
       DEF Restore, store, plane, hist, TypeStore, TypeHost, TypePlane, TypeHist
<1>5. CASE RestoreFail
  <2>1. PICK w \in {ws[cmd.svc], NoWorkspace} : ws' = [ws EXCEPT ![cmd.svc] = w]
    BY <1>5 DEF RestoreFail
  <2>2. w \in Workspace
    BY <1>a, AbsentTypes DEF TypeHost
  <2>3. ws' \in [Service -> Workspace]
    BY <2>1, <2>2, <1>a DEF TypeHost
  <2>4. TypeProc'
    BY <1>5, ReturnType DEF RestoreFail
  <2> QED
    BY <1>5, <2>3, <2>4
       DEF RestoreFail, store, plane, hist, TypeStore, TypeHost, TypePlane, TypeHist
<1>6. CASE SetStarting
  <2>1. PICK ok \in BOOLEAN :
           /\ Persist(WithActive(cmd.svc, ActiveAs(cmd.asg, "starting")), ok)
           /\ IF ok THEN Goto("dockerStart") ELSE Return
    BY <1>6 DEF SetStarting
  <2>2. TypeStore'
    BY <2>1, <1>a, <1>c, WithActiveType, PersistType DEF TypeStore
  <2>3. TypeProc'
    BY <2>1, <1>0, GotoType, ReturnType DEF PC
  <2> QED
    BY <1>6, <2>2, <2>3 DEF SetStarting, host, plane, hist, TypeHost, TypePlane, TypeHist
<1>7. CASE RestoreTailFail
  BY <1>7, ReturnType
     DEF RestoreTailFail, store, host, plane, hist, TypeStore, TypeHost, TypePlane, TypeHist
<1>8. CASE StartInvalid
  <2>1. container' \in [Service -> Container]
    BY <1>8, <1>a, <1>b, AbsentTypes DEF StartInvalid, TypeHost
  <2>2. TypeStore' /\ TypeProc'
    BY <1>8, <1>0, <1>b, CommitType DEF StartInvalid, Status
  <2> QED
    BY <1>8, <2>1, <2>2 DEF StartInvalid, plane, hist, TypeHost, TypePlane, TypeHist
<1>9. CASE StartForeignContainer
  BY <1>9, ReturnType
     DEF StartForeignContainer, store, host, plane, hist, TypeStore, TypeHost, TypePlane,
         TypeHist
<1>10. CASE StartExisting
  BY <1>0, <1>10, GotoType
     DEF StartExisting, store, host, plane, hist, TypeStore, TypeHost, TypePlane, TypeHist, PC
<1>11. CASE StartNew
  <2>1. container' \in [Service -> Container]
    BY <1>11, <1>a, ConstantsAssumption DEF StartNew, Container, TypeHost, Assignment
  <2>2. TypeProc'
    BY <1>0, <1>11, GotoType DEF StartNew, PC
  <2> QED
    BY <1>11, <2>1, <2>2
       DEF StartNew, store, plane, hist, TypeStore, TypeHost, TypePlane, TypeHist
<1>12. CASE StartFail
  <2>1. container' \in [Service -> Container]
    <3>1. Created \in Container
      BY <1>a, ConstantsAssumption DEF Created, Container, Assignment
    <3> QED
      BY <1>12, <1>a, <3>1, AbsentTypes DEF StartFail, TypeHost
  <2>2. TypeProc'
    BY <1>12, ReturnType DEF StartFail
  <2> QED
    BY <1>12, <2>1, <2>2
       DEF StartFail, store, plane, hist, TypeStore, TypeHost, TypePlane, TypeHist
<1>13. CASE HealthOK
  <2>1. TypeStore' /\ TypeProc'
    BY <1>13, <1>0, <1>c, CommitType DEF HealthOK, Status
  <2>2. healthy' \subseteq Slot
    BY <1>13, <1>a DEF HealthOK, Slot, TypeHist
  <2> QED
    BY <1>13, <2>1, <2>2 DEF HealthOK, host, plane, TypeHost, TypePlane, TypeHist
<1>14. CASE HealthTerminal
  <2>1. container' \in [Service -> Container]
    BY <1>14, <1>0, RemoveType DEF HealthTerminal, CleanUpStart, TypeHost
  <2>2. TypeStore' /\ TypeProc'
    BY <1>14, <1>0, <1>b, CommitType DEF HealthTerminal, Status
  <2> QED
    BY <1>14, <2>1, <2>2 DEF HealthTerminal, plane, hist, TypeHost, TypePlane, TypeHist
<1>15. CASE HealthError
  <2>1. container' \in [Service -> Container]
    BY <1>15, <1>0, RemoveType DEF HealthError, CleanUpStart, TypeHost
  <2>2. TypeProc'
    BY <1>15, ReturnType DEF HealthError
  <2> QED
    BY <1>15, <2>1, <2>2
       DEF HealthError, store, plane, hist, TypeStore, TypeHost, TypePlane, TypeHist
<1> QED
  BY <1>1, <1>2, <1>3, <1>4, <1>5, <1>6, <1>7, <1>8, <1>9, <1>10, <1>11, <1>12, <1>13,
     <1>14, <1>15 DEF StartSteps

\* The steps of StopAndSync preserve the types.
LEMMA StopStepsType ==
    ASSUME TypeOK, StopSteps
    PROVE  TypeStore' /\ TypeProc' /\ TypeHost' /\ TypePlane' /\ TypeHist'
<1> USE TypeParts
<1>0. Processing
  BY DEF StopSteps, StopUnknown, StopMismatch, StopContainer, StopFail, SetStopped,
         StopNotReported, SyncSeal, SyncPublish, SyncFail, SyncCommit, Executing,
         Stopping, AlreadyStopped, Processing
<1>a. cmd \in Command /\ cmd.svc \in Service /\ cmd.asg \in Assignment
  BY <1>0, CommandType
<1>b. Act \in Active /\ NoActive \in Active /\ Box \in Container
  BY <1>0, ActType, BoxType, ActiveTypes
<1>c. ActiveAs(cmd.asg, "stopped") \in Active
  BY <1>a, ActiveTypes
<1>d. ws[cmd.svc] \in Workspace
  BY <1>a DEF TypeHost
<1>1. CASE StopUnknown
  <2>1. PICK ok \in BOOLEAN :
           /\ Persist(WithActive(cmd.svc, ActiveAs(cmd.asg, "stopped")), ok)
           /\ IF ok THEN Goto("reportStopped") ELSE Return
    BY <1>1 DEF StopUnknown
  <2>2. TypeStore'
    BY <2>1, <1>a, <1>c, WithActiveType, PersistType DEF TypeStore
  <2>3. TypeProc'
    BY <2>1, <1>0, GotoType, ReturnType DEF PC, Reporting
  <2> QED
    BY <1>1, <2>2, <2>3 DEF StopUnknown, host, plane, hist, TypeHost, TypePlane, TypeHist
<1>2. CASE StopMismatch
  BY <1>0, <1>2, <1>b, CommitType
     DEF StopMismatch, host, plane, hist, TypeHost, TypePlane, TypeHist, Status
<1>3. CASE StopContainer
  <2>1. container' \in [Service -> Container]
    BY <1>3, <1>a DEF StopContainer, TypeHost, Container
  <2>2. TypeProc'
    BY <1>3, <1>0, GotoType DEF StopContainer, PC
  <2> QED
    BY <1>3, <2>1, <2>2
       DEF StopContainer, store, plane, hist, TypeStore, TypeHost, TypePlane, TypeHist
<1>4. CASE StopFail
  <2>1. container' \in [Service -> Container]
    BY <1>4, <1>a DEF StopFail, TypeHost, Container
  <2>2. TypeProc'
    BY <1>4, ReturnType DEF StopFail
  <2> QED
    BY <1>4, <2>1, <2>2
       DEF StopFail, store, plane, hist, TypeStore, TypeHost, TypePlane, TypeHist
<1>5. CASE SetStopped
  <2>1. PICK ok \in BOOLEAN :
           /\ Persist(WithActive(cmd.svc, ActiveAs(cmd.asg, "stopped")), ok)
           /\ IF ok THEN Goto("reportStopped") ELSE Return
    BY <1>5 DEF SetStopped
  <2>2. TypeStore'
    BY <2>1, <1>a, <1>c, WithActiveType, PersistType DEF TypeStore
  <2>3. TypeProc'
    BY <2>1, <1>0, GotoType, ReturnType DEF PC, Reporting
  <2> QED
    BY <1>5, <2>2, <2>3 DEF SetStopped, host, plane, hist, TypeHost, TypePlane, TypeHist
<1>6. CASE StopNotReported
  <2>1. PICK ok \in BOOLEAN :
           Persist(mem, ok) /\ IF ok THEN Goto("reportStopped") ELSE Return
    BY <1>6 DEF StopNotReported
  <2>2. TypeStore'
    BY <2>1, PersistType DEF TypeStore
  <2>3. TypeProc'
    BY <2>1, <1>0, GotoType, ReturnType DEF PC, Reporting
  <2> QED
    BY <1>6, <2>2, <2>3 DEF StopNotReported, host, plane, hist, TypeHost, TypePlane, TypeHist
<1>7. CASE SyncSeal
  <2>1. EnsureWorkspace(ws[cmd.svc]) \in Workspace
    BY <1>d, ConstantsAssumption DEF EnsureWorkspace, Workspace
  <2>2. ws' \in [Service -> Workspace]
    BY <1>7, <2>1, <1>a DEF SyncSeal, TypeHost
  <2>3. TypeProc'
    BY <1>7, <1>0, GotoType DEF SyncSeal, PC
  <2> QED
    BY <1>7, <2>2, <2>3
       DEF SyncSeal, store, plane, hist, TypeStore, TypeHost, TypePlane, TypeHist
<1>8. CASE SyncPublish
  <2>1. [rev |-> revOf[cmd] + 1, data |-> ws[cmd.svc].data] \in Manifest
    BY <1>a, <1>d DEF TypePlane, Manifest, Workspace
  <2>2. blob' \in [Service -> SUBSET Manifest]
    BY <1>8, <2>1, <1>a DEF SyncPublish, TypePlane
  <2>3. TypeProc'
    BY <1>8, <1>0, GotoType DEF SyncPublish, PC
  <2> QED
    BY <1>8, <2>2, <2>3
       DEF SyncPublish, store, host, hist, TypeStore, TypeHost, TypePlane, TypeHist
<1>9. CASE SyncFail
  BY <1>9, ReturnType
     DEF SyncFail, store, host, plane, hist, TypeStore, TypeHost, TypePlane, TypeHist
<1>10. CASE SyncCommit
  BY <1>0, <1>10, <1>b, CommitType
     DEF SyncCommit, host, plane, hist, TypeHost, TypePlane, TypeHist, Status
<1> QED
  BY <1>1, <1>2, <1>3, <1>4, <1>5, <1>6, <1>7, <1>8, <1>9, <1>10 DEF StopSteps

\* Delivery, the reports, the release and the acknowledgement preserve the types.
LEMMA ProcessStepsType ==
    ASSUME TypeOK, ProcessSteps
    PROVE  TypeStore' /\ TypeProc' /\ TypeHost' /\ TypePlane' /\ TypeHist'
<1> USE TypeParts
<1>1. ASSUME NEW c \in Command, Deliver(c)
      PROVE  TypeStore' /\ TypeProc' /\ TypeHost' /\ TypePlane' /\ TypeHist'
  <2>1. PICK ok \in BOOLEAN : /\ Persist(mem, ok)
                              /\ IF ok THEN /\ pc' = "execute" /\ cmd' = c /\ res' = "none"
                                            /\ lost' = FALSE /\ lease' = TRUE
                                       ELSE UNCHANGED proc
    BY <1>1 DEF Deliver
  <2>2. TypeStore'
    BY <2>1, PersistType DEF TypeStore
  <2>3. TypeProc'
    BY <2>1, NoCommandIsNone DEF TypeProc, Processing, PC, Status, proc
  <2> QED
    BY <1>1, <2>2, <2>3 DEF Deliver, host, plane, hist, TypeHost, TypePlane, TypeHist
<1>2. ASSUME ~ \E c \in Command : Deliver(c)
      PROVE  TypeStore' /\ TypeProc' /\ TypeHost' /\ TypePlane' /\ TypeHist'
  <2>0. Processing
    BY <1>2 DEF ProcessSteps, ExecuteCached, ExecuteLeaseLost, DecideLost, Decide,
           ReportStopped, MarkReported, ReportStarted, ReportSynced, Release,
           ReleaseFail, CheckLease, Ack, ClearLease, CredentialRejected, Reporting,
           Processing
  <2>a. cmd \in Command /\ cmd.svc \in Service /\ cmd.asg \in Assignment
    BY <2>0, CommandType
  <2>b. Act \in Active
    BY <2>0, ActType
  <2>c. <<cmd.svc, cmd.asg>> \in Slot
    BY <2>a DEF Slot
  <2>1. CASE ExecuteCached
    <3>1. mem.results[cmd] \in Status
      BY <2>a DEF TypeStore, Store
    <3> QED
      BY <2>0, <2>1, <3>1, FinishType
         DEF ExecuteCached, store, host, plane, hist, TypeStore, TypeHost, TypePlane, TypeHist, PC
  <2>2. CASE ExecuteLeaseLost
    BY <2>2, ReturnType
       DEF ExecuteLeaseLost, store, host, plane, hist, TypeStore, TypeHost, TypePlane, TypeHist
  <2>3. CASE DecideLost
    BY <2>3, ReturnType
       DEF DecideLost, store, host, plane, hist, TypeStore, TypeHost, TypePlane, TypeHist
  <2>4. CASE Decide
    <3>1. PICK p \in {"reportStarted", "reportSynced", "checkLease"} : Goto(p)
      BY <2>4 DEF Decide
    <3> QED
      BY <2>0, <2>4, <3>1, GotoType
         DEF Decide, store, host, plane, hist, TypeStore, TypeHost, TypePlane, TypeHist, PC,
             Reporting
  <2>5. CASE ReportStopped
    <3>1. TypeProc'
      BY <2>0, <2>5, GotoType DEF ReportStopped, PC, proc, TypeProc, Processing
    <3> QED
      BY <2>5, <2>c, <3>1
         DEF ReportStopped, store, host, hist, TypeStore, TypeHost, TypePlane, TypeHist
  <2>6. CASE MarkReported
    <3>1. PICK ok \in BOOLEAN :
             /\ Persist(WithActive(cmd.svc, [Act EXCEPT !.reported = TRUE]), ok)
             /\ IF ok THEN Goto("execute") ELSE Return
      BY <2>6 DEF MarkReported
    <3>2. [Act EXCEPT !.reported = TRUE] \in Active
      BY <2>b DEF Active
    <3>3. TypeStore'
      BY <3>1, <3>2, <2>a, WithActiveType, PersistType DEF TypeStore
    <3>4. TypeProc'
      BY <2>0, <3>1, GotoType, ReturnType DEF PC
    <3> QED
      BY <2>6, <3>3, <3>4 DEF MarkReported, host, plane, hist, TypeHost, TypePlane, TypeHist
  <2>7. CASE ReportStarted
    <3>1. TypeProc'
      BY <2>0, <2>7, GotoType DEF ReportStarted, PC, proc, TypeProc, Processing
    <3> QED
      BY <2>7, <2>c, <3>1
         DEF ReportStarted, store, host, hist, TypeStore, TypeHost, TypePlane, TypeHist
  <2>8. CASE ReportSynced
    <3>1. TypeProc'
      BY <2>0, <2>8, GotoType DEF ReportSynced, PC, proc, TypeProc, Processing
    <3>2. rev' \in [Service -> Nat]
      BY <2>8, <2>a DEF ReportSynced, TypePlane
    <3> QED
      BY <2>8, <2>c, <3>1, <3>2
         DEF ReportSynced, store, host, hist, TypeStore, TypeHost, TypePlane, TypeHist
  <2>9. CASE Release
    <3>1. ws' \in [Service -> Workspace]
      BY <2>9, <2>a, AbsentTypes DEF Release, TypeHost
    <3> QED
      BY <2>0, <2>9, <3>1, GotoType
         DEF Release, store, plane, hist, TypeStore, TypeHost, TypePlane, TypeHist, PC
  <2>10. CASE ReleaseFail
    <3>1. ws' \in [Service -> Workspace]
      BY <2>10, <2>a, AbsentTypes DEF ReleaseFail, TypeHost
    <3> QED
      BY <2>10, <3>1, ReturnType
         DEF ReleaseFail, store, plane, hist, TypeStore, TypeHost, TypePlane, TypeHist
  <2>11. CASE CheckLease
    BY <2>0, <2>11, GotoType, ReturnType
       DEF CheckLease, store, host, plane, hist, TypeStore, TypeHost, TypePlane, TypeHist, PC,
           Reporting
  <2>12. CASE Ack
    <3>1. TypeProc'
      BY <2>0, <2>12, GotoType DEF Ack, PC, proc, TypeProc, Processing
    <3>2. acked' \in [Command -> Status]
      BY <2>12, <2>a DEF Ack, TypePlane, TypeProc
    <3> QED
      BY <2>12, <3>1, <3>2
         DEF Ack, store, host, hist, TypeStore, TypeHost, TypePlane, TypeHist
  <2>13. CASE ClearLease
    <3>1. TypeStore'
      BY <2>13, PersistType DEF ClearLease, TypeStore
    <3> QED
      BY <2>13, <3>1, ReturnType DEF ClearLease, host, plane, hist, TypeHost, TypePlane, TypeHist
  <2>14. CASE CredentialRejected
    BY <2>14, ReturnType
       DEF CredentialRejected, store, host, plane, hist, TypeStore, TypeHost, TypePlane, TypeHist
  <2> QED
    BY <1>2, <2>1, <2>2, <2>3, <2>4, <2>5, <2>6, <2>7, <2>8, <2>9, <2>10, <2>11, <2>12, <2>13,
       <2>14
       DEF ProcessSteps
<1> QED
  BY <1>1, <1>2

\* Lease renewal, restart and the environment preserve the types.
LEMMA OtherStepsType ==
    ASSUME TypeOK, LeaseSteps \/ RestartSteps \/ Environment
    PROVE  TypeStore' /\ TypeProc' /\ TypeHost' /\ TypePlane' /\ TypeHist'
<1> USE TypeParts
<1>1. CASE Renew
  <2>1. TypeStore'
    BY <1>1, PersistType DEF Renew, TypeStore
  <2> QED
    BY <1>1, <2>1 DEF Renew, host, plane, hist, TypeProc, Processing, TypeHost, TypePlane,
       TypeHist
<1>2. CASE RenewFail \/ LeaseLapse
  BY <1>2 DEF RenewFail, LeaseLapse, store, host, plane, hist, TypeStore, TypeProc,
              Processing, TypeHost, TypePlane, TypeHist
<1>3. CASE Crash
  BY <1>3 DEF Crash, host, plane, hist, TypeStore, TypeProc, Processing, TypeHost,
              TypePlane, TypeHist, PC, Status
<1>4. CASE ReconcileDone
  BY <1>4 DEF ReconcileDone, Goto, store, host, plane, hist, TypeStore, TypeProc, Processing,
              TypeHost, TypePlane, TypeHist, PC
<1>5. ASSUME NEW s \in Service, ReconcileOrphan(s)
      PROVE  TypeStore' /\ TypeProc' /\ TypeHost' /\ TypePlane' /\ TypeHist'
  <2>1. container' \in [Service -> Container]
    BY <1>5, AbsentTypes DEF ReconcileOrphan, TypeHost
  <2> QED
    BY <1>5, <2>1 DEF ReconcileOrphan, store, proc, plane, hist, TypeStore, TypeProc,
                      Processing, TypeHost, TypePlane, TypeHist
<1>6. ASSUME NEW s \in Service, ReconcileStarting(s)
      PROVE  TypeStore' /\ TypeProc' /\ TypeHost' /\ TypePlane' /\ TypeHist'
  <2>1. [mem.active[s] EXCEPT !.phase = "running"] \in Active
    BY DEF TypeStore, Store, Active
  <2>2. TypeStore'
    BY <1>6, <2>1, WithActiveType, PersistType DEF ReconcileStarting, TypeStore
  <2> QED
    BY <1>6, <2>2 DEF ReconcileStarting, proc, host, plane, hist, TypeProc, Processing,
                      TypeHost, TypePlane, TypeHist
<1>7. ASSUME NEW s \in Service, Play(s)
      PROVE  TypeStore' /\ TypeProc' /\ TypeHost' /\ TypePlane' /\ TypeHist'
  <2>1. ws[s] \in Workspace /\ container[s] \in Container
    BY DEF TypeHost
  <2>2. container[s].asg \in Assignment
    BY <1>7, <2>1 DEF Play, Workspace, Container, Assignment
  <2>3. <<s, container[s].asg>> \in Slot
    BY <2>2 DEF Slot
  <2>4. [ws[s] EXCEPT !.data = @ \cup {container[s].asg}] \in Workspace
    BY <2>1, <2>2 DEF Workspace
  <2>5. ws' \in [Service -> Workspace]
    BY <1>7, <2>4 DEF Play, TypeHost
  <2> QED
    BY <1>7, <2>3, <2>5 DEF Play, store, proc, plane, TypeStore, TypeProc, Processing,
                            TypeHost, TypePlane, TypeHist
<1>8. ASSUME NEW s \in Service, ContainerExit(s)
      PROVE  TypeStore' /\ TypeProc' /\ TypeHost' /\ TypePlane' /\ TypeHist'
  <2>1. container' \in [Service -> Container]
    BY <1>8 DEF ContainerExit, TypeHost, Container
  <2> QED
    BY <1>8, <2>1 DEF ContainerExit, store, proc, plane, hist, TypeStore, TypeProc,
                      Processing, TypeHost, TypePlane, TypeHist
<1>9. ASSUME NEW s \in Service, NEW a \in Assignment, IssueStart(s, a) \/ IssueStop(s, a)
      PROVE  TypeStore' /\ TypeProc' /\ TypeHost' /\ TypePlane' /\ TypeHist'
  <2>1. PICK c \in Command : Issue(c)
    BY <1>9 DEF IssueStart, IssueStop, StartOf, StopOf, Command
  <2>2. rev[c.svc] \in Nat
    BY DEF TypePlane, Command
  <2>3. revOf' \in [Command -> Nat]
    BY <2>1, <2>2 DEF Issue, TypePlane
  <2> QED
    BY <2>1, <2>3 DEF Issue, store, proc, host, hist, TypeStore, TypeProc, Processing,
                      TypeHost, TypePlane, TypeHist
<1> QED
  BY <1>1, <1>2, <1>3, <1>4, <1>5, <1>6, <1>7, <1>8, <1>9
     DEF LeaseSteps, RestartSteps, Environment

\* The agent starts from an empty store, an empty node and revision 0.
LEMMA InitType == Init => TypeOK
<1> SUFFICES ASSUME Init PROVE TypeOK
  OBVIOUS
<1>1. TypeStore
  BY ActiveTypes DEF Init, EmptyStore, TypeStore, Store, Status
<1>2. TypeProc
  BY Zenon DEF Init, TypeProc, PC, Status, Processing
<1>3. TypeHost
  BY AbsentTypes DEF Init, TypeHost
<1>4. TypePlane /\ TypeHist
  BY DEF Init, TypePlane, TypeHist, Status, Manifest
<1> QED
  BY <1>1, <1>2, <1>3, <1>4, TypeParts

\* No step of the agent, of its restart or of its environment breaks a type.
LEMMA NextType == TypeOK /\ [Next]_vars => TypeOK'
<1> SUFFICES ASSUME TypeOK, [Next]_vars PROVE TypeOK'
  OBVIOUS
<1>1. CASE Next
  <2>1. TypeStore' /\ TypeProc' /\ TypeHost' /\ TypePlane' /\ TypeHist'
    BY <1>1, StartStepsType, StopStepsType, ProcessStepsType, OtherStepsType DEF Next
  <2> QED
    BY <2>1 DEF TypeOK, TypeStore, TypeProc, TypeHost, TypePlane, TypeHist
<1>2. CASE UNCHANGED vars
  BY <1>2 DEF vars, TypeOK, Processing
<1> QED
  BY <1>1, <1>2

\* The agent's durable state, its position, the node and the control plane keep
\* the shape the Go types give them, through every crash and failed write.
THEOREM TypeCorrect == Spec => []TypeOK
BY InitType, NextType, PTL DEF Spec

-----------------------------------------------------------------------------
(* What a step does to the store and to the control plane *)

\* Execute has returned the result that Process reports and acknowledges.
AfterExecute == {"decide", "reportStarted", "reportSynced", "release",
                 "checkLease", "ack", "clearLease"}

\* FileStore.SetActive by the command in progress: the entries it may write.
SetsEntry(e) ==
    \/ pc = "setStarting" /\ e = ActiveAs(cmd.asg, "starting")
    \/ Executing("stop") /\ Act.phase = "none" /\ e = ActiveAs(cmd.asg, "stopped")
    \/ pc = "setStopped" /\ e = ActiveAs(cmd.asg, "stopped")
    \/ /\ pc = "markReported" /\ Act.asg = cmd.asg /\ Act.phase = "stopped"
       /\ e = [Act EXCEPT !.reported = TRUE]

\* FileStore.Commit by the command in progress: results, and the entries with them.
Commits(r, e) ==
    \/ Executing("start") /\ OtherAssignmentActive /\ r = "failed" /\ e = Act
    \/ /\ Executing("start") /\ Act.phase = "running" /\ Act.asg = cmd.asg
       /\ r = "started" /\ e = Act
    \/ pc \in {"dockerStart", "waitNew", "waitOld"} /\ r = "failed-coded" /\ e = NoActive
    \/ pc \in {"waitNew", "waitOld"} /\ r = "started" /\ e = ActiveAs(cmd.asg, "running")
    \/ Executing("stop") /\ Act.phase # "none" /\ Act.asg # cmd.asg /\ r = "failed" /\ e = Act
    \/ pc = "syncDone" /\ r = "stopped-and-synced" /\ e = NoActive

\* The file is written again, or read back after a restart.
Rereads == \/ mem' = mem /\ disk' \in {mem, disk}
           \/ mem' = disk /\ disk' = disk

\* Every step of the agent does one of these to its store.
StoreStep ==
    \/ Rereads
    \/ /\ Processing
       /\ \E ok \in BOOLEAN, e \in Active : SetsEntry(e) /\ Persist(WithActive(cmd.svc, e), ok)
    \/ /\ Processing /\ pc' \in {"decide", "next"}
       /\ \E ok \in BOOLEAN, r \in Status, e \in Active :
             Commits(r, e) /\ Persist(WithResult(cmd, r, e), ok)
    \/ \E s \in Service : ReconcileStarting(s)

\* The control plane and the object store forget nothing.
PlaneGrows ==
    /\ issued \subseteq issued' /\ \A c \in issued : revOf'[c] = revOf[c]
    /\ \A s \in Service : blob[s] \subseteq blob'[s]
    /\ started \subseteq started' /\ synced \subseteq synced'

\* The steps of RestoreAndStart write as listed.
LEMMA StartStore ==
    ASSUME TypeOK, StartSteps
    PROVE  Processing /\ StoreStep /\ UNCHANGED plane
<1>0. Processing
  BY DEF StartSteps, StartRefused, StartAlreadyRunning, StartResume, Restore,
         RestoreFail, SetStarting, RestoreTailFail, StartInvalid,
         StartForeignContainer, StartExisting, StartNew, StartFail, HealthOK,
         HealthTerminal, HealthError, Executing, Restoring, Waiting, Processing
<1>1. /\ Act \in Active /\ NoActive \in Active /\ ActiveAs(cmd.asg, "starting") \in Active
      /\ ActiveAs(cmd.asg, "running") \in Active
  BY <1>0, TypeParts, CommandType, ActType, ActiveTypes
<1>2. UNCHANGED plane
  BY DEF StartSteps, StartRefused, StartAlreadyRunning, StartResume, Restore,
         RestoreFail, SetStarting, RestoreTailFail, StartInvalid,
         StartForeignContainer, StartExisting, StartNew, StartFail, HealthOK,
         HealthTerminal, HealthError
<1>3. CASE StartRefused \/ StartAlreadyRunning \/ StartInvalid \/ HealthOK \/ HealthTerminal
  <2>1. PICK r \in Status, e \in {Act, NoActive, ActiveAs(cmd.asg, "running")} :
           Commits(r, e) /\ Commit(r, e)
    BY <1>3
       DEF StartRefused, StartAlreadyRunning, StartInvalid, HealthOK, HealthTerminal,
                Commits, Waiting, OtherAssignmentActive, Status
  <2> QED
    BY <1>0, <1>1, <1>2, <2>1 DEF Commit, StoreStep, Finish, Return
<1>4. CASE SetStarting
  BY <1>0, <1>1, <1>2, <1>4 DEF SetStarting, SetsEntry, StoreStep
<1>5. CASE \/ StartResume \/ Restore \/ StartExisting \/ StartNew \/ RestoreFail
           \/ RestoreTailFail \/ StartForeignContainer \/ StartFail \/ HealthError
  BY <1>0, <1>2, <1>5
     DEF StartResume, Restore, StartExisting, StartNew, RestoreFail, RestoreTailFail,
         StartForeignContainer, StartFail, HealthError, store, StoreStep, Rereads
<1> QED
  BY <1>3, <1>4, <1>5 DEF StartSteps

\* So do the steps of StopAndSync, of which one publishes.
LEMMA StopStore ==
    ASSUME TypeOK, StopSteps
    PROVE  /\ Processing /\ StoreStep /\ PlaneGrows
           /\ UNCHANGED <<issued, revOf, acked, started, stopped, synced, rev>>
<1>0. Processing
  BY DEF StopSteps, StopUnknown, StopMismatch, StopContainer, StopFail, SetStopped,
         StopNotReported, SyncSeal, SyncPublish, SyncFail, SyncCommit, Executing,
         Stopping, AlreadyStopped, Processing
<1>1. /\ cmd.svc \in Service /\ Act \in Active /\ NoActive \in Active
      /\ ActiveAs(cmd.asg, "stopped") \in Active
  BY <1>0, TypeParts, CommandType, ActType, ActiveTypes
<1>2. UNCHANGED <<issued, revOf, acked, started, stopped, synced, rev>>
  BY DEF StopSteps, StopUnknown, StopMismatch, StopContainer, StopFail, SetStopped,
         StopNotReported, SyncSeal, SyncPublish, SyncFail, SyncCommit, plane
<1>3. \A s \in Service : blob[s] \subseteq blob'[s]
  <2>1. CASE SyncPublish
    BY <1>1, <2>1 DEF SyncPublish, TypeOK
  <2>2. CASE ~SyncPublish
    BY <2>2 DEF StopSteps, StopUnknown, StopMismatch, StopContainer, StopFail, SetStopped,
                StopNotReported, SyncSeal, SyncFail, SyncCommit, plane
  <2> QED
    BY <2>1, <2>2
<1>4. PlaneGrows
  BY <1>2, <1>3 DEF PlaneGrows
<1>5. CASE StopMismatch \/ SyncCommit
  <2>1. PICK r \in Status, e \in {Act, NoActive} : Commits(r, e) /\ Commit(r, e)
    BY <1>5 DEF StopMismatch, SyncCommit, Commits, Status
  <2> QED
    BY <1>0, <1>1, <1>2, <1>4, <2>1 DEF Commit, StoreStep, Finish, Return
<1>6. CASE StopUnknown \/ SetStopped
  BY <1>0, <1>1, <1>2, <1>4, <1>6 DEF StopUnknown, SetStopped, SetsEntry, StoreStep
<1>7. CASE StopContainer \/ StopFail \/ StopNotReported \/ SyncSeal \/ SyncPublish \/ SyncFail
  BY <1>0, <1>2, <1>4, <1>7
     DEF StopContainer, StopFail, StopNotReported, SyncSeal, SyncPublish, SyncFail, Persist,
         store, StoreStep, Rereads
<1> QED
  BY <1>5, <1>6, <1>7 DEF StopSteps

\* So does Process, and so do renewals, restarts and the environment.
LEMMA OtherStore ==
    ASSUME TypeOK, ProcessSteps \/ LeaseSteps \/ RestartSteps \/ Environment
    PROVE  StoreStep /\ PlaneGrows
<1>1. CASE MarkReported
  <2>1. Processing /\ [Act EXCEPT !.reported = TRUE] \in Active
    BY <1>1, TypeParts, ActType DEF MarkReported, Processing, Active
  <2> QED
    BY <1>1, <2>1 DEF MarkReported, SetsEntry, StoreStep, plane, PlaneGrows
<1>2. CASE ReportStopped \/ ReportStarted \/ ReportSynced \/ Ack
  BY <1>2
     DEF ReportStopped, ReportStarted, ReportSynced, Ack, store, StoreStep, Rereads,
              PlaneGrows
<1>3. CASE \/ \E c \in Command : Deliver(c)
           \/ ExecuteCached \/ ExecuteLeaseLost \/ DecideLost \/ Decide \/ Release
           \/ ReleaseFail \/ CheckLease \/ ClearLease \/ CredentialRejected
           \/ LeaseSteps \/ Crash \/ ReconcileDone
  BY <1>3
     DEF Deliver, ExecuteCached, ExecuteLeaseLost, DecideLost, Decide, Release,
              ReleaseFail, CheckLease, ClearLease, CredentialRejected, LeaseSteps, Renew,
              RenewFail, LeaseLapse, Crash, ReconcileDone, Persist, store, plane,
              StoreStep, Rereads, PlaneGrows
<1>4. ASSUME NEW s \in Service,
             ReconcileOrphan(s) \/ ReconcileStarting(s) \/ Play(s) \/ ContainerExit(s)
      PROVE  StoreStep /\ PlaneGrows
  <2>1. UNCHANGED plane
    BY <1>4 DEF ReconcileOrphan, ReconcileStarting, Play, ContainerExit
  <2>2. StoreStep
    BY <1>4 DEF ReconcileOrphan, Play, ContainerExit, store, StoreStep, Rereads
  <2> QED
    BY <2>1, <2>2 DEF plane, PlaneGrows
<1>5. ASSUME NEW s \in Service, NEW a \in Assignment, IssueStart(s, a) \/ IssueStop(s, a)
      PROVE  StoreStep /\ PlaneGrows
  <2>1. PICK c : Issue(c)
    BY <1>5 DEF IssueStart, IssueStop
  <2> QED
    BY <2>1 DEF Issue, store, StoreStep, Rereads, PlaneGrows, TypeOK
<1> QED
  BY <1>1, <1>2, <1>3, <1>4, <1>5 DEF ProcessSteps, RestartSteps, Environment

\* Every step has these two shapes.
LEMMA StepShape ==
    ASSUME TypeOK, [Next]_vars
    PROVE  StoreStep /\ PlaneGrows
<1>1. CASE UNCHANGED vars
  BY <1>1 DEF vars, StoreStep, Rereads, PlaneGrows
<1>2. CASE StartSteps
  BY <1>2, StartStore DEF plane, PlaneGrows
<1> QED
  BY <1>1, <1>2, StopStore, OtherStore DEF Next

\* Who changes what the control plane and the object store hold.
PlaneStep ==
    \/ UNCHANGED <<issued, revOf, acked, started, synced, rev, blob>>
    \/ SyncPublish \/ ReportStarted \/ ReportSynced \/ Ack
    \/ \E s \in Service, a \in Assignment : IssueStart(s, a) \/ IssueStop(s, a)

\* Every step is one of these to the control plane.
LEMMA PlaneShape ==
    ASSUME [Next]_vars
    PROVE  PlaneStep
<1>1. CASE StartSteps
  BY <1>1 DEF StartSteps, StartRefused, StartAlreadyRunning, StartResume, Restore,
              RestoreFail, SetStarting, RestoreTailFail, StartInvalid,
              StartForeignContainer, StartExisting, StartNew, StartFail, HealthOK,
              HealthTerminal, HealthError, plane, PlaneStep
<1>2. CASE StopSteps
  BY <1>2 DEF StopSteps, StopUnknown, StopMismatch, StopContainer, StopFail, SetStopped,
              StopNotReported, SyncSeal, SyncFail, SyncCommit, plane, PlaneStep
<1>3. CASE ProcessSteps \/ LeaseSteps
  BY <1>3 DEF ProcessSteps, Deliver, ExecuteCached, ExecuteLeaseLost, DecideLost, Decide,
              ReportStopped, MarkReported, Release, ReleaseFail, CheckLease, ClearLease,
              CredentialRejected, LeaseSteps, Renew, RenewFail, LeaseLapse, plane, PlaneStep
<1>4. CASE RestartSteps \/ Environment
  BY <1>4
     DEF RestartSteps, Crash, ReconcileDone, ReconcileOrphan, ReconcileStarting,
              Environment, Play, ContainerExit, plane, PlaneStep
<1>5. CASE UNCHANGED vars
  BY <1>5 DEF vars, PlaneStep
<1> QED
  BY <1>1, <1>2, <1>3, <1>4, <1>5 DEF Next

\* How Process moves between its positions while it works on one command.
Moves ==
    \/ UNCHANGED <<pc, res>>
    \/ /\ pc = "execute" /\ ~Cached(mem.results[cmd]) /\ res' = res
       /\ \/ cmd.kind = "start" /\ pc' = "dockerStart"
          \/ cmd.kind = "start" /\ pc' = "setStarting" /\ Restore
          \/ cmd.kind = "stop" /\ pc' \in {"setStopped", "reportStopped", "publish"}
    \/ /\ res' = res
       /\ <<pc, pc'>> \in {<<"setStarting", "dockerStart">>, <<"dockerStart", "waitNew">>,
                           <<"dockerStart", "waitOld">>, <<"setStopped", "reportStopped">>,
                           <<"reportStopped", "markReported">>, <<"markReported", "execute">>,
                           <<"reportStarted", "checkLease">>, <<"release", "checkLease">>,
                           <<"checkLease", "ack">>, <<"ack", "clearLease">>}
    \/ pc = "publish" /\ pc' = "syncDone" /\ SyncPublish
    \/ /\ pc' = "decide" /\ pc \notin AfterExecute /\ res' = mem'.results[cmd]
       /\ Cached(res') \/ \E e \in Active : Commits(res', e)
    \/ /\ pc = "decide" /\ res' = res
       /\ \/ pc' = "reportStarted" /\ res = "started"
          \/ pc' = "reportSynced" /\ res = "stopped-and-synced"
          \/ pc' = "checkLease" /\ res \notin {"started", "stopped-and-synced"}
    \/ pc = "reportSynced" /\ pc' = "release" /\ res' = res /\ <<cmd.svc, cmd.asg>> \in synced'

\* Process is called for a deliverable command and works on it until it returns.
ControlStep ==
    \/ pc' \in {"reconcile", "next"}
    \/ pc = "next" /\ pc' = "execute" /\ \E c \in Command : Deliver(c) /\ cmd' = c
    \/ Processing /\ cmd' = cmd /\ Moves

\* The steps of RestoreAndStart move as listed.
LEMMA StartControl ==
    ASSUME TypeOK, StartSteps
    PROVE  ControlStep
<1>0. Processing
  BY StartStore
<1>1. CASE StartRefused \/ StartAlreadyRunning \/ StartInvalid \/ HealthOK \/ HealthTerminal
  <2>1. PICK r \in Status, e \in {Act, NoActive, ActiveAs(cmd.asg, "running")} :
           Commits(r, e) /\ Commit(r, e) /\ pc \notin AfterExecute
    BY <1>1
       DEF StartRefused, StartAlreadyRunning, StartInvalid, HealthOK, HealthTerminal,
                Executing, Commits, Waiting, OtherAssignmentActive, Status, AfterExecute
  <2>2. e \in Active
    BY <1>0, <2>1, TypeParts, CommandType, ActType, ActiveTypes
  <2>3. PICK ok \in BOOLEAN : /\ Persist(WithResult(cmd, r, e), ok)
                              /\ IF ok THEN Finish("decide", r) ELSE Return
    BY <2>1 DEF Commit
  <2>4. mem'.results[cmd] = r
    BY <1>0, <2>3, TypeParts, CommandType DEF Persist, WithResult, TypeStore, Store
  <2> QED
    BY <1>0, <2>1, <2>2, <2>3, <2>4 DEF ControlStep, Moves, Finish, Return
<1>2. CASE StartResume
  BY <1>0, <1>2 DEF StartResume, Executing, Goto, ControlStep, Moves
<1>5. CASE Restore
  <2>1. /\ pc = "execute" /\ ~Cached(mem.results[cmd]) /\ cmd.kind = "start" /\ cmd' = cmd
        /\ pc' = "setStarting" /\ res' = res
    BY <1>5 DEF Restore, Restoring, Executing, Goto
  <2> QED
    BY <1>0, <1>5, <2>1 DEF ControlStep, Moves
<1>3. CASE SetStarting \/ StartExisting \/ StartNew
  BY <1>0, <1>3 DEF SetStarting, StartExisting, StartNew, Goto, Return, ControlStep, Moves
<1>4. CASE RestoreFail \/ RestoreTailFail \/ StartForeignContainer \/ StartFail \/ HealthError
  BY <1>4 DEF RestoreFail, RestoreTailFail, StartForeignContainer, StartFail, HealthError,
              Return, ControlStep
<1> QED
  BY <1>1, <1>2, <1>3, <1>4, <1>5 DEF StartSteps

\* So do the steps of StopAndSync.
LEMMA StopControl ==
    ASSUME TypeOK, StopSteps
    PROVE  ControlStep
<1>0. Processing
  BY StopStore
<1>1. CASE StopMismatch \/ SyncCommit
  <2>1. PICK r \in Status, e \in {Act, NoActive} :
           Commits(r, e) /\ Commit(r, e) /\ pc \notin AfterExecute
    BY <1>1 DEF StopMismatch, SyncCommit, Executing, Commits, Status, AfterExecute
  <2>2. e \in Active
    BY <1>0, <2>1, TypeParts, CommandType, ActType, ActiveTypes
  <2>3. PICK ok \in BOOLEAN : /\ Persist(WithResult(cmd, r, e), ok)
                              /\ IF ok THEN Finish("decide", r) ELSE Return
    BY <2>1 DEF Commit
  <2>4. mem'.results[cmd] = r
    BY <1>0, <2>3, TypeParts, CommandType DEF Persist, WithResult, TypeStore, Store
  <2> QED
    BY <1>0, <2>1, <2>2, <2>3, <2>4 DEF ControlStep, Moves, Finish, Return
<1>2. CASE StopUnknown \/ StopNotReported
  BY <1>0, <1>2 DEF StopUnknown, StopNotReported, AlreadyStopped, Executing, Goto, Return,
                    ControlStep, Moves
<1>3. CASE StopContainer \/ SyncSeal
  BY <1>0, <1>3 DEF StopContainer, Stopping, SyncSeal, AlreadyStopped, Executing, Goto,
                    ControlStep, Moves
<1>4. CASE SetStopped
  BY <1>0, <1>4 DEF SetStopped, Goto, Return, ControlStep, Moves
<1>5. CASE SyncPublish
  <2>1. pc = "publish" /\ pc' = "syncDone" /\ cmd' = cmd
    BY <1>5 DEF SyncPublish, Goto
  <2> QED
    BY <1>0, <1>5, <2>1 DEF ControlStep, Moves
<1>6. CASE StopFail \/ SyncFail
  BY <1>6 DEF StopFail, SyncFail, Return, ControlStep
<1> QED
  BY <1>1, <1>2, <1>3, <1>4, <1>5, <1>6 DEF StopSteps

\* So do delivery, reports and acknowledgement.
LEMMA ProcessControl ==
    ASSUME TypeOK, ProcessSteps
    PROVE  ControlStep
<1>1. ASSUME NEW c \in Command, Deliver(c)
      PROVE  ControlStep
  BY <1>1 DEF Deliver, proc, ControlStep
<1>2. CASE ExecuteCached
  BY <1>2 DEF ExecuteCached, Finish, store, Processing, ControlStep, Moves, AfterExecute
<1>3. CASE Decide
  BY <1>3 DEF Decide, Goto, Processing, ControlStep, Moves
<1>4. CASE \/ ReportStopped \/ MarkReported \/ ReportStarted \/ Release \/ CheckLease \/ Ack
  BY <1>4 DEF ReportStopped, MarkReported, ReportStarted, Release, CheckLease, Ack, Goto,
              Return, Processing, ControlStep, Moves, proc
<1>5. CASE ReportSynced
  BY <1>5 DEF ReportSynced, Goto, Processing, ControlStep, Moves, proc
<1>6. CASE \/ ExecuteLeaseLost \/ DecideLost \/ ReleaseFail \/ ClearLease \/ CredentialRejected
  BY <1>6 DEF ExecuteLeaseLost, DecideLost, ReleaseFail, ClearLease, CredentialRejected,
              Return, ControlStep
<1> QED
  BY <1>1, <1>2, <1>3, <1>4, <1>5, <1>6 DEF ProcessSteps

\* A step that leaves the daemon where it is follows the control flow.
LEMMA StayControl ==
    ASSUME TypeOK, UNCHANGED <<pc, cmd, res>>
    PROVE  ControlStep
BY DEF ControlStep, Moves, Processing

\* Every step of the system moves Process along its positions, or not at all.
LEMMA ControlFlow ==
    ASSUME TypeOK, [Next]_vars
    PROVE  ControlStep
<1>1. CASE UNCHANGED vars
  BY <1>1, StayControl DEF vars
<1>2. CASE LeaseSteps
  BY <1>2, StayControl DEF LeaseSteps, Renew, RenewFail, LeaseLapse
<1>3. CASE RestartSteps \/ Environment
  <2>1. CASE Crash \/ ReconcileDone
    BY <2>1 DEF Crash, ReconcileDone, Goto, ControlStep
  <2>2. ASSUME NEW s \in Service,
               \/ ReconcileOrphan(s) \/ ReconcileStarting(s) \/ Play(s) \/ ContainerExit(s)
               \/ \E a \in Assignment : IssueStart(s, a) \/ IssueStop(s, a)
        PROVE  ControlStep
    BY <2>2, StayControl
       DEF ReconcileOrphan, ReconcileStarting, Play, ContainerExit,
                             IssueStart, IssueStop, Issue, proc
  <2> QED
    BY <1>3, <2>1, <2>2 DEF RestartSteps, Environment
<1> QED
  BY <1>1, <1>2, <1>3, StartControl, StopControl, ProcessControl DEF Next

-----------------------------------------------------------------------------
(* What the daemon keeps in step with commands.json *)

\* Outside the wait for work the file holds what memory holds: a failed write
\* sends the daemon back to that wait, or to its end.
InSync == pc # "next" => mem = disk

ResultStored == pc \in AfterExecute => mem.results[cmd] = res

NotYetAcked == Processing /\ pc \notin {"ack", "clearLease"} => acked[cmd] = "none"

AckedInStore ==
    \A c \in Command : acked[c] # "none" =>
        mem.results[c] = acked[c] /\ disk.results[c] = acked[c]

\* Inductive strengthening of AckedIsDurable.
DurableInv == InSync /\ ResultStored /\ NotYetAcked /\ AckedInStore

\* An entry marked StopReported belongs to an accepted report.
ReportAccepted(st) ==
    \A s \in Service : st.active[s].reported => <<s, st.active[s].asg>> \in stopped

\* Inductive strengthening of BillingClosedBeforeSync.
BillingInv ==
    /\ ReportAccepted(mem) /\ ReportAccepted(disk)
    /\ pc \in {"markReported", "publish", "syncDone"} => <<cmd.svc, cmd.asg>> \in stopped

-----------------------------------------------------------------------------
(* Durability of acknowledged results *)

\* Commit by Execute records the result of a command not acknowledged yet.
LEMMA DurableCommit ==
    ASSUME TypeOK, DurableInv, Processing, pc \notin {"ack", "clearLease"},
           NEW r \in Status, NEW a \in Active, Commit(r, a), acked' = acked
    PROVE  DurableInv'
<1>1. PICK ok \in BOOLEAN : /\ Persist(WithResult(cmd, r, a), ok)
                            /\ IF ok THEN Finish("decide", r) ELSE Return
  BY DEF Commit
<1>2. cmd \in Command /\ acked[cmd] = "none"
  BY CommandType, TypeParts DEF DurableInv, NotYetAcked
<1>3. /\ mem'.results[cmd] = r
      /\ \A c \in Command : c # cmd => mem'.results[c] = mem.results[c]
  BY <1>1, <1>2 DEF Persist, WithResult, TypeOK, Store
<1>4. AckedInStore'
  BY <1>1, <1>2, <1>3 DEF AckedInStore, DurableInv, Persist
<1> QED
  BY <1>1, <1>2, <1>3, <1>4
     DEF DurableInv, InSync, ResultStored, NotYetAcked, AfterExecute, Persist, Finish,
         Return, Processing

\* A write of another part of the file, with Process returning when it fails.
LEMMA DurableWrite ==
    ASSUME TypeOK, DurableInv, Processing, pc \notin {"ack", "clearLease"},
           NEW m, m.results = mem.results, NEW ok \in BOOLEAN, Persist(m, ok),
           NEW p \in PC \ (AfterExecute \cup {"next", "reconcile"}),
           IF ok THEN Goto(p) ELSE Return, acked' = acked
    PROVE  DurableInv'
<1>1. AckedInStore'
  BY DEF AckedInStore, DurableInv, Persist
<1> QED
  BY <1>1 DEF DurableInv, InSync, ResultStored, NotYetAcked, AfterExecute, Persist, Goto,
              Return, Processing

\* A step inside Process that writes nothing and acknowledges nothing.
LEMMA DurableGoto ==
    ASSUME DurableInv, Processing, pc \notin {"ack", "clearLease"},
           NEW p \in PC \ {"next", "reconcile"}, Goto(p),
           p \in AfterExecute => pc \in AfterExecute, UNCHANGED store, acked' = acked
    PROVE  DurableInv'
BY DEF DurableInv, InSync, ResultStored, NotYetAcked, AckedInStore, AfterExecute, Goto,
       Processing, store

\* Process returns without a write.
LEMMA DurableReturn ==
    ASSUME DurableInv, Return, UNCHANGED store, acked' = acked
    PROVE  DurableInv'
BY DEF DurableInv, InSync, ResultStored, NotYetAcked, AckedInStore, AfterExecute, Return,
       Processing, store

\* What the daemon does not take part in cannot hurt the invariant.
LEMMA DurableElsewhere ==
    ASSUME DurableInv, UNCHANGED <<mem, disk, pc, cmd, res, acked>>
    PROVE  DurableInv'
BY DEF DurableInv, InSync, ResultStored, NotYetAcked, AckedInStore, Processing

\* RestoreAndStart keeps acknowledged results durable.
LEMMA DurableStart ==
    ASSUME TypeOK, DurableInv, StartSteps
    PROVE  DurableInv'
<1>0. Processing /\ pc \notin {"ack", "clearLease"}
  BY DEF StartSteps, StartRefused, StartAlreadyRunning, StartResume, Restore,
         RestoreFail, SetStarting, RestoreTailFail, StartInvalid,
         StartForeignContainer, StartExisting, StartNew, StartFail, HealthOK,
         HealthTerminal, HealthError, Executing, Restoring, Waiting, Processing
<1>1. acked' = acked
  BY Zenon DEF StartSteps, StartRefused, StartAlreadyRunning, StartResume, Restore,
         RestoreFail, SetStarting, RestoreTailFail, StartInvalid,
         StartForeignContainer, StartExisting, StartNew, StartFail, HealthOK,
         HealthTerminal, HealthError, plane
<1>2. cmd.asg \in Assignment /\ Act \in Active
  BY <1>0, TypeParts, CommandType, ActType
<1>3. CASE StartRefused \/ StartAlreadyRunning \/ StartInvalid \/ HealthOK \/ HealthTerminal
  <2>1. PICK r \in Status, a \in Active : Commit(r, a)
    BY <1>2, <1>3, ActiveTypes
       DEF StartRefused, StartAlreadyRunning, StartInvalid, HealthOK, HealthTerminal, Status
  <2> QED
    BY <1>0, <1>1, <2>1, DurableCommit
<1>4. CASE SetStarting
  <2>1. PICK ok \in BOOLEAN :
           /\ Persist(WithActive(cmd.svc, ActiveAs(cmd.asg, "starting")), ok)
           /\ IF ok THEN Goto("dockerStart") ELSE Return
    BY <1>4 DEF SetStarting
  <2>2. WithActive(cmd.svc, ActiveAs(cmd.asg, "starting")).results = mem.results
    BY DEF WithActive
  <2> QED
    BY <1>0, <1>1, <2>1, <2>2, DurableWrite DEF PC, AfterExecute
<1>5. CASE StartResume \/ Restore \/ StartExisting \/ StartNew
  <2>1. PICK p \in {"dockerStart", "setStarting", "waitOld", "waitNew"} : Goto(p)
    BY <1>5 DEF StartResume, Restore, StartExisting, StartNew
  <2>2. UNCHANGED store
    BY <1>5 DEF StartResume, Restore, StartExisting, StartNew, store
  <2> QED
    BY <1>0, <1>1, <2>1, <2>2, DurableGoto DEF PC, AfterExecute
<1>6. CASE RestoreFail \/ RestoreTailFail \/ StartForeignContainer \/ StartFail \/ HealthError
  <2>1. Return /\ UNCHANGED store
    BY <1>6 DEF RestoreFail, RestoreTailFail, StartForeignContainer, StartFail, HealthError, store
  <2> QED
    BY <1>1, <2>1, DurableReturn
<1> QED
  BY <1>3, <1>4, <1>5, <1>6 DEF StartSteps

\* StopAndSync keeps acknowledged results durable.
LEMMA DurableStop ==
    ASSUME TypeOK, DurableInv, StopSteps
    PROVE  DurableInv'
<1>0. Processing /\ pc \notin {"ack", "clearLease"}
  BY DEF StopSteps, StopUnknown, StopMismatch, StopContainer, StopFail, SetStopped,
         StopNotReported, SyncSeal, SyncPublish, SyncFail, SyncCommit, Executing,
         Stopping, AlreadyStopped, Processing
<1>1. acked' = acked
  BY DEF StopSteps, StopUnknown, StopMismatch, StopContainer, StopFail, SetStopped,
         StopNotReported, SyncSeal, SyncPublish, SyncFail, SyncCommit, plane
<1>2. cmd.asg \in Assignment /\ Act \in Active
  BY <1>0, TypeParts, CommandType, ActType
<1>3. CASE StopMismatch \/ SyncCommit
  <2>1. PICK r \in Status, a \in Active : Commit(r, a)
    BY <1>2, <1>3, ActiveTypes DEF StopMismatch, SyncCommit, Status
  <2> QED
    BY <1>0, <1>1, <2>1, DurableCommit
<1>4. CASE StopUnknown \/ SetStopped \/ StopNotReported
  <2>1. PICK m \in {mem, WithActive(cmd.svc, ActiveAs(cmd.asg, "stopped"))}, ok \in BOOLEAN :
           Persist(m, ok) /\ IF ok THEN Goto("reportStopped") ELSE Return
    BY <1>4 DEF StopUnknown, SetStopped, StopNotReported
  <2>2. m.results = mem.results
    BY <2>1 DEF WithActive
  <2> QED
    BY <1>0, <1>1, <2>1, <2>2, DurableWrite DEF PC, Reporting, AfterExecute
<1>5. CASE StopContainer \/ SyncSeal \/ SyncPublish
  <2>1. PICK p \in {"setStopped", "publish", "syncDone"} : Goto(p)
    BY <1>5 DEF StopContainer, SyncSeal, SyncPublish
  <2>2. UNCHANGED store
    BY <1>5 DEF StopContainer, SyncSeal, SyncPublish, store
  <2> QED
    BY <1>0, <1>1, <2>1, <2>2, DurableGoto DEF PC, AfterExecute
<1>6. CASE StopFail \/ SyncFail
  BY <1>1, <1>6, DurableReturn DEF StopFail, SyncFail, store
<1> QED
  BY <1>3, <1>4, <1>5, <1>6 DEF StopSteps

\* Delivery writes what memory holds; the acknowledgement is of a stored result.
LEMMA DurableProcess ==
    ASSUME TypeOK, DurableInv, ProcessSteps
    PROVE  DurableInv'
<1>1. ASSUME NEW c \in Command, Deliver(c)
      PROVE  DurableInv'
  BY <1>1 DEF Deliver, Deliverable, Persist, proc, plane, DurableInv, InSync, ResultStored,
              NotYetAcked, AckedInStore, AfterExecute, Processing
<1>2. CASE ExecuteCached
  BY <1>2 DEF ExecuteCached, Finish, store, plane, DurableInv, InSync, ResultStored,
              NotYetAcked, AckedInStore, AfterExecute, Processing
<1>3. CASE ExecuteLeaseLost \/ DecideLost \/ ReleaseFail \/ CredentialRejected
  <2>1. Return /\ UNCHANGED store /\ acked' = acked
    BY <1>3 DEF ExecuteLeaseLost, DecideLost, ReleaseFail, CredentialRejected, store, plane
  <2> QED
    BY <2>1, DurableReturn
<1>4. CASE Decide \/ ReportStopped \/ ReportStarted \/ ReportSynced \/ Release \/ CheckLease
  <2>0. Processing /\ pc \notin {"ack", "clearLease"}
    BY <1>4 DEF Decide, ReportStopped, ReportStarted, ReportSynced, Release, CheckLease,
                Processing
  <2>1. UNCHANGED store /\ acked' = acked
    BY <1>4 DEF Decide, ReportStopped, ReportStarted, ReportSynced, Release, CheckLease,
                store, plane
  <2>2. \/ Return \/ UNCHANGED proc
        \/ pc = "reportStopped" /\ Goto("markReported")
        \/ /\ pc \in AfterExecute
           /\ \E p \in {"reportStarted", "reportSynced", "checkLease", "release", "ack"} : Goto(p)
    BY <1>4 DEF Decide, ReportStopped, ReportStarted, ReportSynced, Release, CheckLease,
                AfterExecute
  <2>3. CASE UNCHANGED proc
    BY <2>1, <2>3, DurableElsewhere DEF proc, store
  <2> QED
    BY <2>0, <2>1, <2>2, <2>3, DurableGoto, DurableReturn DEF PC, Reporting, AfterExecute
<1>5. CASE MarkReported
  <2>0. Processing /\ pc \notin {"ack", "clearLease"} /\ acked' = acked
    BY <1>5 DEF MarkReported, Processing, plane
  <2>1. PICK ok \in BOOLEAN :
           /\ Persist(WithActive(cmd.svc, [Act EXCEPT !.reported = TRUE]), ok)
           /\ IF ok THEN Goto("execute") ELSE Return
    BY <1>5 DEF MarkReported
  <2>2. WithActive(cmd.svc, [Act EXCEPT !.reported = TRUE]).results = mem.results
    BY DEF WithActive
  <2> QED
    BY <2>0, <2>1, <2>2, DurableWrite DEF PC, AfterExecute
<1>6. CASE Ack
  <2>1. cmd \in Command /\ mem = disk /\ mem.results[cmd] = res
    BY <1>6, TypeParts, CommandType
       DEF Ack, Processing, DurableInv, InSync, ResultStored, AfterExecute
  <2>2. /\ acked'[cmd] = res
        /\ \A c \in Command : c # cmd => acked'[c] = acked[c]
    BY <1>6, <2>1 DEF Ack, TypeOK
  <2>3. AckedInStore'
    BY <1>6, <2>1, <2>2 DEF Ack, store, AckedInStore, DurableInv
  <2> QED
    BY <1>6, <2>1, <2>3
       DEF Ack, Goto, proc, store, DurableInv, InSync, ResultStored,
                            NotYetAcked, Processing
<1>7. CASE ClearLease
  BY <1>7 DEF ClearLease, Persist, Return, plane, DurableInv, InSync, ResultStored,
              NotYetAcked, AckedInStore, AfterExecute, Processing
<1> QED
  BY <1>1, <1>2, <1>3, <1>4, <1>5, <1>6, <1>7 DEF ProcessSteps

\* Neither renewals, restarts nor the environment lose an acknowledged result.
LEMMA DurableOther ==
    ASSUME TypeOK, DurableInv, LeaseSteps \/ RestartSteps \/ Environment
    PROVE  DurableInv'
<1>1. CASE Renew
  BY <1>1 DEF Renew, Persist, plane, DurableInv, InSync, ResultStored, NotYetAcked,
              AckedInStore, Processing
<1>2. CASE RenewFail \/ LeaseLapse
  BY <1>2, DurableElsewhere DEF RenewFail, LeaseLapse, store, plane
<1>3. CASE Crash
  BY <1>3 DEF Crash, plane, DurableInv, InSync, ResultStored, NotYetAcked, AckedInStore,
              AfterExecute, Processing
<1>4. CASE ReconcileDone
  BY <1>4 DEF ReconcileDone, Goto, store, plane, DurableInv, InSync, ResultStored,
              NotYetAcked, AckedInStore, AfterExecute, Processing
<1>5. ASSUME NEW s \in Service, ReconcileStarting(s)
      PROVE  DurableInv'
  BY <1>5 DEF ReconcileStarting, Persist, WithActive, proc, plane, DurableInv, InSync,
              ResultStored, NotYetAcked, AckedInStore, AfterExecute, Processing
<1>6. ASSUME NEW s \in Service, ReconcileOrphan(s) \/ Play(s) \/ ContainerExit(s)
      PROVE  DurableInv'
  BY <1>6, DurableElsewhere DEF ReconcileOrphan, Play, ContainerExit, store, proc, plane
<1>7. ASSUME NEW s \in Service, NEW a \in Assignment, IssueStart(s, a) \/ IssueStop(s, a)
      PROVE  DurableInv'
  BY <1>7, DurableElsewhere DEF IssueStart, IssueStop, Issue, store, proc
<1> QED
  BY <1>1, <1>2, <1>3, <1>4, <1>5, <1>6, <1>7 DEF LeaseSteps, RestartSteps, Environment

\* The strengthened invariant holds of every run.
LEMMA DurableInvariant == Spec => []DurableInv
<1>1. Init => DurableInv
  BY Zenon
     DEF Init, DurableInv, InSync, ResultStored, NotYetAcked, AckedInStore, AfterExecute,
         Processing
<1>2. TypeOK /\ DurableInv /\ [Next]_vars => DurableInv'
  <2> SUFFICES ASSUME TypeOK, DurableInv, [Next]_vars PROVE DurableInv'
    OBVIOUS
  <2>1. CASE Next
    BY <2>1, DurableStart, DurableStop, DurableProcess, DurableOther DEF Next
  <2>2. CASE UNCHANGED vars
    BY <2>2, DurableElsewhere DEF vars
  <2> QED
    BY <2>1, <2>2
<1> QED
  BY <1>1, <1>2, TypeCorrect, PTL DEF Spec

\* Whatever result the control plane has acknowledged is the one a restarted agent
\* reads back: for any number of services and assignments, with failing writes,
\* crashes, lapsing leases and overlapping assignments.
THEOREM AcknowledgedResultsAreDurable == Spec => []AckedIsDurable
<1>1. DurableInv => AckedIsDurable
  BY DEF DurableInv, AckedInStore, AckedIsDurable
<1> QED
  BY <1>1, DurableInvariant, PTL

-----------------------------------------------------------------------------
(* The stopped report precedes the sync *)

\* An absent entry is not marked StopReported.
LEMMA AbsentUnreported ==
    NoActive \in Active /\ ~NoActive.reported
BY ActiveTypes DEF NoActive

\* SetActive of an entry whose report, if marked, was accepted.
LEMMA AcceptedActive ==
    ASSUME TypeStore, BillingInv, NEW s \in Service, NEW a \in Active,
           a.reported => <<s, a.asg>> \in stopped
    PROVE  ReportAccepted(WithActive(s, a))
BY DEF BillingInv, ReportAccepted, WithActive, TypeStore, Store

\* Commit with such an entry.
LEMMA AcceptedCommit ==
    ASSUME TypeOK, BillingInv, Processing, NEW r \in Status, NEW a \in Active,
           a.reported => <<cmd.svc, a.asg>> \in stopped,
           Commit(r, a), stopped' = stopped
    PROVE  BillingInv'
<1>1. PICK ok \in BOOLEAN : /\ Persist(WithResult(cmd, r, a), ok)
                            /\ IF ok THEN Finish("decide", r) ELSE Return
  BY DEF Commit
<1>2. cmd.svc \in Service
  BY TypeParts, CommandType
<1>3. ReportAccepted(WithResult(cmd, r, a))
  BY <1>2 DEF BillingInv, ReportAccepted, WithResult, TypeOK, Store
<1> QED
  BY <1>1, <1>3 DEF BillingInv, ReportAccepted, Persist, Finish, Return

\* A write of well-reported entries, with Process returning when it fails.
LEMMA AcceptedWrite ==
    ASSUME BillingInv, NEW m, ReportAccepted(m), NEW ok \in BOOLEAN, Persist(m, ok),
           NEW p, p \notin {"markReported", "publish", "syncDone"},
           IF ok THEN Goto(p) ELSE Return, stopped' = stopped
    PROVE  BillingInv'
BY DEF BillingInv, ReportAccepted, Persist, Goto, Return

\* A step that writes no entry: the report stays accepted, and a new position is
\* one of a sync only if that step has checked the report.
LEMMA AcceptedElsewhere ==
    ASSUME BillingInv, UNCHANGED store, stopped \subseteq stopped',
           pc' \in {"markReported", "publish", "syncDone"} =>
               cmd' = cmd /\ <<cmd.svc, cmd.asg>> \in stopped'
    PROVE  BillingInv'
BY DEF BillingInv, ReportAccepted, store

\* RestoreAndStart writes entries that are not reported, or keeps the entry.
LEMMA BillingStart ==
    ASSUME TypeOK, BillingInv, StartSteps
    PROVE  BillingInv'
<1>0. Processing
  BY DEF StartSteps, StartRefused, StartAlreadyRunning, StartResume, Restore,
         RestoreFail, SetStarting, RestoreTailFail, StartInvalid,
         StartForeignContainer, StartExisting, StartNew, StartFail, HealthOK,
         HealthTerminal, HealthError, Executing, Restoring, Waiting, Processing
<1>1. stopped' = stopped
  BY Zenon DEF StartSteps, StartRefused, StartAlreadyRunning, StartResume, Restore,
         RestoreFail, SetStarting, RestoreTailFail, StartInvalid,
         StartForeignContainer, StartExisting, StartNew, StartFail, HealthOK,
         HealthTerminal, HealthError, plane
<1>2. cmd.svc \in Service /\ cmd.asg \in Assignment /\ Act \in Active
  BY <1>0, TypeParts, CommandType, ActType
<1>3. Act.reported => <<cmd.svc, Act.asg>> \in stopped
  BY <1>2 DEF BillingInv, ReportAccepted, Act
<1>4. CASE StartRefused \/ StartAlreadyRunning \/ StartInvalid \/ HealthOK \/ HealthTerminal
  <2>1. PICK r \in Status, a \in {Act, NoActive, ActiveAs(cmd.asg, "running")} : Commit(r, a)
    BY <1>4 DEF StartRefused, StartAlreadyRunning, StartInvalid, HealthOK, HealthTerminal, Status
  <2>2. CASE a = Act
    BY <1>0, <1>1, <1>2, <1>3, <2>1, <2>2, AcceptedCommit
  <2>3. CASE a # Act
    <3>2. /\ ActiveAs(cmd.asg, "running") \in Active
          /\ ~ActiveAs(cmd.asg, "running").reported
      <4>1. ActiveAs(cmd.asg, "running") \in Active
        BY <1>2, ActiveTypes
      <4> QED
        BY <4>1 DEF ActiveAs
    <3>3. a = NoActive \/ a = ActiveAs(cmd.asg, "running")
      BY <2>3
    <3>4. a \in Active /\ ~a.reported
      BY <3>2, <3>3, AbsentUnreported
    <3> QED
      BY <1>0, <1>1, <2>1, <3>4, AcceptedCommit
  <2> QED
    BY <2>2, <2>3
<1>5. CASE SetStarting
  <2>1. PICK ok \in BOOLEAN :
           /\ Persist(WithActive(cmd.svc, ActiveAs(cmd.asg, "starting")), ok)
           /\ IF ok THEN Goto("dockerStart") ELSE Return
    BY <1>5 DEF SetStarting
  <2>2. ReportAccepted(WithActive(cmd.svc, ActiveAs(cmd.asg, "starting")))
    <3>1. ActiveAs(cmd.asg, "starting") \in Active /\ ~ActiveAs(cmd.asg, "starting").reported
      BY <1>2, ActiveTypes DEF ActiveAs
    <3> QED
      BY <1>2, <3>1, TypeParts, AcceptedActive
  <2> QED
    BY <1>1, <2>1, <2>2, AcceptedWrite
<1>6. CASE StartResume \/ Restore \/ StartExisting \/ StartNew
  BY <1>1, <1>6, AcceptedElsewhere
     DEF StartResume, Restore, StartExisting, StartNew, store, Goto
<1>7. CASE RestoreFail \/ RestoreTailFail \/ StartForeignContainer \/ StartFail \/ HealthError
  BY <1>1, <1>7, AcceptedElsewhere
     DEF RestoreFail, RestoreTailFail, StartForeignContainer, StartFail, HealthError, store,
         Return
<1> QED
  BY <1>4, <1>5, <1>6, <1>7 DEF StartSteps

\* StopAndSync syncs only behind the durable StopReported flag.
LEMMA BillingStop ==
    ASSUME TypeOK, BillingInv, StopSteps
    PROVE  BillingInv'
<1>0. Processing
  BY DEF StopSteps, StopUnknown, StopMismatch, StopContainer, StopFail, SetStopped,
         StopNotReported, SyncSeal, SyncPublish, SyncFail, SyncCommit, Executing,
         Stopping, AlreadyStopped, Processing
<1>1. stopped' = stopped
  BY DEF StopSteps, StopUnknown, StopMismatch, StopContainer, StopFail, SetStopped,
         StopNotReported, SyncSeal, SyncPublish, SyncFail, SyncCommit, plane
<1>2. cmd.svc \in Service /\ cmd.asg \in Assignment /\ Act \in Active
  BY <1>0, TypeParts, CommandType, ActType
<1>3. Act.reported => <<cmd.svc, Act.asg>> \in stopped
  BY <1>2 DEF BillingInv, ReportAccepted, Act
<1>4. CASE StopMismatch \/ SyncCommit
  <2>1. PICK r \in Status, a \in {Act, NoActive} : Commit(r, a)
    BY <1>4 DEF StopMismatch, SyncCommit, Status
  <2>2. a \in Active /\ (a.reported => <<cmd.svc, a.asg>> \in stopped)
    BY <1>2, <1>3, <2>1, ActiveTypes, AbsentUnreported
  <2> QED
    BY <1>0, <1>1, <2>1, <2>2, AcceptedCommit
<1>5. CASE StopUnknown \/ SetStopped \/ StopNotReported
  <2>1. PICK m \in {mem, WithActive(cmd.svc, ActiveAs(cmd.asg, "stopped"))}, ok \in BOOLEAN :
           Persist(m, ok) /\ IF ok THEN Goto("reportStopped") ELSE Return
    BY <1>5 DEF StopUnknown, SetStopped, StopNotReported
  <2>2. ActiveAs(cmd.asg, "stopped") \in Active /\ ~ActiveAs(cmd.asg, "stopped").reported
    BY <1>2, ActiveTypes DEF ActiveAs
  <2>3. ReportAccepted(m)
    BY <1>2, <2>1, <2>2, TypeParts, AcceptedActive DEF BillingInv
  <2> QED
    BY <1>1, <2>1, <2>3, AcceptedWrite
<1>6. CASE StopContainer \/ StopFail \/ SyncFail
  BY <1>1, <1>6, AcceptedElsewhere DEF StopContainer, StopFail, SyncFail, store, Goto, Return
<1>7. CASE SyncSeal
  BY <1>1, <1>3, <1>7, AcceptedElsewhere DEF SyncSeal, AlreadyStopped, store, Goto
<1>8. CASE SyncPublish
  BY <1>1, <1>8, AcceptedElsewhere DEF SyncPublish, BillingInv, store, Goto
<1> QED
  BY <1>4, <1>5, <1>6, <1>7, <1>8 DEF StopSteps

\* Process marks an entry reported only after the report was accepted.
LEMMA BillingProcess ==
    ASSUME TypeOK, BillingInv, ProcessSteps
    PROVE  BillingInv'
<1>1. ASSUME NEW c \in Command, Deliver(c)
      PROVE  BillingInv'
  BY <1>1 DEF Deliver, Persist, proc, plane, BillingInv, ReportAccepted
<1>2. CASE \/ ExecuteCached \/ ExecuteLeaseLost \/ DecideLost \/ Decide \/ Release
           \/ ReleaseFail \/ CheckLease \/ CredentialRejected
  BY <1>2, AcceptedElsewhere
     DEF ExecuteCached, ExecuteLeaseLost, DecideLost, Decide, Release, ReleaseFail,
         CheckLease, CredentialRejected, store, plane, Goto, Finish, Return
<1>3. CASE ReportStarted \/ ReportSynced \/ Ack
  BY <1>3, AcceptedElsewhere
     DEF ReportStarted, ReportSynced, Ack, store, proc, Goto
<1>4. CASE ReportStopped
  BY <1>4, AcceptedElsewhere DEF ReportStopped, store, proc, Goto
<1>5. CASE MarkReported
  <2>1. PICK ok \in BOOLEAN :
           /\ Persist(WithActive(cmd.svc, [Act EXCEPT !.reported = TRUE]), ok)
           /\ IF ok THEN Goto("execute") ELSE Return
    BY <1>5 DEF MarkReported
  <2>2. cmd.svc \in Service /\ Act \in Active
    BY <1>5, TypeParts, CommandType, ActType DEF MarkReported, Processing
  <2>3. <<cmd.svc, Act.asg>> \in stopped
    BY <1>5 DEF MarkReported, BillingInv
  <2>4. [Act EXCEPT !.reported = TRUE] \in Active /\ [Act EXCEPT !.reported = TRUE].asg = Act.asg
    BY <2>2 DEF Active
  <2>5. ReportAccepted(WithActive(cmd.svc, [Act EXCEPT !.reported = TRUE]))
    BY <2>2, <2>3, <2>4, TypeParts, AcceptedActive
  <2> QED
    BY <1>5, <2>1, <2>5, AcceptedWrite DEF MarkReported, plane
<1>6. CASE ClearLease
  BY <1>6 DEF ClearLease, Persist, Return, plane, BillingInv, ReportAccepted
<1> QED
  BY <1>1, <1>2, <1>3, <1>4, <1>5, <1>6 DEF ProcessSteps

\* A restart reads the flags back; renewals and the environment change none.
LEMMA BillingOther ==
    ASSUME TypeOK, BillingInv, LeaseSteps \/ RestartSteps \/ Environment
    PROVE  BillingInv'
<1>1. CASE Renew
  BY <1>1 DEF Renew, Persist, plane, BillingInv, ReportAccepted
<1>2. CASE RenewFail \/ LeaseLapse
  BY <1>2 DEF RenewFail, LeaseLapse, store, plane, BillingInv, ReportAccepted
<1>3. CASE Crash
  BY <1>3 DEF Crash, plane, BillingInv, ReportAccepted
<1>4. CASE ReconcileDone
  BY <1>4, AcceptedElsewhere DEF ReconcileDone, Goto, store, plane
<1>5. ASSUME NEW s \in Service, ReconcileStarting(s)
      PROVE  BillingInv'
  <2>1. mem.active[s] \in Active
    BY DEF TypeOK, Store
  <2>2. /\ [mem.active[s] EXCEPT !.phase = "running"] \in Active
        /\ [mem.active[s] EXCEPT !.phase = "running"].asg = mem.active[s].asg
        /\ [mem.active[s] EXCEPT !.phase = "running"].reported = mem.active[s].reported
    BY <2>1 DEF Active
  <2>3. ReportAccepted(WithActive(s, [mem.active[s] EXCEPT !.phase = "running"]))
    BY <2>2, TypeParts, AcceptedActive DEF BillingInv, ReportAccepted
  <2> QED
    BY <1>5, <2>3 DEF ReconcileStarting, Persist, proc, plane, BillingInv, ReportAccepted
<1>6. ASSUME NEW s \in Service, ReconcileOrphan(s) \/ Play(s) \/ ContainerExit(s)
      PROVE  BillingInv'
  BY <1>6 DEF ReconcileOrphan, Play, ContainerExit, store, proc, plane, BillingInv,
              ReportAccepted
<1>7. ASSUME NEW s \in Service, NEW a \in Assignment, IssueStart(s, a) \/ IssueStop(s, a)
      PROVE  BillingInv'
  BY <1>7 DEF IssueStart, IssueStop, Issue, store, proc, BillingInv, ReportAccepted
<1> QED
  BY <1>1, <1>2, <1>3, <1>4, <1>5, <1>6, <1>7 DEF LeaseSteps, RestartSteps, Environment

\* No workspace is synced, also after a crash between the report and the sync,
\* before the control plane has accepted the assignment's stopped report.
THEOREM BillingIsClosedBeforeSync == Spec => []BillingClosedBeforeSync
<1>1. Init => BillingInv
  BY DEF Init, BillingInv, ReportAccepted, EmptyStore, NoActive
<1>2. TypeOK /\ BillingInv /\ [Next]_vars => BillingInv'
  <2> SUFFICES ASSUME TypeOK, BillingInv, [Next]_vars PROVE BillingInv'
    OBVIOUS
  <2>1. CASE Next
    BY <2>1, BillingStart, BillingStop, BillingProcess, BillingOther DEF Next
  <2>2. CASE UNCHANGED vars
    BY <2>2 DEF vars, BillingInv, ReportAccepted
  <2> QED
    BY <2>1, <2>2
<1>3. BillingInv => BillingClosedBeforeSync
  BY DEF BillingInv, BillingClosedBeforeSync
<1> QED
  BY <1>1, <1>2, <1>3, TypeCorrect, PTL DEF Spec
-----------------------------------------------------------------------------
(* The head of a service is a published revision *)

\* The manifest that a sync of command c writes is in the object store.
Published(c) == \E m \in blob[c.svc] : m.rev = revOf[c] + 1

\* Stored results are results of issued commands, and a sync result is one of a
\* published revision.
PublishedResults(st) ==
    \A c \in Command :
        /\ st.results[c] # "none" => c \in issued
        /\ st.results[c] = "stopped-and-synced" => Published(c)

\* Inductive strengthening of HeadIsPublished.
PublishedInv ==
    /\ PublishedResults(mem) /\ PublishedResults(disk)
    /\ Processing => cmd \in issued
    /\ pc = "syncDone" => Published(cmd)
    /\ pc \in {"reportSynced", "release"} => res = "stopped-and-synced"
    /\ HeadIsPublished

\* What is published stays published.
LEMMA PublishedStays ==
    ASSUME TypeOK, PlaneGrows, NEW c \in issued, Published(c)
    PROVE  Published(c)'
<1>1. c.svc \in Service
  BY DEF TypeOK, Command
<1> QED
  BY <1>1 DEF Published, PlaneGrows

\* A value of the store whose results are published keeps that.
LEMMA PublishedKept ==
    ASSUME TypeOK, PlaneGrows, NEW st, PublishedResults(st)
    PROVE  \A c \in Command :
               /\ st.results[c] # "none" => c \in issued'
               /\ st.results[c] = "stopped-and-synced" => Published(c)'
BY PublishedStays DEF PublishedResults, PlaneGrows

\* Commit records a sync only after the publication.
LEMMA PublishedCommit ==
    ASSUME TypeOK, PlaneGrows, PublishedInv, Processing, NEW r \in Status, NEW e \in Active,
           Commits(r, e)
    PROVE  LET m == WithResult(cmd, r, e)
           IN  \A c \in Command :
                   /\ m.results[c] # "none" => c \in issued'
                   /\ m.results[c] = "stopped-and-synced" => Published(c)'
<1> DEFINE m == WithResult(cmd, r, e)
<1>1. cmd \in Command /\ cmd \in issued
  BY TypeParts, CommandType DEF PublishedInv
<1>2. m.results[cmd] = r /\ \A c \in Command : c # cmd => m.results[c] = mem.results[c]
  BY <1>1 DEF WithResult, TypeOK, Store
<1>3. r = "stopped-and-synced" => Published(cmd)
  BY DEF Commits, PublishedInv
<1> QED
  BY <1>1, <1>2, <1>3, PublishedKept, PublishedStays DEF PublishedInv, PlaneGrows

\* Whatever is written, stored results stay those of published syncs.
LEMMA PublishedStore ==
    ASSUME TypeOK, PlaneGrows, PublishedInv, StoreStep
    PROVE  PublishedResults(mem)' /\ PublishedResults(disk)'
<1>0. \A st \in {mem, disk} : \A c \in Command :
          /\ st.results[c] # "none" => c \in issued'
          /\ st.results[c] = "stopped-and-synced" => Published(c)'
  BY PublishedKept DEF PublishedInv
<1>1. CASE Rereads
  BY <1>0, <1>1 DEF Rereads, PublishedResults
<1>2. ASSUME NEW s \in Service, NEW e, NEW ok \in BOOLEAN, Persist(WithActive(s, e), ok)
      PROVE  PublishedResults(mem)' /\ PublishedResults(disk)'
  BY <1>0, <1>2 DEF Persist, WithActive, PublishedResults
<1>3. ASSUME Processing, NEW ok \in BOOLEAN, NEW r \in Status, NEW e \in Active, Commits(r, e),
             Persist(WithResult(cmd, r, e), ok)
      PROVE  PublishedResults(mem)' /\ PublishedResults(disk)'
  <2> DEFINE m == WithResult(cmd, r, e)
  <2>1. \A c \in Command : /\ m.results[c] # "none" => c \in issued'
                           /\ m.results[c] = "stopped-and-synced" => Published(c)'
    BY <1>3, PublishedCommit
  <2>2. mem' = m /\ disk' \in {m, disk}
    BY <1>3 DEF Persist
  <2> HIDE DEF m
  <2> QED
    BY <1>0, <2>1, <2>2 DEF PublishedResults
<1>4. ASSUME NEW s \in Service, ReconcileStarting(s)
      PROVE  PublishedResults(mem)' /\ PublishedResults(disk)'
  BY <1>2, <1>4 DEF ReconcileStarting
<1>5. Processing => cmd.svc \in Service
  BY TypeParts, CommandType
<1> QED
  <2>1. CASE Processing /\ \E ok \in BOOLEAN, e \in Active :
                 SetsEntry(e) /\ Persist(WithActive(cmd.svc, e), ok)
    BY <1>2, <1>5, <2>1
  <2>2. CASE Processing /\ \E ok \in BOOLEAN, r \in Status, e \in Active :
                 Commits(r, e) /\ Persist(WithResult(cmd, r, e), ok)
    BY <1>3, <2>2
  <2>3. CASE \E s \in Service : ReconcileStarting(s)
    BY <1>4, <2>3
  <2> QED
    BY <1>1, <2>1, <2>2, <2>3 DEF StoreStep

\* The control plane's head only moves to a revision whose sync was published.
LEMMA PublishedHead ==
    ASSUME TypeOK, DurableInv, PlaneGrows, PublishedInv, [Next]_vars
    PROVE  HeadIsPublished'
<1>1. CASE ReportSynced
  <2>1. /\ Processing /\ pc \in AfterExecute /\ res = "stopped-and-synced"
        /\ rev' = [rev EXCEPT ![cmd.svc] = revOf[cmd] + 1] /\ blob' = blob
    BY <1>1 DEF ReportSynced, Processing, AfterExecute, PublishedInv
  <2>2. cmd \in Command /\ cmd.svc \in Service
    BY <2>1, TypeParts, CommandType
  <2>3. Published(cmd)
    BY <2>1, <2>2 DEF DurableInv, ResultStored, PublishedInv, PublishedResults
  <2> QED
    BY <2>1, <2>2, <2>3 DEF PublishedInv, HeadIsPublished, Published, TypeOK
<1>2. CASE ~ReportSynced
  <2>1. rev' = rev
    BY <1>2, PlaneShape DEF PlaneStep, SyncPublish, ReportStarted, Ack, IssueStart, IssueStop,
                            Issue
  <2> QED
    BY <2>1 DEF PlaneGrows, PublishedInv, HeadIsPublished
<1> QED
  BY <1>1, <1>2

\* The positions around the publication.
LEMMA PublishedPositions ==
    ASSUME TypeOK, PlaneGrows, PublishedInv, ControlStep
    PROVE  /\ Processing' => cmd' \in issued'
           /\ pc' = "syncDone" => Published(cmd)'
           /\ pc' \in {"reportSynced", "release"} => res' = "stopped-and-synced"
<1>1. CASE pc' \in {"reconcile", "next"}
  BY <1>1 DEF Processing
<1>2. CASE pc = "next" /\ pc' = "execute" /\ \E c \in Command : Deliver(c) /\ cmd' = c
  BY <1>2 DEF Deliver, Deliverable, PlaneGrows
<1>3. CASE Processing /\ cmd' = cmd /\ Moves
  <2>1. cmd \in issued /\ cmd \in issued' /\ cmd.svc \in Service
    BY <1>3, TypeParts, CommandType DEF PublishedInv, PlaneGrows
  <2>2. Published(cmd) => Published(cmd)'
    BY <1>3, <2>1, PublishedStays DEF Published
  <2>3. SyncPublish => Published(cmd)'
    <3> SUFFICES ASSUME SyncPublish PROVE Published(cmd)'
      OBVIOUS
    <3> DEFINE m == [rev |-> revOf[cmd] + 1, data |-> ws[cmd.svc].data]
    <3>1. m \in blob'[cmd.svc] /\ m.rev = revOf[cmd] + 1
      BY <2>1 DEF SyncPublish, TypeOK
    <3>2. revOf' = revOf
      BY DEF SyncPublish
    <3> QED
      BY <1>3, <3>1, <3>2 DEF Published
  <2> QED
    BY <1>3, <2>1, <2>2, <2>3 DEF Moves, PublishedInv, AfterExecute
<1> QED
  BY <1>1, <1>2, <1>3 DEF ControlStep

\* The strengthened invariant holds of every run.
LEMMA PublishedInvariant == Spec => []PublishedInv
<1>1. Init => PublishedInv
  <2> SUFFICES ASSUME Init PROVE PublishedInv
    OBVIOUS
  <2>1. HeadIsPublished
    BY Zenon DEF Init, HeadIsPublished
  <2>2. PublishedResults(mem) /\ PublishedResults(disk)
    BY DEF Init, EmptyStore, PublishedResults
  <2> QED
    BY <2>1, <2>2 DEF Init, PublishedInv, Processing
<1>2. TypeOK /\ DurableInv /\ PublishedInv /\ [Next]_vars => PublishedInv'
  <2> SUFFICES ASSUME TypeOK, DurableInv, PublishedInv, [Next]_vars PROVE PublishedInv'
    OBVIOUS
  <2>1. StoreStep /\ PlaneGrows /\ ControlStep
    BY StepShape, ControlFlow
  <2> QED
    BY <2>1, PublishedStore, PublishedHead, PublishedPositions DEF PublishedInv
<1> QED
  BY <1>1, <1>2, TypeCorrect, DurableInvariant, PTL DEF Spec

\* The revision that the control plane hands to the next start is always one whose
\* manifest is in the object store, also when assignments overlap and writes fail.
THEOREM NextStartFindsItsRevision == Spec => []HeadIsPublished
<1>1. PublishedInv => HeadIsPublished
  BY DEF PublishedInv
<1> QED
  BY <1>1, PublishedInvariant, PTL

-----------------------------------------------------------------------------
(* One assignment of a service at a time *)

\* Positions of Process that only a start, only a stop reaches.
StartPositions == {"setStarting", "dockerStart", "waitNew", "waitOld", "reportStarted"}
StopPositions  == {"setStopped", "reportStopped", "markReported", "publish", "syncDone",
                   "reportSynced", "release"}

\* a is the assignment of s that the control plane issued last.
Latest(s, a) == /\ StartOf(s, a) \in issued
                /\ \A b \in Assignment : b > a => StartOf(s, b) \notin issued

\* Without overlap an assignment is issued when the earlier ones are over.
IssueOrder ==
    /\ \A s \in Service, a \in Assignment :
           StopOf(s, a) \in issued => StartOf(s, a) \in issued
    /\ \A s \in Service, a, b \in Assignment :
           a < b /\ StartOf(s, b) \in issued => StartOf(s, a) \in issued /\ Over(s, a)

\* No command is refused, so no result is one that a redelivery would replace.
ResultsInOrder(st) ==
    \A s \in Service, a \in Assignment :
        /\ st.results[StartOf(s, a)] \in {"none", "started", "failed-coded"}
        /\ st.results[StopOf(s, a)] \in {"none", "stopped-and-synced"}

\* An entry is the latest assignment's, before its sync, and there is a stop for it
\* when it is stopped or its start has failed.
EntryIsLatest(st) ==
    \A s \in Service : st.active[s].phase # "none" =>
        LET a == st.active[s].asg
        IN  /\ a \in Assignment /\ Latest(s, a)
            /\ st.results[StopOf(s, a)] = "none"
            /\ st.results[StartOf(s, a)] = "failed-coded" => StopOf(s, a) \in issued
            /\ st.active[s].phase = "stopped" => StopOf(s, a) \in issued

\* Memory holds every result that the file holds.
MemAhead == \A c \in Command : disk.results[c] # "none" => mem.results[c] = disk.results[c]

\* What Process knows of its command.
AtCommand ==
    /\ pc \in StartPositions => cmd.kind = "start"
    /\ pc \in StopPositions => cmd.kind = "stop"
    /\ Processing /\ pc \notin AfterExecute \cup {"execute"} => mem.results[cmd] = "none"
    /\ pc \in AfterExecute => res # "none"
    /\ pc = "reportStarted" => res = "started"
    /\ Processing /\ cmd.kind = "start" =>
           /\ mem.results[StopOf(cmd.svc, cmd.asg)] = "none"
           /\ ~(Act.phase = "stopped" /\ Act.asg = cmd.asg)
    /\ pc = "release" \/ (pc \in {"checkLease", "ack", "clearLease"} /\ cmd.kind = "stop") =>
           <<cmd.svc, cmd.asg>> \in synced

\* A synced report is made of a stored result, a stop acknowledged after the report.
SyncedStored ==
    \A s \in Service, a \in Assignment :
        /\ <<s, a>> \in synced => /\ mem.results[StopOf(s, a)] # "none"
                                  /\ disk.results[StopOf(s, a)] # "none"
        /\ acked[StopOf(s, a)] # "none" => <<s, a>> \in synced

\* Inductive strengthening of AckedStopIsSynced and of ReplayReturnsOriginal.
OrderInv ==
    /\ IssueOrder /\ ResultsInOrder(mem) /\ ResultsInOrder(disk) /\ MemAhead
    /\ EntryIsLatest(mem) /\ EntryIsLatest(disk) /\ AtCommand /\ SyncedStored

\* A command is the start or the stop of its service and assignment.
LEMMA CommandForms ==
    /\ \A s \in Service, a \in Assignment :
           /\ StartOf(s, a) \in Command /\ StopOf(s, a) \in Command
           /\ StartOf(s, a) # StopOf(s, a)
           /\ StartOf(s, a).svc = s /\ StartOf(s, a).asg = a /\ StartOf(s, a).kind = "start"
           /\ StopOf(s, a).svc = s /\ StopOf(s, a).asg = a /\ StopOf(s, a).kind = "stop"
    /\ \A c \in Command :
           /\ c.svc \in Service /\ c.asg \in Assignment /\ c.kind \in {"start", "stop"}
           /\ c.kind = "start" => c = StartOf(c.svc, c.asg)
           /\ c.kind = "stop" => c = StopOf(c.svc, c.asg)
BY DEF Command, StartOf, StopOf

\* What the invariants say together about a command in progress.
OrderFacts == TypeOK /\ DurableInv /\ PublishedInv /\ OrderInv

\* Until its acknowledgement a command is one of the latest assignment.
LEMMA CommandIsLatest ==
    ASSUME OrderFacts, Processing, acked[cmd] = "none"
    PROVE  Latest(cmd.svc, cmd.asg)
<1> DEFINE s == cmd.svc
           a == cmd.asg
<1>1. cmd \in Command /\ s \in Service /\ a \in Assignment /\ cmd \in issued
  BY TypeParts, CommandType DEF OrderFacts, PublishedInv
<1>2. cmd = StartOf(s, a) \/ cmd = StopOf(s, a)
  BY <1>1, CommandForms
<1>3. StartOf(s, a) \in issued
  BY <1>1, <1>2 DEF OrderFacts, OrderInv, IssueOrder
<1>4. ~Over(s, a)
  <2>1. CASE cmd.kind = "start"
    <3>1. cmd = StartOf(s, a) /\ mem.results[StopOf(s, a)] = "none" /\ StopOf(s, a) \in Command
      BY <1>1, <2>1, CommandForms DEF OrderFacts, OrderInv, AtCommand
    <3>2. acked[StopOf(s, a)] = "none"
      BY <3>1 DEF OrderFacts, DurableInv, AckedInStore
    <3> QED
      BY <3>1, <3>2 DEF Over
  <2>2. CASE cmd.kind = "stop"
    <3>1. cmd = StopOf(s, a)
      BY <1>1, <2>2, CommandForms
    <3> QED
      BY <1>1, <3>1 DEF Over
  <2> QED
    BY <1>1, <2>1, <2>2, CommandForms
<1>5. \A b \in Assignment : b > a => StartOf(s, b) \notin issued
  BY <1>1, <1>4 DEF OrderFacts, OrderInv, IssueOrder, Assignment
<1> QED
  BY <1>3, <1>5 DEF Latest

\* There is only one latest assignment.
LEMMA LatestIsUnique ==
    ASSUME NEW s, NEW a \in Assignment, NEW b \in Assignment, Latest(s, a), Latest(s, b)
    PROVE  a = b
BY DEF Latest, Assignment

\* An entry, if there is one, is the command's own.
LEMMA EntryIsCommands ==
    ASSUME OrderFacts, Processing, acked[cmd] = "none", Act.phase # "none"
    PROVE  Act.asg = cmd.asg
<1>1. cmd.svc \in Service /\ cmd.asg \in Assignment
  BY TypeParts, CommandType DEF OrderFacts
<1>2. Act.asg \in Assignment /\ Latest(cmd.svc, Act.asg)
  BY <1>1 DEF OrderFacts, OrderInv, EntryIsLatest, Act
<1> QED
  BY <1>1, <1>2, CommandIsLatest, LatestIsUnique

\* Commit records the first result of its command, never a refusal, and keeps only
\* the entry of a started assignment.
LEMMA CommitInOrder ==
    ASSUME OrderFacts, Processing, NEW r \in Status, NEW e \in Active, Commits(r, e)
    PROVE  /\ mem.results[cmd] = "none" /\ pc \notin AfterExecute
           /\ \/ cmd.kind = "start" /\ r \in {"started", "failed-coded"}
              \/ cmd.kind = "stop" /\ r = "stopped-and-synced"
           /\ e.phase # "none" => e.asg = cmd.asg /\ e.phase = "running" /\ r = "started"
<1>1. cmd \in Command
  BY TypeParts, CommandType DEF OrderFacts
<1>2. pc \notin AfterExecute
  BY DEF Commits, Executing, AfterExecute
<1>3. acked[cmd] = "none"
  BY <1>2 DEF OrderFacts, DurableInv, NotYetAcked, AfterExecute
<1>4. mem.results[cmd] # "failed"
  <2>1. cmd = StartOf(cmd.svc, cmd.asg) \/ cmd = StopOf(cmd.svc, cmd.asg)
    BY <1>1, CommandForms
  <2> QED
    BY <1>1, <2>1, CommandForms DEF OrderFacts, OrderInv, ResultsInOrder
<1>5. mem.results[cmd] = "none"
  <2>1. pc = "execute" => ~Cached(mem.results[cmd])
    BY DEF Commits, Executing
  <2> QED
    BY <1>2, <1>4, <2>1 DEF OrderFacts, OrderInv, AtCommand, Cached
<1>6. Act.phase # "none" => Act.asg = cmd.asg
  BY <1>3, EntryIsCommands
<1>7. NoActive.phase = "none" /\ ActiveAs(cmd.asg, "running").phase = "running"
      /\ ActiveAs(cmd.asg, "running").asg = cmd.asg
  BY DEF NoActive, ActiveAs
<1>8. AtCommand
  BY DEF OrderFacts, OrderInv
<1> QED
  BY <1>2, <1>5, <1>6, <1>7, <1>8
     DEF Commits, Executing, OtherAssignmentActive, AtCommand, StartPositions, StopPositions

\* FileStore.Commit in terms of the values it leaves.
LEMMA CommitValues ==
    ASSUME TypeOK, Processing, NEW r \in Status, NEW e \in Active
    PROVE  LET m == WithResult(cmd, r, e)
           IN  /\ m.results[cmd] = r /\ m.active[cmd.svc] = e
               /\ \A c \in Command : c # cmd => m.results[c] = mem.results[c]
               /\ \A s \in Service : s # cmd.svc => m.active[s] = mem.active[s]
<1>1. cmd \in Command /\ cmd.svc \in Service
  BY TypeParts, CommandType
<1> QED
  BY <1>1 DEF WithResult, TypeOK, Store

\* FileStore.SetActive likewise.
LEMMA EntryValues ==
    ASSUME TypeOK, NEW s \in Service, NEW e
    PROVE  LET m == WithActive(s, e)
           IN  /\ m.results = mem.results /\ m.active[s] = e
               /\ \A q \in Service : q # s => m.active[q] = mem.active[q]
BY DEF WithActive, TypeOK, Store

\* A stored result is never replaced: Commit writes the first one of its command.
LEMMA ResultsOnlyAdded ==
    ASSUME OrderFacts, StoreStep
    PROVE  /\ ResultsInOrder(mem)' /\ ResultsInOrder(disk)' /\ MemAhead'
           /\ \A c \in Command : disk.results[c] # "none" =>
                  mem'.results[c] = disk.results[c] /\ disk'.results[c] = disk.results[c]
           /\ \A c \in Command : mem.results[c] # "none" =>
                  mem'.results[c] = mem.results[c] \/ mem' = disk
<1>0. TypeOK /\ ResultsInOrder(mem) /\ ResultsInOrder(disk) /\ MemAhead
  BY DEF OrderFacts, OrderInv
<1>1. CASE Rereads
  BY <1>0, <1>1 DEF Rereads, ResultsInOrder, MemAhead
<1>2. ASSUME NEW s \in Service, NEW e, NEW ok \in BOOLEAN, Persist(WithActive(s, e), ok)
      PROVE  /\ mem'.results = mem.results /\ disk'.results \in {mem.results, disk.results}
  BY <1>0, <1>2, EntryValues DEF Persist
<1>3. CASE mem'.results = mem.results /\ disk'.results \in {mem.results, disk.results}
  BY <1>0, <1>3 DEF ResultsInOrder, MemAhead
<1>4. ASSUME Processing, NEW ok \in BOOLEAN, NEW r \in Status, NEW e \in Active, Commits(r, e),
             Persist(WithResult(cmd, r, e), ok)
      PROVE  /\ ResultsInOrder(mem)' /\ ResultsInOrder(disk)' /\ MemAhead'
             /\ \A c \in Command : disk.results[c] # "none" =>
                    mem'.results[c] = disk.results[c] /\ disk'.results[c] = disk.results[c]
             /\ \A c \in Command : mem.results[c] # "none" => mem'.results[c] = mem.results[c]
  <2>1. cmd \in Command
    BY <1>0, <1>4, TypeParts, CommandType
  <2>2. /\ mem'.results[cmd] = r /\ \A c \in Command : c # cmd => mem'.results[c] = mem.results[c]
        /\ disk' \in {mem', disk}
    BY <1>0, <1>4, CommitValues DEF Persist
  <2>3. /\ mem.results[cmd] = "none"
        /\ \/ cmd.kind = "start" /\ r \in {"started", "failed-coded"}
           \/ cmd.kind = "stop" /\ r = "stopped-and-synced"
    BY <1>4, CommitInOrder
  <2>4. disk.results[cmd] = "none"
    BY <1>0, <2>1, <2>3 DEF MemAhead
  <2>5. ResultsInOrder(mem)'
    BY <1>0, <2>2, <2>3, CommandForms DEF ResultsInOrder
  <2>6. ResultsInOrder(disk)'
    BY <1>0, <2>2, <2>5 DEF ResultsInOrder
  <2> QED
    BY <1>0, <2>1, <2>2, <2>3, <2>4, <2>5, <2>6 DEF MemAhead
<1>5. Processing => cmd.svc \in Service
  BY <1>0, TypeParts, CommandType
<1>6. CASE Processing /\ \E ok \in BOOLEAN, e \in Active :
               SetsEntry(e) /\ Persist(WithActive(cmd.svc, e), ok)
  BY <1>2, <1>3, <1>5, <1>6
<1>7. CASE Processing /\ \E ok \in BOOLEAN, r \in Status, e \in Active :
               Commits(r, e) /\ Persist(WithResult(cmd, r, e), ok)
  BY <1>4, <1>7
<1>8. CASE \E s \in Service : ReconcileStarting(s)
  BY <1>2, <1>3, <1>8 DEF ReconcileStarting
<1> QED
  BY <1>1, <1>6, <1>7, <1>8 DEF StoreStep

\* An entry that the command in progress writes is its own.
LEMMA WrittenEntry ==
    ASSUME OrderFacts, Processing, NEW e \in Active, SetsEntry(e)
    PROVE  /\ mem.results[cmd] = "none" /\ pc \notin AfterExecute
           /\ e.asg = cmd.asg
           /\ \/ e.phase = "starting" /\ cmd.kind = "start"
              \/ e.phase = "stopped" /\ cmd.kind = "stop"
<1>1. AtCommand /\ cmd \in Command /\ Act \in Active
  BY TypeParts, CommandType, ActType DEF OrderFacts, OrderInv
<1>2. /\ ActiveAs(cmd.asg, "starting").asg = cmd.asg
      /\ ActiveAs(cmd.asg, "starting").phase = "starting"
      /\ ActiveAs(cmd.asg, "stopped").asg = cmd.asg
      /\ ActiveAs(cmd.asg, "stopped").phase = "stopped"
      /\ [Act EXCEPT !.reported = TRUE].asg = Act.asg
      /\ [Act EXCEPT !.reported = TRUE].phase = Act.phase
  BY <1>1 DEF ActiveAs, Active
<1>3. mem.results[cmd] # "failed"
  <2>1. cmd = StartOf(cmd.svc, cmd.asg) \/ cmd = StopOf(cmd.svc, cmd.asg)
    BY <1>1, CommandForms
  <2> QED
    BY <1>1, <2>1, CommandForms DEF OrderFacts, OrderInv, ResultsInOrder
<1>4. CASE pc = "execute"
  <2>1. Executing("stop") /\ e = ActiveAs(cmd.asg, "stopped")
    BY <1>4 DEF SetsEntry
  <2> QED
    BY <1>2, <1>3, <1>4, <2>1 DEF Executing, Cached, AfterExecute
<1>5. CASE pc # "execute"
  <2>1. \/ pc = "setStarting" /\ e = ActiveAs(cmd.asg, "starting")
        \/ pc \in {"setStopped", "markReported"} /\ e.asg = cmd.asg /\ e.phase = "stopped"
    BY <1>2, <1>5 DEF SetsEntry, Executing
  <2> QED
    <3>1. mem.results[cmd] = "none" /\ pc \notin AfterExecute
      BY <1>1, <2>1 DEF AfterExecute, AtCommand
    <3>2. /\ pc = "setStarting" => cmd.kind = "start"
          /\ pc \in {"setStopped", "markReported"} => cmd.kind = "stop"
      BY <1>1 DEF AtCommand, StartPositions, StopPositions
    <3> QED
      BY <1>2, <2>1, <3>1, <3>2
<1> QED
  BY <1>4, <1>5

\* Entries stay those of the latest assignment while none is issued.
LEMMA EntriesWritten ==
    ASSUME OrderFacts, StoreStep, issued' = issued
    PROVE  EntryIsLatest(mem)' /\ EntryIsLatest(disk)'
<1>0. /\ TypeOK /\ EntryIsLatest(mem) /\ EntryIsLatest(disk) /\ AtCommand
      /\ DurableInv /\ PublishedInv
  BY DEF OrderFacts, OrderInv
<1>1. CASE Rereads
  BY <1>0, <1>1 DEF Rereads, EntryIsLatest, Latest
<1>2. Processing => /\ cmd \in Command /\ cmd.svc \in Service
                    /\ cmd.asg \in Assignment /\ cmd \in issued
  BY <1>0, TypeParts, CommandType DEF PublishedInv
<1>3. ASSUME Processing, NEW ok \in BOOLEAN, NEW e \in Active, SetsEntry(e),
             Persist(WithActive(cmd.svc, e), ok)
      PROVE  EntryIsLatest(mem)' /\ EntryIsLatest(disk)'
  <2>1. /\ mem.results[cmd] = "none" /\ pc \notin AfterExecute /\ e.asg = cmd.asg
        /\ \/ e.phase = "starting" /\ cmd.kind = "start"
           \/ e.phase = "stopped" /\ cmd.kind = "stop"
    BY <1>3, WrittenEntry
  <2>2. Latest(cmd.svc, cmd.asg)
    BY <1>0, <1>3, <2>1, CommandIsLatest DEF DurableInv, NotYetAcked, AfterExecute
  <2>3. /\ mem.results[StopOf(cmd.svc, cmd.asg)] = "none"
        /\ mem.results[StartOf(cmd.svc, cmd.asg)] = "failed-coded"
              => StopOf(cmd.svc, cmd.asg) \in issued
        /\ e.phase = "stopped" => StopOf(cmd.svc, cmd.asg) \in issued
    BY <1>0, <1>2, <1>3, <2>1, CommandForms DEF AtCommand
  <2>4. /\ mem'.results = mem.results /\ mem'.active[cmd.svc] = e
        /\ \A q \in Service : q # cmd.svc => mem'.active[q] = mem.active[q]
        /\ disk' \in {mem', disk}
    BY <1>0, <1>2, <1>3, EntryValues DEF Persist
  <2>5. EntryIsLatest(mem)'
    BY <1>0, <1>2, <1>3, <2>1, <2>2, <2>3, <2>4 DEF EntryIsLatest, Latest
  <2> QED
    BY <1>0, <2>4, <2>5 DEF EntryIsLatest, Latest
<1>4. ASSUME Processing, NEW ok \in BOOLEAN, NEW r \in Status, NEW e \in Active, Commits(r, e),
             Persist(WithResult(cmd, r, e), ok)
      PROVE  EntryIsLatest(mem)' /\ EntryIsLatest(disk)'
  <2>1. /\ mem.results[cmd] = "none" /\ pc \notin AfterExecute
        /\ cmd.kind = "start" \/ r # "started"
        /\ e.phase # "none" => e.asg = cmd.asg /\ e.phase = "running" /\ r = "started"
    BY <1>4, CommitInOrder
  <2>2. Latest(cmd.svc, cmd.asg)
    BY <1>0, <1>4, <2>1, CommandIsLatest DEF DurableInv, NotYetAcked, AfterExecute
  <2>3. /\ mem'.results[cmd] = r /\ mem'.active[cmd.svc] = e
        /\ \A c \in Command : c # cmd => mem'.results[c] = mem.results[c]
        /\ \A q \in Service : q # cmd.svc => mem'.active[q] = mem.active[q]
        /\ disk' \in {mem', disk}
    BY <1>0, <1>4, CommitValues DEF Persist
  <2>4. ASSUME NEW q \in Service, mem'.active[q].phase # "none"
        PROVE  LET a == mem'.active[q].asg
               IN  /\ a \in Assignment /\ Latest(q, a)
                   /\ mem'.results[StopOf(q, a)] = "none"
                   /\ mem'.results[StartOf(q, a)] = "failed-coded" => StopOf(q, a) \in issued
                   /\ mem'.active[q].phase = "stopped" => StopOf(q, a) \in issued
    <3>1. CASE q = cmd.svc
      <4>1. /\ mem'.active[q].asg = cmd.asg /\ mem'.active[q].phase = "running" /\ r = "started"
            /\ cmd.kind = "start"
        BY <2>1, <2>3, <2>4, <3>1
      <4>2. cmd = StartOf(q, cmd.asg) /\ mem'.results[StopOf(q, cmd.asg)] = "none"
        BY <1>0, <1>2, <1>4, <2>3, <3>1, <4>1, CommandForms DEF AtCommand
      <4> QED
        BY <1>2, <1>4, <2>2, <2>3, <3>1, <4>1, <4>2
    <3>2. CASE q # cmd.svc
      <4>1. \A a \in Assignment : StartOf(q, a) # cmd /\ StopOf(q, a) # cmd
        BY <3>2, CommandForms
      <4> QED
        BY <1>0, <2>3, <2>4, <3>2, <4>1, CommandForms DEF EntryIsLatest
    <3> QED
      BY <3>1, <3>2
  <2>5. EntryIsLatest(mem)'
    BY <2>4 DEF EntryIsLatest, Latest
  <2> QED
    BY <1>0, <2>3, <2>5 DEF EntryIsLatest, Latest
<1>5. ASSUME NEW s \in Service, ReconcileStarting(s)
      PROVE  EntryIsLatest(mem)' /\ EntryIsLatest(disk)'
  <2> DEFINE e == [mem.active[s] EXCEPT !.phase = "running"]
  <2>1. /\ mem'.results = mem.results /\ mem'.active[s] = e
        /\ \A q \in Service : q # s => mem'.active[q] = mem.active[q]
        /\ disk' = mem'
    BY <1>0, <1>5, EntryValues DEF ReconcileStarting, Persist
  <2>2. mem.active[s] \in Active
    BY <1>0 DEF TypeOK, Store
  <2>3. e.asg = mem.active[s].asg /\ e.phase = "running" /\ mem.active[s].phase # "none"
    BY <1>5, <2>2 DEF ReconcileStarting, Resumed, Active
  <2> HIDE DEF e
  <2>4. EntryIsLatest(mem)'
    BY <1>0, <2>1, <2>3 DEF EntryIsLatest, Latest
  <2> QED
    BY <2>1, <2>4 DEF EntryIsLatest, Latest
<1> QED
  <2>1. CASE Processing /\ \E ok \in BOOLEAN, e \in Active :
                 SetsEntry(e) /\ Persist(WithActive(cmd.svc, e), ok)
    BY <1>3, <2>1
  <2>2. CASE Processing /\ \E ok \in BOOLEAN, r \in Status, e \in Active :
                 Commits(r, e) /\ Persist(WithResult(cmd, r, e), ok)
    BY <1>4, <2>2
  <2> QED
    BY <1>1, <1>5, <2>1, <2>2 DEF StoreStep

\* An acknowledged result is final at the control plane, too.
LEMMA AckIsFinal ==
    ASSUME TypeOK, DurableInv, PlaneStep
    PROVE  \A c \in Command : acked[c] # "none" => acked'[c] = acked[c]
<1>1. CASE Ack
  <2>1. cmd \in Command /\ mem.results[cmd] = res /\ acked' = [acked EXCEPT ![cmd] = res]
    BY <1>1, TypeParts, CommandType
       DEF Ack, Processing, DurableInv, ResultStored, AfterExecute
  <2> QED
    BY <2>1 DEF DurableInv, AckedInStore, TypeOK
<1>2. CASE ~Ack
  BY <1>2 DEF PlaneStep, SyncPublish, ReportStarted, ReportSynced, IssueStart, IssueStop, Issue
<1> QED
  BY <1>1, <1>2

\* A start is issued only when no entry of the service is left.
LEMMA EntriesIssued ==
    ASSUME ~Overlap, OrderFacts, NEW s \in Service, NEW a \in Assignment,
           IssueStart(s, a) \/ IssueStop(s, a)
    PROVE  EntryIsLatest(mem)' /\ EntryIsLatest(disk)'
<1>0. /\ TypeOK /\ DurableInv /\ IssueOrder /\ UNCHANGED store /\ issued \subseteq issued'
      /\ a \in Nat /\ a > 0
  <2>1. TypeOK /\ DurableInv /\ IssueOrder
    BY DEF OrderFacts, OrderInv
  <2>2. UNCHANGED store /\ issued \subseteq issued'
    BY Zenon DEF IssueStart, IssueStop, Issue
  <2> QED
    BY <2>1, <2>2 DEF Assignment
<1>1. ASSUME NEW st \in {mem, disk}, NEW q \in Service, st.active[q].phase # "none"
      PROVE  LET b == st.active[q].asg
             IN  /\ b \in Assignment /\ Latest(q, b)'
                 /\ st.results[StopOf(q, b)] = "none"
                 /\ st.results[StartOf(q, b)] = "failed-coded" => StopOf(q, b) \in issued'
                 /\ st.active[q].phase = "stopped" => StopOf(q, b) \in issued'
  <2> DEFINE b == st.active[q].asg
  <2>1. /\ b \in Assignment /\ Latest(q, b)
        /\ st.results[StopOf(q, b)] = "none"
        /\ st.results[StartOf(q, b)] = "failed-coded" => StopOf(q, b) \in issued
        /\ st.active[q].phase = "stopped" => StopOf(q, b) \in issued
    BY <1>1 DEF OrderFacts, OrderInv, EntryIsLatest
  <2> HIDE DEF b
  <2>2. ~Over(q, b)
    <3>1. StartOf(q, b) \in Command /\ StopOf(q, b) \in Command
      BY <2>1, CommandForms
    <3>2. acked[StopOf(q, b)] = "none"
      BY <1>0, <1>1, <2>1, <3>1 DEF DurableInv, AckedInStore
    <3>3. /\ acked[StartOf(q, b)] # "none" => st.results[StartOf(q, b)] = acked[StartOf(q, b)]
          /\ st.results[StartOf(q, b)] # "failed"
      BY <1>0, <1>1, <2>1, <3>1 DEF DurableInv, AckedInStore, OrderFacts, OrderInv, ResultsInOrder
    <3> QED
      BY <2>1, <3>2, <3>3 DEF Over
  <2>3. \A c \in Assignment : c > b => StartOf(q, c) \notin issued'
    <3>1. CASE IssueStop(s, a)
      BY <2>1, <3>1, CommandForms DEF IssueStop, Issue, Latest
    <3>2. CASE IssueStart(s, a)
      <4>1. issued' = issued \cup {StartOf(s, a)} /\ StartOf(s, a) \notin issued
        BY <3>2 DEF IssueStart, Issue
      <4>2. CASE q = s
        <5>1. ~(a > b)
          <6>1. a > 1 => a - 1 \in Assignment /\ StartOf(s, a - 1) \in issued /\ Over(s, a - 1)
            BY <3>2, ConstantsAssumption DEF IssueStart, Assignment
          <6>2. a > b => a > 1 /\ (a - 1 > b \/ a - 1 = b)
            BY <1>0, <2>1 DEF Assignment
          <6> QED
            BY <2>1, <2>2, <4>2, <6>1, <6>2 DEF Latest
        <5> QED
          BY <2>1, <4>1, <5>1, <4>2, CommandForms DEF Latest
      <4>3. CASE q # s
        BY <2>1, <4>1, <4>3, CommandForms DEF Latest
      <4> QED
        BY <4>2, <4>3
    <3> QED
      BY <3>1, <3>2
  <2>4. Latest(q, b)'
    BY <1>0, <2>1, <2>3 DEF Latest
  <2> QED
    BY <1>0, <2>1, <2>4 DEF b
<1> QED
  BY <1>0, <1>1 DEF EntryIsLatest, store

\* The control plane keeps the order of assignments.
LEMMA OrderIssued ==
    ASSUME ~Overlap, OrderFacts, PlaneStep
    PROVE  IssueOrder'
<1>0. TypeOK /\ DurableInv /\ IssueOrder
  BY DEF OrderFacts, OrderInv
<1>1. \A c \in Command : acked[c] # "none" => acked'[c] = acked[c]
  BY <1>0, AckIsFinal
<1>2. CASE issued' = issued
  <2>1. \A q \in Service, b \in Assignment : Over(q, b) => Over(q, b)'
    BY <1>1, <1>2, CommandForms DEF Over
  <2> QED
    BY <1>0, <1>2, <2>1 DEF IssueOrder
<1>3. ASSUME NEW s \in Service, NEW a \in Assignment, IssueStart(s, a)
      PROVE  IssueOrder'
  <2>1. /\ issued' = issued \cup {StartOf(s, a)}
        /\ a > 1 => StartOf(s, a - 1) \in issued /\ Over(s, a - 1)
    BY <1>3 DEF IssueStart, Issue
  <2>2. \A q \in Service, b \in Assignment :
            /\ StopOf(q, b) \in issued' => StopOf(q, b) \in issued
            /\ StartOf(q, b) \in issued' => StartOf(q, b) \in issued \/ (q = s /\ b = a)
            /\ Over(q, b) => Over(q, b)'
    BY <1>1, <2>1, CommandForms DEF Over
  <2>3. \A b \in Assignment : b < a => StartOf(s, b) \in issued /\ Over(s, b)
    <3> SUFFICES ASSUME NEW b \in Assignment, b < a
                 PROVE  StartOf(s, b) \in issued /\ Over(s, b)
      OBVIOUS
    <3>1. a > 1 /\ a - 1 \in Assignment /\ (b = a - 1 \/ b < a - 1)
      BY ConstantsAssumption DEF Assignment
    <3> QED
      BY <1>0, <2>1, <3>1 DEF IssueOrder
  <2> QED
    BY <1>0, <2>1, <2>2, <2>3 DEF IssueOrder
<1>4. ASSUME NEW s \in Service, NEW a \in Assignment, IssueStop(s, a)
      PROVE  IssueOrder'
  <2>1. /\ issued' = issued \cup {StopOf(s, a)} /\ StartOf(s, a) \in issued
        /\ a < MaxAssignment => StartOf(s, a + 1) \notin issued
    BY <1>4 DEF IssueStop, Issue
  <2>2. \A b \in Assignment : b > a => StartOf(s, b) \notin issued
    <3> SUFFICES ASSUME NEW b \in Assignment, b > a
                 PROVE  StartOf(s, b) \notin issued
      OBVIOUS
    <3>1. a < MaxAssignment /\ a + 1 \in Assignment /\ (b = a + 1 \/ a + 1 < b)
      BY ConstantsAssumption DEF Assignment
    <3> QED
      BY <1>0, <2>1, <3>1 DEF IssueOrder
  <2>3. \A q \in Service, b \in Assignment :
            /\ StartOf(q, b) \in issued' <=> StartOf(q, b) \in issued
            /\ StopOf(q, b) \in issued' => StopOf(q, b) \in issued \/ (q = s /\ b = a)
            /\ Over(q, b) /\ (q # s \/ b # a) => Over(q, b)'
    BY <1>1, <2>1, CommandForms DEF Over
  <2>4. \A q \in Service, b, c \in Assignment :
            b < c /\ StartOf(q, c) \in issued => Over(q, b)'
    BY <1>0, <2>2, <2>3 DEF IssueOrder, Assignment
  <2> QED
    BY <1>0, <2>1, <2>3, <2>4 DEF IssueOrder
<1> QED
  BY <1>2, <1>3, <1>4
     DEF PlaneStep, SyncPublish, ReportStarted, ReportSynced, Ack

\* What the store holds of the command in progress, as long as Execute goes on.
LEMMA StoreInExecute ==
    ASSUME OrderFacts, StoreStep, Processing
    PROVE  /\ pc' \notin {"decide", "next", "reconcile"} => mem'.results = mem.results
           /\ pc' # "reconcile" /\ cmd.kind = "start" =>
                  /\ mem'.results[StopOf(cmd.svc, cmd.asg)] = "none"
                  /\ LET e == mem'.active[cmd.svc]
                     IN  ~(e.phase = "stopped" /\ e.asg = cmd.asg)
<1>0. TypeOK /\ AtCommand /\ mem = disk
  BY DEF OrderFacts, OrderInv, DurableInv, InSync, Processing
<1>1. cmd \in Command /\ cmd.svc \in Service /\ cmd.asg \in Assignment
  BY <1>0, TypeParts, CommandType
<1>2. CASE Rereads
  BY <1>0, <1>2 DEF Rereads, AtCommand, Act
<1>3. ASSUME NEW ok \in BOOLEAN, NEW e \in Active, SetsEntry(e),
             Persist(WithActive(cmd.svc, e), ok)
      PROVE  /\ mem'.results = mem.results
             /\ cmd.kind = "start" => mem'.active[cmd.svc].phase = "starting"
  BY <1>0, <1>1, <1>3, EntryValues, WrittenEntry DEF Persist
<1>4. ASSUME NEW ok \in BOOLEAN, NEW r \in Status, NEW e \in Active, Commits(r, e),
             Persist(WithResult(cmd, r, e), ok)
      PROVE  cmd.kind = "start" =>
                  /\ mem'.results[StopOf(cmd.svc, cmd.asg)] = "none"
                  /\ mem'.active[cmd.svc].phase # "stopped"
  <2> SUFFICES ASSUME cmd.kind = "start"
               PROVE  /\ mem'.results[StopOf(cmd.svc, cmd.asg)] = "none"
                      /\ mem'.active[cmd.svc].phase # "stopped"
    OBVIOUS
  <2>1. StopOf(cmd.svc, cmd.asg) \in Command /\ StopOf(cmd.svc, cmd.asg) # cmd
    BY <1>1, CommandForms
  <2>2. e.phase # "stopped"
    BY <1>4, CommitInOrder
  <2>3. mem' = WithResult(cmd, r, e)
    BY <1>4 DEF Persist
  <2> QED
    BY <1>0, <1>4, <2>1, <2>2, <2>3, CommitValues DEF AtCommand
<1>5. ~\E s \in Service : ReconcileStarting(s)
  BY Zenon DEF ReconcileStarting, Processing
<1>6. CASE \E ok \in BOOLEAN, e \in Active :
               SetsEntry(e) /\ Persist(WithActive(cmd.svc, e), ok)
  BY <1>0, <1>3, <1>6 DEF AtCommand
<1>7. CASE /\ pc' \in {"decide", "next"}
           /\ \E ok \in BOOLEAN, r \in Status, e \in Active :
                  Commits(r, e) /\ Persist(WithResult(cmd, r, e), ok)
  BY <1>4, <1>7
<1> QED
  BY <1>2, <1>5, <1>6, <1>7 DEF StoreStep

\* The kind of a command follows from its result.
LEMMA KindOfResult ==
    ASSUME OrderFacts, pc \in AfterExecute
    PROVE  /\ res = "started" => cmd.kind = "start"
           /\ res = "stopped-and-synced" => cmd.kind = "stop"
           /\ cmd.kind = "stop" => res = "stopped-and-synced"
<1>1. cmd \in Command /\ cmd.svc \in Service /\ cmd.asg \in Assignment
  BY TypeParts, CommandType DEF OrderFacts, Processing, AfterExecute
<1>2. mem.results[cmd] = res /\ res # "none"
  BY DEF OrderFacts, DurableInv, ResultStored, OrderInv, AtCommand
<1>3. cmd.kind = "start" => cmd = StartOf(cmd.svc, cmd.asg)
  BY <1>1, CommandForms
<1>4. cmd.kind = "stop" => cmd = StopOf(cmd.svc, cmd.asg)
  BY <1>1, CommandForms
<1>5. ResultsInOrder(mem) /\ cmd.kind \in {"start", "stop"}
  BY <1>1, CommandForms DEF OrderFacts, OrderInv
<1> QED
  BY <1>1, <1>2, <1>3, <1>4, <1>5 DEF ResultsInOrder

\* A delivered start is one whose assignment has not been told to stop.
LEMMA DeliveredStart ==
    ASSUME OrderFacts, NEW c \in Command, Deliver(c), c.kind = "start"
    PROVE  /\ mem'.results[StopOf(c.svc, c.asg)] = "none"
           /\ LET e == mem'.active[c.svc] IN ~(e.phase = "stopped" /\ e.asg = c.asg)
<1>1. /\ mem' = mem /\ StopOf(c.svc, c.asg) \notin issued
      /\ c.svc \in Service /\ StopOf(c.svc, c.asg) \in Command
  BY CommandForms DEF Deliver, Deliverable, Persist
<1>2. mem.results[StopOf(c.svc, c.asg)] = "none"
  BY <1>1 DEF OrderFacts, PublishedInv, PublishedResults
<1> QED
  BY <1>1, <1>2 DEF OrderFacts, OrderInv, EntryIsLatest

\* Process keeps to the positions of its command.
LEMMA CommandFollowed ==
    ASSUME OrderFacts, StoreStep, PlaneGrows, ControlStep
    PROVE  AtCommand'
<1>0. AtCommand /\ synced \subseteq synced'
  BY DEF OrderFacts, OrderInv, PlaneGrows
<1>1. CASE pc' \in {"reconcile", "next"}
  BY <1>1 DEF AtCommand, Processing, StartPositions, StopPositions, AfterExecute
<1>2. CASE pc = "next" /\ pc' = "execute" /\ \E c \in Command : Deliver(c) /\ cmd' = c
  BY <1>2, DeliveredStart DEF AtCommand, Act, StartPositions, StopPositions, AfterExecute
<1>3. CASE Processing /\ cmd' = cmd /\ Moves /\ pc' \notin {"reconcile", "next"}
  <2>0. cmd.kind \in {"start", "stop"}
    BY <1>3, TypeParts, CommandType DEF OrderFacts
  <2>1. cmd.kind = "start" =>
           /\ mem'.results[StopOf(cmd.svc, cmd.asg)] = "none"
           /\ ~(mem'.active[cmd.svc].phase = "stopped" /\ mem'.active[cmd.svc].asg = cmd.asg)
    BY <1>3, StoreInExecute
  <2>2. /\ pc \in AfterExecute /\ res = "started" => cmd.kind = "start"
        /\ pc \in AfterExecute /\ res = "stopped-and-synced" => cmd.kind = "stop"
        /\ pc \in AfterExecute /\ cmd.kind = "stop" => res = "stopped-and-synced"
    BY KindOfResult
  <2>3. /\ pc' \in StartPositions => cmd.kind = "start"
        /\ pc' \in StopPositions => cmd.kind = "stop"
    BY <1>0, <1>3, <2>2 DEF Moves, AtCommand, StartPositions, StopPositions, AfterExecute
  <2>4. pc' \notin AfterExecute \cup {"execute"} => mem'.results[cmd] = "none"
    <3> SUFFICES ASSUME pc' \notin AfterExecute \cup {"execute"}
                 PROVE  mem'.results[cmd] = "none"
      OBVIOUS
    <3>1. mem'.results = mem.results
      BY <1>3, StoreInExecute DEF AfterExecute
    <3>2. \/ pc \notin AfterExecute \cup {"execute"}
          \/ pc = "execute" /\ ~Cached(mem.results[cmd])
      BY <1>3 DEF Moves, AfterExecute
    <3>3. mem.results[cmd] # "failed"
      <4>1. cmd \in Command
        BY <1>3, TypeParts, CommandType DEF OrderFacts
      <4>2. cmd = StartOf(cmd.svc, cmd.asg) \/ cmd = StopOf(cmd.svc, cmd.asg)
        BY <4>1, CommandForms
      <4> QED
        BY <4>1, <4>2, CommandForms DEF OrderFacts, OrderInv, ResultsInOrder
    <3> QED
      BY <1>0, <1>3, <3>1, <3>2, <3>3 DEF AtCommand, Cached
  <2>5. pc' \in AfterExecute => res' # "none" /\ (pc' = "reportStarted" => res' = "started")
    <3>1. \A e \in Active : ~Commits("none", e)
      BY DEF Commits
    <3> QED
      BY <1>0, <1>3, <3>1 DEF Moves, AtCommand, AfterExecute, Cached
  <2>6. /\ pc' = "release" \/ (pc' \in {"checkLease", "ack", "clearLease"} /\ cmd.kind = "stop")
        => <<cmd.svc, cmd.asg>> \in synced'
    BY <1>0, <1>3, <2>0, <2>2 DEF Moves, AtCommand, AfterExecute, StartPositions
  <2>7. pc' = "reportStarted" => res' = "started"
    BY <2>5 DEF AfterExecute
  <2> QED
    BY <1>3, <2>1, <2>3, <2>4, <2>5, <2>6, <2>7 DEF AtCommand, Act
<1> QED
  BY <1>1, <1>2, <1>3 DEF ControlStep

\* Synced reports and acknowledged stops keep their order.
LEMMA SyncedFollowed ==
    ASSUME OrderFacts, StoreStep, PlaneStep
    PROVE  SyncedStored'
<1>0. TypeOK /\ DurableInv /\ AtCommand /\ SyncedStored /\ MemAhead
  BY DEF OrderFacts, OrderInv
<1>1. \A c \in Command : disk.results[c] # "none" =>
          mem'.results[c] = disk.results[c] /\ disk'.results[c] = disk.results[c]
  BY ResultsOnlyAdded
<1>2. \A s \in Service, a \in Assignment : <<s, a>> \in synced =>
          mem'.results[StopOf(s, a)] # "none" /\ disk'.results[StopOf(s, a)] # "none"
  BY <1>0, <1>1, CommandForms DEF SyncedStored
<1>3. CASE ReportSynced
  <2>1. /\ pc \in AfterExecute /\ pc = "reportSynced" /\ acked' = acked
        /\ synced' = synced \cup {<<cmd.svc, cmd.asg>>}
    BY <1>3 DEF ReportSynced, AfterExecute
  <2>2. cmd \in Command /\ cmd = StopOf(cmd.svc, cmd.asg)
    BY <1>0, <2>1, TypeParts, CommandType, CommandForms
       DEF Processing, AtCommand, StopPositions
  <2>3. disk.results[cmd] # "none"
    BY <1>0, <2>1 DEF DurableInv, InSync, ResultStored, AfterExecute, AtCommand
  <2> QED
    BY <1>0, <1>1, <1>2, <2>1, <2>2, <2>3 DEF SyncedStored
<1>4. CASE Ack
  <2>1. /\ pc = "ack" /\ synced' = synced /\ acked' = [acked EXCEPT ![cmd] = res]
    BY <1>4 DEF Ack
  <2>2. cmd \in Command /\ cmd.svc \in Service /\ cmd.asg \in Assignment
    BY <1>0, <2>1, TypeParts, CommandType DEF Processing
  <2>3. cmd.kind = "stop" => <<cmd.svc, cmd.asg>> \in synced
    BY <1>0, <2>1 DEF AtCommand
  <2>4. \A s \in Service, a \in Assignment : StopOf(s, a) # cmd =>
            acked'[StopOf(s, a)] = acked[StopOf(s, a)]
    BY <1>0, <2>1, <2>2, CommandForms DEF TypeOK
  <2>5. \A s \in Service, a \in Assignment : StopOf(s, a) = cmd => <<s, a>> \in synced
    BY <2>3, CommandForms
  <2> QED
    BY <1>0, <1>2, <2>1, <2>4, <2>5 DEF SyncedStored
<1>5. CASE ~ReportSynced /\ ~Ack
  <2>1. synced' = synced /\ acked' = acked
    BY <1>5 DEF PlaneStep, SyncPublish, ReportStarted, IssueStart, IssueStop, Issue
  <2> QED
    BY <1>0, <1>2, <2>1 DEF SyncedStored
<1> QED
  BY <1>3, <1>4, <1>5

\* The strengthened invariant holds of every run without overlapping assignments.
LEMMA OrderInvariant == ASSUME ~Overlap PROVE Spec => []OrderInv
<1>1. Init => OrderInv
  <2> SUFFICES ASSUME Init PROVE OrderInv
    OBVIOUS
  <2>1. /\ ResultsInOrder(mem) /\ ResultsInOrder(disk) /\ MemAhead
    BY CommandForms DEF Init, EmptyStore, ResultsInOrder, MemAhead
  <2>2. EntryIsLatest(mem) /\ EntryIsLatest(disk)
    BY DEF Init, EmptyStore, NoActive, EntryIsLatest
  <2>3. IssueOrder /\ SyncedStored
    BY CommandForms DEF Init, IssueOrder, SyncedStored
  <2>4. AtCommand
    BY Zenon DEF Init, AtCommand, Processing, StartPositions, StopPositions, AfterExecute
  <2> QED
    BY <2>1, <2>2, <2>3, <2>4 DEF OrderInv
<1>2. TypeOK /\ DurableInv /\ PublishedInv /\ OrderInv /\ [Next]_vars => OrderInv'
  <2> SUFFICES ASSUME OrderFacts, [Next]_vars PROVE OrderInv'
    BY DEF OrderFacts
  <2>1. StoreStep /\ PlaneGrows /\ PlaneStep /\ ControlStep
    BY StepShape, PlaneShape, ControlFlow DEF OrderFacts
  <2>2. EntryIsLatest(mem)' /\ EntryIsLatest(disk)'
    BY <2>1, EntriesWritten, EntriesIssued
       DEF PlaneStep, SyncPublish, ReportStarted, ReportSynced, Ack
  <2> QED
    BY <2>1, <2>2, OrderIssued, ResultsOnlyAdded, CommandFollowed, SyncedFollowed DEF OrderInv
<1> QED
  BY <1>1, <1>2, TypeCorrect, DurableInvariant, PublishedInvariant, PTL DEF Spec

\* When the control plane issues one assignment of a service at a time, it has the
\* synced report of every stop it acknowledged: also of one whose first delivery
\* ended in a crash, a failed write or a lost lease.
THEOREM StopIsSyncedBeforeAck == ASSUME ~Overlap PROVE Spec => []AckedStopIsSynced
<1>1. OrderInv => AckedStopIsSynced
  BY DEF OrderInv, SyncedStored, AckedStopIsSynced
<1> QED
  BY <1>1, OrderInvariant, PTL

\* Under the same assumption no step replaces a result in commands.json: a replayed
\* command gets its original result.
THEOREM StoredResultsAreFinal == ASSUME ~Overlap PROVE Spec => ReplayReturnsOriginal
<1>1. OrderFacts /\ [Next]_vars => \A c \in Command : disk.results[c] # "none" =>
                                       disk'.results[c] = disk.results[c]
  BY StepShape, ResultsOnlyAdded DEF OrderFacts
<1> QED
  BY <1>1, TypeCorrect, DurableInvariant, PublishedInvariant, OrderInvariant, PTL
     DEF Spec, OrderFacts, ReplayReturnsOriginal
=============================================================================

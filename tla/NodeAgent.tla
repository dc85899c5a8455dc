------------------------------ MODULE NodeAgent ------------------------------
(***************************************************************************)
(* The shared-node agent of one compute node: Daemon.Process, the          *)
(* Executor, its durable FileStore, the lease-renewal goroutine, startup   *)
(* reconciliation, and the Docker and workspace operations they drive.     *)
(*                                                                         *)
(* The control plane, Docker and the object store are not part of the      *)
(* repository; their actions are the weakest ones the agent's code is      *)
(* written against.  A command is identified by its kind, service and      *)
(* assignment.  Game progress is abstracted to the set of assignments      *)
(* whose play session is contained in a workspace or in a revision.        *)
(***************************************************************************)
EXTENDS Naturals

CONSTANTS
    Service,        \* the services this node may host
    MaxAssignment,  \* bound: assignments are numbered 1 .. MaxAssignment
    Overlap,        \* may a new assignment be issued before the last one ended?
    PersistMayFail, \* may writing commands.json fail?
    RemoveMayFail,  \* may the ignored forced container removals fail?
    LeaseMayLapse   \* may a lease lapse while Process still holds it?

ASSUME ConstantsAssumption ==
    /\ MaxAssignment \in Nat
    /\ {Overlap, PersistMayFail, RemoveMayFail, LeaseMayLapse}
           \subseteq BOOLEAN

Assignment == 1 .. MaxAssignment
Slot       == Service \X Assignment
Command    == [kind : {"start", "stop"}, svc : Service, asg : Assignment]
NoCommand  == [kind |-> "none"]

StartOf(s, a) == [kind |-> "start", svc |-> s, asg |-> a]
StopOf(s, a)  == [kind |-> "stop", svc |-> s, asg |-> a]

\* Result statuses; "failed-coded" is a failure that carries a terminal Code.
Status == {"none", "started", "stopped-and-synced", "failed", "failed-coded"}

\* ActiveAssignment, with phase "none" for a service that has no entry.
Active   == [asg : 0 .. MaxAssignment, phase : {"none", "starting", "running", "stopped"},
             reported : BOOLEAN]
NoActive == [asg |-> 0, phase |-> "none", reported |-> FALSE]
ActiveAs(a, p) == [asg |-> a, phase |-> p, reported |-> FALSE]

\* The one managed container of a service; asg is its assignment label.
Container   == {c \in [asg : 0 .. MaxAssignment, run : BOOLEAN] : c.run => c.asg # 0}
NoContainer == [asg |-> 0, run |-> FALSE]

\* The service's local workspace directory; owner restored it.
Workspace   == [there : BOOLEAN, owner : 0 .. MaxAssignment, data : SUBSET Assignment]
NoWorkspace == [there |-> FALSE, owner |-> 0, data |-> {}]

\* commands.json: fileState.Results and fileState.Active.  fileState.Leases is
\* written and never read back, so only the writes themselves are modelled.
Store      == [results : [Command -> Status], active : [Service -> Active]]
EmptyStore == [results |-> [c \in Command |-> "none"],
               active  |-> [s \in Service |-> NoActive]]

\* A published manifest: its revision and the sessions its layers contain.
Manifest == [rev : Nat, data : SUBSET Assignment]

VARIABLES
    mem,        \* FileStore.data
    disk,       \* the contents of commands.json
    pc,         \* where the daemon's main goroutine is
    cmd,        \* the command Process works on
    res,        \* its result so far
    lost,       \* leaseLost: set with the cancellation of executionContext
    lease,      \* does the control plane still honour this delivery's lease?
    container,  \* Docker: the managed container of each service
    ws,         \* the workspace directory of each service
    issued,     \* control plane: commands created
    revOf,      \* the workspace revision each command carries
    acked,      \* control plane: the acknowledged result of each command
    started, stopped, synced,   \* control plane: reports accepted
    rev,        \* control plane: current revision of each service
    blob,       \* object store: the published manifests of each service; the
                \* initial content of revision 0 counts as one
    saved,      \* history: sessions that wrote to a workspace
    healthy     \* history: assignments waitHealthy saw healthy

store == <<mem, disk>>
proc  == <<pc, cmd, res, lost, lease>>
host  == <<container, ws>>
plane == <<issued, revOf, acked, started, stopped, synced, rev, blob>>
hist  == <<saved, healthy>>
vars  == <<mem, disk, pc, cmd, res, lost, lease, container, ws, issued, revOf,
           acked, started, stopped, synced, rev, blob, saved, healthy>>

\* Where Process calls d.retry, which never looks at leaseLost.
Reporting == {"reportStopped", "reportStarted", "reportSynced", "ack"}
PC == {"reconcile", "next", "execute", "setStarting", "dockerStart", "waitNew",
       "waitOld", "setStopped", "publish", "syncDone", "markReported", "decide",
       "release", "checkLease", "clearLease"} \cup Reporting

Init ==
    /\ mem = EmptyStore /\ disk = EmptyStore
    /\ pc = "reconcile" /\ cmd = NoCommand /\ res = "none"
    /\ lost = FALSE /\ lease = FALSE
    /\ container = [s \in Service |-> NoContainer]
    /\ ws = [s \in Service |-> NoWorkspace]
    /\ issued = {} /\ revOf = [c \in Command |-> 0]
    /\ acked = [c \in Command |-> "none"]
    /\ started = {} /\ stopped = {} /\ synced = {}
    /\ rev = [s \in Service |-> 0]
    /\ blob = [s \in Service |-> {[rev |-> 0, data |-> {}]}]
    /\ saved = {} /\ healthy = {}

-----------------------------------------------------------------------------
(* FileStore *)

\* persist: memory always takes the new state, the file only on success.
Persist(m, ok) == /\ ok \/ PersistMayFail
                  /\ mem' = m
                  /\ disk' = IF ok THEN m ELSE disk

WithActive(s, a) == [results |-> mem.results,
                     active  |-> [mem.active EXCEPT ![s] = a]]

\* Mutant: a failed result is not recorded.
WithResultUnlessFailed(c, r, a) ==
    [results |-> [mem.results EXCEPT ![c] = IF r = "failed" THEN @ ELSE r],
     active  |-> [mem.active EXCEPT ![c.svc] = a]]

WithResult(c, r, a) == [results |-> [mem.results EXCEPT ![c] = r],
                        active  |-> [mem.active EXCEPT ![c.svc] = a]]

-----------------------------------------------------------------------------
(* Daemon control flow *)

Goto(p) == pc' = p /\ UNCHANGED <<cmd, res, lost, lease>>

Finish(p, r) == pc' = p /\ res' = r /\ UNCHANGED <<cmd, lost, lease>>

\* Mutant: the finished command is still the current one.
ReturnKeepingCommand == /\ pc' = "next" /\ res' = "none"
                        /\ lost' = FALSE /\ lease' = FALSE /\ UNCHANGED cmd

\* Process returns to the loop of Run; an unacknowledged command is delivered
\* again once the control plane lets its lease lapse.
Return == /\ pc' = "next" /\ cmd' = NoCommand /\ res' = "none"
          /\ lost' = FALSE /\ lease' = FALSE

Act == mem.active[cmd.svc]
Box == container[cmd.svc]

\* Mutant: the Code of a failed result is not looked at.
CachedUnlessFailed(r) == r \notin {"none", "failed", "failed-coded"}

\* Executor.Execute, lines 101 and 115: is a stored result final?
Cached(r) == r \notin {"none", "failed"}

\* Mutant: the error of the write is dropped.
CommitIgnoringError(r, a) == \E ok \in BOOLEAN :
    /\ Persist(WithResult(cmd, r, a), ok)
    /\ Finish("decide", r)

\* Lines 128-131: Commit, whose failure makes Execute return an error.
Commit(r, a) == \E ok \in BOOLEAN :
    /\ Persist(WithResult(cmd, r, a), ok)
    /\ IF ok THEN Finish("decide", r) ELSE Return

\* Run: Next delivers a command, and Process first tracks its lease.
Deliverable(c) == /\ c \in issued
                  /\ acked[c] = "none"
                  /\ c.kind = "start" => StopOf(c.svc, c.asg) \notin issued

Deliver(c) == \E ok \in BOOLEAN :
    /\ pc = "next" /\ Deliverable(c)
    /\ Persist(mem, ok)
    /\ IF ok
         THEN /\ pc' = "execute" /\ cmd' = c /\ res' = "none"
              /\ lost' = FALSE /\ lease' = TRUE
         ELSE UNCHANGED proc
    /\ UNCHANGED <<host, plane, hist>>

ExecuteCached ==
    /\ pc = "execute" /\ Cached(mem.results[cmd])
    /\ Finish("decide", mem.results[cmd])
    /\ UNCHANGED <<store, host, plane, hist>>

\* The per-service lock is taken with the cancelled executionContext.
ExecuteLeaseLost ==
    /\ pc = "execute" /\ ~Cached(mem.results[cmd]) /\ lost
    /\ Return
    /\ UNCHANGED <<store, host, plane, hist>>

Executing(kind) == /\ pc = "execute" /\ cmd.kind = kind
                   /\ ~Cached(mem.results[cmd]) /\ ~lost

-----------------------------------------------------------------------------
(* Executor.execute, RestoreAndStart *)

OtherAssignmentActive == Act.phase \notin {"none", "stopped"} /\ Act.asg # cmd.asg

StartRefused ==
    /\ Executing("start") /\ OtherAssignmentActive
    /\ Commit("failed", Act)
    /\ UNCHANGED <<host, plane, hist>>

StartAlreadyRunning ==
    /\ Executing("start") /\ ~OtherAssignmentActive /\ Act.phase = "running"
    /\ Commit("started", Act)
    /\ UNCHANGED <<host, plane, hist>>

StartResume ==
    /\ Executing("start") /\ ~OtherAssignmentActive /\ Act.phase = "starting"
    /\ Goto("dockerStart")
    /\ UNCHANGED <<store, host, plane, hist>>

Restoring == Executing("start") /\ Act.phase \in {"none", "stopped"}

\* Manager.Restore replaces the workspace by the assigned revision.
Restore ==
    /\ Restoring
    /\ \E m \in blob[cmd.svc] :
          /\ m.rev = revOf[cmd]
          /\ ws' = [ws EXCEPT ![cmd.svc] =
                       [there |-> TRUE, owner |-> cmd.asg, data |-> m.data]]
    /\ Goto("setStarting")
    /\ UNCHANGED <<store, container, plane, hist>>

\* A transfer, extraction or swap fails; a crash inside the swap of
\* replaceWorkspaceWithBackup leaves no directory under the service's name.
RestoreFail ==
    /\ Restoring
    /\ \E w \in {ws[cmd.svc], NoWorkspace} : ws' = [ws EXCEPT ![cmd.svc] = w]
    /\ Return
    /\ UNCHANGED <<store, container, plane, hist>>

\* Lines 225-230; an error of Restore's tail also returns from here.
SetStarting ==
    /\ pc = "setStarting"
    /\ \E ok \in BOOLEAN :
          /\ Persist(WithActive(cmd.svc, ActiveAs(cmd.asg, "starting")), ok)
          /\ IF ok THEN Goto("dockerStart") ELSE Return
    /\ UNCHANGED <<host, plane, hist>>

RestoreTailFail ==
    /\ pc = "setStarting"
    /\ Return
    /\ UNCHANGED <<store, host, plane, hist>>

-----------------------------------------------------------------------------
(* docker.Runtime.Start and waitHealthy *)

\* A forced removal whose error the code ignores ("_ = ContainerRemove").
RemoveIgnoringError ==
    \E c \in {NoContainer} \cup (IF RemoveMayFail THEN {Box} ELSE {}) :
        container' = [container EXCEPT ![cmd.svc] = c]

\* Terminal descriptor or request errors, before or after the removal of an
\* inactive predecessor.
StartInvalid ==
    /\ pc = "dockerStart"
    /\ \E c \in {Box} \cup (IF Box.run \/ lost THEN {} ELSE {NoContainer}) :
          container' = [container EXCEPT ![cmd.svc] = c]
    /\ Commit("failed-coded", NoActive)
    /\ UNCHANGED <<ws, plane, hist>>

StartForeignContainer ==
    /\ pc = "dockerStart" /\ ~lost /\ Box.run /\ Box.asg # cmd.asg
    /\ Return
    /\ UNCHANGED <<store, host, plane, hist>>

StartExisting ==
    /\ pc = "dockerStart" /\ ~lost /\ Box.run /\ Box.asg = cmd.asg
    /\ Goto("waitOld")
    /\ UNCHANGED <<store, host, plane, hist>>

StartNew ==
    /\ pc = "dockerStart" /\ ~lost /\ ~Box.run
    /\ container' = [container EXCEPT ![cmd.svc] = [asg |-> cmd.asg, run |-> TRUE]]
    /\ Goto("waitNew")
    /\ UNCHANGED <<store, ws, plane, hist>>

Created == [asg |-> cmd.asg, run |-> FALSE]

\* Inspect, remove, create or start fails; after a failed ContainerStart the
\* created container is removed, and the error of the removal ignored.
StartFail ==
    /\ pc = "dockerStart"
    /\ \/ container' = container
       \/ /\ ~Box.run
          /\ \E c \in {NoContainer} \cup (IF RemoveMayFail THEN {Created} ELSE {}) :
                container' = [container EXCEPT ![cmd.svc] = c]
    /\ Return
    /\ UNCHANGED <<store, ws, plane, hist>>

Waiting == pc \in {"waitNew", "waitOld"}

\* Start removes the container it created, never one it found running.
CleanUpStart == IF pc = "waitNew" THEN RemoveIgnoringError ELSE UNCHANGED container

HealthOK ==
    /\ Waiting /\ ~lost /\ Box.run
    /\ healthy' = healthy \cup {<<cmd.svc, cmd.asg>>}
    /\ Commit("started", ActiveAs(cmd.asg, "running"))
    /\ UNCHANGED <<host, plane, saved>>

\* Mutant: the container of a failed start is left behind.
HealthTerminalKeeping ==
    /\ Waiting /\ ~lost
    /\ Commit("failed-coded", NoActive)
    /\ UNCHANGED <<host, plane, hist>>

\* The container exited, is unhealthy, or the health wait timed out.
HealthTerminal ==
    /\ Waiting /\ ~lost
    /\ CleanUpStart
    /\ Commit("failed-coded", NoActive)
    /\ UNCHANGED <<ws, plane, hist>>

\* Docker cannot be inspected, or the lost lease cancelled the wait.
HealthError ==
    /\ Waiting
    /\ CleanUpStart
    /\ Return
    /\ UNCHANGED <<store, ws, plane, hist>>

-----------------------------------------------------------------------------
(* Executor.execute, StopAndSync *)

\* Mutant: a stop without an entry fails instead of syncing.
StopUnknownRefused ==
    /\ Executing("stop") /\ Act.phase = "none"
    /\ Commit("failed", NoActive)
    /\ UNCHANGED <<host, plane, hist>>

\* No entry for the service: nothing to stop, the assignment counts as stopped.
StopUnknown ==
    /\ Executing("stop") /\ Act.phase = "none"
    /\ \E ok \in BOOLEAN :
          /\ Persist(WithActive(cmd.svc, ActiveAs(cmd.asg, "stopped")), ok)
          /\ IF ok THEN Goto("reportStopped") ELSE Return
    /\ UNCHANGED <<host, plane, hist>>

StopMismatch ==
    /\ Executing("stop") /\ Act.phase # "none" /\ Act.asg # cmd.asg
    /\ Commit("failed", Act)
    /\ UNCHANGED <<host, plane, hist>>

Stopping == /\ Executing("stop") /\ Act.phase \in {"starting", "running"}
            /\ Act.asg = cmd.asg

\* docker.Runtime.Stop: a missing container is stopped; a foreign one an error.
StopContainer ==
    /\ Stopping /\ Box.asg \in {0, cmd.asg}
    /\ container' = [container EXCEPT ![cmd.svc].run = FALSE]
    /\ Goto("setStopped")
    /\ UNCHANGED <<store, ws, plane, hist>>

StopFail ==
    /\ Stopping
    /\ \/ container' = container
       \/ Box.asg = cmd.asg /\ container' = [container EXCEPT ![cmd.svc].run = FALSE]
    /\ Return
    /\ UNCHANGED <<store, ws, plane, hist>>

SetStopped ==
    /\ pc = "setStopped"
    /\ \E ok \in BOOLEAN :
          /\ Persist(WithActive(cmd.svc, ActiveAs(cmd.asg, "stopped")), ok)
          /\ IF ok THEN Goto("reportStopped") ELSE Return
    /\ UNCHANGED <<host, plane, hist>>

AlreadyStopped == Executing("stop") /\ Act.phase = "stopped" /\ Act.asg = cmd.asg

StopNotReported ==
    /\ AlreadyStopped /\ ~Act.reported
    /\ \E ok \in BOOLEAN :
          /\ Persist(mem, ok)
          /\ IF ok THEN Goto("reportStopped") ELSE Return
    /\ UNCHANGED <<host, plane, hist>>

-----------------------------------------------------------------------------
(* Manager.Sync, seen from the executor: seal, publish, commit *)

\* Sync archives a missing workspace as an empty one.
EnsureWorkspace(w) == IF w.there THEN w ELSE [there |-> TRUE, owner |-> 0, data |-> {}]

\* Mutants: sync without the stopped report; commit without the publication.
SyncSealUnreported ==
    /\ AlreadyStopped
    /\ ws' = [ws EXCEPT ![cmd.svc] = EnsureWorkspace(@)]
    /\ Goto("publish")
    /\ UNCHANGED <<store, container, plane, hist>>

SyncSealUnpublished ==
    /\ AlreadyStopped /\ Act.reported
    /\ ws' = [ws EXCEPT ![cmd.svc] = EnsureWorkspace(@)]
    /\ Goto("syncDone")
    /\ UNCHANGED <<store, container, plane, hist>>

SyncSeal ==
    /\ AlreadyStopped /\ Act.reported
    /\ ws' = [ws EXCEPT ![cmd.svc] = EnsureWorkspace(@)]
    /\ Goto("publish")
    /\ UNCHANGED <<store, container, plane, hist>>

\* Mutant: an existing manifest is an error even when it is equal.
SyncPublishOnce ==
    LET s == cmd.svc
        m == [rev |-> revOf[cmd] + 1, data |-> ws[s].data]
    IN  /\ pc = "publish" /\ ~lost
        /\ \A n \in blob[s] : n.rev # m.rev
        /\ blob' = [blob EXCEPT ![s] = @ \cup {m}]
        /\ Goto("syncDone")
        /\ UNCHANGED <<store, host, issued, revOf, acked, started, stopped,
                       synced, rev, hist>>

\* The manifest of revision + 1 is written once; an equal one is accepted.
SyncPublish ==
    LET s == cmd.svc
        m == [rev |-> revOf[cmd] + 1, data |-> ws[s].data]
    IN  /\ pc = "publish" /\ ~lost
        /\ \A n \in blob[s] : n.rev = m.rev => n = m
        /\ blob' = [blob EXCEPT ![s] = @ \cup {m}]
        /\ Goto("syncDone")
        /\ UNCHANGED <<store, host, issued, revOf, acked, started, stopped,
                       synced, rev, hist>>

\* Mutant: the error path cleans the workspace up.
SyncFailReleasing ==
    /\ pc \in {"publish", "syncDone"}
    /\ ws' = [ws EXCEPT ![cmd.svc] = NoWorkspace]
    /\ Return
    /\ UNCHANGED <<store, container, plane, hist>>

SyncFail ==
    /\ pc \in {"publish", "syncDone"}
    /\ Return
    /\ UNCHANGED <<store, host, plane, hist>>

SyncCommit ==
    /\ pc = "syncDone"
    /\ Commit("stopped-and-synced", NoActive)
    /\ UNCHANGED <<host, plane, hist>>

-----------------------------------------------------------------------------
(* Daemon.Process after Execute: reports, release, acknowledgement *)

\* Lines 94-121: leaseLost is read once, then the result selects the report.
DecideLost ==
    /\ pc = "decide" /\ lost
    /\ Return
    /\ UNCHANGED <<store, host, plane, hist>>

Decide ==
    /\ pc = "decide" /\ ~lost
    /\ Goto(CASE res = "started" -> "reportStarted"
              [] res = "stopped-and-synced" -> "reportSynced"
              [] OTHER -> "checkLease")
    /\ UNCHANGED <<store, host, plane, hist>>

\* d.retry repeats a request until it is accepted, so an accepted request whose
\* response is lost leaves the daemon where it is.  A report or acknowledgement
\* made under a lapsed lease is never accepted.
ReportStopped ==
    /\ pc = "reportStopped" /\ lease
    /\ stopped' = stopped \cup {<<cmd.svc, cmd.asg>>}
    /\ Goto("markReported") \/ UNCHANGED proc
    /\ UNCHANGED <<store, host, issued, revOf, acked, started, synced, rev, blob, hist>>

\* recoverAuthentication: a rejected node credential ends the retries.
CredentialRejected ==
    /\ pc \in Reporting
    /\ Return
    /\ UNCHANGED <<store, host, plane, hist>>

\* MarkStoppedReported, then the loop of Process executes the command again.
MarkReported ==
    /\ pc = "markReported" /\ Act.asg = cmd.asg /\ Act.phase = "stopped"
    /\ \E ok \in BOOLEAN :
          /\ Persist(WithActive(cmd.svc, [Act EXCEPT !.reported = TRUE]), ok)
          /\ IF ok THEN Goto("execute") ELSE Return
    /\ UNCHANGED <<host, plane, hist>>

ReportStarted ==
    /\ pc = "reportStarted"
    /\ started' = started \cup {<<cmd.svc, cmd.asg>>}
    /\ Goto("checkLease") \/ UNCHANGED proc
    /\ UNCHANGED <<store, host, issued, revOf, acked, stopped, synced, rev, blob, hist>>

\* Mutant: the restored revision is reported instead of the published one.
ReportSyncedOld ==
    /\ pc = "reportSynced" /\ lease
    /\ synced' = synced \cup {<<cmd.svc, cmd.asg>>}
    /\ rev' = [rev EXCEPT ![cmd.svc] = revOf[cmd]]
    /\ Goto("release") \/ UNCHANGED proc
    /\ UNCHANGED <<store, host, issued, revOf, acked, started, stopped, blob, hist>>

\* The control plane makes the published revision the current one.
ReportSynced ==
    /\ pc = "reportSynced" /\ lease
    /\ synced' = synced \cup {<<cmd.svc, cmd.asg>>}
    /\ rev' = [rev EXCEPT ![cmd.svc] = revOf[cmd] + 1]
    /\ Goto("release") \/ UNCHANGED proc
    /\ UNCHANGED <<store, host, issued, revOf, acked, started, stopped, blob, hist>>

\* Executor.Release removes whatever workspace the service has by now.
Release ==
    /\ pc = "release"
    /\ ws' = [ws EXCEPT ![cmd.svc] = NoWorkspace]
    /\ Goto("checkLease")
    /\ UNCHANGED <<store, container, plane, hist>>

ReleaseFail ==
    /\ pc = "release"
    /\ \E w \in {ws[cmd.svc], NoWorkspace} : ws' = [ws EXCEPT ![cmd.svc] = w]
    /\ Return
    /\ UNCHANGED <<store, container, plane, hist>>

\* Mutant: wait for the lease to come back instead of returning.
CheckLeaseWaiting ==
    /\ pc = "checkLease" /\ ~lost
    /\ Goto("ack")
    /\ UNCHANGED <<store, host, plane, hist>>

\* Lines 122-124.
CheckLease ==
    /\ pc = "checkLease"
    /\ IF lost THEN Return ELSE Goto("ack")
    /\ UNCHANGED <<store, host, plane, hist>>

Ack ==
    /\ pc = "ack" /\ lease
    /\ acked' = [acked EXCEPT ![cmd] = res]
    /\ Goto("clearLease") \/ UNCHANGED proc
    /\ UNCHANGED <<store, host, issued, revOf, started, stopped, synced, rev, blob, hist>>

ClearLease ==
    /\ pc = "clearLease"
    /\ \E ok \in BOOLEAN : Persist(mem, ok)
    /\ Return
    /\ UNCHANGED <<host, plane, hist>>

-----------------------------------------------------------------------------
(* The lease-renewal goroutine, and the lease at the control plane *)

Processing == pc \notin {"reconcile", "next"}

\* A renewal is granted and tracked; a failed write counts as a lost lease.
Renew ==
    /\ Processing /\ lease /\ ~lost
    /\ \E ok \in BOOLEAN : Persist(mem, ok) /\ lost' = ~ok
    /\ UNCHANGED <<pc, cmd, res, lease, host, plane, hist>>

\* A renewal is denied or fails: renew makes one attempt only.
RenewFail ==
    /\ Processing /\ ~lost
    /\ lost' = TRUE
    /\ UNCHANGED <<pc, cmd, res, lease, store, host, plane, hist>>

LeaseLapse ==
    /\ LeaseMayLapse /\ lease
    /\ lease' = FALSE
    /\ UNCHANGED <<pc, cmd, res, lost, store, host, plane, hist>>

-----------------------------------------------------------------------------
(* Process exit, restart and Executor.Reconcile *)

\* The agent dies or exits at any point; memory is lost, containers live on.
Crash ==
    /\ mem' = disk
    /\ pc' = "reconcile" /\ cmd' = NoCommand /\ res' = "none"
    /\ lost' = FALSE /\ lease' = FALSE
    /\ UNCHANGED <<disk, host, plane, hist>>

Orphan(s)   == container[s].run /\ mem.active[s].asg # container[s].asg
Resumed(s)  == container[s].run /\ mem.active[s].asg = container[s].asg
                   /\ mem.active[s].phase = "starting"

\* Startup repeats, through process exits, until both kinds are dealt with.
ReconcileOrphan(s) ==
    /\ pc = "reconcile" /\ Orphan(s)
    /\ container' = [container EXCEPT ![s] = NoContainer]
    /\ UNCHANGED <<store, proc, ws, plane, hist>>

ReconcileStarting(s) ==
    /\ pc = "reconcile" /\ Resumed(s)
    /\ Persist(WithActive(s, [mem.active[s] EXCEPT !.phase = "running"]), TRUE)
    /\ UNCHANGED <<proc, host, plane, hist>>

\* Mutant: the daemon runs without reconciliation.
ReconcileSkipped ==
    /\ pc = "reconcile"
    /\ Goto("next")
    /\ UNCHANGED <<store, host, plane, hist>>

ReconcileDone ==
    /\ pc = "reconcile" /\ \A s \in Service : ~Orphan(s) /\ ~Resumed(s)
    /\ Goto("next")
    /\ UNCHANGED <<store, host, plane, hist>>

-----------------------------------------------------------------------------
(* External: the control plane's scheduling, and the game server *)

\* An assignment is over when its stop, or its failed start, is acknowledged.
Over(s, a) == \/ acked[StopOf(s, a)] # "none"
              \/ /\ acked[StartOf(s, a)] \in {"failed", "failed-coded"}
                 /\ StopOf(s, a) \notin issued

Issue(c) == /\ c \notin issued
            /\ issued' = issued \cup {c}
            /\ revOf' = [revOf EXCEPT ![c] = rev[c.svc]]
            /\ UNCHANGED <<store, proc, host, acked, started, stopped, synced,
                           rev, blob, hist>>

IssueStart(s, a) ==
    /\ a > 1 => /\ StartOf(s, a - 1) \in issued
                /\ Overlap \/ Over(s, a - 1)
    /\ Issue(StartOf(s, a))

IssueStop(s, a) ==
    /\ StartOf(s, a) \in issued
    /\ a < MaxAssignment => (Overlap \/ StartOf(s, a + 1) \notin issued)
    /\ Issue(StopOf(s, a))

\* A running server writes to the directory its bind mount refers to.
Play(s) ==
    /\ container[s].run /\ ws[s].there /\ ws[s].owner = container[s].asg
    /\ ws' = [ws EXCEPT ![s].data = @ \cup {container[s].asg}]
    /\ saved' = saved \cup {<<s, container[s].asg>>}
    /\ UNCHANGED <<store, proc, container, plane, healthy>>

ContainerExit(s) ==
    /\ container[s].run
    /\ container' = [container EXCEPT ![s].run = FALSE]
    /\ UNCHANGED <<store, proc, ws, plane, hist>>

-----------------------------------------------------------------------------
StartSteps ==
    \/ StartRefused \/ StartAlreadyRunning \/ StartResume
    \/ Restore \/ RestoreFail \/ SetStarting \/ RestoreTailFail
    \/ StartInvalid \/ StartForeignContainer \/ StartExisting \/ StartNew \/ StartFail
    \/ HealthOK \/ HealthTerminal \/ HealthError

StopSteps ==
    \/ StopUnknown \/ StopMismatch \/ StopContainer \/ StopFail \/ SetStopped
    \/ StopNotReported \/ SyncSeal \/ SyncPublish \/ SyncFail \/ SyncCommit

ProcessSteps ==
    \/ \E c \in Command : Deliver(c)
    \/ ExecuteCached \/ ExecuteLeaseLost
    \/ DecideLost \/ Decide \/ ReportStopped \/ MarkReported \/ ReportStarted
    \/ ReportSynced \/ Release \/ ReleaseFail \/ CheckLease \/ Ack \/ ClearLease
    \/ CredentialRejected

LeaseSteps == Renew \/ RenewFail \/ LeaseLapse

RestartSteps ==
    \/ Crash \/ ReconcileDone
    \/ \E s \in Service : ReconcileOrphan(s) \/ ReconcileStarting(s)

Environment ==
    \E s \in Service :
        \/ Play(s) \/ ContainerExit(s)
        \/ \E a \in Assignment : IssueStart(s, a) \/ IssueStop(s, a)

Next == StartSteps \/ StopSteps \/ ProcessSteps \/ LeaseSteps \/ RestartSteps \/ Environment

Spec == Init /\ [][Next]_vars

(***************************************************************************)
(* Fairness.  The daemon's goroutine keeps running, and what it retries    *)
(* for ever (d.retry, redelivery after an error) is not made to fail for   *)
(* ever: failing steps and crashes may come at any time, but eventually    *)
(* stop.  Errors caused by the cancelled context of a lost lease are the   *)
(* agent's own steps, not faults.                                          *)
(***************************************************************************)
Progress ==
    \/ StartSteps \/ StopSteps \/ ProcessSteps \/ ReconcileDone
    \/ \E s \in Service : ReconcileOrphan(s) \/ ReconcileStarting(s)

Fault ==
    \/ Crash \/ RenewFail \/ LeaseLapse \/ ReleaseFail \/ CredentialRejected
    \/ ~lost /\ (\/ RestoreFail \/ RestoreTailFail \/ StartFail \/ HealthError
                 \/ StopFail \/ SyncFail)

FairSpec == Spec /\ WF_vars(Progress /\ ~Fault) /\ <>[][~Fault]_vars

-----------------------------------------------------------------------------
(* Properties *)

\* Every variable keeps the shape the Go types and the messages give it.
TypeOK ==
    /\ mem \in Store /\ disk \in Store
    /\ pc \in PC /\ cmd \in Command \cup {NoCommand} /\ res \in Status
    /\ lost \in BOOLEAN /\ lease \in BOOLEAN
    /\ container \in [Service -> Container] /\ ws \in [Service -> Workspace]
    /\ issued \subseteq Command /\ revOf \in [Command -> Nat]
    /\ acked \in [Command -> Status]
    /\ started \subseteq Slot /\ stopped \subseteq Slot /\ synced \subseteq Slot
    /\ rev \in [Service -> Nat]
    /\ blob \in [Service -> SUBSET Manifest]
    /\ saved \subseteq Slot /\ healthy \subseteq Slot
    /\ Processing <=> cmd # NoCommand

\* quota-helper: "Docker is stopped before sealing, so no untrusted process can
\* race this walk".  No container of the service runs from the seal of its
\* workspace until the sync result is committed.
SealOnlyWhenStopped == pc \in {"publish", "syncDone"} => ~Box.run

\* ActiveAssignment.StopReported "closes billable runtime before potentially
\* slow workspace sync": a sync, also one resumed after a crash, starts only
\* when the control plane has accepted the assignment's stopped report.
BillingClosedBeforeSync ==
    pc \in {"publish", "syncDone"} => <<cmd.svc, cmd.asg>> \in stopped

\* Whatever result the control plane has acknowledged is the one a restarted
\* agent reads back from commands.json, even when writes of that file fail.
AckedIsDurable == \A c \in Command : acked[c] # "none" => disk.results[c] = acked[c]

\* README: the agent "syncs immutable revisions before acknowledging a stop".
AckedStopIsSynced ==
    \A s \in Service, a \in Assignment :
        acked[StopOf(s, a)] # "none" => <<s, a>> \in synced

\* The revision the control plane assigns next is always a published one.
HeadIsPublished == \A s \in Service : \E m \in blob[s] : m.rev = rev[s]

\* The progress of an assignment reported started is in the local workspace or
\* in some published revision: no restore, release or crash destroys it.
ProgressKept ==
    \A s \in Service, a \in Assignment :
        <<s, a>> \in saved \cap started =>
            \/ ws[s].there /\ a \in ws[s].data
            \/ \E m \in blob[s] : a \in m.data

\* ... and once its workspace is gone, in the revision the next start restores,
\* as long as every synced assignment of the service was reported started: a stop
\* of an assignment that was never restored here publishes an empty revision.
HeadCarriesProgress ==
    \A s \in Service, a \in Assignment :
        /\ <<s, a>> \in saved \cap started
        /\ \A b \in Assignment : <<s, b>> \in synced => <<s, b>> \in started
        => \/ ws[s].there /\ a \in ws[s].data
           \/ \E m \in blob[s] : m.rev = rev[s] /\ a \in m.data

\* Executor.Reconcile and Start leave no container running that the durable
\* assignment does not own while the daemon waits for work.
RunningIsOwned ==
    \A s \in Service :
        pc = "next" /\ container[s].run =>
            /\ mem.active[s].asg = container[s].asg
            /\ mem.active[s].phase \in {"starting", "running"}

\* README: "After a healthy start it reports only endpoint: {host, port}".
StartedOnlyIfHealthy == started \subseteq healthy

\* README: "Replayed command IDs return their original result without starting
\* another container".
ReplayReturnsOriginal ==
    [][\A c \in Command : disk.results[c] # "none" =>
                              disk'.results[c] = disk.results[c]]_vars

\* TestLeaseLossPreventsStaleAcknowledgement: a Process that lost its lease
\* returns, so that the daemon can ask for the next command.
LeaseLossEndsProcess == lost ~> ~lost

\* RetryableError "means the command must remain unacknowledged so its lease-based
\* delivery can resume": a stop that is delivered again and again completes.
StopsAcknowledged ==
    \A s \in Service, a \in Assignment :
        StopOf(s, a) \in issued ~> acked[StopOf(s, a)] # "none"

\* A stop meets the inactive container of an earlier assignment, which only a
\* later start of the service would remove: Runtime.Stop fails every time.
Stranded(c) == /\ c.kind = "stop" /\ mem.active[c.svc] = ActiveAs(c.asg, "starting")
               /\ container[c.svc].asg \notin {0, c.asg}

\* Every command is acknowledged, unless its start was withdrawn by a stop or the
\* stop is stranded for ever.
CommandsAcknowledged ==
    \A c \in Command :
        c \in issued ~> (acked[c] # "none" \/ ~Deliverable(c) \/ []Stranded(c))

=============================================================================

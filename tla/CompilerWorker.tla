--------------------------- MODULE CompilerWorker ---------------------------
(***************************************************************************)
(* The compiler service: its HTTP intake, the durable job queue, the       *)
(* bounded set of run loops, CompilerWorker.run with its upload and        *)
(* callback protocol, and process death and restart at any point.          *)
(*                                                                         *)
(* The control plane and the object store are external.  A request to      *)
(* either may be answered, may be lost, may take effect although its reply *)
(* is lost, and may take effect after the client's timeout gave up on it.  *)
(* A content archive is identified by its digest.                          *)
(***************************************************************************)
EXTENDS CompilerQueue

CONSTANTS
    Loop,           \* the maxConcurrentJobs run loops
    Archive,        \* the archives a build may produce
    NoArchive,
    Bulky,          \* those whose list of paths is over MAX_CALLBACK_BYTES
    ClockSkew,      \* how far in the future issuedAt may lie
    MaxLifetime,    \* longest expiresAt - issuedAt
    MaxFaults,      \* bound: failures, crashes and stops in a behaviour
    MaxDeliveries   \* bound: requests the control plane submits

ASSUME WorkerAssumption ==
    /\ Loop # {}
    /\ NoArchive \notin Archive /\ Bulky \subseteq Archive
    /\ {ClockSkew, MaxLifetime, MaxFaults, MaxDeliveries} \subseteq Nat

VARIABLES
    svc,        \* "off", "up", "stopping", or "wedged": start() rejected for good
    loop,       \* loop[l]: the attempt the run loop is in
    bound,      \* bound[j]: the publication the control plane bound to the job
    told,       \* told[j]: the terminal callbacks the control plane received
    store,      \* store[j]: the object under the job's expectedContentKey
    late,       \* requests given up by the client and still on the wire
    acked,      \* history: jobs whose submission was answered 202
    built,      \* history: built[j], the archives attempts could announce
    torn,       \* history: jobs requeued by a finish that threw all the same
    faults,     \* how many faults have happened
    deliveries  \* how many requests have been submitted

serviceVars  == <<svc, loop>>
externalVars == <<bound, told, store, late>>
historyVars  == <<acked, built, torn>>
countVars    == <<faults, deliveries>>
vars == <<pending, archive, svc, loop, bound, told, store, late, acked, built,
          torn, faults, deliveries>>

Verdict == {"published", "failed"}
Message == [kind : Verdict \cup {"upload-prepared", "put"}, job : Job,
            archive : Archive \cup {NoArchive}]

\* Where an attempt is: the request it makes next, or the queue write.
Pc == {"idle", "grants", "build", "failing", "prepare", "check", "put",
       "reconcile", "publish", "archive", "remove", "requeue", "requeue_again"}
Attempt == [pc : Pc, job : Job \cup {0}, built : Archive \cup {NoArchive},
            bound : Archive \cup {NoArchive}]
Idle == [pc |-> "idle", job |-> 0, built |-> NoArchive, bound |-> NoArchive]

Goto(l, pc)  == loop' = [loop EXCEPT ![l].pc = pc]
GoIdle(l)    == loop' = [loop EXCEPT ![l] = Idle]
At(l, pc)    == loop[l].pc = pc

\* The queue's lock is held over both writes of a terminal finish.
LockFree == \A l \in Loop : ~At(l, "remove")

Works == UNCHANGED faults
Fault == faults < MaxFaults /\ faults' = faults + 1

Init ==
    /\ QueueInit
    /\ svc = "off"
    /\ loop  = [l \in Loop |-> Idle]
    /\ bound = [j \in Job |-> NoArchive]
    /\ told  = [j \in Job |-> {}]
    /\ store = [j \in Job |-> NoArchive]
    /\ late  = {}
    /\ acked = {}
    /\ built = [j \in Job |-> {}]
    /\ torn = {}
    /\ faults = 0 /\ deliveries = 0
-----------------------------------------------------------------------------
(* Starting and stopping the process *)

\* start() with a queue.initialize() that repairs every file.
Start ==
    /\ svc = "off"
    /\ svc' = "up"
    /\ pending' = [j \in Job |-> Recovered(j, pending[j])]
    /\ Works
    /\ UNCHANGED <<archive, loop, externalVars, historyVars, deliveries>>

\* initialize() throws after repairing the files up to some name: startPromise
\* stays rejected, and no request or loop gets past it until a restart.
StartFails ==
    /\ svc = "off" /\ Fault
    /\ svc' = "wedged"
    /\ \E n \in Job \cup {0} :
          pending' = [j \in Job |-> IF j <= n THEN Recovered(j, pending[j])
                                    ELSE pending[j]]
    /\ UNCHANGED <<archive, loop, externalVars, historyVars, deliveries>>

\* The process dies: power, kill, the ten-second limit of a stop.
Crash ==
    /\ svc # "off" /\ Fault
    /\ svc' = "off"
    /\ loop' = [l \in Loop |-> Idle]
    /\ UNCHANGED <<queueVars, externalVars, historyVars, deliveries>>

\* SIGTERM: loops finish the attempt they are in and claim nothing more.
Stop ==
    /\ svc = "up" /\ Fault
    /\ svc' = "stopping"
    /\ UNCHANGED <<queueVars, loop, externalVars, historyVars, deliveries>>

Stopped ==
    /\ svc = "stopping" /\ \A l \in Loop : At(l, "idle")
    /\ svc' = "off"
    /\ Works
    /\ UNCHANGED <<queueVars, loop, externalVars, historyVars, deliveries>>
-----------------------------------------------------------------------------
(* Intake *)

ValidMessageLifetime(e, now) ==
    /\ e.issued <= now + ClockSkew
    /\ e.expires > now
    /\ e.expires <= e.issued + MaxLifetime

\* parseQueuedEnvelope judges the stored body as of its own issuedAt.
QueuedEnvelopeValid(e) == ValidMessageLifetime(e, e.issued)

Known(j) == j \in archive \/ pending[j].state # "none"

\* consume: a request that parses is persisted, then answered 202.  Envelope
\* times are relative to the arrival.  The write may fail before or after its
\* rename became visible; either way the client sees an error.  A request that
\* gives the id of a known job to another one is answered 409.
Consume(j, e) ==
    /\ ValidMessageLifetime(e, 0)
    /\ LET wrote == IF j \in archive THEN pending
                    ELSE [pending EXCEPT ![j] = Enqueued(@, e)]
       IN  \/ Works /\ pending' = wrote /\ acked' = acked \cup {j}
           \/ Fault /\ pending' \in {pending, wrote} /\ UNCHANGED acked
           \/ Works /\ Known(j) /\ UNCHANGED <<pending, acked>>

\* handleHttp: every request first awaits start().
HandleHttp(j, e) ==
    /\ svc = "up" /\ LockFree
    /\ deliveries < MaxDeliveries /\ deliveries' = deliveries + 1
    /\ Consume(j, e)
    /\ UNCHANGED <<archive, serviceVars, externalVars, built, torn>>
-----------------------------------------------------------------------------
(* The run loop *)

\* runLoop and the start of processQueued: the body is parsed at once.
Claim(l) ==
    /\ svc = "up" /\ At(l, "idle") /\ LockFree
    /\ \E j \in Job :
          /\ IsNext(j)
          /\ pending' = [pending EXCEPT ![j] = Claimed(@)]
          /\ loop' = [loop EXCEPT ![l] =
                 [Idle EXCEPT !.job = j,
                      !.pc = IF QueuedEnvelopeValid(pending[j].body) THEN "grants"
                             ELSE "requeue_again"]]
    /\ Works
    /\ UNCHANGED <<archive, svc, externalVars, historyVars, deliveries>>

\* claim throws: nothing handles the loop's rejected promise, so Node ends the
\* process.  The write may have become visible.
ClaimFails(l) ==
    /\ svc = "up" /\ At(l, "idle") /\ LockFree /\ Fault
    /\ \E j \in Job : IsNext(j)
                      /\ pending' \in {pending, [pending EXCEPT ![j] = Claimed(@)]}
    /\ svc' = "off"
    /\ loop' = [k \in Loop |-> Idle]
    /\ UNCHANGED <<archive, externalVars, historyVars, deliveries>>

\* A grant reply may be the exact one, name another job, or be expired.
GrantReply == {"exact", "foreign", "expired"}

VerifyGrantSet(reply, requireUnexpired) ==
    /\ reply # "foreign"
    /\ requireUnexpired => reply # "expired"

\* callbacks.grants parses the reply, getGrants also wants it unexpired.  An
\* attempt without grants reports nothing: failed() refuses to post.
GetGrants(l) ==
    /\ At(l, "grants")
    /\ \/ \E reply \in GrantReply :
             /\ IF reply = "exact" THEN Works ELSE Fault
             /\ Goto(l, IF VerifyGrantSet(reply, FALSE) /\ VerifyGrantSet(reply, TRUE)
                        THEN "build" ELSE "requeue")
       \/ Fault /\ Goto(l, "requeue")
    /\ UNCHANGED <<queueVars, svc, externalVars, historyVars, deliveries>>

\* Download, bundle validation and build: any of them may fail for good.
Build(l) ==
    /\ At(l, "build")
    /\ \/ \E a \in Archive :
             /\ loop' = [loop EXCEPT ![l].pc = "prepare", ![l].built = a]
             /\ built' = [built EXCEPT ![loop[l].job] = @ \cup ({a} \ Bulky)]
       \/ Goto(l, "failing") /\ UNCHANGED built
    /\ Works
    /\ UNCHANGED <<queueVars, svc, externalVars, acked, torn, deliveries>>
-----------------------------------------------------------------------------
(* Requests to the control plane and the object store *)

\* What the receiver does: a binding is made once, a PUT carries
\* If-None-Match: *, and verdicts accumulate.
Receive(m) ==
    /\ bound' = IF m.kind = "upload-prepared" /\ bound[m.job] = NoArchive
                THEN [bound EXCEPT ![m.job] = m.archive] ELSE bound
    /\ store' = IF m.kind = "put" /\ store[m.job] = NoArchive
                THEN [store EXCEPT ![m.job] = m.archive] ELSE store
    /\ told'  = IF m.kind \in Verdict
                THEN [told EXCEPT ![m.job] = @ \cup {m.kind}] ELSE told

\* The client gave up: the request took effect, will, or never does.
GivesUp(m) ==
    /\ Fault
    /\ \/ Receive(m) /\ UNCHANGED late
       \/ late' \in {late, late \cup {m}} /\ UNCHANGED <<bound, store, told>>

\* post: a 2xx answer in time, or a callback_delivery_failed.  What is too large
\* for a callback is never sent.
Post(l, kind, a, answered, gaveUp) ==
    LET m == [kind |-> kind, job |-> loop[l].job, archive |-> a]
    IN  \/ a \notin Bulky /\ Works /\ Receive(m) /\ UNCHANGED late /\ answered
        \/ a \notin Bulky /\ GivesUp(m) /\ gaveUp
        \/ a \in Bulky /\ Works /\ UNCHANGED externalVars /\ gaveUp

\* A request the client gave up on arrives after all.
ArriveLate ==
    /\ \E m \in late : Receive(m) /\ late' = late \ {m}
    /\ Works
    /\ UNCHANGED <<queueVars, serviceVars, historyVars, deliveries>>

\* Mutant: a failed callback that was not answered counts as delivered.
PostFailedOnce(l) ==
    /\ At(l, "failing")
    /\ Post(l, "failed", NoArchive, Goto(l, "archive"), Goto(l, "archive"))
    /\ UNCHANGED <<queueVars, svc, historyVars, deliveries>>

PostFailed(l) ==
    /\ At(l, "failing")
    /\ Post(l, "failed", NoArchive, Goto(l, "archive"), Goto(l, "requeue"))
    /\ UNCHANGED <<queueVars, svc, historyVars, deliveries>>

\* The reply to upload-prepared carries the binding; it says upload_existing
\* when the job was bound before, and may say upload_prepared again only for
\* the very same content.
PrepareStatus(j, a) ==
    (IF bound[j] \in {NoArchive, a} THEN {"upload_prepared"} ELSE {})
    \cup (IF bound[j] # NoArchive THEN {"upload_existing"} ELSE {})

\* Mutant: the upload begins without an answer to upload-prepared.
PrepareUploadAnyway(l) ==
    LET a == loop[l].built
    IN  /\ At(l, "prepare")
        /\ Post(l, "upload-prepared", a,
                loop' = [loop EXCEPT ![l].pc = "put", ![l].bound = a],
                loop' = [loop EXCEPT ![l].pc = "put", ![l].bound = a])
        /\ UNCHANGED <<queueVars, svc, historyVars, deliveries>>

PrepareUpload(l) ==
    LET j == loop[l].job  a == loop[l].built
    IN  /\ At(l, "prepare")
        /\ Post(l, "upload-prepared", a,
                \E status \in PrepareStatus(j, a) :
                   loop' = [loop EXCEPT
                      ![l].pc = IF status = "upload_prepared" THEN "put" ELSE "check",
                      ![l].bound = IF bound[j] = NoArchive THEN a ELSE bound[j]],
                Goto(l, "requeue"))
        /\ UNCHANGED <<queueVars, svc, historyVars, deliveries>>

\* Mutant: an upload that was not answered is published.
UploadUnanswered(l) ==
    LET m == [kind |-> "put", job |-> loop[l].job, archive |-> loop[l].built]
    IN  /\ At(l, "put")
        /\ \/ Works /\ Receive(m) /\ UNCHANGED late
           \/ GivesUp(m)
        /\ Goto(l, "publish")
        /\ UNCHANGED <<queueVars, svc, historyVars, deliveries>>

\* uploadExact with the archive of this attempt; 412 if the key is taken.
UploadExact(l) ==
    LET j == loop[l].job
        m == [kind |-> "put", job |-> j, archive |-> loop[l].built]
    IN  /\ At(l, "put")
        /\ \/ /\ Works /\ Receive(m) /\ UNCHANGED late
              /\ Goto(l, IF store[j] = NoArchive THEN "publish" ELSE "reconcile")
           \/ GivesUp(m) /\ Goto(l, "reconcile")
        /\ UNCHANGED <<queueVars, svc, historyVars, deliveries>>

\* Mutant: a job that was bound before is never uploaded again.
ReconcileOnly(l) ==
    /\ At(l, "check") \/ At(l, "reconcile")
    /\ \/ Works /\ Goto(l, IF store[loop[l].job] = loop[l].bound THEN "publish" ELSE "requeue")
       \/ Fault /\ Goto(l, "requeue")
    /\ UNCHANGED <<queueVars, svc, externalVars, historyVars, deliveries>>

\* reconcileExactUpload: the stored object must be the bound one.  A job that
\* was bound before is checked first and uploaded if the check fails.
ReconcileExactUpload(l) ==
    /\ At(l, "check") \/ At(l, "reconcile")
    /\ LET unproven == IF At(l, "check") THEN "put" ELSE "requeue"
       IN  \/ Works /\ Goto(l, IF store[loop[l].job] = loop[l].bound THEN "publish"
                               ELSE unproven)
           \/ Fault /\ Goto(l, unproven)
    /\ UNCHANGED <<queueVars, svc, externalVars, historyVars, deliveries>>

Publish(l) ==
    /\ At(l, "publish")
    /\ Post(l, "published", loop[l].bound, Goto(l, "archive"), Goto(l, "requeue"))
    /\ UNCHANGED <<queueVars, svc, historyVars, deliveries>>
-----------------------------------------------------------------------------
(* Recording the outcome *)

\* finish(terminal), first write.  An error, the state conflict of a record that
\* is not running included, sends processQueued to its catch.
ArchiveJob(l) ==
    /\ At(l, "archive") /\ LockFree
    /\ IF pending[loop[l].job].state = "running"
       THEN \/ Works /\ archive' = archive \cup {loop[l].job} /\ Goto(l, "remove")
            \/ Fault /\ archive' \in {archive, archive \cup {loop[l].job}}
                     /\ Goto(l, "requeue_again")
       ELSE Works /\ UNCHANGED archive /\ Goto(l, "requeue_again")
    /\ UNCHANGED <<pending, svc, externalVars, historyVars, deliveries>>

\* finish(terminal), second write.
RemovePending(l) ==
    LET gone == [pending EXCEPT ![loop[l].job] = NoRecord]
    IN  /\ At(l, "remove")
        /\ \/ Works /\ pending' = gone /\ GoIdle(l)
           \/ Fault /\ pending' \in {pending, gone} /\ Goto(l, "requeue_again")
        /\ UNCHANGED <<archive, svc, externalVars, historyVars, deliveries>>

\* finish(retry).  After processQueued's first try an error is caught and the
\* retry is written once more; an error of that second try is ignored, and so
\* is its state conflict when the first try took effect after all.
Requeue(l) ==
    LET j == loop[l].job
        again == [pending EXCEPT ![j] = Retried(@)]
        onError == IF At(l, "requeue") THEN Goto(l, "requeue_again") ELSE GoIdle(l)
    IN  /\ At(l, "requeue") \/ At(l, "requeue_again")
        /\ LockFree
        /\ IF pending[j].state = "running"
           THEN \/ Works /\ pending' = again /\ GoIdle(l) /\ UNCHANGED torn
                \/ Fault /\ UNCHANGED <<pending, torn>> /\ onError
                \/ Fault /\ pending' = again /\ torn' = torn \cup {j} /\ onError
           ELSE Works /\ UNCHANGED <<pending, torn>> /\ onError
        /\ UNCHANGED <<archive, svc, externalVars, acked, built, deliveries>>
-----------------------------------------------------------------------------
\* Time for a unit of backoff passes while attempts talk to the network or build
\* and while loops sleep; local file writes, and the 250 ms after which an idle
\* loop looks again, are short against it.
Lasting == \A l \in Loop :
    /\ loop[l].pc \notin {"archive", "remove", "requeue", "requeue_again"}
    /\ svc = "up" /\ At(l, "idle") => Due = {}

Backoff ==
    /\ Lasting
    /\ BackoffTick
    /\ UNCHANGED <<serviceVars, externalVars, historyVars, countVars>>

Step(l) ==
    \/ Claim(l) \/ GetGrants(l) \/ Build(l) \/ PostFailed(l)
    \/ PrepareUpload(l) \/ UploadExact(l) \/ ReconcileExactUpload(l)
    \/ Publish(l) \/ ArchiveJob(l) \/ RemovePending(l) \/ Requeue(l)

Next ==
    \/ Start \/ StartFails \/ Crash \/ Stop \/ Stopped
    \/ \E j \in Job, e \in Envelope : HandleHttp(j, e)
    \/ \E l \in Loop : Step(l) \/ ClaimFails(l)
    \/ ArriveLate \/ Backoff

Spec == Init /\ [][Next]_vars

\* The supervisor restarts the process, timers fire, a loop in an attempt goes
\* on, and a request that nothing disturbs is answered.  Nothing is assumed of
\* late requests or of the control plane submitting again.
Fairness ==
    /\ WF_vars(Start) /\ WF_vars(Stopped) /\ WF_vars(Backoff)
    /\ \A l \in Loop : WF_vars(Step(l) /\ Works)

FairSpec == Spec /\ Fairness
-----------------------------------------------------------------------------
(* Properties *)

\* Every variable keeps its type.
CompilerTypeOK ==
    /\ pending \in [Job -> Record] /\ archive \subseteq Job
    /\ svc \in {"off", "up", "stopping", "wedged"}
    /\ loop \in [Loop -> Attempt]
    /\ bound \in [Job -> Archive \cup {NoArchive}]
    /\ store \in [Job -> Archive \cup {NoArchive}]
    /\ told \in [Job -> SUBSET Verdict]
    /\ late \subseteq Message
    /\ acked \subseteq Job /\ torn \subseteq Job /\ built \in [Job -> SUBSET Archive]
    /\ faults \in 0 .. MaxFaults /\ deliveries \in 0 .. MaxDeliveries

\* A job answered 202 is in pending/ or in archive/ ever after, across every
\* crash and failed write: finish archives before it removes.
AckedJobIsKept == \A j \in acked : pending[j].state # "none" \/ j \in archive

\* A loop in an attempt owns its job: no other loop has it, and its record says
\* running, so finish meets no state conflict.  Excepted are the moment after a
\* finish threw, and jobs whose retry was written by a finish that still threw:
\* its second try may hit the attempt a redelivery started in between.
AttemptOwnsRecord ==
    \A l \in Loop : LET j == loop[l].job IN j \notin torn \cup {0} =>
        /\ \A k \in Loop \ {l} : loop[k].job # j
        /\ pending[j].state = "running" \/ At(l, "requeue_again")

\* No object is ever stored for a job before the control plane holds a binding
\* for it, late requests included.
BoundBeforeStored == \A j \in Job : store[j] # NoArchive => bound[j] # NoArchive

\* When the control plane has received published for a job whose attempts all
\* built the same archive, the object store holds exactly the bound archive.
PublishedIsStored == \A j \in Job :
    "published" \in told[j] /\ (\A a, b \in built[j] : a = b)
        => store[j] # NoArchive /\ store[j] = bound[j]

\* What can keep an accepted job from finishing once faults cease: a start that
\* failed, a finish whose every write failed, an envelope that expires no later
\* than it was issued, a key taken by an archive other than the bound one, an
\* archive with too many paths for a callback.
Obstructed(j) ==
    \/ svc = "wedged"
    \/ svc = "up" /\ pending[j].state = "running" /\ \A l \in Loop : loop[l].job # j
    \/ \E e \in {pending[j].body, pending[j].redelivery} \ {NoEnvelope} :
          ~QueuedEnvelopeValid(e)
    \/ store[j] # NoArchive /\ store[j] # bound[j]
    \/ \E l \in Loop : loop[l].job = j /\ loop[l].built \in Bulky

\* Every persisted job is eventually archived unless it is obstructed.
AcceptedJobFinishes == \A j \in Job :
    (pending[j].state # "none") ~> (j \in archive \/ Obstructed(j))

\* The service as its control plane sees it.
Lifecycle == INSTANCE JobLifecycle WITH
    status <- [j \in Job |-> IF j \in archive THEN "retired"
                             ELSE IF pending[j].state = "none" THEN "new"
                             ELSE "accepted"],
    heard  <- told

\* The compiler service implements the job lifecycle it promises.
ImplementsLifecycle == Lifecycle!Spec

\* compiler/README.md: the worker never sends a contradictory failed callback
\* after publication has begun.
NoContradictoryFailure == \A l \in Loop :
    At(l, "failing") => "published" \notin told[loop[l].job]
=============================================================================

------------------------ MODULE CompilerWorkerProofs ------------------------
(***************************************************************************)
(* The safety properties of the compiler service, for any set of jobs, any *)
(* number of run loops and any number of faults and submissions.           *)
(*                                                                         *)
(* Inv is the inductive invariant: its parts are named below, and each     *)
(* theorem at the end follows from some of them.                           *)
(***************************************************************************)
EXTENDS CompilerWorker, TLAPS

\* A leaf is tried with Zenon, then with the SMT solver.
USE ZenonT(5), SMTT(15)

\* A loop holds a job exactly while it is in an attempt, and a service that is
\* off or wedged has none.
LoopsHoldJobs ==
    /\ \A l \in Loop : loop[l].pc = "idle" <=> loop[l].job = 0
    /\ svc \in {"off", "wedged"} => \A l \in Loop : loop[l].pc = "idle"

\* A job the queue has not forgotten.
Kept(j) == pending[j].state # "none" \/ j \in archive

\* Whoever still refers to a job refers to one that is kept.
ReferencedIsKept ==
    /\ \A j \in acked : Kept(j)
    /\ \A l \in Loop : loop[l].job # 0 => Kept(loop[l].job)
    /\ \A m \in late : Kept(m.job)

\* The order of finish's two writes and of the callback before them.
FinishOrder == \A l \in Loop :
    /\ At(l, "archive") => told[loop[l].job] # {}
    /\ At(l, "remove") => loop[l].job \in archive

\* AttemptOwnsRecord, and what a failed finish can leave: nothing pending, but
\* then the job is archived and nobody can claim it.
Ownership == \A l \in Loop : loop[l].job \notin torn \cup {0} =>
    /\ \A k \in Loop \ {l} : loop[k].job # loop[l].job
    /\ \/ pending[loop[l].job].state = "running"
       \/ /\ At(l, "requeue_again")
          /\ pending[loop[l].job].state = "none" /\ loop[l].job \in archive

Uploading == {"check", "put", "reconcile", "publish"}

\* What an attempt knows of its archive and of the control plane's binding.
AttemptIsBound == \A l \in Loop :
    /\ loop[l].pc = "prepare" => loop[l].built \in built[loop[l].job] \cup Bulky
    /\ loop[l].pc \in Uploading => loop[l].built \in built[loop[l].job]
    /\ loop[l].pc \in Uploading =>
          bound[loop[l].job] # NoArchive /\ loop[l].bound = bound[loop[l].job]
    /\ At(l, "publish") => store[loop[l].job] # NoArchive

\* The same of a request, when it is sent and while it is on the wire.
RequestIsBound(m) ==
    /\ m.kind \in {"upload-prepared", "put"} => m.archive \in built[m.job]
    /\ m.kind \in {"put", "published"} => bound[m.job] # NoArchive
    /\ m.kind = "published" => store[m.job] # NoArchive

LateIsBound == \A m \in late : RequestIsBound(m)

\* The same of what the control plane and the object store hold.
OutsideIsBound == \A j \in Job :
    /\ bound[j] \in built[j] \cup {NoArchive}
    /\ store[j] \in built[j] \cup {NoArchive}
    /\ store[j] # NoArchive => bound[j] # NoArchive
    /\ "published" \in told[j] => store[j] # NoArchive

Typed == CompilerTypeOK /\ LoopsHoldJobs

Inv ==
    /\ Typed
    /\ ReferencedIsKept /\ FinishOrder /\ Ownership
    /\ AttemptIsBound /\ LateIsBound /\ OutsideIsBound
-----------------------------------------------------------------------------
(* Types *)

\* Every backoff is positive.
LEMMA PowerType == ASSUME NEW n \in 0 .. 8 PROVE 2 ^ n \in Nat
<1>0. 2 ^ 0 \in Nat OBVIOUS
<1>1. 2 ^ 1 \in Nat OBVIOUS
<1>2. 2 ^ 2 \in Nat OBVIOUS
<1>3. 2 ^ 3 \in Nat OBVIOUS
<1>4. 2 ^ 4 \in Nat OBVIOUS
<1>5. 2 ^ 5 \in Nat OBVIOUS
<1>6. 2 ^ 6 \in Nat OBVIOUS
<1>7. 2 ^ 7 \in Nat OBVIOUS
<1>8. 2 ^ 8 \in Nat OBVIOUS
<1>9. \/ n = 0 \/ n = 1 \/ n = 2 \/ n = 3 \/ n = 4 \/ n = 5 \/ n = 6 \/ n = 7 \/ n = 8
  OBVIOUS
<1> QED BY <1>0, <1>1, <1>2, <1>3, <1>4, <1>5, <1>6, <1>7, <1>8, <1>9, Zenon

\* A retry waits, and no longer than the ceiling.
LEMMA DelayType == ASSUME NEW n \in 0 .. AttemptCap PROVE RetryDelay(n) \in 0 .. MaxDelay
<1> DEFINE exponent == IF n > 8 THEN 8 ELSE IF n = 0 THEN 0 ELSE n - 1
           delay == 2 ^ exponent
<1>1. exponent \in 0 .. 8 BY QueueAssumption
<1>2. delay \in Nat BY Zenon, <1>1, PowerType
<1>3. RetryDelay(n) = IF delay < MaxDelay THEN delay ELSE MaxDelay BY DEF RetryDelay
<1> HIDE DEF delay
<1> QED BY <1>2, <1>3, QueueAssumption

\* Every queue operation writes a well-formed record.
LEMMA RecordTypes ==
  ASSUME NEW r \in Record, NEW j
  PROVE  /\ NoRecord \in Record
         /\ Claimed(r) \in Record
         /\ Retried(r) \in Record
         /\ Recovered(j, r) \in Record
<1>1. NoRecord \in Record BY QueueAssumption DEF Record, NoRecord
<1>2. Claimed(r) \in Record
  <2> DEFINE n == IF r.attempts < AttemptCap THEN r.attempts + 1 ELSE r.attempts
  <2>1. n \in 0 .. AttemptCap BY QueueAssumption DEF Record
  <2>2. Claimed(r) = [r EXCEPT !.state = "running", !.attempts = n] BY DEF Claimed, Record
  <2> HIDE DEF n
  <2> QED BY Zenon, <2>1, <2>2 DEF Record
<1>3. RetryDelay(r.attempts) \in 0 .. MaxDelay BY DelayType DEF Record
<1>4. Retried(r) \in Record BY Zenon, <1>3 DEF Record, Retried
<1>5. Recovered(j, r) \in Record BY <1>1 DEF Record, Recovered
<1> QED BY <1>1, <1>2, <1>4, <1>5

\* enqueue never leaves nothing, and leaves a running record running.
LEMMA EnqueuedRecord ==
  ASSUME NEW r \in Record, NEW e \in Envelope
  PROVE  /\ Enqueued(r, e) \in Record
         /\ Enqueued(r, e).state # "none"
         /\ r.state = "running" => Enqueued(r, e).state = "running"
<1>1. CASE r.state = "none"
  <2>1. Enqueued(r, e) = [NoRecord EXCEPT !.state = "pending", !.body = e]
    BY <1>1, Zenon DEF Enqueued
  <2> QED BY Zenon, <1>1, <2>1, RecordTypes DEF Record, NoRecord
<1>2. CASE r.state = "running"
  <2>1. Enqueued(r, e) = [r EXCEPT !.redelivery = e]
    BY <1>2 DEF Enqueued
  <2> QED BY <1>2, <2>1 DEF Record
<1>3. CASE r.state \notin {"none", "running"}
  <2>1. Enqueued(r, e) = [r EXCEPT !.body = e, !.state = "pending", !.delay = 0]
    BY <1>3 DEF Enqueued
  <2>2. 0 \in 0 .. MaxDelay BY QueueAssumption
  <2> QED BY Zenon, <1>3, <2>1, <2>2 DEF Record
<1> QED BY <1>1, <1>2, <1>3

\* The fault counter stays within its bound.
LEMMA CountsType ==
  ASSUME CompilerTypeOK, Works \/ Fault
  PROVE  faults' \in 0 .. MaxFaults
BY WorkerAssumption DEF CompilerTypeOK, Works, Fault

\* An idle loop holds no job.
LEMMA IdleType == Idle \in Attempt /\ Idle.pc = "idle" /\ Idle.job = 0
BY DEF Idle, Attempt, Pc

\* What a loop's move to another position changes, and what it leaves.
LEMMA Moves ==
  ASSUME CompilerTypeOK, NEW l \in Loop, NEW pc \in Pc, Goto(l, pc)
  PROVE  /\ loop' \in [Loop -> Attempt]
         /\ loop'[l].pc = pc /\ loop'[l].job = loop[l].job
         /\ loop'[l].built = loop[l].built /\ loop'[l].bound = loop[l].bound
         /\ \A k \in Loop \ {l} : loop'[k] = loop[k]
BY DEF CompilerTypeOK, Attempt, Goto

\* A loop that ends its attempt drops the job; the others are untouched.
LEMMA Idles ==
  ASSUME CompilerTypeOK, NEW l \in Loop, GoIdle(l)
  PROVE  /\ loop' \in [Loop -> Attempt]
         /\ loop'[l].pc = "idle" /\ loop'[l].job = 0
         /\ \A k \in Loop \ {l} : loop'[k] = loop[k]
BY IdleType DEF CompilerTypeOK, GoIdle

\* A dead process leaves every loop idle.
LEMMA AllIdle ==
  ASSUME loop' = [l \in Loop |-> Idle]
  PROVE  /\ loop' \in [Loop -> Attempt]
         /\ \A l \in Loop : loop'[l].pc = "idle" /\ loop'[l].job = 0
BY IdleType

\* What the receiver of a request changes: bindings and objects are made once,
\* verdicts accumulate.
LEMMA Receives ==
  ASSUME CompilerTypeOK, NEW m \in Message, Receive(m)
  PROVE  /\ bound' \in [Job -> Archive \cup {NoArchive}]
         /\ store' \in [Job -> Archive \cup {NoArchive}]
         /\ told' \in [Job -> SUBSET Verdict]
         /\ \A j \in Job :
               /\ bound'[j] = IF m.kind = "upload-prepared" /\ j = m.job /\ bound[j] = NoArchive
                              THEN m.archive ELSE bound[j]
               /\ store'[j] = IF m.kind = "put" /\ j = m.job /\ store[j] = NoArchive
                              THEN m.archive ELSE store[j]
               /\ told'[j] = IF m.kind \in Verdict /\ j = m.job
                             THEN told[j] \cup {m.kind} ELSE told[j]
<1>1. m.kind \in Verdict \cup {"upload-prepared", "put"} /\ m.job \in Job
      /\ m.archive \in Archive \cup {NoArchive}
  BY DEF Message
<1>2. /\ bound' \in [Job -> Archive \cup {NoArchive}]
      /\ \A j \in Job :
            bound'[j] = IF m.kind = "upload-prepared" /\ j = m.job /\ bound[j] = NoArchive
                        THEN m.archive ELSE bound[j]
  BY <1>1 DEF CompilerTypeOK, Receive
<1>3. /\ store' \in [Job -> Archive \cup {NoArchive}]
      /\ \A j \in Job :
            store'[j] = IF m.kind = "put" /\ j = m.job /\ store[j] = NoArchive
                        THEN m.archive ELSE store[j]
  BY <1>1 DEF CompilerTypeOK, Receive
<1>4. /\ told' \in [Job -> SUBSET Verdict]
      /\ \A j \in Job : told'[j] = IF m.kind \in Verdict /\ j = m.job
                                   THEN told[j] \cup {m.kind} ELSE told[j]
  BY Zenon, <1>1 DEF CompilerTypeOK, Receive
<1> QED BY <1>2, <1>3, <1>4
\* A request is received, or given up and perhaps still on the wire.
Sent(m) ==
    \/ Receive(m) /\ UNCHANGED late
    \/ late' \in {late, late \cup {m}} /\ UNCHANGED <<bound, store, told>>

\* A request, delivered or not, leaves the outside world well formed.
LEMMA SentTypes ==
  ASSUME CompilerTypeOK, NEW m \in Message, Sent(m)
  PROVE  /\ bound' \in [Job -> Archive \cup {NoArchive}]
         /\ store' \in [Job -> Archive \cup {NoArchive}]
         /\ told' \in [Job -> SUBSET Verdict]
         /\ late' \subseteq Message
<1>1. CASE Receive(m) /\ UNCHANGED late BY <1>1, Receives DEF CompilerTypeOK
<1>2. CASE late' \in {late, late \cup {m}} /\ UNCHANGED <<bound, store, told>>
  BY <1>2 DEF CompilerTypeOK
<1> QED BY <1>1, <1>2 DEF Sent

\* A loop in an attempt has a job.
LEMMA BusyHasJob ==
  ASSUME Typed, NEW l \in Loop, loop[l].pc # "idle"
  PROVE  loop[l].job \in Job
BY DEF Typed, CompilerTypeOK, LoopsHoldJobs, Attempt

\* The four actions that send a request, in one form: which request, what the
\* loop does next, and that nothing else changes.
Sends(l, kind, a, froms, onAnswer, onTimeout) ==
    /\ loop[l].pc \in froms
    /\ LET m == [kind |-> kind, job |-> loop[l].job, archive |-> a]
       IN  /\ m \in Message /\ Sent(m)
           /\ \/ Receive(m) /\ UNCHANGED late /\ loop'[l].pc \in onAnswer
              \/ loop'[l].pc \in onTimeout
    /\ loop' \in [Loop -> Attempt]
    /\ loop'[l].job = loop[l].job /\ loop'[l].built = loop[l].built
    /\ \A k \in Loop \ {l} : loop'[k] = loop[k]
    /\ Works \/ Fault
    /\ UNCHANGED <<queueVars, svc, historyVars, deliveries>>

\* callbacks.failed sends one request.
LEMMA PostFailedSends ==
  ASSUME Typed, NEW l \in Loop, PostFailed(l)
  PROVE  /\ Sends(l, "failed", NoArchive, {"failing"}, {"archive"}, {"requeue"})
         /\ loop'[l].bound = loop[l].bound
<1> DEFINE m == [kind |-> "failed", job |-> loop[l].job, archive |-> NoArchive]
<1>1. At(l, "failing") /\ UNCHANGED <<queueVars, svc, historyVars, deliveries>>
  BY DEF PostFailed
<1>2. m \in Message BY <1>1, BusyHasJob DEF At, Message, Verdict
<1>3. \/ Works /\ Receive(m) /\ UNCHANGED late /\ Goto(l, "archive")
      \/ Sent(m) /\ (Works \/ Fault) /\ Goto(l, "requeue")
  BY DEF PostFailed, Post, GivesUp, Sent, externalVars
<1>4. Sent(m) BY <1>3 DEF Sent
<1>5. Works \/ Fault BY <1>3
<1> HIDE DEF m
<1>6. CASE Works /\ Receive(m) /\ UNCHANGED late /\ Goto(l, "archive")
  <2>1. "archive" \in Pc BY DEF Pc
  <2> QED BY <1>1, <1>2, <1>4, <1>5, <1>6, <2>1, Moves DEF Typed, Sends, At, m
<1>7. CASE Sent(m) /\ (Works \/ Fault) /\ Goto(l, "requeue")
  <2>1. "requeue" \in Pc BY DEF Pc
  <2> QED BY <1>1, <1>2, <1>4, <1>5, <1>7, <2>1, Moves DEF Typed, Sends, At, m
<1> QED BY <1>3, <1>6, <1>7

\* callbacks.published sends one request.
LEMMA PublishSends ==
  ASSUME Typed, NEW l \in Loop, Publish(l)
  PROVE  /\ Sends(l, "published", loop[l].bound, {"publish"}, {"archive"}, {"requeue"})
         /\ loop'[l].bound = loop[l].bound
<1> DEFINE m == [kind |-> "published", job |-> loop[l].job, archive |-> loop[l].bound]
<1>1. At(l, "publish") /\ UNCHANGED <<queueVars, svc, historyVars, deliveries>>
  BY DEF Publish
<1>2. m \in Message
  BY <1>1, BusyHasJob DEF Typed, CompilerTypeOK, Attempt, At, Message, Verdict
<1>3. \/ Works /\ Receive(m) /\ UNCHANGED late /\ Goto(l, "archive")
      \/ Sent(m) /\ (Works \/ Fault) /\ Goto(l, "requeue")
  BY DEF Publish, Post, GivesUp, Sent, externalVars
<1>4. Sent(m) BY <1>3 DEF Sent
<1>5. Works \/ Fault BY <1>3
<1> HIDE DEF m
<1>6. CASE Works /\ Receive(m) /\ UNCHANGED late /\ Goto(l, "archive")
  <2>1. "archive" \in Pc BY DEF Pc
  <2> QED BY <1>1, <1>2, <1>4, <1>5, <1>6, <2>1, Moves DEF Typed, Sends, At, m
<1>7. CASE Sent(m) /\ (Works \/ Fault) /\ Goto(l, "requeue")
  <2>1. "requeue" \in Pc BY DEF Pc
  <2> QED BY <1>1, <1>2, <1>4, <1>5, <1>7, <2>1, Moves DEF Typed, Sends, At, m
<1> QED BY <1>3, <1>6, <1>7

\* The answer to upload-prepared is the binding, new or old.
LEMMA PrepareUploadSends ==
  ASSUME Typed, NEW l \in Loop, PrepareUpload(l)
  PROVE  /\ Sends(l, "upload-prepared", loop[l].built, {"prepare"},
                  {"put", "check"}, {"requeue"})
         /\ loop'[l].pc \in {"put", "check"} =>
               loop'[l].bound = IF bound[loop[l].job] = NoArchive THEN loop[l].built
                                ELSE bound[loop[l].job]
<1> DEFINE j == loop[l].job
           a == loop[l].built
           b == IF bound[j] = NoArchive THEN a ELSE bound[j]
           m == [kind |-> "upload-prepared", job |-> j, archive |-> a]
           Answered == \E status \in PrepareStatus(j, a) :
              loop' = [loop EXCEPT
                 ![l].pc = IF status = "upload_prepared" THEN "put" ELSE "check",
                 ![l].bound = b]
<1>1. At(l, "prepare") /\ UNCHANGED <<queueVars, svc, historyVars, deliveries>>
  BY DEF PrepareUpload
<1>2. j \in Job BY <1>1, BusyHasJob DEF At
<1>3. a \in Archive \cup {NoArchive} /\ b \in Archive \cup {NoArchive}
  BY <1>2 DEF Typed, CompilerTypeOK, Attempt
<1>4. m \in Message BY <1>2, <1>3 DEF Message
<1>5. \/ Works /\ Receive(m) /\ UNCHANGED late /\ Answered
      \/ Sent(m) /\ (Works \/ Fault) /\ Goto(l, "requeue")
  BY DEF PrepareUpload, Post, GivesUp, Sent, externalVars
<1>6. Sent(m) BY <1>5 DEF Sent
<1>7. Works \/ Fault BY <1>5
<1>8. CASE Works /\ Receive(m) /\ UNCHANGED late /\ Answered
  <2>1. PICK pc \in {"put", "check"} : loop' = [loop EXCEPT ![l].pc = pc, ![l].bound = b]
    BY Zenon, <1>8
  <2>2. pc \in Pc BY DEF Pc
  <2> HIDE DEF b, a, j, m
  <2>3. /\ loop' \in [Loop -> Attempt]
        /\ loop'[l].pc = pc /\ loop'[l].job = loop[l].job
        /\ loop'[l].built = loop[l].built /\ loop'[l].bound = b
        /\ \A k \in Loop \ {l} : loop'[k] = loop[k]
    BY Zenon, <1>3, <2>1, <2>2 DEF Typed, CompilerTypeOK, Attempt
  <2> QED BY <1>1, <1>4, <1>6, <1>7, <1>8, <2>3 DEF Sends, At, b, a, j, m
<1>9. CASE Sent(m) /\ (Works \/ Fault) /\ Goto(l, "requeue")
  <2>1. "requeue" \in Pc BY DEF Pc
  <2> QED BY <1>1, <1>4, <1>6, <1>7, <1>9, <2>1, Moves DEF Typed, Sends, At, m
<1> QED BY <1>5, <1>8, <1>9

\* uploadExact sends one PUT.
LEMMA UploadExactSends ==
  ASSUME Typed, NEW l \in Loop, UploadExact(l)
  PROVE  /\ Sends(l, "put", loop[l].built, {"put"}, {"publish", "reconcile"}, {"reconcile"})
         /\ loop'[l].bound = loop[l].bound
<1> DEFINE m == [kind |-> "put", job |-> loop[l].job, archive |-> loop[l].built]
           next == IF store[loop[l].job] = NoArchive THEN "publish" ELSE "reconcile"
<1>1. At(l, "put") /\ UNCHANGED <<queueVars, svc, historyVars, deliveries>>
  BY DEF UploadExact
<1>2. m \in Message
  BY <1>1, BusyHasJob DEF Typed, CompilerTypeOK, Attempt, At, Message
<1>3. \/ Works /\ Receive(m) /\ UNCHANGED late /\ Goto(l, next)
      \/ GivesUp(m) /\ Goto(l, "reconcile")
  BY DEF UploadExact
<1>4. Sent(m) BY <1>3 DEF Sent, GivesUp
<1>5. Works \/ Fault BY <1>3 DEF GivesUp
<1>6. next \in {"publish", "reconcile"} /\ next \in Pc /\ "reconcile" \in Pc BY DEF Pc
<1> HIDE DEF m, next
<1>7. CASE Works /\ Receive(m) /\ UNCHANGED late /\ Goto(l, next)
  BY <1>1, <1>2, <1>4, <1>5, <1>6, <1>7, Moves DEF Typed, Sends, At, m
<1>8. CASE GivesUp(m) /\ Goto(l, "reconcile")
  BY <1>1, <1>2, <1>4, <1>5, <1>6, <1>8, Moves DEF Typed, Sends, At, m
<1> QED BY <1>3, <1>7, <1>8
\* A move of one loop within its attempt.
Walks(l, froms, tos) ==
    /\ loop[l].pc \in froms /\ loop'[l].pc \in tos
    /\ loop' \in [Loop -> Attempt]
    /\ loop'[l].job = loop[l].job
    /\ loop'[l].built = loop[l].built /\ loop'[l].bound = loop[l].bound
    /\ \A k \in Loop \ {l} : loop'[k] = loop[k]
    /\ Works \/ Fault

\* Goto is such a move.
LEMMA GotoWalks ==
  ASSUME Typed, NEW l \in Loop, NEW froms, NEW tos \in SUBSET Pc,
         loop[l].pc \in froms, \E pc \in tos : Goto(l, pc), Works \/ Fault
  PROVE  Walks(l, froms, tos)
<1>1. PICK pc \in tos : Goto(l, pc) OBVIOUS
<1>2. pc \in Pc OBVIOUS
<1> QED BY <1>1, <1>2, Moves DEF Typed, Walks

\* getGrants only moves its loop.
LEMMA GetGrantsWalks ==
  ASSUME Typed, NEW l \in Loop, GetGrants(l)
  PROVE  /\ Walks(l, {"grants"}, {"build", "requeue"})
         /\ UNCHANGED <<queueVars, svc, externalVars, historyVars, deliveries>>
<1>1. {"build", "requeue"} \in SUBSET Pc BY DEF Pc
<1>2. \E pc \in {"build", "requeue"} : Goto(l, pc) BY Zenon DEF GetGrants
<1>3. Works \/ Fault BY Zenon DEF GetGrants
<1> QED BY <1>1, <1>2, <1>3, GotoWalks DEF GetGrants, At

\* reconcileExactUpload publishes only what the store holds.
LEMMA ReconcileWalks ==
  ASSUME Typed, NEW l \in Loop, ReconcileExactUpload(l)
  PROVE  /\ Walks(l, {"check", "reconcile"}, {"publish", "put", "requeue"})
         /\ loop'[l].pc = "publish" => store[loop[l].job] = loop[l].bound
         /\ UNCHANGED <<queueVars, svc, externalVars, historyVars, deliveries>>
<1> DEFINE unproven == IF At(l, "check") THEN "put" ELSE "requeue"
<1>1. {"publish", "put", "requeue"} \in SUBSET Pc BY DEF Pc
<1>2. unproven \in {"put", "requeue"} OBVIOUS
<1>3. \/ Goto(l, "publish") /\ store[loop[l].job] = loop[l].bound
      \/ Goto(l, unproven)
  BY DEF ReconcileExactUpload
<1>4. Works \/ Fault BY DEF ReconcileExactUpload
<1> HIDE DEF unproven
<1>5. Walks(l, {"check", "reconcile"}, {"publish", "put", "requeue"})
  BY <1>1, <1>2, <1>3, <1>4, GotoWalks DEF ReconcileExactUpload, At
<1>6. Goto(l, unproven) => loop'[l].pc # "publish"
  BY <1>1, <1>2, Moves DEF Typed
<1> QED BY <1>3, <1>5, <1>6 DEF ReconcileExactUpload

\* A build moves its loop and records the archive it produced.
LEMMA BuildWalks ==
  ASSUME Typed, NEW l \in Loop, Build(l)
  PROVE  /\ loop[l].pc = "build" /\ loop'[l].pc \in {"prepare", "failing"}
         /\ loop' \in [Loop -> Attempt]
         /\ loop'[l].job = loop[l].job
         /\ loop'[l].pc = "prepare" => loop'[l].built \in built'[loop[l].job] \cup Bulky
         /\ \A k \in Loop \ {l} : loop'[k] = loop[k]
         /\ built' \in [Job -> SUBSET Archive]
         /\ \A j \in Job : built[j] \subseteq built'[j]
         /\ Works
         /\ UNCHANGED <<queueVars, svc, externalVars, acked, torn, deliveries>>
<1>1. loop[l].job \in Job BY BusyHasJob DEF Build, At
<1>2. CASE \E a \in Archive :
             /\ loop' = [loop EXCEPT ![l].pc = "prepare", ![l].built = a]
             /\ built' = [built EXCEPT ![loop[l].job] = @ \cup ({a} \ Bulky)]
  <2>1. PICK a \in Archive :
             /\ loop' = [loop EXCEPT ![l].pc = "prepare", ![l].built = a]
             /\ built' = [built EXCEPT ![loop[l].job] = @ \cup ({a} \ Bulky)]
    BY Zenon, <1>2
  <2>2. /\ loop' \in [Loop -> Attempt]
        /\ loop'[l].pc = "prepare" /\ loop'[l].built = a /\ loop'[l].job = loop[l].job
        /\ \A k \in Loop \ {l} : loop'[k] = loop[k]
    BY ZenonT(60), <2>1 DEF Typed, CompilerTypeOK, Attempt, Pc
  <2>3. /\ built' \in [Job -> SUBSET Archive] /\ a \in built'[loop[l].job] \cup Bulky
        /\ \A j \in Job : built[j] \subseteq built'[j]
    BY <1>1, <2>1 DEF Typed, CompilerTypeOK
  <2> QED BY <2>2, <2>3 DEF Build, At
<1>3. CASE Goto(l, "failing") /\ UNCHANGED built
  <2>1. "failing" \in Pc BY DEF Pc
  <2> QED BY <1>3, <2>1, Moves DEF Build, At, Typed, CompilerTypeOK
<1> QED BY <1>2, <1>3 DEF Build

\* One record of pending/ is written.
LEMMA Writes ==
  ASSUME CompilerTypeOK, NEW j \in Job, NEW r \in Record, pending' = [pending EXCEPT ![j] = r]
  PROVE  /\ pending' \in [Job -> Record] /\ pending'[j] = r
         /\ \A i \in Job \ {j} : pending'[i] = pending[i]
BY DEF CompilerTypeOK
-----------------------------------------------------------------------------
(* What the steps do to the queue *)

\* initialize forgets no job that is not archived.
LEMMA RecoveredState ==
  ASSUME NEW j, j \notin archive, NEW r \in Record
  PROVE  Recovered(j, r).state = "none" <=> r.state = "none"
BY DEF Recovered, Record

\* start() keeps every job, wherever initialize throws.
LEMMA StartFacts ==
  ASSUME Typed, Start \/ StartFails
  PROVE  /\ svc = "off" /\ svc' \in {"up", "wedged"}
         /\ pending' \in [Job -> Record]
         /\ \A j \in Job \ archive : pending'[j].state = "none" <=> pending[j].state = "none"
         /\ Works \/ Fault
         /\ UNCHANGED <<archive, loop, externalVars, historyVars, deliveries>>
<1>1. \A j \in Job : /\ pending[j] \in Record /\ Recovered(j, pending[j]) \in Record
                     /\ j \notin archive =>
                          (Recovered(j, pending[j]).state = "none" <=> pending[j].state = "none")
  <2> TAKE j \in Job
  <2>1. pending[j] \in Record BY DEF Typed, CompilerTypeOK
  <2>2. Recovered(j, pending[j]) \in Record
    BY <2>1, RecordTypes
  <2> QED BY <2>1, <2>2, RecoveredState
<1>2. CASE Start BY <1>1, <1>2 DEF Start
<1>3. CASE StartFails
  <2>1. PICK n \in Job \cup {0} :
           pending' = [j \in Job |-> IF j <= n THEN Recovered(j, pending[j]) ELSE pending[j]]
    BY <1>3 DEF StartFails
  <2> QED BY <1>1, <1>3, <2>1 DEF StartFails
<1> QED BY <1>2, <1>3

\* An intake changes one record, and answers 202 only for a kept job.
LEMMA HttpFacts ==
  ASSUME Typed, NEW j \in Job, NEW e \in Envelope, HandleHttp(j, e)
  PROVE  /\ svc = "up" /\ pending' \in [Job -> Record]
         /\ \A i \in Job \ {j} : pending'[i] = pending[i]
         /\ j \in archive => pending' = pending
         /\ pending[j].state = "running" => pending'[j].state = "running"
         /\ pending[j].state # "none" => pending'[j].state # "none"
         /\ \/ acked' = acked
            \/ acked' = acked \cup {j} /\ (pending'[j].state # "none" \/ j \in archive)
         /\ Works \/ Fault
         /\ deliveries < MaxDeliveries /\ deliveries' = deliveries + 1
         /\ UNCHANGED <<archive, serviceVars, externalVars, built, torn>>
<1> DEFINE r == Enqueued(pending[j], e)
           wrote == IF j \in archive THEN pending ELSE [pending EXCEPT ![j] = r]
<1>1. pending[j] \in Record BY DEF Typed, CompilerTypeOK
<1>2. /\ r \in Record /\ r.state # "none"
      /\ pending[j].state = "running" => r.state = "running"
  BY <1>1, EnqueuedRecord
<1> HIDE DEF r
<1>3. /\ wrote \in [Job -> Record]
      /\ \A i \in Job \ {j} : wrote[i] = pending[i]
      /\ j \in archive => wrote = pending
      /\ j \notin archive => wrote[j] = r
  BY <1>2 DEF Typed, CompilerTypeOK
<1>4. \/ Works /\ pending' = wrote /\ acked' = acked \cup {j}
      \/ (Works \/ Fault) /\ pending' \in {pending, wrote} /\ UNCHANGED acked
  BY DEF HandleHttp, Consume, r
<1> HIDE DEF wrote
<1>5. svc = "up" /\ deliveries < MaxDeliveries /\ deliveries' = deliveries + 1
      /\ UNCHANGED <<archive, serviceVars, externalVars, built, torn>>
  BY DEF HandleHttp
<1>6. pending \in [Job -> Record] BY DEF Typed, CompilerTypeOK
<1> QED BY <1>2, <1>3, <1>4, <1>5, <1>6

\* A claimed record is running.
LEMMA ClaimedState ==
  ASSUME NEW r \in Record PROVE Claimed(r).state = "running"
BY DEF Claimed, Record

\* claim hands a waiting job to an idle loop.
LEMMA ClaimFacts ==
  ASSUME Typed, NEW l \in Loop, Claim(l)
  PROVE  /\ svc = "up" /\ loop[l].pc = "idle"
         /\ loop' \in [Loop -> Attempt] /\ loop'[l].pc \in {"grants", "requeue_again"}
         /\ \A k \in Loop \ {l} : loop'[k] = loop[k]
         /\ \E j \in Job :
               /\ loop'[l].job = j
               /\ pending[j].state \in {"pending", "retry"}
               /\ pending' \in [Job -> Record] /\ pending'[j].state = "running"
               /\ \A i \in Job \ {j} : pending'[i] = pending[i]
         /\ Works
         /\ UNCHANGED <<archive, svc, externalVars, historyVars, deliveries>>
<1>1. PICK j \in Job :
         /\ IsNext(j)
         /\ pending' = [pending EXCEPT ![j] = Claimed(@)]
         /\ loop' = [loop EXCEPT ![l] =
                [Idle EXCEPT !.job = j,
                     !.pc = IF QueuedEnvelopeValid(pending[j].body) THEN "grants"
                            ELSE "requeue_again"]]
  BY Zenon DEF Claim
<1> DEFINE pc == IF QueuedEnvelopeValid(pending[j].body) THEN "grants" ELSE "requeue_again"
           attempt == [Idle EXCEPT !.job = j, !.pc = pc]
<1>2. pc \in {"grants", "requeue_again"} OBVIOUS
<1> HIDE DEF pc
<1>3. attempt \in Attempt /\ attempt.pc = pc /\ attempt.job = j
  BY Zenon, <1>2 DEF Attempt, Idle, Pc
<1>4. loop' = [loop EXCEPT ![l] = attempt] BY <1>1 DEF pc
<1> HIDE DEF attempt
<1>5. /\ loop' \in [Loop -> Attempt] /\ loop'[l] = attempt
      /\ \A k \in Loop \ {l} : loop'[k] = loop[k]
  BY <1>3, <1>4 DEF Typed, CompilerTypeOK
<1>6. pending[j] \in Record BY DEF Typed, CompilerTypeOK
<1>7. Claimed(pending[j]) \in Record /\ Claimed(pending[j]).state = "running"
  BY <1>6, RecordTypes, ClaimedState
<1>8. pending' = [pending EXCEPT ![j] = Claimed(pending[j])]
  BY <1>1 DEF Typed, CompilerTypeOK
<1>9. /\ pending' \in [Job -> Record] /\ pending'[j].state = "running"
      /\ \A i \in Job \ {j} : pending'[i] = pending[i]
  BY Zenon, <1>7, <1>8, Writes DEF Typed
<1>10. pending[j].state \in {"pending", "retry"} BY <1>1 DEF IsNext, Due
<1> QED BY <1>2, <1>3, <1>5, <1>9, <1>10 DEF Claim, At

\* A claim that throws ends the process and keeps every job.
LEMMA ClaimFailsFacts ==
  ASSUME Typed, NEW l \in Loop, ClaimFails(l)
  PROVE  /\ svc' = "off" /\ loop' = [k \in Loop |-> Idle]
         /\ pending' \in [Job -> Record]
         /\ \A j \in Job : pending'[j].state = "none" <=> pending[j].state = "none"
         /\ Fault
         /\ UNCHANGED <<archive, externalVars, historyVars, deliveries>>
<1>1. PICK j \in Job : IsNext(j)
                       /\ pending' \in {pending, [pending EXCEPT ![j] = Claimed(@)]}
  BY DEF ClaimFails
<1>2. pending \in [Job -> Record] /\ pending[j] \in Record BY DEF Typed, CompilerTypeOK
<1>3. Claimed(pending[j]) \in Record /\ Claimed(pending[j]).state = "running"
  BY <1>2, RecordTypes, ClaimedState
<1>4. pending[j].state # "none" BY <1>1 DEF IsNext, Due
<1>5. pending' = pending \/ pending' = [pending EXCEPT ![j] = Claimed(pending[j])]
  BY <1>1, <1>2
<1>6. /\ pending' \in [Job -> Record]
      /\ \A i \in Job : pending'[i].state = "none" <=> pending[i].state = "none"
  BY <1>2, <1>3, <1>4, <1>5, Writes DEF Typed
<1> QED BY <1>6 DEF ClaimFails

\* finish's first write: on success the job is archived.
LEMMA ArchiveFacts ==
  ASSUME Typed, NEW l \in Loop, ArchiveJob(l)
  PROVE  /\ Walks(l, {"archive"}, {"remove", "requeue_again"})
         /\ archive' \in {archive, archive \cup {loop[l].job}}
         /\ loop'[l].pc = "remove" => archive' = archive \cup {loop[l].job}
         /\ UNCHANGED <<pending, svc, externalVars, historyVars, deliveries>>
<1>1. {"remove", "requeue_again"} \in SUBSET Pc BY DEF Pc
<1>2. \/ Works /\ archive' = archive \cup {loop[l].job} /\ Goto(l, "remove")
      \/ /\ Works \/ Fault
         /\ archive' \in {archive, archive \cup {loop[l].job}}
         /\ Goto(l, "requeue_again")
  BY DEF ArchiveJob
<1>3. Walks(l, {"archive"}, {"remove", "requeue_again"})
  BY <1>1, <1>2, GotoWalks DEF ArchiveJob, At
<1>4. Goto(l, "requeue_again") => loop'[l].pc # "remove"
  BY <1>1, Moves DEF Typed
<1> QED BY <1>2, <1>3, <1>4 DEF ArchiveJob

\* finish's second write touches only its own job.
LEMMA RemoveFacts ==
  ASSUME Typed, NEW l \in Loop, RemovePending(l)
  PROVE  /\ loop[l].pc = "remove" /\ loop' \in [Loop -> Attempt]
         /\ \A k \in Loop \ {l} : loop'[k] = loop[k]
         /\ \/ loop'[l].pc = "idle" /\ loop'[l].job = 0
            \/ loop'[l].pc = "requeue_again" /\ loop'[l].job = loop[l].job
         /\ pending' \in [Job -> Record]
         /\ \A j \in Job \ {loop[l].job} : pending'[j] = pending[j]
         /\ pending'[loop[l].job].state = "none" \/ pending' = pending
         /\ Works \/ Fault
         /\ UNCHANGED <<archive, svc, externalVars, historyVars, deliveries>>
<1> DEFINE gone == [pending EXCEPT ![loop[l].job] = NoRecord]
<1>1. loop[l].pc = "remove" BY DEF RemovePending, At
<1>2. loop[l].job \in Job BY <1>1, BusyHasJob
<1>3. pending \in [Job -> Record] /\ NoRecord \in Record /\ NoRecord.state = "none"
  BY Zenon, <1>2, RecordTypes DEF Typed, CompilerTypeOK, NoRecord
<1>4. /\ gone \in [Job -> Record] /\ gone[loop[l].job].state = "none"
      /\ \A j \in Job \ {loop[l].job} : gone[j] = pending[j]
  BY <1>2, <1>3
<1>5. \/ Works /\ pending' = gone /\ GoIdle(l)
      \/ Fault /\ pending' \in {pending, gone} /\ Goto(l, "requeue_again")
  BY DEF RemovePending
<1> HIDE DEF gone
<1>6. /\ pending' \in [Job -> Record]
      /\ \A j \in Job \ {loop[l].job} : pending'[j] = pending[j]
      /\ pending'[loop[l].job].state = "none" \/ pending' = pending
  BY <1>3, <1>4, <1>5
<1>7. "requeue_again" \in Pc BY DEF Pc
<1>8. /\ loop' \in [Loop -> Attempt]
      /\ \A k \in Loop \ {l} : loop'[k] = loop[k]
      /\ \/ loop'[l].pc = "idle" /\ loop'[l].job = 0
         \/ loop'[l].pc = "requeue_again" /\ loop'[l].job = loop[l].job
  BY <1>5, <1>7, Moves, Idles DEF Typed
<1> QED BY <1>1, <1>5, <1>6, <1>8 DEF RemovePending

\* finish(retry) puts a running job back, or gives up on it.
LEMMA RequeueFacts ==
  ASSUME Typed, NEW l \in Loop, Requeue(l)
  PROVE  /\ loop[l].pc \in {"requeue", "requeue_again"} /\ loop' \in [Loop -> Attempt]
         /\ \A k \in Loop \ {l} : loop'[k] = loop[k]
         /\ \/ loop'[l].pc = "idle" /\ loop'[l].job = 0
            \/ /\ loop[l].pc = "requeue" /\ loop'[l].pc = "requeue_again"
               /\ loop'[l].job = loop[l].job
         /\ torn' \in SUBSET Job /\ torn \subseteq torn'
         /\ \/ pending' = pending
            \/ /\ pending' \in [Job -> Record]
               /\ pending[loop[l].job].state = "running"
               /\ pending'[loop[l].job].state = "retry"
               /\ \A j \in Job \ {loop[l].job} : pending'[j] = pending[j]
               /\ loop'[l].pc = "idle" \/ loop[l].job \in torn'
         /\ Works \/ Fault
         /\ UNCHANGED <<archive, svc, externalVars, acked, built, deliveries>>
<1> DEFINE j == loop[l].job
           again == [pending EXCEPT ![j] = Retried(pending[j])]
           onError == IF At(l, "requeue") THEN Goto(l, "requeue_again") ELSE GoIdle(l)
<1>1. loop[l].pc \in {"requeue", "requeue_again"} BY DEF Requeue, At
<1>2. j \in Job BY <1>1, BusyHasJob
<1>3. pending \in [Job -> Record] /\ pending[j] \in Record
  BY <1>2 DEF Typed, CompilerTypeOK
<1>4. Retried(pending[j]) \in Record /\ Retried(pending[j]).state = "retry"
  BY Zenon, <1>3, RecordTypes DEF Retried, Record
<1>5. /\ again \in [Job -> Record] /\ again[j].state = "retry"
      /\ \A i \in Job \ {j} : again[i] = pending[i]
  BY <1>2, <1>3, <1>4
<1>6. [pending EXCEPT ![j] = Retried(@)] = again BY <1>3
<1>7. IF pending[j].state = "running"
      THEN \/ Works /\ pending' = again /\ GoIdle(l) /\ UNCHANGED torn
           \/ Fault /\ UNCHANGED <<pending, torn>> /\ onError
           \/ Fault /\ pending' = again /\ torn' = torn \cup {j} /\ onError
      ELSE Works /\ UNCHANGED <<pending, torn>> /\ onError
  BY <1>6 DEF Requeue
<1>8. "requeue_again" \in Pc BY DEF Pc
<1>9. GoIdle(l) => /\ loop' \in [Loop -> Attempt]
                   /\ loop'[l].pc = "idle" /\ loop'[l].job = 0
                   /\ \A k \in Loop \ {l} : loop'[k] = loop[k]
  BY Idles DEF Typed
<1>10. onError => /\ loop' \in [Loop -> Attempt]
                  /\ \A k \in Loop \ {l} : loop'[k] = loop[k]
                  /\ \/ loop'[l].pc = "idle" /\ loop'[l].job = 0
                     \/ /\ loop[l].pc = "requeue" /\ loop'[l].pc = "requeue_again"
                        /\ loop'[l].job = loop[l].job
  BY <1>8, <1>9, Moves DEF Typed, At
<1>11. torn \in SUBSET Job BY DEF Typed, CompilerTypeOK
<1>12. UNCHANGED <<archive, svc, externalVars, acked, built, deliveries>> BY DEF Requeue
<1> HIDE DEF again, onError
<1>13. CASE pending[j].state = "running"
  BY <1>1, <1>2, <1>3, <1>5, <1>7, <1>9, <1>10, <1>11, <1>12, <1>13
<1>14. CASE pending[j].state # "running"
  BY <1>1, <1>3, <1>7, <1>10, <1>11, <1>12, <1>14
<1> QED BY <1>13, <1>14

\* Time changes no state of a record.
LEMMA BackoffFacts ==
  ASSUME Typed, Backoff
  PROVE  /\ pending' \in [Job -> Record]
         /\ \A j \in Job : pending'[j].state = pending[j].state
         /\ UNCHANGED <<archive, serviceVars, externalVars, historyVars, countVars>>
<1>1. pending' = [j \in Job |-> IF pending[j].delay = 0 THEN pending[j]
                                ELSE [pending[j] EXCEPT !.delay = @ - 1]]
  BY DEF Backoff, BackoffTick
<1>2. ASSUME NEW j \in Job
      PROVE  pending'[j] \in Record /\ pending'[j].state = pending[j].state
  <2>1. pending[j] \in Record BY DEF Typed, CompilerTypeOK
  <2>2. CASE pending[j].delay = 0 BY <1>1, <2>1, <2>2
  <2>3. CASE pending[j].delay # 0
    <3>1. pending[j].delay - 1 \in 0 .. MaxDelay BY <2>1, <2>3, QueueAssumption DEF Record
    <3>2. pending'[j] = [pending[j] EXCEPT !.delay = pending[j].delay - 1]
      BY <1>1, <2>1, <2>3 DEF Record
    <3> QED BY <2>1, <3>1, <3>2 DEF Record
  <2> QED BY <2>2, <2>3
<1> QED BY <1>1, <1>2 DEF Backoff, BackoffTick
-----------------------------------------------------------------------------
(* Typed is inductive *)

Busy == Pc \ {"idle"}

\* A walk within an attempt keeps loops and jobs together.
LEMMA WalkTyped ==
  ASSUME Typed, NEW l \in Loop, loop[l].pc \in Busy, loop'[l].pc \in Busy,
         loop'[l].job = loop[l].job, \A k \in Loop \ {l} : loop'[k] = loop[k], svc' = svc
  PROVE  LoopsHoldJobs'
BY DEF Typed, LoopsHoldJobs, Busy

\* Requests preserve the types.
LEMMA SendsTyped ==
  ASSUME Typed, NEW l \in Loop, NEW kind, NEW a, NEW froms \in SUBSET Busy,
         NEW onAnswer \in SUBSET Busy, NEW onTimeout \in SUBSET Busy,
         Sends(l, kind, a, froms, onAnswer, onTimeout)
  PROVE  Typed'
<1>1. LoopsHoldJobs'
  <2>1. loop[l].pc \in Busy /\ loop'[l].pc \in Busy BY DEF Sends
  <2> QED BY <2>1, WalkTyped DEF Sends
<1>2. CompilerTypeOK'
  <2>1. faults' \in 0 .. MaxFaults BY CountsType DEF Typed, Sends
  <2>2. /\ bound' \in [Job -> Archive \cup {NoArchive}]
        /\ store' \in [Job -> Archive \cup {NoArchive}]
        /\ told' \in [Job -> SUBSET Verdict] /\ late' \subseteq Message
    BY SentTypes DEF Typed, Sends
  <2> QED BY <2>1, <2>2 DEF Typed, CompilerTypeOK, Sends, queueVars, historyVars
<1> QED BY <1>1, <1>2 DEF Typed

\* Moves preserve the types.
LEMMA WalksTyped ==
  ASSUME Typed, NEW l \in Loop, NEW froms \in SUBSET Busy, NEW tos \in SUBSET Busy,
         Walks(l, froms, tos), archive' \subseteq Job,
         UNCHANGED <<pending, svc, externalVars, historyVars, deliveries>>
  PROVE  Typed'
<1>1. LoopsHoldJobs'
  <2>1. loop[l].pc \in Busy /\ loop'[l].pc \in Busy BY DEF Walks
  <2> QED BY <2>1, WalkTyped DEF Walks
<1>2. faults' \in 0 .. MaxFaults BY CountsType DEF Typed, Walks
<1>3. CompilerTypeOK'
  BY <1>2 DEF Typed, CompilerTypeOK, Walks, externalVars, historyVars
<1> QED BY <1>1, <1>3 DEF Typed

\* Starting, stopping and dying preserve the types.
LEMMA ProcessTyped ==
  ASSUME Typed, Start \/ StartFails \/ Crash \/ Stop \/ Stopped
  PROVE  Typed'
<1>0. Works \/ Fault => faults' \in 0 .. MaxFaults BY CountsType DEF Typed
<1>1. CASE Start \/ StartFails
  BY <1>0, <1>1, StartFacts DEF Typed, CompilerTypeOK, LoopsHoldJobs, externalVars, historyVars
<1>2. CASE Crash
  BY <1>0, <1>2, AllIdle
  DEF Crash, Typed, CompilerTypeOK, LoopsHoldJobs, externalVars, historyVars, queueVars
<1>3. CASE Stop \/ Stopped
  BY <1>0, <1>3
  DEF Stop, Stopped, At, Typed, CompilerTypeOK, LoopsHoldJobs, externalVars, historyVars, queueVars
<1> QED BY <1>1, <1>2, <1>3

\* The intake preserves the types.
LEMMA HttpTyped ==
  ASSUME Typed, NEW j \in Job, NEW e \in Envelope, HandleHttp(j, e)
  PROVE  Typed'
<1>1. faults' \in 0 .. MaxFaults BY HttpFacts, CountsType DEF Typed
<1>2. deliveries' \in 0 .. MaxDeliveries
  BY HttpFacts, WorkerAssumption DEF Typed, CompilerTypeOK
<1> QED
  BY <1>1, <1>2, HttpFacts
  DEF Typed, CompilerTypeOK, LoopsHoldJobs, serviceVars, externalVars

\* Claims preserve the types.
LEMMA ClaimTyped ==
  ASSUME Typed, NEW l \in Loop, Claim(l) \/ ClaimFails(l)
  PROVE  Typed'
<1>0. Works \/ Fault => faults' \in 0 .. MaxFaults BY CountsType DEF Typed
<1>1. CASE Claim(l)
  <2>1. LoopsHoldJobs' BY <1>1, ClaimFacts, QueueAssumption DEF Typed, LoopsHoldJobs
  <2>2. CompilerTypeOK'
    BY <1>0, <1>1, ClaimFacts DEF Typed, CompilerTypeOK, externalVars, historyVars
  <2> QED BY <2>1, <2>2 DEF Typed
<1>2. CASE ClaimFails(l)
  BY <1>0, <1>2, ClaimFailsFacts, AllIdle
  DEF Typed, CompilerTypeOK, LoopsHoldJobs, externalVars, historyVars
<1> QED BY <1>1, <1>2

\* The writes of finish preserve the types.
LEMMA FinishTyped ==
  ASSUME Typed, NEW l \in Loop, RemovePending(l) \/ Requeue(l)
  PROVE  Typed'
<1>0. Works \/ Fault => faults' \in 0 .. MaxFaults BY CountsType DEF Typed
<1>1. CASE RemovePending(l)
  <2>1. loop[l].job # 0 BY <1>1, RemoveFacts DEF Typed, LoopsHoldJobs
  <2>2. LoopsHoldJobs' BY <1>1, <2>1, RemoveFacts DEF Typed, LoopsHoldJobs
  <2>3. CompilerTypeOK'
    BY <1>0, <1>1, RemoveFacts DEF Typed, CompilerTypeOK, externalVars, historyVars
  <2> QED BY <2>2, <2>3 DEF Typed
<1>2. CASE Requeue(l)
  <2>1. loop[l].job # 0 BY <1>2, RequeueFacts DEF Typed, LoopsHoldJobs
  <2>2. LoopsHoldJobs' BY <1>2, <2>1, RequeueFacts DEF Typed, LoopsHoldJobs
  <2>3. CompilerTypeOK'
    BY Zenon, <1>0, <1>2, RequeueFacts DEF Typed, CompilerTypeOK, externalVars
  <2> QED BY <2>2, <2>3 DEF Typed
<1> QED BY <1>1, <1>2

\* Typed is preserved by every step.
LEMMA TypedStep == ASSUME Typed, Next PROVE Typed'
<1>1. CASE Start \/ StartFails \/ Crash \/ Stop \/ Stopped BY <1>1, ProcessTyped
<1>2. CASE \E j \in Job, e \in Envelope : HandleHttp(j, e) BY <1>2, HttpTyped
<1>3. ASSUME NEW l \in Loop, Step(l) \/ ClaimFails(l) PROVE Typed'
  <2>1. CASE Claim(l) \/ ClaimFails(l) BY <2>1, ClaimTyped
  <2>2. CASE GetGrants(l)
    <3>1. {"grants"} \in SUBSET Busy /\ {"build", "requeue"} \in SUBSET Busy BY DEF Busy, Pc
    <3>2. archive' \subseteq Job BY <2>2, GetGrantsWalks DEF queueVars, Typed, CompilerTypeOK
    <3> QED BY <2>2, <3>1, <3>2, GetGrantsWalks, WalksTyped DEF queueVars
  <2>3. CASE Build(l)
    <3>1. loop[l].pc \in Busy /\ loop'[l].pc \in Busy BY <2>3, BuildWalks DEF Busy, Pc
    <3>2. LoopsHoldJobs' BY Zenon, <2>3, <3>1, BuildWalks, WalkTyped
    <3>3. faults' \in 0 .. MaxFaults BY Zenon, <2>3, BuildWalks, CountsType DEF Typed
    <3> QED BY <2>3, <3>2, <3>3, BuildWalks DEF Typed, CompilerTypeOK, queueVars, externalVars
  <2>4. CASE PostFailed(l)
    <3>1. {"failing"} \in SUBSET Busy /\ {"archive"} \in SUBSET Busy
          /\ {"requeue"} \in SUBSET Busy BY DEF Busy, Pc
    <3> QED BY <2>4, <3>1, PostFailedSends, SendsTyped
  <2>5. CASE PrepareUpload(l)
    <3>1. {"prepare"} \in SUBSET Busy /\ {"put", "check"} \in SUBSET Busy
          /\ {"requeue"} \in SUBSET Busy BY DEF Busy, Pc
    <3> QED BY <2>5, <3>1, PrepareUploadSends, SendsTyped
  <2>6. CASE UploadExact(l)
    <3>1. {"put"} \in SUBSET Busy /\ {"publish", "reconcile"} \in SUBSET Busy
          /\ {"reconcile"} \in SUBSET Busy BY DEF Busy, Pc
    <3> QED BY <2>6, <3>1, UploadExactSends, SendsTyped
  <2>7. CASE ReconcileExactUpload(l)
    <3>1. {"check", "reconcile"} \in SUBSET Busy
          /\ {"publish", "put", "requeue"} \in SUBSET Busy BY DEF Busy, Pc
    <3>2. archive' \subseteq Job BY <2>7, ReconcileWalks DEF queueVars, Typed, CompilerTypeOK
    <3> QED BY <2>7, <3>1, <3>2, ReconcileWalks, WalksTyped DEF queueVars
  <2>8. CASE Publish(l)
    <3>1. {"publish"} \in SUBSET Busy /\ {"archive"} \in SUBSET Busy
          /\ {"requeue"} \in SUBSET Busy BY DEF Busy, Pc
    <3> QED BY <2>8, <3>1, PublishSends, SendsTyped
  <2>9. CASE ArchiveJob(l)
    <3>1. {"archive"} \in SUBSET Busy /\ {"remove", "requeue_again"} \in SUBSET Busy
      BY DEF Busy, Pc
    <3>2. loop[l].job \in Job BY <2>9, ArchiveFacts, BusyHasJob DEF Walks
    <3>3. archive' \subseteq Job BY <2>9, <3>2, ArchiveFacts DEF Typed, CompilerTypeOK
    <3> QED BY <2>9, <3>1, <3>3, ArchiveFacts, WalksTyped
  <2>10. CASE RemovePending(l) \/ Requeue(l) BY <2>10, FinishTyped
  <2> QED BY <1>3, <2>1, <2>2, <2>3, <2>4, <2>5, <2>6, <2>7, <2>8, <2>9, <2>10 DEF Step
<1>4. CASE ArriveLate
  <2>1. PICK m \in late : Receive(m) /\ late' = late \ {m} BY <1>4 DEF ArriveLate
  <2>2. m \in Message BY DEF Typed, CompilerTypeOK
  <2>3. CompilerTypeOK'
    BY <1>4, <2>1, <2>2, Receives
    DEF ArriveLate, Typed, CompilerTypeOK, Works, queueVars, serviceVars, historyVars
  <2> QED BY <1>4, <2>3 DEF ArriveLate, Typed, LoopsHoldJobs, serviceVars
<1>5. CASE Backoff
  BY <1>5, BackoffFacts
  DEF Typed, CompilerTypeOK, LoopsHoldJobs, serviceVars, externalVars, historyVars, countVars
<1> QED BY <1>1, <1>2, <1>3, <1>4, <1>5 DEF Next
-----------------------------------------------------------------------------
(* The queue's part of the invariant *)

Writing == {"archive", "remove", "requeue", "requeue_again"}

\* The steps of an attempt between claim and finish.
Network(l) ==
    \/ GetGrants(l) \/ Build(l) \/ PostFailed(l) \/ PrepareUpload(l)
    \/ UploadExact(l) \/ ReconcileExactUpload(l) \/ Publish(l)

\* They leave the queue alone, keep the loop's job and send requests about it.
LEMMA NetworkFacts ==
  ASSUME Typed, NEW l \in Loop, Network(l)
  PROVE  /\ loop[l].pc \in Busy \ Writing
         /\ loop'[l].pc \in Busy \ {"remove", "requeue_again"}
         /\ loop'[l].job = loop[l].job
         /\ \A k \in Loop \ {l} : loop'[k] = loop[k]
         /\ \A m \in late' : m \in late \/ m.job = loop[l].job
         /\ \A j \in Job : told[j] \subseteq told'[j]
         /\ loop'[l].pc = "archive" => told'[loop[l].job] # {}
         /\ UNCHANGED <<queueVars, svc, acked, torn>>
<1>1. CASE GetGrants(l)
  BY Zenon, <1>1, GetGrantsWalks DEF Walks, Busy, Pc, Writing, externalVars, historyVars
<1>2. CASE Build(l)
  BY <1>2, BuildWalks DEF Busy, Pc, Writing, externalVars
<1>3. CASE ReconcileExactUpload(l)
  BY <1>3, ReconcileWalks DEF Walks, Busy, Pc, Writing, externalVars, historyVars
<1>4. ASSUME NEW kind, NEW a, NEW froms \in SUBSET (Busy \ Writing),
             NEW onAnswer \in SUBSET (Busy \ {"remove", "requeue_again"}),
             NEW onTimeout \in SUBSET (Busy \ {"remove", "requeue_again"}),
             Sends(l, kind, a, froms, onAnswer, onTimeout),
             "archive" \notin onTimeout, "archive" \in onAnswer => kind \in Verdict
      PROVE  /\ loop[l].pc \in Busy \ Writing
             /\ loop'[l].pc \in Busy \ {"remove", "requeue_again"}
             /\ loop'[l].job = loop[l].job
             /\ \A k \in Loop \ {l} : loop'[k] = loop[k]
             /\ \A m \in late' : m \in late \/ m.job = loop[l].job
             /\ \A j \in Job : told[j] \subseteq told'[j]
             /\ loop'[l].pc = "archive" => told'[loop[l].job] # {}
             /\ UNCHANGED <<queueVars, svc, acked, torn>>
  <2> DEFINE m == [kind |-> kind, job |-> loop[l].job, archive |-> a]
  <2>1. /\ m \in Message /\ Sent(m)
        /\ \/ Receive(m) /\ UNCHANGED late /\ loop'[l].pc \in onAnswer
           \/ loop'[l].pc \in onTimeout
    BY Zenon, <1>4 DEF Sends
  <2>2. m.job = loop[l].job /\ m.kind = kind /\ loop[l].job \in Job
    BY Zenon, <2>1 DEF Message
  <2> HIDE DEF m
  <2>3. \A n \in late' : n \in late \/ n.job = loop[l].job
    BY <2>1, <2>2 DEF Sent
  <2>4. \A j \in Job : told[j] \subseteq told'[j]
    BY Zenon, <2>1, Receives DEF Sent, Typed
  <2>5. loop'[l].pc = "archive" => told'[loop[l].job] # {}
    <3> SUFFICES ASSUME loop'[l].pc = "archive" PROVE told'[loop[l].job] # {}
      OBVIOUS
    <3>1. Receive(m) /\ kind \in Verdict BY <1>4, <2>1
    <3>2. told'[loop[l].job] = told[loop[l].job] \cup {m.kind}
      BY ZenonT(60), <2>1, <2>2, <3>1, Receives DEF Typed
    <3> QED BY <3>2
  <2> QED BY <1>4, <2>3, <2>4, <2>5 DEF Sends, historyVars
<1>5. CASE PostFailed(l)
  <2>1. {"failing"} \in SUBSET (Busy \ Writing)
        /\ {"archive"} \in SUBSET (Busy \ {"remove", "requeue_again"})
        /\ {"requeue"} \in SUBSET (Busy \ {"remove", "requeue_again"})
    BY DEF Busy, Pc, Writing
  <2>2. "failed" \in Verdict /\ "archive" \notin {"requeue"} BY DEF Verdict
  <2> QED BY Zenon, <1>4, <1>5, <2>1, <2>2, PostFailedSends
<1>6. CASE Publish(l)
  <2>1. {"publish"} \in SUBSET (Busy \ Writing)
        /\ {"archive"} \in SUBSET (Busy \ {"remove", "requeue_again"})
        /\ {"requeue"} \in SUBSET (Busy \ {"remove", "requeue_again"})
    BY DEF Busy, Pc, Writing
  <2>2. "published" \in Verdict /\ "archive" \notin {"requeue"} BY DEF Verdict
  <2> QED BY Zenon, <1>4, <1>6, <2>1, <2>2, PublishSends
<1>7. CASE PrepareUpload(l)
  <2>1. {"prepare"} \in SUBSET (Busy \ Writing)
        /\ {"put", "check"} \in SUBSET (Busy \ {"remove", "requeue_again"})
        /\ {"requeue"} \in SUBSET (Busy \ {"remove", "requeue_again"})
    BY DEF Busy, Pc, Writing
  <2>2. "archive" \notin {"requeue"} /\ "archive" \notin {"put", "check"} OBVIOUS
  <2> QED BY Zenon, <1>4, <1>7, <2>1, <2>2, PrepareUploadSends
<1>8. CASE UploadExact(l)
  <2>1. {"put"} \in SUBSET (Busy \ Writing)
        /\ {"publish", "reconcile"} \in SUBSET (Busy \ {"remove", "requeue_again"})
        /\ {"reconcile"} \in SUBSET (Busy \ {"remove", "requeue_again"})
    BY DEF Busy, Pc, Writing
  <2>2. "archive" \notin {"reconcile"} /\ "archive" \notin {"publish", "reconcile"} OBVIOUS
  <2> QED BY Zenon, <1>4, <1>8, <2>1, <2>2, UploadExactSends
<1> QED BY Zenon, <1>1, <1>2, <1>3, <1>5, <1>6, <1>7, <1>8 DEF Network

\* Next in the groups the lemmas below go by.
LEMMA NextGroups ==
  ASSUME Next
  PROVE  \/ Start \/ StartFails
         \/ Crash \/ Stop \/ Stopped
         \/ \E j \in Job, e \in Envelope : HandleHttp(j, e)
         \/ \E l \in Loop : Claim(l) \/ ClaimFails(l)
         \/ \E l \in Loop : Network(l)
         \/ \E l \in Loop : ArchiveJob(l)
         \/ \E l \in Loop : RemovePending(l)
         \/ \E l \in Loop : Requeue(l)
         \/ ArriveLate \/ Backoff
BY DEF Next, Step, Network

\* No step forgets a job, and the archive only grows.
LEMMA KeptStep ==
  ASSUME Typed, FinishOrder, Next
  PROVE  archive \subseteq archive' /\ \A j \in Job : Kept(j) => Kept(j)'
<1>1. CASE Start \/ StartFails BY <1>1, StartFacts DEF Kept
<1>2. CASE Crash \/ Stop \/ Stopped BY <1>2 DEF Crash, Stop, Stopped, Kept, queueVars
<1>3. CASE \E j \in Job, e \in Envelope : HandleHttp(j, e) BY <1>3, HttpFacts DEF Kept
<1>4. CASE \E l \in Loop : Claim(l) \/ ClaimFails(l)
  BY <1>4, ClaimFacts, ClaimFailsFacts DEF Kept
<1>5. CASE \E l \in Loop : Network(l) BY <1>5, NetworkFacts DEF Kept, queueVars
<1>6. CASE \E l \in Loop : ArchiveJob(l) BY <1>6, ArchiveFacts DEF Kept
<1>7. CASE \E l \in Loop : RemovePending(l)
  <2>1. PICK l \in Loop : RemovePending(l) BY <1>7
  <2>2. loop[l].job \in archive BY <2>1, RemoveFacts DEF FinishOrder, At
  <2> QED BY <2>1, <2>2, RemoveFacts DEF Kept
<1>8. CASE \E l \in Loop : Requeue(l) BY <1>8, RequeueFacts DEF Kept
<1>9. CASE ArriveLate BY <1>9 DEF ArriveLate, Kept, queueVars
<1>10. CASE Backoff BY <1>10, BackoffFacts DEF Kept
<1> QED BY <1>1, <1>2, <1>3, <1>4, <1>5, <1>6, <1>7, <1>8, <1>9, <1>10, NextGroups

\* ReferencedIsKept is preserved by every step.
LEMMA ReferencedStep ==
  ASSUME Typed, FinishOrder, ReferencedIsKept, Next
  PROVE  ReferencedIsKept'
<1>0. /\ acked \subseteq Job
      /\ \A m \in late : m.job \in Job
      /\ \A l \in Loop : loop[l].job # 0 => loop[l].job \in Job
  BY DEF Typed, CompilerTypeOK, Message, Attempt
<1>1. \A j \in Job : Kept(j) => Kept(j)' BY KeptStep
<1>2. /\ \A j \in acked : Kept(j)'
      /\ \A l \in Loop : loop[l].job # 0 =>
            pending'[loop[l].job].state # "none" \/ loop[l].job \in archive'
      /\ \A m \in late : pending'[m.job].state # "none" \/ m.job \in archive'
  BY Zenon, <1>0, <1>1 DEF ReferencedIsKept, Kept
<1>3. SUFFICES /\ acked' \subseteq acked \cup {j \in Job : Kept(j)'}
               /\ \A l \in Loop : \/ loop'[l].job \in {0, loop[l].job}
                                  \/ pending'[loop'[l].job].state # "none"
               /\ \A m \in late' : m \in late \/ \E l \in Loop : loop[l].pc # "idle"
                                                                 /\ m.job = loop[l].job
  <2>1. \A l \in Loop : loop[l].pc # "idle" => loop[l].job # 0 BY DEF Typed, LoopsHoldJobs
  <2> QED BY <1>2, <1>3, <2>1 DEF ReferencedIsKept, Kept
<1>4. CASE Start \/ StartFails BY <1>4, StartFacts DEF externalVars, historyVars
<1>5. CASE Crash
  BY <1>5, AllIdle DEF Crash, externalVars, historyVars
<1>6. CASE Stop \/ Stopped
  BY <1>6 DEF Stop, Stopped, externalVars, historyVars
<1>7. CASE \E j \in Job, e \in Envelope : HandleHttp(j, e)
  BY <1>7, HttpFacts DEF Kept, serviceVars, externalVars
<1>8. CASE \E l \in Loop : Claim(l) \/ ClaimFails(l)
  <2>1. CASE \E l \in Loop : Claim(l) BY <2>1, ClaimFacts DEF externalVars, historyVars
  <2>2. CASE \E l \in Loop : ClaimFails(l)
    BY <2>2, ClaimFailsFacts, AllIdle DEF externalVars, historyVars
  <2> QED BY <1>8, <2>1, <2>2
<1>9. CASE \E l \in Loop : Network(l) BY <1>9, NetworkFacts DEF Busy
<1>10. CASE \E l \in Loop : ArchiveJob(l)
  BY <1>10, ArchiveFacts DEF Walks, externalVars, historyVars
<1>11. CASE \E l \in Loop : RemovePending(l)
  BY <1>11, RemoveFacts DEF externalVars, historyVars
<1>12. CASE \E l \in Loop : Requeue(l) BY <1>12, RequeueFacts DEF externalVars
<1>13. CASE ArriveLate BY <1>13 DEF ArriveLate, serviceVars, historyVars
<1>14. CASE Backoff BY <1>14, BackoffFacts DEF serviceVars, externalVars, historyVars
<1> QED
  BY Zenon, <1>4, <1>5, <1>6, <1>7, <1>8, <1>9, <1>10, <1>11, <1>12, <1>13, <1>14, NextGroups

\* FinishOrder is preserved by every step.
LEMMA FinishOrderStep ==
  ASSUME Typed, FinishOrder, Next
  PROVE  FinishOrder'
<1>0. archive \subseteq archive' BY KeptStep
<1>a. \A l \in Loop : loop[l].pc # "idle" => loop[l].job \in Job BY BusyHasJob
<1>b. SUFFICES ASSUME NEW k \in Loop
               PROVE  /\ loop'[k].pc = "archive" => told'[loop'[k].job] # {}
                      /\ loop'[k].pc = "remove" => loop'[k].job \in archive'
  BY DEF FinishOrder, At
<1>c. /\ loop[k].pc = "archive" => loop[k].job \in Job /\ told[loop[k].job] # {}
      /\ loop[k].pc = "remove" => loop[k].job \in archive'
  BY <1>0, <1>a DEF FinishOrder, At
<1>1. CASE Start \/ StartFails BY <1>1, <1>c, StartFacts DEF externalVars
<1>2. CASE Crash BY <1>2, AllIdle DEF Crash
<1>3. CASE Stop \/ Stopped BY <1>3, <1>c DEF Stop, Stopped, externalVars
<1>4. CASE \E j \in Job, e \in Envelope : HandleHttp(j, e)
  BY <1>4, <1>c, HttpFacts DEF serviceVars, externalVars
<1>5. CASE \E l \in Loop : Claim(l) \/ ClaimFails(l)
  BY <1>5, <1>c, ClaimFacts, ClaimFailsFacts, AllIdle DEF externalVars
<1>6. CASE \E l \in Loop : Network(l)
  <2>1. PICK l \in Loop : Network(l) BY <1>6
  <2>2. CASE k = l BY Zenon, <2>1, <2>2, NetworkFacts
  <2>3. CASE k # l
    <3>1. loop'[k] = loop[k] BY <2>1, <2>3, NetworkFacts
    <3>2. \A j \in Job : told[j] \subseteq told'[j] BY <2>1, NetworkFacts
    <3> QED BY <1>c, <3>1, <3>2
  <2> QED BY <2>2, <2>3
<1>7. CASE \E l \in Loop : ArchiveJob(l)
  BY <1>7, <1>c, ArchiveFacts DEF Walks, externalVars
<1>8. CASE \E l \in Loop : RemovePending(l) BY <1>8, <1>c, RemoveFacts DEF externalVars
<1>9. CASE \E l \in Loop : Requeue(l) BY <1>9, <1>c, RequeueFacts DEF externalVars
<1>10. CASE ArriveLate
  <2>1. PICK m \in late : Receive(m) BY <1>10 DEF ArriveLate
  <2>2. m \in Message BY DEF Typed, CompilerTypeOK
  <2>3. \A j \in Job : told[j] \subseteq told'[j] BY Zenon, <2>1, <2>2, Receives DEF Typed
  <2> QED BY <1>10, <1>c, <2>3 DEF ArriveLate, serviceVars
<1>11. CASE Backoff BY <1>11, <1>c, BackoffFacts DEF serviceVars, externalVars
<1> QED BY Zenon, <1>1, <1>2, <1>3, <1>4, <1>5, <1>6, <1>7, <1>8, <1>9, <1>10, <1>11, NextGroups

\* Ownership is preserved by every step.
LEMMA OwnershipStep ==
  ASSUME Typed, FinishOrder, Ownership, Next
  PROVE  Ownership'
<1> DEFINE Owns(l) ==
             /\ \A k \in Loop \ {l} : loop[k].job # loop[l].job
             /\ \/ pending[loop[l].job].state = "running"
                \/ /\ loop[l].pc = "requeue_again"
                   /\ pending[loop[l].job].state = "none" /\ loop[l].job \in archive
<1>a. \A l \in Loop : loop[l].job # 0 => loop[l].job \in Job
  BY DEF Typed, CompilerTypeOK, Attempt
<1>b. \A l \in Loop : loop[l].job \notin torn \cup {0} => Owns(l) BY DEF Ownership, At
<1>c. SUFFICES ASSUME NEW h \in Loop, loop'[h].job \notin torn' \cup {0} PROVE Owns(h)'
  BY DEF Ownership, At
<1>1. CASE Start \/ StartFails \/ Crash
  <2>1. loop'[h].job = 0
    BY <1>1, StartFacts, AllIdle DEF Crash, Typed, LoopsHoldJobs
  <2> QED BY <1>c, <2>1
<1>2. CASE Stop \/ Stopped
  BY <1>2, <1>b, <1>c DEF Stop, Stopped, queueVars, historyVars
<1>3. CASE \E j \in Job, e \in Envelope : HandleHttp(j, e)
  <2>1. PICK j \in Job, e \in Envelope : HandleHttp(j, e) BY <1>3
  <2>2. loop' = loop /\ torn' = torn /\ archive' = archive BY <2>1, HttpFacts DEF serviceVars
  <2>3. Owns(h) /\ loop[h].job \in Job BY <1>a, <1>b, <1>c, <2>2
  <2>4. CASE loop[h].job = j BY <2>1, <2>2, <2>3, <2>4, HttpFacts
  <2>5. CASE loop[h].job # j
    <3>1. pending'[loop[h].job] = pending[loop[h].job] BY <2>1, <2>3, <2>5, HttpFacts
    <3> QED BY <2>2, <2>3, <3>1
  <2> QED BY <2>4, <2>5
<1>4. CASE \E l \in Loop : ClaimFails(l)
  <2>1. loop'[h].job = 0 BY <1>4, ClaimFailsFacts, AllIdle
  <2> QED BY <1>c, <2>1
<1>5. CASE \E l \in Loop : Claim(l)
  <2>1. PICK l \in Loop : Claim(l) BY <1>5
  <2>2. PICK j \in Job : /\ loop'[l].job = j
                         /\ pending[j].state \in {"pending", "retry"}
                         /\ pending'[j].state = "running"
                         /\ \A i \in Job \ {j} : pending'[i] = pending[i]
    BY <2>1, ClaimFacts
  <2>3. /\ \A k \in Loop \ {l} : loop'[k] = loop[k]
        /\ torn' = torn /\ archive' = archive /\ loop[l].job = 0
    BY <2>1, ClaimFacts DEF historyVars, Typed, LoopsHoldJobs
  <2>4. j \notin torn => \A k \in Loop \ {l} : loop[k].job # j
    <3> SUFFICES ASSUME j \notin torn, NEW k \in Loop \ {l}, loop[k].job = j PROVE FALSE
      OBVIOUS
    <3>1. j # 0 BY QueueAssumption
    <3>2. Owns(k) BY <1>b, <3>1
    <3> QED BY <2>2, <3>2
  <2>5. CASE h = l BY <1>c, <2>2, <2>3, <2>4, <2>5
  <2>6. CASE h # l
    <3>1. loop'[h] = loop[h] /\ Owns(h) /\ loop[h].job \in Job /\ loop[h].job \notin torn
      BY <1>a, <1>b, <1>c, <2>3, <2>6
    <3>2. loop[h].job # j BY <2>4, <2>6, <3>1
    <3>3. pending'[loop[h].job] = pending[loop[h].job] BY <2>2, <3>1, <3>2
    <3> QED BY <2>2, <2>3, <3>1, <3>2, <3>3
  <2> QED BY <2>5, <2>6
<1>6. CASE \E l \in Loop : Network(l)
  <2>1. PICK l \in Loop : Network(l) BY <1>6
  <2>2. /\ \A k \in Loop : loop'[k].job = loop[k].job
        /\ UNCHANGED <<pending, archive, torn>>
        /\ loop[l].pc # "requeue_again" /\ \A k \in Loop \ {l} : loop'[k] = loop[k]
    BY <2>1, NetworkFacts DEF queueVars, Writing
  <2>3. Owns(h) BY <1>b, <1>c, <2>2
  <2> QED BY <2>2, <2>3
<1>7. CASE \E l \in Loop : ArchiveJob(l)
  <2>1. PICK l \in Loop : ArchiveJob(l) BY <1>7
  <2>2. /\ \A k \in Loop : loop'[k].job = loop[k].job
        /\ UNCHANGED <<pending, torn>> /\ archive \subseteq archive'
        /\ loop[l].pc # "requeue_again" /\ \A k \in Loop \ {l} : loop'[k] = loop[k]
    BY <2>1, ArchiveFacts DEF Walks, historyVars
  <2>3. Owns(h) BY <1>b, <1>c, <2>2
  <2> QED BY <2>2, <2>3
<1>8. CASE \E l \in Loop : RemovePending(l)
  <2>1. PICK l \in Loop : RemovePending(l) BY <1>8
  <2>2. /\ \A k \in Loop \ {l} : loop'[k] = loop[k]
        /\ loop'[l].job \in {0, loop[l].job} /\ torn' = torn /\ archive' = archive
        /\ loop'[l].job # 0 => loop'[l].pc = "requeue_again"
    BY <2>1, RemoveFacts DEF historyVars
  <2>3. loop[l].pc = "remove" /\ loop[l].job \in archive
    BY <2>1, RemoveFacts DEF FinishOrder, At
  <2>4. /\ \A j \in Job \ {loop[l].job} : pending'[j] = pending[j]
        /\ pending'[loop[l].job].state = "none" \/ pending' = pending
    BY <2>1, RemoveFacts
  <2>5. Owns(h) /\ loop'[h].job = loop[h].job /\ loop[h].job \in Job
    BY <1>a, <1>b, <1>c, <2>2
  <2>6. CASE h = l BY <1>c, <2>2, <2>3, <2>4, <2>5, <2>6
  <2>7. CASE h # l
    <3>1. loop[l].job # loop[h].job BY <2>5, <2>7
    <3>2. pending'[loop[h].job] = pending[loop[h].job] BY <2>4, <2>5, <3>1
    <3> QED BY <1>c, <2>2, <2>5, <2>7, <3>2
  <2> QED BY <2>6, <2>7
<1>9. CASE \E l \in Loop : Requeue(l)
  <2>1. PICK l \in Loop : Requeue(l) BY <1>9
  <2>2. /\ \A k \in Loop \ {l} : loop'[k] = loop[k]
        /\ loop'[l].job \in {0, loop[l].job} /\ torn \subseteq torn' /\ archive' = archive
        /\ loop'[l].job # 0 => loop[l].pc = "requeue" /\ loop'[l].pc # "idle"
    BY <2>1, RequeueFacts
  <2>3. \/ pending' = pending
        \/ /\ \A j \in Job \ {loop[l].job} : pending'[j] = pending[j]
           /\ loop'[l].pc = "idle" \/ loop[l].job \in torn'
    BY <2>1, RequeueFacts
  <2>4. Owns(h) /\ loop'[h].job = loop[h].job /\ loop[h].job \in Job
    BY <1>a, <1>b, <1>c, <2>2
  <2>5. CASE h = l
    <3>1. pending' = pending /\ loop[h].pc = "requeue" BY <1>c, <2>2, <2>3, <2>4, <2>5
    <3> QED BY <1>c, <2>2, <2>4, <2>5, <3>1
  <2>6. CASE h # l
    <3>1. loop[l].job # loop[h].job BY <2>4, <2>6
    <3>2. pending'[loop[h].job] = pending[loop[h].job] BY <2>3, <2>4, <3>1
    <3> QED BY <1>c, <2>2, <2>4, <2>6, <3>2
  <2> QED BY <2>5, <2>6
<1>10. CASE ArriveLate
  BY <1>10, <1>b, <1>c DEF ArriveLate, queueVars, serviceVars, historyVars
<1>11. CASE Backoff
  <2>1. loop' = loop /\ torn' = torn /\ archive' = archive
    BY <1>11, BackoffFacts DEF serviceVars, historyVars
  <2>2. Owns(h) /\ loop[h].job \in Job BY <1>a, <1>b, <1>c, <2>1
  <2>3. pending'[loop[h].job].state = pending[loop[h].job].state
    BY <1>11, <2>2, BackoffFacts
  <2> QED BY <2>1, <2>2, <2>3
<1> QED BY Zenon, <1>1, <1>2, <1>3, <1>4, <1>5, <1>6, <1>7, <1>8, <1>9, <1>10, <1>11, NextGroups
-----------------------------------------------------------------------------
(* The control plane's and the object store's part of the invariant *)

BoundInv == AttemptIsBound /\ LateIsBound /\ OutsideIsBound

\* Bindings and objects stay.
Lasts ==
    \A j \in Job : /\ bound[j] # NoArchive => bound'[j] = bound[j]
                   /\ store[j] # NoArchive => store'[j] = store[j]

\* Receiving a request that may be sent binds and stores only built archives.
LEMMA ReceiveBound ==
  ASSUME Typed, OutsideIsBound, NEW m \in Message, RequestIsBound(m), Receive(m), built' = built
  PROVE  /\ OutsideIsBound' /\ Lasts
         /\ m.kind = "upload-prepared" =>
               bound'[m.job] = IF bound[m.job] = NoArchive THEN m.archive ELSE bound[m.job]
         /\ m.kind = "upload-prepared" => bound'[m.job] # NoArchive
         /\ m.kind = "put" => store'[m.job] # NoArchive
<1>1. m.job \in Job BY DEF Message
<1>2. \A j \in Job : built[j] \subseteq Archive BY DEF Typed, CompilerTypeOK
<1>3. \A j \in Job :
         /\ bound'[j] = IF m.kind = "upload-prepared" /\ j = m.job /\ bound[j] = NoArchive
                        THEN m.archive ELSE bound[j]
         /\ store'[j] = IF m.kind = "put" /\ j = m.job /\ store[j] = NoArchive
                        THEN m.archive ELSE store[j]
         /\ told'[j] = IF m.kind \in Verdict /\ j = m.job
                       THEN told[j] \cup {m.kind} ELSE told[j]
  BY Zenon, Receives DEF Typed
<1>4. Lasts BY Zenon, <1>3 DEF Lasts
<1>5. m.kind \in {"upload-prepared", "put"} => m.archive # NoArchive
  BY Zenon, <1>1, <1>2, WorkerAssumption DEF RequestIsBound
<1>6. ASSUME NEW j \in Job
      PROVE  /\ bound'[j] \in built[j] \cup {NoArchive}
             /\ store'[j] \in built[j] \cup {NoArchive}
             /\ store'[j] # NoArchive => bound'[j] # NoArchive
             /\ "published" \in told'[j] => store'[j] # NoArchive
  <2>1. bound'[j] \in built[j] \cup {NoArchive} BY Zenon, <1>3 DEF OutsideIsBound, RequestIsBound
  <2>2. store'[j] \in built[j] \cup {NoArchive} BY Zenon, <1>3 DEF OutsideIsBound, RequestIsBound
  <2>3. store'[j] # NoArchive => bound'[j] # NoArchive
    BY Zenon, <1>3, <1>4 DEF OutsideIsBound, RequestIsBound, Lasts
  <2>4. "published" \in told'[j] => store'[j] # NoArchive
    <3> SUFFICES ASSUME "published" \in told'[j] PROVE store[j] # NoArchive
      BY <1>4 DEF Lasts
    <3>1. "published" \in told[j] \/ (m.kind = "published" /\ j = m.job) BY Zenon, <1>3
    <3> QED BY <3>1 DEF OutsideIsBound, RequestIsBound
  <2> QED BY <2>1, <2>2, <2>3, <2>4
<1>7. OutsideIsBound' BY <1>6 DEF OutsideIsBound
<1> QED BY Zenon, <1>1, <1>3, <1>4, <1>5, <1>7

\* The same when the request may be lost or late.
LEMMA SentBound ==
  ASSUME Typed, OutsideIsBound, LateIsBound, NEW m \in Message, RequestIsBound(m), Sent(m),
         built' = built
  PROVE  OutsideIsBound' /\ LateIsBound' /\ Lasts
<1>0. \A n \in late \cup {m} : n.job \in Job BY DEF Typed, CompilerTypeOK, Message
<1>1. CASE Receive(m) /\ UNCHANGED late
  <2>1. OutsideIsBound' /\ Lasts BY <1>1, ReceiveBound
  <2> QED BY Zenon, <1>0, <1>1, <2>1 DEF LateIsBound, RequestIsBound, Lasts
<1>2. CASE late' \in {late, late \cup {m}} /\ UNCHANGED <<bound, store, told>>
  BY <1>2 DEF LateIsBound, RequestIsBound, OutsideIsBound, Lasts
<1> QED BY <1>1, <1>2 DEF Sent

\* What an attempt knows stays known while it rests.
AttemptBound(l) ==
    /\ loop[l].pc = "prepare" => loop[l].built \in built[loop[l].job] \cup Bulky
    /\ loop[l].pc \in Uploading => loop[l].built \in built[loop[l].job]
    /\ loop[l].pc \in Uploading =>
          bound[loop[l].job] # NoArchive /\ loop[l].bound = bound[loop[l].job]
    /\ loop[l].pc = "publish" => store[loop[l].job] # NoArchive

\* What a loop knows outlives the steps of others.
LEMMA RestingBound ==
  ASSUME Typed, AttemptIsBound, Lasts, \A j \in Job : built[j] \subseteq built'[j],
         NEW k \in Loop, loop'[k] = loop[k]
  PROVE  AttemptBound(k)'
<1>1. loop[k].pc \in {"prepare"} \cup Uploading => loop[k].job \in Job
  BY BusyHasJob DEF Uploading
<1> QED BY <1>1 DEF AttemptIsBound, AttemptBound, Lasts, At, Uploading

\* Steps that touch neither bindings nor archives and take no loop into an
\* upload.
LEMMA CalmBound ==
  ASSUME Typed, BoundInv, UNCHANGED externalVars, UNCHANGED built,
         \A l \in Loop : loop'[l] = loop[l] \/ loop'[l].pc \notin {"prepare"} \cup Uploading
  PROVE  BoundInv'
<1>1. LateIsBound' /\ OutsideIsBound' /\ Lasts
  BY DEF BoundInv, LateIsBound, RequestIsBound, OutsideIsBound, Lasts, externalVars
<1>2. \A l \in Loop : AttemptBound(l)'
  <2> TAKE l \in Loop
  <2>1. CASE loop'[l] = loop[l] BY <1>1, <2>1, RestingBound DEF BoundInv
  <2>2. CASE loop'[l].pc \notin {"prepare"} \cup Uploading
    BY <2>2 DEF AttemptBound, Uploading
  <2> QED BY <2>1, <2>2
<1> QED BY <1>1, <1>2 DEF BoundInv, AttemptIsBound, AttemptBound, At

\* So only the moving loop has to be looked at.
LEMMA MovedBound ==
  ASSUME Typed, AttemptIsBound, Lasts, \A j \in Job : built[j] \subseteq built'[j],
         NEW l \in Loop, \A k \in Loop \ {l} : loop'[k] = loop[k], AttemptBound(l)'
  PROVE  AttemptIsBound'
<1>1. ASSUME NEW k \in Loop PROVE AttemptBound(k)'
  <2>1. CASE k = l BY <2>1
  <2>2. CASE k # l
    <3>1. loop'[k] = loop[k] BY <2>2
    <3> QED BY <3>1, RestingBound
  <2> QED BY <2>1, <2>2
<1> QED BY <1>1 DEF AttemptIsBound, AttemptBound, At

\* A loop that sends what it may send keeps the outside part.
LEMMA SendsBound ==
  ASSUME Typed, BoundInv, NEW l \in Loop, NEW kind, NEW a, NEW froms, NEW onAnswer,
         NEW onTimeout, Sends(l, kind, a, froms, onAnswer, onTimeout),
         RequestIsBound([kind |-> kind, job |-> loop[l].job, archive |-> a])
  PROVE  /\ Lasts /\ built' = built /\ OutsideIsBound' /\ LateIsBound'
         /\ AttemptBound(l)' => BoundInv'
<1> DEFINE m == [kind |-> kind, job |-> loop[l].job, archive |-> a]
<1>1. m \in Message /\ Sent(m) /\ built' = built BY DEF Sends, historyVars
<1>2. OutsideIsBound' /\ LateIsBound' /\ Lasts
  <2> HIDE DEF m
  <2>1. RequestIsBound(m) BY DEF m
  <2> QED BY <1>1, <2>1, SentBound DEF BoundInv
<1>3. \A k \in Loop \ {l} : loop'[k] = loop[k] BY DEF Sends
<1>4. AttemptBound(l)' => AttemptIsBound'
  BY Zenon, <1>1, <1>2, <1>3, MovedBound DEF BoundInv
<1> QED BY <1>1, <1>2, <1>4 DEF BoundInv

\* A failed callback needs no binding.
LEMMA PostFailedBound ==
  ASSUME Typed, BoundInv, NEW l \in Loop, PostFailed(l)
  PROVE  BoundInv'
<1>1. Sends(l, "failed", NoArchive, {"failing"}, {"archive"}, {"requeue"})
  BY Zenon, PostFailedSends
<1>2. RequestIsBound([kind |-> "failed", job |-> loop[l].job, archive |-> NoArchive])
  BY DEF RequestIsBound
<1>3. loop'[l].pc \in {"archive", "requeue"} BY Zenon, <1>1 DEF Sends
<1>4. AttemptBound(l)' BY <1>3 DEF AttemptBound, Uploading
<1> QED BY <1>1, <1>2, <1>4, SendsBound

\* A published callback is sent only when the object is stored.
LEMMA PublishBound ==
  ASSUME Typed, BoundInv, NEW l \in Loop, Publish(l)
  PROVE  BoundInv'
<1>1. Sends(l, "published", loop[l].bound, {"publish"}, {"archive"}, {"requeue"})
  BY PublishSends
<1>2. RequestIsBound([kind |-> "published", job |-> loop[l].job, archive |-> loop[l].bound])
  BY Zenon, <1>1 DEF RequestIsBound, Sends, BoundInv, AttemptIsBound, At, Uploading
<1>3. loop'[l].pc \in {"archive", "requeue"} BY <1>1 DEF Sends
<1>4. AttemptBound(l)' BY <1>3 DEF AttemptBound, Uploading
<1> QED BY <1>1, <1>2, <1>4, SendsBound

\* The answer to upload-prepared tells the loop the binding.
LEMMA PreparedBound ==
  ASSUME Typed, BoundInv, NEW l \in Loop, PrepareUpload(l), loop[l].built \notin Bulky
  PROVE  BoundInv'
<1> DEFINE m == [kind |-> "upload-prepared", job |-> loop[l].job, archive |-> loop[l].built]
<1>1. /\ Sends(l, "upload-prepared", loop[l].built, {"prepare"}, {"put", "check"}, {"requeue"})
      /\ loop'[l].pc \in {"put", "check"} =>
            loop'[l].bound = IF bound[loop[l].job] = NoArchive THEN loop[l].built
                             ELSE bound[loop[l].job]
  BY PrepareUploadSends
<1>2. RequestIsBound(m)
  BY Zenon, <1>1 DEF RequestIsBound, Sends, BoundInv, AttemptIsBound, Uploading
<1>3. /\ loop'[l].job = loop[l].job /\ loop'[l].built = loop[l].built
      /\ loop[l].pc = "prepare" /\ m \in Message
      /\ \/ Receive(m) /\ loop'[l].pc \in {"put", "check"}
         \/ loop'[l].pc = "requeue"
  BY Zenon, <1>1 DEF Sends
<1>4. built' = built /\ (AttemptBound(l)' => BoundInv') BY Zenon, <1>1, <1>2, SendsBound
<1>5. AttemptBound(l)'
  <2>1. CASE loop'[l].pc = "requeue" BY <2>1 DEF AttemptBound, Uploading
  <2>2. CASE Receive(m) /\ loop'[l].pc \in {"put", "check"}
    <3>1. m.kind = "upload-prepared" /\ m.job = loop[l].job /\ m.archive = loop[l].built
      OBVIOUS
    <3> HIDE DEF m
    <3>2. /\ bound'[m.job] # NoArchive
          /\ bound'[m.job] = IF bound[m.job] = NoArchive THEN m.archive ELSE bound[m.job]
      BY Zenon, <1>2, <1>3, <1>4, <2>2, <3>1, ReceiveBound DEF BoundInv
    <3>3. loop[l].built \in built[loop[l].job] BY Zenon, <1>3 DEF BoundInv, AttemptIsBound
    <3> QED BY Zenon, <1>1, <1>3, <1>4, <2>2, <3>1, <3>2, <3>3 DEF AttemptBound, Uploading
  <2> QED BY <1>3, <2>1, <2>2
<1> QED BY <1>4, <1>5

\* A binding that is too large for a callback is not asked for.
LEMMA PrepareUploadBound ==
  ASSUME Typed, BoundInv, NEW l \in Loop, PrepareUpload(l)
  PROVE  BoundInv'
<1>1. CASE loop[l].built \notin Bulky BY <1>1, PreparedBound
<1>2. CASE loop[l].built \in Bulky
  <2>1. UNCHANGED externalVars /\ Goto(l, "requeue") /\ UNCHANGED built
    BY <1>2 DEF PrepareUpload, Post, historyVars
  <2>2. "requeue" \in Pc BY DEF Pc
  <2>3. loop'[l].pc = "requeue" /\ \A k \in Loop \ {l} : loop'[k] = loop[k]
    BY <2>1, <2>2, Moves DEF Typed
  <2> QED BY <2>1, <2>3, CalmBound DEF Uploading
<1> QED BY <1>1, <1>2

\* A PUT is sent only after the binding is known.
LEMMA UploadExactBound ==
  ASSUME Typed, BoundInv, NEW l \in Loop, UploadExact(l)
  PROVE  BoundInv'
<1> DEFINE m == [kind |-> "put", job |-> loop[l].job, archive |-> loop[l].built]
<1>1. /\ Sends(l, "put", loop[l].built, {"put"}, {"publish", "reconcile"}, {"reconcile"})
      /\ loop'[l].bound = loop[l].bound
  BY UploadExactSends
<1>2. RequestIsBound(m)
  BY Zenon, <1>1 DEF RequestIsBound, Sends, BoundInv, AttemptIsBound, Uploading
<1>3. /\ loop'[l].job = loop[l].job /\ loop'[l].built = loop[l].built
      /\ loop[l].pc = "put" /\ m \in Message
      /\ loop'[l].pc \in {"publish", "reconcile"}
      /\ Receive(m) \/ loop'[l].pc = "reconcile"
  BY Zenon, <1>1 DEF Sends
<1>4. Lasts /\ built' = built /\ (AttemptBound(l)' => BoundInv') BY Zenon, <1>1, <1>2, SendsBound
<1>5. loop[l].job \in Job BY <1>3, BusyHasJob
<1>6. /\ loop[l].built \in built[loop[l].job] /\ bound[loop[l].job] # NoArchive
      /\ loop[l].bound = bound[loop[l].job]
  BY Zenon, <1>3 DEF BoundInv, AttemptIsBound, Uploading
<1>7. loop'[l].pc = "publish" => store'[loop[l].job] # NoArchive
  <2> SUFFICES ASSUME loop'[l].pc = "publish" PROVE store'[loop[l].job] # NoArchive
    OBVIOUS
  <2>1. m.kind = "put" /\ m.job = loop[l].job OBVIOUS
  <2>2. Receive(m) BY <1>3
  <2> HIDE DEF m
  <2> QED BY <1>2, <1>3, <1>4, <2>1, <2>2, ReceiveBound DEF BoundInv
<1>8. bound'[loop[l].job] = bound[loop[l].job] BY Zenon, <1>4, <1>5, <1>6 DEF Lasts
<1>9. AttemptBound(l)'
  BY Zenon, <1>1, <1>3, <1>4, <1>6, <1>7, <1>8 DEF AttemptBound, Uploading
<1> QED BY <1>4, <1>9

\* A build adds an archive and changes no binding.
LEMMA BuildBound ==
  ASSUME Typed, BoundInv, NEW l \in Loop, Build(l)
  PROVE  BoundInv'
<1>1. /\ loop'[l].pc \in {"prepare", "failing"} /\ loop'[l].job = loop[l].job
      /\ loop'[l].pc = "prepare" => loop'[l].built \in built'[loop[l].job] \cup Bulky
      /\ \A k \in Loop \ {l} : loop'[k] = loop[k]
      /\ \A j \in Job : built[j] \subseteq built'[j]
      /\ UNCHANGED <<bound, told, store, late>>
  BY BuildWalks DEF externalVars
<1>2. Lasts BY <1>1 DEF Lasts
<1>3. AttemptBound(l)' BY <1>1 DEF AttemptBound, Uploading
<1>4. AttemptIsBound' BY <1>1, <1>2, <1>3, MovedBound DEF BoundInv
<1>5. \A m \in late : m.job \in Job BY DEF Typed, CompilerTypeOK, Message
<1>6. LateIsBound' BY Zenon, <1>1, <1>5 DEF BoundInv, LateIsBound, RequestIsBound
<1>7. OutsideIsBound' BY Zenon, <1>1 DEF BoundInv, OutsideIsBound
<1> QED BY <1>4, <1>6, <1>7 DEF BoundInv

\* A reconciled upload is a stored one.
LEMMA ReconcileBound ==
  ASSUME Typed, BoundInv, NEW l \in Loop, ReconcileExactUpload(l)
  PROVE  BoundInv'
<1>1. /\ Walks(l, {"check", "reconcile"}, {"publish", "put", "requeue"})
      /\ loop'[l].pc = "publish" => store[loop[l].job] = loop[l].bound
      /\ UNCHANGED <<bound, told, store, late, built>>
  BY ReconcileWalks DEF externalVars, historyVars
<1>2. /\ loop[l].pc \in Uploading /\ loop'[l].job = loop[l].job
      /\ loop'[l].built = loop[l].built /\ loop'[l].bound = loop[l].bound
      /\ \A k \in Loop \ {l} : loop'[k] = loop[k]
  BY <1>1 DEF Walks, Uploading
<1>3. Lasts BY Zenon, <1>1 DEF Lasts
<1>4. AttemptBound(l)'
  BY Zenon, <1>1, <1>2 DEF AttemptBound, BoundInv, AttemptIsBound, Uploading
<1>5. AttemptIsBound' BY <1>1, <1>2, <1>3, <1>4, MovedBound DEF BoundInv
<1> QED BY <1>1, <1>5 DEF BoundInv, LateIsBound, RequestIsBound, OutsideIsBound

\* A late request was allowed when it was sent, and still is.
LEMMA ArriveLateBound ==
  ASSUME Typed, BoundInv, ArriveLate
  PROVE  BoundInv'
<1>1. PICK m \in late : Receive(m) /\ late' = late \ {m} BY DEF ArriveLate
<1>2. m \in Message /\ RequestIsBound(m) BY DEF Typed, CompilerTypeOK, BoundInv, LateIsBound
<1>3. built' = built /\ loop' = loop BY DEF ArriveLate, historyVars, serviceVars
<1>4. OutsideIsBound' /\ Lasts BY Zenon, <1>1, <1>2, <1>3, ReceiveBound DEF BoundInv
<1>5. \A n \in late : n.job \in Job BY DEF Typed, CompilerTypeOK, Message
<1>6. LateIsBound'
  BY Zenon, <1>1, <1>3, <1>4, <1>5 DEF BoundInv, LateIsBound, RequestIsBound, Lasts
<1>7. \A l \in Loop : AttemptBound(l)' BY <1>3, <1>4, RestingBound DEF BoundInv
<1>8. AttemptIsBound' BY <1>7 DEF AttemptIsBound, AttemptBound, At
<1> QED BY <1>4, <1>6, <1>8 DEF BoundInv

\* BoundInv is preserved by every step.
LEMMA BoundStep ==
  ASSUME Typed, BoundInv, Next
  PROVE  BoundInv'
<1>1. CASE Start \/ StartFails
  BY <1>1, StartFacts, CalmBound DEF historyVars
<1>2. CASE Crash \/ Stop \/ Stopped
  <2>1. UNCHANGED externalVars /\ UNCHANGED built
    BY <1>2 DEF Crash, Stop, Stopped, historyVars
  <2>2. \A l \in Loop : loop'[l] = loop[l] \/ loop'[l].pc = "idle"
    BY <1>2 DEF Crash, Stop, Stopped, Idle
  <2> QED BY <2>1, <2>2, CalmBound DEF Uploading
<1>3. CASE \E j \in Job, e \in Envelope : HandleHttp(j, e)
  BY <1>3, HttpFacts, CalmBound DEF serviceVars
<1>4. CASE \E l \in Loop : Claim(l)
  BY <1>4, ClaimFacts, CalmBound DEF historyVars, Uploading
<1>5. CASE \E l \in Loop : ClaimFails(l)
  <2>1. UNCHANGED externalVars /\ UNCHANGED built
    BY <1>5, ClaimFailsFacts DEF historyVars
  <2>2. \A l \in Loop : loop'[l].pc = "idle" BY <1>5, ClaimFailsFacts DEF Idle
  <2> QED BY <2>1, <2>2, CalmBound DEF Uploading
<1>6. CASE \E l \in Loop : Network(l)
  <2>1. PICK l \in Loop : Network(l) BY <1>6
  <2>2. CASE GetGrants(l)
    BY <2>2, GetGrantsWalks, CalmBound DEF historyVars, Uploading, Walks
  <2> QED BY <2>1, <2>2, BuildBound, PostFailedBound, PrepareUploadBound, UploadExactBound,
             ReconcileBound, PublishBound DEF Network
<1>7. CASE \E l \in Loop : ArchiveJob(l)
  BY <1>7, ArchiveFacts, CalmBound DEF historyVars, Uploading, Walks
<1>8. CASE \E l \in Loop : RemovePending(l)
  BY <1>8, RemoveFacts, CalmBound DEF historyVars, Uploading
<1>9. CASE \E l \in Loop : Requeue(l)
  BY <1>9, RequeueFacts, CalmBound DEF Uploading
<1>10. CASE ArriveLate BY <1>10, ArriveLateBound
<1>11. CASE Backoff
  BY <1>11, BackoffFacts, CalmBound DEF historyVars, serviceVars
<1> QED BY <1>1, <1>2, <1>3, <1>4, <1>5, <1>6, <1>7, <1>8, <1>9, <1>10, <1>11, NextGroups
-----------------------------------------------------------------------------
(* The invariant *)

\* Inv holds initially.
LEMMA InitInv == ASSUME Init PROVE Inv
<1>1. \A l \in Loop : loop[l] = Idle BY DEF Init
<1>2. Idle \in Attempt BY IdleType
<1>3. NoRecord \in Record BY QueueAssumption DEF NoRecord, Record
<1>4. CompilerTypeOK
  <2>1. loop \in [Loop -> Attempt] BY <1>2 DEF Init
  <2>2. pending \in [Job -> Record] BY <1>3 DEF Init, QueueInit
  <2>3. 0 \in 0 .. MaxFaults /\ 0 \in 0 .. MaxDeliveries BY WorkerAssumption
  <2> QED BY <2>1, <2>2, <2>3 DEF Init, QueueInit, CompilerTypeOK
<1>5. \A l \in Loop : loop[l].pc = "idle" /\ loop[l].job = 0 BY <1>1 DEF Idle
<1>6. Typed BY <1>4, <1>5 DEF Typed, LoopsHoldJobs
<1>7. ReferencedIsKept /\ FinishOrder /\ Ownership
  BY Zenon, <1>5 DEF Init, ReferencedIsKept, FinishOrder, Ownership, At
<1>8. AttemptIsBound /\ LateIsBound /\ OutsideIsBound
  BY <1>5 DEF Init, AttemptIsBound, LateIsBound, OutsideIsBound, At, Uploading
<1> QED BY <1>6, <1>7, <1>8 DEF Inv

\* Inv is preserved by every step and by stuttering.
LEMMA InvStep == ASSUME Inv, [Next]_vars PROVE Inv'
<1>1. CASE Next
  <2>1. Typed' BY <1>1, TypedStep DEF Inv
  <2>2. ReferencedIsKept' BY <1>1, ReferencedStep DEF Inv
  <2>3. FinishOrder' BY <1>1, FinishOrderStep DEF Inv
  <2>4. Ownership' BY <1>1, OwnershipStep DEF Inv
  <2>5. BoundInv' BY <1>1, BoundStep DEF Inv, BoundInv
  <2> QED BY <2>1, <2>2, <2>3, <2>4, <2>5 DEF Inv, BoundInv
<1>2. CASE UNCHANGED vars
  <2>1. Typed' BY <1>2 DEF Inv, Typed, CompilerTypeOK, LoopsHoldJobs, vars
  <2>2. ReferencedIsKept' BY <1>2 DEF Inv, ReferencedIsKept, Kept, vars
  <2>3. FinishOrder' /\ Ownership' BY <1>2 DEF Inv, FinishOrder, Ownership, At, vars
  <2>4. AttemptIsBound' /\ LateIsBound' /\ OutsideIsBound'
    BY Zenon, <1>2 DEF Inv, AttemptIsBound, LateIsBound, RequestIsBound, OutsideIsBound, At, vars
  <2> QED BY <2>1, <2>2, <2>3, <2>4 DEF Inv
<1> QED BY <1>1, <1>2

\* Inv is an invariant of the service: of its queue files, its run loops, the
\* requests on the wire and what the control plane and the object store hold.
THEOREM InvInvariant == Spec => []Inv
BY InitInv, InvStep, PTL DEF Spec

\* Every record, attempt, binding and request stays well formed.
THEOREM CompilerTypeCorrect == Spec => []CompilerTypeOK
<1>1. Inv => CompilerTypeOK BY DEF Inv, Typed
<1> QED BY <1>1, InvInvariant, PTL

\* No job answered 202 is ever lost from pending/ and archive/ together,
\* whatever writes of enqueue, claim and finish fail and wherever the process
\* dies.
THEOREM AckedJobsAreKept == Spec => []AckedJobIsKept
<1>1. Inv => AckedJobIsKept BY DEF Inv, ReferencedIsKept, Kept, AckedJobIsKept
<1> QED BY <1>1, InvInvariant, PTL

\* No two of any number of run loops ever work on the same job, and finish
\* meets the running record its loop claimed, unless an earlier finish of the
\* job threw after its write.
THEOREM AttemptsOwnTheirRecords == Spec => []AttemptOwnsRecord
<1>1. Inv => AttemptOwnsRecord BY DEF Inv, Ownership, AttemptOwnsRecord
<1> QED BY <1>1, InvInvariant, PTL

\* uploadExact never stores an object for a job the control plane has not
\* bound, whichever requests are lost, late or repeated by other attempts.
THEOREM StoredJobsAreBound == Spec => []BoundBeforeStored
<1>1. Inv => BoundBeforeStored BY DEF Inv, OutsideIsBound, BoundBeforeStored
<1> QED BY <1>1, InvInvariant, PTL

\* A published callback that arrives means the bound archive is stored, for
\* every job whose builds are reproducible.
THEOREM PublishedJobsAreStored == Spec => []PublishedIsStored
<1>1. Inv => PublishedIsStored
  <2> SUFFICES ASSUME Inv, NEW j \in Job, "published" \in told[j],
                      \A a, b \in built[j] : a = b
               PROVE  store[j] # NoArchive /\ store[j] = bound[j]
    BY DEF PublishedIsStored
  <2>1. store[j] # NoArchive /\ bound[j] # NoArchive BY DEF Inv, OutsideIsBound
  <2>2. store[j] \in built[j] /\ bound[j] \in built[j] BY <2>1 DEF Inv, OutsideIsBound
  <2> QED BY <2>1, <2>2
<1> QED BY <1>1, InvInvariant, PTL
-----------------------------------------------------------------------------
(* The service implements JobLifecycle *)

\* The refinement mapping of Lifecycle.
Status == [j \in Job |-> IF j \in archive THEN "retired"
                         ELSE IF pending[j].state = "none" THEN "new"
                         ELSE "accepted"]

\* The lifecycle's step relation, spelled over the mapping.
Advances ==
    \/ \E j \in Job : /\ Status[j] = "new"
                      /\ Status' = [Status EXCEPT ![j] = "accepted"]
                      /\ told' = told
    \/ \E j \in Job : /\ Status[j] = "accepted" /\ told[j] # {}
                      /\ Status' = [Status EXCEPT ![j] = "retired"]
                      /\ told' = told
    \/ \E j \in Job, v \in Verdict : /\ Status[j] # "new"
                                     /\ told' = [told EXCEPT ![j] = @ \cup {v}]
                                     /\ Status' = Status
    \/ Status' = Status /\ told' = told

\* A step that keeps the set of known jobs is a stutter of the lifecycle.
LEMMA QueueRests ==
  ASSUME UNCHANGED <<archive, told>>,
         \A j \in Job \ archive : pending'[j].state = "none" <=> pending[j].state = "none"
  PROVE  Advances
<1>1. Status' = Status BY DEF Status
<1> QED BY <1>1 DEF Advances

\* An intake is an Accept or a stutter.
LEMMA HttpAdvances ==
  ASSUME Typed, NEW j \in Job, NEW e \in Envelope, HandleHttp(j, e)
  PROVE  Advances
<1>1. /\ \A i \in Job \ {j} : pending'[i] = pending[i]
      /\ j \in archive => pending' = pending
      /\ pending[j].state # "none" => pending'[j].state # "none"
      /\ UNCHANGED <<archive, told>>
  BY Zenon, HttpFacts DEF externalVars
<1>2. CASE j \notin archive /\ pending[j].state = "none" /\ pending'[j].state # "none"
  <2>1. Status[j] = "new" BY Zenon, <1>2 DEF Status
  <2>2. Status' = [Status EXCEPT ![j] = "accepted"] BY Zenon, <1>1, <1>2 DEF Status
  <2> QED BY Zenon, <1>1, <2>1, <2>2 DEF Advances
<1>3. CASE ~(j \notin archive /\ pending[j].state = "none" /\ pending'[j].state # "none")
  <2>1. \A i \in Job \ archive : pending'[i].state = "none" <=> pending[i].state = "none"
    BY <1>1, <1>3
  <2> QED BY <1>1, <2>1, QueueRests
<1> QED BY <1>2, <1>3

\* A verdict about a kept job is a Hear.
LEMMA ReceiveAdvances ==
  ASSUME NEW m \in Message, Kept(m.job), Receive(m), UNCHANGED queueVars
  PROVE  Advances
<1>1. Status' = Status BY DEF Status, queueVars
<1>2. m.job \in Job BY DEF Message
<1>3. Status[m.job] # "new" BY <1>2 DEF Status, Kept
<1>4. CASE m.kind \in Verdict
  <2>1. told' = [told EXCEPT ![m.job] = @ \cup {m.kind}] BY <1>4 DEF Receive
  <2> QED BY Zenon, <1>1, <1>2, <1>3, <1>4, <2>1 DEF Advances
<1>5. CASE m.kind \notin Verdict BY <1>1, <1>5 DEF Receive, Advances
<1> QED BY <1>4, <1>5

\* A request is a Hear or a stutter.
LEMMA SendsAdvances ==
  ASSUME Inv, NEW l \in Loop, NEW kind, NEW a, NEW froms, NEW onAnswer, NEW onTimeout,
         "idle" \notin froms, Sends(l, kind, a, froms, onAnswer, onTimeout)
  PROVE  Advances
<1> DEFINE m == [kind |-> kind, job |-> loop[l].job, archive |-> a]
<1>1. m \in Message /\ Sent(m) /\ UNCHANGED queueVars /\ loop[l].pc # "idle" BY Zenon DEF Sends
<1>2. Kept(loop[l].job) BY Zenon, <1>1 DEF Inv, Typed, LoopsHoldJobs, ReferencedIsKept
<1>3. m.job = loop[l].job OBVIOUS
<1> HIDE DEF m
<1>4. CASE Receive(m) BY Zenon, <1>1, <1>2, <1>3, <1>4, ReceiveAdvances
<1>5. CASE told' = told BY Zenon, <1>1, <1>5, QueueRests DEF queueVars
<1> QED BY <1>1, <1>4, <1>5 DEF Sent

\* So is every step of an attempt on the network.
LEMMA NetworkAdvances ==
  ASSUME Inv, NEW l \in Loop, Network(l)
  PROVE  Advances
<1>0. Typed BY DEF Inv
<1>1. CASE GetGrants(l) \/ Build(l) \/ ReconcileExactUpload(l)
  <2>1. UNCHANGED queueVars /\ UNCHANGED externalVars
    BY Zenon, <1>0, <1>1, GetGrantsWalks, BuildWalks, ReconcileWalks
  <2> QED BY <2>1, QueueRests DEF queueVars, externalVars
<1>2. CASE PostFailed(l)
  <2>1. Sends(l, "failed", NoArchive, {"failing"}, {"archive"}, {"requeue"})
    BY <1>0, <1>2, PostFailedSends
  <2> QED BY <2>1, SendsAdvances
<1>3. CASE Publish(l)
  <2>1. Sends(l, "published", loop[l].bound, {"publish"}, {"archive"}, {"requeue"})
    BY <1>0, <1>3, PublishSends
  <2> QED BY <2>1, SendsAdvances
<1>4. CASE PrepareUpload(l)
  <2>1. Sends(l, "upload-prepared", loop[l].built, {"prepare"}, {"put", "check"}, {"requeue"})
    BY Zenon, <1>0, <1>4, PrepareUploadSends
  <2> QED BY <2>1, SendsAdvances
<1>5. CASE UploadExact(l)
  <2>1. Sends(l, "put", loop[l].built, {"put"}, {"publish", "reconcile"}, {"reconcile"})
    BY <1>0, <1>5, UploadExactSends
  <2> QED BY <2>1, SendsAdvances
<1> QED BY <1>1, <1>2, <1>3, <1>4, <1>5 DEF Network

\* finish's first write is a Retire or a stutter.
LEMMA ArchiveAdvances ==
  ASSUME Inv, NEW l \in Loop, ArchiveJob(l)
  PROVE  Advances
<1> DEFINE j == loop[l].job
<1>0. Typed BY DEF Inv
<1>1. /\ loop[l].pc = "archive" /\ archive' \in {archive, archive \cup {j}}
      /\ UNCHANGED <<pending, told>>
  BY <1>0, ArchiveFacts DEF Walks, externalVars
<1>2. j \in Job BY <1>0, <1>1, BusyHasJob
<1>3. CASE j \in archive \/ archive' = archive
  <2>1. archive' = archive BY <1>1, <1>3
  <2> QED BY <1>1, <2>1, QueueRests
<1>4. CASE j \notin archive /\ archive' = archive \cup {j}
  <2>1. told[j] # {} BY Zenon, <1>1 DEF Inv, FinishOrder, At
  <2>2. Kept(j) BY <1>1 DEF Inv, Typed, LoopsHoldJobs, ReferencedIsKept
  <2>3. Status[j] = "accepted" BY <1>2, <1>4, <2>2 DEF Status, Kept
  <2>4. Status' = [Status EXCEPT ![j] = "retired"] BY Zenon, <1>1, <1>2, <1>4 DEF Status
  <2> QED BY Zenon, <1>1, <1>2, <2>1, <2>3, <2>4 DEF Advances
<1> QED BY <1>1, <1>3, <1>4

\* Every step of the service is one of the lifecycle or a stutter.
LEMMA NextAdvances == ASSUME Inv, Next PROVE Advances
<1>0. Typed /\ FinishOrder BY DEF Inv
<1>1. CASE Start \/ StartFails
  BY <1>0, <1>1, StartFacts, QueueRests DEF externalVars
<1>2. CASE Crash \/ Stop \/ Stopped
  BY <1>2, QueueRests DEF Crash, Stop, Stopped, queueVars, externalVars
<1>3. CASE \E j \in Job, e \in Envelope : HandleHttp(j, e) BY <1>0, <1>3, HttpAdvances
<1>4. CASE \E l \in Loop : Claim(l)
  <2>1. /\ UNCHANGED <<archive, told>>
        /\ \E j \in Job : /\ pending[j].state \in {"pending", "retry"}
                          /\ pending'[j].state = "running"
                          /\ \A i \in Job \ {j} : pending'[i] = pending[i]
    BY <1>0, <1>4, ClaimFacts DEF externalVars
  <2>2. \A j \in Job : pending'[j].state = "none" <=> pending[j].state = "none" BY <2>1
  <2> QED BY <2>1, <2>2, QueueRests
<1>5. CASE \E l \in Loop : ClaimFails(l)
  BY <1>0, <1>5, ClaimFailsFacts, QueueRests DEF externalVars
<1>6. CASE \E l \in Loop : Network(l) BY <1>6, NetworkAdvances
<1>7. CASE \E l \in Loop : ArchiveJob(l) BY <1>7, ArchiveAdvances
<1>8. CASE \E l \in Loop : RemovePending(l)
  <2>1. PICK l \in Loop : RemovePending(l) BY <1>8
  <2>2. /\ UNCHANGED <<archive, told>> /\ loop[l].pc = "remove"
        /\ \A j \in Job \ {loop[l].job} : pending'[j] = pending[j]
    BY <1>0, <2>1, RemoveFacts DEF externalVars
  <2>3. loop[l].job \in archive BY Zenon, <1>0, <2>2 DEF FinishOrder, At
  <2> QED BY <2>2, <2>3, QueueRests
<1>9. CASE \E l \in Loop : Requeue(l)
  <2>1. PICK l \in Loop : Requeue(l) BY <1>9
  <2>2. /\ UNCHANGED <<archive, told>>
        /\ \/ pending' = pending
           \/ /\ pending[loop[l].job].state = "running"
              /\ pending'[loop[l].job].state = "retry"
              /\ \A j \in Job \ {loop[l].job} : pending'[j] = pending[j]
    BY Zenon, <1>0, <2>1, RequeueFacts DEF externalVars
  <2>3. \A j \in Job : pending'[j].state = "none" <=> pending[j].state = "none" BY <2>2
  <2> QED BY <2>2, <2>3, QueueRests
<1>10. CASE ArriveLate
  <2>1. PICK m \in late : Receive(m) BY <1>10 DEF ArriveLate
  <2>2. UNCHANGED queueVars BY <1>10 DEF ArriveLate
  <2>3. m \in Message /\ Kept(m.job)
    BY <1>0 DEF Typed, CompilerTypeOK, Inv, ReferencedIsKept
  <2> QED BY <2>1, <2>2, <2>3, ReceiveAdvances
<1>11. CASE Backoff
  BY <1>0, <1>11, BackoffFacts, QueueRests DEF externalVars
<1> QED BY <1>1, <1>2, <1>3, <1>4, <1>5, <1>6, <1>7, <1>8, <1>9, <1>10, <1>11, NextGroups

\* The compiler service implements the job lifecycle: for any number of jobs,
\* loops and faults, a job is accepted before the control plane hears of it,
\* retired only after a verdict arrived, and never taken back.
THEOREM ServiceImplementsLifecycle == Spec => ImplementsLifecycle
<1>1. Init => Lifecycle!Init
  BY DEF Init, QueueInit, NoRecord, Lifecycle!Init
<1>2. Inv /\ [Next]_vars => [Lifecycle!Next]_<<Status, told>>
  <2> SUFFICES ASSUME Inv, [Next]_vars PROVE [Lifecycle!Next]_<<Status, told>>
    OBVIOUS
  <2>1. Advances
    <3>1. CASE Next BY <3>1, NextAdvances
    <3>2. CASE UNCHANGED vars BY <3>2, QueueRests DEF vars
    <3> QED BY <3>1, <3>2
  <2> QED BY Zenon, <2>1 DEF Advances, Status, Lifecycle!Next, Lifecycle!Accept,
                    Lifecycle!Retire, Lifecycle!Hear
<1> QED BY <1>1, <1>2, InvInvariant, PTL DEF Spec, ImplementsLifecycle, Lifecycle!Spec, Status
=============================================================================

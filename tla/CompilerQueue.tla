--------------------------- MODULE CompilerQueue ---------------------------
(***************************************************************************)
(* FilesystemCompilerJobQueue: one JSON file per job under pending/, and,  *)
(* once its outcome is terminal, one under archive/.                       *)
(*                                                                         *)
(* The module gives the files and what each operation writes; who calls    *)
(* the operations, and where a write may fail or the process may die, is   *)
(* in CompilerWorker.  A job's file name is the hash of its id, so the     *)
(* order of the names is arbitrary but fixed: jobs are numbers in that     *)
(* order.  nextAttemptAt is kept as the backoff still to wait, in units of *)
(* retryDelayMs.                                                           *)
(***************************************************************************)
EXTENDS Naturals

CONSTANTS
    Job,         \* request ids, numbered in the order of their file names
    Envelope,    \* the signed request bodies the control plane may submit
    NoEnvelope,  \* absence of a redelivered body
    MaxDelay,    \* the 300 000 ms ceiling of the backoff, in retry units
    AttemptCap   \* bound: attempts are counted up to here

ASSUME QueueAssumption ==
    /\ Job \subseteq Nat \ {0}
    /\ NoEnvelope \notin Envelope
    /\ MaxDelay \in Nat \ {0}
    /\ AttemptCap \in Nat \ {0}

\* Counting attempts further than this changes no delay.
ASSUME CapIsFaithful == AttemptCap > 8 \/ 2 ^ (AttemptCap - 1) >= MaxDelay

VARIABLES
    pending,  \* pending[j]: the record in pending/, state "none" if no file
    archive   \* the jobs with a terminal record in archive/

queueVars == <<pending, archive>>

Record == [state : {"none", "pending", "running", "retry"},
           attempts : 0 .. AttemptCap, delay : 0 .. MaxDelay,
           body : Envelope \cup {NoEnvelope},
           redelivery : Envelope \cup {NoEnvelope}]

NoRecord == [state |-> "none", attempts |-> 0, delay |-> 0,
             body |-> NoEnvelope, redelivery |-> NoEnvelope]

QueueInit ==
    /\ pending = [j \in Job |-> NoRecord]
    /\ archive = {}

\* Mutant: the backoff has no ceiling.
RetryDelayUncapped(attempts) == 2 ^ attempts

RetryDelay(attempts) ==
    LET exponent == IF attempts > 8 THEN 8
                    ELSE IF attempts = 0 THEN 0 ELSE attempts - 1
        delay    == 2 ^ exponent
    IN  IF delay < MaxDelay THEN delay ELSE MaxDelay

\* Mutant: a running record is overwritten like a waiting one.
EnqueuedOver(r, e) ==
    IF r.state = "none" THEN [NoRecord EXCEPT !.state = "pending", !.body = e]
    ELSE [r EXCEPT !.body = e, !.state = "pending", !.delay = 0]

\* The record enqueue leaves for a job that is not archived: a new job starts
\* from nothing, a waiting one takes the new body and becomes due, a running
\* one only remembers the body for after the attempt.
Enqueued(r, e) ==
    CASE r.state = "none"    -> [NoRecord EXCEPT !.state = "pending", !.body = e]
      [] r.state = "running" -> [r EXCEPT !.redelivery = e]
      [] OTHER -> [r EXCEPT !.body = e, !.state = "pending", !.delay = 0]

Due == {j \in Job : pending[j].state \in {"pending", "retry"} /\ pending[j].delay = 0}

\* The record claim hands out, and the order in which it looks: the first due
\* file name wins, and the archive is not consulted.
IsNext(j) == j \in Due /\ \A k \in Due : j <= k

Claimed(r) ==
    [r EXCEPT !.state = "running",
              !.attempts = IF @ < AttemptCap THEN @ + 1 ELSE @]

\* finish with kind "retry".
Retried(r) ==
    [r EXCEPT !.body = IF r.redelivery = NoEnvelope THEN @ ELSE r.redelivery,
              !.redelivery = NoEnvelope,
              !.state = "retry",
              !.delay = RetryDelay(r.attempts)]

\* Mutant: a job that was running when the process died is dropped.
RecoveredDropping(j, r) == IF j \in archive \/ r.state = "running" THEN NoRecord ELSE r

\* initialize for one file: an archived job loses its pending file, a job that
\* was running when the process died becomes claimable again.
Recovered(j, r) ==
    IF j \in archive THEN NoRecord
    ELSE IF r.state = "running" THEN [r EXCEPT !.state = "pending"] ELSE r

\* One unit of backoff goes by.
BackoffTick ==
    /\ \E j \in Job : pending[j].delay > 0
    /\ pending' = [j \in Job |-> IF pending[j].delay = 0 THEN pending[j]
                                 ELSE [pending[j] EXCEPT !.delay = @ - 1]]
    /\ UNCHANGED archive

=============================================================================

---------------------------- MODULE JobLifecycle ----------------------------
(***************************************************************************)
(* What the compiler service promises the control plane about a job,       *)
(* whatever crashes, lost replies and retries lie in between: an accepted  *)
(* job is never forgotten, it is retired only after the control plane has  *)
(* heard a verdict about it, and a retired job stays retired.              *)
(***************************************************************************)
CONSTANTS Job, Verdict

VARIABLES
    status,  \* status[j]: "new", "accepted" or "retired"
    heard    \* heard[j]: the verdicts the control plane has received

Init ==
    /\ status = [j \in Job |-> "new"]
    /\ heard  = [j \in Job |-> {}]

Accept(j) ==
    /\ status[j] = "new"
    /\ status' = [status EXCEPT ![j] = "accepted"]
    /\ UNCHANGED heard

\* A verdict arrives.  It may arrive again, and it may arrive after the job was
\* retired: a callback can be delayed past the attempt that sent it.
Hear(j, v) ==
    /\ status[j] # "new"
    /\ heard' = [heard EXCEPT ![j] = @ \cup {v}]
    /\ UNCHANGED status

Retire(j) ==
    /\ status[j] = "accepted"
    /\ heard[j] # {}
    /\ status' = [status EXCEPT ![j] = "retired"]
    /\ UNCHANGED heard

Next == \E j \in Job : Accept(j) \/ Retire(j) \/ \E v \in Verdict : Hear(j, v)

Spec == Init /\ [][Next]_<<status, heard>>

=============================================================================

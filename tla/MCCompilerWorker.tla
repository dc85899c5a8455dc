-------------------------- MODULE MCCompilerWorker --------------------------
(* Small instances of CompilerWorker for TLC. *)
EXTENDS CompilerWorker

TwoJobs == 1 .. 2
OneJob == 1 .. 1
\* An ordinary request, and one from a control plane whose clock runs ahead.
MCEnvelope == {[issued |-> 0, expires |-> 2], [issued |-> 1, expires |-> 1]}
MCNoEnvelope == [issued |-> 0, expires |-> 0]

=============================================================================

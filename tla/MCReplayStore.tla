--------------------------- MODULE MCReplayStore ---------------------------
(* A small instance of ReplayStore for TLC. *)
EXTENDS ReplayStore, TLC

\* Requests signed one after the other; the last by a clock that runs ahead.
MCKey == 1 .. 2
MCStamp == [k \in MCKey |-> k - 1]

ConsumerSymmetry == Permutations(Consumer)

=============================================================================

---------------------------- MODULE MCNodeAgent ----------------------------
(* Small instances of NodeAgent for TLC. *)
EXTENDS NodeAgent

\* Bound of the run with overlapping assignments, whose properties do not read
\* workspace contents: no play session is followed.
NoSessions == saved = {}

=============================================================================

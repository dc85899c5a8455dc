------------------------- MODULE MCWorkspaceManager -------------------------
(* WorkspaceManager on five files, four layers, some sessions, for TLC. *)
EXTENDS WorkspaceManager

MCWorldGroup == <<{"world"}, {"nether"}>>
F(mods, scripts, config, world, nether) ==
    [p \in {"mods", "scripts", "config", "world", "nether"} |->
        CASE p = "mods" -> mods [] p = "scripts" -> scripts [] p = "config" -> config
          [] p = "world" -> world [] p = "nether" -> nether]

\* Version 3 is large, 4 too large for an archive and 5 a symlink.
MCBytes == <<1, 1, 3, 4, 0>>

\* Layer c4 is too large for an archive.
MCLayer == [c \in {"c1", "c2", "c3", "c4"} |->
    CASE c = "c1" -> F(1, 1, 1, 0, 0) [] c = "c2" -> F(2, 0, 0, 0, 0)
      [] c = "c3" -> F(1, 0, 0, 0, 0) [] c = "c4" -> F(4, 0, 0, 0, 0)]
MCSeed == F(0, 0, 0, 1, 1)

\* A session changes a config file, the worlds, or files of the layer.
Change(f, p, v) == [f EXCEPT ![p] = v]
MCSession(f) == {
    Change(Change(f, "config", 2), "world", 2),
    Change(Change(f, "config", 0), "world", 0),
    Change(Change(f, "mods", 0), "nether", 1),
    Change(f, "config", 3),
    Change(f, "world", 4),
    Change(f, "world", 5)}

\* Layers of start and stop, and a seed for the first assignment or none.
O(start, stop, seed) == [start |-> start, stop |-> stop, seed |-> seed]
MCOrders == {
    <<O("c1", "c1", TRUE), O("c1", None, FALSE)>>,
    <<O("c1", None, FALSE), O("c2", "c2", FALSE)>>,
    <<O("c2", "c2", TRUE), O(None, None, FALSE)>>,
    <<O("c1", None, FALSE), O("c3", None, FALSE)>>,
    <<O("c3", "c3", FALSE), O("c4", None, FALSE)>>,
    <<O(None, None, TRUE), O("c1", None, FALSE)>>}
=============================================================================

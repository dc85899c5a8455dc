---------------------------- MODULE ReplayStore ----------------------------
(***************************************************************************)
(* FilesystemReplayStore and the verifyIncoming calls that use it.         *)
(*                                                                         *)
(* Any number of calls, of one process or of replicas that share the       *)
(* directory, consume nonces concurrently; every await is a step.  A call  *)
(* works with the clock value it read at its start.  The signature is not  *)
(* modelled: every request here is authentic, and a nonce belongs to one   *)
(* request.                                                                *)
(***************************************************************************)
EXTENDS Naturals, FiniteSets

CONSTANTS
    Consumer,    \* the verifyIncoming calls that may be in flight
    Key,         \* nonces, one per signed request
    Stamp,       \* Stamp[k]: the timestamp request k was signed with
    MaxAge,      \* maxAgeMs
    MaxEntries,  \* maxEntries
    ScanLimit,   \* how many entries one cleanup looks at
    MaxTime      \* bound: the clock stops here

ASSUME ReplayAssumption ==
    /\ IsFiniteSet(Consumer) /\ IsFiniteSet(Key) /\ Key # {}
    /\ Stamp \in [Key -> Nat]
    /\ MaxAge \in Nat \ {0} /\ MaxEntries \in Nat \ {0}
    /\ ScanLimit \in Nat \ {0} /\ MaxTime \in Nat

VARIABLES
    clock,
    dir,      \* dir[k]: "absent", "empty" (created, not written) or "written"
    call,     \* call[c]: where the call is, its key, its now, the scan
    accepts,  \* history: how often request k was accepted, counted to two
    failed    \* history: keys one of whose calls met a file-system error

vars == <<clock, dir, call, accepts, failed>>

ExpiresAt(k) == Stamp[k] + MaxAge
Entries == {k \in Key : dir[k] # "absent"}

Pc == {"idle", "list", "scan", "unlink", "recheck", "create", "write", "sync", "undo"}
SomeKey == CHOOSE k \in Key : TRUE
Idle == [pc |-> "idle", key |-> SomeKey, now |-> 0, todo |-> {}, victim |-> SomeKey]

Init ==
    /\ clock = 0
    /\ dir = [k \in Key |-> "absent"]
    /\ call = [c \in Consumer |-> Idle]
    /\ accepts = [k \in Key |-> 0]
    /\ failed = {}

At(c, pc)   == call[c].pc = pc
Goto(c, pc) == call' = [call EXCEPT ![c].pc = pc]
Return(c)   == call' = [call EXCEPT ![c] = Idle]

\* validateSignedRequest: the timestamp is at most MaxAge from now, either way.
Timely(k, now) == now <= Stamp[k] + MaxAge /\ Stamp[k] <= now + MaxAge

\* verifyIncoming up to the store, and consume's own check of expiresAt.
VerifyIncoming(c, k) ==
    /\ At(c, "idle") /\ Timely(k, clock) /\ ExpiresAt(k) > clock
    /\ call' = [call EXCEPT ![c] = [Idle EXCEPT !.pc = "list", !.key = k, !.now = clock]]
    /\ UNCHANGED <<clock, dir, accepts, failed>>

\* consume lists the directory; a full one is scanned in listing order, which is
\* arbitrary, up to the limit.
ListEntries(c) ==
    /\ At(c, "list")
    /\ IF Cardinality(Entries) < MaxEntries THEN Goto(c, "create")
       ELSE \E some \in SUBSET Entries :
               /\ Cardinality(some) = ScanLimit \/ some = Entries
               /\ Cardinality(some) <= ScanLimit
               /\ call' = [call EXCEPT ![c].pc = "scan", ![c].todo = some]
    /\ UNCHANGED <<clock, dir, accepts, failed>>

\* Mutant: cleanup removes what is not expired yet.
ScanEntryEager(c) ==
    /\ At(c, "scan")
    /\ IF call[c].todo = {} THEN Goto(c, "recheck")
       ELSE \E k \in call[c].todo :
               call' = [call EXCEPT ![c].pc = "unlink", ![c].todo = @ \ {k}, ![c].victim = k]
    /\ UNCHANGED <<clock, dir, accepts, failed>>

\* #removeExpired reads one entry; it decides on the call's own now, and skips
\* what is gone or not fully written.
ScanEntry(c) ==
    /\ At(c, "scan")
    /\ IF call[c].todo = {} THEN Goto(c, "recheck")
       ELSE \E k \in call[c].todo :
               IF dir[k] = "written" /\ ExpiresAt(k) <= call[c].now
               THEN call' = [call EXCEPT ![c].pc = "unlink", ![c].todo = @ \ {k},
                                         ![c].victim = k]
               ELSE call' = [call EXCEPT ![c].todo = @ \ {k}]
    /\ UNCHANGED <<clock, dir, accepts, failed>>

\* ... and removes an expired one.
UnlinkEntry(c) ==
    /\ At(c, "unlink")
    /\ dir' = [dir EXCEPT ![call[c].victim] = "absent"]
    /\ call' = [call EXCEPT ![c].pc = "scan", ![c].victim = SomeKey]
    /\ UNCHANGED <<clock, accepts, failed>>

\* Mutant: the directory is not listed again.
RecheckSkipped(c) ==
    /\ At(c, "recheck")
    /\ Goto(c, "create")
    /\ UNCHANGED <<clock, dir, accepts, failed>>

\* The second listing: still full means the request is refused.
Recheck(c) ==
    /\ At(c, "recheck")
    /\ IF Cardinality(Entries) >= MaxEntries THEN Return(c) ELSE Goto(c, "create")
    /\ UNCHANGED <<clock, dir, accepts, failed>>

\* Mutant: a file that exists is opened, not refused.
CreateOrOpen(c) ==
    /\ At(c, "create")
    /\ Goto(c, "write")
    /\ dir' = [dir EXCEPT ![call[c].key] = IF @ = "absent" THEN "empty" ELSE @]
    /\ UNCHANGED <<clock, accepts, failed>>

\* open(path, "wx"): EEXIST refuses the request as replayed.
Create(c) ==
    LET k == call[c].key
    IN  /\ At(c, "create")
        /\ IF dir[k] # "absent" THEN Return(c) /\ UNCHANGED dir
           ELSE Goto(c, "write") /\ dir' = [dir EXCEPT ![k] = "empty"]
        /\ UNCHANGED <<clock, accepts, failed>>

\* The open handle is written to.  After an error removed the name, the handle
\* no longer says anything about the file the name now stands for.
WriteEntry(c) ==
    LET k == call[c].key
        written == [dir EXCEPT ![k] = IF @ = "absent" THEN @ ELSE "written"]
    IN  /\ At(c, "write")
        /\ dir' \in IF k \in failed THEN {dir, written} ELSE {written}
        /\ Goto(c, "sync")
        /\ UNCHANGED <<clock, accepts, failed>>

\* File and directory are synced: the request is accepted.
SyncEntry(c) ==
    LET k == call[c].key
    IN  /\ At(c, "sync")
        /\ accepts' = [accepts EXCEPT ![k] = IF @ < 2 THEN @ + 1 ELSE @]
        /\ Return(c)
        /\ UNCHANGED <<clock, dir, failed>>

\* open, write or sync throws anything but EEXIST.
StoreFails(c) ==
    /\ At(c, "create") \/ At(c, "write") \/ At(c, "sync")
    /\ Goto(c, "undo")
    /\ failed' = failed \cup {call[c].key}
    /\ UNCHANGED <<clock, dir, accepts>>

\* The error path removes the path, whoever created it, or fails to.
Undo(c) ==
    /\ At(c, "undo")
    /\ dir' \in {dir, [dir EXCEPT ![call[c].key] = "absent"]}
    /\ Return(c)
    /\ UNCHANGED <<clock, accepts, failed>>

\* The replica dies in the middle of the call.
CrashCall(c) ==
    /\ ~At(c, "idle")
    /\ Return(c)
    /\ UNCHANGED <<clock, dir, accepts, failed>>

Tick ==
    /\ clock < MaxTime
    /\ clock' = clock + 1
    /\ UNCHANGED <<dir, call, accepts, failed>>

Next ==
    \/ Tick
    \/ \E c \in Consumer :
          \/ \E k \in Key : VerifyIncoming(c, k)
          \/ ListEntries(c) \/ ScanEntry(c) \/ UnlinkEntry(c) \/ Recheck(c)
          \/ Create(c) \/ WriteEntry(c) \/ SyncEntry(c)
          \/ StoreFails(c) \/ Undo(c) \/ CrashCall(c)

Spec == Init /\ [][Next]_vars
-----------------------------------------------------------------------------
(* Properties *)

\* As long as an accepted request has not expired its entry stays in the
\* directory, so no concurrent cleanup forgets it; the store's own error path
\* for the same key is the only exception.
AcceptedIsRemembered == \A k \in Key :
    accepts[k] > 0 /\ clock < ExpiresAt(k) /\ k \notin failed => dir[k] = "written"

\* A request is accepted a second time only by a call that began before the
\* request expired and ended after, or after a file-system error on its key.
AcceptedOnce ==
    [][\A k \in Key : accepts[k] > 0 /\ accepts'[k] > accepts[k]
                          => clock >= ExpiresAt(k) \/ k \in failed]_vars

\* The capacity check and the create are separate steps; calls that passed the
\* check together exceed maxEntries by at most the number of other calls.
BoundedOvershoot ==
    Cardinality(Entries) + Cardinality({c \in Consumer : At(c, "create")})
        < MaxEntries + Cardinality(Consumer)
=============================================================================

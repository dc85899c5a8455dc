-------------------------- MODULE ReplayStoreProofs --------------------------
(***************************************************************************)
(* FilesystemReplayStore for any number of concurrent calls, nonces and    *)
(* entries, and for any time.                                              *)
(***************************************************************************)
EXTENDS ReplayStore, FiniteSetTheorems, TLAPS

\* A leaf is tried with Zenon, then with the SMT solver.
USE ZenonT(5), SMTT(15)

Call == [pc : Pc, key : Key, now : Nat, todo : SUBSET Key, victim : Key]

ReplayTypeOK ==
    /\ clock \in Nat
    /\ dir \in [Key -> {"absent", "empty", "written"}]
    /\ call \in [Consumer -> Call]
    /\ accepts \in [Key -> 0 .. 2]
    /\ failed \subseteq Key

\* The nonce is neither expired nor touched by an error path.
Live(k) == clock < ExpiresAt(k) /\ k \notin failed

Filling(c, k) == call[c].pc \in {"write", "sync"} /\ call[c].key = k

\* A call's now is not ahead of the clock, its victim had expired by then, and
\* only failed calls undo.
CallIsHonest(c) ==
    /\ call[c].now <= clock
    /\ At(c, "unlink") => ExpiresAt(call[c].victim) <= call[c].now
    /\ At(c, "undo") => call[c].key \in failed

\* One call at a time fills the entry of a live nonce, and none after it was
\* accepted.
FilledOnce(c, k) == Live(k) /\ Filling(c, k) =>
    /\ accepts[k] = 0
    /\ dir[k] # "absent"
    /\ At(c, "sync") => dir[k] = "written"
    /\ \A d \in Consumer \ {c} : ~Filling(d, k)

Remembered(k) == Live(k) /\ accepts[k] > 0 => dir[k] = "written"

ReplayInv ==
    /\ ReplayTypeOK
    /\ \A c \in Consumer : CallIsHonest(c)
    /\ \A c \in Consumer, k \in Key : FilledOnce(c, k)
    /\ \A k \in Key : Remembered(k)
-----------------------------------------------------------------------------
(* What steps do to a call *)

\* An idle call.
LEMMA IdleIsCall == Idle \in Call /\ Idle.pc = "idle" /\ Idle.now = 0
<1>1. SomeKey \in Key BY ReplayAssumption DEF SomeKey
<1> QED BY <1>1 DEF Idle, Call, Pc

\* Goto moves one call.
LEMMA Goes ==
  ASSUME ReplayTypeOK, NEW c \in Consumer, NEW pc \in Pc, Goto(c, pc)
  PROVE  /\ call' \in [Consumer -> Call]
         /\ call'[c].pc = pc /\ call'[c].key = call[c].key
         /\ call'[c].now = call[c].now /\ call'[c].victim = call[c].victim
         /\ \A d \in Consumer \ {c} : call'[d] = call[d]
BY DEF ReplayTypeOK, Goto, Call

\* Return ends one call.
LEMMA Returns ==
  ASSUME ReplayTypeOK, NEW c \in Consumer, Return(c)
  PROVE  /\ call' \in [Consumer -> Call]
         /\ call'[c].pc = "idle" /\ call'[c].now = 0
         /\ \A d \in Consumer \ {c} : call'[d] = call[d]
BY IdleIsCall DEF ReplayTypeOK, Return

\* ReplayInv holds initially.
LEMMA ReplayInit == ASSUME Init PROVE ReplayInv
<1>1. \A c \in Consumer : call[c] = Idle BY DEF Init
<1>2. ReplayTypeOK BY IdleIsCall DEF Init, ReplayTypeOK
<1>3. \A c \in Consumer : CallIsHonest(c) BY <1>1, IdleIsCall DEF Init, CallIsHonest, At
<1>4. \A c \in Consumer, k \in Key : FilledOnce(c, k)
  BY <1>1, IdleIsCall DEF FilledOnce, Filling
<1>5. \A k \in Key : Remembered(k) BY DEF Init, Remembered
<1> QED BY <1>2, <1>3, <1>4, <1>5 DEF ReplayInv

\* Steps that only move a call, to a place where it fills no entry, or back to
\* idle.
LEMMA QuietStep ==
  ASSUME ReplayInv, NEW c \in Consumer, call' \in [Consumer -> Call],
         \A d \in Consumer \ {c} : call'[d] = call[d],
         call'[c].pc \notin {"write", "sync"}, CallIsHonest(c)',
         UNCHANGED <<clock, dir, accepts, failed>>
  PROVE  ReplayInv'
<1>1. ReplayTypeOK' BY DEF ReplayInv, ReplayTypeOK
<1>2. \A d \in Consumer : CallIsHonest(d)' BY DEF ReplayInv, CallIsHonest, At
<1>3. \A d \in Consumer, k \in Key : FilledOnce(d, k)'
  BY DEF ReplayInv, FilledOnce, Filling, Live, At, ExpiresAt
<1>4. \A k \in Key : Remembered(k)' BY DEF ReplayInv, Remembered, Live, ExpiresAt
<1> QED BY <1>1, <1>2, <1>3, <1>4 DEF ReplayInv
-----------------------------------------------------------------------------
(* One step per action *)

\* Requests come in, directories are listed and scanned, calls end.
LEMMA ReadingStep ==
  ASSUME ReplayInv, NEW c \in Consumer,
         \/ \E k \in Key : VerifyIncoming(c, k)
         \/ ListEntries(c) \/ ScanEntry(c) \/ Recheck(c) \/ CrashCall(c)
  PROVE  ReplayInv'
<1>0. ReplayTypeOK /\ CallIsHonest(c) BY DEF ReplayInv
<1>1. CASE \E k \in Key : VerifyIncoming(c, k)
  <2>1. PICK k \in Key : VerifyIncoming(c, k) BY <1>1
  <2> DEFINE new == [Idle EXCEPT !.pc = "list", !.key = k, !.now = clock]
  <2>2. new \in Call /\ new.pc = "list" /\ new.now = clock
    BY Zenon, <1>0, IdleIsCall DEF Call, Pc, ReplayTypeOK
  <2>3. call' = [call EXCEPT ![c] = new] BY Zenon, <2>1 DEF VerifyIncoming
  <2> HIDE DEF new
  <2>4. /\ call' \in [Consumer -> Call] /\ call'[c] = new
        /\ \A d \in Consumer \ {c} : call'[d] = call[d]
    BY <1>0, <2>2, <2>3 DEF ReplayTypeOK
  <2>5. UNCHANGED <<clock, dir, accepts, failed>> BY Zenon, <2>1 DEF VerifyIncoming
  <2>6. CallIsHonest(c)' BY <1>0, <2>2, <2>4, <2>5 DEF CallIsHonest, At, ReplayTypeOK
  <2> QED BY <2>2, <2>4, <2>5, <2>6, QuietStep
<1>2. CASE ListEntries(c)
  <2>1. UNCHANGED <<clock, dir, accepts, failed>> BY <1>2 DEF ListEntries
  <2>2. CASE Goto(c, "create")
    BY <1>0, <2>1, <2>2, Goes, QuietStep DEF Pc, CallIsHonest, At
  <2>3. CASE \E some \in SUBSET Entries :
               call' = [call EXCEPT ![c].pc = "scan", ![c].todo = some]
    <3>1. PICK some \in SUBSET Key :
             call' = [call EXCEPT ![c].pc = "scan", ![c].todo = some]
      BY Zenon, <2>3 DEF Entries
    <3> DEFINE new == [call[c] EXCEPT !.pc = "scan", !.todo = some]
    <3>2. new \in Call /\ new.pc = "scan" /\ new.now = call[c].now
      BY Zenon, <1>0, <3>1 DEF ReplayTypeOK, Call, Pc
    <3>3. call' = [call EXCEPT ![c] = new] BY Zenon, <1>0, <3>1 DEF ReplayTypeOK
    <3> HIDE DEF new
    <3>4. /\ call' \in [Consumer -> Call] /\ call'[c] = new
          /\ \A d \in Consumer \ {c} : call'[d] = call[d]
      BY <1>0, <3>2, <3>3 DEF ReplayTypeOK
    <3> QED BY <1>0, <2>1, <3>2, <3>4, QuietStep DEF CallIsHonest, At
  <2> QED BY <1>2, <2>2, <2>3 DEF ListEntries
<1>3. CASE ScanEntry(c)
  <2>1. UNCHANGED <<clock, dir, accepts, failed>> BY Zenon, <1>3 DEF ScanEntry
  <2>2. CASE Goto(c, "recheck")
    BY <1>0, <2>1, <2>2, Goes, QuietStep DEF Pc, CallIsHonest, At
  <2>3. CASE \E k \in call[c].todo : ExpiresAt(k) <= call[c].now /\
               call' = [call EXCEPT ![c].pc = "unlink", ![c].todo = @ \ {k}, ![c].victim = k]
    <3>1. PICK k \in call[c].todo : ExpiresAt(k) <= call[c].now /\
             call' = [call EXCEPT ![c].pc = "unlink", ![c].todo = @ \ {k}, ![c].victim = k]
      BY Zenon, <2>3
    <3>2. k \in Key BY <1>0 DEF ReplayTypeOK, Call
    <3> DEFINE new == [call[c] EXCEPT !.pc = "unlink", !.todo = @ \ {k}, !.victim = k]
    <3>3. new \in Call /\ new.pc = "unlink" /\ new.now = call[c].now /\ new.victim = k
      BY Zenon, <1>0, <3>2 DEF ReplayTypeOK, Call, Pc
    <3>4. call' = [call EXCEPT ![c] = new] BY Zenon, <1>0, <3>1 DEF ReplayTypeOK
    <3> HIDE DEF new
    <3>5. /\ call' \in [Consumer -> Call] /\ call'[c] = new
          /\ \A d \in Consumer \ {c} : call'[d] = call[d]
      BY <1>0, <3>3, <3>4 DEF ReplayTypeOK
    <3>6. CallIsHonest(c)' BY <1>0, <2>1, <3>1, <3>3, <3>5 DEF CallIsHonest, At, ExpiresAt
    <3> QED BY <2>1, <3>3, <3>5, <3>6, QuietStep
  <2>4. CASE \E k \in call[c].todo : call' = [call EXCEPT ![c].todo = @ \ {k}]
    <3>1. PICK k \in call[c].todo : call' = [call EXCEPT ![c].todo = @ \ {k}] BY Zenon, <2>4
    <3> DEFINE new == [call[c] EXCEPT !.todo = @ \ {k}]
    <3>2. new \in Call /\ new.pc = "scan" /\ new.now = call[c].now
      BY Zenon, <1>0, <1>3 DEF ReplayTypeOK, Call, ScanEntry, At
    <3>3. call' = [call EXCEPT ![c] = new] BY <1>0, <3>1 DEF ReplayTypeOK
    <3> HIDE DEF new
    <3>4. /\ call' \in [Consumer -> Call] /\ call'[c] = new
          /\ \A d \in Consumer \ {c} : call'[d] = call[d]
      BY <1>0, <3>2, <3>3 DEF ReplayTypeOK
    <3> QED BY <1>0, <2>1, <3>2, <3>4, QuietStep DEF CallIsHonest, At
  <2> QED BY Zenon, <1>3, <2>2, <2>3, <2>4 DEF ScanEntry
<1>4. CASE Recheck(c) \/ CrashCall(c)
  <2>1. /\ UNCHANGED <<clock, dir, accepts, failed>>
        /\ Return(c) \/ Goto(c, "create")
    BY <1>4 DEF Recheck, CrashCall
  <2>2. CASE Return(c)
    BY <1>0, <2>1, <2>2, Returns, QuietStep DEF CallIsHonest, At, ReplayTypeOK
  <2>3. CASE Goto(c, "create")
    BY <1>0, <2>1, <2>3, Goes, QuietStep DEF Pc, CallIsHonest, At
  <2> QED BY <2>1, <2>2, <2>3
<1> QED BY <1>1, <1>2, <1>3, <1>4

\* An entry is removed, by the cleanup or by an error path: never a live one's.
LEMMA RemovalStep ==
  ASSUME ReplayInv, NEW c \in Consumer, call' \in [Consumer -> Call],
         \A d \in Consumer \ {c} : call'[d] = call[d],
         call'[c].pc \notin {"write", "sync"}, CallIsHonest(c)',
         NEW k \in Key, ~Live(k), dir' \in {dir, [dir EXCEPT ![k] = "absent"]},
         UNCHANGED <<clock, accepts, failed>>
  PROVE  ReplayInv'
<1>1. ReplayTypeOK' BY DEF ReplayInv, ReplayTypeOK
<1>2. \A d \in Consumer : CallIsHonest(d)' BY DEF ReplayInv, CallIsHonest, At
<1>3. \A i \in Key : Live(i)' => Live(i) /\ dir'[i] = dir[i]
  BY DEF Live, ExpiresAt, ReplayInv, ReplayTypeOK
<1>4. \A d \in Consumer, i \in Key : FilledOnce(d, i)'
  BY <1>3 DEF ReplayInv, FilledOnce, Filling, At
<1>5. \A i \in Key : Remembered(i)' BY <1>3 DEF ReplayInv, Remembered
<1> QED BY <1>1, <1>2, <1>4, <1>5 DEF ReplayInv

LEMMA UnlinkStep ==
  ASSUME ReplayInv, NEW c \in Consumer, UnlinkEntry(c)
  PROVE  ReplayInv'
<1>0. ReplayTypeOK /\ CallIsHonest(c) /\ SomeKey \in Key
  BY ReplayAssumption DEF ReplayInv, SomeKey
<1>1. /\ call' \in [Consumer -> Call] /\ call'[c].pc = "scan" /\ call'[c].now = call[c].now
      /\ \A d \in Consumer \ {c} : call'[d] = call[d]
  BY ZenonT(60), <1>0 DEF UnlinkEntry, ReplayTypeOK, Call, Pc
<1>2. CallIsHonest(c)' BY <1>0, <1>1 DEF UnlinkEntry, CallIsHonest, At
<1>3. /\ call[c].victim \in Key /\ call[c].now \in Nat /\ clock \in Nat
      /\ ExpiresAt(call[c].victim) \in Nat
  BY <1>0, ReplayAssumption DEF ReplayTypeOK, Call, ExpiresAt
<1>4. ~Live(call[c].victim)
  BY <1>0, <1>3 DEF UnlinkEntry, Live, CallIsHonest
<1> QED BY Zenon, <1>1, <1>2, <1>3, <1>4, RemovalStep DEF UnlinkEntry

LEMMA UndoStep ==
  ASSUME ReplayInv, NEW c \in Consumer, Undo(c)
  PROVE  ReplayInv'
<1>0. ReplayTypeOK /\ CallIsHonest(c) BY DEF ReplayInv
<1>1. ~Live(call[c].key) /\ call[c].key \in Key
  BY <1>0 DEF Undo, Live, CallIsHonest, ReplayTypeOK, Call
<1>2. /\ call' \in [Consumer -> Call] /\ call'[c].pc = "idle" /\ call'[c].now = 0
      /\ \A d \in Consumer \ {c} : call'[d] = call[d]
  BY <1>0, Returns DEF Undo
<1>3. CallIsHonest(c)' BY <1>0, <1>2 DEF Undo, CallIsHonest, At, ReplayTypeOK
<1> QED BY <1>1, <1>2, <1>3, RemovalStep DEF Undo

\* open(path, "wx") succeeds for one call: the entry was absent, so nobody
\* fills it and nobody was accepted.
LEMMA CreateStep ==
  ASSUME ReplayInv, NEW c \in Consumer, Create(c)
  PROVE  ReplayInv'
<1> DEFINE k == call[c].key
<1>0. ReplayTypeOK /\ CallIsHonest(c) /\ k \in Key BY DEF ReplayInv, ReplayTypeOK, Call
<1>1. UNCHANGED <<clock, accepts, failed>> BY DEF Create
<1>2. CASE Return(c) /\ UNCHANGED dir
  BY <1>0, <1>1, <1>2, Returns, QuietStep DEF CallIsHonest, At, ReplayTypeOK
<1>3. CASE dir[k] = "absent" /\ Goto(c, "write") /\ dir' = [dir EXCEPT ![k] = "empty"]
  <2>1. /\ call' \in [Consumer -> Call] /\ call'[c].pc = "write" /\ call'[c].key = k
        /\ call'[c].now = call[c].now /\ \A d \in Consumer \ {c} : call'[d] = call[d]
    BY <1>0, <1>3, Goes DEF Pc
  <2>2. /\ dir' \in [Key -> {"absent", "empty", "written"}] /\ dir'[k] = "empty"
        /\ \A i \in Key \ {k} : dir'[i] = dir[i]
    BY <1>0, <1>3 DEF ReplayTypeOK
  <2>3. ReplayTypeOK' BY <1>0, <1>1, <2>1, <2>2 DEF ReplayTypeOK
  <2>4. \A d \in Consumer : CallIsHonest(d)' BY <1>1, <2>1 DEF ReplayInv, CallIsHonest, At
  <2>5. \A i \in Key : Live(i)' <=> Live(i) BY <1>1 DEF Live, ExpiresAt
  <2>6. Live(k) => accepts[k] = 0
    BY <1>0, <1>3 DEF ReplayInv, Remembered, ReplayTypeOK
  <2>7. Live(k) => \A d \in Consumer : ~Filling(d, k)
    BY <1>0, <1>3 DEF ReplayInv, FilledOnce
  <2>8. ASSUME NEW d \in Consumer, NEW i \in Key PROVE FilledOnce(d, i)'
    <3>1. CASE i = k
      <4>1. \A b \in Consumer \ {c} : Filling(b, k)' <=> Filling(b, k) BY <2>1 DEF Filling
      <4> QED BY <1>1, <2>1, <2>2, <2>5, <2>6, <2>7, <3>1, <4>1 DEF FilledOnce, At
    <3>2. CASE i # k
      <4>1. \A b \in Consumer : Filling(b, i)' <=> Filling(b, i) BY <2>1, <3>2, <1>3
        DEF Filling, Create, At
      <4>2. FilledOnce(d, i) BY DEF ReplayInv
      <4>3. Filling(d, i) => d # c BY <3>2 DEF Filling
      <4> QED BY <1>1, <2>1, <2>2, <2>5, <3>2, <4>1, <4>2, <4>3 DEF FilledOnce, At
    <3> QED BY <3>1, <3>2
  <2>9. \A i \in Key : Remembered(i)'
    BY <1>1, <2>2, <2>5, <2>6 DEF ReplayInv, Remembered
  <2> QED BY <2>3, <2>4, <2>8, <2>9 DEF ReplayInv
<1> QED BY <1>2, <1>3 DEF Create

\* The handle's entry is written.
LEMMA WriteStep ==
  ASSUME ReplayInv, NEW c \in Consumer, WriteEntry(c)
  PROVE  ReplayInv'
<1> DEFINE k == call[c].key
           written == [dir EXCEPT ![k] = IF @ = "absent" THEN @ ELSE "written"]
<1>0. ReplayTypeOK /\ CallIsHonest(c) /\ k \in Key BY DEF ReplayInv, ReplayTypeOK, Call
<1>1. /\ UNCHANGED <<clock, accepts, failed>> /\ Goto(c, "sync") /\ call[c].pc = "write"
      /\ dir' \in {dir, written} /\ (k \notin failed => dir' = written)
  BY DEF WriteEntry, At
<1>2. /\ call' \in [Consumer -> Call] /\ call'[c].pc = "sync" /\ call'[c].key = k
      /\ call'[c].now = call[c].now /\ \A d \in Consumer \ {c} : call'[d] = call[d]
  BY <1>0, <1>1, Goes DEF Pc
<1>3. /\ dir' \in [Key -> {"absent", "empty", "written"}]
      /\ \A i \in Key \ {k} : dir'[i] = dir[i]
      /\ dir[k] = "written" => dir'[k] = "written"
      /\ k \notin failed /\ dir[k] # "absent" => dir'[k] = "written"
  BY <1>0, <1>1 DEF ReplayTypeOK
<1>4. ReplayTypeOK' BY <1>0, <1>1, <1>2, <1>3 DEF ReplayTypeOK
<1>5. \A d \in Consumer : CallIsHonest(d)' BY <1>1, <1>2 DEF ReplayInv, CallIsHonest, At
<1>6. \A i \in Key : Live(i)' <=> Live(i) BY <1>1 DEF Live, ExpiresAt
<1>7. \A d \in Consumer, i \in Key : Filling(d, i)' <=> Filling(d, i)
  BY <1>1, <1>2 DEF Filling
<1>8. ASSUME NEW d \in Consumer, NEW i \in Key, Live(i), Filling(d, i) PROVE FilledOnce(d, i)'
  <2>1. /\ accepts[i] = 0 /\ dir[i] # "absent" /\ (At(d, "sync") => dir[i] = "written")
        /\ \A b \in Consumer \ {d} : ~Filling(b, i)
    BY <1>8 DEF ReplayInv, FilledOnce
  <2>2. CASE i = k
    BY <1>1, <1>3, <1>7, <1>8, <2>1, <2>2 DEF FilledOnce, Live
  <2>3. CASE i # k
    <3>1. d # c BY <1>8, <2>3 DEF Filling
    <3> QED BY <1>1, <1>2, <1>3, <1>7, <2>1, <2>3, <3>1 DEF FilledOnce, At
  <2> QED BY <2>2, <2>3
<1>9. \A d \in Consumer, i \in Key : FilledOnce(d, i)'
  BY <1>6, <1>7, <1>8 DEF FilledOnce
<1>10. \A i \in Key : Remembered(i)' BY <1>1, <1>3, <1>6 DEF ReplayInv, Remembered
<1> QED BY <1>4, <1>5, <1>9, <1>10 DEF ReplayInv

\* The call is answered: its entry is written, and it was the only one.
LEMMA SyncStep ==
  ASSUME ReplayInv, NEW c \in Consumer, SyncEntry(c)
  PROVE  ReplayInv'
<1> DEFINE k == call[c].key
<1>0. ReplayTypeOK /\ k \in Key BY DEF ReplayInv, ReplayTypeOK, Call
<1>1. UNCHANGED <<clock, dir, failed>> /\ call[c].pc = "sync" /\ Return(c)
  BY DEF SyncEntry, At
<1>2. /\ call' \in [Consumer -> Call] /\ call'[c].pc = "idle" /\ call'[c].now = 0
      /\ \A d \in Consumer \ {c} : call'[d] = call[d]
  BY <1>0, <1>1, Returns
<1>3. accepts' \in [Key -> 0 .. 2] /\ \A i \in Key \ {k} : accepts'[i] = accepts[i]
  BY <1>0 DEF SyncEntry, ReplayTypeOK
<1>4. ReplayTypeOK' BY <1>0, <1>1, <1>2, <1>3 DEF ReplayTypeOK
<1>5. \A d \in Consumer : CallIsHonest(d)'
  BY <1>0, <1>1, <1>2 DEF ReplayInv, CallIsHonest, At, ReplayTypeOK
<1>6. \A i \in Key : Live(i)' <=> Live(i) BY <1>1 DEF Live, ExpiresAt
<1>7. Filling(c, k) BY <1>1 DEF Filling
<1>8. Live(k) => dir[k] = "written" /\ \A d \in Consumer \ {c} : ~Filling(d, k)
  BY <1>0, <1>1, <1>7 DEF ReplayInv, FilledOnce, At
<1>9. \A d \in Consumer, i \in Key : Filling(d, i)' => Filling(d, i) /\ d # c
  BY <1>2 DEF Filling
<1>10. \A d \in Consumer, i \in Key : FilledOnce(d, i)'
  BY <1>1, <1>2, <1>3, <1>6, <1>8, <1>9 DEF ReplayInv, FilledOnce, At
<1>11. \A i \in Key : Remembered(i)' BY <1>1, <1>3, <1>6, <1>8 DEF ReplayInv, Remembered
<1> QED BY <1>4, <1>5, <1>10, <1>11 DEF ReplayInv

\* An error: the nonce is live no more.
LEMMA FailStep ==
  ASSUME ReplayInv, NEW c \in Consumer, StoreFails(c)
  PROVE  ReplayInv'
<1>0. ReplayTypeOK /\ CallIsHonest(c) BY DEF ReplayInv
<1>1. /\ UNCHANGED <<clock, dir, accepts>> /\ Goto(c, "undo")
      /\ failed' = failed \cup {call[c].key}
  BY DEF StoreFails
<1>2. /\ call' \in [Consumer -> Call] /\ call'[c].pc = "undo" /\ call'[c].key = call[c].key
      /\ call'[c].now = call[c].now /\ \A d \in Consumer \ {c} : call'[d] = call[d]
  BY <1>0, <1>1, Goes DEF Pc
<1>3. ReplayTypeOK' BY <1>0, <1>1, <1>2 DEF ReplayTypeOK, Call
<1>4. \A d \in Consumer : CallIsHonest(d)' BY <1>1, <1>2 DEF ReplayInv, CallIsHonest, At
<1>5. \A i \in Key : Live(i)' => Live(i) BY <1>1 DEF Live, ExpiresAt
<1>6. \A d \in Consumer, i \in Key : Filling(d, i)' => Filling(d, i) /\ d # c
  BY <1>2 DEF Filling
<1>7. \A d \in Consumer, i \in Key : FilledOnce(d, i)'
  BY <1>1, <1>2, <1>5, <1>6 DEF ReplayInv, FilledOnce, At
<1>8. \A i \in Key : Remembered(i)' BY <1>1, <1>5 DEF ReplayInv, Remembered
<1> QED BY <1>3, <1>4, <1>7, <1>8 DEF ReplayInv

\* Time only takes life.
LEMMA TickStep == ASSUME ReplayInv, Tick PROVE ReplayInv'
<1>0. ReplayTypeOK BY DEF ReplayInv
<1>1. /\ clock' = clock + 1 /\ clock \in Nat /\ UNCHANGED <<dir, call, accepts, failed>>
  BY <1>0 DEF Tick, ReplayTypeOK
<1>2. ReplayTypeOK' BY <1>0, <1>1 DEF ReplayTypeOK
<1>3. \A c \in Consumer : call[c].now \in Nat BY <1>0 DEF ReplayTypeOK, Call
<1>4. \A c \in Consumer : CallIsHonest(c)'
  BY <1>1, <1>3 DEF ReplayInv, CallIsHonest, At, ExpiresAt
<1>5. \A i \in Key : ExpiresAt(i) \in Nat BY ReplayAssumption DEF ExpiresAt
<1>6. \A i \in Key : Live(i)' => Live(i) BY <1>1, <1>5 DEF Live, ExpiresAt
<1>7. \A d \in Consumer, i \in Key : FilledOnce(d, i)'
  BY <1>1, <1>6 DEF ReplayInv, FilledOnce, Filling, At
<1>8. \A i \in Key : Remembered(i)' BY <1>1, <1>6 DEF ReplayInv, Remembered
<1> QED BY <1>2, <1>4, <1>7, <1>8 DEF ReplayInv

\* ReplayInv is preserved by every step.
LEMMA ReplayStep == ASSUME ReplayInv, [Next]_vars PROVE ReplayInv'
<1>1. CASE Tick BY <1>1, TickStep
<1>2. CASE \E c \in Consumer : \/ \E k \in Key : VerifyIncoming(c, k)
                               \/ ListEntries(c) \/ ScanEntry(c) \/ Recheck(c) \/ CrashCall(c)
  BY <1>2, ReadingStep
<1>3. CASE \E c \in Consumer : UnlinkEntry(c) \/ Undo(c) BY <1>3, UnlinkStep, UndoStep
<1>4. CASE \E c \in Consumer : Create(c) \/ WriteEntry(c) \/ SyncEntry(c) \/ StoreFails(c)
  BY <1>4, CreateStep, WriteStep, SyncStep, FailStep
<1>5. CASE UNCHANGED vars
  BY <1>5 DEF vars, ReplayInv, ReplayTypeOK, CallIsHonest, FilledOnce, Filling, Remembered,
              Live, ExpiresAt, At
<1> QED BY <1>1, <1>2, <1>3, <1>4, <1>5 DEF Next

\* ReplayInv is an invariant of the directory and the calls on it.
THEOREM ReplayInvariant == Spec => []ReplayInv
BY ReplayInit, ReplayStep, PTL DEF Spec

\* No cleanup of any concurrent consume removes the entry of an accepted
\* request before the request expires.
THEOREM AcceptedStaysRemembered == Spec => []AcceptedIsRemembered
<1>1. ReplayInv => AcceptedIsRemembered
  BY DEF ReplayInv, Remembered, Live, AcceptedIsRemembered
<1> QED BY <1>1, ReplayInvariant, PTL

\* verifyIncoming accepts a nonce at most once while it can be replayed, for any
\* number of calls that pass every check before the first creates the entry.
THEOREM NonceIsAcceptedOnce == Spec => AcceptedOnce
<1>1. ReplayInv /\ [Next]_vars =>
         [\A k \in Key : accepts[k] > 0 /\ accepts'[k] > accepts[k]
                            => clock >= ExpiresAt(k) \/ k \in failed]_vars
  <2> SUFFICES ASSUME ReplayInv, Next, NEW k \in Key, accepts[k] > 0, accepts'[k] > accepts[k],
                      k \notin failed
               PROVE  clock >= ExpiresAt(k)
    BY DEF vars
  <2>1. accepts[k] \in 0 .. 2 /\ clock \in Nat /\ ExpiresAt(k) \in Nat
    BY ReplayAssumption DEF ReplayInv, ReplayTypeOK, ExpiresAt
  <2>2. accepts' # accepts BY <2>1
  <2>3. PICK c \in Consumer : SyncEntry(c)
    BY Zenon, <2>2 DEF Next, Tick, VerifyIncoming, ListEntries, ScanEntry, UnlinkEntry, Recheck, Create,
                WriteEntry, StoreFails, Undo, CrashCall
  <2>4. k = call[c].key BY <2>1, <2>3 DEF SyncEntry, ReplayInv, ReplayTypeOK
  <2>5. Filling(c, k) BY <2>3, <2>4 DEF SyncEntry, At, Filling
  <2>6. ~Live(k) BY <2>1, <2>5 DEF ReplayInv, FilledOnce
  <2> QED BY <2>1, <2>6 DEF Live
<1> QED BY <1>1, ReplayInvariant, PTL DEF Spec, AcceptedOnce
-----------------------------------------------------------------------------
(* The capacity *)

Creating == {c \in Consumer : At(c, "create")}

\* Both sets can be counted, before and after a step.
LEMMA Countable ==
  /\ IsFiniteSet(Entries) /\ Cardinality(Entries) \in Nat
  /\ IsFiniteSet(Creating) /\ Cardinality(Creating) \in Nat
  /\ Cardinality(Consumer) \in Nat /\ Cardinality(Creating) <= Cardinality(Consumer)
<1>1. Entries \in SUBSET Key /\ Creating \in SUBSET Consumer BY DEF Entries, Creating
<1>2. IsFiniteSet(Key) /\ IsFiniteSet(Consumer) BY ReplayAssumption
<1>3. IsFiniteSet(Entries) /\ IsFiniteSet(Creating)
      /\ Cardinality(Creating) <= Cardinality(Consumer)
  BY <1>1, <1>2, FS_Subset
<1> QED BY <1>2, <1>3, FS_CardinalityType

\* The arithmetic of the next lemma.
LEMMA Sums ==
  ASSUME NEW e \in Nat, NEW n \in Nat, NEW e2 \in Nat, NEW n2 \in Nat, NEW all \in Nat,
         NEW max \in Nat, e + n < max + all, n2 <= all,
         \/ e2 <= e /\ n2 <= n
         \/ e2 = e /\ e < max
         \/ e2 \in {e, e + 1} /\ n2 = n - 1
  PROVE  e2 + n2 < max + all
OBVIOUS

\* The three things a step can do to the capacity.
LEMMA Overshoot ==
  ASSUME BoundedOvershoot,
         \/ Entries' \subseteq Entries /\ Creating' \subseteq Creating
         \/ Entries' = Entries /\ Cardinality(Entries) < MaxEntries
         \/ \E k \in Key, c \in Creating :
               Entries' = Entries \cup {k} /\ Creating' = Creating \ {c}
  PROVE  BoundedOvershoot'
<1> DEFINE e  == Cardinality(Entries)
           e2 == Cardinality(Entries')
           n  == Cardinality(Creating)
           n2 == Cardinality(Creating')
           all == Cardinality(Consumer)
<1>1. /\ e \in Nat /\ n \in Nat /\ all \in Nat
      /\ IsFiniteSet(Entries) /\ IsFiniteSet(Creating)
  BY Countable
<1>2. e2 \in Nat /\ n2 \in Nat /\ n2 <= all
  <2>1. Entries' \in SUBSET Key /\ Creating' \in SUBSET Consumer BY DEF Entries, Creating
  <2>2. IsFiniteSet(Key) /\ IsFiniteSet(Consumer) BY ReplayAssumption
  <2>3. IsFiniteSet(Entries') /\ IsFiniteSet(Creating') /\ n2 <= all
    BY <2>1, <2>2, FS_Subset
  <2> QED BY <2>3, FS_CardinalityType
<1>3. e + n < MaxEntries + all BY DEF BoundedOvershoot, Creating
<1>4. MaxEntries \in Nat BY ReplayAssumption
<1>5. \/ e2 <= e /\ n2 <= n
      \/ e2 = e /\ e < MaxEntries
      \/ e2 \in {e, e + 1} /\ n2 = n - 1
  <2>1. CASE Entries' \subseteq Entries /\ Creating' \subseteq Creating
    BY <1>1, <2>1, FS_Subset
  <2>2. CASE Entries' = Entries /\ Cardinality(Entries) < MaxEntries BY <2>2
  <2>3. CASE \E k \in Key, c \in Creating :
                Entries' = Entries \cup {k} /\ Creating' = Creating \ {c}
    <3>1. PICK k \in Key, c \in Creating :
                Entries' = Entries \cup {k} /\ Creating' = Creating \ {c}
      BY <2>3
    <3>2. e2 \in {e, e + 1} BY Zenon, <1>1, <3>1, FS_AddElement
    <3>3. n2 = n - 1 BY Zenon, <1>1, <3>1, FS_RemoveElement
    <3> QED BY <3>2, <3>3
  <2> QED BY <2>1, <2>2, <2>3
<1>6. e2 + n2 < MaxEntries + all
  <2> HIDE DEF e, e2, n, n2, all
  <2> QED BY <1>1, <1>2, <1>3, <1>4, <1>5, Sums
<1> QED BY <1>6 DEF BoundedOvershoot, Creating

\* A call that moves anywhere but to the create makes no more creators.
LEMMA NoNewCreator ==
  ASSUME NEW c \in Consumer, \A d \in Consumer \ {c} : call'[d] = call[d],
         call'[c].pc # "create"
  PROVE  Creating' = Creating \ {c}
BY DEF Creating, At

\* Every step does one of the three.
LEMMA OvershootStep ==
  ASSUME ReplayTypeOK, BoundedOvershoot, Next
  PROVE  BoundedOvershoot'
<1>1. CASE Tick
  BY <1>1, Overshoot DEF Tick, Entries, Creating, At
<1>2. ASSUME NEW c \in Consumer, ListEntries(c) \/ Recheck(c) PROVE BoundedOvershoot'
  <2>1. Entries' = Entries BY <1>2 DEF ListEntries, Recheck, Entries
  <2>2. CASE Cardinality(Entries) < MaxEntries BY <2>1, <2>2, Overshoot
  <2>3. CASE ~(Cardinality(Entries) < MaxEntries)
    <3>1. Cardinality(Entries) >= MaxEntries
      BY <2>3, Countable, ReplayAssumption
    <3>2. call'[c].pc # "create" /\ \A d \in Consumer \ {c} : call'[d] = call[d]
      <4>1. CASE Recheck(c) BY <3>1, <4>1, Returns DEF Recheck
      <4>2. CASE ListEntries(c)
        BY <2>3, <4>2 DEF ListEntries, ReplayTypeOK, Call
      <4> QED BY <1>2, <4>1, <4>2
    <3> QED BY <2>1, <3>2, NoNewCreator, Overshoot
  <2> QED BY <2>2, <2>3
<1>3. ASSUME NEW c \in Consumer, Create(c) PROVE BoundedOvershoot'
  <2> DEFINE k == call[c].key
  <2>1. k \in Key /\ c \in Creating BY <1>3 DEF ReplayTypeOK, Call, Create, Creating, At
  <2>2. CASE Return(c) /\ UNCHANGED dir
    <3>1. Creating' = Creating \ {c} BY <2>2, Returns, NoNewCreator
    <3> QED BY <2>2, <3>1, Overshoot DEF Entries
  <2>3. CASE Goto(c, "write") /\ dir' = [dir EXCEPT ![k] = "empty"]
    <3>1. Creating' = Creating \ {c} BY <2>3, Goes, NoNewCreator DEF Pc
    <3>2. Entries' = Entries \cup {k} BY <2>1, <2>3 DEF Entries, ReplayTypeOK
    <3> QED BY <2>1, <3>1, <3>2, Overshoot
  <2> QED BY <1>3, <2>2, <2>3 DEF Create
<1>4. ASSUME NEW c \in Consumer,
             \/ \E k \in Key : VerifyIncoming(c, k)
             \/ ScanEntry(c) \/ UnlinkEntry(c) \/ WriteEntry(c) \/ SyncEntry(c)
             \/ StoreFails(c) \/ Undo(c) \/ CrashCall(c)
      PROVE  BoundedOvershoot'
  <2>1. Entries' \subseteq Entries
    BY Zenon, <1>4 DEF VerifyIncoming, ScanEntry, UnlinkEntry, WriteEntry, SyncEntry, StoreFails, Undo,
                CrashCall, Entries, ReplayTypeOK
  <2>2. call'[c].pc # "create" /\ \A d \in Consumer \ {c} : call'[d] = call[d]
    <3>1. CASE WriteEntry(c) \/ SyncEntry(c) \/ StoreFails(c) \/ Undo(c) \/ CrashCall(c)
      BY <3>1, Goes, Returns DEF WriteEntry, SyncEntry, StoreFails, Undo, CrashCall, Pc
    <3>2. CASE \E k \in Key : VerifyIncoming(c, k)
      BY <3>2, IdleIsCall DEF VerifyIncoming, ReplayTypeOK, Call
    <3>3. CASE ScanEntry(c)
      <4>1. CASE Goto(c, "recheck") BY <4>1, Goes DEF Pc
      <4>2. CASE \E k \in call[c].todo : call' = [call EXCEPT ![c].pc = "unlink",
                                                    ![c].todo = @ \ {k}, ![c].victim = k]
        BY <4>2 DEF ReplayTypeOK, Call
      <4>3. CASE \E k \in call[c].todo : call' = [call EXCEPT ![c].todo = @ \ {k}]
        BY ZenonT(60), <3>3, <4>3 DEF ScanEntry, At, ReplayTypeOK, Call
      <4> QED BY Zenon, <3>3, <4>1, <4>2, <4>3 DEF ScanEntry
    <3>4. CASE UnlinkEntry(c) BY <3>4 DEF UnlinkEntry, ReplayTypeOK, Call
    <3> QED BY <1>4, <3>1, <3>2, <3>3, <3>4
  <2> QED BY <2>1, <2>2, NoNewCreator, Overshoot
<1> QED BY <1>1, <1>2, <1>3, <1>4 DEF Next

\* The directory exceeds maxEntries by fewer entries than there are concurrent
\* calls, although consume checks the capacity and creates the entry in
\* separate steps.
THEOREM OvershootIsBounded == Spec => []BoundedOvershoot
<1>1. Init => BoundedOvershoot
  <2> SUFFICES ASSUME Init PROVE BoundedOvershoot OBVIOUS
  <2>1. Entries = {} BY DEF Init, Entries
  <2>2. Creating = {} BY IdleIsCall DEF Init, Creating, At
  <2>3. Cardinality({}) = 0 BY FS_EmptySet
  <2>4. Cardinality(Consumer) \in Nat BY Countable
  <2> QED BY <2>1, <2>2, <2>3, <2>4, ReplayAssumption DEF BoundedOvershoot, Creating
<1>2. ReplayInv /\ BoundedOvershoot /\ [Next]_vars => BoundedOvershoot'
  <2>1. BoundedOvershoot /\ UNCHANGED vars => BoundedOvershoot'
    BY DEF vars, BoundedOvershoot, Entries, At
  <2> QED BY <2>1, OvershootStep DEF ReplayInv
<1> QED BY <1>1, <1>2, ReplayInvariant, PTL DEF Spec
=============================================================================

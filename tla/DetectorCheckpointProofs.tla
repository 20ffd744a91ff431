----------------------- MODULE DetectorCheckpointProofs -----------------------
(***************************************************************************)
(* Proofs about DetectorCheckpoint for every set of fixes, devices and     *)
(* sessions, every margin longer than the longest ingest transaction, and  *)
(* without the bounds of the model checker having any part in them.        *)
(***************************************************************************)
EXTENDS DetectorCheckpoint, TLAPS

\* The types the arguments below need.
Shape ==
    /\ clock \in Nat
    /\ fix \in [Fix -> {"unsent", "open", "stored"}]
    /\ received \in [Fix -> Int]
    /\ lastRun \in [Device -> Int]
    /\ pc \in [Session -> {"idle", "looked", "asked", "queued", "inside", "loaded"}]
    /\ dev \in [Session -> Device \cup {0}]
    /\ \A p \in Session : pc[p] # "idle" => dev[p] \in Device
    /\ began \in [Session -> Int]
    /\ dirty \in [Session -> SUBSET Fix]
    /\ seen \in [Session -> Int]
    /\ edits \in [Device -> Int] /\ shown \in [Device -> Int]

\* No transaction begins in the future, an open ingest is a recent one, and a
\* checkpoint stays a margin behind the clock.
Times ==
    /\ \A d \in Device : lastRun[d] <= clock - Margin
    /\ \A p \in Session : began[p] <= clock
    /\ \A f \in Fix : fix[f] = "open" => clock - received[f] <= MaxIngest

\* What a session has loaded covers its device: everything stored by then, and
\* whatever is stored since is young enough for the margin.
LoadCovers ==
    \A p \in Session, f \in Fix :
        /\ pc[p] = "loaded" /\ fix[f] = "stored" /\ StreamOf[f] = dev[p]
        => f \in dirty[p] \/ f \in served \/ received[f] > began[p] - Margin

\* The overrides in a run's memory are still the newest ones.
LoadIsFresh == \A p \in Session : pc[p] = "loaded" => seen[p] = edits[dev[p]]

\* The inductive invariant: none of the three safety properties is inductive
\* without what the clock and the locks say about the sessions in flight.
IInv == Shape /\ Times /\ OneWriter /\ LoadCovers /\ LoadIsFresh /\ NoFixLost /\ EditsSurvive

\* An empty store, idle sessions and a checkpoint before every fix satisfy it.
LEMMA InitIInv == Init => IInv
  BY MarginAssumption, DeviceAssumption
     DEF Init, IInv, Shape, Times, OneWriter, LoadCovers, LoadIsFresh, NoFixLost, EditsSurvive,
         Inside, Queued, Never

\* The end of a session's transaction disturbs nothing but that session.
LEMMA IdleKeepsShape ==
    ASSUME Shape, NEW p, Idle(p), UNCHANGED <<clock, fix, received, lastRun, edits, shown>>
    PROVE  Shape'
<1>1. pc' \in [Session -> {"idle", "looked", "asked", "queued", "inside", "loaded"}]
  BY DEF Shape, Idle
<1>2. dev' \in [Session -> Device \cup {0}]
  BY DEF Shape, Idle
<1>3. dirty' \in [Session -> SUBSET Fix]
  BY DEF Shape, Idle
<1>4. 0 \in Int
  OBVIOUS
<1>5. began' \in [Session -> Int] /\ seen' \in [Session -> Int]
  BY <1>4, Zenon DEF Shape, Idle
<1>6. \A q \in Session : pc'[q] # "idle" => dev'[q] \in Device
  BY DEF Shape, Idle
<1> QED
  BY <1>1, <1>2, <1>3, <1>5, <1>6 DEF Shape

\* A fix that is still open is younger than the checkpoint of its device.
LEMMA OpenIsNew ==
    ASSUME Shape, Times, NEW f \in Fix, fix[f] = "open"
    PROVE  received[f] > lastRun[StreamOf[f]]
<1>1. StreamOf[f] \in Device
  BY DeviceAssumption
<1>2. received[f] \in Int /\ clock \in Int
  BY DEF Shape
<1>3. lastRun[StreamOf[f]] \in Int
  BY <1>1 DEF Shape
<1>4. lastRun[StreamOf[f]] <= clock - Margin /\ clock - received[f] <= MaxIngest
  BY <1>1 DEF Times
<1> QED
  BY <1>2, <1>3, <1>4, MarginAssumption

\* Every step of a session, of the phone, of the old release and of the
\* operator keeps the inductive invariant.
LEMMA NextIInv == IInv /\ [Next]_vars => IInv'
<1> SUFFICES ASSUME IInv, [Next]_vars PROVE IInv'
  OBVIOUS
<1> USE MarginAssumption, DeviceAssumption DEF IInv, Shape, Times, OneWriter, LoadCovers,
    LoadIsFresh, NoFixLost, EditsSurvive, Inside, Queued, vars, stream, checkpoint, session,
    turnMemory, output, bounds
<1>1. CASE Tick
  BY <1>1 DEF Tick
<1>2. CASE \E f \in Fix : OpenIngest(f)
  BY <1>2 DEF OpenIngest
<1>3. CASE \E f \in Fix : \E outcome \in {"stored", "unsent"} : EndIngest(f, outcome)
  <2> PICK f \in Fix, outcome \in {"stored", "unsent"} : EndIngest(f, outcome)
    BY <1>3
  <2> USE DEF EndIngest
  <2>1. Shape' /\ Times' /\ OneWriter' /\ LoadIsFresh' /\ EditsSurvive'
    OBVIOUS
  <2>2. ASSUME NEW p \in Session, NEW g \in Fix, pc[p] = "loaded", fix'[g] = "stored",
               StreamOf[g] = dev[p]
        PROVE  g \in dirty[p] \/ g \in served \/ received'[g] > began[p] - Margin
    <3>1. CASE g = f
      \* The transaction of f was open until now: it is younger than the margin.
      <4>1. outcome = "stored" /\ received'[f] = received[f] /\ fix[f] = "open"
        BY <2>2, <3>1
      <4>2. began[p] <= clock /\ clock - received[f] <= MaxIngest
        BY <4>1
      <4> QED BY <3>1, <4>1, <4>2
    <3>2. CASE g # f
      BY <2>2, <3>2
    <3> QED BY <3>1, <3>2
  <2>3. LoadCovers'
    BY <2>2
  <2>4. NoFixLost'
    \* When f is committed it is younger than any checkpoint of its device.
    BY OpenIsNew
  <2> QED BY <2>1, <2>3, <2>4
<1>4. CASE \E S \in SUBSET Device : SetEnabled(S)
  BY <1>4 DEF SetEnabled
<1>5. CASE LegacyAsks \/ LegacyLocks \/ LegacyEnds
  BY <1>5 DEF LegacyAsks, LegacyLocks, LegacyEnds
<1>6. CASE \E p \in Session, d \in Device : Ask(p, d)
  BY <1>6 DEF Ask
<1>7. CASE \E p \in Session : GetGlobalKey(p)
  BY <1>7 DEF GetGlobalKey, ShareFree
<1>8. CASE \E p \in Session : GetAccountKey(p)
  BY <1>8 DEF GetAccountKey, AccountKeyFree, Idle
<1>9. CASE \E p \in Session : Load(p)
  <2> PICK p \in Session : Load(p)
    BY <1>9
  <2> USE DEF Load
  <2>0. dev[p] \in Device
    OBVIOUS
  <2>1. Dirty(p) \subseteq Fix
    BY DEF Dirty, New, Stored
  <2>2. Shape' /\ Times' /\ OneWriter' /\ NoFixLost' /\ EditsSurvive'
    BY <2>0, <2>1
  <2>3. LoadIsFresh'
    OBVIOUS
  <2>4. \A f \in Fix : fix[f] = "stored" /\ StreamOf[f] = dev[p] => f \in Dirty(p) \/ f \in served
    BY <2>0 DEF Dirty, New, Stored
  <2>5. LoadCovers'
    BY <2>4
  <2> QED BY <2>2, <2>3, <2>5
<1>10. CASE \E p \in Session : NothingPending(p)
  BY <1>10 DEF NothingPending, Idle
<1>11. CASE \E p \in Session : Commit(p)
  <2> PICK p \in Session : Commit(p)
    BY <1>11
  <2> USE DEF Commit, Idle, RunStarted
  <2>0. dev[p] \in Device /\ \A q \in Session : pc[q] = "loaded" => q = p
    OBVIOUS
  <2>1. OneWriter' /\ Times'
    BY <2>0
  <2>2. LoadCovers' /\ LoadIsFresh'
    BY <2>0
  <2>5. Shape'
    <3>1. edits' \in [Device -> Int] /\ shown' \in [Device -> Int]
      <4>1. edits[dev[p]] + 1 \in Int /\ edits[dev[p]] + 0 \in Int
        BY <2>0
      <4>2. seen[p] + 1 \in Int /\ seen[p] + 0 \in Int
        OBVIOUS
      <4>3. CASE p = "editor"
        BY <4>1, <4>2, <4>3, <2>0
      <4>4. CASE p # "editor"
        BY <4>1, <4>2, <4>4, <2>0
      <4> QED BY <4>3, <4>4
    <3>2. lastRun' \in [Device -> Int]
      BY <2>0
    <3>3. pc' \in [Session -> {"idle", "looked", "asked", "queued", "inside", "loaded"}]
      OBVIOUS
    <3>4. dev' \in [Session -> Device \cup {0}] /\ began' \in [Session -> Int]
      OBVIOUS
    <3>5. dirty' \in [Session -> SUBSET Fix] /\ seen' \in [Session -> Int]
      OBVIOUS
    <3>6. \A q \in Session : pc'[q] # "idle" => dev'[q] \in Device
      OBVIOUS
    <3>7. clock' \in Nat /\ UNCHANGED <<fix, received>>
      OBVIOUS
    <3> QED BY <3>1, <3>2, <3>3, <3>4, <3>5, <3>6, <3>7
  <2>3. EditsSurvive'
    BY <2>0
  <2>4. NoFixLost'
    <3>1. CASE p = "editor"
      BY <3>1
    <3>2. CASE p # "editor"
      \* Only the checkpoint of dev[p] moves, and everything stored for it is covered.
      <4>1. lastRun' = [lastRun EXCEPT ![dev[p]] = began[p] - Margin]
        BY <3>2
      <4>2. current' = current \cup {dev[p]} /\ served' = served \cup dirty[p]
        BY <3>2
      <4>3. UNCHANGED <<fix, received>> /\ pc[p] = "loaded"
        OBVIOUS
      <4>4. ASSUME NEW f \in Fix, fix[f] = "stored", StreamOf[f] = dev[p]
            PROVE  f \in served' \/ received[f] > began[p] - Margin
        BY <4>2, <4>3, <4>4
      <4>5. ASSUME NEW f \in Fix, fix[f] = "stored", StreamOf[f] # dev[p]
            PROVE  f \in served' \/ received[f] > lastRun'[StreamOf[f]] \/ StreamOf[f] \notin current'
        BY <4>1, <4>2, <4>5, <2>0
      <4> QED BY <4>1, <4>3, <4>4, <4>5, <2>0
    <3> QED BY <3>1, <3>2
  <2> QED BY <2>1, <2>2, <2>3, <2>4, <2>5
<1>12. CASE \E p \in Session : Fail(p)
  BY <1>12 DEF Fail, Idle, TurnDone
<1>13. CASE \E d \in Device : Look(d)
  <2> PICK d \in Device : Look(d)
    BY <1>13
  <2> USE DEF Look
  <2>1. Shape'
    OBVIOUS
  <2>2. Times' /\ OneWriter' /\ NoFixLost' /\ EditsSurvive'
    OBVIOUS
  <2>3. LoadCovers' /\ LoadIsFresh'
    OBVIOUS
  <2> QED BY <2>1, <2>2, <2>3
<1>14. CASE (\E d \in Device : RecheckDue(d)) \/ EndRound
  BY <1>14 DEF RecheckDue, EndRound
<1>15. CASE TryLock
  BY <1>15 DEF TryLock, ShareFree, AccountKeyFree, Idle
<1>16. CASE Defer
  <2>0. /\ Idle("turn")
        /\ UNCHANGED <<clock, fix, received, lastRun, current, legacy, edits, shown, served>>
    BY <1>16 DEF Defer
  <2>1. Shape'
    BY <2>0, IdleKeepsShape
  <2>2. Times' /\ OneWriter' /\ NoFixLost' /\ EditsSurvive'
    BY <2>0 DEF Idle
  <2>3. LoadCovers' /\ LoadIsFresh'
    BY <2>0 DEF Idle
  <2> QED BY <2>1, <2>2, <2>3
<1>17. CASE \E upgraded \in BOOLEAN : Restart(upgraded)
  BY <1>17 DEF Restart
<1>18. CASE UNCHANGED vars
  BY <1>18
<1> QED
  BY <1>1, <1>2, <1>3, <1>4, <1>5, <1>6, <1>7, <1>8, <1>9, <1>10, <1>11, <1>12, <1>13, <1>14,
     <1>15, <1>16, <1>17, <1>18 DEF Next

\* The facts about locks, times, loads and edits hold together in every state.
THEOREM Invariance == Spec => []IInv
<1>1. IInv /\ [Next]_vars => IInv'
  BY NextIInv
<1> QED
  BY InitIInv, <1>1, PTL DEF Spec

\* No fix is ever skipped by the checkpoints, as long as the margin is longer than
\* every ingest transaction (_run, RUN_OVERLAP_MARGIN).
THEOREM FixesKept == Spec => []NoFixLost
<1>1. IInv => NoFixLost
  BY DEF IInv
<1> QED
  BY Invariance, <1>1, PTL

\* lock_detector and try_lock_detector admit one session of the account at a time,
\* and none beside an exclusive holder of the global key.
THEOREM Exclusion == Spec => []OneWriter
<1>1. IInv => OneWriter
  BY DEF IInv
<1> QED
  BY Invariance, <1>1, PTL

\* The trips of a device reflect every committed merge and split, although a run
\* keeps its overrides in memory while detect() runs in a thread.
THEOREM EditsKept == Spec => []EditsSurvive
<1>1. IInv => EditsSurvive
  BY DEF IInv
<1> QED
  BY Invariance, <1>1, PTL
=============================================================================

-------------------------- MODULE DetectorCheckpoint --------------------------
(***************************************************************************)
(* Which fixes the detector has to look at: the checkpoint of every        *)
(* tracking device (detector_state.last_run_at and detector_version) of    *)
(* one account, and the locks of app/detector/lock.py that serialize the   *)
(* transactions that read and rewrite its stays and trips.                 *)
(*                                                                         *)
(* Time is the database clock in units of the overlap margin's fraction    *)
(* Margin: a row carries the start time of its transaction, and is visible *)
(* from its commit on.  pc[p] is where session p is:                       *)
(*   "idle"                                                                *)
(*   "looked"  the background turn chose a device, its own transaction     *)
(*             has not begun                                               *)
(*   "asked"   waiting for the global key, shared                          *)
(*   "queued"  holds the global key, waiting for the account's key         *)
(*   "inside"  holds both: DetectorRunner's reads and writes               *)
(*   "loaded"  the points and overrides were read, detect() runs in its    *)
(*             thread while the event loop serves everybody else           *)
(***************************************************************************)
EXTENDS Integers, FiniteSets, FiniteSetsExt

CONSTANTS
    Fix,
    Session,            \* "turn": the background turn; "operator": the reprocess
                        \* command; "editor": the merge and split endpoints
    Device,             \* ids, in the order a round visits them
    StreamOf,           \* [Fix -> Device]
    Margin,             \* RUN_OVERLAP_MARGIN
    MaxIngest,          \* longest ingest transaction
    TurnMaxPoints,      \* DETECTOR_TURN_MAX_POINTS
    MaxClock, MaxEdits, MaxUpgrades, MaxRestarts    \* bounds

\* The margin covers the longest ingest transaction, which nothing else enforces.
ASSUME MarginAssumption == Margin \in Nat /\ MaxIngest \in Nat /\ MaxIngest < Margin
ASSUME SessionAssumption == Session \subseteq {"turn", "operator", "editor"}
ASSUME DeviceAssumption == Device \subseteq Nat \ {0} /\ StreamOf \in [Fix -> Device]

Never == -Margin - 1    \* last_run_at IS NULL

VARIABLES
    clock,
    fix, received,      \* "unsent", "open" or "stored", and received_at
    lastRun, current,   \* detector_state: last_run_at; devices at DETECTOR_VERSION
    enabled,            \* tracking_devices.enabled and not revoked
    pc, dev,            \* sessions, and the device each works on (0: none)
    began, dirty, seen, \* now() of the transaction; what it has to process; the
                        \* overrides it read
    legacy,             \* an exclusive holder of the global key: "out", "waiting", "holding"
    cursor, deferral,   \* the round of the background turn, and DetectorDeferrals
    edits, shown,       \* per device: committed edits; those its trips reflect
    served,             \* history: fixes inside the window of a committed run
    upgrades, restarts

stream == <<fix, received>>
checkpoint == <<lastRun, current>>
session == <<pc, dev, began, dirty, seen>>
turnMemory == <<cursor, deferral>>
output == <<edits, shown, served>>
bounds == <<upgrades, restarts>>
vars == <<clock, stream, checkpoint, enabled, session, legacy, turnMemory, output, bounds>>

NotDeferred == [at |-> Never - 1, due |-> TRUE]

TypeOK ==
    /\ clock \in 0 .. MaxClock
    /\ fix \in [Fix -> {"unsent", "open", "stored"}]
    /\ received \in [Fix -> 0 .. MaxClock]
    /\ lastRun \in [Device -> Never .. MaxClock]
    /\ current \subseteq Device /\ enabled \subseteq Device
    /\ pc \in [Session -> {"idle", "looked", "asked", "queued", "inside", "loaded"}]
    /\ dev \in [Session -> Device \cup {0}]
    /\ began \in [Session -> 0 .. MaxClock]
    /\ dirty \in [Session -> SUBSET Fix]
    /\ seen \in [Session -> 0 .. MaxEdits]
    /\ legacy \in {"out", "waiting", "holding"}
    /\ cursor \in Device \cup {0}
    /\ deferral \in [Device -> [at : Never - 1 .. MaxClock, due : BOOLEAN]]
    /\ edits \in [Device -> 0 .. MaxEdits] /\ shown \in [Device -> 0 .. MaxEdits]
    /\ served \subseteq Fix

Init ==
    /\ clock = Margin
    /\ fix = [f \in Fix |-> "unsent"] /\ received = [f \in Fix |-> 0]
    /\ lastRun = [d \in Device |-> Never] /\ current = {}
    /\ enabled = Device
    /\ pc = [p \in Session |-> "idle"] /\ dev = [p \in Session |-> 0]
    /\ began = [p \in Session |-> 0] /\ dirty = [p \in Session |-> {}]
    /\ seen = [p \in Session |-> 0]
    /\ legacy = "out"
    /\ cursor = 0 /\ deferral = [d \in Device |-> NotDeferred]
    /\ edits = [d \in Device |-> 0] /\ shown = [d \in Device |-> 0]
    /\ served = {}
    /\ upgrades = 0 /\ restarts = 0

-----------------------------------------------------------------------------
(* Ingest and the clock.                                                   *)

Tick ==
    /\ clock < MaxClock
    /\ \A f \in Fix : fix[f] = "open" => clock + 1 - received[f] <= MaxIngest
    /\ clock' = clock + 1
    /\ UNCHANGED <<stream, checkpoint, enabled, session, legacy, turnMemory, output, bounds>>

OpenIngest(f) ==
    /\ fix[f] = "unsent" /\ StreamOf[f] \in enabled
    /\ fix' = [fix EXCEPT ![f] = "open"]
    /\ received' = [received EXCEPT ![f] = clock]
    /\ UNCHANGED <<clock, checkpoint, enabled, session, legacy, turnMemory, output, bounds>>

\* An aborted request is sent again by the phone, in a later transaction.
EndIngest(f, outcome) ==
    /\ fix[f] = "open"
    /\ fix' = [fix EXCEPT ![f] = outcome]
    /\ received' = IF outcome = "stored" THEN received ELSE [received EXCEPT ![f] = 0]
    /\ UNCHANGED <<clock, checkpoint, enabled, session, legacy, turnMemory, output, bounds>>

\* The update waits for the row lock (FOR SHARE) of an admitted session.
SetEnabled(S) ==
    /\ \A p \in Session : pc[p] \in {"inside", "loaded"} =>
          (dev[p] \in S <=> dev[p] \in enabled)
    /\ S # enabled /\ enabled' = S
    /\ UNCHANGED <<clock, stream, checkpoint, session, legacy, turnMemory, output, bounds>>

-----------------------------------------------------------------------------
(* app/detector/lock.py.                                                   *)

Inside == {p \in Session : pc[p] \in {"inside", "loaded"}}
Queued == {p \in Session : pc[p] = "queued"}

AlwaysFree == TRUE  \* mutant: a key that excludes nobody

ShareFree == legacy = "out"

AccountKeyFree == Inside = {}

\* An older process, or scripts/sql/cleanup_test_device.sql; it queues behind
\* whoever waits already.
LegacyAsks ==
    /\ legacy = "out" /\ \A p \in Session : pc[p] # "asked"
    /\ legacy' = "waiting"
    /\ UNCHANGED <<clock, stream, checkpoint, enabled, session, turnMemory, output, bounds>>

LegacyLocks ==
    /\ legacy = "waiting" /\ Inside \cup Queued = {}
    /\ legacy' = "holding"
    /\ UNCHANGED <<clock, stream, checkpoint, enabled, session, turnMemory, output, bounds>>

LegacyEnds ==
    /\ legacy = "holding"
    /\ legacy' = "out"
    /\ UNCHANGED <<clock, stream, checkpoint, enabled, session, turnMemory, output, bounds>>

\* lock_detector: the transaction, and its now(), are older than the wait.
Ask(p, d) ==
    /\ p # "turn" /\ pc[p] = "idle"
    /\ p = "editor" => edits[d] < MaxEdits
    /\ pc' = [pc EXCEPT ![p] = "asked"]
    /\ dev' = [dev EXCEPT ![p] = d]
    /\ began' = IF p = "operator" THEN [began EXCEPT ![p] = clock] ELSE began
    /\ UNCHANGED <<clock, stream, checkpoint, enabled, dirty, seen, legacy, turnMemory, output, bounds>>

GetGlobalKey(p) ==
    /\ pc[p] = "asked" /\ ShareFree
    /\ pc' = [pc EXCEPT ![p] = "queued"]
    /\ UNCHANGED <<clock, stream, checkpoint, enabled, dev, began, dirty, seen, legacy, turnMemory,
                   output, bounds>>

\* The end of a transaction of session p, committed or not.
Idle(p) ==
    /\ pc' = [pc EXCEPT ![p] = "idle"]
    /\ dev' = [dev EXCEPT ![p] = 0]
    /\ began' = [began EXCEPT ![p] = 0]
    /\ dirty' = [dirty EXCEPT ![p] = {}]
    /\ seen' = [seen EXCEPT ![p] = 0]

GetAccountKey(p) ==
    /\ pc[p] = "queued" /\ AccountKeyFree
    /\ IF dev[p] \in enabled
       THEN pc' = [pc EXCEPT ![p] = "inside"] /\ UNCHANGED <<dev, began, dirty, seen>>
       ELSE Idle(p)
    /\ UNCHANGED <<clock, stream, checkpoint, enabled, legacy, turnMemory, output, bounds>>

-----------------------------------------------------------------------------
(* DetectorRunner.run_turn, up to its lock.                                *)

Stored(d) == {f \in Fix : fix[f] = "stored" /\ StreamOf[f] = d}

New(d) == {f \in Stored(d) : received[f] > lastRun[d]}

\* _PENDING_DEVICES_SQL: a device nothing ever happened to is not pending.
Pending(d) ==
    /\ d \in enabled
    /\ d \notin current \/ New(d) # {}
    /\ lastRun[d] # Never \/ Stored(d) # {} \/ edits[d] > 0

\* should_skip: the deferral counts while the checkpoint is what it was.
Skipped(d) == deferral[d].at = lastRun[d] /\ ~deferral[d].due

Cleared(S) == [d \in Device |-> IF d \in S THEN NotDeferred ELSE deferral[d]]

\* Entries the lookup passes over because a checkpoint moved are dropped on the
\* way; prune drops those above the cursor that are not pending any more.
Ahead == {d \in Device : d > cursor}
Outdated == {d \in Device : deferral[d].at # lastRun[d]}

Look(d) ==
    /\ pc["turn"] = "idle"
    /\ d \in Ahead /\ Pending(d) /\ ~Skipped(d)
    /\ \A e \in Ahead : Pending(e) /\ ~Skipped(e) => d <= e
    /\ pc' = [pc EXCEPT !["turn"] = "looked"]
    /\ dev' = [dev EXCEPT !["turn"] = d]
    /\ cursor' = Max({cursor} \cup {e \in Ahead : Pending(e) /\ e < d})
    /\ deferral' = Cleared(Outdated \cap {d})
    /\ UNCHANGED <<clock, stream, checkpoint, enabled, began, dirty, seen, legacy, output, bounds>>

CursorKept == cursor  \* mutant: a finished round does not start over

FirstDevice == 0

EndRound ==
    /\ pc["turn"] = "idle"
    /\ \A e \in Ahead : ~Pending(e) \/ Skipped(e)
    /\ cursor' = FirstDevice
    /\ deferral' = Cleared({d \in Ahead : ~Pending(d)})
    /\ UNCHANGED <<clock, stream, checkpoint, enabled, session, legacy, output, bounds>>

\* try_lock_detector; a busy lock leaves the cursor before the device.
TryLock ==
    LET free == ShareFree /\ AccountKeyFree /\ Queued = {}
    IN  /\ pc["turn"] = "looked"
        /\ \/ /\ free /\ dev["turn"] \in enabled
              /\ pc' = [pc EXCEPT !["turn"] = "inside"]
              /\ began' = [began EXCEPT !["turn"] = clock]
              /\ UNCHANGED <<dev, dirty, seen, cursor>>
           \/ /\ free /\ dev["turn"] \notin enabled
              /\ cursor' = dev["turn"]
              /\ Idle("turn")
           \/ /\ ~free
              /\ Idle("turn")
              /\ UNCHANGED cursor
        /\ UNCHANGED <<clock, stream, checkpoint, enabled, legacy, deferral, output, bounds>>

-----------------------------------------------------------------------------
(* _run and _process_device.                                               *)

\* The fixes the window is guaranteed to hold: every stored one in a full pass.
Dirty(p) == IF p = "editor" \/ dev[p] \notin current THEN Stored(dev[p]) ELSE New(dev[p])

\* A window holds at least its dirty fixes and at most what is stored.
MayDefer(p) ==
    /\ p = "turn" /\ TurnMaxPoints > 0 /\ Dirty(p) # {}
    /\ Cardinality(Stored(dev[p])) > TurnMaxPoints
MustDefer(p) ==
    /\ MayDefer(p)
    /\ Cardinality(Dirty(p)) > TurnMaxPoints \/ dev[p] \notin current

\* The checkpoint, min(recorded_at), the points of the window and the overrides.
Load(p) ==
    /\ pc[p] = "inside" /\ ~MustDefer(p)
    /\ p = "operator" => Pending(dev[p])
    /\ pc' = [pc EXCEPT ![p] = "loaded"]
    /\ dirty' = [dirty EXCEPT ![p] = Dirty(p)]
    /\ seen' = [seen EXCEPT ![p] = edits[dev[p]]]
    /\ UNCHANGED <<clock, stream, checkpoint, enabled, dev, began, legacy, turnMemory, output, bounds>>

NothingPending(p) ==
    /\ p = "operator" /\ pc[p] = "inside" /\ ~Pending(dev[p])
    /\ Idle(p)
    /\ UNCHANGED <<clock, stream, checkpoint, enabled, legacy, turnMemory, output, bounds>>

\* WindowDeferred: rolled back, and remembered until its recheck.
Defer ==
    LET d == dev["turn"]
    IN  /\ pc["turn"] = "inside" /\ MayDefer("turn")
        /\ deferral' = [deferral EXCEPT ![d] = [at |-> lastRun[d], due |-> FALSE]]
        /\ cursor' = d
        /\ Idle("turn")
        /\ UNCHANGED <<clock, stream, checkpoint, enabled, legacy, output, bounds>>

RecheckDue(d) ==
    /\ ~deferral[d].due
    /\ deferral' = [deferral EXCEPT ![d].due = TRUE]
    /\ UNCHANGED <<clock, stream, checkpoint, enabled, session, legacy, cursor, output, bounds>>

WithoutMargin(p) == began[p]  \* mutant: the checkpoint is the start of the run

RunStarted(p) == began[p] - Margin

\* The turn is over for its device, well or badly.
TurnDone(p) ==
    IF p = "turn"
    THEN cursor' = dev[p] /\ deferral' = Cleared({dev[p]})
    ELSE UNCHANGED turnMemory

\* An editor writes its override before it reprocesses, and moves no checkpoint.
Commit(p) ==
    LET d == dev[p]
        edit == IF p = "editor" THEN 1 ELSE 0
    IN  /\ pc[p] = "loaded"
        /\ edits' = [edits EXCEPT ![d] = @ + edit]
        /\ shown' = [shown EXCEPT ![d] = IF dirty[p] # {} \/ p = "editor" THEN seen[p] + edit ELSE @]
        /\ served' = served \cup dirty[p]
        /\ IF p = "editor" THEN UNCHANGED checkpoint
           ELSE /\ lastRun' = [lastRun EXCEPT ![d] = RunStarted(p)]
                /\ current' = current \cup {d}
        /\ TurnDone(p)
        /\ Idle(p)
        /\ UNCHANGED <<clock, stream, enabled, legacy, bounds>>

Fail(p) ==
    /\ p \in Inside
    /\ TurnDone(p)
    /\ Idle(p)
    /\ UNCHANGED <<clock, stream, checkpoint, enabled, legacy, output, bounds>>

\* The server dies: its transactions roll back, the round and deferrals are lost.
\* It may come back with another DETECTOR_VERSION.
Restart(upgraded) ==
    /\ restarts < MaxRestarts
    /\ upgraded => upgrades < MaxUpgrades
    /\ restarts' = restarts + 1
    /\ upgrades' = IF upgraded THEN upgrades + 1 ELSE upgrades
    /\ current' = IF upgraded THEN {} ELSE current
    /\ pc' = [p \in Session |-> IF p = "operator" THEN pc[p] ELSE "idle"]
    /\ dev' = [p \in Session |-> IF p = "operator" THEN dev[p] ELSE 0]
    /\ began' = [p \in Session |-> IF p = "operator" THEN began[p] ELSE 0]
    /\ dirty' = [p \in Session |-> IF p = "operator" THEN dirty[p] ELSE {}]
    /\ seen' = [p \in Session |-> IF p = "operator" THEN seen[p] ELSE 0]
    /\ cursor' = 0 /\ deferral' = [d \in Device |-> NotDeferred]
    /\ UNCHANGED <<clock, stream, lastRun, enabled, legacy, output>>

Next ==
    \/ Tick
    \/ \E f \in Fix : OpenIngest(f) \/ \E outcome \in {"stored", "unsent"} : EndIngest(f, outcome)
    \/ \E S \in SUBSET Device : SetEnabled(S)
    \/ LegacyAsks \/ LegacyLocks \/ LegacyEnds
    \/ \E p \in Session :
          \/ \E d \in Device : Ask(p, d)
          \/ GetGlobalKey(p) \/ GetAccountKey(p) \/ Load(p) \/ NothingPending(p)
          \/ Commit(p) \/ Fail(p)
    \/ \E d \in Device : Look(d) \/ RecheckDue(d)
    \/ EndRound \/ TryLock \/ Defer
    \/ \E upgraded \in BOOLEAN : Restart(upgraded)

Spec == Init /\ [][Next]_vars

\* Sessions proceed and end; the sweep keeps the background turns coming; a run
\* does not fail for ever on the same device.
Fairness ==
    /\ WF_vars(LegacyLocks) /\ WF_vars(LegacyEnds)
    /\ \A p \in Session \ {"turn"} :
          /\ SF_vars(GetGlobalKey(p)) /\ SF_vars(GetAccountKey(p))
          /\ WF_vars(Load(p) \/ NothingPending(p)) /\ WF_vars(Commit(p) \/ Fail(p))
    /\ WF_vars(EndRound \/ \E d \in Device : Look(d)) /\ WF_vars(TryLock)
    /\ WF_vars(Load("turn") \/ Defer) /\ WF_vars(Commit("turn") \/ Fail("turn"))
    /\ \A d \in Device :
          /\ WF_vars(RecheckDue(d))
          /\ SF_vars((Load("turn") \/ Defer) /\ dev["turn"] = d)
          /\ SF_vars(Commit("turn") /\ dev["turn"] = d)

FairSpec == Spec /\ Fairness

-----------------------------------------------------------------------------
(* Properties.                                                             *)

\* No fix is lost between two runs, although it carries the time its transaction
\* began and is seen when it commits: a stored fix was inside the window of a
\* committed run, or the next lookup finds it.
NoFixLost ==
    \A f \in Fix : fix[f] = "stored" =>
        f \in served \/ received[f] > lastRun[StreamOf[f]] \/ StreamOf[f] \notin current

\* Runs of one account never overlap, nor any with an exclusive holder, so a run
\* that started from older overrides cannot overwrite a committed merge or split:
\* the trips of a device always reflect every committed edit.
EditsSurvive == \A d \in Device : shown[d] = edits[d]

\* At most one session of the account is between its lock and its commit.
OneWriter ==
    /\ \A p, q \in Inside : p = q
    /\ legacy = "holding" => Inside \cup Queued = {}

\* A stored fix of an enabled device is processed sooner or later, unless its
\* window keeps exceeding the turn limit, or the turns, which skip a busy lock,
\* find it busy for ever.
FindsBusy == pc["turn"] = "looked" /\ pc'["turn"] = "idle"

StoredIsServed == <>[][~FindsBusy]_vars =>
    \A f \in Fix : fix[f] = "stored" ~>
        \/ f \in served \/ StreamOf[f] \notin enabled
        \/ deferral[StreamOf[f]].at = lastRun[StreamOf[f]]
=============================================================================

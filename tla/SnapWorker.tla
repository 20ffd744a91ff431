----------------------------- MODULE SnapWorker -----------------------------
(***************************************************************************)
(* Road snapping: SnapWorker of app/snap.py for one account.               *)
(*                                                                         *)
(* A turn takes one pending trip through several short transactions around *)
(* a provider call that holds none.  In between, the detector, an edit, a  *)
(* resnap command or the owner of the device may change the trip or the    *)
(* device, the storage allowance may run out, and the process may stop.    *)
(* An action is one transaction, or the provider's answer.                 *)
(*                                                                         *)
(* w.at is where the turn is:                                              *)
(*   "idle"     no turn runs              "picked"   a trip was selected   *)
(*   "loaded"   its fixes were read       "sparse"   ... and are too few   *)
(*   "refused"  no room for the route     "roomy"    there may be room     *)
(*   "asked"    the provider is at work   "answered" it gave a result      *)
(*   "overflow" the route did not fit     "done"     the trip is dealt with *)
(***************************************************************************)
EXTENDS Integers, Sequences, FiniteSets, SequencesExt

CONSTANTS
    Trip, NoTrip,
    Device, DeviceOf,   \* [Trip -> Device]
    Sparse,             \* trips with fewer than two usable fixes
    Snapped,            \* the states of a snapped trip: "ok", "low_confidence"
    Split,              \* trips whose snapped path has several parts
    Size,               \* [Trip -> bytes of the snapped path]
    MinSize,            \* SNAP_MIN_ROUTE_BYTES
    Allowance,          \* bytes free for enhancements at first
    MaxEdits            \* bound: changes by others, failures and restarts

ASSUME TripAssumption == IsFiniteSet(Trip) /\ NoTrip \notin Trip
ASSUME DeviceAssumption == DeviceOf \in [Trip -> Device]
ASSUME SnappedAssumption == Snapped \cap {"gone", "pending", "failed"} = {}
ASSUME SizeAssumption ==
    Size \in [Trip -> Nat \ {0}] /\ MinSize \in Nat /\ Allowance \in Nat /\ MaxEdits \in Nat

VARIABLES
    status,         \* snap_status, "gone" where the row does not exist
    fixes,          \* version of the trip's snap inputs: its fixes and figures
    updated,        \* updated_at
    path,           \* version of the inputs the stored path and distance come from, 0: none
    drawn,          \* the trips with a path_snapped: a matching may carry no coordinates
    need,           \* snap_capacity_needed_bytes
    line,           \* the pending trips by COALESCE(snap_attempted_at, created_at)
    recent,         \* attempted less than retry_s ago
    on, generation, \* the device: enabled and not revoked, and its generation
    room,           \* bytes the allowance still has
    turn, cursor,   \* the account's continuation; the trips at or before its cursor
    w,              \* the locals of run_turn and _snap_one
    edits           \* counts the changes by others; the clock of updated_at

trips == <<status, fixes, updated, path, drawn, need, line, recent>>
devices == <<on, generation>>
vars == <<trips, devices, room, turn, cursor, w, edits>>

Terminal == Snapped \cup {"failed"}

Idle == [at |-> "idle", trip |-> NoTrip, updated |-> 0, generation |-> 0, fixes |-> 0,
         need |-> 0, answer |-> "failed", passed |-> {}]

TypeOK ==
    /\ status \in [Trip -> Terminal \cup {"gone", "pending"}]
    /\ fixes \in [Trip -> Nat] /\ updated \in [Trip -> Nat] /\ path \in [Trip -> Nat]
    /\ drawn \subseteq {t \in Trip : status[t] \in Snapped} /\ need \in [Trip -> Nat]
    /\ line \in Seq(Trip) /\ IsInjective(line)
    /\ ToSet(line) = {t \in Trip : status[t] = "pending"}
    /\ recent \subseteq ToSet(line)
    /\ on \in [Device -> BOOLEAN] /\ generation \in [Device -> Nat]
    /\ room \in Int
    /\ turn \in {"idle", "ready", "deferred"} /\ cursor \subseteq Trip
    /\ w.at \in {"idle", "picked", "loaded", "sparse", "refused", "roomy", "asked",
                 "answered", "overflow", "done"}
    /\ w.trip \in Trip \cup {NoTrip} /\ w.answer \in Terminal
    /\ edits \in 0 .. MaxEdits

Init ==
    /\ status = [t \in Trip |-> "gone"]
    /\ fixes = [t \in Trip |-> 0] /\ updated = [t \in Trip |-> 0]
    /\ path = [t \in Trip |-> 0] /\ drawn = {} /\ need = [t \in Trip |-> 0]
    /\ line = <<>> /\ recent = {}
    /\ on = [d \in Device |-> TRUE] /\ generation = [d \in Device |-> 1]
    /\ room = Allowance
    /\ turn = "ready" /\ cursor = {}
    /\ w = Idle
    /\ edits = 0

-----------------------------------------------------------------------------
(* The queue of pending trips.                                             *)

Without(s, t) == IF t \in ToSet(s) THEN RemoveFirst(s, t) ELSE s

ToEnd(s, t) == Append(Without(s, t), t)

Earlier(u, t) == \E i, j \in DOMAIN line : i < j /\ line[i] = u /\ line[j] = t

Oldest(S) == {t \in S : \A u \in S : ~Earlier(u, t)}

Eligible(t) == status[t] = "pending" /\ on[DeviceOf[t]]

\* _next_trip, as a set of at most one trip: those due come before those attempted
\* lately, each the oldest first.
NextTrip(c) ==
    LET S == {t \in Trip : Eligible(t) /\ t \notin c}
    IN  Oldest(IF S \subseteq recent THEN S ELSE S \ recent)

UpTo(t) == {t} \cup {u \in ToSet(line) : Earlier(u, t)}

\* run_turn where nothing is left to do for now, and what it answers the rotation.
Finish(c) ==
    LET n == NextTrip(c)
    IN  /\ turn' = IF n # {} THEN IF n \subseteq recent THEN "deferred" ELSE "ready"
                   ELSE IF NextTrip({}) = {} THEN "idle" ELSE "deferred"
        /\ cursor' = IF n \subseteq recent THEN {} ELSE c
        /\ w' = Idle

Pick ==
    /\ turn = "ready" /\ w.at = "idle"
    /\ \/ NextTrip(cursor) \subseteq recent /\ Finish(cursor)
       \/ \E t \in NextTrip(cursor) \ recent :
             /\ w' = [Idle EXCEPT !.at = "picked", !.trip = t, !.passed = UpTo(t)]
             /\ UNCHANGED <<turn, cursor>>
    /\ UNCHANGED <<trips, devices, room, edits>>

\* The end of run_turn: an unadmitted trip is passed over by the cursor.
Conclude ==
    /\ w.at = "done"
    /\ Finish(IF w.passed = {} THEN cursor ELSE w.passed)
    /\ UNCHANGED <<trips, devices, room, edits>>

-----------------------------------------------------------------------------
(* _snap_one.                                                              *)

AnyDevice == TRUE  \* mutant: the device is not looked at again

\* lock_device_generation
DeviceHolds == on[DeviceOf[w.trip]] /\ generation[DeviceOf[w.trip]] = w.generation

AnyVersion == status[w.trip] # "gone"  \* mutant: the row is written whatever its version

\* The compare of the compare-and-set: the row is the one that was read.
RowHolds == status[w.trip] # "gone" /\ updated[w.trip] = w.updated

Stays == DeviceHolds /\ RowHolds

\* What run_turn makes of an outcome with or without an attempt.
Attempted == [w EXCEPT !.at = "done", !.passed = {}]
Unadmitted == [w EXCEPT !.at = "done"]

Load ==
    /\ w.at = "picked"
    /\ w' = IF Eligible(w.trip)
            THEN [w EXCEPT !.at = IF w.trip \in Sparse THEN "sparse" ELSE "loaded",
                           !.updated = updated[w.trip],
                           !.generation = generation[DeviceOf[w.trip]],
                           !.fixes = fixes[w.trip],
                           !.need = IF need[w.trip] > MinSize THEN need[w.trip] ELSE MinSize]
            ELSE Unadmitted
    /\ UNCHANGED <<trips, devices, room, turn, cursor, edits>>

\* The terminal write of a result, s: the stored state, v: the inputs it comes from,
\* D: the trips that have a path after it.
Settle(s, v, D) ==
    /\ status' = [status EXCEPT ![w.trip] = s]
    /\ path' = [path EXCEPT ![w.trip] = v]
    /\ drawn' = D
    /\ need' = [need EXCEPT ![w.trip] = 0]
    /\ line' = Without(line, w.trip)
    /\ recent' = recent \ {w.trip}
    /\ UNCHANGED <<fixes, updated>>

FailSparse ==
    /\ w.at = "sparse"
    /\ \/ ~Stays /\ w' = Unadmitted /\ UNCHANGED trips
       \/ Stays /\ w' = Attempted /\ Settle("failed", path[w.trip], drawn)
    /\ UNCHANGED <<devices, room, turn, cursor, edits>>

CheckRoom ==
    /\ w.at = "loaded"
    /\ w' = [w EXCEPT !.at = IF w.need <= room THEN "roomy" ELSE "refused"]
    /\ UNCHANGED <<trips, devices, room, turn, cursor, edits>>

Unstamped(bytes) ==  \* mutant: the attempt is not recorded before the call
    /\ need' = [need EXCEPT ![w.trip] = bytes]
    /\ UNCHANGED <<status, fixes, updated, path, drawn, line, recent>>

\* snap_attempted_at = now(), with the bytes the route is known to need.
StampAttempt(bytes) ==
    /\ need' = [need EXCEPT ![w.trip] = bytes]
    /\ line' = ToEnd(line, w.trip)
    /\ recent' = recent \cup {w.trip}
    /\ UNCHANGED <<status, fixes, updated, path, drawn>>

Writable == Stays /\ status[w.trip] = "pending"

\* _pause_for_capacity, before the call or after a route that did not fit.
Pause ==
    /\ w.at \in {"refused", "overflow"}
    /\ IF Writable THEN StampAttempt(w.need) ELSE UNCHANGED trips
    /\ w' = IF w.at = "overflow" THEN Attempted ELSE Unadmitted
    /\ UNCHANGED <<devices, room, turn, cursor, edits>>

Admit ==
    /\ w.at = "roomy"
    /\ \/ Writable /\ w' = [w EXCEPT !.at = "asked", !.passed = {}] /\ StampAttempt(0)
       \/ ~Writable /\ w' = Unadmitted /\ UNCHANGED trips
    /\ UNCHANGED <<devices, room, turn, cursor, edits>>

\* The provider answers, or the call fails and the trip stays pending.
Answer ==
    /\ w.at = "asked"
    /\ \/ \E s \in Terminal : w' = [w EXCEPT !.at = "answered", !.answer = s]
       \/ w' = Attempted
    /\ UNCHANGED <<trips, devices, room, turn, cursor, edits>>

\* A result without coordinates takes no room: path_snapped is NULL.
Store ==
    /\ w.at = "answered"
    /\ \/ /\ ~Stays
          /\ w' = Attempted /\ UNCHANGED <<trips, room>>
       \/ /\ Stays /\ w.answer \in Snapped /\ Size[w.trip] > room
          /\ w' = [w EXCEPT !.at = "overflow", !.need = Size[w.trip]]
          /\ UNCHANGED <<trips, room>>
       \/ /\ Stays /\ w.answer \in Snapped /\ Size[w.trip] <= room
          /\ w' = Attempted /\ Settle(w.answer, w.fixes, drawn \cup {w.trip})
          /\ room' = room - Size[w.trip]
       \/ /\ Stays /\ w.answer \in Snapped
          /\ w' = Attempted /\ Settle(w.answer, w.fixes, drawn \ {w.trip}) /\ UNCHANGED room
       \/ /\ Stays /\ w.answer = "failed"
          /\ w' = Attempted /\ Settle("failed", 0, drawn \ {w.trip}) /\ UNCHANGED room
    /\ UNCHANGED <<devices, turn, cursor, edits>>

-----------------------------------------------------------------------------
(* The rotation that gives turns, and the end of a process.                *)

Wake ==
    /\ turn = "idle"
    /\ turn' = "ready"
    /\ UNCHANGED <<trips, devices, room, cursor, w, edits>>

DeferralElapses ==
    /\ turn = "deferred"
    /\ turn' = "ready"
    /\ UNCHANGED <<trips, devices, room, cursor, w, edits>>

\* retry_s after the oldest of the recent attempts.  A turn takes less than that.
BackoffElapses ==
    \E t \in Oldest(recent) \ {w.trip} :
        /\ recent' = recent \ {t}
        /\ UNCHANGED <<status, fixes, updated, path, drawn, need, line, devices, room, turn, cursor, w, edits>>

\* The process stops while the provider is at work, and starts again.
CallDies ==
    /\ w.at = "asked"
    /\ w' = Idle /\ turn' = "ready" /\ cursor' = {}
    /\ UNCHANGED <<trips, devices, room, edits>>

Edit == edits < MaxEdits /\ edits' = edits + 1

\* It stops anywhere, or a transaction fails and the rotation keeps the cursor.
Stop ==
    /\ Edit /\ w.at # "idle"
    /\ w' = Idle
    /\ \/ turn' = "ready" /\ cursor' = {}
       \/ turn' = "idle" /\ UNCHANGED cursor
    /\ UNCHANGED <<trips, devices, room>>

-----------------------------------------------------------------------------
(* Everybody else.                                                         *)

\* The row goes back to the queue without a path, at the place of its creation.
Requeue(t, v) ==
    /\ status' = [status EXCEPT ![t] = "pending"]
    /\ fixes' = [fixes EXCEPT ![t] = v]
    /\ updated' = [updated EXCEPT ![t] = edits']
    /\ path' = [path EXCEPT ![t] = 0] /\ drawn' = drawn \ {t}
    /\ need' = [need EXCEPT ![t] = 0]
    /\ recent' = recent \ {t}
    /\ room' = IF t \in drawn THEN room + Size[t] ELSE room
    /\ \E i \in 1 .. Len(Without(line, t)) + 1 : line' = InsertAt(Without(line, t), i, t)
    /\ cursor' \in {cursor \ {t}, IF cursor = {} THEN {} ELSE cursor \cup {t}}

\* The detector, a merge or a split writes other fixes into the trip.
Rewrite(t) ==
    /\ Edit /\ status[t] # "gone"
    /\ Requeue(t, fixes[t] + 1)
    /\ UNCHANGED <<devices, turn, w>>

\* app.resnap
Resnap(t) ==
    /\ Edit /\ status[t] # "gone" /\ t \in drawn \cap Split /\ on[DeviceOf[t]]
    /\ Requeue(t, fixes[t])
    /\ UNCHANGED <<devices, turn, w>>

\* An edit of other columns, or a rewrite with the same inputs.
Touch(t) ==
    /\ Edit /\ status[t] # "gone"
    /\ updated' = [updated EXCEPT ![t] = edits']
    /\ UNCHANGED <<status, fixes, path, drawn, need, line, recent, devices, room, turn, cursor, w>>

Insert(t) ==
    /\ status[t] = "gone" /\ fixes[t] = 0
    /\ status' = [status EXCEPT ![t] = "pending"]
    /\ fixes' = [fixes EXCEPT ![t] = 1]
    /\ line' = Append(line, t)
    /\ UNCHANGED <<updated, path, drawn, need, recent, devices, room, turn, cursor, w, edits>>

Delete(t) ==
    /\ Edit /\ status[t] # "gone"
    /\ status' = [status EXCEPT ![t] = "gone"]
    /\ path' = [path EXCEPT ![t] = 0] /\ drawn' = drawn \ {t}
    /\ need' = [need EXCEPT ![t] = 0]
    /\ line' = Without(line, t) /\ recent' = recent \ {t}
    /\ room' = IF t \in drawn THEN room + Size[t] ELSE room
    /\ UNCHANGED <<fixes, updated, devices, turn, cursor, w>>

\* The device is disabled, enabled again, or handed over with a new generation.
SwitchDevice(d) ==
    /\ Edit
    /\ on' = [on EXCEPT ![d] = ~@]
    /\ generation' \in {generation, [generation EXCEPT ![d] = @ + 1]}
    /\ UNCHANGED <<trips, room, turn, cursor, w>>

\* The administrator raises the limit, or other data takes the room.
ChangeAllowance ==
    /\ Edit
    /\ room' \in {room + 1, room - 1}
    /\ UNCHANGED <<trips, devices, turn, cursor, w>>

Turn == Pick \/ Load \/ FailSparse \/ CheckRoom \/ Pause \/ Admit \/ Store \/ Conclude

Next ==
    \/ Turn \/ Answer \/ Wake \/ DeferralElapses \/ BackoffElapses \/ CallDies \/ Stop
    \/ \E t \in Trip : Rewrite(t) \/ Resnap(t) \/ Touch(t) \/ Insert(t) \/ Delete(t)
    \/ \E d \in Device : SwitchDevice(d)
    \/ ChangeAllowance

Spec == Init /\ [][Next]_vars

\* A turn goes on, a call ends (it has a timeout), the sweep and the timers run.
\* Nothing makes the provider answer, and nothing keeps the process alive in a call.
Fairness ==
    /\ WF_vars(Turn) /\ WF_vars(Answer \/ CallDies)
    /\ WF_vars(Wake) /\ WF_vars(DeferralElapses) /\ WF_vars(BackoffElapses)

FairSpec == Spec /\ Fairness

-----------------------------------------------------------------------------
(* Properties.                                                             *)

\* The stored path and distance, drawn or not, were computed from the fixes the trip
\* has now, whatever was rewritten while the provider worked on older ones.
PathMatchesFixes ==
    \A t \in Trip : /\ path[t] # 0 => path[t] = fixes[t] /\ status[t] \in Snapped
                    /\ status[t] \in Snapped => path[t] # 0

\* No result reaches a trip whose device was switched off, or off and on again under
\* another generation, since the fixes were read.
RevokedDeviceUntouched ==
    [][\A t \in Trip : status[t] = "pending" /\ status'[t] \in Terminal =>
          on[DeviceOf[t]] /\ generation[DeviceOf[t]] = w.generation]_vars

\* Every pending trip whose route may fit is put to the provider, now and after every
\* retry period, although the process dies in each call for some other trip.
EveryTripTried ==
    \A t \in Trip \ Sparse :
        status[t] = "pending" ~>
            \/ w.at = "asked" /\ w.trip = t
            \/ status[t] # "pending" \/ ~on[DeviceOf[t]]
            \/ room < MinSize \/ room < need[t]
=============================================================================

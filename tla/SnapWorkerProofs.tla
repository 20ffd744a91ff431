--------------------------- MODULE SnapWorkerProofs ---------------------------
(***************************************************************************)
(* Proofs about SnapWorker for every set of trips and devices, every size  *)
(* of path, and any number of edits, failures and restarts.                *)
(***************************************************************************)
EXTENDS SnapWorker, TLAPS

Reading == {"loaded", "sparse", "refused", "roomy", "asked", "answered", "overflow"}

Shape ==
    /\ status \in [Trip -> Terminal \cup {"gone", "pending"}]
    /\ fixes \in [Trip -> Nat] /\ updated \in [Trip -> Nat] /\ path \in [Trip -> Nat]
    /\ on \in [Device -> BOOLEAN] /\ generation \in [Device -> Nat]
    /\ edits \in Nat
    /\ w.at # "idle" => w.trip \in Trip
    /\ w = [at |-> w.at, trip |-> w.trip, updated |-> w.updated, generation |-> w.generation,
            fixes |-> w.fixes, need |-> w.need, answer |-> w.answer, passed |-> w.passed]
    /\ \A t \in Trip : updated[t] <= edits
    /\ \A t \in Trip : status[t] # "gone" => fixes[t] # 0

\* What the turn has read is of the past, and a row that still has its updated_at is
\* pending with the inputs that were read.
ReadingHolds ==
    w.at \in Reading =>
        /\ w.updated \in Nat /\ w.updated <= edits
        /\ w.fixes \in Nat \ {0} /\ fixes[w.trip] # 0
        /\ RowHolds => status[w.trip] = "pending" /\ fixes[w.trip] = w.fixes

IInv == Shape /\ ReadingHolds /\ PathMatchesFixes

\* No trip, no turn.
LEMMA InitIInv == Init => IInv
  BY SnappedAssumption DEF Init, IInv, Shape, ReadingHolds, PathMatchesFixes, Idle, Reading, Terminal

\* A row that is not written keeps its state, and a row that is rewritten another time
\* no longer has the updated_at that a turn has read.
LEMMA OthersIInv ==
    ASSUME NEW t \in Trip, NEW s, NEW v \in Nat, NEW p, IInv,
           w' = w, edits' = edits + 1, UNCHANGED devices,
           status' = [status EXCEPT ![t] = s], s \in Terminal \cup {"gone", "pending"},
           fixes' = [fixes EXCEPT ![t] = v], fixes[t] # 0 => v # 0, s # "gone" => v # 0,
           path' = [path EXCEPT ![t] = p], p \in {0, path[t]},
           p = 0 => s \notin Snapped, p = path[t] /\ p # 0 => s = status[t] /\ v = fixes[t],
           updated' = [updated EXCEPT ![t] = edits'] \/ (updated' = updated /\ s = "gone")
    PROVE  IInv'
<1> USE DEF devices
<1>1. /\ status \in [Trip -> Terminal \cup {"gone", "pending"}]
      /\ fixes \in [Trip -> Nat] /\ updated \in [Trip -> Nat] /\ path \in [Trip -> Nat]
      /\ edits \in Nat /\ \A u \in Trip : updated[u] <= edits
  BY DEF IInv, Shape
<1>2. \A u \in Trip : u # t => /\ status'[u] = status[u] /\ fixes'[u] = fixes[u]
                               /\ path'[u] = path[u] /\ updated'[u] = updated[u]
  BY <1>1
<1>3. status'[t] = s /\ fixes'[t] = v /\ path'[t] = p
  BY <1>1
<1>4. updated'[t] = edits + 1 \/ (updated'[t] = updated[t] /\ s = "gone")
  BY <1>1
<1>5. Shape'
  <2>1. /\ status' \in [Trip -> Terminal \cup {"gone", "pending"}]
        /\ fixes' \in [Trip -> Nat] /\ updated' \in [Trip -> Nat] /\ path' \in [Trip -> Nat]
        /\ edits' \in Nat
    BY <1>1
  <2>2. \A u \in Trip : updated'[u] <= edits'
    BY <1>1, <1>2, <1>4
  <2>3. \A u \in Trip : status'[u] # "gone" => fixes'[u] # 0
    BY <1>2, <1>3 DEF IInv, Shape
  <2> QED BY <2>1, <2>2, <2>3 DEF IInv, Shape
<1>6. PathMatchesFixes'
  BY <1>1, <1>2, <1>3 DEF IInv, PathMatchesFixes
<1>7. ReadingHolds'
  <2> SUFFICES ASSUME w.at \in Reading
               PROVE  /\ w.updated \in Nat /\ w.updated <= edits'
                      /\ w.fixes \in Nat \ {0} /\ fixes'[w.trip] # 0
                      /\ RowHolds' => status'[w.trip] = "pending" /\ fixes'[w.trip] = w.fixes
    BY DEF ReadingHolds, RowHolds
  <2>1. /\ w.trip \in Trip /\ w.updated \in Nat /\ w.updated <= edits
        /\ w.fixes \in Nat \ {0} /\ fixes[w.trip] # 0
        /\ RowHolds => status[w.trip] = "pending" /\ fixes[w.trip] = w.fixes
    BY DEF IInv, Shape, ReadingHolds, Reading
  <2>2. CASE w.trip = t
    <3>1. ~RowHolds'
      BY <1>1, <1>3, <1>4, <2>1, <2>2 DEF RowHolds
    <3> QED BY <1>1, <1>3, <2>1, <2>2, <3>1
  <2>3. CASE w.trip # t
    BY <1>1, <1>2, <2>1, <2>3 DEF RowHolds
  <2> QED BY <2>2, <2>3
<1> QED
  BY <1>5, <1>6, <1>7 DEF IInv

\* The terminal write, after the compare of the compare-and-set.
LEMMA SettleIInv ==
    ASSUME NEW s \in Terminal, NEW v \in Nat, NEW D, IInv, Settle(s, v, D), w' = Attempted, w.at \in Reading,
           Stays, UNCHANGED <<devices, edits>>,
           v = 0 <=> s = "failed", v # 0 => v = w.fixes
    PROVE  IInv'
<1> USE DEF devices
<1>1. /\ status \in [Trip -> Terminal \cup {"gone", "pending"}]
      /\ fixes \in [Trip -> Nat] /\ updated \in [Trip -> Nat] /\ path \in [Trip -> Nat]
      /\ w.trip \in Trip
  BY DEF IInv, Shape, Reading
<1>2. status[w.trip] = "pending" /\ fixes[w.trip] = w.fixes
  BY DEF IInv, ReadingHolds, Stays
<1>3. status' = [status EXCEPT ![w.trip] = s] /\ path' = [path EXCEPT ![w.trip] = v]
      /\ fixes' = fixes /\ updated' = updated
  BY DEF Settle
<1>4. w' = [w EXCEPT !.at = "done", !.passed = {}]
  BY DEF Attempted
<1>5. w' = [at |-> "done", trip |-> w.trip, updated |-> w.updated, generation |-> w.generation,
            fixes |-> w.fixes, need |-> w.need, answer |-> w.answer, passed |-> {}]
  BY <1>4 DEF IInv, Shape
<1>6. Shape'
  BY <1>1, <1>2, <1>3, <1>5 DEF IInv, Shape
<1>7. ReadingHolds'
  BY <1>5 DEF ReadingHolds, Reading
<1>8. PathMatchesFixes'
  BY <1>1, <1>2, <1>3, SnappedAssumption DEF IInv, PathMatchesFixes, Terminal
<1> QED
  BY <1>6, <1>7, <1>8 DEF IInv

\* Every step keeps the invariant.
LEMMA NextIInv == IInv /\ [Next]_vars => IInv'
<1> SUFFICES ASSUME IInv, [Next]_vars PROVE IInv'
  OBVIOUS
<1> USE DEF trips, devices
<1>1. /\ status \in [Trip -> Terminal \cup {"gone", "pending"}]
      /\ fixes \in [Trip -> Nat] /\ updated \in [Trip -> Nat] /\ path \in [Trip -> Nat]
      /\ edits \in Nat
      /\ w.at # "idle" => w.trip \in Trip
      /\ w = [at |-> w.at, trip |-> w.trip, updated |-> w.updated, generation |-> w.generation,
              fixes |-> w.fixes, need |-> w.need, answer |-> w.answer, passed |-> w.passed]
      /\ \A t \in Trip : status[t] # "gone" => fixes[t] # 0
  BY DEF IInv, Shape
\* The end of a turn, a stop, and whatever touches neither the rows nor the turn.
<1>2. ASSUME w' = Idle, UNCHANGED <<status, fixes, updated, path, on>>, edits' \in {edits, edits + 1},
             generation' \in [Device -> Nat]
      PROVE  IInv'
  <2>1. Shape'
    BY <1>2 DEF IInv, Shape, Idle
  <2>2. ReadingHolds' /\ PathMatchesFixes'
    BY <1>2 DEF IInv, ReadingHolds, Reading, Idle, PathMatchesFixes
  <2> QED BY <2>1, <2>2 DEF IInv
<1>3. ASSUME w' = w, UNCHANGED <<status, fixes, updated, path>>, edits' \in {edits, edits + 1},
             on' \in [Device -> BOOLEAN], generation' \in [Device -> Nat]
      PROVE  IInv'
  <2>1. Shape'
    BY <1>3 DEF IInv, Shape
  <2>2. ReadingHolds' /\ PathMatchesFixes'
    BY <1>3 DEF IInv, Shape, ReadingHolds, Reading, PathMatchesFixes, RowHolds
  <2> QED BY <2>1, <2>2 DEF IInv
<1>4. CASE Pick
  <2>1. CASE Finish(cursor)
    BY <1>1, <1>2, <1>4, <2>1 DEF Pick, Finish, IInv, Shape
  <2>2. ASSUME NEW t \in NextTrip(cursor) \ recent,
               w' = [Idle EXCEPT !.at = "picked", !.trip = t, !.passed = UpTo(t)]
        PROVE  IInv'
    <3>1. t \in Trip
      BY DEF NextTrip, Oldest
    <3>2. w' = [at |-> "picked", trip |-> t, updated |-> 0, generation |-> 0, fixes |-> 0,
                need |-> 0, answer |-> "failed", passed |-> UpTo(t)]
      BY <2>2 DEF Idle
    <3>3. UNCHANGED <<trips, devices, edits>>
      BY <1>4 DEF Pick
    <3>4. Shape'
      BY <3>1, <3>2, <3>3 DEF IInv, Shape
    <3>5. ReadingHolds' /\ PathMatchesFixes'
      BY <3>2, <3>3 DEF IInv, ReadingHolds, Reading, PathMatchesFixes
    <3> QED BY <3>4, <3>5 DEF IInv
  <2> QED BY <1>4, <2>1, <2>2 DEF Pick
<1>5. CASE Conclude
  BY <1>2, <1>5 DEF Conclude, Finish, IInv, Shape
<1>6. CASE Load
  <2>1. UNCHANGED <<trips, devices, edits>> /\ w.trip \in Trip
    BY <1>1, <1>6 DEF Load
  <2>2. CASE Eligible(w.trip)
    <3> DEFINE a == IF w.trip \in Sparse THEN "sparse" ELSE "loaded"
               n == IF need[w.trip] > MinSize THEN need[w.trip] ELSE MinSize
    <3>1. w' = [w EXCEPT !.at = a, !.updated = updated[w.trip],
                         !.generation = generation[DeviceOf[w.trip]],
                         !.fixes = fixes[w.trip], !.need = n]
      BY <1>6, <2>2 DEF Load
    <3> HIDE DEF a, n
    <3>2. w' = [at |-> a, trip |-> w.trip, updated |-> updated[w.trip],
                generation |-> generation[DeviceOf[w.trip]], fixes |-> fixes[w.trip],
                need |-> n, answer |-> w.answer, passed |-> w.passed]
      BY <1>1, <3>1
    <3>3. Shape'
      BY <2>1, <3>2 DEF IInv, Shape
    <3>4. /\ w'.trip = w.trip /\ w'.updated = updated[w.trip] /\ w'.fixes = fixes[w.trip]
          /\ status[w.trip] = "pending"
      BY <2>2, <3>2 DEF Eligible
    <3>5. ReadingHolds'
      BY <1>1, <2>1, <3>4 DEF IInv, Shape, ReadingHolds, RowHolds
    <3>6. PathMatchesFixes'
      BY <2>1 DEF IInv, PathMatchesFixes
    <3> QED BY <3>3, <3>5, <3>6 DEF IInv
  <2>3. CASE ~Eligible(w.trip)
    <3>1. w' = [at |-> "done", trip |-> w.trip, updated |-> w.updated, generation |-> w.generation,
                fixes |-> w.fixes, need |-> w.need, answer |-> w.answer, passed |-> w.passed]
      BY <1>1, <1>6, <2>3 DEF Load, Unadmitted
    <3>2. Shape' /\ ReadingHolds' /\ PathMatchesFixes'
      BY <2>1, <3>1 DEF IInv, Shape, ReadingHolds, Reading, PathMatchesFixes
    <3> QED BY <3>2 DEF IInv
  <2> QED BY <2>2, <2>3
\* The other steps of a turn do not touch the rows, or stamp them, or settle the trip.
<1>7. ASSUME NEW a, NEW n, NEW s, NEW p, w.at \in Reading,
             UNCHANGED <<status, fixes, updated, path, devices, edits>>,
             w' = [w EXCEPT !.at = a, !.need = n, !.answer = s, !.passed = p], a # "idle"
      PROVE  IInv'
  <2>1. w' = [at |-> a, trip |-> w.trip, updated |-> w.updated, generation |-> w.generation,
              fixes |-> w.fixes, need |-> n, answer |-> s, passed |-> p]
    BY <1>1, <1>7
  <2>2. Shape'
    BY <1>1, <1>7, <2>1 DEF IInv, Shape, Reading
  <2>3. w'.trip = w.trip /\ w'.updated = w.updated /\ w'.fixes = w.fixes
    BY <2>1
  <2>4. ReadingHolds' /\ PathMatchesFixes'
    BY <1>7, <2>3 DEF IInv, ReadingHolds, RowHolds, PathMatchesFixes
  <2> QED BY <2>2, <2>4 DEF IInv
<1>8. ASSUME w.at \in Reading, UNCHANGED <<status, fixes, updated, path, devices, edits>>,
             w' \in {Attempted, Unadmitted}
      PROVE  IInv'
  <2>1. Attempted = [w EXCEPT !.at = "done", !.need = w.need, !.answer = w.answer, !.passed = {}]
    BY <1>1 DEF Attempted
  <2>2. Unadmitted = [w EXCEPT !.at = "done", !.need = w.need, !.answer = w.answer, !.passed = w.passed]
    BY <1>1 DEF Unadmitted
  <2>3. CASE w' = Attempted
    BY <1>7, <1>8, <2>1, <2>3
  <2>4. CASE w' = Unadmitted
    BY <1>7, <1>8, <2>2, <2>4
  <2> QED BY <1>8, <2>3, <2>4
<1>9. CASE FailSparse
  <2>1. CASE ~Stays
    BY <1>8, <1>9, <2>1 DEF FailSparse, Reading
  <2>2. CASE Stays
    <3>1. status[w.trip] = "pending" /\ w.trip \in Trip
      BY <1>1, <1>9, <2>2 DEF FailSparse, IInv, ReadingHolds, Reading, Stays
    <3>2. path[w.trip] = 0
      BY <3>1, SnappedAssumption DEF IInv, PathMatchesFixes
    <3>3. Settle("failed", 0, drawn) /\ w' = Attempted /\ w.at \in Reading /\ UNCHANGED <<devices, edits>>
      BY <1>9, <2>2, <3>2 DEF FailSparse, Reading
    <3> QED BY <2>2, <3>3, SettleIInv DEF Terminal
  <2> QED BY <2>1, <2>2
<1>10. CASE CheckRoom
  <2>1. PICK a \in {"roomy", "refused"} : w' = [w EXCEPT !.at = a]
    BY <1>10 DEF CheckRoom
  <2>2. w' = [w EXCEPT !.at = a, !.need = w.need, !.answer = w.answer, !.passed = w.passed]
    BY <1>1, <2>1
  <2>3. UNCHANGED <<status, fixes, updated, path, devices, edits>> /\ w.at \in Reading /\ a # "idle"
    BY <1>10, <2>1 DEF CheckRoom, Reading
  <2> QED BY <1>7, <2>2, <2>3
<1>11. CASE Pause
  <2>1. UNCHANGED <<status, fixes, updated, path, devices, edits>> /\ w' \in {Attempted, Unadmitted}
        /\ w.at \in Reading
    BY <1>11 DEF Pause, StampAttempt, Reading
  <2> QED BY <1>8, <2>1
<1>12. CASE Admit
  <2>1. UNCHANGED <<status, fixes, updated, path, devices, edits>> /\ w.at \in Reading
    BY <1>12 DEF Admit, StampAttempt, Reading
  <2>2. CASE w' = Unadmitted
    BY <1>8, <2>1, <2>2
  <2>3. CASE w' = [w EXCEPT !.at = "asked", !.passed = {}]
    <3>1. w' = [w EXCEPT !.at = "asked", !.need = w.need, !.answer = w.answer, !.passed = {}]
      BY <1>1, <2>3
    <3> QED BY <1>7, <2>1, <3>1
  <2> QED BY <1>12, <2>2, <2>3 DEF Admit
<1>13. CASE Answer
  <2>1. UNCHANGED <<status, fixes, updated, path, devices, edits>> /\ w.at \in Reading
    BY <1>13 DEF Answer, Reading
  <2>2. CASE w' = Attempted
    BY <1>8, <2>1, <2>2
  <2>3. ASSUME NEW s \in Terminal, w' = [w EXCEPT !.at = "answered", !.answer = s] PROVE IInv'
    <3>1. w' = [w EXCEPT !.at = "answered", !.need = w.need, !.answer = s, !.passed = w.passed]
      BY <1>1, <2>3
    <3> QED BY <1>7, <2>1, <3>1
  <2> QED BY <1>13, <2>2, <2>3 DEF Answer
<1>14. CASE Store
  <2>1. UNCHANGED <<devices, edits>> /\ w.at \in Reading
    BY <1>14 DEF Store, Reading
  <2>2. CASE ~Stays /\ w' = Attempted /\ UNCHANGED <<trips, room>>
    BY <1>8, <2>1, <2>2
  <2>3. CASE w' = [w EXCEPT !.at = "overflow", !.need = Size[w.trip]] /\ UNCHANGED <<trips, room>>
    <3>1. w' = [w EXCEPT !.at = "overflow", !.need = Size[w.trip], !.answer = w.answer, !.passed = w.passed]
      BY <1>1, <2>3
    <3>2. UNCHANGED <<status, fixes, updated, path, devices, edits>>
      BY <2>1, <2>3
    <3> QED BY <1>7, <2>1, <3>1, <3>2
  <2>4. ASSUME NEW D, Stays, w.answer \in Snapped, w' = Attempted, Settle(w.answer, w.fixes, D)
        PROVE  IInv'
    <3>1. w.fixes \in Nat \ {0}
      BY <2>1 DEF IInv, ReadingHolds
    <3> QED BY <2>1, <2>4, <3>1, SettleIInv, SnappedAssumption DEF Terminal
  <2>5. CASE Stays /\ w' = Attempted /\ Settle("failed", 0, drawn \ {w.trip})
    BY <2>1, <2>5, SettleIInv DEF Terminal
  <2> QED BY <1>14, <2>2, <2>3, <2>4, <2>5 DEF Store
<1>15. CASE Wake \/ DeferralElapses \/ BackoffElapses
  BY <1>1, <1>3, <1>15 DEF Wake, DeferralElapses, BackoffElapses, IInv, Shape
<1>16. CASE CallDies \/ Stop
  BY <1>1, <1>2, <1>16 DEF CallDies, Stop, Edit, IInv, Shape
<1>17. ASSUME NEW t \in Trip, Rewrite(t) \/ Resnap(t) PROVE IInv'
  <2>1. PICK v \in Nat : Requeue(t, v) /\ v # 0
    BY <1>1, <1>17 DEF Rewrite, Resnap
  <2> QED BY <1>17, <2>1, OthersIInv, SnappedAssumption DEF Rewrite, Resnap, Requeue, Edit
<1>18. ASSUME NEW t \in Trip, Touch(t) PROVE IInv'
  <2>1. path[t] = 0 => status[t] \notin Snapped
    BY DEF IInv, PathMatchesFixes
  <2>2. /\ status' = [status EXCEPT ![t] = status[t]] /\ fixes' = [fixes EXCEPT ![t] = fixes[t]]
        /\ path' = [path EXCEPT ![t] = path[t]] /\ status[t] # "gone"
        /\ updated' = [updated EXCEPT ![t] = edits'] /\ edits' = edits + 1
        /\ w' = w /\ UNCHANGED devices
    BY <1>1, <1>18 DEF Touch, Edit
  <2> QED BY <1>1, <2>1, <2>2, OthersIInv
<1>19. ASSUME NEW t \in Trip, Insert(t) PROVE IInv'
  <2>1. /\ status' = [status EXCEPT ![t] = "pending"] /\ fixes' = [fixes EXCEPT ![t] = 1]
        /\ UNCHANGED <<updated, path, devices, w, edits>> /\ fixes[t] = 0 /\ status[t] = "gone"
    BY <1>19 DEF Insert
  <2>2. Shape'
    BY <1>1, <2>1 DEF IInv, Shape
  <2>3. path[t] = 0
    BY <2>1, SnappedAssumption DEF IInv, PathMatchesFixes
  <2>4. PathMatchesFixes'
    BY <1>1, <2>1, <2>3, SnappedAssumption DEF IInv, PathMatchesFixes
  <2>5. ReadingHolds'
    BY <1>1, <2>1 DEF IInv, ReadingHolds, RowHolds, Reading
  <2> QED BY <2>2, <2>4, <2>5 DEF IInv
<1>20. ASSUME NEW t \in Trip, Delete(t) PROVE IInv'
  <2>1. /\ status' = [status EXCEPT ![t] = "gone"] /\ fixes' = [fixes EXCEPT ![t] = fixes[t]]
        /\ path' = [path EXCEPT ![t] = 0] /\ updated' = updated /\ edits' = edits + 1
        /\ w' = w /\ UNCHANGED devices
    BY <1>1, <1>20 DEF Delete, Edit
  <2> QED BY <1>1, <2>1, OthersIInv, SnappedAssumption
<1>21. ASSUME NEW d \in Device, SwitchDevice(d) PROVE IInv'
  <2>1. on' \in [Device -> BOOLEAN] /\ generation' \in [Device -> Nat]
    BY <1>21 DEF SwitchDevice, IInv, Shape
  <2> QED BY <1>3, <1>21, <2>1 DEF SwitchDevice, Edit
<1>22. CASE ChangeAllowance
  BY <1>3, <1>22 DEF ChangeAllowance, Edit, IInv, Shape
<1>23. CASE UNCHANGED vars
  BY <1>3, <1>23 DEF vars, IInv, Shape
<1> QED
  BY <1>4, <1>5, <1>6, <1>9, <1>10, <1>11, <1>12, <1>13, <1>14, <1>15, <1>16, <1>17, <1>18,
     <1>19, <1>20, <1>21, <1>22, <1>23 DEF Next, Turn

-----------------------------------------------------------------------------
\* The invariant holds of every behaviour.
THEOREM Invariance == Spec => []IInv
<1> QED
  BY InitIInv, NextIInv, PTL DEF Spec

\* The compare of updated_at keeps a path that was computed from other fixes out of
\* the trip, whatever the number of rewrites and restarts.
THEOREM PathsRight == Spec => []PathMatchesFixes
<1>1. IInv => PathMatchesFixes
  BY DEF IInv
<1> QED
  BY <1>1, Invariance, PTL

\* The device's row is compared in every transaction that settles a trip.
THEOREM DevicesRespected == Spec => RevokedDeviceUntouched
<1> DEFINE A == \A t \in Trip : status[t] = "pending" /\ status'[t] \in Terminal =>
                   on[DeviceOf[t]] /\ generation[DeviceOf[t]] = w.generation
<1>1. ASSUME IInv, Next PROVE A
  <2> SUFFICES ASSUME NEW t \in Trip, status[t] = "pending", status'[t] \in Terminal
               PROVE  on[DeviceOf[t]] /\ generation[DeviceOf[t]] = w.generation
    OBVIOUS
  <2>1. status'[t] # status[t] /\ status'[t] \notin {"pending", "gone"}
    BY SnappedAssumption DEF Terminal
  <2>2. status \in [Trip -> Terminal \cup {"gone", "pending"}]
    BY <1>1 DEF IInv, Shape
  <2>3. \A u \in Trip : ~Rewrite(u) /\ ~Resnap(u) /\ ~Touch(u) /\ ~Insert(u) /\ ~Delete(u)
    BY <2>1, <2>2 DEF Rewrite, Resnap, Touch, Insert, Delete, Requeue
  <2>4. FailSparse \/ Store
    BY <1>1, <2>1, <2>3 DEF Next, Turn, Pick, Finish, Load, CheckRoom, Pause, StampAttempt, Admit, Answer,
       Conclude, Wake, DeferralElapses, BackoffElapses, CallDies, Stop, SwitchDevice,
       ChangeAllowance, trips
  <2>5. PICK s, v, D : Stays /\ Settle(s, v, D)
    BY <2>1, <2>4 DEF FailSparse, Store, trips
  <2>6. t = w.trip
    BY <2>1, <2>2, <2>5 DEF Settle
  <2> QED BY <2>5, <2>6 DEF Stays, DeviceHolds
<1>2. IInv /\ [Next]_vars => [A]_vars
  BY <1>1
<1> QED
  BY <1>2, Invariance, PTL DEF Spec, RevokedDeviceUntouched
=============================================================================

--------------------------- MODULE BackgroundProofs ---------------------------
(***************************************************************************)
(* Proofs about what happens to an account besides its requests: about     *)
(* BackgroundTurns for every set of worker types, number of accounts,      *)
(* backlog and number of restarts, the scheduler's queue, the timers and   *)
(* the rotation; and about Portable for every account that exports and     *)
(* number of imports.                                                      *)
(***************************************************************************)
EXTENDS BackgroundTurns, Portable, TLAPS, SequenceTheorems, FiniteSetTheorems

-----------------------------------------------------------------------------
(* Numbers.                                                                *)

\* Induction, with a set for the predicate: a set that 0 is in and that leads from
\* each number to the next cannot miss one, because the successor would map its part
\* below the missing number into itself, one to one, without reaching 0.
LEMMA Induction ==
    ASSUME NEW U \in SUBSET Nat, 0 \in U, \A k \in U : k + 1 \in U
    PROVE  \A n \in Nat : n \in U
<1> SUFFICES ASSUME NEW n \in Nat, n \notin U PROVE FALSE
  OBVIOUS
<1> DEFINE V == U \cap (0 .. n)
           h == [k \in V |-> k + 1]
<1>1. IsFiniteSet(V)
  <2>1. 0 \in Int /\ n \in Int
    OBVIOUS
  <2>2. IsFiniteSet(0 .. n) /\ V \in SUBSET (0 .. n)
    BY <2>1, FS_Interval
  <2> QED BY <2>2, FS_Subset
<1>2. h \in Injection(V, V)
  <2>1. \A k \in V : k + 1 \in V
    OBVIOUS
  <2>2. \A j, k \in V : j + 1 = k + 1 => j = k
    OBVIOUS
  <2> QED BY <2>1, <2>2 DEF Injection, IsInjective
<1>3. h \in Surjection(V, V)
  BY <1>1, <1>2, FS_Injection
<1>4. 0 \in V /\ \A k \in V : h[k] # 0
  OBVIOUS
<1> QED
  BY <1>3, <1>4 DEF Surjection

\* A set of numbers that is not empty has a least one.
LEMMA Least ==
    ASSUME NEW I \in SUBSET Nat, I # {}
    PROVE  Min(I) \in I /\ \A i \in I : Min(I) <= i
<1> DEFINE U == {k \in Nat : \A i \in I : k < i}
<1>1. ASSUME 0 \notin I, \A k \in U : k + 1 \in U PROVE FALSE
  <2>1. 0 \in U
    BY <1>1
  <2>2. \A n \in Nat : n \in U
    <3> HIDE DEF U
    <3>1. U \in SUBSET Nat
      BY DEF U
    <3> QED BY <1>1, <2>1, <3>1, Induction
  <2>3. PICK i \in I : TRUE
    OBVIOUS
  <2>4. i \in U /\ i \in Nat
    BY <2>2, <2>3
  <2> QED BY <2>3, <2>4
<1>2. \E x \in I : \A y \in I : x <= y
  <2>1. CASE 0 \in I
    BY <2>1
  <2>2. CASE \E k \in U : k + 1 \notin U
    <3>1. PICK k \in U : k + 1 \notin U
      BY <2>2
    <3>2. PICK x \in I : ~(k + 1 < x)
      BY <3>1
    <3> QED BY <3>1, <3>2
  <2> QED BY <1>1, <2>1, <2>2
<1> QED
  BY <1>2 DEF Min

-----------------------------------------------------------------------------
(* The queue.                                                              *)

Differ(s) == \A i, j \in 1 .. Len(s) : s[i] = s[j] => i = j

Queued(q, w) == \E i \in 1 .. Len(q) : q[i] = w

\* Registrations and the owner, for any state of the tasks: who is queued waits and
\* does not own the turn, and who owns it waits for it or has begun it.
Sound(q, o, pcs) ==
    /\ q \in Seq(Worker) /\ Differ(q)
    /\ o \in Worker \cup {None}
    /\ \A i \in 1 .. Len(q) : pcs[q[i]] = "waiting" /\ q[i] # o
    /\ o # None => pcs[o] \in {"waiting", "turn"}

\* RemoveFirst takes one registration out of the queue and adds none.
LEMMA Removal ==
    ASSUME NEW S, NEW q \in Seq(S), NEW w, Differ(q)
    PROVE  /\ RemoveFirst(q, w) \in Seq(S) /\ Differ(RemoveFirst(q, w))
           /\ \A x : Queued(RemoveFirst(q, w), x) <=> Queued(q, x) /\ x # w
<1> DEFINE t == RemoveFirst(q, w)
<1>1. Len(q) \in Nat /\ \A i \in 1 .. Len(q) : q[i] \in S
  BY LenProperties, ElementOfSeq
<1>2. CASE ~Queued(q, w)
  BY <1>2 DEF Queued, RemoveFirst
<1>3. CASE Queued(q, w)
  <2>1. PICK k \in 1 .. Len(q) : q[k] = w
    BY <1>3 DEF Queued
  <2> DEFINE a == SubSeq(q, 1, k - 1)
             b == SubSeq(q, k + 1, Len(q))
             m(i) == IF i < k THEN i ELSE i + 1
  <2>2. {i \in 1 .. Len(q) : q[i] = w} = {k} /\ Min({k}) = k
    BY <1>1, <2>1 DEF Differ, Min
  <2>3. t = a \o b
    BY <2>1, <2>2 DEF RemoveFirst, RemoveAt, SelectInSeq
  <2>4. a \in Seq(S) /\ Len(a) = k - 1 /\ \A i \in 1 .. k - 1 : a[i] = q[i]
    BY <1>1, SubSeqProperties
  <2>5. b \in Seq(S) /\ Len(b) = Len(q) - k /\ \A i \in 1 .. Len(q) - k : b[i] = q[k + i]
    BY <1>1, SubSeqProperties
  <2> HIDE DEF t, a, b
  <2>6. /\ t \in Seq(S) /\ Len(t) = Len(a) + Len(b)
        /\ \A i \in 1 .. Len(a) + Len(b) : t[i] = IF i <= Len(a) THEN a[i] ELSE b[i - Len(a)]
    <3>1. /\ a \o b \in Seq(S) /\ Len(a \o b) = Len(a) + Len(b)
          /\ \A i \in 1 .. Len(a) + Len(b) :
                (a \o b)[i] = IF i <= Len(a) THEN a[i] ELSE b[i - Len(a)]
      BY <2>4, <2>5, ConcatProperties, Zenon
    <3> QED BY <2>3, <3>1, Zenon
  <2>7. Len(t) = Len(q) - 1
    BY <1>1, <2>4, <2>5, <2>6
  <2>8. ASSUME NEW i \in 1 .. Len(t) PROVE m(i) \in 1 .. Len(q) /\ m(i) # k /\ t[i] = q[m(i)]
    <3>1. CASE i < k
      <4>1. i \in 1 .. k - 1 /\ i \in 1 .. Len(a) + Len(b) /\ i <= Len(a)
        BY <1>1, <2>4, <2>6, <3>1
      <4> QED BY <1>1, <2>4, <2>6, <3>1, <4>1
    <3>2. CASE ~(i < k)
      <4>1. /\ i \in 1 .. Len(a) + Len(b) /\ ~(i <= Len(a))
            /\ i - Len(a) \in 1 .. Len(q) - k /\ k + (i - Len(a)) = i + 1
        BY <1>1, <2>4, <2>5, <2>6, <3>2
      <4>2. t[i] = b[i - Len(a)] /\ b[i - Len(a)] = q[k + (i - Len(a))]
        BY <2>5, <2>6, <4>1
      <4> QED BY <1>1, <2>7, <3>2, <4>1, <4>2
    <3> QED BY <3>1, <3>2
  <2>9. \A i, j \in 1 .. Len(t) : m(i) = m(j) => i = j
    BY <1>1, <2>7
  <2>10. \A j \in 1 .. Len(q) : j # k => \E i \in 1 .. Len(t) : m(i) = j
    <3> SUFFICES ASSUME NEW j \in 1 .. Len(q), j # k PROVE \E i \in 1 .. Len(t) : m(i) = j
      OBVIOUS
    <3>1. CASE j < k
      BY <1>1, <2>7, <3>1
    <3>2. CASE k < j
      <4>1. j - 1 \in 1 .. Len(t) /\ m(j - 1) = j
        BY <1>1, <2>7, <3>2
      <4> QED BY <4>1
    <3> QED BY <1>1, <3>1, <3>2
  <2> HIDE DEF m
  <2>11. Differ(t)
    BY <2>8, <2>9 DEF Differ
  <2>12. ASSUME NEW x PROVE Queued(t, x) <=> Queued(q, x) /\ x # w
    <3>1. ASSUME NEW i \in 1 .. Len(t), t[i] = x PROVE Queued(q, x) /\ x # w
      BY <2>1, <2>8, <3>1 DEF Queued, Differ
    <3>2. ASSUME NEW j \in 1 .. Len(q), q[j] = x, x # w PROVE Queued(t, x)
      BY <2>1, <2>8, <2>10, <3>2 DEF Queued
    <3> QED BY <3>1, <3>2 DEF Queued
  <2> QED BY <2>6, <2>11, <2>12 DEF t
<1> QED
  BY <1>2, <1>3

\* _advance, on any queue and owner: it hands a free turn to a waiting worker, skips
\* only cancelled ones, and leaves the turn free only over an empty queue.
LEMMA Advances ==
    ASSUME NEW q, NEW o, NEW pcs, Sound(q, o, pcs), Advance(q, o)
    PROVE  /\ Sound(queue', owner', pcs)
           /\ owner' = None => o # None \/ queue' = <<>>
           /\ \A w \in Worker \ cancelled :
                 o = w \/ Queued(q, w) => owner' = w \/ Queued(queue', w)
<1> DEFINE I == {i \in 1 .. Len(q) : q[i] \notin cancelled}
           k == FirstLive(q)
<1>1. q \in Seq(Worker) /\ Len(q) \in Nat /\ \A i \in 1 .. Len(q) : q[i] \in Worker
  BY LenProperties, ElementOfSeq DEF Sound
<1>2. None \notin Worker
  BY WorkerAssumption
<1>3. CASE o # None
  BY <1>3 DEF Advance
<1>4. CASE o = None /\ I = {}
  <2>1. FirstLive(q) = 0
    BY <1>4 DEF FirstLive, SelectInSeq
  <2>2. owner' = None /\ queue' = <<>>
    BY <1>4, <2>1 DEF Advance
  <2>3. <<>> \in Seq(Worker) /\ Len(<<>>) = 0
    BY EmptySeq
  <2>4. Sound(queue', owner', pcs)
    BY <2>2, <2>3 DEF Sound, Differ
  <2>5. \A w \in Worker \ cancelled : ~Queued(q, w)
    BY <1>4 DEF Queued
  <2> QED BY <1>2, <1>4, <2>2, <2>4, <2>5
<1>5. CASE o = None /\ I # {}
  <2>1. k = Min(I)
    BY <1>5 DEF FirstLive, SelectInSeq
  <2>2. k \in I /\ \A i \in I : k <= i
    <3>1. I \in SUBSET Nat /\ I # {}
      BY <1>1, <1>5
    <3> HIDE DEF I
    <3> QED BY <2>1, <3>1, Least
  <2> HIDE DEF k
  <2>3. k \in 1 .. Len(q) /\ q[k] \notin cancelled /\ k # 0
    BY <2>2
  <2>4. owner' = q[k] /\ queue' = SubSeq(q, k + 1, Len(q))
    BY <1>5, <2>3 DEF Advance, k
  <2>5. /\ queue' \in Seq(Worker) /\ Len(queue') = Len(q) - k
        /\ \A i \in 1 .. Len(q) - k : queue'[i] = q[k + i]
    BY <1>1, <2>3, <2>4, SubSeqProperties
  <2>6. \A i \in 1 .. Len(queue') : k + i \in 1 .. Len(q) /\ k + i # k /\ queue'[i] = q[k + i]
    BY <1>1, <2>3, <2>5
  <2>7. Differ(queue')
    <3> SUFFICES ASSUME NEW i \in 1 .. Len(queue'), NEW j \in 1 .. Len(queue'), queue'[i] = queue'[j]
                 PROVE  i = j
      BY DEF Differ
    <3>1. k + i \in 1 .. Len(q) /\ k + j \in 1 .. Len(q) /\ q[k + i] = q[k + j]
      BY <2>6
    <3>2. k + i = k + j
      BY <3>1 DEF Sound, Differ
    <3> QED BY <1>1, <2>3, <2>5, <3>2
  <2>8. ASSUME NEW i \in 1 .. Len(queue') PROVE pcs[queue'[i]] = "waiting" /\ queue'[i] # owner'
    <3>1. k + i \in 1 .. Len(q) /\ k + i # k /\ queue'[i] = q[k + i]
      BY <2>6
    <3>2. pcs[q[k + i]] = "waiting" /\ q[k + i] # q[k]
      BY <2>3, <3>1 DEF Sound, Differ
    <3> QED BY <2>4, <3>1, <3>2
  <2>9. owner' \in Worker /\ pcs[owner'] = "waiting"
    BY <1>1, <2>3, <2>4 DEF Sound
  <2>10. Sound(queue', owner', pcs)
    BY <2>5, <2>7, <2>8, <2>9 DEF Sound
  <2>11. ASSUME NEW w \in Worker \ cancelled, Queued(q, w) PROVE owner' = w \/ Queued(queue', w)
    <3>1. PICK i \in 1 .. Len(q) : q[i] = w
      BY <2>11 DEF Queued
    <3>2. k <= i
      BY <2>2, <3>1
    <3>3. CASE i = k
      BY <2>4, <3>1, <3>3
    <3>4. CASE k < i
      <4>1. i - k \in 1 .. Len(queue') /\ k + (i - k) = i
        BY <1>1, <2>3, <2>5, <3>4
      <4> QED BY <2>6, <3>1, <4>1 DEF Queued
    <3> QED BY <2>3, <3>1, <3>2, <3>3, <3>4
  <2> QED BY <1>2, <1>5, <2>9, <2>10, <2>11
<1> QED
  BY <1>3, <1>4, <1>5

-----------------------------------------------------------------------------
(* The tasks.                                                              *)

Tasks ==
    /\ pc \in [Worker -> {"loop", "enumerating", "picked", "waiting", "turn", "stopped"}]
    /\ cont \in [Worker -> [Account -> {"absent", "idle", "ready", "deferred", "due"}]]
    /\ contAt \in [Worker -> {"none", "now", "later"}]
    /\ round = [w \in Worker |-> round[w]]

\* An enumeration starts from an empty round.
EnumerationsStartEmpty == \A w \in Worker : pc[w] = "enumerating" => round[w] = <<>>

TurnsAreOwned == \A w \in Worker : pc[w] = "turn" => owner = w

LiveAreQueued ==
    \A w \in Worker : pc[w] = "waiting" /\ w \notin cancelled => owner = w \/ Queued(queue, w)

FreeMeansEmpty == owner = None => queue = <<>>

Scheduled == Sound(queue, owner, pc) /\ TurnsAreOwned /\ LiveAreQueued /\ FreeMeansEmpty

\* The scheduler hands out sound registrations, and a worker arms its timer with the
\* round it has in hand, unless reading the accounts fails.
IInv ==
    /\ Tasks
    /\ EnumerationsStartEmpty
    /\ Scheduled
    /\ "enumeration" \notin Faults => ContinuationArmed

LEMMA InitIInv == Init => IInv
<1> SUFFICES ASSUME Init PROVE IInv
  OBVIOUS
<1>1. Tasks /\ EnumerationsStartEmpty
  BY DEF Init, Memory, Tasks, EnumerationsStartEmpty
<1>2. Scheduled
  <2>1. <<>> \in Seq(Worker) /\ Len(<<>>) = 0
    BY EmptySeq
  <2> QED BY <2>1 DEF Init, Memory, Scheduled, Sound, Differ, TurnsAreOwned, LiveAreQueued, FreeMeansEmpty
<1>3. ContinuationArmed
  BY DEF Init, Memory, ContinuationArmed
<1> QED
  BY <1>1, <1>2, <1>3 DEF IInv

\* A step that moves no task but between the states outside the scheduler.
LEMMA Elsewhere ==
    ASSUME Scheduled, UNCHANGED <<queue, owner, cancelled>>, Tasks, Tasks',
           \A w \in Worker : pc'[w] = pc[w]
              \/ /\ pc[w] \notin {"waiting", "turn"} /\ pc'[w] \notin {"waiting", "turn"}
    PROVE  Scheduled'
<1>1. \A i \in 1 .. Len(queue) : queue[i] \in Worker
  BY LenProperties, ElementOfSeq DEF Scheduled, Sound
<1>2. Sound(queue', owner', pc')
  BY <1>1 DEF Scheduled, Sound
<1>3. TurnsAreOwned' /\ LiveAreQueued' /\ FreeMeansEmpty'
  BY DEF Scheduled, TurnsAreOwned, LiveAreQueued, FreeMeansEmpty
<1> QED
  BY <1>2, <1>3 DEF Scheduled

\* A step that ends in _advance, on the queue q and owner o it has made by then.
LEMMA AfterAdvance ==
    ASSUME NEW q, NEW o, Sound(q, o, pc'), Advance(q, o), cancelled' = cancelled,
           \A w \in Worker : pc'[w] = "turn" => o = w,
           \A w \in Worker \ cancelled : pc'[w] = "waiting" => o = w \/ Queued(q, w)
    PROVE  Scheduled'
<1>1. /\ Sound(queue', owner', pc')
      /\ owner' = None => o # None \/ queue' = <<>>
      /\ \A w \in Worker \ cancelled : o = w \/ Queued(q, w) => owner' = w \/ Queued(queue', w)
  BY Advances
<1>2. o # None => owner' = o
  BY DEF Advance
<1>3. None \notin Worker
  BY WorkerAssumption
<1>4. TurnsAreOwned' /\ FreeMeansEmpty'
  BY <1>1, <1>2, <1>3 DEF TurnsAreOwned, FreeMeansEmpty
<1>5. LiveAreQueued'
  BY <1>1 DEF LiveAreQueued, Queued
<1> QED
  BY <1>1, <1>4, <1>5 DEF Scheduled

\* What the scheduler's invariant says of one worker.
LEMMA OfOneWorker ==
    ASSUME Scheduled, NEW w \in Worker
    PROVE  /\ \A i \in 1 .. Len(queue) : queue[i] \in Worker
           /\ Queued(queue, w) => pc[w] = "waiting"
           /\ owner = w => pc[w] \in {"waiting", "turn"} /\ ~Queued(queue, w)
           /\ pc[w] = "turn" => owner = w
<1>1. \A i \in 1 .. Len(queue) : queue[i] \in Worker
  BY LenProperties, ElementOfSeq DEF Scheduled, Sound
<1>2. None \notin Worker
  BY WorkerAssumption
<1> QED
  BY <1>1, <1>2 DEF Scheduled, Sound, TurnsAreOwned, Queued

\* A registration joins the queue at its end.
LEMMA RegisterScheduled == ASSUME IInv, NEW w \in Worker, Register(w) PROVE Scheduled'
<1> DEFINE q == Append(queue, w)
<1>1. /\ pc[w] = "picked" /\ w \notin cancelled /\ Advance(q, owner) /\ cancelled' = cancelled
      /\ pc' = [pc EXCEPT ![w] = "waiting"] /\ Tasks /\ Scheduled
  BY DEF Register, IInv
<1>2. /\ queue \in Seq(Worker) /\ Len(queue) \in Nat
      /\ \A i \in 1 .. Len(queue) : queue[i] \in Worker /\ queue[i] # w
      /\ owner # w
  BY <1>1, OfOneWorker, LenProperties DEF Scheduled, Sound, Queued
<1>3. /\ q \in Seq(Worker) /\ Len(q) = Len(queue) + 1
      /\ \A i \in 1 .. Len(q) : q[i] = IF i = Len(queue) + 1 THEN w ELSE queue[i]
  BY <1>2, AppendProperties
<1>4. \A x \in Worker : pc'[x] = IF x = w THEN "waiting" ELSE pc[x]
  BY <1>1 DEF Tasks
<1> HIDE DEF q
<1>5. Differ(q)
  BY <1>1, <1>2, <1>3 DEF Scheduled, Sound, Differ
<1>6. \A i \in 1 .. Len(q) : pc'[q[i]] = "waiting" /\ q[i] # owner
  BY <1>1, <1>2, <1>3, <1>4 DEF Scheduled, Sound
<1>7. Sound(q, owner, pc')
  BY <1>1, <1>3, <1>4, <1>5, <1>6 DEF Scheduled, Sound
<1>8. \A x : Queued(q, x) <=> Queued(queue, x) \/ x = w
  BY <1>2, <1>3 DEF Queued
<1>9. \A x \in Worker \ cancelled : pc'[x] = "waiting" => owner = x \/ Queued(q, x)
  BY <1>1, <1>4, <1>8 DEF Scheduled, LiveAreQueued
<1>10. \A x \in Worker : pc'[x] = "turn" => owner = x
  BY <1>1, <1>4 DEF Scheduled, TurnsAreOwned
<1> QED
  BY <1>1, <1>7, <1>9, <1>10, AfterAdvance

\* A worker that waits or is in its turn leaves the scheduler for good.
LEMMA LeavesScheduled ==
    ASSUME IInv, NEW w \in Worker, NEW q, NEW x, x \notin {"waiting", "turn"},
           pc' = [pc EXCEPT ![w] = x], cancelled' = cancelled,
           q \in Seq(Worker), Differ(q), \A y : Queued(q, y) <=> Queued(queue, y) /\ y # w,
           Advance(q, IF owner = w THEN None ELSE owner)
    PROVE  Scheduled'
<1> DEFINE o == IF owner = w THEN None ELSE owner
<1>1. Tasks /\ Scheduled /\ None \notin Worker
  BY WorkerAssumption DEF IInv
<1>2. \A y \in Worker : pc'[y] = IF y = w THEN x ELSE pc[y]
  BY <1>1 DEF Tasks
<1>3. \A i \in 1 .. Len(q) : q[i] \in Worker /\ Queued(q, q[i])
  BY LenProperties, ElementOfSeq DEF Queued
<1>4. \A y : Queued(queue, y) => pc[y] = "waiting" /\ y # owner
  BY <1>1 DEF Scheduled, Sound, Queued
<1>5. \A i \in 1 .. Len(q) : pc'[q[i]] = "waiting" /\ q[i] # o
  BY <1>1, <1>2, <1>3, <1>4
<1>6. o \in Worker \cup {None} /\ (o # None => pc'[o] \in {"waiting", "turn"})
  BY <1>1, <1>2 DEF Scheduled, Sound
<1>7. Sound(q, o, pc')
  BY <1>5, <1>6 DEF Sound
<1>8. \A y \in Worker \ cancelled : pc'[y] = "waiting" => o = y \/ Queued(q, y)
  BY <1>1, <1>2 DEF Scheduled, LiveAreQueued
<1>9. \A y \in Worker : pc'[y] = "turn" => o = y
  BY <1>1, <1>2 DEF Scheduled, TurnsAreOwned
<1> HIDE DEF o
<1>10. Advance(q, o)
  BY DEF o
<1> QED
  BY <1>7, <1>8, <1>9, <1>10, AfterAdvance

\* The end of a turn, whatever its outcome, frees the turn for the next in the queue.
LEMMA EndsScheduled ==
    ASSUME IInv, NEW w \in Worker, FinishTurn(w) \/ DeferTurn(w) \/ FailTurn(w)
    PROVE  Scheduled'
<1>1. /\ pc[w] = "turn" /\ Advance(queue, None) /\ cancelled' = cancelled
      /\ pc' = [pc EXCEPT ![w] = "loop"]
  BY DEF FinishTurn, DeferTurn, FailTurn, Settle
<1>2. owner = w /\ ~Queued(queue, w)
  BY <1>1, OfOneWorker DEF IInv
<1>3. queue \in Seq(Worker) /\ Differ(queue) /\ \A y : Queued(queue, y) <=> Queued(queue, y) /\ y # w
  BY <1>2 DEF IInv, Scheduled, Sound
<1>4. Advance(queue, IF owner = w THEN None ELSE owner)
  BY <1>1, <1>2
<1> DEFINE q == queue
           x == "loop"
<1>5. x \notin {"waiting", "turn"} /\ pc' = [pc EXCEPT ![w] = x]
  BY <1>1
<1>6. q \in Seq(Worker) /\ Differ(q) /\ \A y : Queued(q, y) <=> Queued(queue, y) /\ y # w
  BY <1>3
<1>7. Advance(q, IF owner = w THEN None ELSE owner)
  BY <1>4
<1> HIDE DEF q, x
<1> QED
  BY <1>1, <1>5, <1>6, <1>7, LeavesScheduled

\* A cancelled worker leaves wherever it stands.
LEMMA UnwindScheduled == ASSUME IInv, NEW w \in Worker, Unwind(w) PROVE Scheduled'
<1>1. /\ w \in cancelled /\ cancelled' = cancelled /\ pc' = [pc EXCEPT ![w] = "stopped"]
      /\ IF pc[w] \in {"waiting", "turn"}
         THEN Advance(RemoveFirst(queue, w), IF owner = w THEN None ELSE owner)
         ELSE UNCHANGED <<queue, owner>>
  BY DEF Unwind, sched
<1>2. Tasks /\ Scheduled /\ queue \in Seq(Worker) /\ Differ(queue)
  BY DEF IInv, Scheduled, Sound
<1>3. CASE pc[w] \in {"waiting", "turn"}
  <2> DEFINE q == RemoveFirst(queue, w)
  <2>1. q \in Seq(Worker) /\ Differ(q) /\ \A y : Queued(q, y) <=> Queued(queue, y) /\ y # w
    BY <1>2, Removal
  <2>2. Advance(q, IF owner = w THEN None ELSE owner) /\ "stopped" \notin {"waiting", "turn"}
    BY <1>1, <1>3
  <2> HIDE DEF q
  <2> QED BY <1>1, <2>1, <2>2, LeavesScheduled
<1>4. CASE pc[w] \notin {"waiting", "turn"}
  <2>2. \A y \in Worker : pc'[y] = IF y = w THEN "stopped" ELSE pc[y]
    BY <1>1, <1>2 DEF Tasks
  <2>3. queue' = queue /\ owner' = owner
    BY <1>1, <1>4
  <2>4. \A i \in 1 .. Len(queue) : queue[i] \in Worker /\ queue[i] # w
    BY <1>2, <1>4, OfOneWorker DEF Queued
  <2>5. owner # w
    BY <1>2, <1>4, OfOneWorker
  <2>6. Sound(queue', owner', pc')
    BY <1>2, <2>2, <2>3, <2>4, <2>5 DEF Scheduled, Sound
  <2>7. TurnsAreOwned' /\ LiveAreQueued' /\ FreeMeansEmpty'
    BY <1>1, <1>2, <2>2, <2>3 DEF Scheduled, TurnsAreOwned, LiveAreQueued, FreeMeansEmpty, Queued
  <2> QED BY <2>6, <2>7 DEF Scheduled
<1> QED
  BY <1>3, <1>4

-----------------------------------------------------------------------------
(* The steps.                                                              *)

\* The tasks keep their types.
LEMMA NextTasks == IInv /\ [Next]_vars => Tasks'
<1> SUFFICES ASSUME IInv, [Next]_vars PROVE Tasks'
  OBVIOUS
<1> USE DEF db, loop, rota, sched, history
<1>1. Tasks
  BY DEF IInv
<1>2. UNCHANGED <<pc, cont, contAt, round>> => Tasks'
  BY <1>1 DEF Tasks
<1>3. \A c, r : NextContinuation(c, r) \in {"none", "now", "later"}
  BY DEF NextContinuation
<1>4. ASSUME NEW w \in Worker, NEW outcome \in {"idle", "ready", "deferred"}, Settle(w, outcome)
      PROVE  Tasks'
  <2>1. pc' = [pc EXCEPT ![w] = "loop"] /\ round' = round
    BY <1>4 DEF Settle
  <2>2. cont' \in [Worker -> [Account -> {"absent", "idle", "ready", "deferred", "due"}]]
    BY <1>1, <1>4 DEF Settle, Tasks
  <2>3. contAt' \in [Worker -> {"none", "now", "later"}]
    <3>1. contAt' = [contAt EXCEPT ![w] = NextContinuation(cont'[w], round[w])]
      BY <1>4 DEF Settle, ScheduleContinuation
    <3> QED BY <1>1, <1>3, <3>1 DEF Tasks
  <2> QED BY <1>1, <2>1, <2>2, <2>3 DEF Tasks
<1>5. CASE Restart
  BY <1>1, <1>5 DEF Restart, Tasks
<1>6. ASSUME NEW w \in Worker, NEW a \in Account, DeferralElapses(w, a) PROVE Tasks'
  BY <1>1, <1>6 DEF DeferralElapses, Tasks
<1>7. ASSUME NEW w \in Worker, NEW poked \in BOOLEAN, NEW swept \in BOOLEAN, NEW resumed \in BOOLEAN,
             Wake(w, poked, swept, resumed)
      PROVE  Tasks'
  <2>1. WakeCycle(w) \in [Account -> {"absent", "idle", "ready", "deferred", "due"}]
    BY <1>1 DEF WakeCycle, Tasks
  <2>2. cont' \in [Worker -> [Account -> {"absent", "idle", "ready", "deferred", "due"}]]
    BY <1>1, <1>7, <2>1 DEF Wake, Tasks
  <2>3. contAt' \in [Worker -> {"none", "now", "later"}]
    BY <1>1, <1>7 DEF Wake, Tasks
  <2>4. /\ pc' \in [Worker -> {"loop", "enumerating", "picked", "waiting", "turn", "stopped"}]
        /\ round' = [x \in Worker |-> round'[x]]
    BY <1>1, <1>7 DEF Wake, Tasks
  <2> QED BY <2>2, <2>3, <2>4 DEF Tasks
<1>8. ASSUME NEW w \in Worker, Enumerate(w) PROVE Tasks'
  <2>1. Known(w) \in [Account -> {"absent", "idle", "ready", "deferred", "due"}]
    BY <1>1 DEF Known, Tasks
  <2>2. cont' \in [Worker -> [Account -> {"absent", "idle", "ready", "deferred", "due"}]]
    BY <1>1, <1>8, <2>1 DEF Enumerate, Tasks
  <2>3. contAt' \in [Worker -> {"none", "now", "later"}]
    BY <1>1, <1>3, <1>8 DEF Enumerate, Tasks
  <2>4. /\ pc' \in [Worker -> {"loop", "enumerating", "picked", "waiting", "turn", "stopped"}]
        /\ round' = [x \in Worker |-> round'[x]]
    BY <1>1, <1>8 DEF Enumerate, Tasks
  <2> QED BY <2>2, <2>3, <2>4 DEF Tasks
<1>9. ASSUME NEW w \in Worker, BeforeTurnFails(w) \/ FinishTurn(w) \/ DeferTurn(w) \/ FailTurn(w)
      PROVE  Tasks'
  <2>1. \E outcome \in {"idle", "ready", "deferred"} : Settle(w, outcome)
    BY <1>9 DEF BeforeTurnFails, FinishTurn, DeferTurn, FailTurn
  <2> QED BY <1>4, <2>1
<1>10. ASSUME NEW w \in Worker,
              EnumerationFails(w) \/ Register(w) \/ BeginTurn(w) \/ Unwind(w)
       PROVE  Tasks'
  BY <1>1, <1>10 DEF EnumerationFails, Register, BeginTurn, Unwind, Tasks
<1>11. ASSUME NEW w \in Worker, Cancel(w) PROVE Tasks'
  BY <1>2, <1>11 DEF Cancel
<1>12. ASSUME NEW w \in Worker, NEW a \in Account, NEW poked \in BOOLEAN, Produce(w, a, poked)
       PROVE  Tasks'
  BY <1>2, <1>12 DEF Produce
<1>13. ASSUME NEW a \in Toggled, ToggleAccount(a) PROVE Tasks'
  BY <1>2, <1>13 DEF ToggleAccount
<1>14. CASE UNCHANGED vars
  BY <1>2, <1>14 DEF vars
<1> QED
  BY <1>5, <1>6, <1>7, <1>8, <1>9, <1>10, <1>11, <1>12, <1>13, <1>14 DEF Next

\* The scheduler stays sound.
LEMMA NextScheduled == IInv /\ [Next]_vars => Scheduled'
<1> SUFFICES ASSUME IInv, [Next]_vars PROVE Scheduled'
  OBVIOUS
<1> USE DEF db, loop, rota, sched, history
<1>1. Tasks /\ Tasks' /\ Scheduled
  BY NextTasks DEF IInv
<1>2. ASSUME UNCHANGED <<pc, queue, owner, cancelled>> PROVE Scheduled'
  BY <1>1, <1>2, Elsewhere
<1>3. ASSUME NEW w \in Worker, UNCHANGED <<queue, owner, cancelled>>,
             pc[w] \in {"loop", "enumerating", "picked"},
             \E x \in {"loop", "enumerating", "picked"} : pc' = [pc EXCEPT ![w] = x]
      PROVE  Scheduled'
  <2>1. \A y \in Worker : pc'[y] = pc[y] \/ (pc[y] \notin {"waiting", "turn"} /\ pc'[y] \notin {"waiting", "turn"})
    BY <1>1, <1>3 DEF Tasks
  <2> QED BY <1>1, <1>3, <2>1, Elsewhere
<1>4. CASE Restart
  <2>1. <<>> \in Seq(Worker) /\ Len(<<>>) = 0
    BY EmptySeq
  <2> QED BY <1>4, <2>1 DEF Restart, Scheduled, Sound, Differ, TurnsAreOwned, LiveAreQueued, FreeMeansEmpty
<1>5. ASSUME NEW w \in Worker, NEW poked \in BOOLEAN, NEW swept \in BOOLEAN, NEW resumed \in BOOLEAN,
             Wake(w, poked, swept, resumed)
      PROVE  Scheduled'
  BY <1>3, <1>5 DEF Wake
<1>6. ASSUME NEW w \in Worker, Enumerate(w) \/ EnumerationFails(w) \/ BeforeTurnFails(w)
      PROVE  Scheduled'
  BY <1>3, <1>6 DEF Enumerate, EnumerationFails, BeforeTurnFails, Settle
<1>7. ASSUME NEW w \in Worker, BeginTurn(w) PROVE Scheduled'
  <2>1. /\ pc[w] = "waiting" /\ owner = w /\ UNCHANGED <<queue, owner, cancelled>>
        /\ \A y \in Worker : pc'[y] = IF y = w THEN "turn" ELSE pc[y]
    BY <1>1, <1>7 DEF BeginTurn, Tasks
  <2>2. \A i \in 1 .. Len(queue) : queue[i] \in Worker
    BY <1>1, OfOneWorker
  <2>3. Sound(queue', owner', pc')
    BY <1>1, <2>1, <2>2 DEF Scheduled, Sound
  <2>4. TurnsAreOwned' /\ LiveAreQueued' /\ FreeMeansEmpty'
    BY <1>1, <2>1 DEF Scheduled, TurnsAreOwned, LiveAreQueued, FreeMeansEmpty
  <2> QED BY <2>3, <2>4 DEF Scheduled
<1>8. ASSUME NEW w \in Worker, Cancel(w) PROVE Scheduled'
  BY <1>1, <1>8 DEF Cancel, Scheduled, Sound, TurnsAreOwned, LiveAreQueued, FreeMeansEmpty
<1>9. ASSUME NEW w \in Worker,
             Register(w) \/ FinishTurn(w) \/ DeferTurn(w) \/ FailTurn(w) \/ Unwind(w)
      PROVE  Scheduled'
  BY <1>9, RegisterScheduled, EndsScheduled, UnwindScheduled
<1>10. ASSUME NEW w \in Worker, NEW a \in Account, DeferralElapses(w, a) PROVE Scheduled'
  BY <1>2, <1>10 DEF DeferralElapses
<1>11. ASSUME NEW w \in Worker, NEW a \in Account, NEW poked \in BOOLEAN, Produce(w, a, poked)
       PROVE  Scheduled'
  BY <1>2, <1>11 DEF Produce
<1>12. ASSUME NEW a \in Toggled, ToggleAccount(a) PROVE Scheduled'
  BY <1>2, <1>12 DEF ToggleAccount
<1>13. CASE UNCHANGED vars
  BY <1>2, <1>13 DEF vars
<1> QED
  BY <1>4, <1>5, <1>6, <1>7, <1>8, <1>9, <1>10, <1>11, <1>12, <1>13 DEF Next

\* What ContinuationArmed says of one worker.
Armed(w) ==
    pc[w] = "loop" =>
        /\ round[w] # <<>> \/ (\E a \in Account : cont[w][a] = "ready") => contAt[w] = "now"
        /\ (\E a \in Account : cont[w][a] \in {"deferred", "due"}) => contAt[w] # "none"

\* A worker that a step leaves alone stays as it was.
LEMMA OthersArmed ==
    ASSUME IInv, NEW x \in Worker, pc'[x] = pc[x], round'[x] = round[x], contAt'[x] = contAt[x],
           cont'[x] = cont[x], "enumeration" \notin Faults
    PROVE  Armed(x)' /\ (pc'[x] = "enumerating" => round'[x] = <<>>)
BY DEF IInv, ContinuationArmed, EnumerationsStartEmpty, Armed

\* A worker goes back to its loop with its timer set for what is left.
LEMMA Schedules ==
    ASSUME NEW w \in Worker, contAt'[w] = NextContinuation(cont'[w], round'[w])
    PROVE  Armed(w)'
BY DEF Armed, NextContinuation

\* No worker goes back to its loop with something to do and no timer, and none reads
\* the accounts while it has accounts left.
LEMMA NextArmed ==
    IInv /\ [Next]_vars => EnumerationsStartEmpty' /\ ("enumeration" \notin Faults => ContinuationArmed')
<1> SUFFICES ASSUME IInv, [Next]_vars
             PROVE  \A x \in Worker :
                       /\ pc'[x] = "enumerating" => round'[x] = <<>>
                       /\ "enumeration" \notin Faults => Armed(x)'
  BY DEF EnumerationsStartEmpty, ContinuationArmed, Armed
<1> USE DEF db, loop, rota, sched, history
<1> TAKE x \in Worker
<1> DEFINE Kept == /\ pc'[x] = "enumerating" => round'[x] = <<>>
                   /\ "enumeration" \notin Faults => Armed(x)'
<1>1. Tasks /\ EnumerationsStartEmpty
  BY DEF IInv
<1>2. ASSUME pc'[x] = pc[x], round'[x] = round[x], contAt'[x] = contAt[x], cont'[x] = cont[x]
      PROVE  Kept
  BY <1>1, <1>2, OthersArmed DEF EnumerationsStartEmpty
<1>3. ASSUME pc'[x] \notin {"loop", "enumerating"} PROVE Kept
  BY <1>3 DEF Armed
<1> HIDE DEF Kept
<1>4. ASSUME NEW w \in Worker, NEW outcome \in {"idle", "ready", "deferred"}, Settle(w, outcome)
      PROVE  Kept
  <2>1. /\ pc' = [pc EXCEPT ![w] = "loop"] /\ round' = round
        /\ contAt' = [contAt EXCEPT ![w] = NextContinuation(cont'[w], round[w])]
        /\ cont' = [cont EXCEPT ![w][current[w]] = outcome]
    BY <1>4 DEF Settle, ScheduleContinuation
  <2>2. CASE x = w
    <3>1. pc'[x] = "loop" /\ contAt'[x] = NextContinuation(cont'[x], round'[x])
      BY <1>1, <2>1, <2>2 DEF Tasks
    <3> QED BY <3>1, Schedules DEF Kept
  <2>3. CASE x # w
    BY <1>1, <1>2, <2>1, <2>3 DEF Tasks
  <2> QED BY <2>2, <2>3
<1>5. ASSUME Restart PROVE Kept
  BY <1>5 DEF Restart, Kept, Armed
<1>6. ASSUME NEW w \in Worker, NEW a \in Account, DeferralElapses(w, a) PROVE Kept
  <2>1. /\ cont[w][a] = "deferred" /\ UNCHANGED <<pc, round, contAt>>
        /\ cont' = [cont EXCEPT ![w][a] = "due"]
    BY <1>6 DEF DeferralElapses
  <2>2. CASE x = w
    <3>1. \A b \in Account : cont'[x][b] = IF b = a THEN "due" ELSE cont[x][b]
      BY <1>1, <2>1, <2>2 DEF Tasks
    <3>2. "enumeration" \notin Faults => Armed(x)
      BY DEF IInv, ContinuationArmed, Armed
    <3>3. "enumeration" \notin Faults => Armed(x)'
      BY <2>1, <2>2, <3>1, <3>2 DEF Armed
    <3> QED BY <1>1, <2>1, <3>3 DEF Kept, EnumerationsStartEmpty
  <2>3. CASE x # w
    BY <1>1, <1>2, <2>1, <2>3 DEF Tasks
  <2> QED BY <2>2, <2>3
<1>7. ASSUME NEW w \in Worker, NEW poked \in BOOLEAN, NEW swept \in BOOLEAN, NEW resumed \in BOOLEAN,
             Wake(w, poked, swept, resumed)
      PROVE  Kept
  <2>1. CASE x = w
    <3>1. CASE round[w] = <<>>
      <4>1. pc'[x] = "enumerating" /\ round'[x] = <<>>
        BY <1>1, <1>7, <2>1, <3>1 DEF Wake, Tasks
      <4> QED BY <4>1 DEF Kept, Armed
    <3>2. CASE round[w] # <<>>
      <4>1. pc'[x] = "picked"
        BY <1>1, <1>7, <2>1, <3>2 DEF Wake, Tasks
      <4> QED BY <1>3, <4>1
    <3> QED BY <3>1, <3>2
  <2>2. CASE x # w
    <3>1. pc'[x] = pc[x] /\ round'[x] = round[x]
      BY <1>1, <1>7, <2>2 DEF Wake, Tasks
    <3>2. contAt'[x] = contAt[x] /\ cont'[x] = cont[x]
      BY <1>1, <1>7, <2>2 DEF Wake, Tasks
    <3> QED BY <1>2, <3>1, <3>2
  <2> QED BY <2>1, <2>2
<1>8. ASSUME NEW w \in Worker, Enumerate(w) PROVE Kept
  <2> DEFINE next == Rotated({a \in Account : Known(w)[a] \in {"ready", "due"}}, lastRound[w])
  <2>1. pc[w] = "enumerating" /\ round[w] = <<>> /\ cont' = [cont EXCEPT ![w] = Known(w)]
    BY <1>1, <1>8 DEF Enumerate, EnumerationsStartEmpty
  <2>2. IF next = <<>>
        THEN /\ pc' = [pc EXCEPT ![w] = "loop"] /\ round' = round
             /\ contAt' = [contAt EXCEPT ![w] = NextContinuation(Known(w), <<>>)]
        ELSE /\ pc' = [pc EXCEPT ![w] = "picked"] /\ contAt' = contAt
             /\ round' = [round EXCEPT ![w] = Tail(next)]
    BY <1>8 DEF Enumerate
  <2> HIDE DEF next
  <2>3. CASE x = w /\ next = <<>>
    <3>1. pc'[x] = "loop" /\ contAt'[x] = NextContinuation(cont'[x], round'[x])
      BY <1>1, <2>1, <2>2, <2>3 DEF Tasks
    <3> QED BY <3>1, Schedules DEF Kept
  <2>4. CASE x = w /\ next # <<>>
    <3>1. pc'[x] = "picked"
      BY <1>1, <2>2, <2>4 DEF Tasks
    <3> QED BY <1>3, <3>1
  <2>5. CASE x # w
    <3>1. pc'[x] = pc[x] /\ round'[x] = round[x] /\ contAt'[x] = contAt[x] /\ cont'[x] = cont[x]
      BY <1>1, <2>1, <2>2, <2>5 DEF Tasks
    <3> QED BY <1>2, <3>1
  <2> QED BY <2>3, <2>4, <2>5
<1>9. ASSUME NEW w \in Worker, EnumerationFails(w) PROVE Kept
  <2>1. /\ "enumeration" \in Faults /\ UNCHANGED <<cont, contAt, round>>
        /\ \A y \in Worker : pc'[y] = IF y = w THEN "loop" ELSE pc[y]
    BY <1>1, <1>9 DEF EnumerationFails, Tasks
  <2> QED BY <1>1, <2>1 DEF Kept, EnumerationsStartEmpty
<1>10. ASSUME NEW w \in Worker, BeforeTurnFails(w) \/ FinishTurn(w) \/ DeferTurn(w) \/ FailTurn(w)
       PROVE  Kept
  <2>1. \E outcome \in {"idle", "ready", "deferred"} : Settle(w, outcome)
    BY <1>10 DEF BeforeTurnFails, FinishTurn, DeferTurn, FailTurn
  <2> QED BY <1>4, <2>1
<1>11. ASSUME NEW w \in Worker, Register(w) \/ BeginTurn(w) \/ Unwind(w) PROVE Kept
  <2>1. /\ UNCHANGED <<cont, contAt, round>>
        /\ \E z \in {"waiting", "turn", "stopped"} : pc' = [pc EXCEPT ![w] = z]
    BY <1>11 DEF Register, BeginTurn, Unwind
  <2>2. pc'[x] = pc[x] \/ pc'[x] \in {"waiting", "turn", "stopped"}
    BY <1>1, <2>1 DEF Tasks
  <2> QED BY <1>2, <1>3, <2>1, <2>2
<1>12. ASSUME UNCHANGED <<pc, round, contAt, cont>> PROVE Kept
  BY <1>2, <1>12
<1>13. ASSUME NEW w \in Worker, Cancel(w) PROVE Kept
  BY <1>12, <1>13 DEF Cancel
<1>14. ASSUME NEW w \in Worker, NEW a \in Account, NEW poked \in BOOLEAN, Produce(w, a, poked)
       PROVE  Kept
  BY <1>12, <1>14 DEF Produce
<1>15. ASSUME NEW a \in Toggled, ToggleAccount(a) PROVE Kept
  BY <1>12, <1>15 DEF ToggleAccount
<1>16. ASSUME UNCHANGED vars PROVE Kept
  BY <1>12, <1>16 DEF vars
<1>17. Kept
  BY <1>5, <1>6, <1>7, <1>8, <1>9, <1>10, <1>11, <1>13, <1>14, <1>15, <1>16 DEF Next
<1> QED
  BY <1>17 DEF Kept

-----------------------------------------------------------------------------
(* The theorems.                                                           *)

\* The invariant holds of every behaviour of the background workers.
THEOREM BackgroundInvariance == Spec => []IInv
<1>1. Init => IInv
  BY InitIInv
<1>2. IInv /\ [Next]_vars => IInv'
  BY NextTasks, NextScheduled, NextArmed DEF IInv
<1> QED
  BY <1>1, <1>2, PTL DEF Spec

\* Whatever is cancelled, fails or restarts, only the scheduler's owner is in a turn, a
\* registration is queued or owns the turn, and the turn is not free while one waits.
THEOREM RegistrationsAreServed == Spec => []RegistrationsServed
<1>1. IInv => RegistrationsServed
  <2> SUFFICES ASSUME IInv PROVE RegistrationsServed
    OBVIOUS
  <2>1. \A w \in Worker : pc[w] = "turn" => owner = w
    BY DEF IInv, Scheduled, TurnsAreOwned
  <2>2. \A w : Queued(queue, w) => w \in ToSet(queue)
    BY DEF Queued, ToSet
  <2>3. owner = None => ToSet(queue) \subseteq cancelled
    <3>1. ToSet(<<>>) = {}
      BY DEF ToSet
    <3> QED BY <3>1 DEF IInv, Scheduled, FreeMeansEmpty
  <2>4. owner # None => pc[owner] \in {"waiting", "turn"}
    BY DEF IInv, Scheduled, Sound
  <2> QED BY <2>1, <2>2, <2>3, <2>4 DEF RegistrationsServed, IInv, Scheduled, LiveAreQueued
<1> QED
  BY <1>1, BackgroundInvariance, PTL

\* As long as reading the accounts does not fail, no registration and no account with
\* something to do is forgotten (the loop sets no timer after a failed enumeration).
THEOREM WorkStaysRemembered == Spec => []("enumeration" \notin Faults => WorkIsRemembered)
<1>1. RegistrationsServed /\ IInv => ("enumeration" \notin Faults => WorkIsRemembered)
  BY DEF IInv, WorkIsRemembered
<1> QED
  BY <1>1, RegistrationsAreServed, BackgroundInvariance, PTL

-----------------------------------------------------------------------------
(* Rotation.                                                               *)

\* The eligible accounts, each at the place of its rank.
LEMMA RoundOfAll ==
    ASSUME NEW S \in SUBSET Account, NEW last \in Nat
    PROVE  /\ Rotated(S, last) \in Seq(Account)
           /\ Len(Rotated(S, last)) = Cardinality(S) /\ Cardinality(S) \in Nat
           /\ \A a \in S : \E i \in 1 .. Len(Rotated(S, last)) : Rotated(S, last)[i] = a
           /\ \A i \in 1 .. Len(Rotated(S, last)) : Rotated(S, last)[i] \in S
<1> DEFINE key(a) == IF a > last THEN a ELSE a + MaxAccount
           upTo(a) == {x \in S : key(x) <= key(a)}
           rank == [a \in S |-> Cardinality(upTo(a))]
           n == Cardinality(S)
<1>1. IsFiniteSet(S) /\ n \in Nat
  <2>1. 1 \in Int /\ MaxAccount \in Int
    BY AccountAssumption
  <2>2. IsFiniteSet(Account)
    BY <2>1, FS_Interval DEF Account
  <2> QED BY <2>2, FS_Subset, FS_CardinalityType
<1>2. \A a, b \in S : key(a) \in Nat /\ (key(a) = key(b) => a = b)
  BY AccountAssumption DEF Account
<1> HIDE DEF key
<1>3. ASSUME NEW a \in S
      PROVE  IsFiniteSet(upTo(a)) /\ Cardinality(upTo(a)) \in 1 .. n
  <2>1. upTo(a) \in SUBSET S /\ {a} \in SUBSET upTo(a)
    BY <1>2
  <2>2. IsFiniteSet(upTo(a)) /\ Cardinality(upTo(a)) <= n
    BY <1>1, <2>1, FS_Subset
  <2>3. Cardinality({a}) = 1 /\ Cardinality({a}) <= Cardinality(upTo(a))
    BY <2>1, <2>2, FS_Subset, FS_Singleton
  <2>4. Cardinality(upTo(a)) \in Nat
    BY <2>2, FS_CardinalityType
  <2> QED BY <1>1, <2>2, <2>3, <2>4
<1>4. ASSUME NEW a \in S, NEW b \in S, key(a) < key(b)
      PROVE  Cardinality(upTo(a)) # Cardinality(upTo(b))
  <2>1. upTo(a) \in SUBSET upTo(b) /\ b \in upTo(b) /\ b \notin upTo(a)
    BY <1>2, <1>4
  <2> HIDE DEF upTo
  <2> QED BY <1>3, <2>1, FS_Subset
<1>5. rank \in Injection(S, 1 .. n)
  <2>1. rank \in [S -> 1 .. n]
    BY <1>3
  <2>2. ASSUME NEW a \in S, NEW b \in S, rank[a] = rank[b] PROVE a = b
    <3>1. ~(key(a) < key(b)) /\ ~(key(b) < key(a))
      BY <1>4, <2>2
    <3> QED BY <1>2, <3>1
  <2> QED BY <2>1, <2>2 DEF Injection, IsInjective
<1>6. rank \in Surjection(S, 1 .. n)
  <2>1. IsFiniteSet(1 .. n) /\ Cardinality(1 .. n) = n
    <3>1. 1 \in Int /\ n \in Int
      BY <1>1
    <3> QED BY <3>1, <1>1, FS_Interval
  <2> HIDE DEF rank, n
  <2>2. Cardinality(S) = Cardinality(1 .. n)
    BY <2>1 DEF n
  <2> QED BY <1>5, <2>1, <2>2, FS_Injection
<1> DEFINE r == [i \in 1 .. n |-> CHOOSE a \in S : Cardinality(upTo(a)) = i]
<1>7. Rotated(S, last) = r
  BY DEF Rotated, key
<1>8. ASSUME NEW i \in 1 .. n PROVE r[i] \in S /\ rank[r[i]] = i
  <2>1. PICK a \in S : rank[a] = i
    BY <1>6 DEF Surjection
  <2>2. \E z \in S : Cardinality(upTo(z)) = i
    BY <2>1
  <2> HIDE DEF upTo
  <2> QED BY <2>2
<1>9. ASSUME NEW a \in S PROVE rank[a] \in 1 .. n /\ r[rank[a]] = a
  <2>1. rank[a] \in 1 .. n
    BY <1>3
  <2>2. r[rank[a]] \in S /\ rank[r[rank[a]]] = rank[a]
    BY <1>8, <2>1
  <2> HIDE DEF r, rank
  <2> QED BY <1>5, <2>1, <2>2 DEF Injection, IsInjective
<1>10. r \in Seq(Account) /\ Len(r) = n
  <2>1. \A i \in 1 .. n : r[i] \in Account
    BY <1>8
  <2>2. r \in [1 .. n -> Account]
    BY <2>1
  <2> HIDE DEF r, n
  <2> QED BY <1>1, <2>2, SeqDef, LenProperties
<1> HIDE DEF r, rank
<1> QED
  BY <1>1, <1>7, <1>8, <1>9, <1>10


-----------------------------------------------------------------------------
(* Bypassing.                                                              *)

\* An account is off the round and its turn has not begun.
Chosen(p) == IF p \in {"picked", "waiting"} THEN 1 ELSE 0
InHand(p) == IF p \in {"picked", "waiting", "turn"} THEN 1 ELSE 0

RoundFits(p, r) == r \in Seq(Account) /\ Len(r) + InHand(p) <= MaxAccount

\* a, which b turns have passed by, will be passed by at most the turns ahead of it in
\* the round r and k more.
Ahead(r, a, b, k) == \A i \in 1 .. Len(r) : r[i] = a => b + (i - 1) + k <= 2 * (MaxAccount - 1)

\* Unless it is in the round, a has a full round to spare when this one is over.
Spared(r, a, c, b, k) ==
    \/ \E i \in 1 .. Len(r) : r[i] = a
    \/ /\ b <= MaxAccount - 1
       /\ c # "absent" => b + Len(r) + k <= MaxAccount - 1

\* What a worker at p, serving cur, with the round r in hand owes account a, whose
\* continuation is c and which b turns have passed by.
Patient(p, cur, r, a, c, b) ==
    /\ b \in Nat /\ b <= 2 * (MaxAccount - 1)
    /\ (p = "turn" /\ cur = a) \/ c \in {"idle", "deferred"} => b = 0
    /\ p # "stopped" =>
          /\ Ahead(r, a, b, IF cur = a THEN 0 ELSE Chosen(p))
          /\ (Chosen(p) = 1 /\ cur = a) \/ Spared(r, a, c, b, Chosen(p))

LEMMA SomeAccount == \A a \in Account : MaxAccount \in Nat /\ MaxAccount >= 1
BY AccountAssumption DEF Account

\* A turn begins: everyone due is passed by once, the account served and the others
\* start again from zero.
LEMMA TurnBegins ==
    ASSUME NEW cur, NEW r, NEW a \in Account, NEW c, NEW b, NEW b2, NEW en \in BOOLEAN,
           RoundFits("waiting", r), Patient("waiting", cur, r, a, c, b),
           b2 = IF a = cur \/ ~(en /\ c \in {"ready", "due"}) THEN 0
                ELSE IF b < 2 * MaxAccount THEN b + 1 ELSE b
    PROVE  Patient("turn", cur, r, a, c, b2)
<1>1. MaxAccount \in Nat /\ MaxAccount >= 1 /\ Len(r) \in Nat /\ Len(r) + 1 <= MaxAccount /\ b \in Nat
  BY SomeAccount, LenProperties DEF RoundFits, InHand, Patient
<1>2. CASE b2 = 0
  BY <1>1, <1>2 DEF Patient, Chosen, Ahead, Spared
<1>3. CASE b2 # 0
  <2>1. a # cur /\ c \in {"ready", "due"} /\ b2 = b + 1
    BY <1>1, <1>3 DEF Patient
  <2>2. /\ \A i \in 1 .. Len(r) : r[i] = a => b + (i - 1) + 1 <= 2 * (MaxAccount - 1)
        /\ \/ \E i \in 1 .. Len(r) : r[i] = a
           \/ b + Len(r) + 1 <= MaxAccount - 1
    BY <2>1 DEF Patient, Chosen, Ahead, Spared
  <2>3. CASE \E i \in 1 .. Len(r) : r[i] = a
    BY <1>1, <2>1, <2>2, <2>3 DEF Patient, Chosen, Ahead, Spared
  <2>4. CASE b + Len(r) + 1 <= MaxAccount - 1
    BY <1>1, <2>1, <2>2, <2>4 DEF Patient, Chosen, Ahead, Spared
  <2> QED BY <2>2, <2>3, <2>4
<1> QED
  BY <1>2, <1>3

\* The head of a round is picked, whatever the wake made of idle continuations.
LEMMA HeadPicked ==
    ASSUME NEW cur, NEW r, NEW a \in Account, NEW c, NEW c2, NEW b,
           RoundFits("loop", r), r # <<>>, Patient("loop", cur, r, a, c, b),
           c2 = c \/ (c # "absent" /\ c2 = "ready")
    PROVE  RoundFits("picked", Tail(r)) /\ Patient("picked", Head(r), Tail(r), a, c2, b)
<1> DEFINE t == Tail(r)
<1>1. MaxAccount \in Nat /\ MaxAccount >= 1 /\ r \in Seq(Account) /\ b \in Nat /\ Len(r) <= MaxAccount
  BY SomeAccount, LenProperties DEF RoundFits, InHand, Patient
<1>2. /\ t \in Seq(Account) /\ Len(r) \in Nat /\ Len(t) = Len(r) - 1 /\ Len(r) >= 1
      /\ \A i \in 1 .. Len(t) : t[i] = r[i + 1]
      /\ Head(r) = r[1]
  BY <1>1, HeadTailProperties, EmptySeq, LenProperties
<1> HIDE DEF t
<1>3. RoundFits("picked", t)
  BY <1>1, <1>2 DEF RoundFits, InHand
<1>4. /\ \A i \in 1 .. Len(r) : r[i] = a => b + (i - 1) <= 2 * (MaxAccount - 1)
      /\ \/ \E i \in 1 .. Len(r) : r[i] = a
         \/ /\ b <= MaxAccount - 1
            /\ c # "absent" => b + Len(r) <= MaxAccount - 1
      /\ b <= 2 * (MaxAccount - 1)
      /\ c2 \in {"idle", "deferred"} => b = 0
  BY <1>1, <1>2 DEF Patient, Chosen, Ahead, Spared
<1>5. ASSUME NEW i \in 1 .. Len(t), t[i] = a
      PROVE  b + (i - 1) + (IF r[1] = a THEN 0 ELSE 1) <= 2 * (MaxAccount - 1)
  <2>1. i + 1 \in 1 .. Len(r) /\ r[i + 1] = a
    BY <1>2, <1>5
  <2>2. b + ((i + 1) - 1) <= 2 * (MaxAccount - 1)
    BY <1>4, <2>1
  <2> QED BY <1>1, <1>2, <2>2
<1>6. \/ r[1] = a
      \/ \E i \in 1 .. Len(t) : t[i] = a
      \/ /\ b <= MaxAccount - 1
         /\ c2 # "absent" => b + Len(t) + 1 <= MaxAccount - 1
  <2>1. CASE \E i \in 1 .. Len(r) : r[i] = a
    <3>1. PICK i \in 1 .. Len(r) : r[i] = a
      BY <2>1
    <3>2. CASE i = 1
      BY <3>1, <3>2
    <3>3. CASE i # 1
      <4>1. i - 1 \in 1 .. Len(t) /\ (i - 1) + 1 = i
        BY <1>2, <3>3
      <4> QED BY <1>2, <3>1, <4>1
    <3> QED BY <3>2, <3>3
  <2>2. CASE ~ \E i \in 1 .. Len(r) : r[i] = a
    BY <1>1, <1>2, <1>4, <2>2
  <2> QED BY <2>1, <2>2
<1>7. Patient("picked", r[1], t, a, c2, b)
  BY <1>1, <1>4, <1>5, <1>6 DEF Patient, Chosen, Ahead, Spared
<1> QED
  BY <1>2, <1>3, <1>7 DEF t

\* An enumeration reads a new round that leaves out only the accounts with nothing due.
LEMMA RoundRead ==
    ASSUME NEW S \in SUBSET Account, NEW last \in Nat, NEW a \in Account,
           NEW cur, NEW c, NEW c2, NEW b, Patient("enumerating", cur, <<>>, a, c, b),
           a \in S \/ c2 = "absent" \/ (c2 = c /\ c \in {"idle", "deferred"}),
           c2 \in {"idle", "deferred"} => c2 = c
    PROVE  LET r == Rotated(S, last)
           IN  RoundFits("loop", r) /\ Patient("loop", cur, r, a, c2, b)
<1> DEFINE r == Rotated(S, last)
<1>1. /\ r \in Seq(Account) /\ Len(r) = Cardinality(S) /\ Len(r) \in Nat
      /\ \A x \in S : \E i \in 1 .. Len(r) : r[i] = x
      /\ \A i \in 1 .. Len(r) : r[i] \in S
  BY RoundOfAll
<1>2. MaxAccount \in Nat /\ MaxAccount >= 1 /\ b \in Nat
  BY SomeAccount DEF Patient
<1>3. /\ Cardinality(S) <= MaxAccount
      /\ a \notin S => Cardinality(S) <= MaxAccount - 1
  <2>1. IsFiniteSet(Account) /\ Cardinality(Account) = MaxAccount
    <3>1. 1 \in Int /\ MaxAccount \in Int
      BY <1>2
    <3> QED BY <3>1, <1>2, FS_Interval DEF Account
  <2>2. IsFiniteSet(Account \ {a}) /\ Cardinality(Account \ {a}) = MaxAccount - 1
    BY <2>1, FS_RemoveElement
  <2>3. a \notin S => S \in SUBSET (Account \ {a})
    OBVIOUS
  <2> QED BY <2>1, <2>2, <2>3, FS_Subset
<1> HIDE DEF r
<1>4. Len(<<>>) = 0
  BY EmptySeq
<1>5. b <= MaxAccount - 1 /\ (c \in {"idle", "deferred"} => b = 0)
  BY <1>4 DEF Patient, Chosen, Ahead, Spared
<1>6. RoundFits("loop", r)
  BY <1>1, <1>2, <1>3 DEF RoundFits, InHand
<1>7. \A i \in 1 .. Len(r) : r[i] = a => b + (i - 1) + 0 <= 2 * (MaxAccount - 1)
  BY <1>1, <1>2, <1>3, <1>5
<1>8. \/ \E i \in 1 .. Len(r) : r[i] = a
      \/ c2 # "absent" => b + Len(r) + 0 <= MaxAccount - 1
  BY <1>1, <1>2, <1>3, <1>5
<1>9. Patient("loop", cur, r, a, c2, b)
  <2>1. /\ b <= 2 * (MaxAccount - 1)
        /\ c2 \in {"idle", "deferred"} => b = 0
    BY <1>2, <1>5
  <2> QED BY <1>2, <1>5, <1>7, <1>8, <2>1 DEF Patient, Chosen, Ahead, Spared
<1> QED
  BY <1>6, <1>9 DEF r


\* A continuation is woken or comes due.
LEMMA Stirred ==
    ASSUME NEW p, NEW cur, NEW r, NEW a \in Account, NEW c, NEW c2, NEW b,
           Patient(p, cur, r, a, c, b), c2 = c \/ (c # "absent" /\ c2 \in {"ready", "due"})
    PROVE  Patient(p, cur, r, a, c2, b)
BY DEF Patient, Spared

\* A task that goes on elsewhere with the same round, before or after the picking.
LEMMA MovedOn ==
    ASSUME NEW p, NEW p2, NEW cur, NEW cur2, NEW r, NEW a \in Account, NEW c, NEW b,
           Patient(p, cur, r, a, c, b), RoundFits(p, r),
           \/ p2 = "stopped"
           \/ p = "picked" /\ p2 = "waiting" /\ cur2 = cur
           \/ p \in {"loop", "enumerating"} /\ p2 \in {"loop", "enumerating"}
    PROVE  RoundFits(p2, r) /\ Patient(p2, cur2, r, a, c, b)
<1>1. Len(r) \in Nat /\ MaxAccount \in Nat
  BY SomeAccount, LenProperties DEF RoundFits
<1>2. RoundFits(p2, r)
  BY <1>1 DEF RoundFits, InHand
<1>3. CASE p2 = "stopped"
  BY <1>2, <1>3 DEF Patient
<1>4. CASE p = "picked" /\ p2 = "waiting" /\ cur2 = cur
  BY <1>2, <1>4 DEF Patient, Chosen
<1>5. CASE p \in {"loop", "enumerating"} /\ p2 \in {"loop", "enumerating"}
  <2>1. /\ p # "stopped" /\ p2 # "turn"
        /\ Chosen(p) = 0 /\ Chosen(p2) = 0
        /\ (IF cur = a THEN 0 ELSE Chosen(p)) = 0 /\ (IF cur2 = a THEN 0 ELSE Chosen(p2)) = 0
    BY <1>5 DEF Chosen
  <2> QED BY <1>2, <2>1 DEF Patient
<1> QED
  BY <1>3, <1>4, <1>5

\* A turn ends, for the account it served and for the others.
LEMMA TurnEnds ==
    ASSUME NEW cur, NEW r, NEW a \in Account, NEW c, NEW c2, NEW b,
           RoundFits("turn", r), Patient("turn", cur, r, a, c, b),
           a = cur \/ c2 = c
    PROVE  RoundFits("loop", r) /\ Patient("loop", 0, r, a, c2, b)
<1>1. /\ MaxAccount \in Nat /\ MaxAccount >= 1 /\ Len(r) \in Nat /\ Len(r) + 1 <= MaxAccount
      /\ b \in Nat /\ r \in Seq(Account) /\ a # 0
  BY SomeAccount, LenProperties DEF RoundFits, InHand, Patient, Account
<1>2. RoundFits("loop", r)
  BY <1>1 DEF RoundFits, InHand
<1>3. CASE a = cur
  <2>1. b = 0
    BY <1>3 DEF Patient
  <2> QED BY <1>1, <1>2, <2>1 DEF Patient, Chosen, Ahead, Spared
<1>4. CASE a # cur
  BY <1>1, <1>2, <1>4 DEF Patient, Chosen, Ahead, Spared
<1> QED
  BY <1>3, <1>4

Fit(w) ==
    /\ RoundFits(pc[w], round[w])
    /\ \A a \in Account : Patient(pc[w], current[w], round[w], a, cont[w][a], bypassed[w][a])

Counts ==
    /\ current \in [Worker -> Nat]
    /\ lastRound \in [Worker -> Nat]
    /\ bypassed \in [Worker -> [Account -> Nat]]

\* BoundedBypass is not inductive: how often an account may still be passed by depends
\* on its place in the round, or on what is left of a round it is not in.
Patience == Counts /\ \A w \in Worker : Fit(w)

LEMMA InitPatience == Init => Patience
<1> SUFFICES ASSUME Init PROVE Patience
  OBVIOUS
<1>1. Counts
  BY DEF Init, Memory, Counts
<1>2. ASSUME NEW w \in Worker PROVE Fit(w)
  <2>1. <<>> \in Seq(Account) /\ Len(<<>>) = 0 /\ MaxAccount \in Nat
    BY EmptySeq, AccountAssumption
  <2>2. pc[w] = "enumerating" /\ round[w] = <<>> /\ \A a \in Account : bypassed[w][a] = 0 /\ cont[w][a] = "absent"
    BY <1>2 DEF Init, Memory
  <2>3. RoundFits("enumerating", <<>>)
    BY <2>1 DEF RoundFits, InHand
  <2>4. \A a \in Account : Patient("enumerating", current[w], <<>>, a, "absent", 0)
    BY <2>1, SomeAccount DEF Patient, Chosen, Ahead, Spared
  <2> QED BY <2>2, <2>3, <2>4 DEF Fit
<1> QED
  BY <1>1, <1>2 DEF Patience

LEMMA NextCounts == Tasks /\ EnumerationsStartEmpty /\ Patience /\ [Next]_vars => Counts'
<1> SUFFICES ASSUME Tasks, EnumerationsStartEmpty, Patience, [Next]_vars PROVE Counts'
  OBVIOUS
<1> USE DEF db, loop, rota, sched, history
<1>1. Counts /\ \A w \in Worker : round[w] \in Seq(Account)
  BY DEF Patience, Fit, RoundFits
<1>2. 0 \in Nat /\ Account \subseteq Nat
  BY DEF Account
<1>3. ASSUME Restart PROVE Counts'
  BY <1>2, <1>3 DEF Restart, Counts
<1>4. ASSUME NEW w \in Worker, NEW poked \in BOOLEAN, NEW swept \in BOOLEAN, NEW resumed \in BOOLEAN,
             Wake(w, poked, swept, resumed)
      PROVE  Counts'
  <2>1. UNCHANGED <<lastRound, bypassed>>
    BY <1>4 DEF Wake
  <2>2. current' \in [Worker -> Nat]
    <3>1. CASE round[w] = <<>>
      BY <1>1, <1>4, <3>1 DEF Wake, Counts
    <3>2. CASE round[w] # <<>>
      <4>1. Head(round[w]) \in Account
        BY <1>1, <3>2, HeadTailProperties
      <4>2. current' = [current EXCEPT ![w] = Head(round[w])]
        BY <1>4, <3>2 DEF Wake
      <4> QED BY <1>1, <1>2, <4>1, <4>2 DEF Counts
    <3> QED BY <3>1, <3>2
  <2> QED BY <1>1, <2>1, <2>2 DEF Counts
<1>5. ASSUME NEW w \in Worker, Enumerate(w) PROVE Counts'
  <2> DEFINE S == {a \in Account : Known(w)[a] \in {"ready", "due"}}
             next == Rotated(S, lastRound[w])
  <2>1. bypassed' = bypassed
    BY <1>5 DEF Enumerate
  <2>2. \/ UNCHANGED <<lastRound, current>>
        \/ /\ next # <<>> /\ current' = [current EXCEPT ![w] = Head(next)]
           /\ lastRound' = [lastRound EXCEPT ![w] = Head(next)]
    BY <1>5 DEF Enumerate
  <2>3. next \in Seq(Account)
    <3>1. lastRound[w] \in Nat
      BY <1>1 DEF Counts
    <3> HIDE DEF S
    <3>2. S \in SUBSET Account
      BY DEF S
    <3> QED BY <3>1, <3>2, RoundOfAll
  <2> HIDE DEF next
  <2>4. next # <<>> => Head(next) \in Nat
    BY <1>2, <2>3, HeadTailProperties
  <2> QED BY <1>1, <2>1, <2>2, <2>4 DEF Counts
<1>6. ASSUME NEW w \in Worker, BeginTurn(w) PROVE Counts'
  <2>1. UNCHANGED <<lastRound, current>>
    BY <1>6 DEF BeginTurn
  <2>2. bypassed' \in [Worker -> [Account -> Nat]]
    BY <1>1, <1>6, AccountAssumption DEF BeginTurn, Counts
  <2> QED BY <1>1, <2>1, <2>2 DEF Counts
<1>7. ASSUME NEW w \in Worker,
             \/ BeforeTurnFails(w) \/ FinishTurn(w) \/ DeferTurn(w) \/ FailTurn(w) \/ Unwind(w)
      PROVE  Counts'
  <2>1. UNCHANGED <<lastRound, bypassed>> /\ current' = [current EXCEPT ![w] = 0]
    BY <1>7 DEF BeforeTurnFails, FinishTurn, DeferTurn, FailTurn, Unwind, Settle
  <2> QED BY <1>1, <2>1 DEF Counts
<1>8. ASSUME UNCHANGED <<lastRound, bypassed, current>> PROVE Counts'
  BY <1>1, <1>8 DEF Counts
<1>9. ASSUME NEW w \in Worker, Register(w) \/ EnumerationFails(w) \/ Cancel(w) PROVE Counts'
  BY <1>8, <1>9 DEF Register, EnumerationFails, Cancel
<1>10. ASSUME NEW w \in Worker, NEW a \in Account, NEW poked \in BOOLEAN,
              Produce(w, a, poked) \/ DeferralElapses(w, a)
       PROVE  Counts'
  BY <1>8, <1>10 DEF Produce, DeferralElapses
<1>11. ASSUME NEW a \in Toggled, ToggleAccount(a) PROVE Counts'
  BY <1>8, <1>11 DEF ToggleAccount
<1>12. ASSUME UNCHANGED vars PROVE Counts'
  BY <1>8, <1>12 DEF vars
<1> QED
  BY <1>3, <1>4, <1>5, <1>6, <1>7, <1>9, <1>10, <1>11, <1>12 DEF Next


\* What a step must do to one worker.
LEMMA FitAfter ==
    ASSUME NEW w \in Worker, NEW p, NEW cur, NEW r, NEW c, NEW b,
           pc'[w] = p, current'[w] = cur, round'[w] = r,
           \A a \in Account : cont'[w][a] = c[a] /\ bypassed'[w][a] = b[a],
           RoundFits(p, r), \A a \in Account : Patient(p, cur, r, a, c[a], b[a])
    PROVE  Fit(w)'
BY DEF Fit

\* No step lets an account be passed by more often than its place allows, unless an
\* account may lose its place before its turn.
LEMMA NextPatience ==
    Tasks /\ EnumerationsStartEmpty /\ "before_turn" \notin Faults /\ Patience /\ [Next]_vars => Patience'
<1> SUFFICES ASSUME Tasks, EnumerationsStartEmpty, "before_turn" \notin Faults, Patience, [Next]_vars,
                    NEW x \in Worker
             PROVE  Fit(x)'
  BY NextCounts DEF Patience
<1> USE DEF db, loop, rota, sched, history
<1>1. /\ Counts /\ Fit(x)
      /\ RoundFits(pc[x], round[x])
      /\ \A a \in Account : Patient(pc[x], current[x], round[x], a, cont[x][a], bypassed[x][a])
  BY DEF Patience, Fit
<1>2. /\ pc \in [Worker -> {"loop", "enumerating", "picked", "waiting", "turn", "stopped"}]
      /\ cont \in [Worker -> [Account -> {"absent", "idle", "ready", "deferred", "due"}]]
      /\ round = [w \in Worker |-> round[w]]
      /\ current \in [Worker -> Nat] /\ bypassed \in [Worker -> [Account -> Nat]]
      /\ lastRound \in [Worker -> Nat]
  BY <1>1 DEF Tasks, Counts
<1>3. ASSUME pc'[x] = pc[x], current'[x] = current[x], round'[x] = round[x],
             \A a \in Account : cont'[x][a] = cont[x][a] /\ bypassed'[x][a] = bypassed[x][a]
      PROVE  Fit(x)'
  BY <1>1, <1>3 DEF Fit
<1>4. ASSUME UNCHANGED <<pc, current, round, cont, bypassed>> PROVE Fit(x)'
  BY <1>3, <1>4
<1>5. ASSUME Restart PROVE Fit(x)'
  <2>1. <<>> \in Seq(Account) /\ Len(<<>>) = 0 /\ MaxAccount \in Nat
    BY EmptySeq, AccountAssumption
  <2>2. /\ pc'[x] = "enumerating" /\ round'[x] = <<>>
        /\ \A a \in Account : bypassed'[x][a] = 0 /\ cont'[x][a] = "absent"
    BY <1>5 DEF Restart
  <2>3. RoundFits("enumerating", <<>>)
    BY <2>1 DEF RoundFits, InHand
  <2>4. \A a \in Account : Patient("enumerating", current'[x], <<>>, a, "absent", 0)
    BY <2>1, SomeAccount DEF Patient, Chosen, Ahead, Spared
  <2> QED BY <2>2, <2>3, <2>4 DEF Fit
<1>6. ASSUME NEW w \in Worker, NEW a \in Account, DeferralElapses(w, a) PROVE Fit(x)'
  <2>1. /\ cont[w][a] = "deferred" /\ UNCHANGED <<pc, current, round, bypassed>>
        /\ cont' = [cont EXCEPT ![w][a] = "due"]
    BY <1>6 DEF DeferralElapses
  <2>2. \A e \in Account : cont'[x][e] = cont[x][e] \/ (cont[x][e] # "absent" /\ cont'[x][e] \in {"ready", "due"})
    BY <1>2, <2>1
  <2>3. \A e \in Account : Patient(pc[x], current[x], round[x], e, cont'[x][e], bypassed[x][e])
    BY <1>1, <2>2, Stirred
  <2> QED BY <1>1, <2>1, <2>3 DEF Fit
<1>7. ASSUME NEW w \in Worker, NEW poked \in BOOLEAN, NEW swept \in BOOLEAN, NEW resumed \in BOOLEAN,
             Wake(w, poked, swept, resumed)
      PROVE  Fit(x)'
  <2>1. /\ pc[w] = "loop" /\ bypassed' = bypassed
        /\ cont' = cont \/ cont' = [cont EXCEPT ![w] = WakeCycle(w)]
        /\ \/ /\ round[w] = <<>> /\ pc' = [pc EXCEPT ![w] = "enumerating"] /\ UNCHANGED <<round, current>>
           \/ /\ round[w] # <<>> /\ pc' = [pc EXCEPT ![w] = "picked"]
              /\ current' = [current EXCEPT ![w] = Head(round[w])]
              /\ round' = [round EXCEPT ![w] = Tail(@)]
    BY <1>7 DEF Wake
  <2>2. CASE x = w
    <3>1. \A e \in Account : cont'[x][e] = cont[x][e] \/ (cont[x][e] # "absent" /\ cont'[x][e] = "ready")
      <4>1. cont'[x] = cont[x] \/ cont'[x] = WakeCycle(x)
        BY <1>2, <2>1, <2>2
      <4>2. \A e \in Account :
               WakeCycle(x)[e] = cont[x][e] \/ (cont[x][e] # "absent" /\ WakeCycle(x)[e] = "ready")
        BY DEF WakeCycle
      <4> QED BY <4>1, <4>2
    <3>2. CASE round[w] = <<>>
      <4>1. pc'[x] = "enumerating" /\ round'[x] = round[x] /\ current'[x] = current[x] /\ pc[x] = "loop"
        BY <1>2, <2>1, <2>2, <3>2
      <4>2. \A e \in Account : Patient("loop", current[x], round[x], e, cont'[x][e], bypassed[x][e])
        BY <1>1, <3>1, <4>1, Stirred
      <4>3. ASSUME NEW e \in Account
            PROVE  RoundFits("enumerating", round[x])
                   /\ Patient("enumerating", current[x], round[x], e, cont'[x][e], bypassed[x][e])
        BY <1>1, <4>1, <4>2, MovedOn
      <4>4. RoundFits("enumerating", round[x])
        BY <1>1, <4>1 DEF RoundFits, InHand
      <4> QED BY <2>1, <4>1, <4>3, <4>4 DEF Fit
    <3>3. CASE round[w] # <<>>
      <4>1. /\ pc'[x] = "picked" /\ round'[x] = Tail(round[x]) /\ current'[x] = Head(round[x])
            /\ pc[x] = "loop" /\ round[x] # <<>>
        BY <1>2, <2>1, <2>2, <3>3
      <4>2. \A e \in Account :
               /\ RoundFits("picked", Tail(round[x]))
               /\ Patient("picked", Head(round[x]), Tail(round[x]), e, cont'[x][e], bypassed[x][e])
        BY <1>1, <3>1, <4>1, HeadPicked
      <4>3. Head(round[x]) \in Account
        BY <1>1, <4>1, HeadTailProperties DEF RoundFits
      <4> QED BY <2>1, <4>1, <4>2, <4>3 DEF Fit
    <3> QED BY <3>2, <3>3
  <2>3. CASE x # w
    BY <1>2, <1>3, <2>1, <2>3
  <2> QED BY <2>2, <2>3
<1>8. ASSUME NEW w \in Worker, Enumerate(w) PROVE Fit(x)'
  <2> DEFINE S == {a \in Account : Known(w)[a] \in {"ready", "due"}}
             next == Rotated(S, lastRound[w])
  <2>1. /\ pc[w] = "enumerating" /\ round[w] = <<>> /\ bypassed' = bypassed
        /\ cont' = [cont EXCEPT ![w] = Known(w)]
        /\ \/ next = <<>> /\ pc' = [pc EXCEPT ![w] = "loop"] /\ UNCHANGED <<round, current>>
           \/ /\ next # <<>> /\ pc' = [pc EXCEPT ![w] = "picked"]
              /\ current' = [current EXCEPT ![w] = Head(next)]
              /\ round' = [round EXCEPT ![w] = Tail(next)]
    BY <1>8 DEF Enumerate, EnumerationsStartEmpty
  <2>2. CASE x = w
    <3>1. \A e \in Account : cont'[x][e] = Known(w)[e]
      BY <1>2, <2>1, <2>2
    <3>2. ASSUME NEW e \in Account
          PROVE  /\ e \in S \/ cont'[x][e] = "absent"
                    \/ (cont'[x][e] = cont[x][e] /\ cont[x][e] \in {"idle", "deferred"})
                 /\ cont'[x][e] \in {"idle", "deferred"} => cont'[x][e] = cont[x][e]
      <4>1. Known(w)[e] = IF e \notin enabled THEN "absent"
                          ELSE IF cont[w][e] = "absent" THEN "ready" ELSE cont[w][e]
        BY DEF Known
      <4>2. cont[w][e] \in {"absent", "idle", "ready", "deferred", "due"}
        BY <1>2
      <4> QED BY <2>2, <3>1, <4>1, <4>2
    <3> HIDE DEF S
    <3>3. S \in SUBSET Account /\ lastRound[w] \in Nat
      BY <1>2 DEF S
    <3>4. ASSUME NEW e \in Account
          PROVE  RoundFits("loop", next) /\ Patient("loop", current[x], next, e, cont'[x][e], bypassed[x][e])
      <4>1. Patient("enumerating", current[x], <<>>, e, cont[x][e], bypassed[x][e])
        BY <1>1, <2>1, <2>2
      <4> QED BY <3>2, <3>3, <4>1, RoundRead
    <3>5. next \in Seq(Account)
      BY <3>3, RoundOfAll
    <3> HIDE DEF next
    <3>6. CASE next = <<>>
      <4>1. pc'[x] = "loop" /\ round'[x] = next /\ current'[x] = current[x]
        BY <1>2, <2>1, <2>2, <3>6
      <4>2. RoundFits("loop", next)
        <5>1. Len(<<>>) = 0 /\ MaxAccount \in Nat
          BY EmptySeq, AccountAssumption
        <5> QED BY <3>5, <3>6, <5>1 DEF RoundFits, InHand
      <4> QED BY <2>1, <3>4, <4>1, <4>2 DEF Fit
    <3>7. CASE next # <<>>
      <4>1. pc'[x] = "picked" /\ round'[x] = Tail(next) /\ current'[x] = Head(next)
        BY <1>2, <2>1, <2>2, <3>7
      <4>2. \A e \in Account :
               /\ RoundFits("picked", Tail(next))
               /\ Patient("picked", Head(next), Tail(next), e, cont'[x][e], bypassed[x][e])
        BY <3>4, <3>7, HeadPicked
      <4>3. Head(next) \in Account
        BY <3>5, <3>7, HeadTailProperties
      <4> QED BY <2>1, <4>1, <4>2, <4>3 DEF Fit
    <3> QED BY <3>6, <3>7
  <2>3. CASE x # w
    <3> HIDE DEF next
    <3> QED BY <1>2, <1>3, <2>1, <2>3
  <2> QED BY <2>2, <2>3
<1>9. ASSUME NEW w \in Worker, Register(w) \/ EnumerationFails(w) \/ Unwind(w) PROVE Fit(x)'
  <2>1. /\ UNCHANGED <<round, cont, bypassed>>
        /\ \/ pc[w] = "picked" /\ pc' = [pc EXCEPT ![w] = "waiting"] /\ current' = current
           \/ pc[w] = "enumerating" /\ pc' = [pc EXCEPT ![w] = "loop"] /\ current' = current
           \/ pc' = [pc EXCEPT ![w] = "stopped"] /\ current' = [current EXCEPT ![w] = 0]
    BY <1>9 DEF Register, EnumerationFails, Unwind
  <2>2. CASE x = w
    <3>1. \/ pc'[x] = "stopped"
          \/ pc[x] = "picked" /\ pc'[x] = "waiting" /\ current'[x] = current[x]
          \/ pc[x] \in {"loop", "enumerating"} /\ pc'[x] \in {"loop", "enumerating"}
      BY <1>2, <2>1, <2>2
    <3>2. \A a \in Account :
             /\ RoundFits(pc'[x], round[x])
             /\ Patient(pc'[x], current'[x], round[x], a, cont[x][a], bypassed[x][a])
      BY <1>1, <3>1, MovedOn
    <3>3. RoundFits(pc'[x], round[x])
      <4>1. Len(round[x]) \in Nat /\ MaxAccount \in Nat
        BY <1>1, AccountAssumption, LenProperties DEF RoundFits
      <4>2. InHand(pc'[x]) <= InHand(pc[x]) /\ InHand(pc[x]) \in Nat /\ InHand(pc'[x]) \in Nat
        BY <3>1 DEF InHand
      <4> QED BY <1>1, <4>1, <4>2 DEF RoundFits
    <3> QED BY <2>1, <3>2, <3>3 DEF Fit
  <2>3. CASE x # w
    BY <1>2, <1>3, <2>1, <2>3
  <2> QED BY <2>2, <2>3
<1>10. ASSUME NEW w \in Worker, BeginTurn(w) PROVE Fit(x)'
  <2>1. /\ pc[w] = "waiting" /\ pc' = [pc EXCEPT ![w] = "turn"] /\ UNCHANGED <<round, cont, current>>
        /\ bypassed' = [bypassed EXCEPT ![w] =
              [a \in Account |->
                  IF a = current[w] \/ ~Due(cont, w, a) THEN 0
                  ELSE IF bypassed[w][a] < 2 * MaxAccount THEN bypassed[w][a] + 1
                  ELSE bypassed[w][a]]]
    BY <1>10 DEF BeginTurn
  <2>2. CASE x = w
    <3>1. pc[x] = "waiting" /\ pc'[x] = "turn"
      BY <1>2, <2>1, <2>2
    <3>2. ASSUME NEW a \in Account
          PROVE  Patient("turn", current[x], round[x], a, cont[x][a], bypassed'[x][a])
      <4>1. bypassed'[x][a] = IF a = current[x] \/ ~((a \in enabled) /\ cont[x][a] \in {"ready", "due"}) THEN 0
                              ELSE IF bypassed[x][a] < 2 * MaxAccount THEN bypassed[x][a] + 1
                              ELSE bypassed[x][a]
        BY <1>2, <2>1, <2>2 DEF Due
      <4>2. (a \in enabled) \in BOOLEAN
        OBVIOUS
      <4> QED BY <1>1, <3>1, <4>1, <4>2, TurnBegins
    <3>3. RoundFits("turn", round[x])
      BY <1>1, <3>1 DEF RoundFits, InHand
    <3> QED BY <2>1, <3>1, <3>2, <3>3 DEF Fit
  <2>3. CASE x # w
    BY <1>2, <1>3, <2>1, <2>3
  <2> QED BY <2>2, <2>3
<1>11. ASSUME NEW w \in Worker, BeforeTurnFails(w) \/ FinishTurn(w) \/ DeferTurn(w) \/ FailTurn(w)
       PROVE  Fit(x)'
  <2>1. PICK outcome : Settle(w, outcome) /\ pc[w] = "turn" /\ bypassed' = bypassed
    BY <1>11 DEF BeforeTurnFails, FinishTurn, DeferTurn, FailTurn
  <2>2. /\ cont' = [cont EXCEPT ![w][current[w]] = outcome] /\ round' = round
        /\ current' = [current EXCEPT ![w] = 0] /\ pc' = [pc EXCEPT ![w] = "loop"]
    BY <2>1 DEF Settle
  <2>3. CASE x = w
    <3>1. pc[x] = "turn" /\ pc'[x] = "loop" /\ current'[x] = 0
      BY <1>2, <2>1, <2>2, <2>3
    <3>2. \A a \in Account : a = current[x] \/ cont'[x][a] = cont[x][a]
      BY <1>2, <2>2, <2>3
    <3>3. \A a \in Account :
             /\ RoundFits("loop", round[x])
             /\ Patient("loop", 0, round[x], a, cont'[x][a], bypassed[x][a])
      BY <1>1, <3>1, <3>2, TurnEnds
    <3>4. RoundFits("loop", round[x])
      <4>1. Len(round[x]) \in Nat /\ MaxAccount \in Nat
        BY <1>1, AccountAssumption, LenProperties DEF RoundFits
      <4> QED BY <1>1, <3>1, <4>1 DEF RoundFits, InHand
    <3> QED BY <2>1, <2>2, <3>1, <3>3, <3>4 DEF Fit
  <2>4. CASE x # w
    BY <1>2, <1>3, <2>1, <2>2, <2>4
  <2> QED BY <2>3, <2>4
<1>12. ASSUME NEW w \in Worker, Cancel(w) PROVE Fit(x)'
  BY <1>4, <1>12 DEF Cancel
<1>13. ASSUME NEW w \in Worker, NEW a \in Account, NEW poked \in BOOLEAN, Produce(w, a, poked)
       PROVE  Fit(x)'
  BY <1>4, <1>13 DEF Produce
<1>14. ASSUME NEW a \in Toggled, ToggleAccount(a) PROVE Fit(x)'
  BY <1>4, <1>14 DEF ToggleAccount
<1>15. ASSUME UNCHANGED vars PROVE Fit(x)'
  BY <1>4, <1>15 DEF vars
<1> QED
  BY <1>5, <1>6, <1>7, <1>8, <1>9, <1>10, <1>11, <1>12, <1>13, <1>14, <1>15 DEF Next

\* Between becoming due and its turn, an account sees at most the rest of one round and
\* one full round go to others, as long as nothing fails between the choice of an
\* account and its turn: a failure there costs the account its place.
THEOREM BypassStaysBounded == Spec => []("before_turn" \notin Faults => BoundedBypass)
<1>1. Init => Patience
  BY InitPatience
<1>2. IInv /\ ("before_turn" \notin Faults => Patience) /\ [Next]_vars
      => ("before_turn" \notin Faults => Patience)'
  BY NextPatience DEF IInv
<1>3. Patience => BoundedBypass
  BY DEF Patience, Fit, Patient, BoundedBypass
<1> QED
  BY <1>1, <1>2, <1>3, BackgroundInvariance, PTL DEF Spec


-----------------------------------------------------------------------------
(* An import among the other writers of its account (Portable).            *)

\* The account that imports: a vehicle with the first number is a vehicle, a stored rate is there.
TargetTypeOK ==
    /\ DOMAIN there = {"vehicles", "places", "rules", "rates", "trips", "expenses", "readings",
                       "settings", "fixes", "progressed"}
    /\ 1 \in DOMAIN there.vehicles => DOMAIN there.vehicles[1] = {"name", "default", "active"}
    /\ "rate" \in stored => 1 \in DOMAIN there.rates
    /\ DOMAIN phase = Writer \cup {"import"} /\ stored \subseteq Writer

\* While an import is alone nobody else is in, and a fresh account stays so.
AloneInThere == Alone => \A w \in Writer : phase[w] \in {"idle", "done"}

FreshWhileClean == phase["import"] = "clean" => CleanTarget

ImportIInv == TargetTypeOK /\ AloneInThere /\ FreshWhileClean /\ StoredWritesStand

LEMMA ImportInitIInv == PortableInit => ImportIInv
<1> SUFFICES ASSUME PortableInit PROVE ImportIInv
  OBVIOUS
<1>1. there = Fresh /\ stored = {} /\ phase = [a \in Writer \cup {"import"} |-> "idle"]
  BY DEF PortableInit
<1>2. DOMAIN Fresh = {"vehicles", "places", "rules", "rates", "trips", "expenses", "readings",
                      "settings", "fixes", "progressed"}
      /\ Fresh.vehicles = <<SeededVehicle>>
  BY DEF Fresh
<1>3. DOMAIN Fresh.vehicles[1] = {"name", "default", "active"}
  BY <1>2 DEF SeededVehicle
<1>4. TargetTypeOK
  BY <1>1, <1>2, <1>3 DEF TargetTypeOK
<1>5. AloneInThere /\ FreshWhileClean
  BY <1>1 DEF AloneInThere, FreshWhileClean, Alone
<1>6. StoredWritesStand
  BY <1>1 DEF StoredWritesStand
<1> QED
  BY <1>4, <1>5, <1>6 DEF ImportIInv

\* What a writer changes is there, and so is still what the others changed.
LEMMA ChangeLands ==
    ASSUME NEW b, NEW w \in Writer,
           DOMAIN b = {"vehicles", "places", "rules", "rates", "trips", "expenses", "readings",
                       "settings", "fixes", "progressed"},
           1 \in DOMAIN b.vehicles => DOMAIN b.vehicles[1] = {"name", "default", "active"},
           w = "vehicle" => 1 \in DOMAIN b.vehicles
    PROVE  /\ Landed(w, Change(w, b))
           /\ w = "rate" => 1 \in DOMAIN Change(w, b).rates
<1> USE DEF Landed, Change, Put, Mine
<1>1. CASE w = "fix"
  BY <1>1
<1>2. CASE w = "trip"
  BY <1>2
<1>3. CASE w = "place"
  BY <1>3
<1>4. CASE w = "rate"
  BY <1>4
<1>5. CASE w = "vehicle"
  BY <1>5
<1>6. CASE w = "pass"
  BY <1>6
<1> QED
  BY <1>1, <1>2, <1>3, <1>4, <1>5, <1>6 DEF Writer

LEMMA ChangeKeeps ==
    ASSUME NEW b, NEW w \in Writer, NEW v \in Writer,
           DOMAIN b = {"vehicles", "places", "rules", "rates", "trips", "expenses", "readings",
                       "settings", "fixes", "progressed"},
           1 \in DOMAIN b.vehicles => DOMAIN b.vehicles[1] = {"name", "default", "active"},
           v = "rate" => 1 \in DOMAIN b.rates, Landed(v, b)
    PROVE  Landed(v, Change(w, b)) /\ (v = "rate" => 1 \in DOMAIN Change(w, b).rates)
<1> USE DEF Landed, Change, Put, Mine
<1>1. CASE w = "fix"
  BY <1>1 DEF Writer
<1>2. CASE w = "trip"
  BY <1>2 DEF Writer
<1>3. CASE w = "place"
  BY <1>3 DEF Writer
<1>4. CASE w = "rate"
  BY <1>4 DEF Writer
<1>5. CASE w = "vehicle"
  BY <1>5 DEF Writer
<1>6. CASE w = "pass"
  BY <1>6 DEF Writer
<1> QED
  BY <1>1, <1>2, <1>3, <1>4, <1>5, <1>6 DEF Writer

LEMMA ChangeIsTyped ==
    ASSUME NEW b, NEW w \in Writer,
           DOMAIN b = {"vehicles", "places", "rules", "rates", "trips", "expenses", "readings",
                       "settings", "fixes", "progressed"},
           1 \in DOMAIN b.vehicles => DOMAIN b.vehicles[1] = {"name", "default", "active"}
    PROVE  /\ DOMAIN Change(w, b) = DOMAIN b
           /\ 1 \in DOMAIN Change(w, b).vehicles =>
                  DOMAIN Change(w, b).vehicles[1] = {"name", "default", "active"}
<1> USE DEF Change
<1>1. CASE w = "vehicle"
  BY <1>1
<1>2. CASE w # "vehicle"
  BY <1>2 DEF Writer
<1> QED
  BY <1>1, <1>2

LEMMA StoredFreshIsNothing ==
    ASSUME ImportIInv, CleanTarget
    PROVE  stored = {}
<1> SUFFICES ASSUME NEW w \in stored PROVE FALSE
  OBVIOUS
<1>1. w \in Writer /\ Landed(w, there) /\ (w = "rate" => 1 \in DOMAIN there.rates)
  BY DEF ImportIInv, TargetTypeOK, StoredWritesStand
<1>2. CASE w = "fix"
  BY <1>1, <1>2 DEF Landed, CleanTarget
<1>3. CASE w = "trip" \/ w = "place"
  <2>1. there.trips = <<>> /\ there.places = <<>>
    BY DEF CleanTarget
  <2>2. DOMAIN there.trips = {} /\ DOMAIN there.places = {}
    BY <2>1
  <2> QED BY <1>1, <1>3, <2>2 DEF Landed
<1>4. CASE w = "pass"
  BY <1>1, <1>4 DEF Landed, CleanTarget
<1>5. CASE w = "rate"
  BY <1>1, <1>5 DEF Landed, CleanTarget, ReferenceRates
<1>6. CASE w = "vehicle"
  <2>1. there.vehicles[1] \in Rows(there.vehicles) /\ there.vehicles[1].name = "mine"
    BY <1>1, <1>6 DEF Landed, Rows
  <2> QED BY <2>1 DEF CleanTarget, SeededVehicle
<1> QED
  BY <1>1, <1>2, <1>3, <1>4, <1>5, <1>6 DEF Writer


\* What the owner of the exporting account does, and an export, leave the other account alone.
LEMMA RevisionsAreElsewhere ==
    ASSUME OwnerNext PROVE UNCHANGED targetVars
<1>1. ASSUME NEW b, Revise(b) PROVE UNCHANGED targetVars
  BY <1>1 DEF Revise
<1>2. CASE AddVehicle \/ RenameVehicle \/ RetireVehicle \/ AutoAssign \/ UpdateTimezone
  BY <1>1, <1>2, Zenon DEF AddVehicle, RenameVehicle, RetireVehicle, AutoAssign, UpdateTimezone
<1>3. CASE AddPlace \/ RemovePlace \/ AddRule \/ RemoveRule \/ UpsertRate
  BY <1>1, <1>3, Zenon DEF AddPlace, RemovePlace, AddRule, RemoveRule, UpsertRate
<1>4. CASE AddManualTrip \/ DetectTrip \/ SnapTrip
  BY <1>1, <1>4, Zenon DEF AddManualTrip, DetectTrip, SnapTrip
<1>5. CASE LabelTrip \/ NoteTrip \/ AssignTrip \/ ExcludeTrip \/ RemoveTrip
  BY <1>1, <1>5, Zenon DEF LabelTrip, NoteTrip, AssignTrip, ExcludeTrip, RemoveTrip
<1>6. CASE AddExpense \/ RemoveExpense \/ AddReading \/ RemoveReading
  BY <1>1, <1>6, Zenon DEF AddExpense, RemoveExpense, AddReading, RemoveReading
<1> QED
  BY <1>2, <1>3, <1>4, <1>5, <1>6 DEF OwnerNext

LEMMA ExportIsElsewhere ==
    ASSUME ExportNext PROVE UNCHANGED targetVars
BY DEF ExportNext, BeginExport, TouchAccount, AdmitExport, ReadTable, FinishExport, targetVars

\* A step that changes nothing of what is stored, and lets nobody in beside an import.
LEMMA OnlyPhasesMove ==
    ASSUME ImportIInv, UNCHANGED <<there, stored>>, DOMAIN phase' = DOMAIN phase, AloneInThere',
           phase'["import"] = "clean" => CleanTarget
    PROVE  ImportIInv'
<1>1. CleanTarget' <=> CleanTarget
  BY DEF CleanTarget
<1>2. TargetTypeOK' /\ StoredWritesStand'
  BY DEF ImportIInv, TargetTypeOK, StoredWritesStand
<1>3. FreshWhileClean'
  BY <1>1 DEF FreshWhileClean
<1> QED
  BY <1>2, <1>3 DEF ImportIInv

LEMMA WriterMoves ==
    ASSUME ImportIInv, NEW w \in Writer, NEW x, phase' = [phase EXCEPT ![w] = x],
           ~Alone \/ x \in {"idle", "done"}
    PROVE  /\ AloneInThere' /\ DOMAIN phase' = DOMAIN phase
           /\ phase'["import"] = phase["import"]
<1>1. w # "import" /\ DOMAIN phase = Writer \cup {"import"}
  BY DEF Writer, ImportIInv, TargetTypeOK
<1>2. phase'["import"] = phase["import"] /\ phase'[w] = x
  BY <1>1
<1>3. \A v \in Writer \ {w} : phase'[v] = phase[v]
  BY <1>1
<1> QED
  BY <1>2, <1>3 DEF AloneInThere, Alone, ImportIInv

LEMMA ImportMoves ==
    ASSUME ImportIInv, NEW x, phase' = [phase EXCEPT !["import"] = x],
           Alone \/ Exclusive \/ x \in {"idle", "admitted", "locked"}
    PROVE  AloneInThere' /\ DOMAIN phase' = DOMAIN phase /\ phase'["import"] = x
<1>1. "import" \notin Writer /\ DOMAIN phase = Writer \cup {"import"}
  BY DEF Writer, ImportIInv, TargetTypeOK
<1>2. phase'["import"] = x /\ \A v \in Writer : phase'[v] = phase[v]
  BY <1>1
<1>3. ASSUME Exclusive, NEW v \in Writer PROVE phase[v] \in {"idle", "done"}
  BY <1>1, <1>3 DEF Exclusive, Admitted
<1> QED
  BY <1>2, <1>3 DEF AloneInThere, Alone, ImportIInv

LEMMA CommitIInv ==
    ASSUME ImportIInv, NEW w \in Writer, Commit(w)
    PROVE  ImportIInv'
<1>1. /\ there' = Change(w, there) /\ phase' = [phase EXCEPT ![w] = "done"]
      /\ stored' = IF there' = there THEN stored ELSE stored \cup {w}
      /\ phase[w] \in {"admitted", "locked"}
  BY DEF Commit
<1>2. ~Alone
  BY <1>1 DEF ImportIInv, AloneInThere
<1>3. AloneInThere' /\ DOMAIN phase' = DOMAIN phase /\ phase'["import"] = phase["import"]
  BY <1>1, WriterMoves
<1>4. FreshWhileClean'
  BY <1>2, <1>3 DEF FreshWhileClean, Alone
<1>5. /\ DOMAIN there' = DOMAIN there
      /\ 1 \in DOMAIN there'.vehicles => DOMAIN there'.vehicles[1] = {"name", "default", "active"}
  BY <1>1, ChangeIsTyped DEF ImportIInv, TargetTypeOK
<1>6. ASSUME NEW v \in stored PROVE Landed(v, there') /\ (v = "rate" => 1 \in DOMAIN there'.rates)
  <2>1. v \in Writer /\ Landed(v, there) /\ (v = "rate" => 1 \in DOMAIN there.rates)
    BY DEF ImportIInv, TargetTypeOK, StoredWritesStand
  <2> QED BY <2>1, <1>1, ChangeKeeps DEF ImportIInv, TargetTypeOK
<1>7. ASSUME there' # there PROVE Landed(w, there') /\ (w = "rate" => 1 \in DOMAIN there'.rates)
  <2>1. w = "vehicle" => 1 \in DOMAIN there.vehicles
    BY <1>1, <1>7 DEF Change
  <2> QED BY <2>1, <1>1, ChangeLands DEF ImportIInv, TargetTypeOK
<1>8. \A v \in stored' : Landed(v, there') /\ (v = "rate" => 1 \in DOMAIN there'.rates)
  BY <1>1, <1>6, <1>7
<1>9. stored' \subseteq Writer
  BY <1>1 DEF ImportIInv, TargetTypeOK
<1> QED
  BY <1>3, <1>4, <1>5, <1>8, <1>9 DEF ImportIInv, TargetTypeOK, StoredWritesStand

LEMMA ApplyIInv ==
    ASSUME ImportIInv, Apply
    PROVE  ImportIInv'
<1>1. /\ phase["import"] = "clean" /\ stored' = stored
      /\ phase' = [phase EXCEPT !["import"] = "idle"]
      /\ there' \in {there, Imported(upload.bundle)}
  BY DEF Apply, EndImport
<1>2. stored = {}
  BY <1>1, StoredFreshIsNothing DEF ImportIInv, FreshWhileClean
<1>3. AloneInThere' /\ DOMAIN phase' = DOMAIN phase /\ phase'["import"] = "idle"
  BY <1>1, ImportMoves
<1>4. CASE there' = there
  BY <1>1, <1>3, <1>4, OnlyPhasesMove
<1>5. CASE there' = Imported(upload.bundle)
  <2>1. /\ DOMAIN there' = DOMAIN there
        /\ there'.vehicles = InsertVehicles(upload.bundle)
    BY <1>5 DEF Imported, ImportIInv, TargetTypeOK
  <2>2. ASSUME 1 \in DOMAIN there'.vehicles
        PROVE  DOMAIN there'.vehicles[1] = {"name", "default", "active"}
    <3> DEFINE s == upload.bundle.vehicles
               k == CHOOSE k \in DOMAIN s : Base + k = 1
    <3>1. 1 \in {Base + j : j \in DOMAIN s}
      BY <2>1, <2>2 DEF InsertVehicles, Numbered
    <3>2. k \in DOMAIN s
      BY <3>1
    <3>3. there'.vehicles[1] = [name |-> s[k].name, default |-> s[k].default, active |-> s[k].active]
      BY <2>1, <3>1, <3>2 DEF InsertVehicles, Numbered
    <3> QED BY <3>3
  <2>3. TargetTypeOK'
    BY <1>1, <1>2, <1>3, <2>1, <2>2 DEF ImportIInv, TargetTypeOK
  <2>4. FreshWhileClean' /\ StoredWritesStand'
    BY <1>1, <1>2, <1>3 DEF FreshWhileClean, StoredWritesStand
  <2> QED BY <1>3, <2>3, <2>4 DEF ImportIInv
<1> QED
  BY <1>1, <1>4, <1>5

LEMMA ImportNextIInv == ImportIInv /\ [PortableNext]_portableVars => ImportIInv'
<1> SUFFICES ASSUME ImportIInv, [PortableNext]_portableVars PROVE ImportIInv'
  OBVIOUS
<1>1. ASSUME UNCHANGED <<there, phase, stored>> PROVE ImportIInv'
  BY <1>1, OnlyPhasesMove DEF ImportIInv, AloneInThere, Alone, FreshWhileClean
<1>2. CASE OwnerNext \/ ExportNext \/ UNCHANGED portableVars
  <2>1. UNCHANGED targetVars
    BY <1>2, RevisionsAreElsewhere, ExportIsElsewhere DEF portableVars, targetVars
  <2> QED BY <1>1, <2>1 DEF targetVars
<1>3. ASSUME NEW w \in Writer, Admit(w) \/ GiveUp(w) \/ LockDetector(w) PROVE ImportIInv'
  <2>1. PICK x : /\ phase' = [phase EXCEPT ![w] = x] /\ UNCHANGED <<there, stored>>
                 /\ ~Alone \/ x = "idle"
    <3>1. phase[w] = "admitted" => ~Alone
      BY DEF ImportIInv, AloneInThere
    <3> QED BY <1>3, <3>1 DEF Admit, GiveUp, LockDetector
  <2> QED BY <2>1, WriterMoves, OnlyPhasesMove DEF ImportIInv, FreshWhileClean
<1>4. ASSUME NEW w \in Writer, Commit(w) PROVE ImportIInv'
  BY <1>4, CommitIInv
<1>5. ASSUME Upload \/ LockDetector("import") \/ Refuse PROVE ImportIInv'
  <2>1. PICK x \in {"idle", "admitted", "locked"} :
            phase' = [phase EXCEPT !["import"] = x] /\ UNCHANGED <<there, stored>>
    BY <1>5 DEF Upload, LockDetector, Refuse, EndImport
  <2> QED BY <2>1, ImportMoves, OnlyPhasesMove
<1>6. ASSUME Upgrade PROVE ImportIInv'
  <2>1. Exclusive /\ phase' = [phase EXCEPT !["import"] = "alone"] /\ UNCHANGED <<there, stored>>
    BY <1>6 DEF Upgrade
  <2> QED BY <2>1, ImportMoves, OnlyPhasesMove
<1>7. ASSUME CheckTarget PROVE ImportIInv'
  <2>1. /\ Alone /\ CleanTarget
        /\ phase' = [phase EXCEPT !["import"] = "clean"] /\ UNCHANGED <<there, stored>>
    BY <1>7 DEF CheckTarget, Alone
  <2> QED BY <2>1, ImportMoves, OnlyPhasesMove
<1> QED
  BY <1>2, <1>3, <1>4, <1>5, <1>6, <1>7, ApplyIInv DEF PortableNext, ImportNext, WriterNext

\* Whatever another writer of the account has stored, a fix, a trip, a place, a rate, a
\* vehicle or progress, no import removes: the account is looked at, and found fresh, while
\* the import is alone in it (_apply_import, the shared lock turned exclusive).
THEOREM StoredWritesAlwaysStand == PortableSpec => []StoredWritesStand
<1>1. PortableSpec => []ImportIInv
  BY ImportInitIInv, ImportNextIInv, PTL DEF PortableSpec
<1>2. ImportIInv => StoredWritesStand
  BY DEF ImportIInv
<1> QED
  BY <1>1, <1>2, PTL

-----------------------------------------------------------------------------
(* A table in the order of its numbers (Portable).                         *)

Numbers(f) == IsFiniteSet(DOMAIN f) /\ DOMAIN f \subseteq Nat \ {Null}

\* Each row has a rank of its own, and each rank up to their number a row.
LEMMA RanksAreNumbers ==
    ASSUME NEW f, Numbers(f)
    PROVE  /\ Cardinality(DOMAIN f) \in Nat
           /\ \A i \in DOMAIN f : Rank(f, i) \in 1 .. Cardinality(DOMAIN f)
           /\ \A i, j \in DOMAIN f : Rank(f, i) = Rank(f, j) => i = j
           /\ \A k \in 1 .. Cardinality(DOMAIN f) : \E i \in DOMAIN f : Rank(f, i) = k
<1> DEFINE D == DOMAIN f
           Upto(i) == {j \in D : j <= i}
           n == Cardinality(D)
           ranks == [i \in D |-> Cardinality(Upto(i))]
<1>1. IsFiniteSet(D) /\ D \subseteq Nat /\ n \in Nat
  BY FS_CardinalityType DEF Numbers
<1>2. ASSUME NEW i \in D
      PROVE  Cardinality(Upto(i)) \in 1 .. n /\ IsFiniteSet(Upto(i))
  <2>1. IsFiniteSet(Upto(i)) /\ Cardinality(Upto(i)) <= n
    BY <1>1, FS_Subset
  <2>2. Cardinality(Upto(i)) \in Nat
    BY <2>1, FS_CardinalityType
  <2>3. i \in Upto(i)
    BY <1>1
  <2>4. Cardinality(Upto(i)) # 0
    BY <2>1, <2>3, FS_EmptySet
  <2> HIDE DEF Upto, n
  <2> QED BY <1>1, <2>1, <2>2, <2>4
<1>3. ASSUME NEW i \in D, NEW j \in D, i < j
      PROVE  Cardinality(Upto(i)) # Cardinality(Upto(j))
  <2>1. Upto(i) \subseteq Upto(j) /\ j \in Upto(j) /\ j \notin Upto(i)
    BY <1>1, <1>3
  <2>2. IsFiniteSet(Upto(j))
    BY <1>2
  <2> QED BY <2>1, <2>2, FS_Subset
<1>4. ASSUME NEW i \in D, NEW j \in D, Cardinality(Upto(i)) = Cardinality(Upto(j))
      PROVE  i = j
  <2>1. i \in Nat /\ j \in Nat
    BY <1>1
  <2> HIDE DEF Upto
  <2> QED BY <2>1, <1>3, <1>4
<1>5. ranks \in Injection(D, 1 .. n)
  <2> HIDE DEF Upto, D, n
  <2> QED BY <1>2, <1>4 DEF Injection, IsInjective
<1>6. IsFiniteSet(1 .. n) /\ Cardinality(1 .. n) = n
  BY <1>1, FS_Interval
<1>7. ranks \in Surjection(D, 1 .. n)
  BY <1>5, <1>6, FS_Injection
<1>8. \A i \in D : Rank(f, i) = Cardinality(Upto(i))
  BY DEF Rank
<1>9. \A k \in 1 .. n : \E i \in D : Cardinality(Upto(i)) = k
  <2> HIDE DEF Upto, D, n
  <2> QED BY <1>7 DEF Surjection
<1> HIDE DEF Upto
<1> QED BY <1>1, <1>2, <1>4, <1>8, <1>9

LEMMA SortedInOrder ==
    ASSUME NEW f, Numbers(f)
    PROVE  /\ Cardinality(DOMAIN f) \in Nat /\ DOMAIN Sorted(f) = 1 .. Cardinality(DOMAIN f)
           /\ \A k \in DOMAIN Sorted(f) : Sorted(f)[k] \in DOMAIN f /\ Rank(f, Sorted(f)[k]) = k
           /\ \A i \in DOMAIN f : Rank(f, i) \in DOMAIN Sorted(f) /\ Sorted(f)[Rank(f, i)] = i
<1>1. DOMAIN Sorted(f) = 1 .. Cardinality(DOMAIN f)
  BY DEF Sorted
<1>2. ASSUME NEW k \in 1 .. Cardinality(DOMAIN f)
      PROVE  Sorted(f)[k] \in DOMAIN f /\ Rank(f, Sorted(f)[k]) = k
  <2>1. \E i \in DOMAIN f : Rank(f, i) = k
    BY RanksAreNumbers
  <2> QED BY <2>1 DEF Sorted
<1> QED BY <1>1, <1>2, RanksAreNumbers
-----------------------------------------------------------------------------
(* What the checks of a file accept, the tables store (Portable).          *)

TableNames == {"vehicles", "places", "rules", "rates", "trips", "expenses", "readings", "settings"}

\* Each row of s has a number.
Identified(s) == \A k \in DOMAIN s : "id" \in DOMAIN s[k] /\ s[k].id # Null

\* A bundle lists the rows of each table; who can be referred to has a number.
Listed(b) ==
    /\ \A name \in TableNames : b[name] \in Seq(Rows(b[name]))
    /\ \A name \in {"vehicles", "places", "trips", "rates"} : Identified(b[name])

LEMMA ListedByNumber ==
    ASSUME NEW s, s \in Seq(Rows(s))
    PROVE  DOMAIN s \subseteq Nat /\ IsFiniteSet(DOMAIN s) /\ \A k \in DOMAIN s : s[k] \in Rows(s)
<1>1. DOMAIN s = 1 .. Len(s) /\ Len(s) \in Nat
  OBVIOUS
<1> QED
  BY <1>1, FS_Interval DEF Rows

\* The number in the table of row k of the file.
Num(k) == Base + k

LEMMA NumbersDiffer ==
    ASSUME NEW j \in Nat, NEW k \in Nat
    PROVE  Num(k) \in Nat \ {Null} /\ (Num(j) = Num(k) => j = k) /\ (Num(j) <= Num(k) <=> j <= k)
BY DEF Num, Base, Null

\* Table t has a row of each row of file s, and no others.
RowByRow(t, s) ==
    /\ \A k \in DOMAIN s : Num(k) \in DOMAIN t
    /\ \A i \in DOMAIN t : \E k \in DOMAIN s : i = Num(k)

\* The rows of a file in the table they are inserted into.
LEMMA NumberedRows ==
    ASSUME NEW s, DOMAIN s \subseteq Nat, NEW F
    PROVE  /\ RowByRow(Numbered(s, F), s)
           /\ \A k \in DOMAIN s : Numbered(s, F)[Num(k)] = F[k]
<1>1. Numbered(s, F) = [i \in {Num(k) : k \in DOMAIN s} |-> F[CHOOSE k \in DOMAIN s : Num(k) = i]]
  BY Zenon DEF Numbered, Num
<1>2. ASSUME NEW k \in DOMAIN s PROVE (CHOOSE j \in DOMAIN s : Num(j) = Num(k)) = k
  <2> DEFINE c == CHOOSE j \in DOMAIN s : Num(j) = Num(k)
  <2>1. c \in DOMAIN s /\ Num(c) = Num(k)
    BY Zenon
  <2> HIDE DEF c
  <2>2. c = k
    BY <2>1, NumbersDiffer
  <2> QED BY <2>2 DEF c
<1>3. RowByRow(Numbered(s, F), s)
  BY <1>1, Zenon DEF RowByRow
<1>4. \A k \in DOMAIN s : Num(k) \in {Num(j) : j \in DOMAIN s}
  OBVIOUS
<1>5. ASSUME NEW k \in DOMAIN s PROVE Numbered(s, F)[Num(k)] = F[k]
  <2>1. Numbered(s, F)[Num(k)] = F[CHOOSE j \in DOMAIN s : Num(j) = Num(k)]
    BY <1>1, <1>4
  <2> QED BY <2>1, <1>2
<1> QED
  BY <1>3, <1>5

\* A reference that refers to a row of the file refers to that row's new number.
LEMMA RenumberedRefers ==
    ASSUME NEW s, DOMAIN s \subseteq Nat, NEW i, MayRefer(i, s)
    PROVE  /\ i = Null => Renumbered(s, i) = Null
           /\ i # Null => Renumbered(s, i) # Null /\ \E k \in DOMAIN s : Renumbered(s, i) = Num(k)
<1>1. CASE i = Null
  BY <1>1 DEF Renumbered
<1>2. CASE i # Null
  <2> DEFINE c == CHOOSE k \in DOMAIN s : s[k].id = i
  <2>1. c \in DOMAIN s
    BY <1>2 DEF MayRefer, Refers, IdsOf
  <2>2. Renumbered(s, i) = Num(c)
    BY <1>2, Zenon DEF Renumbered, Num
  <2> HIDE DEF c
  <2> QED BY <1>2, <2>1, <2>2, NumbersDiffer
<1> QED
  BY <1>1, <1>2

LEMMA RenumberedDiffers ==
    ASSUME NEW s, DOMAIN s \subseteq Nat, NEW i, NEW j, Refers(i, s), Refers(j, s), i # Null, j # Null,
           Renumbered(s, i) = Renumbered(s, j)
    PROVE  i = j
<1> DEFINE c == CHOOSE k \in DOMAIN s : s[k].id = i
           d == CHOOSE k \in DOMAIN s : s[k].id = j
<1>1. c \in DOMAIN s /\ s[c].id = i /\ d \in DOMAIN s /\ s[d].id = j
  BY DEF Refers, IdsOf
<1>2. Num(c) = Num(d)
  BY Zenon DEF Renumbered, Num
<1> HIDE DEF c, d
<1> QED BY <1>1, <1>2, NumbersDiffer


\* The tables after an import of b.
LEMMA ImportedTables ==
    ASSUME ImportIInv, NEW b
    PROVE  /\ Imported(b).vehicles = InsertVehicles(b) /\ Imported(b).places = InsertPlaces(b)
           /\ Imported(b).rules = InsertRules(b) /\ Imported(b).rates = UpsertRates(b)
           /\ Imported(b).trips = InsertTrips(b) /\ Imported(b).expenses = InsertExpenses(b)
           /\ Imported(b).readings = InsertReadings(b) /\ Imported(b).settings = UpdateSettings(b)
BY DEF Imported, ImportIInv, TargetTypeOK

LEMMA InsertedVehicles ==
    ASSUME NEW b, Listed(b)
    PROVE  /\ RowByRow(InsertVehicles(b), b.vehicles)
           /\ \A k \in DOMAIN b.vehicles : LET r == b.vehicles[k] IN
                InsertVehicles(b)[Num(k)] \in
                    [name : {r.name}, default : {r.default}, active : {r.active}]
<1> DEFINE F == [k \in DOMAIN b.vehicles |-> LET r == b.vehicles[k] IN
                [name |-> r.name, default |-> r.default, active |-> r.active]]
<1>1. DOMAIN b.vehicles \subseteq Nat
  BY ListedByNumber DEF Listed, TableNames
<1>2. InsertVehicles(b) = Numbered(b.vehicles, F)
  BY DEF InsertVehicles
<1>3. \A k \in DOMAIN b.vehicles : LET r == b.vehicles[k] IN
        F[k] \in [name : {r.name}, default : {r.default}, active : {r.active}]
  OBVIOUS
<1> HIDE DEF F
<1>4. /\ RowByRow(Numbered(b.vehicles, F), b.vehicles)
      /\ \A k \in DOMAIN b.vehicles : Numbered(b.vehicles, F)[Num(k)] = F[k]
  BY <1>1, NumberedRows, Zenon
<1> QED BY <1>2, <1>3, <1>4, Zenon

LEMMA InsertedPlaces ==
    ASSUME NEW b, Listed(b)
    PROVE  /\ RowByRow(InsertPlaces(b), b.places)
           /\ \A k \in DOMAIN b.places : LET r == b.places[k] IN
                InsertPlaces(b)[Num(k)] \in
                    [name : {r.name}, radius : {r.radius}, at : {r.at}]
<1> DEFINE F == [k \in DOMAIN b.places |-> LET r == b.places[k] IN
                [name |-> r.name, radius |-> r.radius, at |-> r.at]]
<1>1. DOMAIN b.places \subseteq Nat
  BY ListedByNumber DEF Listed, TableNames
<1>2. InsertPlaces(b) = Numbered(b.places, F)
  BY DEF InsertPlaces
<1>3. \A k \in DOMAIN b.places : LET r == b.places[k] IN
        F[k] \in [name : {r.name}, radius : {r.radius}, at : {r.at}]
  OBVIOUS
<1> HIDE DEF F
<1>4. /\ RowByRow(Numbered(b.places, F), b.places)
      /\ \A k \in DOMAIN b.places : Numbered(b.places, F)[Num(k)] = F[k]
  BY <1>1, NumberedRows, Zenon
<1> QED BY <1>2, <1>3, <1>4, Zenon

LEMMA InsertedRules ==
    ASSUME NEW b, Listed(b)
    PROVE  /\ RowByRow(InsertRules(b), b.rules)
           /\ \A k \in DOMAIN b.rules : LET r == b.rules[k] IN
                InsertRules(b)[Num(k)] \in
                    [a : {Renumbered(b.places, r.a)}, akind : {r.akind},
                     b : {Renumbered(b.places, r.b)}, bkind : {r.bkind}]
<1> DEFINE F == [k \in DOMAIN b.rules |-> LET r == b.rules[k] IN
                [a |-> Renumbered(b.places, r.a), akind |-> r.akind,
                 b |-> Renumbered(b.places, r.b), bkind |-> r.bkind]]
<1>1. DOMAIN b.rules \subseteq Nat
  BY ListedByNumber DEF Listed, TableNames
<1>2. InsertRules(b) = Numbered(b.rules, F)
  BY DEF InsertRules
<1>3. \A k \in DOMAIN b.rules : LET r == b.rules[k] IN
        F[k] \in [a : {Renumbered(b.places, r.a)}, akind : {r.akind},
                  b : {Renumbered(b.places, r.b)}, bkind : {r.bkind}]
  OBVIOUS
<1> HIDE DEF F
<1>4. /\ RowByRow(Numbered(b.rules, F), b.rules)
      /\ \A k \in DOMAIN b.rules : Numbered(b.rules, F)[Num(k)] = F[k]
  BY <1>1, NumberedRows, Zenon
<1> QED BY <1>2, <1>3, <1>4, Zenon

\* What becomes of trip r of file b.
TripFrom(b, r) ==
    [source : {r.source}, span : {r.span}, distance : {r.distance}, snapped : {"none"},
     exclusion : {r.exclusion}, vehicle : {Renumbered(b.vehicles, r.vehicle)},
     place : {Renumbered(b.places, r.place)}, label : {r.label}, note : {r.note}, route : {FALSE}, imported : {TRUE}]

LEMMA InsertedTrips ==
    ASSUME NEW b, Listed(b)
    PROVE  /\ RowByRow(InsertTrips(b), b.trips)
           /\ \A k \in DOMAIN b.trips : InsertTrips(b)[Num(k)] \in TripFrom(b, b.trips[k])
<1> DEFINE F == [k \in DOMAIN b.trips |-> LET r == b.trips[k] IN
                [source |-> r.source, span |-> r.span, distance |-> r.distance, snapped |-> "none",
                 exclusion |-> r.exclusion, vehicle |-> Renumbered(b.vehicles, r.vehicle),
                 place |-> Renumbered(b.places, r.place), label |-> r.label, note |-> r.note,
                 route |-> FALSE, imported |-> TRUE]]
<1>1. DOMAIN b.trips \subseteq Nat
  BY ListedByNumber DEF Listed, TableNames
<1>2. InsertTrips(b) = Numbered(b.trips, F)
  BY DEF InsertTrips
<1>3. \A k \in DOMAIN b.trips : F[k] \in TripFrom(b, b.trips[k])
  BY DEF TripFrom
<1> HIDE DEF F
<1>4. /\ RowByRow(Numbered(b.trips, F), b.trips)
      /\ \A k \in DOMAIN b.trips : Numbered(b.trips, F)[Num(k)] = F[k]
  BY <1>1, NumberedRows, Zenon
<1> QED BY <1>2, <1>3, <1>4, Zenon

LEMMA InsertedExpenses ==
    ASSUME NEW b, Listed(b)
    PROVE  /\ RowByRow(InsertExpenses(b), b.expenses)
           /\ \A k \in DOMAIN b.expenses : LET r == b.expenses[k] IN
                InsertExpenses(b)[Num(k)] \in
                    [vehicle : {Renumbered(b.vehicles, r.vehicle)}, trip : {Renumbered(b.trips, r.trip)},
                     amount : {r.amount}, note : {r.note}]
<1> DEFINE F == [k \in DOMAIN b.expenses |-> LET r == b.expenses[k] IN
                [vehicle |-> Renumbered(b.vehicles, r.vehicle), trip |-> Renumbered(b.trips, r.trip),
                 amount |-> r.amount, note |-> r.note]]
<1>1. DOMAIN b.expenses \subseteq Nat
  BY ListedByNumber DEF Listed, TableNames
<1>2. InsertExpenses(b) = Numbered(b.expenses, F)
  BY DEF InsertExpenses
<1>3. \A k \in DOMAIN b.expenses : LET r == b.expenses[k] IN
        F[k] \in [vehicle : {Renumbered(b.vehicles, r.vehicle)}, trip : {Renumbered(b.trips, r.trip)},
                  amount : {r.amount}, note : {r.note}]
  OBVIOUS
<1> HIDE DEF F
<1>4. /\ RowByRow(Numbered(b.expenses, F), b.expenses)
      /\ \A k \in DOMAIN b.expenses : Numbered(b.expenses, F)[Num(k)] = F[k]
  BY <1>1, NumberedRows, Zenon
<1> QED BY <1>2, <1>3, <1>4, Zenon

LEMMA InsertedReadings ==
    ASSUME NEW b, Listed(b)
    PROVE  /\ RowByRow(InsertReadings(b), b.readings)
           /\ \A k \in DOMAIN b.readings : LET r == b.readings[k] IN
                InsertReadings(b)[Num(k)] \in
                    [vehicle : {Renumbered(b.vehicles, r.vehicle)}, at : {r.at}, value : {r.value}, note : {r.note}]
<1> DEFINE F == [k \in DOMAIN b.readings |-> LET r == b.readings[k] IN
                [vehicle |-> Renumbered(b.vehicles, r.vehicle), at |-> r.at, value |-> r.value, note |-> r.note]]
<1>1. DOMAIN b.readings \subseteq Nat
  BY ListedByNumber DEF Listed, TableNames
<1>2. InsertReadings(b) = Numbered(b.readings, F)
  BY DEF InsertReadings
<1>3. \A k \in DOMAIN b.readings : LET r == b.readings[k] IN
        F[k] \in [vehicle : {Renumbered(b.vehicles, r.vehicle)}, at : {r.at}, value : {r.value}, note : {r.note}]
  OBVIOUS
<1> HIDE DEF F
<1>4. /\ RowByRow(Numbered(b.readings, F), b.readings)
      /\ \A k \in DOMAIN b.readings : Numbered(b.readings, F)[Num(k)] = F[k]
  BY <1>1, NumberedRows, Zenon
<1> QED BY <1>2, <1>3, <1>4, Zenon

LEMMA ListedTables ==
    ASSUME NEW b, Listed(b)
    PROVE  /\ DOMAIN b.vehicles \subseteq Nat /\ IsFiniteSet(DOMAIN b.vehicles)
           /\ DOMAIN b.places \subseteq Nat /\ DOMAIN b.rules \subseteq Nat /\ DOMAIN b.trips \subseteq Nat
           /\ DOMAIN b.expenses \subseteq Nat /\ DOMAIN b.readings \subseteq Nat
           /\ Null \notin IdsOf(b.vehicles) /\ Null \notin IdsOf(b.places) /\ Null \notin IdsOf(b.trips)
<1>1. ASSUME NEW name \in TableNames PROVE DOMAIN b[name] \subseteq Nat /\ IsFiniteSet(DOMAIN b[name])
  BY ListedByNumber DEF Listed
<1> QED BY <1>1 DEF Listed, TableNames, Identified, IdsOf

\* At most one vehicle is the default, in the table as in the file.
LEMMA DefaultsFit ==
    ASSUME NEW b, Listed(b), VehiclesPass(b)
    PROVE  LET t == InsertVehicles(b) IN Cardinality({i \in DOMAIN t : t[i].default}) <= 1
<1> DEFINE t == InsertVehicles(b)
           old == {k \in DOMAIN b.vehicles : b.vehicles[k].default}
           new == {i \in DOMAIN t : t[i].default}
<1>1. DOMAIN b.vehicles \subseteq Nat /\ IsFiniteSet(DOMAIN b.vehicles)
  BY ListedTables
<1>2. /\ RowByRow(t, b.vehicles)
      /\ \A k \in DOMAIN b.vehicles : t[Num(k)].default = b.vehicles[k].default
  BY InsertedVehicles
<1>3. IsFiniteSet(old) /\ Cardinality(old) \in Nat /\ Cardinality(old) <= 1
  <2>1. IsFiniteSet(old)
    BY <1>1, FS_Subset
  <2> QED BY <2>1, FS_CardinalityType DEF VehiclesPass
<1> HIDE DEF t
<1>4. \A i : i \in new <=> \E k \in old : i = Num(k)
  BY <1>2 DEF RowByRow
<1>5. ASSUME Cardinality(old) = 0 PROVE Cardinality(new) <= 1
  <2>1. old = {}
    BY <1>3, <1>5, FS_EmptySet
  <2>2. new = {}
    BY <1>4, <2>1
  <2> HIDE DEF new
  <2> QED BY <2>2, FS_EmptySet
<1>6. ASSUME Cardinality(old) = 1 PROVE Cardinality(new) <= 1
  <2>1. PICK k : old = {k}
    BY <1>3, <1>6, FS_Singleton
  <2>2. new = {Num(k)}
    BY <1>4, <2>1
  <2>3. Cardinality({Num(k)}) = 1
    BY FS_Singleton
  <2> HIDE DEF new
  <2> QED BY <2>2, <2>3
<1>7. Cardinality(new) <= 1
  <2> HIDE DEF old, new
  <2> QED BY <1>3, <1>5, <1>6
<1> QED BY <1>7 DEF t

LEMMA PlacesFit ==
    ASSUME NEW b, Listed(b), PlacesPass(b)
    PROVE  LET t == InsertPlaces(b) IN \A i \in DOMAIN t :
               /\ t[i].radius \in Positive
               /\ \A j \in DOMAIN t \ {i} : t[i].name # t[j].name
<1> DEFINE t == InsertPlaces(b)
<1>1. /\ RowByRow(t, b.places)
      /\ \A k \in DOMAIN b.places :
            t[Num(k)].radius = b.places[k].radius /\ t[Num(k)].name = b.places[k].name
  BY InsertedPlaces
<1>2. ASSUME NEW k \in DOMAIN b.places
      PROVE  /\ b.places[k].radius \in Positive
             /\ \A j \in DOMAIN b.places \ {k} : b.places[j].name # b.places[k].name
  BY DEF PlacesPass, AboveZero, Rows
<1> HIDE DEF t
<1>3. ASSUME NEW i \in DOMAIN t
      PROVE  /\ t[i].radius \in Positive
             /\ \A j \in DOMAIN t \ {i} : t[i].name # t[j].name
  <2>1. PICK k \in DOMAIN b.places : i = Num(k)
    BY <1>1 DEF RowByRow
  <2>2. ASSUME NEW j \in DOMAIN t \ {i} PROVE t[i].name # t[j].name
    <3>1. PICK l \in DOMAIN b.places : j = Num(l)
      BY <1>1 DEF RowByRow
    <3> QED BY <1>1, <1>2, <2>1, <2>2, <3>1
  <2> QED BY <1>1, <1>2, <2>1, <2>2
<1> QED BY <1>3 DEF t

LEMMA RulesFit ==
    ASSUME NEW b, Listed(b), RulesPass(b)
    PROVE  \A r \in Rows(InsertRules(b)) :
        /\ NullOrRow(InsertPlaces(b), r.a) /\ NullOrRow(InsertPlaces(b), r.b)
        /\ r.a # Null => r.akind = "none"
        /\ r.b # Null => r.bkind = "none"
        /\ <<r.a, r.akind, r.b, r.bkind>> # <<Null, "none", Null, "none">>
<1> SUFFICES ASSUME NEW i \in DOMAIN InsertRules(b)
             PROVE  LET r == InsertRules(b)[i] IN
        /\ NullOrRow(InsertPlaces(b), r.a) /\ NullOrRow(InsertPlaces(b), r.b)
        /\ r.a # Null => r.akind = "none"
        /\ r.b # Null => r.bkind = "none"
        /\ <<r.a, r.akind, r.b, r.bkind>> # <<Null, "none", Null, "none">>
  BY DEF Rows
<1>1. PICK k \in DOMAIN b.rules : i = Num(k)
  BY InsertedRules DEF RowByRow
<1> DEFINE q == b.rules[k]
           r == InsertRules(b)[i]
<1>2. /\ r.a = Renumbered(b.places, q.a) /\ r.b = Renumbered(b.places, q.b)
      /\ r.akind = q.akind /\ r.bkind = q.bkind
  BY <1>1, InsertedRules
<1>3. q \in Rows(b.rules)
  BY DEF Rows
<1>4. /\ MayRefer(q.a, b.places) /\ MayRefer(q.b, b.places)
      /\ q.a # Null => q.akind = "none"
      /\ q.b # Null => q.bkind = "none"
      /\ <<q.a, q.akind, q.b, q.bkind>> # <<Null, "none", Null, "none">>
  BY <1>3 DEF RulesPass
<1>5. DOMAIN b.places \subseteq Nat
  BY ListedTables
<1>6. \A j \in DOMAIN b.places : Num(j) \in DOMAIN InsertPlaces(b)
  BY InsertedPlaces DEF RowByRow
<1> HIDE DEF q, r
<1>7. /\ q.a = Null => r.a = Null
      /\ q.a # Null => r.a # Null /\ r.a \in DOMAIN InsertPlaces(b)
      /\ q.b = Null => r.b = Null
      /\ q.b # Null => r.b # Null /\ r.b \in DOMAIN InsertPlaces(b)
  BY <1>2, <1>4, <1>5, <1>6, RenumberedRefers
<1>8. /\ NullOrRow(InsertPlaces(b), r.a) /\ NullOrRow(InsertPlaces(b), r.b)
      /\ r.a # Null => r.akind = "none"
      /\ r.b # Null => r.bkind = "none"
      /\ <<r.a, r.akind, r.b, r.bkind>> # <<Null, "none", Null, "none">>
  BY <1>2, <1>4, <1>7 DEF NullOrRow
<1> QED BY <1>8 DEF r


LEMMA RatesFit ==
    ASSUME NEW b, RatesPass(b)
    PROVE  \A r \in Rows(UpsertRates(b)) :
        /\ r.flat \in Positive /\ r.half \in Positive \cup {"none"}
        /\ (r.half = "none") = (r.month = "none") /\ r.month # "outside"
<1> SUFFICES ASSUME NEW y \in IdsOf(b.rates)
             PROVE  LET r == UpsertRates(b)[y] IN
        /\ r.flat \in Positive /\ r.half \in Positive \cup {"none"}
        /\ (r.half = "none") = (r.month = "none") /\ r.month # "outside"
  BY DEF Rows, UpsertRates
<1> DEFINE q == CHOOSE x \in Rows(b.rates) : x.id = y
           r == UpsertRates(b)[y]
<1>1. q \in Rows(b.rates)
  BY DEF IdsOf, Rows
<1>2. r.flat = q.flat /\ r.half = q.half /\ r.month = q.month
  BY DEF UpsertRates
<1> HIDE DEF q, r
<1>3. /\ AboveZero(q.flat) /\ (q.half = "none") = (q.month = "none")
      /\ q.half # "none" => AboveZero(q.half) /\ q.month = "inside"
  BY <1>1 DEF RatesPass
<1>4. /\ r.flat \in Positive /\ r.half \in Positive \cup {"none"}
      /\ (r.half = "none") = (r.month = "none") /\ r.month # "outside"
  BY <1>2, <1>3 DEF AboveZero
<1> QED BY <1>4 DEF r

LEMMA TripsFit ==
    ASSUME NEW b, Listed(b), TripsPass(b)
    PROVE  \A t \in Rows(InsertTrips(b)) :
        /\ NullOrRow(InsertVehicles(b), t.vehicle) /\ NullOrRow(InsertPlaces(b), t.place)
        /\ t.label # "none" => t.source = "manual" /\ t.place = Null /\ ~t.route
        /\ t.label \notin {"blank", "padded", "long"}
<1> SUFFICES ASSUME NEW i \in DOMAIN InsertTrips(b)
             PROVE  LET t == InsertTrips(b)[i] IN
        /\ NullOrRow(InsertVehicles(b), t.vehicle) /\ NullOrRow(InsertPlaces(b), t.place)
        /\ t.label # "none" => t.source = "manual" /\ t.place = Null /\ ~t.route
        /\ t.label \notin {"blank", "padded", "long"}
  BY DEF Rows
<1>1. PICK k \in DOMAIN b.trips : i = Num(k)
  BY InsertedTrips DEF RowByRow
<1> DEFINE q == b.trips[k]
           t == InsertTrips(b)[i]
<1>2. /\ t.vehicle = Renumbered(b.vehicles, q.vehicle) /\ t.place = Renumbered(b.places, q.place)
      /\ t.label = q.label /\ t.source = q.source /\ t.route = FALSE
  <2>1. t \in TripFrom(b, q)
    BY <1>1, InsertedTrips
  <2> HIDE DEF q, t
  <2> QED BY <2>1 DEF TripFrom
<1>3. q \in Rows(b.trips)
  BY DEF Rows
<1>4. /\ MayRefer(q.vehicle, b.vehicles) /\ MayRefer(q.place, b.places) /\ LabelPasses(q)
  BY <1>3 DEF TripsPass
<1>5. DOMAIN b.places \subseteq Nat /\ DOMAIN b.vehicles \subseteq Nat
  BY ListedTables
<1>6. /\ \A j \in DOMAIN b.places : Num(j) \in DOMAIN InsertPlaces(b)
      /\ \A j \in DOMAIN b.vehicles : Num(j) \in DOMAIN InsertVehicles(b)
  BY InsertedPlaces, InsertedVehicles DEF RowByRow
<1> HIDE DEF q, t
<1>7. /\ q.place = Null => t.place = Null
      /\ NullOrRow(InsertPlaces(b), t.place) /\ NullOrRow(InsertVehicles(b), t.vehicle)
  BY <1>2, <1>4, <1>5, <1>6, RenumberedRefers DEF NullOrRow
<1>8. /\ t.label # "none" => t.source = "manual" /\ t.place = Null /\ ~t.route
      /\ t.label \notin {"blank", "padded", "long"}
  BY <1>2, <1>4, <1>7 DEF LabelPasses
<1> QED BY <1>7, <1>8 DEF t

LEMMA ExpensesFit ==
    ASSUME NEW b, Listed(b), ExpensesPass(b)
    PROVE  \A x \in Rows(InsertExpenses(b)) :
        x.vehicle \in DOMAIN InsertVehicles(b) /\ NullOrRow(InsertTrips(b), x.trip) /\ x.amount \in {"cents"}
<1> SUFFICES ASSUME NEW i \in DOMAIN InsertExpenses(b)
             PROVE  LET x == InsertExpenses(b)[i] IN
        x.vehicle \in DOMAIN InsertVehicles(b) /\ NullOrRow(InsertTrips(b), x.trip) /\ x.amount \in {"cents"}
  BY DEF Rows
<1>1. PICK k \in DOMAIN b.expenses : i = Num(k)
  BY InsertedExpenses DEF RowByRow
<1> DEFINE q == b.expenses[k]
           x == InsertExpenses(b)[i]
<1>2. /\ x.vehicle = Renumbered(b.vehicles, q.vehicle) /\ x.trip = Renumbered(b.trips, q.trip)
      /\ x.amount = q.amount
  BY <1>1, InsertedExpenses
<1>3. q \in Rows(b.expenses)
  BY DEF Rows
<1>4. /\ Refers(q.vehicle, b.vehicles) /\ Amount(q.amount) /\ MayRefer(q.trip, b.trips)
      /\ MayRefer(q.vehicle, b.vehicles) /\ q.vehicle # Null
  BY <1>3, ListedTables DEF ExpensesPass, MayRefer, Refers
<1>5. DOMAIN b.trips \subseteq Nat /\ DOMAIN b.vehicles \subseteq Nat
  BY ListedTables
<1>6. /\ \A j \in DOMAIN b.trips : Num(j) \in DOMAIN InsertTrips(b)
      /\ \A j \in DOMAIN b.vehicles : Num(j) \in DOMAIN InsertVehicles(b)
  BY InsertedTrips, InsertedVehicles DEF RowByRow
<1> HIDE DEF q, x
<1>7. x.vehicle \in DOMAIN InsertVehicles(b) /\ NullOrRow(InsertTrips(b), x.trip)
  BY <1>2, <1>4, <1>5, <1>6, RenumberedRefers DEF NullOrRow
<1> QED BY <1>2, <1>4, <1>7 DEF x, Amount

LEMMA ReadingsFit ==
    ASSUME NEW b, Listed(b), ReadingsPass(b)
    PROVE  LET t == InsertReadings(b) IN \A i \in DOMAIN t :
        /\ t[i].vehicle \in DOMAIN InsertVehicles(b)
        /\ t[i].value \notin {"negative", "nan"}
        /\ \A j \in DOMAIN t \ {i} : <<t[i].vehicle, t[i].at>> # <<t[j].vehicle, t[j].at>>
<1> DEFINE t == InsertReadings(b)
<1>1. /\ RowByRow(t, b.readings)
      /\ \A k \in DOMAIN b.readings :
            /\ t[Num(k)].vehicle = Renumbered(b.vehicles, b.readings[k].vehicle)
            /\ t[Num(k)].at = b.readings[k].at /\ t[Num(k)].value = b.readings[k].value
  BY InsertedReadings
<1>2. ASSUME NEW k \in DOMAIN b.readings
      PROVE  /\ Refers(b.readings[k].vehicle, b.vehicles) /\ MayRefer(b.readings[k].vehicle, b.vehicles)
             /\ b.readings[k].vehicle # Null /\ b.readings[k].value \notin {"negative", "nan"}
             /\ \A j \in DOMAIN b.readings \ {k} :
                    <<b.readings[j].vehicle, b.readings[j].at>> # <<b.readings[k].vehicle, b.readings[k].at>>
  <2>1. Refers(b.readings[k].vehicle, b.vehicles) /\ NotNegative(b.readings[k].value)
        /\ \A j \in DOMAIN b.readings \ {k} :
                <<b.readings[j].vehicle, b.readings[j].at>> # <<b.readings[k].vehicle, b.readings[k].at>>
    BY DEF ReadingsPass
  <2>2. b.readings[k].vehicle # Null
    BY <2>1, ListedTables DEF Refers
  <2> QED BY <2>1, <2>2 DEF MayRefer, NotNegative, Finite
<1>3. DOMAIN b.vehicles \subseteq Nat
  BY ListedTables
<1>4. \A j \in DOMAIN b.vehicles : Num(j) \in DOMAIN InsertVehicles(b)
  BY InsertedVehicles DEF RowByRow
<1> HIDE DEF t
<1>5. ASSUME NEW i \in DOMAIN t
      PROVE  /\ t[i].vehicle \in DOMAIN InsertVehicles(b)
             /\ t[i].value \notin {"negative", "nan"}
             /\ \A j \in DOMAIN t \ {i} : <<t[i].vehicle, t[i].at>> # <<t[j].vehicle, t[j].at>>
  <2>1. PICK k \in DOMAIN b.readings : i = Num(k)
    BY <1>1 DEF RowByRow
  <2>2. t[i].vehicle \in DOMAIN InsertVehicles(b)
    BY <1>1, <1>2, <1>3, <1>4, <2>1, RenumberedRefers
  <2>3. ASSUME NEW j \in DOMAIN t \ {i}, t[i].vehicle = t[j].vehicle, t[i].at = t[j].at PROVE FALSE
    <3>1. PICK l \in DOMAIN b.readings : j = Num(l)
      BY <1>1 DEF RowByRow
    <3>2. b.readings[k].vehicle = b.readings[l].vehicle
      BY <1>1, <1>2, <1>3, <2>1, <2>3, <3>1, RenumberedDiffers
    <3> QED BY <1>1, <1>2, <2>1, <2>3, <3>1, <3>2
  <2> QED BY <1>1, <1>2, <2>1, <2>2, <2>3
<1> QED BY <1>5 DEF t

\* The columns hold the values of an imported file, when they hold those of the file.
LEMMA ColumnsFit ==
    ASSUME ImportIInv, NEW b, Listed(b), ~BeyondItsColumn(b)
    PROVE  ColumnsHold(Imported(b))
<1> DEFINE t == Imported(b)
<1>1. /\ t.vehicles = InsertVehicles(b) /\ t.places = InsertPlaces(b) /\ t.rates = UpsertRates(b)
      /\ t.trips = InsertTrips(b) /\ t.expenses = InsertExpenses(b) /\ t.readings = InsertReadings(b)
  BY ImportedTables
<1> HIDE DEF t
<1>2. \A r \in Rows(t.vehicles) : TextColumn(r.name)
  <2>1. ASSUME NEW i \in DOMAIN t.vehicles PROVE \E k \in DOMAIN b.vehicles : t.vehicles[i].name = b.vehicles[k].name
    BY <1>1, InsertedVehicles DEF RowByRow
  <2> QED BY <2>1 DEF BeyondItsColumn, Rows
<1>3. \A r \in Rows(t.places) : RealColumn(r.radius) /\ TextColumn(r.name)
  <2>1. ASSUME NEW i \in DOMAIN t.places
        PROVE  \E k \in DOMAIN b.places :
                  t.places[i].name = b.places[k].name /\ t.places[i].radius = b.places[k].radius
    BY <1>1, InsertedPlaces DEF RowByRow
  <2> QED BY <2>1 DEF BeyondItsColumn, Rows
<1>4. \A y \in DOMAIN t.rates : YearColumn(y)
  BY <1>1 DEF BeyondItsColumn, UpsertRates, IdsOf, Rows
<1>5. \A r \in Rows(t.trips) :
        RealColumn(r.distance) /\ SpanColumn(r.span) /\ TextColumn(r.label) /\ TextColumn(r.note)
  <2>1. ASSUME NEW i \in DOMAIN t.trips
        PROVE  \E k \in DOMAIN b.trips : LET r == b.trips[k] IN
                  /\ t.trips[i].distance = r.distance /\ t.trips[i].span = r.span
                  /\ t.trips[i].label = r.label /\ t.trips[i].note = r.note
    <3>1. PICK k \in DOMAIN b.trips : t.trips[i] \in TripFrom(b, b.trips[k])
      BY <1>1, InsertedTrips DEF RowByRow
    <3> QED BY <3>1 DEF TripFrom
  <2> QED BY <2>1 DEF BeyondItsColumn, Rows
<1>6. \A r \in Rows(t.expenses) : TextColumn(r.note)
  <2>1. ASSUME NEW i \in DOMAIN t.expenses PROVE \E k \in DOMAIN b.expenses : t.expenses[i].note = b.expenses[k].note
    BY <1>1, InsertedExpenses DEF RowByRow
  <2> QED BY <2>1 DEF BeyondItsColumn, Rows
<1>7. \A r \in Rows(t.readings) : TimeColumn(r.at) /\ TextColumn(r.note)
  <2>1. ASSUME NEW i \in DOMAIN t.readings
        PROVE  \E k \in DOMAIN b.readings :
                  t.readings[i].at = b.readings[k].at /\ t.readings[i].note = b.readings[k].note
    BY <1>1, InsertedReadings DEF RowByRow
  <2> QED BY <2>1 DEF BeyondItsColumn, Rows
<1>8. ColumnsHold(t)
  BY <1>2, <1>3, <1>4, <1>5, <1>6, <1>7 DEF ColumnsHold
<1> QED BY <1>8 DEF t

\* A file that the checks accept fits the tables, unless a value is beyond its column.
LEMMA AcceptedIsStorable ==
    ASSUME ImportIInv, NEW b, Listed(b), Normalizes(b)
    PROVE  Storable(Imported(b)) \/ BeyondItsColumn(b)
<1> SUFFICES ASSUME ~BeyondItsColumn(b) PROVE Storable(Imported(b))
  OBVIOUS
<1>1. ColumnsHold(Imported(b))
  BY ColumnsFit
<1>2. /\ VehiclesPass(b) /\ PlacesPass(b) /\ RulesPass(b) /\ RatesPass(b)
      /\ TripsPass(b) /\ ExpensesPass(b) /\ ReadingsPass(b)
  BY DEF Normalizes
<1> DEFINE t == Imported(b)
<1>3. /\ t.vehicles = InsertVehicles(b) /\ t.places = InsertPlaces(b)
      /\ t.rules = InsertRules(b) /\ t.rates = UpsertRates(b)
      /\ t.trips = InsertTrips(b) /\ t.expenses = InsertExpenses(b)
      /\ t.readings = InsertReadings(b)
  BY ImportedTables
<1> HIDE DEF t
<1>4. Cardinality({i \in DOMAIN t.vehicles : t.vehicles[i].default}) <= 1
  BY <1>2, <1>3, DefaultsFit
<1>5. \A i \in DOMAIN t.places :
        /\ t.places[i].radius \in Positive
        /\ \A j \in DOMAIN t.places \ {i} : t.places[i].name # t.places[j].name
  BY <1>2, <1>3, PlacesFit
<1>6. \A r \in Rows(t.rules) :
        /\ NullOrRow(t.places, r.a) /\ NullOrRow(t.places, r.b)
        /\ r.a # Null => r.akind = "none"
        /\ r.b # Null => r.bkind = "none"
        /\ <<r.a, r.akind, r.b, r.bkind>> # <<Null, "none", Null, "none">>
  BY <1>2, <1>3, RulesFit
<1>7. \A r \in Rows(t.rates) :
        /\ r.flat \in Positive /\ r.half \in Positive \cup {"none"}
        /\ (r.half = "none") = (r.month = "none") /\ r.month # "outside"
  BY <1>2, <1>3, RatesFit
<1>8. \A x \in Rows(t.trips) :
        /\ NullOrRow(t.vehicles, x.vehicle) /\ NullOrRow(t.places, x.place)
        /\ x.label # "none" => x.source = "manual" /\ x.place = Null /\ ~x.route
        /\ x.label \notin {"blank", "padded", "long"}
  BY <1>2, <1>3, TripsFit
<1>9. \A x \in Rows(t.expenses) :
        x.vehicle \in DOMAIN t.vehicles /\ NullOrRow(t.trips, x.trip) /\ x.amount \in {"cents"}
  BY <1>2, <1>3, ExpensesFit
<1>10. \A i \in DOMAIN t.readings :
        /\ t.readings[i].vehicle \in DOMAIN t.vehicles
        /\ t.readings[i].value \notin {"negative", "nan"}
        /\ \A j \in DOMAIN t.readings \ {i} :
            <<t.readings[i].vehicle, t.readings[i].at>> # <<t.readings[j].vehicle, t.readings[j].at>>
  BY <1>2, <1>3, ReadingsFit
<1>11. Storable(t)
  <2>1. ColumnsHold(t)
    BY <1>1 DEF t
  <2> QED BY <2>1, <1>4, <1>5, <1>6, <1>7, <1>8, <1>9, <1>10, Zenon DEF Storable
<1> QED BY <1>11 DEF t


-----------------------------------------------------------------------------
(* The account that exports, and its file (Portable).                      *)

LEMMA BookTables ==
    ASSUME NEW b, AccountBook(b)
    PROVE  /\ DOMAIN b = {"vehicles", "places", "rules", "rates", "trips", "expenses", "readings",
                          "settings", "fixes", "progressed"}
           /\ DOMAIN RowOf = TableNames
           /\ \A name \in TableNames : Numbers(b[name]) /\ \A i \in DOMAIN b[name] : b[name][i] \in RowOf[name]
<1>1. DOMAIN RowOf = TableNames
  BY DEF RowOf, TableNames
<1>2. ASSUME NEW name \in TableNames
      PROVE  Numbers(b[name]) /\ \A i \in DOMAIN b[name] : b[name][i] \in RowOf[name]
  BY <1>1 DEF AccountBook, Numbers, Rows
<1>3. DOMAIN b = {"vehicles", "places", "rules", "rates", "trips", "expenses", "readings",
                  "settings", "fixes", "progressed"}
  BY DEF AccountBook, Fresh
<1> QED BY <1>1, <1>2, <1>3

\* One table of an account changes.
LEMMA TableChanges ==
    ASSUME NEW b, AccountBook(b), NEW name \in TableNames, NEW f, Numbers(f),
           \A i \in DOMAIN f : f[i] \in RowOf[name],
           name = "vehicles" => DOMAIN f # {}, name = "settings" => DOMAIN f = {1}
    PROVE  AccountBook([b EXCEPT ![name] = f])
<1> DEFINE c == [b EXCEPT ![name] = f]
<1>1. DOMAIN c = DOMAIN b /\ name \in DOMAIN b /\ DOMAIN RowOf = TableNames
  BY BookTables DEF TableNames
<1>2. /\ \A n \in TableNames : Numbers(b[n]) /\ Rows(b[n]) \subseteq RowOf[n]
      /\ DOMAIN b.vehicles # {} /\ DOMAIN b.settings = {1} /\ DOMAIN b = DOMAIN Fresh
  BY <1>1 DEF AccountBook, Numbers
<1>3. \A n \in TableNames : c[n] = IF n = name THEN f ELSE b[n]
  BY <1>1, BookTables DEF TableNames
<1>4. Rows(f) \subseteq RowOf[name]
  BY DEF Rows
<1> HIDE DEF c
<1>5. \A n \in TableNames : Numbers(c[n]) /\ Rows(c[n]) \subseteq RowOf[n]
  BY <1>2, <1>3, <1>4
<1>6. DOMAIN c.vehicles # {} /\ DOMAIN c.settings = {1}
  BY <1>2, <1>3 DEF TableNames
<1>7. AccountBook(c)
  BY <1>1, <1>2, <1>5, <1>6 DEF AccountBook, Numbers
<1> QED BY <1>7 DEF c

LEMMA RowIsPut ==
    ASSUME NEW f, Numbers(f), NEW S, \A i \in DOMAIN f : f[i] \in S, NEW n \in Nat \ {Null}, NEW r \in S
    PROVE  /\ Numbers(Put(f, n, r)) /\ DOMAIN Put(f, n, r) # {}
           /\ \A i \in DOMAIN Put(f, n, r) : Put(f, n, r)[i] \in S
<1>1. DOMAIN Put(f, n, r) = DOMAIN f \cup {n}
  BY DEF Put
<1>2. IsFiniteSet(DOMAIN f \cup {n})
  BY FS_AddElement DEF Numbers
<1>3. \A i \in DOMAIN Put(f, n, r) : Put(f, n, r)[i] \in S
  BY DEF Put
<1> QED BY <1>1, <1>2, <1>3 DEF Numbers

LEMMA RowsAreDropped ==
    ASSUME NEW f, Numbers(f), NEW S, \A i \in DOMAIN f : f[i] \in S, NEW D
    PROVE  Numbers(Drop(f, D)) /\ \A i \in DOMAIN Drop(f, D) : Drop(f, D)[i] \in S
<1>1. DOMAIN Drop(f, D) \subseteq DOMAIN f
  BY DEF Drop
<1>2. IsFiniteSet(DOMAIN Drop(f, D))
  BY <1>1, FS_Subset DEF Numbers
<1> QED BY <1>1, <1>2 DEF Numbers, Drop

LEMMA SameNumbers ==
    ASSUME NEW f, Numbers(f), NEW g, DOMAIN g = DOMAIN f PROVE Numbers(g)
BY DEF Numbers

LEMMA Revised ==
    ASSUME NEW b, Revise(b)
    PROVE  here' = b /\ Storable(b) /\ revisions' = revisions + 1 /\ UNCHANGED <<export, files, targetVars>>
BY DEF Revise

\* What the owner does to vehicles and settings.
LEMMA VehicleRevisions ==
    ASSUME AccountBook(here), revisions \in Nat,
           AddVehicle \/ RenameVehicle \/ RetireVehicle \/ AutoAssign \/ UpdateTimezone
    PROVE  \E b : Revise(b) /\ AccountBook(b)
<1> DEFINE v == here.vehicles
           S == RowOf["vehicles"]
<1>1. /\ Numbers(v) /\ \A i \in DOMAIN v : v[i] \in S
      /\ S = [name : {"seeded", "plain", "unstorable"}, default : BOOLEAN, active : BOOLEAN]
      /\ DOMAIN v # {}
  BY BookTables DEF RowOf, TableNames, AccountBook
<1>2. /\ Numbers(here.settings) /\ DOMAIN here.settings = {1}
      /\ here.settings[1] \in [auto : BOOLEAN, tz : {"utc", "far"}]
      /\ RowOf["settings"] = [auto : BOOLEAN, tz : {"utc", "far"}]
  BY BookTables DEF RowOf, TableNames, AccountBook
<1>3. ASSUME NEW f, Numbers(f), \A i \in DOMAIN f : f[i] \in S, DOMAIN f # {}
      PROVE  AccountBook([here EXCEPT !.vehicles = f])
  BY <1>3, TableChanges DEF TableNames
<1>4. ASSUME NEW f, DOMAIN f = {1}, f[1] \in [auto : BOOLEAN, tz : {"utc", "far"}]
      PROVE  AccountBook([here EXCEPT !.settings = f])
  BY <1>2, <1>4, TableChanges, SameNumbers DEF TableNames
<1> HIDE DEF v, S
<1>5. CASE AddVehicle
  <2>1. PICK name \in {"blank", "padded", "unstorable"}, default \in BOOLEAN :
            /\ Trimmed(name) # "none"
            /\ Revise([here EXCEPT !.vehicles = Put(IF default THEN NoDefault ELSE v, New,
                    [name |-> Trimmed(name), default |-> default, active |-> TRUE])])
    BY <1>5, Zenon DEF AddVehicle, v
  <2> DEFINE old == IF default THEN NoDefault ELSE v
             r == [name |-> Trimmed(name), default |-> default, active |-> TRUE]
  <2>2. DOMAIN old = DOMAIN v /\ \A i \in DOMAIN old : old[i] \in S
    BY <1>1 DEF NoDefault, v
  <2>3. r \in S /\ New \in Nat \ {Null}
    BY <1>1, <2>1 DEF Trimmed, New, Null
  <2> HIDE DEF old, r
  <2>4. Numbers(old)
    BY <1>1, <2>2, SameNumbers
  <2>5. AccountBook([here EXCEPT !.vehicles = Put(old, New, r)])
    BY <1>3, <2>2, <2>3, <2>4, RowIsPut
  <2> QED BY <2>1, <2>5 DEF old, r
<1>6. CASE RenameVehicle
  <2>1. PICK i \in DOMAIN v, name \in {"blank", "plain"} :
            Trimmed(name) # "none" /\ Revise([here EXCEPT !.vehicles[i].name = Trimmed(name)])
    BY <1>6, Zenon DEF RenameVehicle, v
  <2> DEFINE f == [v EXCEPT ![i].name = Trimmed(name)]
  <2>2. DOMAIN f = DOMAIN v /\ \A j \in DOMAIN f : f[j] \in S
    BY <1>1, <2>1 DEF Trimmed
  <2>3. [here EXCEPT !.vehicles[i].name = Trimmed(name)] = [here EXCEPT !.vehicles = f]
    BY DEF v
  <2> HIDE DEF f
  <2> QED BY <1>1, <1>3, <2>1, <2>2, <2>3, SameNumbers
<1>7. CASE RetireVehicle
  <2>1. PICK i \in DOMAIN v :
            Revise([here EXCEPT !.vehicles[i].active = FALSE, !.vehicles[i].default = FALSE])
    BY <1>7, Zenon DEF RetireVehicle, v
  <2> DEFINE f == [v EXCEPT ![i] = [[v[i] EXCEPT !.active = FALSE] EXCEPT !.default = FALSE]]
  <2>2. DOMAIN f = DOMAIN v /\ \A j \in DOMAIN f : f[j] \in S
    BY <1>1, <2>1
  <2>3. [here EXCEPT !.vehicles[i].active = FALSE, !.vehicles[i].default = FALSE]
            = [here EXCEPT !.vehicles = f]
    BY <2>1, BookTables DEF v
  <2> HIDE DEF f
  <2> QED BY <1>1, <1>3, <2>1, <2>2, <2>3, SameNumbers
<1>8. CASE AutoAssign
  <2> DEFINE f == [here.settings EXCEPT ![1].auto = ~here.settings[1].auto]
  <2>1. DOMAIN f = {1} /\ f[1] \in [auto : BOOLEAN, tz : {"utc", "far"}]
    BY <1>2
  <2>2. Revise([here EXCEPT !.settings = f])
    BY <1>8 DEF AutoAssign
  <2> QED BY <1>4, <2>1, <2>2
<1>9. CASE UpdateTimezone
  <2>1. PICK tz \in {"far", "bogus"} : tz # "bogus" /\ Revise([here EXCEPT !.settings[1].tz = tz])
    BY <1>9, Zenon DEF UpdateTimezone
  <2> DEFINE f == [here.settings EXCEPT ![1].tz = tz]
  <2>2. DOMAIN f = {1} /\ f[1] \in [auto : BOOLEAN, tz : {"utc", "far"}]
    BY <1>2, <2>1
  <2>3. [here EXCEPT !.settings[1].tz = tz] = [here EXCEPT !.settings = f]
    OBVIOUS
  <2> QED BY <1>4, <2>1, <2>2, <2>3
<1> QED BY <1>5, <1>6, <1>7, <1>8, <1>9


LEMMA RowAdded ==
    ASSUME NEW b, AccountBook(b), NEW name \in TableNames \ {"settings"}, NEW n \in Nat \ {Null},
           NEW r \in RowOf[name]
    PROVE  AccountBook([b EXCEPT ![name] = Put(b[name], n, r)])
<1>1. Numbers(b[name]) /\ \A i \in DOMAIN b[name] : b[name][i] \in RowOf[name]
  BY BookTables
<1> DEFINE f == Put(b[name], n, r)
<1>2. Numbers(f) /\ DOMAIN f # {} /\ \A i \in DOMAIN f : f[i] \in RowOf[name]
  BY <1>1, RowIsPut
<1> HIDE DEF f
<1>3. AccountBook([b EXCEPT ![name] = f])
  BY <1>2, TableChanges
<1> QED BY <1>3 DEF f

LEMMA RowsGone ==
    ASSUME NEW b, AccountBook(b), NEW name \in TableNames \ {"settings", "vehicles"}, NEW D
    PROVE  AccountBook([b EXCEPT ![name] = Drop(b[name], D)])
<1>1. Numbers(b[name]) /\ \A i \in DOMAIN b[name] : b[name][i] \in RowOf[name]
  BY BookTables
<1> DEFINE f == Drop(b[name], D)
<1>2. Numbers(f) /\ \A i \in DOMAIN f : f[i] \in RowOf[name]
  BY <1>1, RowsAreDropped
<1> HIDE DEF f
<1>3. AccountBook([b EXCEPT ![name] = f])
  BY <1>2, TableChanges
<1> QED BY <1>3 DEF f

LEMMA RowsEdited ==
    ASSUME NEW b, AccountBook(b), NEW name \in TableNames, NEW f, DOMAIN f = DOMAIN b[name],
           \A i \in DOMAIN f : f[i] \in RowOf[name]
    PROVE  AccountBook([b EXCEPT ![name] = f])
<1>1. Numbers(b[name])
  BY BookTables
<1>2. Numbers(f)
  BY <1>1, SameNumbers
<1>3. /\ name = "vehicles" => DOMAIN f # {}
      /\ name = "settings" => DOMAIN f = {1}
  BY DEF AccountBook
<1> QED BY <1>2, <1>3, TableChanges

\* What the owner does to places, rules and rates.
LEMMA PlaceRevisions ==
    ASSUME AccountBook(here), revisions \in Nat,
           AddPlace \/ RemovePlace \/ AddRule \/ RemoveRule \/ UpsertRate
    PROVE  \E b : Revise(b) /\ AccountBook(b)
<1> DEFINE K == {"none", "home", "work"}
<1>1. /\ RowOf["places"] = [name : {"Home", "Office"}, radius : Positive, at : {"inside"}]
      /\ RowOf["rules"] = [a : Nat, akind : K, b : Nat, bkind : K]
      /\ RowOf["rates"] = [flat : Positive, half : Positive \cup {"none"}, month : {"none", "inside"}]
  BY DEF RowOf
<1>2. New \in Nat \ {Null}
  BY DEF New, Null
<1>3. \A name \in TableNames : Numbers(here[name]) /\ \A i \in DOMAIN here[name] : here[name][i] \in RowOf[name]
  BY BookTables
<1>4. CASE AddPlace
  <2>1. PICK name \in {"blank", "Home", "Office"}, radius \in {"zero", "nan", "huge", "normal"},
               at \in {"inside", "outside"} :
            /\ Trimmed(name) # "none" /\ radius \in Positive /\ at = "inside"
            /\ Revise([here EXCEPT !.places = Put(here.places, New, [name |-> name, radius |-> radius, at |-> at])])
    BY <1>4, Zenon DEF AddPlace
  <2> DEFINE r == [name |-> name, radius |-> radius, at |-> at]
  <2>2. r \in RowOf["places"]
    BY <1>1, <2>1 DEF Trimmed
  <2> HIDE DEF r
  <2>3. AccountBook([here EXCEPT !.places = Put(here.places, New, r)])
    BY <1>2, <2>2, RowAdded DEF TableNames
  <2> QED BY <2>1, <2>3 DEF r
<1>5. CASE RemovePlace
  <2>1. PICK p \in DOMAIN here.places :
            Revise([here EXCEPT !.places = Drop(here.places, {p}), !.rules = Drop(here.rules, Naming(p)),
                                !.trips = WithoutPlace(p)])
    BY <1>5, Zenon DEF RemovePlace
  <2> DEFINE b1 == [here EXCEPT !.places = Drop(here.places, {p})]
             b2 == [b1 EXCEPT !.rules = Drop(b1.rules, Naming(p))]
             b3 == [b2 EXCEPT !.trips = WithoutPlace(p)]
  <2>2. AccountBook(b1)
    BY RowsGone DEF TableNames
  <2>3. AccountBook(b2)
    <3> HIDE DEF b1
    <3> QED BY <2>2, RowsGone DEF TableNames
  <2>4. \A i \in DOMAIN WithoutPlace(p) : WithoutPlace(p)[i] \in RowOf["trips"]
    <3>1. \A i \in DOMAIN here.trips : here.trips[i] \in RowOf["trips"]
      BY BookTables DEF TableNames
    <3> QED BY <3>1 DEF RowOf, Null, WithoutPlace
  <2>5. b1.rules = here.rules /\ b2.trips = here.trips
    BY BookTables
  <2>6. DOMAIN WithoutPlace(p) = DOMAIN b2.trips
    BY <2>5 DEF WithoutPlace
  <2>7. AccountBook(b3)
    <3> HIDE DEF b2
    <3> QED BY <2>3, <2>4, <2>6, RowsEdited DEF TableNames
  <2>8. Revise(b3)
    BY <2>1, <2>5
  <2> QED BY <2>7, <2>8
<1>6. CASE AddRule
  <2>1. PICK p \in DOMAIN here.places \cup {Null}, kind \in {"none", "home"} :
            Revise([here EXCEPT !.rules = Put(here.rules, New, [a |-> p, akind |-> kind, b |-> Null, bkind |-> "none"])])
    BY <1>6, Zenon DEF AddRule
  <2> DEFINE r == [a |-> p, akind |-> kind, b |-> Null, bkind |-> "none"]
  <2>2. r \in RowOf["rules"]
    <3>1. p \in Nat
      BY <1>3 DEF TableNames, Numbers, Null
    <3> QED BY <1>1, <3>1 DEF Null
  <2> HIDE DEF r
  <2>3. AccountBook([here EXCEPT !.rules = Put(here.rules, New, r)])
    BY <1>2, <2>2, RowAdded DEF TableNames
  <2> QED BY <2>1, <2>3 DEF r
<1>7. CASE RemoveRule
  <2>1. PICK i \in DOMAIN here.rules : Revise([here EXCEPT !.rules = Drop(here.rules, {i})])
    BY <1>7, Zenon DEF RemoveRule
  <2> QED BY <2>1, RowsGone DEF TableNames
<1>8. CASE UpsertRate
  <2>1. PICK year \in {1, 2}, flat \in {"zero", "tiny", "other"}, half \in {"none", "zero", "normal"},
             month \in {"inside", "outside"} :
            /\ flat \in Positive
            /\ half # "none" => half \in Positive /\ month = "inside"
            /\ Revise([here EXCEPT !.rates = Put(here.rates, year, [flat |-> flat, half |-> half,
                    month |-> IF half = "none" THEN "none" ELSE month])])
    BY <1>8, Zenon DEF UpsertRate
  <2> DEFINE r == [flat |-> flat, half |-> half, month |-> IF half = "none" THEN "none" ELSE month]
  <2>2. r \in RowOf["rates"] /\ year \in Nat \ {Null}
    BY <1>1, <2>1 DEF Null
  <2> HIDE DEF r
  <2>3. AccountBook([here EXCEPT !.rates = Put(here.rates, year, r)])
    BY <2>2, RowAdded DEF TableNames
  <2> QED BY <2>1, <2>3 DEF r
<1> QED BY <1>4, <1>5, <1>6, <1>7, <1>8


\* What the owner does to trips.
LEMMA TripRevisions ==
    ASSUME AccountBook(here), revisions \in Nat,
           AddManualTrip \/ DetectTrip \/ SnapTrip \/ LabelTrip \/ NoteTrip \/ AssignTrip \/ ExcludeTrip \/ RemoveTrip
    PROVE  \E b : Revise(b) /\ AccountBook(b)
<1> DEFINE S == RowOf["trips"]
<1>1. S = [source : {"manual", "detected"}, span : {"none", "forward"}, distance : Distances,
           snapped : {"none", "other"}, exclusion : {"none", "not_my_vehicle"}, vehicle : Nat, place : Nat,
           label : Text, note : Text, route : BOOLEAN, imported : BOOLEAN]
  BY DEF RowOf
<1>2. New \in Nat \ {Null}
  BY DEF New, Null
<1>3. \A i \in DOMAIN here.trips : here.trips[i] \in S
  BY BookTables DEF TableNames
<1>4. (\A v \in DOMAIN here.vehicles \cup {Null} : v \in Nat) /\ (\A p \in DOMAIN here.places \cup {Null} : p \in Nat)
  BY BookTables DEF TableNames, Numbers, Null
<1>5. ASSUME NEW r \in S PROVE AccountBook([here EXCEPT !.trips = Put(here.trips, New, r)])
  BY <1>2, RowAdded DEF TableNames
<1>6. ASSUME NEW t \in DOMAIN here.trips, NEW r \in S
      PROVE  AccountBook([here EXCEPT !.trips = [here.trips EXCEPT ![t] = r]])
  <2> DEFINE f == [here.trips EXCEPT ![t] = r]
  <2>1. DOMAIN f = DOMAIN here.trips /\ \A i \in DOMAIN f : f[i] \in S
    BY <1>3
  <2> HIDE DEF f
  <2>2. AccountBook([here EXCEPT !.trips = f])
    BY <2>1, RowsEdited DEF TableNames
  <2> QED BY <2>2 DEF f
<1> HIDE DEF S
<1>7. CASE AddManualTrip
  <2>1. PICK span \in {"none", "forward"}, api \in BOOLEAN, x \in {"tiny", "huge", "normal"},
             label \in {"padded", "long"}, place \in DOMAIN here.places \cup {Null}, route \in BOOLEAN,
             v \in DOMAIN here.vehicles \cup {Null} :
        /\ TripSpan(span, api) = "forward" /\ TripDistance(x) /\ label # "long"
        /\ api => place = Null /\ ~route
        /\ Revise([here EXCEPT !.trips = Put(here.trips, New,
            [source |-> "manual", span |-> "forward", distance |-> x, snapped |-> "none", exclusion |-> "none",
             vehicle |-> v, place |-> place, label |-> IF place = Null /\ ~route THEN Trimmed(label) ELSE "none",
             note |-> "none", route |-> route, imported |-> FALSE])])
    BY <1>7, Zenon DEF AddManualTrip
  <2> DEFINE r == [source |-> "manual", span |-> "forward", distance |-> x, snapped |-> "none",
                   exclusion |-> "none", vehicle |-> v, place |-> place,
                   label |-> IF place = Null /\ ~route THEN Trimmed(label) ELSE "none",
                   note |-> "none", route |-> route, imported |-> FALSE]
  <2>2. r \in S
    <3>1. (IF place = Null /\ ~route THEN Trimmed(label) ELSE "none") \in Text
      BY DEF Trimmed, Text
    <3>2. v \in Nat /\ place \in Nat /\ x \in Distances
      BY <1>4, <2>1 DEF TripDistance, Distances, Number
    <3>3. "none" \in Text
      BY DEF Text
    <3> QED BY <1>1, <3>1, <3>2, <3>3
  <2> HIDE DEF r
  <2>3. AccountBook([here EXCEPT !.trips = Put(here.trips, New, r)])
    BY <1>5, <2>2
  <2> QED BY <2>1, <2>3 DEF r
<1>8. CASE DetectTrip
  <2>1. PICK place \in DOMAIN here.places \cup {Null} :
        Revise([here EXCEPT !.trips = Put(here.trips, New,
            [source |-> "detected", span |-> "forward", distance |-> "normal", snapped |-> "none",
             exclusion |-> "none", vehicle |-> Null, place |-> place, label |-> "none", note |-> "none",
             route |-> TRUE, imported |-> FALSE])])
    BY <1>8, Zenon DEF DetectTrip
  <2> DEFINE r == [source |-> "detected", span |-> "forward", distance |-> "normal", snapped |-> "none",
                   exclusion |-> "none", vehicle |-> Null, place |-> place, label |-> "none", note |-> "none",
                   route |-> TRUE, imported |-> FALSE]
  <2>2. r \in S
    BY <1>1, <1>4 DEF Distances, Number, Text, Null
  <2> HIDE DEF r
  <2>3. AccountBook([here EXCEPT !.trips = Put(here.trips, New, r)])
    BY <1>5, <2>2
  <2> QED BY <2>1, <2>3 DEF r
<1>9. CASE SnapTrip
  <2>1. PICK t \in DOMAIN here.trips : Revise([here EXCEPT !.trips[t].snapped = "other"])
    BY <1>9, Zenon DEF SnapTrip
  <2>2. [here.trips[t] EXCEPT !.snapped = "other"] \in S
    BY <1>1, <1>3
  <2> QED BY <1>6, <2>1, <2>2
<1>10. CASE LabelTrip
  <2>1. PICK t \in DOMAIN here.trips, label \in {"blank", "plain", "long"} :
            Revise([here EXCEPT !.trips[t].label = Trimmed(label)])
    BY <1>10, Zenon DEF LabelTrip
  <2>2. Trimmed(label) \in Text
    BY DEF Trimmed, Text
  <2>3. [here.trips[t] EXCEPT !.label = Trimmed(label)] \in S
    BY <1>1, <1>3, <2>2
  <2> QED BY <1>6, <2>1, <2>3
<1>11. CASE AssignTrip
  <2>1. PICK t \in DOMAIN here.trips, v \in DOMAIN here.vehicles \cup {Null} :
            Revise([here EXCEPT !.trips[t].vehicle = v])
    BY <1>11, Zenon DEF AssignTrip
  <2>2. [here.trips[t] EXCEPT !.vehicle = v] \in S
    BY <1>1, <1>3, <1>4
  <2> QED BY <1>6, <2>1, <2>2
<1>12. CASE ExcludeTrip
  <2>1. PICK t \in DOMAIN here.trips, x \in {"not_my_vehicle", "bogus"} :
            x # "bogus" /\ Revise([here EXCEPT !.trips[t].exclusion = x])
    BY <1>12, Zenon DEF ExcludeTrip
  <2>2. [here.trips[t] EXCEPT !.exclusion = x] \in S
    BY <1>1, <1>3, <2>1
  <2> QED BY <1>6, <2>1, <2>2
<1>13. CASE NoteTrip
  <2>1. PICK t \in DOMAIN here.trips, note \in {"blank", "padded", "unstorable"} :
            Revise([here EXCEPT !.trips[t].note = Trimmed(note)])
    BY <1>13, Zenon DEF NoteTrip
  <2>2. Trimmed(note) \in Text
    BY DEF Trimmed, Text
  <2>3. [here.trips[t] EXCEPT !.note = Trimmed(note)] \in S
    BY <1>1, <1>3, <2>2
  <2> QED BY <1>6, <2>1, <2>3
<1>14. CASE RemoveTrip
  <2>1. PICK t \in DOMAIN here.trips :
            Revise([here EXCEPT !.trips = Drop(here.trips, {t}), !.expenses = WithoutTrip(t)])
    BY <1>14, Zenon DEF RemoveTrip
  <2> DEFINE b1 == [here EXCEPT !.trips = Drop(here.trips, {t})]
             b2 == [b1 EXCEPT !.expenses = WithoutTrip(t)]
  <2>2. AccountBook(b1)
    BY RowsGone DEF TableNames
  <2>3. \A i \in DOMAIN WithoutTrip(t) : WithoutTrip(t)[i] \in RowOf["expenses"]
    <3>1. \A i \in DOMAIN here.expenses : here.expenses[i] \in RowOf["expenses"]
      BY BookTables DEF TableNames
    <3> QED BY <3>1 DEF RowOf, Null, WithoutTrip
  <2>4. DOMAIN WithoutTrip(t) = DOMAIN b1.expenses
    BY BookTables DEF WithoutTrip
  <2>5. AccountBook(b2)
    <3> HIDE DEF b1
    <3> QED BY <2>2, <2>3, <2>4, RowsEdited DEF TableNames
  <2> QED BY <2>1, <2>5
<1> QED BY <1>7, <1>8, <1>9, <1>10, <1>11, <1>12, <1>13, <1>14

\* What the owner does to expenses and readings.
LEMMA ExpenseRevisions ==
    ASSUME AccountBook(here), revisions \in Nat, AddExpense \/ RemoveExpense \/ AddReading \/ RemoveReading
    PROVE  \E b : Revise(b) /\ AccountBook(b)
<1>1. /\ RowOf["expenses"] = [vehicle : Nat, trip : Nat, amount : {"cents"}, note : Text]
      /\ RowOf["readings"] = [vehicle : Nat, at : Nat, value : Number, note : Text]
  BY DEF RowOf
<1>2. New \in Nat \ {Null}
  BY DEF New, Null
<1>3. (\A v \in DOMAIN here.vehicles : v \in Nat) /\ (\A t \in DOMAIN here.trips \cup {Null} : t \in Nat)
  BY BookTables DEF TableNames, Numbers, Null
<1>4. CASE AddExpense
  <2>1. PICK v \in DOMAIN here.vehicles, t \in DOMAIN here.trips \cup {Null}, x \in {"cents", "fraction"},
             note \in {"padded", "unstorable"} :
            /\ Amount(x)
            /\ Revise([here EXCEPT !.expenses = Put(here.expenses, New,
                    [vehicle |-> v, trip |-> t, amount |-> x, note |-> Trimmed(note)])])
    BY <1>4, Zenon DEF AddExpense
  <2> DEFINE r == [vehicle |-> v, trip |-> t, amount |-> x, note |-> Trimmed(note)]
  <2>2. r \in RowOf["expenses"]
    BY <1>1, <1>3, <2>1 DEF Amount, Trimmed, Text
  <2> HIDE DEF r
  <2>3. AccountBook([here EXCEPT !.expenses = Put(here.expenses, New, r)])
    BY <1>2, <2>2, RowAdded DEF TableNames
  <2> QED BY <2>1, <2>3 DEF r
<1>5. CASE RemoveExpense
  <2>1. PICK x \in DOMAIN here.expenses : Revise([here EXCEPT !.expenses = Drop(here.expenses, {x})])
    BY <1>5, Zenon DEF RemoveExpense
  <2> QED BY <2>1, RowsGone DEF TableNames
<1>6. CASE AddReading
  <2>1. PICK v \in DOMAIN here.vehicles, at \in {1, 2}, x \in {"zero", "nan", "normal", "huge"} :
            Revise([here EXCEPT !.readings = Put(here.readings, New,
                    [vehicle |-> v, at |-> at, value |-> Meters(x), note |-> "none"])])
    BY <1>6, Zenon DEF AddReading
  <2> DEFINE r == [vehicle |-> v, at |-> at, value |-> Meters(x), note |-> "none"]
  <2>2. r \in RowOf["readings"]
    BY <1>1, <1>3 DEF Meters, Number, Text
  <2> HIDE DEF r
  <2>3. AccountBook([here EXCEPT !.readings = Put(here.readings, New, r)])
    BY <1>2, <2>2, RowAdded DEF TableNames
  <2> QED BY <2>1, <2>3 DEF r
<1>7. CASE RemoveReading
  <2>1. PICK x \in DOMAIN here.readings : Revise([here EXCEPT !.readings = Drop(here.readings, {x})])
    BY <1>7, Zenon DEF RemoveReading
  <2> QED BY <2>1, RowsGone DEF TableNames
<1> QED BY <1>4, <1>5, <1>6, <1>7

\* Whatever the owner does, the account stays one.
LEMMA OwnerKeepsBook ==
    ASSUME AccountBook(here), revisions \in Nat, OwnerNext
    PROVE  /\ AccountBook(here') /\ Storable(here') /\ revisions' \in Nat
           /\ UNCHANGED <<export, files, targetVars>>
<1>1. \E b : Revise(b) /\ AccountBook(b)
  BY VehicleRevisions, PlaceRevisions, TripRevisions, ExpenseRevisions DEF OwnerNext
<1>2. PICK b : Revise(b) /\ AccountBook(b)
  BY <1>1
<1>3. here' = b /\ Storable(b) /\ revisions' = revisions + 1 /\ UNCHANGED <<export, files, targetVars>>
  BY <1>2, Revised
<1> QED BY <1>2, <1>3


\* The rows of a table, in the order of their numbers, as a file writes them.
LEMMA ShapeRows ==
    ASSUME NEW f, Numbers(f), NEW name \in TableNames
    PROVE  /\ Cardinality(DOMAIN f) \in Nat
           /\ DOMAIN Shape(name, f) = 1 .. Cardinality(DOMAIN f)
           /\ DOMAIN Shape(name, f) = DOMAIN Sorted(f)
           /\ Shape(name, f) \in Seq(Rows(Shape(name, f)))
           /\ \A k \in DOMAIN Shape(name, f) :
                /\ Sorted(f)[k] \in DOMAIN f
                /\ Shape(name, f)[k] = Written(name, Sorted(f)[k], f[Sorted(f)[k]])
<1> DEFINE s == Shape(name, f)
           n == Cardinality(DOMAIN f)
<1>1. n \in Nat /\ DOMAIN Sorted(f) = 1 .. n
  BY SortedInOrder
<1>2. DOMAIN s = 1 .. n /\ \A k \in DOMAIN s : s[k] = Written(name, Sorted(f)[k], f[Sorted(f)[k]])
  BY <1>1, Zenon DEF Shape
<1>3. s = [k \in 1 .. n |-> s[k]]
  BY <1>1 DEF Shape
<1>4. \A k \in 1 .. n : s[k] \in Rows(s)
  BY <1>2 DEF Rows
<1> HIDE DEF s, n
<1>5. s \in [1 .. n -> Rows(s)]
  BY <1>3, <1>4
<1>6. s \in Seq(Rows(s))
  BY <1>1, <1>5
<1> QED BY <1>1, <1>2, <1>6, SortedInOrder DEF s, n

LEMMA ShapeIsIdentified ==
    ASSUME NEW f, Numbers(f), NEW name \in {"vehicles", "places", "trips", "rates"}
    PROVE  Identified(Shape(name, f)) /\ \A k \in DOMAIN Shape(name, f) : Shape(name, f)[k].id = Sorted(f)[k]
<1>1. ASSUME NEW k \in DOMAIN Shape(name, f)
      PROVE  LET r == Shape(name, f)[k] IN "id" \in DOMAIN r /\ r.id = Sorted(f)[k] /\ Sorted(f)[k] # Null
  <2>1. /\ Sorted(f)[k] \in DOMAIN f
        /\ Shape(name, f)[k] = Written(name, Sorted(f)[k], f[Sorted(f)[k]])
    BY ShapeRows DEF TableNames
  <2> QED BY <2>1 DEF Written, Put, Numbers
<1> QED BY <1>1 DEF Identified

-----------------------------------------------------------------------------
(* What a file was read from (Portable).                                   *)

\* The file holds what is in the account it was read from.
ReadFrom(f) ==
    /\ AccountBook(f.of) /\ Storable(f.of)
    /\ DOMAIN f.bundle = TableNames \cup {"format", "schema"} /\ f.bundle.format = 3
    /\ \A name \in TableNames : f.bundle[name] = Shape(name, f.of[name])
    /\ ~Infinite(f.bundle)

\* An export has read the first tables of one account.
ReadSoFar ==
    /\ DOMAIN export = {"step", "attempt", "stale", "seen", "book"} /\ export.step \in 0 .. 10
    /\ export.step # 0 => AccountBook(export.seen) /\ Storable(export.seen)
    /\ export.step < 3 => DOMAIN export.book = {}
    /\ export.step >= 2 =>
        /\ DOMAIN export.book = {Tables[i] : i \in 1 .. (export.step - 2)}
        /\ \A i \in 1 .. (export.step - 2) :
            export.book[Tables[i]] = Shape(Tables[i], export.seen[Tables[i]])

\* What is imported has passed the checks.
UploadPasses == upload # NoUpload => Normalizes(upload.bundle) /\ Listed(upload.bundle)

ExportIInv ==
    /\ AccountBook(here) /\ Storable(here) /\ revisions \in Nat
    /\ ReadSoFar /\ (\A f \in files : ReadFrom(f)) /\ UploadPasses

LEMMA TablesAre ==
    /\ Len(Tables) = 8 /\ DOMAIN Tables = 1 .. 8
    /\ TableNames = {Tables[i] : i \in 1 .. 8}
    /\ \A i, j \in 1 .. 8 : Tables[i] = Tables[j] => i = j
BY DEF Tables, TableNames

LEMMA FileIsListed ==
    ASSUME NEW f, ReadFrom(f)
    PROVE  Listed(f.bundle)
<1>1. \A name \in TableNames : Numbers(f.of[name])
  BY BookTables DEF ReadFrom
<1>2. ASSUME NEW name \in TableNames PROVE f.bundle[name] \in Seq(Rows(f.bundle[name]))
  BY <1>1, ShapeRows DEF ReadFrom
<1>3. ASSUME NEW name \in {"vehicles", "places", "trips", "rates"} PROVE Identified(f.bundle[name])
  BY <1>1, ShapeIsIdentified DEF ReadFrom, TableNames
<1> QED BY <1>2, <1>3 DEF Listed

LEMMA ExportInitIInv == PortableInit => ExportIInv
<1> SUFFICES ASSUME PortableInit PROVE ExportIInv
  OBVIOUS
<1>1. AccountBook(here) /\ Storable(here) /\ revisions \in Nat
  BY PortableAssumption DEF PortableInit
<1>2. export = NoExport /\ files = {} /\ upload = NoUpload
  BY DEF PortableInit
<1>3. ReadSoFar
  BY <1>2 DEF ReadSoFar, NoExport
<1> QED BY <1>1, <1>2, <1>3 DEF ExportIInv, UploadPasses


LEMMA TableIsRead ==
    ASSUME ExportIInv, ReadTable
    PROVE  ReadSoFar'
<1> DEFINE step == export.step
           name == Tables[step - 1]
           seen == export.seen
<1>1. /\ step \in 2 .. 9
      /\ export' = [export EXCEPT !.step = step + 1, !.book = Put(export.book, name, Shape(name, seen[name]))]
  BY TablesAre DEF ReadTable, Snapshot
<1>2. /\ DOMAIN export = {"step", "attempt", "stale", "seen", "book"}
      /\ AccountBook(seen) /\ Storable(seen)
      /\ DOMAIN export.book = {Tables[i] : i \in 1 .. (step - 2)}
      /\ \A i \in 1 .. (step - 2) : export.book[Tables[i]] = Shape(Tables[i], seen[Tables[i]])
  BY <1>1 DEF ExportIInv, ReadSoFar
<1>3. /\ DOMAIN export' = DOMAIN export /\ export'.step = step + 1 /\ export'.seen = seen
      /\ export'.book = Put(export.book, name, Shape(name, seen[name]))
  BY <1>1, <1>2
<1>4. /\ DOMAIN export'.book = DOMAIN export.book \cup {name}
      /\ export'.book[name] = Shape(name, seen[name])
      /\ \A x \in DOMAIN export.book \ {name} : export'.book[x] = export.book[x]
  BY <1>3 DEF Put
<1>5. step - 1 \in 1 .. 8 /\ \A i \in 1 .. (step - 2) : i \in 1 .. 8 /\ i # step - 1
  BY <1>1
<1>6. \A i \in 1 .. (step - 2) : Tables[i] # name /\ Tables[i] \in DOMAIN export.book
  BY <1>2, <1>5, TablesAre
<1>7. 1 .. (step + 1 - 2) = (1 .. (step - 2)) \cup {step - 1}
  BY <1>1
<1> HIDE DEF seen
<1>8. \A i \in 1 .. (step + 1 - 2) : export'.book[Tables[i]] = Shape(Tables[i], seen[Tables[i]])
  BY <1>2, <1>4, <1>6, <1>7
<1>9. DOMAIN export'.book = {Tables[i] : i \in 1 .. (step + 1 - 2)}
  BY <1>2, <1>4, <1>7
<1>10. step + 1 \in 3 .. 10
  BY <1>1
<1>11. /\ DOMAIN export'.book = {Tables[i] : i \in 1 .. (export'.step - 2)}
       /\ \A i \in 1 .. (export'.step - 2) :
            export'.book[Tables[i]] = Shape(Tables[i], export'.seen[Tables[i]])
  <2> HIDE DEF step, name
  <2>1. export'.step = step + 1 /\ export'.seen = seen /\ step \in Int
    BY <1>1, <1>3
  <2>2. DOMAIN export'.book = {Tables[i] : i \in 1 .. (export'.step - 2)}
    BY <2>1, <1>9
  <2>3. \A i \in 1 .. (export'.step - 2) :
            export'.book[Tables[i]] = Shape(Tables[i], export'.seen[Tables[i]])
    BY <2>1, <1>8
  <2> QED BY <2>2, <2>3
<1>12. /\ DOMAIN export' = {"step", "attempt", "stale", "seen", "book"}
       /\ export'.step \in 3 .. 10 /\ AccountBook(export'.seen) /\ Storable(export'.seen)
  <2> HIDE DEF step
  <2> QED BY <1>2, <1>3, <1>10, Zenon
<1> QED BY <1>11, <1>12 DEF ReadSoFar

LEMMA FileIsWritten ==
    ASSUME ExportIInv, FinishExport, NEW f \in files'
    PROVE  ReadFrom(f)
<1>1. CASE f \in files
  BY <1>1 DEF ExportIInv
<1>2. CASE f \notin files
  <2>1. /\ export.step = 10 /\ ~Infinite(export.book)
        /\ f = [of |-> export.seen, bundle |-> Put(Put(export.book, "format", 3), "schema", "current")]
    BY <1>2, TablesAre DEF FinishExport
  <2>2. /\ AccountBook(export.seen) /\ Storable(export.seen)
        /\ DOMAIN export.book = {Tables[i] : i \in 1 .. 8}
        /\ \A i \in 1 .. 8 : export.book[Tables[i]] = Shape(Tables[i], export.seen[Tables[i]])
    BY <2>1 DEF ExportIInv, ReadSoFar
  <2>3. /\ DOMAIN export.book = TableNames
        /\ \A name \in TableNames : export.book[name] = Shape(name, export.seen[name])
    BY <2>2, TablesAre
  <2>4. f.of = export.seen /\ f.bundle = Put(Put(export.book, "format", 3), "schema", "current")
    BY <2>1
  <2>5. "format" \notin TableNames /\ "schema" \notin TableNames /\ "readings" \in TableNames
    BY DEF TableNames
  <2>6. /\ DOMAIN f.bundle = TableNames \cup {"format", "schema"} /\ f.bundle.format = 3
        /\ \A name \in TableNames : f.bundle[name] = export.book[name]
    BY <2>3, <2>4, <2>5 DEF Put
  <2>7. ~Infinite(f.bundle)
    BY <2>1, <2>5, <2>6 DEF Infinite
  <2> QED BY <2>2, <2>3, <2>4, <2>6, <2>7 DEF ReadFrom
<1> QED BY <1>1, <1>2

LEMMA ExportKeeps ==
    ASSUME ExportIInv, ExportNext
    PROVE  ExportIInv'
<1>1. UNCHANGED <<here, revisions, upload>>
  BY DEF ExportNext, BeginExport, TouchAccount, AdmitExport, ReadTable, FinishExport, targetVars
<1>2. AccountBook(here)' /\ Storable(here)' /\ (revisions \in Nat)' /\ UploadPasses'
  BY <1>1 DEF ExportIInv, UploadPasses
<1>3. ASSUME NEW n, export' = Begin(n) PROVE ReadSoFar'
  BY <1>3 DEF ExportIInv, ReadSoFar, Begin
<1>4. ASSUME export' = NoExport PROVE ReadSoFar'
  BY <1>4 DEF ReadSoFar, NoExport
<1>5. ASSUME UNCHANGED files, ReadSoFar' PROVE ExportIInv'
  BY <1>2, <1>5 DEF ExportIInv
<1>6. CASE BeginExport
  BY <1>3, <1>5, <1>6 DEF BeginExport
<1>7. CASE TouchAccount
  BY <1>5, <1>7 DEF TouchAccount, ExportIInv, ReadSoFar
<1>8. CASE AdmitExport
  <2>1. CASE export' = [export EXCEPT !.step = 2, !.attempt = 1] /\ export.step = 1
    <3>1. ReadSoFar'
      BY <2>1 DEF ExportIInv, ReadSoFar
    <3> QED BY <1>5, <1>8, <3>1 DEF AdmitExport
  <2> QED BY <1>3, <1>4, <1>5, <1>8, <2>1 DEF AdmitExport
<1>9. CASE ReadTable
  BY <1>5, <1>9, TableIsRead DEF ReadTable
<1>10. CASE FinishExport
  <2>1. export' = NoExport
    BY <1>10 DEF FinishExport
  <2> QED BY <1>2, <1>4, <1>10, <2>1, FileIsWritten DEF ExportIInv
<1> QED BY <1>6, <1>7, <1>8, <1>9, <1>10 DEF ExportNext


\* Editing a file by hand leaves lists, and a number with everyone who can be referred to.
LEMMA ListedAfter ==
    ASSUME NEW c, Listed(c), NEW b, NEW name \in TableNames,
           \A n \in TableNames \ {name} : b[n] = c[n],
           b[name] \in Seq(Rows(b[name])),
           name \in {"vehicles", "places", "trips", "rates"} => Identified(b[name])
    PROVE  Listed(b)
<1>1. \A n \in TableNames : b[n] \in Seq(Rows(b[n]))
  BY DEF Listed
<1>2. \A n \in {"vehicles", "places", "trips", "rates"} : Identified(b[n])
  BY DEF Listed, TableNames
<1> QED BY <1>1, <1>2 DEF Listed

LEMMA ListsOfAnything ==
    ASSUME NEW s, s \in Seq(Rows(s)), NEW t, t = [k \in DOMAIN s |-> t[k]]
    PROVE  t \in Seq(Rows(t))
<1>1. DOMAIN s = 1 .. Len(s) /\ Len(s) \in Nat
  OBVIOUS
<1>2. t \in [1 .. Len(s) -> Rows(t)]
  BY <1>1 DEF Rows
<1> QED BY <1>1, <1>2

LEMMA RepeatedRow ==
    ASSUME NEW s, s \in Seq(Rows(s)), NEW k \in DOMAIN s
    PROVE  /\ Append(s, s[k]) \in Seq(Rows(Append(s, s[k])))
           /\ Identified(s) => Identified(Append(s, s[k]))
<1> DEFINE t == Append(s, s[k])
<1>1. s[k] \in Rows(s)
  BY DEF Rows
<1>2. /\ t \in Seq(Rows(s)) /\ Len(t) = Len(s) + 1 /\ DOMAIN s = 1 .. Len(s) /\ DOMAIN t = 1 .. Len(t)
      /\ Len(s) \in Nat /\ t[Len(s) + 1] = s[k] /\ \A i \in 1 .. Len(s) : t[i] = s[i]
  BY <1>1
<1>3. t \in Seq(Rows(t))
  BY <1>2 DEF Rows
<1>4. \A i \in DOMAIN t : \E j \in DOMAIN s : t[i] = s[j]
  BY <1>2
<1> HIDE DEF t
<1> QED BY <1>3, <1>4 DEF t, Identified

LEMMA ChangedField ==
    ASSUME NEW s, s \in Seq(Rows(s)), NEW k \in DOMAIN s, NEW x, NEW v, x = "id" => v # Null
    PROVE  LET t == [s EXCEPT ![k] = [s[k] EXCEPT ![x] = v]] IN
           /\ t \in Seq(Rows(t))
           /\ Identified(s) => Identified(t)
<1> DEFINE r == [s[k] EXCEPT ![x] = v]
           t == [s EXCEPT ![k] = r]
<1>1. t = [i \in DOMAIN s |-> t[i]]
  OBVIOUS
<1>2. DOMAIN t = DOMAIN s /\ t[k] = r /\ \A i \in DOMAIN s \ {k} : t[i] = s[i]
  OBVIOUS
<1>3. "id" \in DOMAIN s[k] /\ s[k].id # Null => "id" \in DOMAIN r /\ r.id # Null
  OBVIOUS
<1> HIDE DEF r, t
<1>4. t \in Seq(Rows(t))
  BY <1>1, ListsOfAnything
<1>5. Identified(s) => Identified(t)
  BY <1>2, <1>3 DEF Identified
<1> QED BY <1>4, <1>5 DEF r, t

LEMMA NumbersByHand ==
    \A name \in DOMAIN FieldValues : \A x \in DOMAIN FieldValues[name] :
        x = "id" => Null \notin FieldValues[name][x]
BY DEF FieldValues, Null, Far

LEMMA OlderIsListed ==
    ASSUME NEW c, Listed(c), DOMAIN c = TableNames \cup {"format", "schema"}
    PROVE  Listed(Older(c))
<1> DEFINE b == Older(c)
           trips == [k \in DOMAIN c.trips |-> OlderTrip(c.trips[k])]
           expenses == [k \in DOMAIN c.expenses |-> OlderExpense(c.expenses[k])]
<1>1. /\ c.trips \in Seq(Rows(c.trips)) /\ c.expenses \in Seq(Rows(c.expenses))
      /\ Identified(c.trips)
  BY DEF Listed, TableNames
<1>2. b = [c EXCEPT !.format = 1, !.schema = "older", !.trips = trips, !.expenses = expenses]
  BY DEF Older
<1>3. \A r : "id" \in DOMAIN r /\ r.id # Null => "id" \in DOMAIN OlderTrip(r) /\ OlderTrip(r).id # Null
  BY DEF OlderTrip
<1>4. trips = [k \in DOMAIN c.trips |-> trips[k]] /\ expenses = [k \in DOMAIN c.expenses |-> expenses[k]]
  OBVIOUS
<1>5. Identified(trips)
  BY <1>1, <1>3 DEF Identified
<1> HIDE DEF b, trips, expenses
<1>6. /\ b.trips = trips /\ b.expenses = expenses
      /\ \A n \in TableNames \ {"trips", "expenses"} : b[n] = c[n]
  BY <1>2 DEF TableNames
<1>7. trips \in Seq(Rows(trips)) /\ expenses \in Seq(Rows(expenses))
  BY <1>1, <1>4, ListsOfAnything
<1>8. \A n \in TableNames : b[n] \in Seq(Rows(b[n]))
  BY <1>6, <1>7 DEF Listed
<1>9. \A n \in {"vehicles", "places", "trips", "rates"} : Identified(b[n])
  BY <1>5, <1>6 DEF Listed, TableNames
<1>10. Listed(b)
  BY <1>8, <1>9 DEF Listed
<1> QED BY <1>10 DEF b

LEMMA ByHandIsListed ==
    ASSUME NEW c, Listed(c), DOMAIN c = TableNames \cup {"format", "schema"}, NEW b \in ByHand(c)
    PROVE  Listed(b)
<1>1. DOMAIN FieldValues = TableNames
  BY DEF FieldValues, TableNames
<1>2. "format" \notin TableNames /\ "schema" \notin TableNames
  BY DEF TableNames
<1>3. ASSUME \A n \in TableNames : b[n] = c[n] PROVE Listed(b)
  BY <1>3 DEF Listed, TableNames
<1>4. \/ b \in {[c EXCEPT !.format = v] : v \in 1 .. 4} \cup {[c EXCEPT !.schema = "later"]}
      \/ b = Older(c)
      \/ \E name \in TableNames : b \in Edited(c, name)
  BY <1>1 DEF ByHand
<1>5. CASE b \in {[c EXCEPT !.format = v] : v \in 1 .. 4} \cup {[c EXCEPT !.schema = "later"]}
  BY <1>2, <1>3, <1>5
<1>6. ASSUME NEW name \in TableNames, NEW k \in DOMAIN c[name], b = [c EXCEPT ![name] = Append(c[name], c[name][k])]
      PROVE  Listed(b)
  <2> DEFINE s == Append(c[name], c[name][k])
  <2>1. s \in Seq(Rows(s)) /\ (Identified(c[name]) => Identified(s))
    BY RepeatedRow DEF Listed
  <2>2. b[name] = s /\ \A n \in TableNames \ {name} : b[n] = c[n]
    BY <1>6
  <2> HIDE DEF s
  <2>3. name \in {"vehicles", "places", "trips", "rates"} => Identified(b[name])
    BY <2>1, <2>2 DEF Listed
  <2> QED BY <2>1, <2>2, <2>3, ListedAfter
<1>7. ASSUME NEW name \in TableNames, b = [c EXCEPT ![name] = <<>>]
      PROVE  Listed(b)
  <2>1. b[name] = <<>> /\ \A n \in TableNames \ {name} : b[n] = c[n]
    BY <1>7
  <2>2. b[name] \in Seq(Rows(b[name])) /\ Identified(b[name])
    BY <2>1 DEF Identified
  <2> QED BY <2>1, <2>2, ListedAfter
<1>8. ASSUME NEW name \in TableNames, NEW k \in DOMAIN c[name], NEW x \in DOMAIN FieldValues[name],
             NEW v \in FieldValues[name][x], b = [c EXCEPT ![name][k][x] = v]
      PROVE  Listed(b)
  <2> DEFINE s == [c[name] EXCEPT ![k] = [c[name][k] EXCEPT ![x] = v]]
  <2>1. x = "id" => v # Null
    BY <1>1, <1>8, NumbersByHand
  <2>2. s \in Seq(Rows(s)) /\ (Identified(c[name]) => Identified(s))
    BY <2>1, ChangedField DEF Listed
  <2>3. b[name] = s /\ \A n \in TableNames \ {name} : b[n] = c[n]
    BY <1>8
  <2> HIDE DEF s
  <2>4. name \in {"vehicles", "places", "trips", "rates"} => Identified(b[name])
    BY <2>2, <2>3 DEF Listed
  <2> QED BY <2>2, <2>3, <2>4, ListedAfter
<1>9. ASSUME NEW name \in TableNames, b \in Edited(c, name)
      PROVE  Listed(b)
  <2>1. b = [c EXCEPT ![name] = <<>>]
        \/ \E k \in DOMAIN c[name] : b = Repeated(c, name, k) \/ b \in Changed(c, name, k)
    BY <1>9 DEF Edited, RowEdits
  <2>2. ASSUME NEW k \in DOMAIN c[name], b \in Changed(c, name, k) PROVE Listed(b)
    BY <1>1, <1>8, <2>2 DEF Changed
  <2> QED BY <1>6, <1>7, <2>1, <2>2 DEF Repeated
<1> QED BY <1>4, <1>5, <1>9, OlderIsListed


\* An import, and the other writers of its account, leave the exporting account and its files alone;
\* what is imported is a file, or one edited by hand, that passes the checks.
LEMMA ImportKeeps ==
    ASSUME ExportIInv, ImportNext \/ WriterNext
    PROVE  ExportIInv'
<1>1. UNCHANGED <<here, revisions, export, files>>
  <2>1. CASE ImportNext
    BY <2>1 DEF ImportNext, Upload, LockDetector, Upgrade, CheckTarget, Refuse, Apply, EndImport
  <2>2. CASE WriterNext
    BY <2>2, Zenon DEF WriterNext, Admit, LockDetector, Commit, GiveUp
  <2> QED BY <2>1, <2>2
<1>2. AccountBook(here)' /\ Storable(here)' /\ (revisions \in Nat)' /\ ReadSoFar' /\ (\A f \in files : ReadFrom(f))'
  BY <1>1 DEF ExportIInv, ReadSoFar
<1>3. ASSUME NEW f \in files, NEW b \in {f.bundle} \cup ByHand(f.bundle) PROVE Listed(b)
  <2>1. ReadFrom(f) /\ Listed(f.bundle)
    BY FileIsListed DEF ExportIInv
  <2>2. b = f.bundle \/ b \in ByHand(f.bundle)
    BY <1>3
  <2> QED BY <2>1, <2>2, ByHandIsListed DEF ReadFrom
<1>4. CASE Upload
  <2>1. PICK f \in files, dry \in BOOLEAN : \E b \in {f.bundle} \cup ByHand(f.bundle) :
        /\ Normalizes(b)
        /\ upload' = [bundle |-> b, of |-> IF b = f.bundle THEN f.of ELSE <<>>, dry |-> dry]
    BY <1>4, Zenon DEF Upload
  <2>2. PICK b \in {f.bundle} \cup ByHand(f.bundle) :
        /\ Normalizes(b)
        /\ upload' = [bundle |-> b, of |-> IF b = f.bundle THEN f.of ELSE <<>>, dry |-> dry]
    BY <2>1, Zenon
  <2>3. upload'.bundle = b /\ Normalizes(b) /\ Listed(b)
    BY <1>3, <2>2
  <2> QED BY <1>2, <2>3 DEF ExportIInv, UploadPasses
<1>5. CASE EndImport
  BY <1>2, <1>5 DEF EndImport, ExportIInv, UploadPasses
<1>6. CASE UNCHANGED upload
  BY <1>2, <1>6 DEF ExportIInv, UploadPasses
<1>7. Upload \/ EndImport \/ UNCHANGED upload
  <2>1. CASE ImportNext
    BY <2>1 DEF ImportNext, LockDetector, Upgrade, CheckTarget, Refuse, Apply
  <2>2. CASE WriterNext
    BY <2>2, Zenon DEF WriterNext, Admit, LockDetector, Commit, GiveUp
  <2> QED BY <2>1, <2>2
<1> QED BY <1>4, <1>5, <1>6, <1>7

LEMMA ExportNextIInv == ExportIInv /\ [PortableNext]_portableVars => ExportIInv'
<1> SUFFICES ASSUME ExportIInv, [PortableNext]_portableVars PROVE ExportIInv'
  OBVIOUS
<1>1. CASE OwnerNext
  <2>1. /\ AccountBook(here') /\ Storable(here') /\ revisions' \in Nat
        /\ UNCHANGED <<export, files, upload>>
    BY <1>1, OwnerKeepsBook DEF ExportIInv, targetVars
  <2> QED BY <2>1 DEF ExportIInv, ReadSoFar, UploadPasses
<1>2. CASE UNCHANGED portableVars
  BY <1>2 DEF ExportIInv, ReadSoFar, UploadPasses, portableVars
<1> QED BY <1>1, <1>2, ExportKeeps, ImportKeeps DEF PortableNext

\* Whatever is imported, a file as it was handed out or edited by hand, the tables refuse for
\* no other reason than one value its column cannot hold: a number, year or UTC offset out of
\* range, or unstorable text.  No reference to a row that is not there, no second default
\* vehicle, no rule, label or reading that the tables would not store slips through the checks
\* (normalize_bundle against the constraints _apply_import meets).
THEOREM OnlyValuesAlwaysSlipThrough == PortableSpec => []OnlyValuesSlipThrough
<1>1. PortableSpec => []ImportIInv
  BY ImportInitIInv, ImportNextIInv, PTL DEF PortableSpec
<1>2. PortableSpec => []ExportIInv
  BY ExportInitIInv, ExportNextIInv, PTL DEF PortableSpec
<1>3. ImportIInv /\ ExportIInv => OnlyValuesSlipThrough
  BY AcceptedIsStorable DEF ExportIInv, UploadPasses, OnlyValuesSlipThrough
<1> QED BY <1>1, <1>2, <1>3, PTL


-----------------------------------------------------------------------------
(* A file gives back the account it was read from (Portable).              *)

\* The row that row k of a file's table was written from.
Behind(f, name, k) == f.of[name][Sorted(f.of[name])[k]]

LEMMA FileRows ==
    ASSUME NEW f, ReadFrom(f), NEW name \in TableNames
    PROVE  /\ Numbers(f.of[name]) /\ Cardinality(DOMAIN f.of[name]) \in Nat
           /\ DOMAIN f.bundle[name] = 1 .. Cardinality(DOMAIN f.of[name])
           /\ DOMAIN f.bundle[name] = DOMAIN Sorted(f.of[name])
           /\ \A k \in DOMAIN f.bundle[name] :
                /\ f.bundle[name][k] = Written(name, Sorted(f.of[name])[k], Behind(f, name, k))
                /\ Behind(f, name, k) \in RowOf[name]
                /\ Sorted(f.of[name])[k] \in DOMAIN f.of[name] /\ Rank(f.of[name], Sorted(f.of[name])[k]) = k
           /\ \A i \in DOMAIN f.of[name] :
                /\ Rank(f.of[name], i) \in DOMAIN f.bundle[name]
                /\ Sorted(f.of[name])[Rank(f.of[name], i)] = i
<1> DEFINE t == f.of[name]
           s == f.bundle[name]
<1>1. Numbers(t) /\ s = Shape(name, t) /\ \A i \in DOMAIN t : t[i] \in RowOf[name]
  BY BookTables DEF ReadFrom
<1>2. /\ Cardinality(DOMAIN t) \in Nat
      /\ DOMAIN s = 1 .. Cardinality(DOMAIN t) /\ DOMAIN s = DOMAIN Sorted(t)
      /\ \A k \in DOMAIN s : Sorted(t)[k] \in DOMAIN t /\ s[k] = Written(name, Sorted(t)[k], t[Sorted(t)[k]])
  BY <1>1, ShapeRows
<1> HIDE DEF t, s
<1>3. /\ \A k \in DOMAIN Sorted(t) : Rank(t, Sorted(t)[k]) = k
      /\ \A i \in DOMAIN t : Rank(t, i) \in DOMAIN Sorted(t) /\ Sorted(t)[Rank(t, i)] = i
  BY <1>1, SortedInOrder
<1> QED BY <1>1, <1>2, <1>3, Zenon DEF s, t, Behind

LEMMA TableRows ==
    /\ RowOf.vehicles = [name : {"seeded", "plain", "unstorable"}, default : BOOLEAN, active : BOOLEAN]
    /\ RowOf.places = [name : {"Home", "Office"}, radius : Positive, at : {"inside"}]
    /\ RowOf.rules = [a : Nat, akind : {"none", "home", "work"}, b : Nat, bkind : {"none", "home", "work"}]
    /\ RowOf.rates = [flat : Positive, half : Positive \cup {"none"}, month : {"none", "inside"}]
    /\ RowOf.expenses = [vehicle : Nat, trip : Nat, amount : {"cents"}, note : Text]
    /\ RowOf.readings = [vehicle : Nat, at : Nat, value : Number, note : Text]
    /\ RowOf.settings = [auto : BOOLEAN, tz : {"utc", "far"}]
BY DEF RowOf

LEMMA TripRows ==
    ASSUME NEW r \in RowOf.trips
    PROVE  /\ r.source \in {"manual", "detected"} /\ r.span \in {"none", "forward"}
           /\ r.distance \in Distances /\ r.snapped \in {"none", "other"}
           /\ r.exclusion \in {"none", "not_my_vehicle"} /\ r.vehicle \in Nat /\ r.place \in Nat
BY DEF RowOf

LEMMA WrittenRows ==
    ASSUME NEW i, NEW r
    PROVE  /\ r \in RowOf.vehicles => LET w == Written("vehicles", i, r) IN
                w.id = i /\ w.name = r.name /\ w.default = r.default /\ w.active = r.active
           /\ r \in RowOf.places => LET w == Written("places", i, r) IN
                w.id = i /\ w.name = r.name /\ w.radius = r.radius /\ w.at = r.at
           /\ r \in RowOf.rates => LET w == Written("rates", i, r) IN
                w.id = i /\ w.flat = r.flat /\ w.half = r.half /\ w.month = r.month
           /\ LET w == Written("trips", i, r) IN
                /\ w.id = i /\ w.source = r.source /\ w.span = r.span /\ w.distance = Counted(r)
                /\ w.exclusion = r.exclusion /\ w.vehicle = r.vehicle /\ w.place = r.place
                /\ w.label = r.label /\ w.note = r.note
           /\ Written("rules", i, r) = r /\ Written("expenses", i, r) = r
           /\ Written("readings", i, r) = r /\ Written("settings", i, r) = r
<1>1. /\ r \in RowOf.vehicles => DOMAIN r = {"name", "default", "active"}
      /\ r \in RowOf.places => DOMAIN r = {"name", "radius", "at"}
      /\ r \in RowOf.rates => DOMAIN r = {"flat", "half", "month"}
  BY TableRows
<1>2. /\ Written("vehicles", i, r) = Put(r, "id", i)
      /\ Written("places", i, r) = Put(r, "id", i)
      /\ Written("rates", i, r) = Put(r, "id", i)
  BY DEF Written
<1>3. LET w == Put(r, "id", i) IN w.id = i /\ \A x \in DOMAIN r : x # "id" => w[x] = r[x]
  BY DEF Put
<1>4. /\ Written("rules", i, r) = r /\ Written("expenses", i, r) = r
      /\ Written("readings", i, r) = r /\ Written("settings", i, r) = r
  BY DEF Written
<1>5. LET w == Written("trips", i, r) IN
        /\ w.id = i /\ w.source = r.source /\ w.span = r.span /\ w.distance = Counted(r)
        /\ w.exclusion = r.exclusion /\ w.vehicle = r.vehicle /\ w.place = r.place
                /\ w.label = r.label /\ w.note = r.note
  BY DEF Written
<1> QED BY <1>1, <1>2, <1>3, <1>4, <1>5

\* Every row of a file has the number it had in the account.
LEMMA FileNumbers ==
    ASSUME NEW f, ReadFrom(f), NEW name \in {"vehicles", "places", "trips", "rates"}
    PROVE  /\ \A k \in DOMAIN f.bundle[name] : f.bundle[name][k].id = Sorted(f.of[name])[k]
           /\ Distinct(f.bundle[name])
           /\ \A i : Refers(i, f.bundle[name]) <=> i \in DOMAIN f.of[name]
           /\ \A i : NullOrRow(f.of[name], i) => MayRefer(i, f.bundle[name])
<1> DEFINE t == f.of[name]
           s == f.bundle[name]
<1>1. /\ Numbers(t) /\ DOMAIN s = DOMAIN Sorted(t)
      /\ \A k \in DOMAIN s : Sorted(t)[k] \in DOMAIN t /\ Rank(t, Sorted(t)[k]) = k
      /\ \A i \in DOMAIN t : Rank(t, i) \in DOMAIN s /\ Sorted(t)[Rank(t, i)] = i
  BY FileRows DEF TableNames
<1>2. \A k \in DOMAIN s : s[k].id = Sorted(t)[k]
  BY <1>1, ShapeIsIdentified DEF ReadFrom, TableNames
<1> HIDE DEF t, s
<1>3. Distinct(s)
  BY <1>1, <1>2 DEF Distinct
<1>4. \A i : Refers(i, s) <=> i \in DOMAIN t
  BY <1>1, <1>2 DEF Refers, IdsOf
<1>5. \A i : NullOrRow(t, i) => MayRefer(i, s)
  BY <1>4 DEF NullOrRow, MayRefer
<1> QED BY <1>2, <1>3, <1>4, <1>5 DEF s, t


\* What the tables refuse is not in the account, and so not in the file.
LEMMA FileVehiclesPass ==
    ASSUME NEW f, ReadFrom(f)
    PROVE  VehiclesPass(f.bundle)
<1> DEFINE t == f.of.vehicles
           s == f.bundle.vehicles
           q == Sorted(t)
           old == {i \in DOMAIN t : t[i].default}
           new == {k \in DOMAIN s : s[k].default}
<1>1. /\ Numbers(t) /\ Cardinality(DOMAIN t) \in Nat /\ DOMAIN s = 1 .. Cardinality(DOMAIN t)
      /\ \A k \in DOMAIN s : q[k] \in DOMAIN t /\ Rank(t, q[k]) = k
      /\ \A i \in DOMAIN t : Rank(t, i) \in DOMAIN s
  BY FileRows DEF TableNames
<1>2. ASSUME NEW k \in DOMAIN s
      PROVE  s[k].name \notin {"none", "blank"} /\ s[k].default = t[q[k]].default
  <2>1. Behind(f, "vehicles", k) \in RowOf.vehicles /\ s[k] = Written("vehicles", q[k], Behind(f, "vehicles", k))
    BY FileRows DEF TableNames
  <2>2. s[k].name = Behind(f, "vehicles", k).name /\ s[k].default = Behind(f, "vehicles", k).default
    BY <2>1, WrittenRows
  <2>3. Behind(f, "vehicles", k).name \in {"seeded", "plain", "unstorable"}
    BY <2>1, TableRows
  <2> QED BY <2>2, <2>3 DEF Behind
<1>3. s # <<>>
  <2>1. DOMAIN t # {}
    BY DEF ReadFrom, AccountBook
  <2>2. DOMAIN s # {}
    BY <1>1, <2>1
  <2> QED BY <2>2
<1>4. Distinct(s)
  BY FileNumbers
<1>5. Cardinality(old) <= 1 /\ IsFiniteSet(old) /\ Cardinality(old) \in Nat
  <2>1. IsFiniteSet(old)
    BY <1>1, FS_Subset DEF Numbers
  <2>2. Storable(f.of)
    BY DEF ReadFrom
  <2> QED BY <2>1, <2>2, FS_CardinalityType DEF Storable
<1> HIDE DEF t, s, q
<1>6. \A k \in new : q[k] \in old
  BY <1>1, <1>2
<1>7. \A j, k \in new : j = k
  <2> SUFFICES ASSUME NEW j \in new, NEW k \in new PROVE j = k
    OBVIOUS
  <2>1. q[j] \in old /\ q[k] \in old
    BY <1>6
  <2>2. q[j] = q[k]
    <3>1. CASE Cardinality(old) = 0
      BY <1>5, <2>1, <3>1, FS_EmptySet
    <3>2. CASE Cardinality(old) = 1
      <4>1. PICK x : old = {x}
        BY <1>5, <3>2, FS_Singleton
      <4> HIDE DEF old
      <4> QED BY <2>1, <4>1
    <3> HIDE DEF old
    <3> QED BY <1>5, <3>1, <3>2
  <2> QED BY <1>1, <2>2
<1>8. Cardinality(new) <= 1
  <2>1. CASE new = {}
    <3>1. Cardinality({}) = 0
      BY FS_EmptySet
    <3> HIDE DEF new
    <3> QED BY <2>1, <3>1
  <2>2. CASE new # {}
    <3>1. PICK k : new = {k}
      BY <1>7, <2>2
    <3>2. Cardinality({k}) = 1
      BY FS_Singleton
    <3> HIDE DEF new
    <3> QED BY <3>1, <3>2
  <2> QED BY <2>1, <2>2
<1>9. \A r \in Rows(s) : r.name \notin {"none", "blank"}
  BY <1>2 DEF Rows
<1> QED BY <1>3, <1>4, <1>8, <1>9 DEF VehiclesPass, s

LEMMA FilePlacesPass ==
    ASSUME NEW f, ReadFrom(f)
    PROVE  PlacesPass(f.bundle)
<1> DEFINE t == f.of.places
           s == f.bundle.places
           q == Sorted(t)
<1>1. ASSUME NEW k \in DOMAIN s
      PROVE  /\ q[k] \in DOMAIN t /\ Rank(t, q[k]) = k
             /\ s[k].name = t[q[k]].name /\ s[k].radius = t[q[k]].radius /\ s[k].at = "inside"
             /\ t[q[k]].name \in {"Home", "Office"}
  <2>1. /\ Behind(f, "places", k) \in RowOf.places /\ s[k] = Written("places", q[k], Behind(f, "places", k))
        /\ q[k] \in DOMAIN t /\ Rank(t, q[k]) = k
    BY FileRows DEF TableNames
  <2>2. LET r == Behind(f, "places", k) IN s[k].name = r.name /\ s[k].radius = r.radius /\ s[k].at = r.at
    BY <2>1, WrittenRows
  <2>3. LET r == Behind(f, "places", k) IN r.name \in {"Home", "Office"} /\ r.at = "inside"
    BY <2>1, TableRows
  <2> QED BY <2>1, <2>2, <2>3 DEF Behind
<1>2. \A i \in DOMAIN t :
        /\ t[i].radius \in Positive
        /\ \A j \in DOMAIN t \ {i} : t[i].name # t[j].name
  BY DEF ReadFrom, Storable
<1>3. Distinct(s)
  BY FileNumbers
<1> HIDE DEF t, s, q
<1>4. ASSUME NEW k \in DOMAIN s
      PROVE  /\ s[k].name # "blank" /\ s[k].at = "inside" /\ AboveZero(s[k].radius)
             /\ \A j \in DOMAIN s \ {k} : s[j].name # s[k].name
  BY <1>1, <1>2 DEF AboveZero
<1> QED BY <1>3, <1>4 DEF PlacesPass, Rows, s

LEMMA FileRulesPass ==
    ASSUME NEW f, ReadFrom(f)
    PROVE  RulesPass(f.bundle)
<1> SUFFICES ASSUME NEW k \in DOMAIN f.bundle.rules
             PROVE  LET r == f.bundle.rules[k] IN
        /\ MayRefer(r.a, f.bundle.places) /\ MayRefer(r.b, f.bundle.places)
        /\ r.a # Null => r.akind = "none"
        /\ r.b # Null => r.bkind = "none"
        /\ {r.akind, r.bkind} \subseteq {"none", "home", "work"}
        /\ <<r.a, r.akind, r.b, r.bkind>> # <<Null, "none", Null, "none">>
  BY DEF RulesPass, Rows
<1> DEFINE r == f.bundle.rules[k]
<1>1. r = Behind(f, "rules", k) /\ r \in RowOf.rules /\ Sorted(f.of.rules)[k] \in DOMAIN f.of.rules
  BY FileRows, WrittenRows DEF TableNames
<1>2. r \in Rows(f.of.rules)
  BY <1>1 DEF Behind, Rows
<1>3. /\ NullOrRow(f.of.places, r.a) /\ NullOrRow(f.of.places, r.b)
      /\ r.a # Null => r.akind = "none"
      /\ r.b # Null => r.bkind = "none"
      /\ <<r.a, r.akind, r.b, r.bkind>> # <<Null, "none", Null, "none">>
  BY <1>2 DEF ReadFrom, Storable
<1>4. {r.akind, r.bkind} \subseteq {"none", "home", "work"}
  BY <1>1, TableRows
<1> HIDE DEF r
<1>5. MayRefer(r.a, f.bundle.places) /\ MayRefer(r.b, f.bundle.places)
  BY <1>3, FileNumbers
<1> QED BY <1>3, <1>4, <1>5 DEF r

LEMMA FileRatesPass ==
    ASSUME NEW f, ReadFrom(f)
    PROVE  RatesPass(f.bundle)
<1>1. ASSUME NEW k \in DOMAIN f.bundle.rates
      PROVE  LET r == f.bundle.rates[k] IN
        /\ AboveZero(r.flat) /\ (r.half = "none") = (r.month = "none")
        /\ r.half # "none" => AboveZero(r.half) /\ r.month = "inside"
  <2> DEFINE r == f.bundle.rates[k]
             q == Behind(f, "rates", k)
  <2>1. /\ r = Written("rates", Sorted(f.of.rates)[k], q) /\ q \in RowOf.rates
        /\ Sorted(f.of.rates)[k] \in DOMAIN f.of.rates
    BY FileRows DEF TableNames
  <2>2. r.flat = q.flat /\ r.half = q.half /\ r.month = q.month
    BY <2>1, WrittenRows
  <2>3. q \in Rows(f.of.rates)
    BY <2>1 DEF Behind, Rows
  <2>4. q.flat \in Positive /\ q.half \in Positive \cup {"none"} /\ (q.half = "none") = (q.month = "none")
    BY <2>3 DEF ReadFrom, Storable
  <2>5. q.month \in {"none", "inside"}
    BY <2>1, TableRows
  <2> HIDE DEF r, q
  <2>6. /\ AboveZero(r.flat) /\ (r.half = "none") = (r.month = "none")
        /\ r.half # "none" => AboveZero(r.half) /\ r.month = "inside"
    BY <2>2, <2>4, <2>5 DEF AboveZero
  <2> QED BY <2>6 DEF r
<1>2. Distinct(f.bundle.rates)
  BY FileNumbers
<1> QED BY <1>1, <1>2 DEF RatesPass, Rows


LEMMA FileTripsPass ==
    ASSUME NEW f, ReadFrom(f)
    PROVE  TripsPass(f.bundle)
<1>1. ASSUME NEW k \in DOMAIN f.bundle.trips
      PROVE  LET r == f.bundle.trips[k] IN
        /\ r.source \in {"detected", "manual"} /\ r.span \in {"none", "forward"} /\ NotNegative(r.distance)
        /\ r.exclusion \in {"none", "not_my_vehicle"}
        /\ MayRefer(r.vehicle, f.bundle.vehicles) /\ MayRefer(r.place, f.bundle.places)
        /\ LabelPasses(r)
  <2> DEFINE r == f.bundle.trips[k]
             q == Behind(f, "trips", k)
  <2>1. /\ r = Written("trips", Sorted(f.of.trips)[k], q) /\ q \in RowOf.trips
        /\ Sorted(f.of.trips)[k] \in DOMAIN f.of.trips
    BY FileRows DEF TableNames
  <2>2. /\ r.source = q.source /\ r.span = q.span /\ r.distance = Counted(q)
        /\ r.exclusion = q.exclusion /\ r.vehicle = q.vehicle /\ r.place = q.place /\ r.label = q.label
    BY <2>1, WrittenRows
  <2>3. q \in Rows(f.of.trips)
    BY <2>1 DEF Behind, Rows
  <2>4. /\ NullOrRow(f.of.vehicles, q.vehicle) /\ NullOrRow(f.of.places, q.place)
        /\ q.label # "none" => q.source = "manual" /\ q.place = Null
        /\ q.label \notin {"blank", "padded", "long"}
    BY <2>3 DEF ReadFrom, Storable
  <2>5. /\ q.source \in {"manual", "detected"} /\ q.span \in {"none", "forward"}
        /\ q.distance \in Distances /\ q.snapped \in {"none", "other"}
        /\ q.exclusion \in {"none", "not_my_vehicle"}
    BY <2>1, TripRows
  <2> HIDE DEF r, q
  <2>6. NotNegative(r.distance)
    BY <2>2, <2>5 DEF Counted, Distances, Number, NotNegative, Finite
  <2>7. MayRefer(r.vehicle, f.bundle.vehicles) /\ MayRefer(r.place, f.bundle.places)
    BY <2>2, <2>4, FileNumbers
  <2>8. LabelPasses(r)
    BY <2>2, <2>4 DEF LabelPasses
  <2> QED BY <2>2, <2>5, <2>6, <2>7, <2>8 DEF r
<1>2. Distinct(f.bundle.trips)
  BY FileNumbers
<1> QED BY <1>1, <1>2 DEF TripsPass, Rows

LEMMA FileExpensesPass ==
    ASSUME NEW f, ReadFrom(f)
    PROVE  ExpensesPass(f.bundle)
<1> SUFFICES ASSUME NEW k \in DOMAIN f.bundle.expenses
             PROVE  LET r == f.bundle.expenses[k] IN
        Refers(r.vehicle, f.bundle.vehicles) /\ Amount(r.amount) /\ MayRefer(r.trip, f.bundle.trips)
  BY DEF ExpensesPass, Rows
<1> DEFINE r == f.bundle.expenses[k]
<1>1. r = Behind(f, "expenses", k) /\ Sorted(f.of.expenses)[k] \in DOMAIN f.of.expenses
  BY FileRows, WrittenRows DEF TableNames
<1>2. r \in Rows(f.of.expenses)
  BY <1>1 DEF Behind, Rows
<1>3. r.vehicle \in DOMAIN f.of.vehicles /\ NullOrRow(f.of.trips, r.trip) /\ r.amount \in {"cents"}
  BY <1>2 DEF ReadFrom, Storable
<1> HIDE DEF r
<1>4. Refers(r.vehicle, f.bundle.vehicles) /\ MayRefer(r.trip, f.bundle.trips)
  BY <1>3, FileNumbers
<1> QED BY <1>3, <1>4 DEF r, Amount

LEMMA FileReadingsPass ==
    ASSUME NEW f, ReadFrom(f)
    PROVE  ReadingsPass(f.bundle)
<1> DEFINE t == f.of.readings
           s == f.bundle.readings
           q == Sorted(t)
<1>1. ASSUME NEW k \in DOMAIN s
      PROVE  s[k] = t[q[k]] /\ q[k] \in DOMAIN t /\ Rank(t, q[k]) = k /\ s[k] \in RowOf.readings
  BY FileRows, WrittenRows DEF TableNames, Behind
<1>2. \A i \in DOMAIN t :
        /\ t[i].vehicle \in DOMAIN f.of.vehicles /\ t[i].value \notin {"negative", "nan"}
        /\ \A j \in DOMAIN t \ {i} : <<t[i].vehicle, t[i].at>> # <<t[j].vehicle, t[j].at>>
  BY DEF ReadFrom, Storable
<1>3. \A k \in DOMAIN s : s[k].value # "infinite" /\ s[k].value \in Number
  <2>1. \A k \in DOMAIN s : s[k].value # "infinite"
    BY DEF ReadFrom, Infinite, Rows
  <2> QED BY <1>1, <2>1, TableRows
<1> HIDE DEF t, s, q
<1>4. ASSUME NEW k \in DOMAIN s
      PROVE  /\ Refers(s[k].vehicle, f.bundle.vehicles) /\ NotNegative(s[k].value)
             /\ \A j \in DOMAIN s \ {k} : <<s[j].vehicle, s[j].at>> # <<s[k].vehicle, s[k].at>>
  <2>1. Refers(s[k].vehicle, f.bundle.vehicles)
    BY <1>1, <1>2, FileNumbers
  <2>2. NotNegative(s[k].value)
    BY <1>1, <1>2, <1>3 DEF NotNegative, Finite
  <2>3. \A j \in DOMAIN s \ {k} : <<s[j].vehicle, s[j].at>> # <<s[k].vehicle, s[k].at>>
    BY <1>1, <1>2
  <2> QED BY <2>1, <2>2, <2>3
<1> QED BY <1>4 DEF ReadingsPass, s

LEMMA FileSettingsPass ==
    ASSUME NEW f, ReadFrom(f)
    PROVE  SettingsPass(f.bundle) /\ f.bundle.settings[1] = f.of.settings[1] /\ f.of.settings[1] \in RowOf.settings
<1> DEFINE t == f.of.settings
           s == f.bundle.settings
<1>1. DOMAIN t = {1} /\ Cardinality({1}) = 1
  BY FS_Singleton DEF ReadFrom, AccountBook
<1>2. /\ DOMAIN s = 1 .. Cardinality(DOMAIN t)
      /\ \A k \in DOMAIN s : s[k] = t[Sorted(t)[k]] /\ Sorted(t)[k] \in DOMAIN t /\ s[k] \in RowOf.settings
  BY FileRows, WrittenRows DEF TableNames, Behind
<1> HIDE DEF t, s
<1>3. 1 \in DOMAIN s
  BY <1>1, <1>2
<1>4. s[1] = t[1] /\ s[1] \in RowOf.settings
  BY <1>1, <1>2, <1>3
<1>5. s # <<>> /\ s[1].tz # "bogus"
  BY <1>3, <1>4, TableRows
<1> QED BY <1>4, <1>5 DEF SettingsPass, s, t

\* What a column held in the account it holds in the file.
LEMMA FileHeldByColumns ==
    ASSUME NEW f, ReadFrom(f)
    PROVE  ~BeyondItsColumn(f.bundle)
<1>1. ColumnsHold(f.of)
  BY DEF ReadFrom, Storable
<1>2. ASSUME NEW name \in TableNames, NEW r \in Rows(f.bundle[name])
      PROVE  \E i \in DOMAIN f.of[name] : r = Written(name, i, f.of[name][i]) /\ f.of[name][i] \in RowOf[name]
  BY FileRows DEF Rows, Behind
<1>3. ASSUME NEW r \in Rows(f.bundle.vehicles) PROVE TextColumn(r.name)
  <2>1. PICK i \in DOMAIN f.of.vehicles : r = Written("vehicles", i, f.of.vehicles[i]) /\ f.of.vehicles[i] \in RowOf.vehicles
    BY <1>2 DEF TableNames
  <2>2. r.name = f.of.vehicles[i].name
    BY <2>1, WrittenRows
  <2> QED BY <1>1, <2>1, <2>2 DEF ColumnsHold, Rows
<1>4. ASSUME NEW r \in Rows(f.bundle.places) PROVE RealColumn(r.radius) /\ TextColumn(r.name)
  <2>1. PICK i \in DOMAIN f.of.places : r = Written("places", i, f.of.places[i]) /\ f.of.places[i] \in RowOf.places
    BY <1>2 DEF TableNames
  <2>2. r.name = f.of.places[i].name /\ r.radius = f.of.places[i].radius
    BY <2>1, WrittenRows
  <2> QED BY <1>1, <2>1, <2>2 DEF ColumnsHold, Rows
<1>5. ASSUME NEW r \in Rows(f.bundle.rates) PROVE YearColumn(r.id)
  <2>1. PICK i \in DOMAIN f.of.rates : r = Written("rates", i, f.of.rates[i]) /\ f.of.rates[i] \in RowOf.rates
    BY <1>2 DEF TableNames
  <2>2. r.id = i
    BY <2>1, WrittenRows
  <2> QED BY <1>1, <2>1, <2>2 DEF ColumnsHold, Rows
<1>6. ASSUME NEW r \in Rows(f.bundle.trips)
      PROVE  RealColumn(r.distance) /\ SpanColumn(r.span) /\ TextColumn(r.label) /\ TextColumn(r.note)
  <2>1. PICK i \in DOMAIN f.of.trips : r = Written("trips", i, f.of.trips[i]) /\ f.of.trips[i] \in RowOf.trips
    BY <1>2 DEF TableNames
  <2> DEFINE q == f.of.trips[i]
  <2>2. q \in Rows(f.of.trips) /\ q.snapped \in {"none", "other"}
    BY <2>1, TripRows DEF Rows
  <2>3. r.distance = Counted(q) /\ r.span = q.span /\ r.label = q.label /\ r.note = q.note
    BY <2>1, WrittenRows
  <2>4. RealColumn(q.distance) /\ SpanColumn(q.span) /\ TextColumn(q.label) /\ TextColumn(q.note)
    BY <1>1, <2>2 DEF ColumnsHold
  <2> HIDE DEF q
  <2> QED BY <2>2, <2>3, <2>4 DEF Counted, RealColumn
<1>7. ASSUME NEW r \in Rows(f.bundle.expenses) PROVE TextColumn(r.note)
  <2>1. PICK i \in DOMAIN f.of.expenses : r = Written("expenses", i, f.of.expenses[i]) /\ f.of.expenses[i] \in RowOf.expenses
    BY <1>2 DEF TableNames
  <2>2. r = f.of.expenses[i]
    BY <2>1, WrittenRows
  <2> QED BY <1>1, <2>1, <2>2 DEF ColumnsHold, Rows
<1>8. ASSUME NEW r \in Rows(f.bundle.readings) PROVE TimeColumn(r.at) /\ TextColumn(r.note)
  <2>1. PICK i \in DOMAIN f.of.readings : r = Written("readings", i, f.of.readings[i]) /\ f.of.readings[i] \in RowOf.readings
    BY <1>2 DEF TableNames
  <2>2. r = f.of.readings[i]
    BY <2>1, WrittenRows
  <2> QED BY <1>1, <2>1, <2>2 DEF ColumnsHold, Rows
<1> QED BY <1>3, <1>4, <1>5, <1>6, <1>7, <1>8 DEF BeyondItsColumn

\* A file passes every check of an import, and the tables store what it holds.
LEMMA FileIsAccepted ==
    ASSUME ImportIInv, NEW f, ReadFrom(f)
    PROVE  Normalizes(f.bundle) /\ Storable(Imported(f.bundle))
<1>1. Normalizes(f.bundle)
  <2>1. f.bundle.format = 3
    BY DEF ReadFrom
  <2> QED BY <2>1, FileVehiclesPass, FilePlacesPass, FileRulesPass, FileRatesPass, FileTripsPass,
             FileExpensesPass, FileReadingsPass, FileSettingsPass DEF Normalizes
<1>2. ~BeyondItsColumn(f.bundle)
  BY FileHeldByColumns
<1>3. Listed(f.bundle)
  BY FileIsListed
<1> QED BY <1>1, <1>2, <1>3, AcceptedIsStorable


\* Inserted rows are in the file's order.
LEMMA InsertedInOrder ==
    ASSUME NEW s, NEW n \in Nat, DOMAIN s = 1 .. n, NEW t, RowByRow(t, s)
    PROVE  /\ DOMAIN Sorted(t) = 1 .. n
           /\ \A k \in 1 .. n : Sorted(t)[k] = Num(k) /\ Rank(t, Num(k)) = k
<1>1. \A i : i \in DOMAIN t <=> \E k \in 1 .. n : i = Num(k)
  BY DEF RowByRow
<1>2. DOMAIN t = (Base + 1) .. (Base + n)
  <2>1. ASSUME NEW i \in DOMAIN t PROVE i \in (Base + 1) .. (Base + n)
    BY <1>1 DEF Num, Base
  <2>2. ASSUME NEW i \in (Base + 1) .. (Base + n) PROVE i \in DOMAIN t
    <3>1. i - Base \in 1 .. n /\ i = Num(i - Base)
      BY DEF Num, Base
    <3> QED BY <1>1, <3>1
  <2> QED BY <2>1, <2>2
<1>3. Base \in Nat
  BY DEF Base
<1>4. IsFiniteSet(DOMAIN t) /\ Cardinality(DOMAIN t) = n
  BY <1>2, <1>3, FS_Interval
<1>5. Numbers(t)
  BY <1>2, <1>4 DEF Numbers, Base, Null
<1>6. ASSUME NEW k \in 1 .. n PROVE Rank(t, Num(k)) = k /\ Num(k) \in DOMAIN t
  <2>1. {j \in DOMAIN t : j <= Num(k)} = (Base + 1) .. (Base + k)
    BY <1>2 DEF Num, Base
  <2>2. Cardinality((Base + 1) .. (Base + k)) = k
    BY <1>3, FS_Interval
  <2> QED BY <1>1, <2>1, <2>2 DEF Rank
<1>7. DOMAIN Sorted(t) = 1 .. n
  BY <1>4 DEF Sorted
<1>8. ASSUME NEW k \in 1 .. n PROVE Sorted(t)[k] = Num(k)
  <2>1. Sorted(t)[Rank(t, Num(k))] = Num(k)
    BY <1>5, <1>6, SortedInOrder
  <2> QED BY <1>6, <2>1
<1> QED BY <1>6, <1>7, <1>8

\* The table that a table of the file is inserted into has a row for a row, in the same order.
Follows(f, name, t) ==
    /\ DOMAIN Sorted(t) = DOMAIN Sorted(f.of[name]) /\ DOMAIN f.bundle[name] = DOMAIN Sorted(t)
    /\ \A k \in DOMAIN Sorted(t) : Sorted(t)[k] = Num(k) /\ Rank(t, Num(k)) = k

LEMMA TableFollows ==
    ASSUME NEW f, ReadFrom(f), NEW name \in TableNames, NEW t, RowByRow(t, f.bundle[name])
    PROVE  Follows(f, name, t)
<1> DEFINE n == Cardinality(DOMAIN f.of[name])
           s == f.bundle[name]
<1>1. n \in Nat /\ DOMAIN s = 1 .. n /\ DOMAIN s = DOMAIN Sorted(f.of[name])
  BY FileRows
<1> HIDE DEF n
<1>2. DOMAIN Sorted(t) = 1 .. n /\ \A k \in 1 .. n : Sorted(t)[k] = Num(k) /\ Rank(t, Num(k)) = k
  BY <1>1, InsertedInOrder
<1> QED BY <1>1, <1>2 DEF Follows

\* A reference means the same row after the import.
LEMMA SamePlace ==
    ASSUME NEW f, ReadFrom(f), NEW name \in {"vehicles", "places", "trips"}, NEW t, Follows(f, name, t),
           NEW i, NullOrRow(f.of[name], i)
    PROVE  Place(t, Renumbered(f.bundle[name], i)) = Place(f.of[name], i)
<1> DEFINE s == f.bundle[name]
           o == f.of[name]
           k == Rank(o, i)
<1>1. CASE i = Null
  BY <1>1 DEF Renumbered, Place
<1>2. CASE i # Null
  <2>1. i \in DOMAIN o
    BY <1>2 DEF NullOrRow
  <2>2. k \in DOMAIN s /\ Sorted(o)[k] = i /\ DOMAIN s \subseteq Nat
    BY <2>1, FileRows DEF TableNames
  <2>3. \A j \in DOMAIN s : Rank(o, Sorted(o)[j]) = j /\ s[j].id = Sorted(o)[j]
    BY FileRows, FileNumbers DEF TableNames
  <2> HIDE DEF s, o
  <2>4. (CHOOSE j \in DOMAIN s : s[j].id = i) = k
    <3> DEFINE c == CHOOSE j \in DOMAIN s : s[j].id = i
    <3>1. c \in DOMAIN s /\ s[c].id = i
      BY <2>2, <2>3
    <3> HIDE DEF c
    <3>2. c = k
      BY <2>3, <3>1
    <3> QED BY <3>2 DEF c
  <2>5. Renumbered(s, i) = Num(k)
    BY <1>2, <2>4 DEF Renumbered, Num
  <2>6. Num(k) # Null /\ Rank(t, Num(k)) = k
    BY <2>2, NumbersDiffer DEF Follows, s
  <2>7. Place(t, Renumbered(s, i)) = Place(o, i)
    BY <1>2, <2>5, <2>6 DEF Place
  <2> QED BY <2>7 DEF s, o
<1> QED BY <1>1, <1>2


\* A row that goes through a file is the row it was.
LEMMA SameVehicles ==
    ASSUME NEW f, ReadFrom(f), Follows(f, "vehicles", InsertVehicles(f.bundle))
    PROVE  InOrder(InsertVehicles(f.bundle)) = InOrder(f.of.vehicles)
<1> DEFINE t == InsertVehicles(f.bundle)
           o == f.of.vehicles
<1>1. DOMAIN Sorted(t) = DOMAIN Sorted(o)
  BY DEF Follows
<1>2. ASSUME NEW k \in DOMAIN Sorted(t) PROVE t[Sorted(t)[k]] = o[Sorted(o)[k]]
  <2> DEFINE q == Behind(f, "vehicles", k)
             r == f.bundle.vehicles[k]
             x == t[Num(k)]
  <2>1. k \in DOMAIN f.bundle.vehicles /\ Sorted(t)[k] = Num(k)
    BY DEF Follows
  <2>2. q \in RowOf.vehicles /\ r = Written("vehicles", Sorted(o)[k], q)
    BY <2>1, FileRows DEF TableNames
  <2>3. x \in [name : {r.name}, default : {r.default}, active : {r.active}]
    BY <2>1, FileIsListed, InsertedVehicles
  <2>4. r.name = q.name /\ r.default = q.default /\ r.active = q.active
    BY <2>2, WrittenRows
  <2> HIDE DEF q, r, x
  <2>5. x = q
    BY <2>2, <2>3, <2>4, TableRows
  <2> QED BY <2>1, <2>5 DEF x, q, Behind
<1> HIDE DEF t, o
<1>3. InOrder(t) = InOrder(o)
  BY <1>1, <1>2 DEF InOrder
<1> QED BY <1>3 DEF t, o

LEMMA SamePlaces ==
    ASSUME NEW f, ReadFrom(f), Follows(f, "places", InsertPlaces(f.bundle))
    PROVE  InOrder(InsertPlaces(f.bundle)) = InOrder(f.of.places)
<1> DEFINE t == InsertPlaces(f.bundle)
           o == f.of.places
<1>1. DOMAIN Sorted(t) = DOMAIN Sorted(o)
  BY DEF Follows
<1>2. ASSUME NEW k \in DOMAIN Sorted(t) PROVE t[Sorted(t)[k]] = o[Sorted(o)[k]]
  <2> DEFINE q == Behind(f, "places", k)
             r == f.bundle.places[k]
             x == t[Num(k)]
  <2>1. k \in DOMAIN f.bundle.places /\ Sorted(t)[k] = Num(k)
    BY DEF Follows
  <2>2. q \in RowOf.places /\ r = Written("places", Sorted(o)[k], q)
    BY <2>1, FileRows DEF TableNames
  <2>3. x \in [name : {r.name}, radius : {r.radius}, at : {r.at}]
    BY <2>1, FileIsListed, InsertedPlaces
  <2>4. r.name = q.name /\ r.radius = q.radius /\ r.at = q.at
    BY <2>2, WrittenRows
  <2> HIDE DEF q, r, x
  <2>5. x = q
    BY <2>2, <2>3, <2>4, TableRows
  <2> QED BY <2>1, <2>5 DEF x, q, Behind
<1> HIDE DEF t, o
<1>3. InOrder(t) = InOrder(o)
  BY <1>1, <1>2 DEF InOrder
<1> QED BY <1>3 DEF t, o

LEMMA SameRates ==
    ASSUME NEW f, ReadFrom(f)
    PROVE  LET t == UpsertRates(f.bundle)
               o == f.of.rates
           IN [y \in DOMAIN t |-> t[y]] = [y \in DOMAIN o |-> o[y]]
<1> DEFINE t == UpsertRates(f.bundle)
           o == f.of.rates
           s == f.bundle.rates
<1>1. DOMAIN t = DOMAIN o
  <2>1. \A i : i \in IdsOf(s) <=> i \in DOMAIN o
    BY FileNumbers DEF Refers
  <2>2. DOMAIN t = IdsOf(s)
    BY DEF UpsertRates
  <2> HIDE DEF t, o, s
  <2> QED BY <2>1, <2>2
<1>2. ASSUME NEW y \in DOMAIN t PROVE t[y] = o[y]
  <2> DEFINE r == CHOOSE r \in Rows(s) : r.id = y
  <2>1. y \in IdsOf(s) /\ t[y] = [flat |-> r.flat, half |-> r.half, month |-> r.month]
    BY DEF UpsertRates
  <2>2. t[y] \in [flat : {r.flat}, half : {r.half}, month : {r.month}]
    BY <2>1
  <2>3. r \in Rows(s) /\ r.id = y
    BY <2>1 DEF IdsOf, Rows
  <2> HIDE DEF r
  <2>4. PICK k \in DOMAIN s : r = s[k]
    BY <2>3 DEF Rows
  <2> DEFINE q == Behind(f, "rates", k)
  <2>5. q \in RowOf.rates /\ r = Written("rates", Sorted(o)[k], q) /\ r.id = Sorted(o)[k]
    BY <2>4, FileRows, FileNumbers DEF TableNames
  <2>6. r.flat = q.flat /\ r.half = q.half /\ r.month = q.month /\ q = o[y]
    BY <2>3, <2>5, WrittenRows DEF Behind
  <2> HIDE DEF q, t, o
  <2>7. t[y] = q
    BY <2>2, <2>5, <2>6, TableRows
  <2> QED BY <2>6, <2>7
<1> HIDE DEF t, o
<1>3. [y \in DOMAIN t |-> t[y]] = [y \in DOMAIN o |-> o[y]]
  BY <1>1, <1>2
<1> QED BY <1>3 DEF t, o

LEMMA SameSettings ==
    ASSUME NEW f, ReadFrom(f)
    PROVE  UpdateSettings(f.bundle)[1] = f.of.settings[1]
<1> DEFINE q == f.of.settings[1]
           x == UpdateSettings(f.bundle)[1]
<1>1. f.bundle.settings[1] = q /\ q \in RowOf.settings /\ f.bundle.format = 3
  BY FileSettingsPass DEF ReadFrom
<1>2. x \in [auto : {q.auto}, tz : {q.tz}]
  BY <1>1 DEF UpdateSettings
<1> HIDE DEF q, x
<1>3. x = q
  BY <1>1, <1>2, TableRows
<1> QED BY <1>3 DEF x, q


\* Account t holds what the import of a file leaves.
HoldsFile(f, t) ==
    LET b == f.bundle IN
    /\ t.vehicles = InsertVehicles(b) /\ t.places = InsertPlaces(b) /\ t.rules = InsertRules(b)
    /\ t.rates = UpsertRates(b) /\ t.trips = InsertTrips(b) /\ t.expenses = InsertExpenses(b)
    /\ t.readings = InsertReadings(b) /\ t.settings = UpdateSettings(b)
    /\ \A name \in {"vehicles", "places", "rules", "trips", "expenses", "readings"} : Follows(f, name, t[name])

LEMMA FileIsHeld ==
    ASSUME ImportIInv, NEW f, ReadFrom(f)
    PROVE  HoldsFile(f, Imported(f.bundle))
<1> DEFINE b == f.bundle
           t == Imported(b)
<1>1. /\ t.vehicles = InsertVehicles(b) /\ t.places = InsertPlaces(b) /\ t.rules = InsertRules(b)
      /\ t.rates = UpsertRates(b) /\ t.trips = InsertTrips(b) /\ t.expenses = InsertExpenses(b)
      /\ t.readings = InsertReadings(b) /\ t.settings = UpdateSettings(b)
  BY ImportedTables
<1>2. Listed(b)
  BY FileIsListed
<1> HIDE DEF t
<1>3. /\ RowByRow(t.vehicles, b.vehicles) /\ RowByRow(t.places, b.places) /\ RowByRow(t.rules, b.rules)
      /\ RowByRow(t.trips, b.trips) /\ RowByRow(t.expenses, b.expenses) /\ RowByRow(t.readings, b.readings)
  BY <1>1, <1>2, InsertedVehicles, InsertedPlaces, InsertedRules, InsertedTrips, InsertedExpenses, InsertedReadings
<1>4. \A name \in {"vehicles", "places", "rules", "trips", "expenses", "readings"} : Follows(f, name, t[name])
  BY <1>3, TableFollows DEF TableNames
<1> QED BY <1>1, <1>4, Zenon DEF HoldsFile, t

LEMMA SameRules ==
    ASSUME NEW f, ReadFrom(f), NEW t, HoldsFile(f, t)
    PROVE  [k \in DOMAIN Sorted(t.rules) |-> RuleOf(t, InOrder(t.rules)[k])] =
           [k \in DOMAIN Sorted(f.of.rules) |-> RuleOf(f.of, InOrder(f.of.rules)[k])]
<1> DEFINE o == f.of
           b == f.bundle
<1>1. DOMAIN Sorted(t.rules) = DOMAIN Sorted(o.rules) /\ Follows(f, "rules", t.rules)
  BY DEF HoldsFile, Follows
<1>2. ASSUME NEW k \in DOMAIN Sorted(t.rules)
      PROVE  RuleOf(t, InOrder(t.rules)[k]) = RuleOf(o, InOrder(o.rules)[k])
  <2> DEFINE q == b.rules[k]
             x == t.rules[Num(k)]
  <2>1. k \in DOMAIN b.rules /\ InOrder(t.rules)[k] = x
    BY <1>1 DEF Follows, InOrder
  <2>2. q = InOrder(o.rules)[k] /\ q \in Rows(o.rules)
    BY <1>1, <2>1, FileRows, WrittenRows DEF TableNames, Behind, InOrder, Rows
  <2>3. /\ x.a = Renumbered(b.places, q.a) /\ x.akind = q.akind
        /\ x.b = Renumbered(b.places, q.b) /\ x.bkind = q.bkind
    BY <2>1, FileIsListed, InsertedRules DEF HoldsFile
  <2>4. NullOrRow(o.places, q.a) /\ NullOrRow(o.places, q.b)
    BY <2>2 DEF ReadFrom, Storable
  <2> HIDE DEF q, x, o, b
  <2>5. /\ Place(t.places, Renumbered(b.places, q.a)) = Place(o.places, q.a)
        /\ Place(t.places, Renumbered(b.places, q.b)) = Place(o.places, q.b)
    BY <2>4, SamePlace DEF HoldsFile, b, o
  <2> QED BY <2>1, <2>2, <2>3, <2>5 DEF RuleOf
<1> HIDE DEF o
<1> QED BY <1>1, <1>2 DEF o

LEMMA SameTrips ==
    ASSUME NEW f, ReadFrom(f), NEW t, HoldsFile(f, t)
    PROVE  [k \in DOMAIN Sorted(t.trips) |-> TripOf(t, InOrder(t.trips)[k])] =
           [k \in DOMAIN Sorted(f.of.trips) |-> TripOf(f.of, InOrder(f.of.trips)[k])]
<1> DEFINE o == f.of
           b == f.bundle
<1>1. DOMAIN Sorted(t.trips) = DOMAIN Sorted(o.trips) /\ Follows(f, "trips", t.trips)
  BY DEF HoldsFile, Follows
<1>2. ASSUME NEW k \in DOMAIN Sorted(t.trips)
      PROVE  TripOf(t, InOrder(t.trips)[k]) = TripOf(o, InOrder(o.trips)[k])
  <2> DEFINE q == Behind(f, "trips", k)
             r == b.trips[k]
             x == t.trips[Num(k)]
  <2>1. k \in DOMAIN b.trips /\ InOrder(t.trips)[k] = x
    BY <1>1 DEF Follows, InOrder
  <2>2. q = InOrder(o.trips)[k] /\ q \in Rows(o.trips) /\ r = Written("trips", Sorted(o.trips)[k], q)
    BY <1>1, <2>1, FileRows DEF TableNames, Behind, InOrder, Rows
  <2>3. x \in TripFrom(b, r)
    BY <2>1, FileIsListed, InsertedTrips DEF HoldsFile
  <2>4. NullOrRow(o.vehicles, q.vehicle) /\ NullOrRow(o.places, q.place)
    BY <2>2 DEF ReadFrom, Storable
  <2>5. /\ r.source = q.source /\ r.span = q.span /\ r.distance = Counted(q) /\ r.exclusion = q.exclusion
        /\ r.vehicle = q.vehicle /\ r.place = q.place /\ r.label = q.label /\ r.note = q.note
    BY <2>2, WrittenRows
  <2> HIDE DEF q, r, x, o, b
  <2>6. /\ Place(t.vehicles, Renumbered(b.vehicles, q.vehicle)) = Place(o.vehicles, q.vehicle)
        /\ Place(t.places, Renumbered(b.places, q.place)) = Place(o.places, q.place)
    BY <2>4, SamePlace DEF HoldsFile, b, o
  <2>7. /\ x.source = q.source /\ x.span = q.span /\ Counted(x) = Counted(q) /\ x.exclusion = q.exclusion
        /\ x.vehicle = Renumbered(b.vehicles, q.vehicle) /\ x.place = Renumbered(b.places, q.place)
        /\ x.label = q.label /\ x.note = q.note
    <3>1. /\ x.source = r.source /\ x.span = r.span /\ x.distance = r.distance /\ x.snapped = "none"
          /\ x.exclusion = r.exclusion /\ x.vehicle = Renumbered(b.vehicles, r.vehicle)
          /\ x.place = Renumbered(b.places, r.place) /\ x.label = r.label /\ x.note = r.note
      BY <2>3 DEF TripFrom
    <3>2. Counted(x) = x.distance
      BY <3>1 DEF Counted
    <3> QED BY <2>5, <3>1, <3>2
  <2> QED BY <2>1, <2>2, <2>6, <2>7 DEF TripOf
<1> HIDE DEF o
<1> QED BY <1>1, <1>2 DEF o

LEMMA SameExpenses ==
    ASSUME NEW f, ReadFrom(f), NEW t, HoldsFile(f, t)
    PROVE  [k \in DOMAIN Sorted(t.expenses) |-> ExpenseOf(t, InOrder(t.expenses)[k])] =
           [k \in DOMAIN Sorted(f.of.expenses) |-> ExpenseOf(f.of, InOrder(f.of.expenses)[k])]
<1> DEFINE o == f.of
           b == f.bundle
<1>1. DOMAIN Sorted(t.expenses) = DOMAIN Sorted(o.expenses) /\ Follows(f, "expenses", t.expenses)
  BY DEF HoldsFile, Follows
<1>2. ASSUME NEW k \in DOMAIN Sorted(t.expenses)
      PROVE  ExpenseOf(t, InOrder(t.expenses)[k]) = ExpenseOf(o, InOrder(o.expenses)[k])
  <2> DEFINE q == b.expenses[k]
             x == t.expenses[Num(k)]
  <2>1. k \in DOMAIN b.expenses /\ InOrder(t.expenses)[k] = x
    BY <1>1 DEF Follows, InOrder
  <2>2. q = InOrder(o.expenses)[k] /\ q \in Rows(o.expenses)
    BY <1>1, <2>1, FileRows, WrittenRows DEF TableNames, Behind, InOrder, Rows
  <2>3. /\ x.vehicle = Renumbered(b.vehicles, q.vehicle) /\ x.trip = Renumbered(b.trips, q.trip)
        /\ x.amount = q.amount /\ x.note = q.note
    BY <2>1, FileIsListed, InsertedExpenses DEF HoldsFile
  <2>4. NullOrRow(o.vehicles, q.vehicle) /\ NullOrRow(o.trips, q.trip)
    BY <2>2 DEF ReadFrom, Storable, NullOrRow
  <2> HIDE DEF q, x, o, b
  <2>5. /\ Place(t.vehicles, Renumbered(b.vehicles, q.vehicle)) = Place(o.vehicles, q.vehicle)
        /\ Place(t.trips, Renumbered(b.trips, q.trip)) = Place(o.trips, q.trip)
    BY <2>4, SamePlace DEF HoldsFile, b, o
  <2> QED BY <2>1, <2>2, <2>3, <2>5 DEF ExpenseOf
<1> HIDE DEF o
<1> QED BY <1>1, <1>2 DEF o

LEMMA SameReadings ==
    ASSUME NEW f, ReadFrom(f), NEW t, HoldsFile(f, t)
    PROVE  [k \in DOMAIN Sorted(t.readings) |-> ReadingOf(t, InOrder(t.readings)[k])] =
           [k \in DOMAIN Sorted(f.of.readings) |-> ReadingOf(f.of, InOrder(f.of.readings)[k])]
<1> DEFINE o == f.of
           b == f.bundle
<1>1. DOMAIN Sorted(t.readings) = DOMAIN Sorted(o.readings) /\ Follows(f, "readings", t.readings)
  BY DEF HoldsFile, Follows
<1>2. ASSUME NEW k \in DOMAIN Sorted(t.readings)
      PROVE  ReadingOf(t, InOrder(t.readings)[k]) = ReadingOf(o, InOrder(o.readings)[k])
  <2> DEFINE q == b.readings[k]
             x == t.readings[Num(k)]
  <2>1. k \in DOMAIN b.readings /\ InOrder(t.readings)[k] = x
    BY <1>1 DEF Follows, InOrder
  <2>2. q = InOrder(o.readings)[k] /\ Sorted(o.readings)[k] \in DOMAIN o.readings /\ q = o.readings[Sorted(o.readings)[k]]
    BY <1>1, <2>1, FileRows, WrittenRows DEF TableNames, Behind, InOrder
  <2>3. x.vehicle = Renumbered(b.vehicles, q.vehicle) /\ x.at = q.at /\ x.value = q.value /\ x.note = q.note
    BY <2>1, FileIsListed, InsertedReadings DEF HoldsFile
  <2>4. NullOrRow(o.vehicles, q.vehicle)
    BY <2>2 DEF ReadFrom, Storable, NullOrRow
  <2> HIDE DEF q, x, o, b
  <2>5. Place(t.vehicles, Renumbered(b.vehicles, q.vehicle)) = Place(o.vehicles, q.vehicle)
    BY <2>4, SamePlace DEF HoldsFile, b, o
  <2> QED BY <2>1, <2>2, <2>3, <2>5 DEF ReadingOf
<1> HIDE DEF o
<1> QED BY <1>1, <1>2 DEF o

LEMMA SameMeaning ==
    ASSUME ImportIInv, NEW f, ReadFrom(f)
    PROVE  Meaning(Imported(f.bundle)) = Meaning(f.of)
<1> DEFINE t == Imported(f.bundle)
           o == f.of
<1>1. HoldsFile(f, t)
  BY FileIsHeld
<1> HIDE DEF t
<1>2. InOrder(t.vehicles) = InOrder(o.vehicles) /\ InOrder(t.places) = InOrder(o.places)
  BY <1>1, SameVehicles, SamePlaces DEF HoldsFile
<1>3. [y \in DOMAIN t.rates |-> t.rates[y]] = [y \in DOMAIN o.rates |-> o.rates[y]]
  BY <1>1, SameRates DEF HoldsFile
<1>4. t.settings[1] = o.settings[1]
  BY <1>1, SameSettings DEF HoldsFile
<1>5. [k \in DOMAIN Sorted(t.rules) |-> RuleOf(t, InOrder(t.rules)[k])] =
      [k \in DOMAIN Sorted(o.rules) |-> RuleOf(o, InOrder(o.rules)[k])]
  BY <1>1, SameRules, Zenon
<1>6. [k \in DOMAIN Sorted(t.trips) |-> TripOf(t, InOrder(t.trips)[k])] =
      [k \in DOMAIN Sorted(o.trips) |-> TripOf(o, InOrder(o.trips)[k])]
  BY <1>1, SameTrips, Zenon
<1>7. [k \in DOMAIN Sorted(t.expenses) |-> ExpenseOf(t, InOrder(t.expenses)[k])] =
      [k \in DOMAIN Sorted(o.expenses) |-> ExpenseOf(o, InOrder(o.expenses)[k])]
  BY <1>1, SameExpenses, Zenon
<1>8. [k \in DOMAIN Sorted(t.readings) |-> ReadingOf(t, InOrder(t.readings)[k])] =
      [k \in DOMAIN Sorted(o.readings) |-> ReadingOf(o, InOrder(o.readings)[k])]
  BY <1>1, SameReadings, Zenon
<1> HIDE DEF o
<1>9. Meaning(t) = Meaning(o)
  BY <1>2, <1>3, <1>4, <1>5, <1>6, <1>7, <1>8, Zenon DEF Meaning
<1> QED BY <1>9 DEF t, o

\* Whatever the owner did before, and whatever changed while a file was read, the file passes
\* every check of an import, the tables store what it holds, and a fresh account it is imported
\* into holds what the first one held, row for row, with every reference where it was
\* (_read_export_bundle, normalize_bundle, _apply_import).
THEOREM FilesAlwaysComeBack == PortableSpec => []FilesComeBack
<1>1. PortableSpec => []ImportIInv
  BY ImportInitIInv, ImportNextIInv, PTL DEF PortableSpec
<1>2. PortableSpec => []ExportIInv
  BY ExportInitIInv, ExportNextIInv, PTL DEF PortableSpec
<1>3. ImportIInv /\ ExportIInv => FilesComeBack
  BY FileIsAccepted, SameMeaning DEF ExportIInv, FilesComeBack
<1> QED BY <1>1, <1>2, <1>3, PTL

=============================================================================

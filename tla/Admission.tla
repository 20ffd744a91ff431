------------------------------ MODULE Admission ------------------------------
(***************************************************************************)
(* Serving admission: AdmissionManager of app/capacity.py.                 *)
(*                                                                         *)
(* Every piece of serving work (an HTTP request, a background turn, a mail *)
(* delivery, a database borrow) is an operation that owns a slot of one    *)
(* lane.  A full lane keeps a FIFO of tickets with a deadline; a coroutine *)
(* that waits on its ticket is resumed later than the ticket is settled,   *)
(* and may be cancelled or timed out in between.  asyncio runs one         *)
(* coroutine at a time, so an action is the code between two awaits.       *)
(*                                                                         *)
(* pc[o] is where the coroutine of operation o is:                         *)
(*   "waiting"  its ticket is queued                                       *)
(*   "granted"  its ticket was given a slot, the coroutine has not resumed *)
(*   "failed"   its ticket was refused, the coroutine has not resumed      *)
(*   "running"  inside the body of the `async with operation(...)`         *)
(*   "draining" the body ended, the owned thread may still run             *)
(*   "stranded" the owner's lease connection was lost: it waits for ever   *)
(*              (account_work.py), so that its slot is never given away    *)
(***************************************************************************)
EXTENDS Integers, Sequences, FiniteSets, SequencesExt

CONSTANTS
    Op,             \* operations, one coroutine each
    NoOp,           \* "no operation": the parent of a top-level operation
    Account, NoAccount,
    Lane, NoLane,
    Limit,          \* [Lane -> slots]
    MaxPending,     \* [Lane -> longest queue], 0 where the lane never waits
    SharedLanes,    \* navigation and foreground: one account exclusion domain
    AccountLanes,   \* lanes whose owner is an enabled account
    RuntimeLanes,   \* lanes whose owner borrows a runtime connection
    ControlLanes,   \* lanes whose owner borrows a control connection
    LeaseLanes,     \* lanes whose owner may hold a lifecycle lease
    DetachedLanes,  \* runtime lanes that borrow for themselves, never "routine"
    MaxLeases,      \* the lease bound of lease()
    RuntimeConnections, ControlConnections  \* sizes of the two pools

ASSUME OpAssumption == IsFiniteSet(Op) /\ NoOp \notin Op
ASSUME LaneAssumption == NoLane \notin Lane /\ NoAccount \notin Account
ASSUME LimitAssumption ==
    Limit \in [Lane -> Nat \ {0}] /\ MaxPending \in [Lane -> Nat]
ASSUME SharedAssumption == SharedLanes \subseteq Lane

\* validate_capacity_config: a pool has a connection for every slot of the lanes
\* whose owners borrow from it.
SlotsOf(L) == UNION {{l} \X (1 .. Limit[l]) : l \in L}

ASSUME PoolAssumption ==
    /\ RuntimeLanes \subseteq Lane /\ ControlLanes \subseteq Lane /\ IsFiniteSet(Lane)
    /\ RuntimeConnections \in Nat /\ Cardinality(SlotsOf(RuntimeLanes)) <= RuntimeConnections
    /\ ControlConnections \in Nat /\ Cardinality(SlotsOf(ControlLanes)) <= ControlConnections

VARIABLES
    pc, lane, key, parent,      \* the operation, its lane, account and caller
    active, pending,            \* _active and _pending of the manager
    stale,                      \* per lane, how many queued tickets are past
                                \* their deadline (a prefix: one wait per lane)
    interrupted,                \* a cancellation or timeout awaits o's resumption
    borrow, lease, thread,      \* _Lifetime.runtime/control, .lease, .threads
    drained,                    \* the _drained event
    stop                        \* "serving", "draining" (_closed), "stopped"

vars == <<pc, lane, key, parent, active, pending, stale, interrupted,
          borrow, lease, thread, drained, stop>>
queues == <<active, pending, stale>>
identity == <<lane, key, parent>>
resources == <<borrow, lease, thread>>

Holding == {"granted", "running", "draining", "stranded"}

TypeOK ==
    /\ pc \in [Op -> Holding \cup {"idle", "waiting", "failed"}]
    /\ lane \in [Op -> Lane \cup {NoLane}]
    /\ key \in [Op -> Account \cup {NoAccount}]
    /\ parent \in [Op -> Op \cup {NoOp}]
    /\ active \in [Lane -> SUBSET Op]
    /\ pending \in [Lane -> Seq(Op)]
    /\ stale \in [Lane -> Nat]
    /\ \A l \in Lane : stale[l] <= Len(pending[l])
    /\ interrupted \in SUBSET Op
    /\ borrow \in [Op -> {"none", "runtime", "control"}]
    /\ lease \in SUBSET Op
    /\ thread \in SUBSET Op
    /\ drained \in BOOLEAN
    /\ stop \in {"serving", "draining", "stopped"}

Init ==
    /\ pc = [o \in Op |-> "idle"]
    /\ lane = [o \in Op |-> NoLane]
    /\ key = [o \in Op |-> NoAccount]
    /\ parent = [o \in Op |-> NoOp]
    /\ active = [l \in Lane |-> {}]
    /\ pending = [l \in Lane |-> <<>>]
    /\ stale = [l \in Lane |-> 0]
    /\ interrupted = {}
    /\ borrow = [o \in Op |-> "none"]
    /\ lease = {}
    /\ thread = {}
    /\ drained = TRUE
    /\ stop = "serving"

-----------------------------------------------------------------------------
(* _promote, on the manager's queues as they are when it is called: tickets *)
(* past their deadline fail, then the oldest live ones take the free slots. *)

NewestFirst(l, pend, st) ==  \* mutant: the queue is served last in, first out
    Reverse(SubSeq(pend[l], st[l] + 1, Len(pend[l])))

\* The live tickets, in the order they are served.
Live(l, pend, st) == SubSeq(pend[l], st[l] + 1, Len(pend[l]))

Taken(l, act, pend, st) ==
    LET free == Limit[l] - Cardinality(act[l])
        live == Len(Live(l, pend, st))
    IN  IF free < live THEN free ELSE live

Granted(l, act, pend, st) ==
    {Live(l, pend, st)[i] : i \in 1 .. Taken(l, act, pend, st)}

TimedOut(l, pend, st) == {pend[l][i] : i \in 1 .. st[l]}

PromotedActive(L, act, pend, st) ==
    [l \in Lane |-> IF l \in L THEN act[l] \cup Granted(l, act, pend, st)
                               ELSE act[l]]

PromotedPending(L, act, pend, st) ==
    [l \in Lane |-> IF l \in L
        THEN SubSeq(Live(l, pend, st), Taken(l, act, pend, st) + 1, Len(Live(l, pend, st)))
        ELSE pend[l]]

KeptStale(L, st) == [l \in Lane |-> st[l]]  \* mutant: expired tickets counted twice

PromotedStale(L, st) == [l \in Lane |-> IF l \in L THEN 0 ELSE st[l]]

PromotedPc(L, act, pend, st, pcs) ==
    [o \in Op |->
        IF \E l \in L : o \in Granted(l, act, pend, st) THEN "granted"
        ELSE IF \E l \in L : o \in TimedOut(l, pend, st) THEN "failed"
        ELSE pcs[o]]

\* _update_drained, on the queues a handler leaves behind.
NobodyWaits(act, pend) == \A l \in Lane : pend[l] = <<>>  \* mutant: owners ignored

Empty(act, pend) == \A l \in Lane : act[l] = {} /\ pend[l] = <<>>

-----------------------------------------------------------------------------
(* _acquire.                                                               *)

OwnLaneOnly(l) == {l}  \* mutant: navigation and foreground exclude separately

ExclusionLanes(l) == IF l \in SharedLanes THEN SharedLanes ELSE {l}

AccountOccupied(l, a, act, pend) ==
    /\ a # NoAccount
    /\ \E x \in ExclusionLanes(l) :
          \E o \in act[x] \cup ToSet(pend[x]) : key[o] = a

CanEnter(l, act, pend) == pend[l] = <<>> /\ Cardinality(act[l]) < Limit[l]

\* The coroutine of o is inside o's own body, at a point of its choosing.
AtBody(o) ==
    /\ pc[o] = "running" /\ o \notin thread
    /\ \A c \in Op : parent[c] # o

\* Which lane a body may enter from within: control_borrow, and runtime_borrow
\* where the owner cannot borrow for itself.  A borrow refuses another one.
MayNest(p, l) ==
    /\ AtBody(p) /\ parent[p] = NoOp /\ borrow[p] = "none"
    /\ l # lane[p]
    /\ l \in ControlLanes \/ (l \in RuntimeLanes \ DetachedLanes /\ lane[p] \notin DetachedLanes)

\* Admission and enqueueing clear the drained event.
DrainedOnEntry == FALSE

Start(o, l, a, p) ==
    /\ lane' = [lane EXCEPT ![o] = l]
    /\ key' = [key EXCEPT ![o] = a]
    /\ parent' = [parent EXCEPT ![o] = p]

\* A refusal after promotion: the caller gets CapacityBusy, the queues keep what
\* _promote did.  Bad arguments and a closed manager refuse before anything changes.
Acquire(o, l, a, p) ==
    LET L == ExclusionLanes(l)
        act == PromotedActive(L, active, pending, stale)
        pend == PromotedPending(L, active, pending, stale)
        pcs == PromotedPc(L, active, pending, stale, pc)
        busy == AccountOccupied(l, a, act, pend)
    IN  /\ pc[o] = "idle" /\ o \notin interrupted
        /\ stop = "serving"
        /\ (a # NoAccount) <=> (l \in AccountLanes)
        /\ p # NoOp => MayNest(p, l)
        /\ stale' = PromotedStale(L, stale)
        /\ UNCHANGED <<interrupted, resources, stop>>
        /\ \/ /\ ~busy /\ CanEnter(l, act, pend)
              /\ active' = [act EXCEPT ![l] = @ \cup {o}]
              /\ pending' = pend
              /\ pc' = [pcs EXCEPT ![o] = "running"]
              /\ drained' = DrainedOnEntry
              /\ Start(o, l, a, p)
           \/ /\ ~busy /\ ~CanEnter(l, act, pend) /\ Len(pend[l]) < MaxPending[l]
              /\ active' = act
              /\ pending' = [pend EXCEPT ![l] = Append(@, o)]
              /\ pc' = [pcs EXCEPT ![o] = "waiting"]
              /\ drained' = DrainedOnEntry
              /\ Start(o, l, a, p)
           \/ /\ ~busy => ~CanEnter(l, act, pend) /\ Len(pend[l]) >= MaxPending[l]
              /\ active' = act
              /\ pending' = pend
              /\ pc' = pcs
              /\ UNCHANGED <<drained, identity>>

\* Time passes the deadline of the oldest live ticket of lane l.
Expire(l) ==
    /\ stale[l] < Len(pending[l])
    /\ stale' = [stale EXCEPT ![l] = @ + 1]
    /\ UNCHANGED <<pc, identity, active, pending, interrupted, resources, drained, stop>>

TimerNeverFires(o) == FALSE  \* mutant: a wait without a deadline

\* wait_for's timer runs out for a ticket past its deadline.
TimerFires(o) ==
    /\ pc[o] = "waiting" /\ o \notin interrupted
    /\ o \in TimedOut(lane[o], pending, stale)
    /\ interrupted' = interrupted \cup {o}
    /\ UNCHANGED <<pc, identity, queues, resources, drained, stop>>

\* The caller is cancelled while it waits, possibly after its ticket is settled.
Cancel(o) ==
    /\ pc[o] \in {"waiting", "granted"} /\ o \notin interrupted
    /\ interrupted' = interrupted \cup {o}
    /\ UNCHANGED <<pc, identity, queues, resources, drained, stop>>

Enter(o) ==
    /\ pc[o] = "granted" /\ o \notin interrupted
    /\ pc' = [pc EXCEPT ![o] = "running"]
    /\ UNCHANGED <<identity, queues, interrupted, resources, drained, stop>>

-----------------------------------------------------------------------------
(* Leaving a lane: what the except path of _acquire and the finally of      *)
(* operation() do with the slot or the ticket of o, and with its lane.      *)

Without(s, o) == IF o \in ToSet(s) THEN RemoveFirst(s, o) ELSE s

VacatedByOwners(o) ==  \* mutant: a granted waiter that gives up keeps the slot
    [active EXCEPT ![lane[o]] = IF pc[o] = "draining" THEN @ \ {o} ELSE @]

Vacated(o) == [active EXCEPT ![lane[o]] = @ \ {o}]

NothingPromoted(o) == {}  \* mutant: the freed slot is not offered to the queue

PromotedOnLeaving(o) == {lane[o]}

DrainedForgotten(act, pend) == drained  \* mutant: leaving does not look at the event

DrainedOnLeaving(act, pend) == drained \/ Empty(act, pend)

Leave(o) ==
    LET l == lane[o]
        L == PromotedOnLeaving(o)
        act == Vacated(o)
        pend == [pending EXCEPT ![l] = Without(@, o)]
        st == [stale EXCEPT ![l] = IF o \in TimedOut(l, pending, stale) THEN @ - 1 ELSE @]
        act2 == PromotedActive(L, act, pend, st)
        pend2 == PromotedPending(L, act, pend, st)
    IN  /\ active' = act2
        /\ pending' = pend2
        /\ stale' = PromotedStale(L, st)
        /\ pc' = PromotedPc(L, act, pend, st, [pc EXCEPT ![o] = "idle"])
        /\ drained' = DrainedOnLeaving(act2, pend2)
        /\ interrupted' = interrupted \ {o}
        /\ lane' = [lane EXCEPT ![o] = NoLane]
        /\ key' = [key EXCEPT ![o] = NoAccount]
        /\ parent' = [parent EXCEPT ![o] = NoOp]
        /\ UNCHANGED <<resources, stop>>

\* The waiting coroutine resumes with a refusal, a timeout or a cancellation.
Abandon(o) ==
    /\ \/ pc[o] = "failed"
       \/ pc[o] \in {"waiting", "granted"} /\ o \in interrupted
    /\ Leave(o)

EndBody(o) ==
    /\ pc[o] = "running"
    /\ \A c \in Op : parent[c] # o
    /\ pc' = [pc EXCEPT ![o] = "draining"]
    /\ UNCHANGED <<identity, queues, interrupted, resources, drained, stop>>

\* The end of the context managers around the body, innermost first.
Release(o) ==
    /\ pc[o] = "draining"
    /\ o \notin thread /\ o \notin lease /\ borrow[o] = "none"
    /\ Leave(o)

-----------------------------------------------------------------------------
(* What an owner does with its slot.                                       *)

AnyRole(o, role) == TRUE  \* mutant: the owner's lane is not looked at

OwnsRole(o, role) ==
    \/ role = "runtime" /\ lane[o] \in RuntimeLanes
    \/ role = "control" /\ lane[o] \in ControlLanes

Borrow(o, role) ==
    /\ AtBody(o) /\ borrow[o] = "none" /\ OwnsRole(o, role)
    /\ borrow' = [borrow EXCEPT ![o] = role]
    /\ UNCHANGED <<pc, identity, queues, interrupted, lease, thread, drained, stop>>

ReturnBorrow(o) ==
    /\ borrow[o] # "none" /\ o \notin thread /\ pc[o] \in {"running", "draining"}
    /\ borrow' = [borrow EXCEPT ![o] = "none"]
    /\ UNCHANGED <<pc, identity, queues, interrupted, lease, thread, drained, stop>>

WantsLease(o) == AtBody(o) /\ lane[o] \in LeaseLanes /\ o \notin lease

TakeLease(o) ==
    /\ WantsLease(o) /\ Cardinality(lease) < MaxLeases
    /\ lease' = lease \cup {o}
    /\ UNCHANGED <<pc, identity, queues, interrupted, borrow, thread, drained, stop>>

DropLease(o) ==
    /\ o \in lease /\ o \notin thread
    /\ pc[o] = "draining" \/ AtBody(o)
    /\ lease' = lease \ {o}
    /\ UNCHANGED <<pc, identity, queues, interrupted, borrow, thread, drained, stop>>

\* The session of the lease is lost: the owner keeps waiting, slot in hand.
Strand(o) ==
    /\ o \in lease /\ o \notin thread
    /\ pc[o] = "draining" \/ AtBody(o)
    /\ pc' = [pc EXCEPT ![o] = "stranded"]
    /\ UNCHANGED <<identity, queues, interrupted, resources, drained, stop>>

StartThread(o) ==
    /\ AtBody(o)
    /\ thread' = thread \cup {o}
    /\ UNCHANGED <<pc, identity, queues, interrupted, borrow, lease, drained, stop>>

ThreadReturns(o) ==
    /\ o \in thread
    /\ thread' = thread \ {o}
    /\ UNCHANGED <<pc, identity, queues, interrupted, borrow, lease, drained, stop>>

-----------------------------------------------------------------------------
Shutdown ==
    /\ stop = "serving"
    /\ stop' = "draining"
    /\ pc' = [o \in Op |-> IF pc[o] = "waiting" THEN "failed" ELSE pc[o]]
    /\ pending' = [l \in Lane |-> <<>>]
    /\ stale' = [l \in Lane |-> 0]
    /\ drained' = (drained \/ Empty(active, pending'))
    /\ UNCHANGED <<identity, active, interrupted, resources>>

ShutdownReturns ==
    /\ stop = "draining" /\ drained
    /\ stop' = "stopped"
    /\ UNCHANGED <<pc, identity, queues, interrupted, resources, drained>>

Next ==
    \/ \E o \in Op, l \in Lane, a \in Account \cup {NoAccount}, p \in Op \cup {NoOp} :
          Acquire(o, l, a, p)
    \/ \E l \in Lane : Expire(l)
    \/ \E o \in Op :
          \/ TimerFires(o) \/ Cancel(o) \/ Enter(o) \/ Abandon(o)
          \/ EndBody(o) \/ Release(o)
          \/ \E role \in {"runtime", "control"} : Borrow(o, role)
          \/ ReturnBorrow(o) \/ TakeLease(o) \/ DropLease(o) \/ Strand(o)
          \/ StartThread(o) \/ ThreadReturns(o)
    \/ Shutdown \/ ShutdownReturns

Spec == Init /\ [][Next]_vars

\* The event loop resumes what is ready and its timers run out; threads return;
\* a body ends, whatever number of nested borrows it makes on the way (strong
\* fairness), and leaves its context managers.  Nothing obliges a caller to ask,
\* to be cancelled, to take a lease or to lose its session.
Fairness ==
    /\ \A l \in Lane : WF_vars(Expire(l))
    /\ \A o \in Op :
          /\ WF_vars(TimerFires(o)) /\ WF_vars(Enter(o)) /\ WF_vars(Abandon(o))
          /\ WF_vars(ThreadReturns(o)) /\ WF_vars(ReturnBorrow(o)) /\ WF_vars(DropLease(o))
          /\ SF_vars(EndBody(o)) /\ WF_vars(Release(o))
    /\ WF_vars(ShutdownReturns)

FairSpec == Spec /\ Fairness

-----------------------------------------------------------------------------
(* Properties.                                                             *)

\* A lane never has more owners than slots, nor a longer queue than configured,
\* although slots are handed over by promotion, timeout, cancellation and release.
LaneWithinLimit ==
    \A l \in Lane : /\ Cardinality(active[l]) <= Limit[l]
                    /\ Len(pending[l]) <= MaxPending[l]

\* No slot leaks and none is taken back early: the slots of a lane belong exactly
\* to the operations that were granted one and have not left, also when a wait is
\* cancelled in the same turn of the loop as its ticket is granted.
SlotsMatchOwners ==
    \A l \in Lane : active[l] = {o \in Op : lane[o] = l /\ pc[o] \in Holding}

\* An account has at most one operation, active or queued, among navigation and
\* foreground together and in every other account lane.
OneOperationPerAccount ==
    \A o, p \in Op :
        /\ o # p /\ key[o] # NoAccount /\ key[o] = key[p]
        /\ pc[o] \in Holding \cup {"waiting"} /\ pc[p] \in Holding \cup {"waiting"}
        => lane[o] # lane[p] /\ ~({lane[o], lane[p]} \subseteq SharedLanes)

\* A freed slot is offered at once: nobody queues in a lane that has a free slot.
NoIdleSlotWhileWaiting ==
    \A l \in Lane : pending[l] # <<>> => Cardinality(active[l]) >= Limit[l]

\* The drained event is never set while an operation owns or awaits a slot, so
\* shutdown cannot return under one.
DrainedMeansEmpty == drained => Empty(active, pending)

\* Blocking work keeps its owner's slot until the thread itself returns, even
\* after the caller was cancelled (owned_thread, _drain).
ThreadKeepsSlot ==
    \A o \in thread : lane[o] # NoLane /\ o \in active[lane[o]]

\* Pools are sized by the lane limits: a borrow never finds its pool exhausted.
PoolsSuffice ==
    /\ Cardinality({o \in Op : borrow[o] = "runtime"}) <= RuntimeConnections
    /\ Cardinality({o \in Op : borrow[o] = "control"}) <= ControlConnections

\* When shutdown returns nothing owns a slot, a connection, a lease or a thread.
StoppedMeansQuiet ==
    stop = "stopped" =>
        /\ \A o \in Op : pc[o] \in {"idle", "failed"} /\ borrow[o] = "none"
        /\ lease = {} /\ thread = {}

\* Slots go out in arrival order: whoever gets a slot leaves nobody behind who was
\* ahead of it in the queue of that lane.
NoBarging ==
    [][\A l \in Lane : \A o \in active'[l] \ active[l] :
          \A i \in DOMAIN pending[l] :
             /\ pending[l][i] # o
             /\ \A j \in 1 .. i : pending[l][j] # o
             => pending[l][i] \notin ToSet(pending'[l])]_vars

\* Whoever asks is answered, even behind an owner that never leaves.
EveryAskAnswered ==
    \A o \in Op : pc[o] \in {"waiting", "granted", "failed"} ~> pc[o] \in {"idle", "running"}

\* Shutdown returns, unless an owner is stranded on an unconfirmed lease.
ShutdownCompletes ==
    stop = "draining" ~> (stop = "stopped" \/ \E o \in Op : pc[o] = "stranded")

\* Every wait for admission or for its end is over one day.
WaitsEnd == EveryAskAnswered /\ ShutdownCompletes
=============================================================================

--------------------------- MODULE BackgroundTurns ---------------------------
(***************************************************************************)
(* Background work of one server process: the poke/sweep loop of           *)
(* app/worker.py (PokeSweepWorker), the account rotation of                *)
(* app/account_workers.py (AccountWorker.run_turn) and the turn rotation   *)
(* over worker types (BackgroundScheduler).                                *)
(*                                                                         *)
(* work[w][a] is the durable backlog of worker type w for account a, in    *)
(* units of one turn; everything else is the memory of the process and is  *)
(* lost when it restarts.  pc[w] is where the task of worker w is:         *)
(*   "loop"        waiting for its next deadline                           *)
(*   "enumerating" in run_turn with an empty round, reading the accounts   *)
(*   "picked"      an account is off the round, before_turn is running     *)
(*   "waiting"     registered with the scheduler, awaiting its `ready`     *)
(*   "turn"        in its turn, owner of the background slot               *)
(*   "stopped"     cancelled by stop()                                     *)
(***************************************************************************)
EXTENDS Integers, Sequences, FiniteSets, SequencesExt

CONSTANTS
    Worker, None,
    MaxAccount,         \* accounts are 1..MaxAccount, in id order
    RefreshDeferred,    \* workers with refresh_deferred_on_wake (geocode)
    Downstream,         \* [Worker -> SUBSET Worker]: whom after_run pokes
    Faults,             \* which of the error paths may be taken
    Toggled,            \* bound: the accounts that may be disabled and enabled
    MaxBacklog,         \* bound, [Worker -> units of work per account]
    MaxRestarts         \* bound: process restarts

Account == 1 .. MaxAccount

ASSUME WorkerAssumption == IsFiniteSet(Worker) /\ None \notin Worker
ASSUME AccountAssumption == MaxAccount \in Nat /\ Toggled \subseteq Account
ASSUME DownstreamAssumption == Downstream \in [Worker -> SUBSET Worker]
ASSUME FaultsAssumption == Faults \subseteq {"enumeration", "before_turn", "turn"}

VARIABLES
    enabled, work,      \* the database
    deadline,           \* per worker, a poke's debounce deadline is set
    contAt,             \* _continuation_at: "none", "now" or "later"
    cont,               \* _continuations: absent, idle, ready, deferred, due
    round, lastRound,   \* _round and _last_round_started
    pc, current,        \* the task, and the account it serves
    queue, owner,       \* _ready and _active of the scheduler
    cancelled,          \* tasks that were cancelled
    restarts,
    faulted,            \* history: a run ended before its turn began
    bypassed            \* history, counted up to 2 * MaxAccount: turns given to
                        \* others while an account was due

db == <<enabled, work>>
loop == <<deadline, contAt>>
rota == <<cont, round, lastRound>>
sched == <<queue, owner>>
history == <<faulted, bypassed>>
vars == <<db, loop, rota, pc, current, sched, cancelled, restarts, history>>

TypeOK ==
    /\ enabled \subseteq Account
    /\ \A w \in Worker : work[w] \in [Account -> 0 .. MaxBacklog[w]]
    /\ deadline \in [Worker -> BOOLEAN]
    /\ contAt \in [Worker -> {"none", "now", "later"}]
    /\ cont \in [Worker -> [Account -> {"absent", "idle", "ready", "deferred", "due"}]]
    /\ round \in [Worker -> Seq(Account)]
    /\ lastRound \in [Worker -> 0 .. MaxAccount]
    /\ pc \in [Worker -> {"loop", "enumerating", "picked", "waiting", "turn", "stopped"}]
    /\ current \in [Worker -> 0 .. MaxAccount]
    /\ queue \in Seq(Worker)
    /\ owner \in Worker \cup {None}
    /\ cancelled \subseteq Worker
    /\ restarts \in 0 .. MaxRestarts
    /\ faulted \in BOOLEAN
    /\ bypassed \in [Worker -> [Account -> 0 .. 2 * MaxAccount]]

\* A new process: every worker task runs once before its first wait.
Memory ==
    /\ deadline = [w \in Worker |-> FALSE]
    /\ contAt = [w \in Worker |-> "none"]
    /\ cont = [w \in Worker |-> [a \in Account |-> "absent"]]
    /\ round = [w \in Worker |-> <<>>]
    /\ lastRound = [w \in Worker |-> 0]
    /\ pc = [w \in Worker |-> "enumerating"]
    /\ current = [w \in Worker |-> 0]
    /\ queue = <<>>
    /\ owner = None
    /\ cancelled = {}
    /\ bypassed = [w \in Worker |-> [a \in Account |-> 0]]

Init ==
    /\ enabled \in {S \in SUBSET Account : Account \ Toggled \subseteq S}
    /\ work = [w \in Worker |-> [a \in Account |-> MaxBacklog[w]]]
    /\ Memory
    /\ restarts = 0
    /\ faulted = FALSE

-----------------------------------------------------------------------------
(* The world outside: other transactions of the application.               *)

\* A transaction adds work for account a and commits; its handler then pokes.
\* A producer in another process, or one that dies in between, does not poke.
Produce(w, a, poked) ==
    /\ work[w][a] < MaxBacklog[w]
    /\ work' = [work EXCEPT ![w][a] = @ + 1]
    /\ deadline' = [deadline EXCEPT ![w] = @ \/ (poked /\ pc[w] # "stopped")]
    /\ UNCHANGED <<enabled, contAt, rota, pc, current, sched, cancelled, restarts, history>>

ToggleAccount(a) ==
    /\ enabled' = IF a \in enabled THEN enabled \ {a} ELSE enabled \cup {a}
    /\ UNCHANGED <<work, loop, rota, pc, current, sched, cancelled, restarts, history>>

Restart ==
    /\ restarts < MaxRestarts
    /\ restarts' = restarts + 1
    /\ deadline' = [w \in Worker |-> FALSE]
    /\ contAt' = [w \in Worker |-> "none"]
    /\ cont' = [w \in Worker |-> [a \in Account |-> "absent"]]
    /\ round' = [w \in Worker |-> <<>>]
    /\ lastRound' = [w \in Worker |-> 0]
    /\ pc' = [w \in Worker |-> "enumerating"]
    /\ current' = [w \in Worker |-> 0]
    /\ queue' = <<>>
    /\ owner' = None
    /\ cancelled' = {}
    /\ bypassed' = [w \in Worker |-> [a \in Account |-> 0]]
    /\ UNCHANGED <<db, faulted>>

-----------------------------------------------------------------------------
(* PokeSweepWorker._loop.                                                  *)

\* Time passes the retry time of a deferred continuation.
DeferralElapses(w, a) ==
    /\ cont[w][a] = "deferred"
    /\ cont' = [cont EXCEPT ![w][a] = "due"]
    /\ UNCHANGED <<db, loop, round, lastRound, pc, current, sched, cancelled, restarts, history>>

ContinuationElapsed(w) ==
    \/ contAt[w] = "now"
    \/ contAt[w] = "later" /\ \E a \in Account : cont[w][a] \in {"ready", "due"}

\* wake_cycle: idle continuations are refreshed, deferred ones only on request.
WakeNothing(w) == cont[w]  \* mutant: a wake leaves idle accounts idle

WakeCycle(w) ==
    [a \in Account |->
        IF \/ cont[w][a] = "idle"
           \/ cont[w][a] \in {"deferred", "due"} /\ w \in RefreshDeferred
        THEN "ready" ELSE cont[w][a]]

\* The loop is due: poked is the debounce deadline, swept the periodic sweep,
\* resumed the continuation.  Each may have elapsed with or without the others.
Wake(w, poked, swept, resumed) ==
    /\ pc[w] = "loop" /\ w \notin cancelled
    /\ poked \/ swept \/ resumed
    /\ poked => deadline[w]
    /\ resumed => ContinuationElapsed(w)
    /\ deadline' = [deadline EXCEPT ![w] = @ /\ ~poked]
    /\ contAt' = [contAt EXCEPT ![w] = IF resumed THEN "none" ELSE @]
    /\ cont' = IF poked \/ swept THEN [cont EXCEPT ![w] = WakeCycle(w)] ELSE cont
    /\ IF round[w] = <<>>
       THEN /\ pc' = [pc EXCEPT ![w] = "enumerating"]
            /\ UNCHANGED <<round, current>>
       ELSE /\ pc' = [pc EXCEPT ![w] = "picked"]
            /\ current' = [current EXCEPT ![w] = Head(round[w])]
            /\ round' = [round EXCEPT ![w] = Tail(@)]
    /\ UNCHANGED <<db, lastRound, sched, cancelled, restarts, history>>

-----------------------------------------------------------------------------
(* AccountWorker.run_turn.                                                 *)

LowestFirst(S, last) ==  \* mutant: every turn starts over from the lowest id
    IF S = {} THEN <<>> ELSE <<CHOOSE a \in S : \A x \in S : a <= x>>

\* The eligible accounts in id order, rotated past the previous round's first.
Rotated(S, last) ==
    LET key(a) == IF a > last THEN a ELSE a + MaxAccount
        rank(a) == Cardinality({x \in S : key(x) <= key(a)})
    IN  [i \in 1 .. Cardinality(S) |-> CHOOSE a \in S : rank(a) = i]

Known(w) ==
    [a \in Account |->
        IF a \notin enabled THEN "absent"
        ELSE IF cont[w][a] = "absent" THEN "ready" ELSE cont[w][a]]

ReadyOnly(c, rest) ==  \* mutant: a deferred account gets no timer
    IF rest # <<>> \/ \E a \in Account : c[a] \in {"ready", "due"} THEN "now" ELSE "none"

\* _schedule_continuation: the earliest of the continuations of worker w.
NextContinuation(c, rest) ==
    IF rest # <<>> \/ \E a \in Account : c[a] \in {"ready", "due"} THEN "now"
    ELSE IF \E a \in Account : c[a] = "deferred" THEN "later" ELSE "none"

\* A due account that is not in its turn, for the history variable.
Due(c, w, a) == a \in enabled /\ c[w][a] \in {"ready", "due"}

Enumerate(w) ==
    LET known == Known(w)
        next == Rotated({a \in Account : known[a] \in {"ready", "due"}}, lastRound[w])
    IN  /\ pc[w] = "enumerating" /\ w \notin cancelled
        /\ cont' = [cont EXCEPT ![w] = known]
        /\ IF next = <<>>
           THEN /\ pc' = [pc EXCEPT ![w] = "loop"]
                /\ contAt' = [contAt EXCEPT ![w] = NextContinuation(known, <<>>)]
                /\ UNCHANGED <<round, lastRound, current>>
           ELSE /\ pc' = [pc EXCEPT ![w] = "picked"]
                /\ current' = [current EXCEPT ![w] = Head(next)]
                /\ round' = [round EXCEPT ![w] = Tail(next)]
                /\ lastRound' = [lastRound EXCEPT ![w] = Head(next)]
                /\ UNCHANGED contAt
        /\ UNCHANGED <<db, deadline, sched, cancelled, restarts, history>>

\* No identity connection or a database error: the loop goes back to waiting,
\* without a continuation if that is what woke it.
EnumerationFails(w) ==
    /\ "enumeration" \in Faults
    /\ pc[w] = "enumerating" /\ w \notin cancelled
    /\ pc' = [pc EXCEPT ![w] = "loop"]
    /\ faulted' = TRUE
    /\ UNCHANGED <<db, loop, rota, current, sched, cancelled, restarts, bypassed>>

ScheduleContinuation(w, c) ==
    contAt' = [contAt EXCEPT ![w] = NextContinuation(c[w], round[w])]

\* The end of a turn, whatever its outcome.
Settle(w, outcome) ==
    /\ cont' = [cont EXCEPT ![w][current[w]] = outcome]
    /\ ScheduleContinuation(w, cont')
    /\ current' = [current EXCEPT ![w] = 0]
    /\ pc' = [pc EXCEPT ![w] = "loop"]
    /\ UNCHANGED <<round, lastRound>>

BeforeTurnFails(w) ==
    /\ "before_turn" \in Faults
    /\ pc[w] = "picked" /\ w \notin cancelled
    /\ Settle(w, "idle")
    /\ faulted' = TRUE
    /\ UNCHANGED <<db, deadline, sched, cancelled, restarts, bypassed>>

-----------------------------------------------------------------------------
(* BackgroundScheduler.turn.                                               *)

\* _advance: the next registration whose future was not cancelled.
FirstLive(q) == SelectInSeq(q, LAMBDA w : w \notin cancelled)

AdvanceNobody(q, o) ==  \* mutant: the turn is not handed over
    /\ queue' = q
    /\ owner' = o

Advance(q, o) ==
    IF o # None THEN owner' = o /\ queue' = q
    ELSE IF FirstLive(q) = 0 THEN owner' = None /\ queue' = <<>>
    ELSE owner' = q[FirstLive(q)] /\ queue' = SubSeq(q, FirstLive(q) + 1, Len(q))

Register(w) ==
    /\ pc[w] = "picked" /\ w \notin cancelled
    /\ Advance(Append(queue, w), owner)
    /\ pc' = [pc EXCEPT ![w] = "waiting"]
    /\ UNCHANGED <<db, loop, rota, current, cancelled, restarts, history>>

\* The worker resumes with its turn and enters the background lane.
BeginTurn(w) ==
    /\ pc[w] = "waiting" /\ owner = w /\ w \notin cancelled
    /\ pc' = [pc EXCEPT ![w] = "turn"]
    /\ bypassed' = [bypassed EXCEPT ![w] =
          [a \in Account |->
              IF a = current[w] \/ ~Due(cont, w, a) THEN 0
              ELSE IF bypassed[w][a] < 2 * MaxAccount THEN bypassed[w][a] + 1
              ELSE bypassed[w][a]]]
    /\ UNCHANGED <<db, loop, rota, current, sched, cancelled, restarts, faulted>>

Left(w, a) == IF work[w][a] > 0 THEN work[w][a] - 1 ELSE 0

\* One unit was committed; what it produced pokes the workers downstream.
FinishTurn(w) ==
    LET a == current[w]
        left == Left(w, a)
        fed == IF work[w][a] > 0 THEN Downstream[w] ELSE {}
    IN  /\ pc[w] = "turn" /\ w \notin cancelled /\ a \in enabled
        /\ work' = [x \in Worker |->
              IF x = w THEN [work[w] EXCEPT ![a] = left]
              ELSE IF x \in fed /\ work[x][a] < MaxBacklog[x] THEN [work[x] EXCEPT ![a] = @ + 1]
              ELSE work[x]]
        /\ deadline' = [x \in Worker |-> deadline[x] \/ (x \in fed /\ pc[x] # "stopped")]
        /\ Settle(w, IF left > 0 THEN "ready" ELSE "idle")
        /\ Advance(queue, None)
        /\ UNCHANGED <<enabled, cancelled, restarts, history>>

\* Nothing is eligible yet: the turn names the time of the next retry.
DeferTurn(w) ==
    /\ pc[w] = "turn" /\ w \notin cancelled
    /\ current[w] \in enabled /\ work[w][current[w]] > 0
    /\ Settle(w, "deferred")
    /\ Advance(queue, None)
    /\ UNCHANGED <<db, deadline, cancelled, restarts, history>>

\* The job raised, or its account was disabled after the round was read.
FailTurn(w) ==
    /\ pc[w] = "turn" /\ w \notin cancelled
    /\ "turn" \in Faults \/ current[w] \notin enabled
    /\ Settle(w, "idle")
    /\ Advance(queue, None)
    /\ UNCHANGED <<db, deadline, cancelled, restarts, history>>

-----------------------------------------------------------------------------
(* stop(): the task is cancelled where it stands and leaves the scheduler. *)

Cancel(w) ==
    /\ w \notin cancelled
    /\ cancelled' = cancelled \cup {w}
    /\ UNCHANGED <<db, loop, rota, pc, current, sched, restarts, history>>

\* A worker has at most one registration, which leaves the queue with it.  A turn
\* that was cancelled may have committed its unit; it pokes nobody.
Unwind(w) ==
    /\ w \in cancelled /\ pc[w] # "stopped"
    /\ pc' = [pc EXCEPT ![w] = "stopped"]
    /\ current' = [current EXCEPT ![w] = 0]
    /\ IF pc[w] \in {"waiting", "turn"}
       THEN Advance(RemoveFirst(queue, w), IF owner = w THEN None ELSE owner)
       ELSE UNCHANGED sched
    /\ \/ UNCHANGED work
       \/ /\ pc[w] = "turn" /\ current[w] \in enabled /\ work[w][current[w]] > 0
          /\ work' = [work EXCEPT ![w][current[w]] = @ - 1]
    /\ UNCHANGED <<enabled, loop, rota, cancelled, restarts, history>>

Next ==
    \/ \E w \in Worker, a \in Account, poked \in BOOLEAN : Produce(w, a, poked)
    \/ \E a \in Toggled : ToggleAccount(a)
    \/ Restart
    \/ \E w \in Worker :
          \/ \E a \in Account : DeferralElapses(w, a)
          \/ \E poked, swept, resumed \in BOOLEAN : Wake(w, poked, swept, resumed)
          \/ Enumerate(w) \/ EnumerationFails(w) \/ BeforeTurnFails(w)
          \/ Register(w) \/ BeginTurn(w)
          \/ FinishTurn(w) \/ DeferTurn(w) \/ FailTurn(w)
          \/ Cancel(w) \/ Unwind(w)

Spec == Init /\ [][Next]_vars

\* Timers run out and ready coroutines resume; jobs end, well or badly.  The sweep
\* timer is left out: what Fairness gives does not rest on it.
EndTurn(w) == FinishTurn(w) \/ DeferTurn(w) \/ FailTurn(w)

Fairness ==
    \A w \in Worker :
        /\ \A a \in Account : WF_vars(DeferralElapses(w, a))
        /\ SF_vars(\E swept, resumed \in BOOLEAN : Wake(w, TRUE, swept, resumed))
        /\ SF_vars(\E poked, swept \in BOOLEAN : Wake(w, poked, swept, TRUE))
        /\ WF_vars(Enumerate(w) \/ EnumerationFails(w))
        /\ WF_vars(Register(w) \/ BeforeTurnFails(w))
        /\ WF_vars(BeginTurn(w)) /\ WF_vars(EndTurn(w)) /\ WF_vars(Unwind(w))

PokeSpec == Spec /\ Fairness

\* The sweep timer, and faults that do not recur for ever for the same account.
SweepFairness ==
    \A w \in Worker :
        /\ SF_vars(\E poked, resumed \in BOOLEAN : Wake(w, poked, TRUE, resumed))
        /\ SF_vars(Enumerate(w))
        /\ \A a \in Account : SF_vars(current[w] = a /\ Register(w))

-----------------------------------------------------------------------------
(* Properties.                                                             *)

InTurn(w, a) == pc[w] = "turn" /\ current[w] = a

\* At most one worker type is in its turn, the scheduler's owner, so the one slot
\* of the background lane is always free for it; a registration is queued or owns
\* the turn, whatever was cancelled meanwhile; and the scheduler is never idle
\* while a live registration waits.
RegistrationsServed ==
    /\ \A w \in Worker : pc[w] = "turn" => owner = w
    /\ \A w \in Worker :
          pc[w] = "waiting" /\ w \notin cancelled => owner = w \/ w \in ToSet(queue)
    /\ owner = None => ToSet(queue) \subseteq cancelled
    /\ owner # None => pc[owner] \in {"waiting", "turn"}

\* A worker that went back to its loop has a timer for everything it still has to
\* do: the rest of the round, ready accounts and deferred ones.
ContinuationArmed ==
    \A w \in Worker : pc[w] = "loop" =>
        /\ round[w] # <<>> \/ (\E a \in Account : cont[w][a] = "ready") => contAt[w] = "now"
        /\ (\E a \in Account : cont[w][a] \in {"deferred", "due"}) => contAt[w] # "none"

\* Nothing that was asked for is forgotten: no registration without a turn to come,
\* no account with work left without a timer.
WorkIsRemembered == RegistrationsServed /\ ContinuationArmed

\* Rotation: between becoming due and being served, an account sees at most the
\* rest of a round and one full round go to other accounts.
BoundedBypass ==
    \A w \in Worker, a \in Account : bypassed[w][a] <= 2 * (MaxAccount - 1)

\* A poke reaches every enabled account without waiting for the sweep, as long as
\* no run ends before its turn (no identity connection, a pacer that refuses).
PokeReachesAccounts ==
    \A w \in Worker, a \in Account :
        deadline[w] /\ a \in enabled
            ~> InTurn(w, a) \/ a \notin enabled \/ w \in cancelled \/ faulted

\* If the sweep timer runs out and faults do not recur for ever, committed work of an
\* enabled account gets a turn even if its poke was lost or the run it caused failed
\* before the turn.
WorkGetsATurn == SweepFairness =>
    \A w \in Worker, a \in Account :
        work[w][a] > 0 /\ a \in enabled ~> InTurn(w, a) \/ a \notin enabled \/ w \in cancelled

\* No account waits for ever: not for its turn after a poke, nor, with the sweep, for
\* one after a lost poke or a failed run.
AccountsGetTurns == PokeReachesAccounts /\ WorkGetsATurn
=============================================================================

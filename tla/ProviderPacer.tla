---------------------------- MODULE ProviderPacer ----------------------------
(***************************************************************************)
(* The one pace of a process's requests to the address provider            *)
(* (app/provider_pacing.py): the turns of the geocode worker and the       *)
(* address searches of users wait for tickets of one queue, each start     *)
(* takes a request interval, and the worker keeps its place at the head    *)
(* while its turn is admitted and prepared.  The loop runs between two     *)
(* awaits undisturbed: that is a step.                                     *)
(***************************************************************************)
EXTENDS Sequences, SequencesExt

CONSTANTS
    Worker,     \* wait for a ticket first, and start from a background turn
    Searcher    \* start as soon as their ticket is ready

VARIABLES
    tickets,    \* _tickets: their callers, in order
    quiet,      \* next_start has come
    at          \* "out", "asleep" until _changed is set, "timed" for that or
                \* next_start, "woken", "ready" (a turn holds its ticket), "calling"

pacerVars == <<tickets, quiet, at>>

Caller == Worker \cup Searcher

PacerInit == tickets = <<>> /\ quiet = TRUE /\ at = [c \in Caller |-> "out"]

Waiting(c) == at[c] \in {"asleep", "timed", "woken"}

SleepOn(a) == a  \* mutant: a closed ticket sets no event

\* _changed is set: everybody who awaits it looks again.
Woken(a) == [c \in Caller |-> IF a[c] \in {"asleep", "timed"} THEN "woken" ELSE a[c]]

\* The loop of wait_ready, for a caller in the queue q.
LooksFrom(c, q, a) ==
    \/ /\ Head(q) # c
       /\ at' = [a EXCEPT ![c] = "asleep"] /\ tickets' = q /\ UNCHANGED quiet
    \/ /\ Head(q) = c /\ ~quiet
       /\ at' = [a EXCEPT ![c] = "timed"] /\ tickets' = q /\ UNCHANGED quiet
    \/ /\ Head(q) = c /\ quiet /\ c \in Worker
       /\ at' = [a EXCEPT ![c] = "ready"] /\ tickets' = q /\ UNCHANGED quiet
    \/ /\ Head(q) = c /\ quiet /\ c \in Searcher
       /\ at' = [Woken(a) EXCEPT ![c] = "calling"] /\ tickets' = Tail(q) /\ quiet' = FALSE

WaitReady(c) == at[c] = "out" /\ LooksFrom(c, Append(tickets, c), Woken(at))

LooksAgain(c) == at[c] = "woken" /\ LooksFrom(c, tickets, at)

\* asyncio.timeout(next_start - now)
TimerFires(c) ==
    /\ at[c] = "timed" /\ quiet
    /\ at' = [at EXCEPT ![c] = "woken"] /\ UNCHANGED <<tickets, quiet>>

Close(c) ==
    /\ tickets' = RemoveFirst(tickets, c)
    /\ at' = [Woken(at) EXCEPT ![c] = "out"]

\* GeocodeWorker starts a lookup; without its place it would not, and close later.
TryStart(c) ==
    /\ at[c] = "ready" /\ Head(tickets) = c /\ quiet
    /\ tickets' = Tail(tickets) /\ quiet' = FALSE
    /\ at' = [Woken(at) EXCEPT ![c] = "calling"]

\* The turn ends without a lookup: it found nothing to ask, was not admitted, failed.
EndUnused(c) == at[c] = "ready" /\ Close(c) /\ UNCHANGED quiet

\* The waiting task is cancelled: a closed page, a shutdown.
Cancelled(c) == Waiting(c) /\ Close(c) /\ UNCHANGED quiet

\* The provider answered, failed or was not waited for: the interval stays taken.
EndCall(c) ==
    /\ at[c] = "calling"
    /\ at' = [at EXCEPT ![c] = "out"] /\ UNCHANGED <<tickets, quiet>>

IntervalPasses == ~quiet /\ quiet' = TRUE /\ UNCHANGED <<tickets, at>>

PacerNext ==
    \/ \E c \in Caller : \/ WaitReady(c) \/ LooksAgain(c) \/ TimerFires(c) \/ Cancelled(c)
                         \/ TryStart(c) \/ EndUnused(c) \/ EndCall(c)
    \/ IntervalPasses

\* The loop runs what is ready, turns end (BackgroundTurns), and time passes.
PacerFairness ==
    /\ \A c \in Caller : /\ WF_pacerVars(LooksAgain(c)) /\ WF_pacerVars(TimerFires(c))
                         /\ WF_pacerVars(TryStart(c) \/ EndUnused(c))
    /\ WF_pacerVars(IntervalPasses)

PacerSpec == PacerInit /\ [][PacerNext]_pacerVars /\ PacerFairness

-----------------------------------------------------------------------------

\* A turn with its ticket ready is next, however long it takes to be admitted, and
\* whoever comes or leaves: its start cannot fail.
ReadyKeepsItsPlace == \A c \in Caller : at[c] = "ready" => Head(tickets) = c /\ quiet

\* The queue holds who waits, each once, and its head is never left asleep.
QueueMatches ==
    /\ Range(tickets) = {c \in Caller : Waiting(c) \/ at[c] = "ready"}
    /\ IsInjective(tickets)
    /\ tickets # <<>> => at[Head(tickets)] # "asleep"

\* Whoever comes, gives up or is cancelled: a prepared turn keeps its place, and the next
\* in line is told that it is.
TicketsKeepOrder == ReadyKeepsItsPlace /\ QueueMatches

\* Nobody who waits for the provider is forgotten when those before it start, give up or
\* are cancelled.
EveryCallerServed == \A c \in Caller : Waiting(c) ~> ~Waiting(c)
=============================================================================

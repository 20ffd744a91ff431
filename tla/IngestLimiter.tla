--------------------------- MODULE IngestLimiter ----------------------------
(***************************************************************************)
(* FailedAuthLimiter of app/ingest.py and the authentication that runs     *)
(* under it: failures are counted per address in a sliding window, at most *)
(* MaxAuth password checks run at once, and a check keeps its slot and     *)
(* counts its failure even when the request it answers has gone.           *)
(*                                                                         *)
(* The addresses are hashed by the code only to bound the size of a key.   *)
(***************************************************************************)
EXTENDS Integers, Sequences, FiniteSets, SequencesExt

CONSTANTS
    Caller,       \* requests being authenticated
    Address,
    MaxFailures,  \* failures that block an address
    Window,       \* length of the sliding window, in ticks
    MaxAuth,      \* password checks that run at once
    MaxKeys,      \* addresses the table holds
    PruneInterval, \* ticks between two prunings of the whole table
    MaxNow,       \* bound of the clock
    MaxTries      \* bound: requests in a behaviour

ASSUME LimiterAssumption ==
    /\ {MaxFailures, Window, MaxAuth, MaxKeys, PruneInterval} \subseteq Nat \ {0}
    /\ {MaxNow, MaxTries} \subseteq Nat

VARIABLES
    now,       \* the monotonic clock
    failures,  \* _failures: [Address -> Seq(time)], at most MaxFailures each
    recency,   \* order of the keys of _failures, least recently failed first
    nextPrune, \* _next_global_prune
    caller,    \* [Caller -> "idle", or the state of its authentication]
    tasks,     \* _auth_tasks: set of [caller, from, right], by caller
    wrong,     \* history: [Address -> Seq(time)], every failed password check
    evicted,   \* history: addresses whose key was dropped from a full table
    tries      \* requests left

limiterVars == <<now, failures, recency, nextPrune, caller, tasks, wrong, evicted, tries>>

Presented == {"right", "wrong",  \* a username and password
              "nothing",         \* no usable credential
              "oversized"}       \* a header over the limit

(* _prune of one address: the oldest failures leave while they are too old *)
Since(times, cutoff) ==
    SubSeq(times, Min({i \in 1..Len(times) : times[i] >= cutoff} \cup {Len(times) + 1}), Len(times))
Recent(times) == Since(times, now - Window)

(* _prune of the address at hand, or of every address when that is due; a *)
(* key without a recent failure leaves the table                          *)
Cleaned(ip) ==
    [a \in Address |-> IF a = ip \/ now >= nextPrune THEN Recent(failures[a])
                                                   ELSE failures[a]]
Kept(ip) == SelectSeq(recency, LAMBDA a : Cleaned(ip)[a] # <<>>)
NextPrune == nextPrune' = IF now >= nextPrune THEN now + PruneInterval ELSE nextPrune

Blocked(ip) == Len(Recent(failures[ip])) >= MaxFailures

Prune(ip) ==
    /\ failures' = Cleaned(ip)
    /\ recency' = Kept(ip)
    /\ NextPrune

(* record_failure: a full table drops the least recently failed key, for a *)
(* new key only; a deque keeps the last MaxFailures                        *)
RecordFailure(ip) ==
    LET kept == Kept(ip)
        full == Cleaned(ip)[ip] = <<>> /\ Len(kept) >= MaxKeys
        times == Append(Cleaned(ip)[ip], now)
    IN /\ failures' = [a \in Address |->
              IF a = ip THEN SubSeq(times, IF Len(times) > MaxFailures THEN 2 ELSE 1, Len(times))
              ELSE IF full /\ a = Head(kept) THEN <<>> ELSE Cleaned(ip)[a]]
       /\ recency' = Append(Remove(IF full THEN Tail(kept) ELSE kept, ip), ip)
       /\ evicted' = IF full THEN evicted \cup {Head(kept)} ELSE evicted
       /\ NextPrune

(***************************************************************************)
(* preflight_authentication_request: before a queue ticket is taken        *)
(***************************************************************************)
Arrive(c, ip, shown) ==
    /\ caller[c] = [at |-> "idle"]
    /\ tries > 0
    /\ tries' = tries - 1
    /\ IF Blocked(ip)
       THEN /\ Prune(ip) /\ UNCHANGED <<caller, evicted>>
       ELSE IF shown = "oversized"
       THEN /\ RecordFailure(ip) /\ UNCHANGED caller
       ELSE /\ Prune(ip)
            /\ caller' = [caller EXCEPT ![c] = [at |-> "queued", from |-> ip, shown |-> shown]]
            /\ UNCHANGED evicted
    /\ UNCHANGED <<now, tasks, wrong>>

(***************************************************************************)
(* authenticate_request, once the ticket is granted: the address is        *)
(* checked again, because others of it have failed meanwhile               *)
(***************************************************************************)
Authenticate(c) ==
    LET ip == caller[c].from IN
    /\ caller[c].at = "queued"
    /\ \/ /\ Blocked(ip)
          /\ Prune(ip)
          /\ caller' = [caller EXCEPT ![c] = [at |-> "idle"]]
          /\ UNCHANGED <<tasks, evicted>>
       \/ /\ ~Blocked(ip) /\ caller[c].shown = "nothing"
          /\ RecordFailure(ip)
          /\ caller' = [caller EXCEPT ![c] = [at |-> "idle"]]
          /\ UNCHANGED tasks
       \/ /\ ~Blocked(ip) /\ caller[c].shown # "nothing" /\ Cardinality(tasks) >= MaxAuth
          /\ Prune(ip)
          /\ caller' = [caller EXCEPT ![c] = [at |-> "idle"]]
          /\ UNCHANGED <<tasks, evicted>>
       \/ /\ ~Blocked(ip) /\ caller[c].shown # "nothing" /\ Cardinality(tasks) < MaxAuth
          /\ Prune(ip)
          /\ tasks' = tasks \cup {[of |-> c, from |-> ip, right |-> caller[c].shown = "right"]}
          /\ caller' = [caller EXCEPT ![c] = [at |-> "verifying", gone |-> FALSE]]
          /\ UNCHANGED evicted
    /\ UNCHANGED <<now, wrong, tries>>

(* The client leaves while its password is checked: its request drains the *)
(* check, which owns the slot until the thread ends                        *)
LeaveCheck(c) ==
    /\ caller[c].at = "verifying" /\ ~caller[c].gone
    /\ caller' = [caller EXCEPT ![c].gone = TRUE]
    /\ UNCHANGED <<now, failures, recency, nextPrune, tasks, wrong, evicted, tries>>

(* The client leaves the queue before its ticket *)
LeaveQueue(c) ==
    /\ caller[c].at = "queued"
    /\ caller' = [caller EXCEPT ![c] = [at |-> "idle"]]
    /\ UNCHANGED <<now, failures, recency, nextPrune, tasks, wrong, evicted, tries>>

(* Mutant: nobody counts the failure of a request that has left *)
CountIfHeard(t) ==
    /\ tasks' = tasks \ {t}
    /\ caller' = [caller EXCEPT ![t.of] = [at |-> "idle"]]
    /\ wrong' = IF t.right THEN wrong ELSE [wrong EXCEPT ![t.from] = Append(@, now)]
    /\ IF t.right \/ caller[t.of].gone
       THEN UNCHANGED <<failures, recency, nextPrune, evicted>>
       ELSE RecordFailure(t.from)
    /\ UNCHANGED <<now, tries>>

(* verify() of FailedAuthLimiter.authenticate, and _auth_finished *)
FinishCheck(t) ==
    /\ tasks' = tasks \ {t}
    /\ caller' = [caller EXCEPT ![t.of] = [at |-> "idle"]]
    /\ IF t.right
       THEN UNCHANGED <<failures, recency, nextPrune, wrong, evicted>>
       ELSE /\ RecordFailure(t.from)
            /\ wrong' = [wrong EXCEPT ![t.from] = Append(@, now)]
    /\ UNCHANGED <<now, tries>>

Tick ==
    /\ now < MaxNow
    /\ now' = now + 1
    /\ UNCHANGED <<failures, recency, nextPrune, caller, tasks, wrong, evicted, tries>>

LimiterInit ==
    /\ now = 0
    /\ failures = [ip \in Address |-> <<>>]
    /\ recency = <<>>
    /\ nextPrune = PruneInterval
    /\ caller = [c \in Caller |-> [at |-> "idle"]]
    /\ tasks = {}
    /\ wrong = [ip \in Address |-> <<>>]
    /\ evicted = {}
    /\ tries = MaxTries

LimiterNext ==
    \/ \E c \in Caller :
         \/ \E ip \in Address, shown \in Presented : Arrive(c, ip, shown)
         \/ Authenticate(c) \/ LeaveCheck(c) \/ LeaveQueue(c)
    \/ \E t \in tasks : FinishCheck(t)
    \/ Tick

LimiterSpec == LimiterInit /\ [][LimiterNext]_limiterVars

(***************************************************************************)
(* The table and its order name the same addresses, within their bounds,   *)
(* and a running check belongs to a caller that waits for it.              *)
(***************************************************************************)
TableConsistent ==
    /\ Len(recency) <= MaxKeys /\ IsInjective(recency)
    /\ \A ip \in Address : Len(failures[ip]) <= MaxFailures
    /\ {recency[i] : i \in DOMAIN recency} = {ip \in Address : failures[ip] # <<>>}
    /\ Cardinality(tasks) <= MaxAuth

(***************************************************************************)
(* The promise of the limiter: however its callers queue, leave and race,  *)
(* an address gets no more failed password checks in one window than the   *)
(* failures that block it, plus the checks that were already running.      *)
(* Only an address dropped from a full table may get more.                 *)
(***************************************************************************)
GuessesBounded ==
    \A ip \in Address \ evicted :
        Len(Recent(wrong[ip])) <= MaxFailures - 1 + MaxAuth
=============================================================================

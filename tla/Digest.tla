-------------------------------- MODULE Digest --------------------------------
(***************************************************************************)
(* The e-mail digests of an account (app/email_digest.py,                  *)
(* app/notification_preparation.py).  The process of each replica takes    *)
(* the kinds of digest in turn, one to a background turn.  A turn captures *)
(* the settings and the period in one transaction; in another it takes the *)
(* advisory lock, looks at the settings and the ledger again, has the mail *)
(* prepared and sent, and enters the period.  The ntfy reminders           *)
(* (app/ntfy_preparation.py) are such turns of one kind.                   *)
(*                                                                         *)
(* Settings are what the turn compares: an address, the kinds switched on, *)
(* and for each of them the hour, which with the time zone places the      *)
(* boundary of its period.                                                 *)
(***************************************************************************)
EXTENDS Integers, Sequences, FiniteSets

CONSTANTS
    Replica,
    Kinds,          \* KINDS, the digests in their order
    Address, NoAddress,
    Length,         \* hours of a period
    MaxHours,       \* bound: hours that pass
    MaxSettings,    \* bound: changes of the settings
    MaxFaults,      \* bound: crashes and lost answers
    NoReplica

ASSUME DigestAssumption ==
    /\ NoAddress \notin Address /\ NoReplica \notin Replica
    /\ Length \in Nat \ {0} /\ MaxHours \in Nat /\ MaxSettings \in Nat /\ MaxFaults \in Nat

Kind == DOMAIN Kinds
Hour == 0 .. Length - 1

VARIABLES
    prefs,          \* [to, enabled, hour], and how often they were changed
    now,            \* hours since some boundary
    ledger,         \* email_deliveries, of <<kind, period_end>>
    mails,          \* mails a server took, by kind and period
    unrecorded,     \* and those of them whose turn did not live to enter them
    faults,
    job, place,     \* a replica's turn, and the kind its next one starts at
    holder          \* of the advisory lock

digestVars == <<prefs, now, ledger, mails, unrecorded, faults, job, place, holder>>

Period == 0 .. MaxHours + Length

NoJob == [pc |-> "idle", kind |-> 0, period |-> 0, to |-> NoAddress, hour |-> 0, next |-> 1]

DigestInit ==
    /\ prefs = [to |-> NoAddress, enabled |-> Kind,
                hour |-> [k \in Kind |-> 0], changes |-> 0]
    /\ now = Length
    /\ ledger = {}
    /\ mails = [d \in Kind \X Period |-> 0] /\ unrecorded = mails
    /\ faults = 0
    /\ job = [r \in Replica |-> NoJob] /\ place = [r \in Replica |-> 1]
    /\ holder = NoReplica

Digest(r) == <<job[r].kind, job[r].period>>

At(r, pc) == job[r].pc = pc

To(r, pc) == job' = [job EXCEPT ![r].pc = pc]

\* latest_month_boundary and its like: the last boundary that is not after now.
PeriodEnd(hour) == now - ((now - hour) % Length)

\* The kinds the account gets: without an address, none.
Wanted == IF prefs.to = NoAddress THEN {} ELSE prefs.enabled

StaysAtKind(r) ==  \* mutant: a turn that failed is repeated before the kinds after it
    /\ job' = [job EXCEPT ![r] = NoJob]
    /\ holder' = IF holder = r THEN NoReplica ELSE holder
    /\ UNCHANGED place

\* The transaction ends, with the lock and the share of the settings it held, and
\* the turn with the cursor that was chosen when it began.
EndTurn(r) ==
    /\ job' = [job EXCEPT ![r] = NoJob]
    /\ holder' = IF holder = r THEN NoReplica ELSE holder
    /\ place' = [place EXCEPT ![r] = job[r].next]

-----------------------------------------------------------------------------

\* select_email_turn and capture_email_job: the first enabled kind from the cursor
\* on, and where the next turn starts.
Capture(r) ==
    /\ At(r, "idle")
    /\ LET due == {k \in Wanted : k >= place[r]}
           k == CHOOSE x \in due : \A y \in due : x <= y
       IN IF due = {}
          THEN place' = [place EXCEPT ![r] = 1] /\ UNCHANGED job
          ELSE /\ job' = [job EXCEPT ![r] =
                    [pc |-> "captured", kind |-> k, period |-> PeriodEnd(prefs.hour[k]),
                     to |-> prefs.to, hour |-> prefs.hour[k],
                     next |-> IF due = {k} THEN 1 ELSE k + 1]]
               /\ UNCHANGED place
    /\ UNCHANGED <<prefs, now, ledger, mails, unrecorded, faults, holder>>

LockDigests(r) ==
    /\ At(r, "captured") /\ holder = NoReplica
    /\ holder' = r /\ To(r, "locked")
    /\ UNCHANGED <<prefs, now, ledger, mails, unrecorded, faults, place>>

\* email_preferences_current, which keeps the row share-locked to the end.
PrefsCurrent(r) ==
    /\ prefs.to = job[r].to /\ job[r].kind \in prefs.enabled
    /\ prefs.hour[job[r].kind] = job[r].hour

CheckPrefsOnly(r) ==  \* mutant: the ledger was read with the settings, before the lock
    /\ At(r, "locked")
    /\ IF PrefsCurrent(r)
       THEN To(r, "preparing") /\ UNCHANGED <<holder, place>>
       ELSE EndTurn(r)
    /\ UNCHANGED <<prefs, now, ledger, mails, unrecorded, faults>>

CheckAgain(r) ==
    /\ At(r, "locked")
    /\ IF PrefsCurrent(r) /\ Digest(r) \notin ledger
       THEN To(r, "preparing") /\ UNCHANGED <<holder, place>>
       ELSE EndTurn(r)
    /\ UNCHANGED <<prefs, now, ledger, mails, unrecorded, faults>>

\* A weekly or quarterly digest without anything to say is entered and not sent.
Prepare(r) ==
    /\ At(r, "preparing")
    /\ To(r, "sending") \/ To(r, "empty")
    /\ UNCHANGED <<prefs, now, ledger, mails, unrecorded, faults, place, holder>>

Accept(r) == mails' = [mails EXCEPT ![Digest(r)] = @ + 1]

Lose(r) == unrecorded' = [unrecorded EXCEPT ![Digest(r)] = @ + 1]

Deliver(r) ==
    /\ At(r, "sending") /\ Accept(r) /\ To(r, "accepted")
    /\ UNCHANGED <<prefs, now, ledger, unrecorded, faults, place, holder>>

Record(r) ==
    /\ At(r, "accepted") \/ At(r, "empty")
    /\ ledger' = ledger \cup {Digest(r)}
    /\ EndTurn(r)
    /\ UNCHANGED <<prefs, now, mails, unrecorded, faults>>

-----------------------------------------------------------------------------
(* What fails.                                                             *)

\* The settings make no schedule, a helper fails, the deadline passes, the server
\* refuses the mail: the kind is counted as failed and the rotation goes on.
FailTurn(r) ==
    /\ job[r].pc \in {"captured", "locked", "preparing", "sending", "empty"}
    /\ EndTurn(r)
    /\ UNCHANGED <<prefs, now, ledger, mails, unrecorded, faults>>

Fault == faults < MaxFaults /\ faults' = faults + 1

\* The server took the mail and its answer, or the commit after it, is lost.
AnswerLost(r) ==
    /\ Fault
    /\ \/ At(r, "sending") /\ Accept(r)
       \/ At(r, "accepted") /\ UNCHANGED mails
    /\ Lose(r) /\ EndTurn(r)
    /\ UNCHANGED <<prefs, now, ledger>>

\* The process dies; a mail that was being sent has gone out, or never will.
Crash(r) ==
    /\ ~At(r, "idle") /\ Fault
    /\ \/ At(r, "sending") /\ Accept(r) /\ Lose(r)
       \/ At(r, "accepted") /\ Lose(r) /\ UNCHANGED mails
       \/ ~At(r, "accepted") /\ UNCHANGED <<mails, unrecorded>>
    /\ job' = [job EXCEPT ![r] = NoJob]
    /\ holder' = IF holder = r THEN NoReplica ELSE holder
    /\ place' = [place EXCEPT ![r] = 1]
    /\ UNCHANGED <<prefs, now, ledger>>

-----------------------------------------------------------------------------

SharesPrefs == {"preparing", "sending", "empty", "accepted"}

\* The account saves other settings, after any turn that holds them.
SavePrefs ==
    /\ prefs.changes < MaxSettings
    /\ \A r \in Replica : job[r].pc \notin SharesPrefs
    /\ \/ \E to \in Address \cup {NoAddress} : prefs' = [prefs EXCEPT !.to = to, !.changes = @ + 1]
       \/ \E k \in Kind : prefs' = [prefs EXCEPT !.changes = @ + 1,
                            !.enabled = IF k \in @ THEN @ \ {k} ELSE @ \cup {k}]
       \/ \E k \in Kind, h \in Hour : prefs' = [prefs EXCEPT !.hour[k] = h, !.changes = @ + 1]
    /\ UNCHANGED <<now, ledger, mails, unrecorded, faults, job, place, holder>>

HourPasses ==
    /\ now < MaxHours + Length /\ now' = now + 1
    /\ UNCHANGED <<prefs, ledger, mails, unrecorded, faults, job, place, holder>>

Work(r) ==
    Capture(r) \/ LockDigests(r) \/ CheckAgain(r) \/ Prepare(r) \/ Deliver(r) \/ Record(r) \/ FailTurn(r)

DigestNext ==
    \/ \E r \in Replica : Work(r) \/ AnswerLost(r) \/ Crash(r)
    \/ SavePrefs \/ HourPasses

\* The rotation gives the account its turns, and a preparation has a deadline.
DigestFairness == \A r \in Replica : WF_digestVars(Work(r))

DigestSpec == DigestInit /\ [][DigestNext]_digestVars /\ DigestFairness

-----------------------------------------------------------------------------

(***************************************************************************)
(* The at-least-once window of EmailDigestWorker, and nothing wider: a     *)
(* digest of a kind and period goes out once, and once more for each mail  *)
(* whose answer or entry was lost, whatever replicas run and however the   *)
(* settings change; while one goes out, they are what it was made from.    *)
(***************************************************************************)
OncePerPeriod ==
    \A d \in Kind \X Period :
        mails[d] <= unrecorded[d] +
            (IF d \in ledger \/ \E r \in Replica : At(r, "accepted") /\ Digest(r) = d THEN 1 ELSE 0)
MadeFromCurrentSettings ==
    \A r \in Replica : job[r].pc \in SharesPrefs => PrefsCurrent(r) /\ holder = r

DigestsOncePerPeriod == OncePerPeriod /\ MadeFromCurrentSettings

(***************************************************************************)
(* A kind that always fails does not hold up the kinds after it: while any *)
(* is wanted, the rotation gets to the last of them.                       *)
(***************************************************************************)
TriesLast(r) == ~At(r, "idle") /\ job[r].kind \in Wanted /\ \A k \in Wanted : k <= job[r].kind

EveryKindTried == \A r \in Replica : Wanted # {} ~> (Wanted = {} \/ TriesLast(r))
=============================================================================

-------------------------------- MODULE Spool --------------------------------
(***************************************************************************)
(* Reports, exports, mails and notifications are prepared by a helper      *)
(* process in a directory of the spool, which the file locks of several    *)
(* serving processes share (app/preparation.py,                            *)
(* app/preparation_resources.py, app/preparation_helper.py), and served as *)
(* a file or handed to a second helper that sends it                       *)
(* (app/smtp_supervisor.py, app/smtp_helper.py, app/ntfy_supervisor.py).   *)
(*                                                                         *)
(* A step is what one process does between two waits.  A file lock goes    *)
(* with the last process that holds it: helpers inherit the guard of their *)
(* directory, and survive the process that started them until they see its *)
(* pipe close.  Bytes are counted in directories, each of which is charged *)
(* an operation's whole allowance.                                         *)
(***************************************************************************)
EXTENDS Integers, FiniteSets

CONSTANTS
    Op,         \* preparations, each of them once
    Process,
    HostOf,     \* [Op -> Process]
    Dir,        \* names of op- directories; each is used once, and there are enough
    MaxDirs,    \* INSTANCE_BYTES \div OPERATION_BYTES
    NoDir, NoOp

ASSUME SpoolAssumption ==
    /\ HostOf \in [Op -> Process] /\ MaxDirs \in Nat \ {0}
    /\ NoDir \notin Dir /\ NoOp \notin Op

VARIABLES
    op,         \* [pc, child, dir, stopped]
    dirs,       \* directories that exist
    used,       \* names that were given out
    registry,   \* who holds registry.lock
    failure,    \* who holds failure.lock
    up          \* processes that live

spoolVars == <<op, dirs, used, registry, failure, up>>

Start == [pc |-> "idle", child |-> "none", dir |-> NoDir, stopped |-> FALSE]

SpoolInit ==
    /\ op = [o \in Op |-> Start]
    /\ dirs = {} /\ used = {}
    /\ registry = NoOp /\ failure = {}
    /\ up = Process

Ended == {"refused", "closed", "retained", "dead"}

\* The renderer or the sender of a preparation runs, in its directory.
ChildRuns(o) == op[o].child \in {"renderer", "sender"}

OwnsGuard == {"open", "finished", "serving", "sending", "closing", "releasing", "clearing",
              "stuck", "retained"}

HeldByParent(d) ==  \* mutant: the helper is not given the guard
    \E o \in Op : op[o].dir = d /\ op[o].pc \in OwnsGuard

Held(d) == \E o \in Op : op[o].dir = d /\ (op[o].pc \in OwnsGuard \/ ChildRuns(o))

Go(o, pc) == op' = [op EXCEPT ![o].pc = pc]

\* Without a directory there is nothing to close.
Refuse(o) == op' = [op EXCEPT ![o] = [Start EXCEPT !.pc = "refused"]]

Unlock == registry' = NoOp

-----------------------------------------------------------------------------
(* SpoolReservation.acquire, in a thread that outlives a cancelled caller  *)

Begin(o) ==
    /\ op[o].pc = "idle" /\ HostOf[o] \in up
    /\ Go(o, "asking")
    /\ UNCHANGED <<dirs, used, registry, failure, up>>

LockRegistry(o) ==
    /\ op[o].pc = "asking" /\ registry = NoOp
    /\ registry' = o /\ Go(o, "sweeping")
    /\ UNCHANGED <<dirs, used, failure, up>>

RegistryWaitExpires(o) ==
    /\ op[o].pc = "asking"
    /\ Refuse(o)
    /\ UNCHANGED <<dirs, used, registry, failure, up>>

NewDir == CHOOSE d \in Dir : d \notin used

\* PreparationBusy while a cleanup is unconfirmed; otherwise every directory without
\* an owner is removed, and a new one made when the live ones leave room.
Sweep(o) ==
    /\ op[o].pc = "sweeping" /\ Dir \ used # {}
    /\ LET live == {d \in dirs : Held(d)}
           room == failure = {} /\ Cardinality(live) < MaxDirs
       IN /\ dirs' = IF failure # {} THEN dirs ELSE live \cup (IF room THEN {NewDir} ELSE {})
          /\ used' = used \cup (dirs' \ live)
          /\ IF room
             THEN op' = [op EXCEPT ![o].pc = "making", ![o].dir = NewDir] /\ UNCHANGED registry
             ELSE Refuse(o) /\ Unlock
    /\ UNCHANGED <<failure, up>>

\* One of them cannot be removed; those before it were.
SweepFails(o) ==
    /\ op[o].pc = "sweeping" /\ failure = {}
    /\ \E d \in dirs : ~Held(d)
    /\ LET live == {d \in dirs : Held(d)}
       IN \E left \in SUBSET (dirs \ live) : left # {} /\ dirs' = live \cup left
    /\ Refuse(o) /\ Unlock
    /\ UNCHANGED <<used, failure, up>>

\* A caller that was cancelled, or whose deadline passed, meanwhile closes at once.
Make(o) ==
    /\ op[o].pc = "making"
    /\ Go(o, IF op[o].stopped THEN "closing" ELSE "open") /\ Unlock
    /\ UNCHANGED <<dirs, used, failure, up>>

MakeFailsLocked(o) ==  \* mutant: the registry stays locked
    /\ op[o].pc = "making" /\ Refuse(o)
    /\ dirs' = dirs \ {op[o].dir}
    /\ UNCHANGED <<used, registry, failure, up>>

\* What was made is removed, or left for the next sweep, or, when that fails,
\* retained under failure.lock.
MakeFails(o) ==
    /\ op[o].pc = "making" /\ Unlock
    /\ \/ Refuse(o) /\ dirs' \in {dirs, dirs \ {op[o].dir}} /\ UNCHANGED failure
       \/ Go(o, "retained") /\ failure' = failure \cup {o} /\ UNCHANGED dirs
    /\ UNCHANGED <<used, up>>

-----------------------------------------------------------------------------
(* The helpers                                                             *)

StartRenderer(o) ==
    /\ op[o].pc = "open" /\ op[o].child = "none"
    /\ op' = [op EXCEPT ![o].child = "renderer"]
    /\ UNCHANGED <<dirs, used, registry, failure, up>>

\* Done, or ended by an error, its memory or its deadline, by its parent, or without one.
ChildExits(o) ==
    /\ ChildRuns(o)
    /\ \E end \in {"ok", "bad"} :
        op' = [op EXCEPT ![o].child = IF HostOf[o] \in up THEN end ELSE "none",
                         ![o].dir = IF HostOf[o] \in up THEN @ ELSE NoDir]
    /\ UNCHANGED <<dirs, used, registry, failure, up>>

\* finish_preparation: the helper's input ends and it exits with 0.
FinishPreparation(o) ==
    /\ op[o].pc = "open" /\ op[o].child \in {"ok", "bad"}
    /\ Go(o, IF op[o].child = "ok" THEN "finished" ELSE "closing")
    /\ UNCHANGED <<dirs, used, registry, failure, up>>

\* PreparedFileResponse.
Serve(o) ==
    /\ op[o].pc = "finished" /\ Go(o, "serving")
    /\ UNCHANGED <<dirs, used, registry, failure, up>>

\* send_prepared: the sender is given the open files and the guard.
Send(o) ==
    /\ op[o].pc = "finished"
    /\ op' = [op EXCEPT ![o].pc = "sending", ![o].child = "sender"]
    /\ UNCHANGED <<dirs, used, registry, failure, up>>

Delivered(o) ==
    /\ op[o].pc = "serving" \/ (op[o].pc = "sending" /\ ~ChildRuns(o))
    /\ Go(o, "closing")
    /\ UNCHANGED <<dirs, used, registry, failure, up>>

\* Cancellation, the deadline or too much memory, at most once.  The thread that
\* reserves goes on, a sender is reaped first, and whatever else runs is given up.
StopWork(o) ==
    /\ op[o].pc \in {"asking", "sweeping", "making", "open", "finished", "serving", "sending"}
    /\ ~op[o].stopped
    /\ op' = [op EXCEPT ![o].stopped = TRUE,
                        ![o].pc = IF @ \in {"open", "finished", "serving"} THEN "closing" ELSE @]
    /\ UNCHANGED <<dirs, used, registry, failure, up>>

\* An error without an SQLSTATE proves nothing about the backend: _retain, for ever.
BackendLost(o) ==
    /\ op[o].pc \in {"open", "sending"} /\ ~(op[o].pc = "sending" /\ ChildRuns(o))
    /\ Go(o, "retained")
    /\ UNCHANGED <<dirs, used, registry, failure, up>>

-----------------------------------------------------------------------------
(* PreparationOperation.close                                              *)

\* The pipe is closed and the helper reaped, however long that takes.
Reap(o) ==
    /\ op[o].pc = "closing" /\ ~ChildRuns(o)
    /\ Go(o, "releasing")
    /\ UNCHANGED <<dirs, used, registry, failure, up>>

LockToRelease(o) ==
    /\ op[o].pc = "releasing" /\ registry = NoOp
    /\ registry' = o /\ Go(o, "clearing")
    /\ UNCHANGED <<dirs, used, failure, up>>

Release(o) ==
    /\ op[o].pc = "clearing" /\ Unlock
    /\ dirs' = dirs \ {op[o].dir}
    /\ op' = [op EXCEPT ![o] = [Start EXCEPT !.pc = "closed"]]
    /\ UNCHANGED <<used, failure, up>>

\* The failure is kept under failure.lock, which is waited for with the registry
\* locked: the second one to fail gets it when the first one's process is gone.
ReleaseFails(o) ==
    /\ op[o].pc = "clearing"
    /\ \/ failure = {} /\ failure' = {o} /\ Go(o, "retained") /\ Unlock
       \/ failure # {} /\ Go(o, "stuck") /\ UNCHANGED <<registry, failure>>
    /\ UNCHANGED <<dirs, used, up>>

FailureLockFreed(o) ==
    /\ op[o].pc = "stuck" /\ failure = {}
    /\ failure' = {o} /\ Go(o, "retained") /\ Unlock
    /\ UNCHANGED <<dirs, used, up>>

-----------------------------------------------------------------------------

\* The kernel drops its locks; its helpers notice later.
Die(p) ==
    /\ p \in up /\ up' = up \ {p}
    /\ op' = [o \in Op |-> IF HostOf[o] = p /\ op[o].pc \notin {"refused", "closed"}
                           THEN [pc |-> "dead", stopped |-> FALSE,
                                 child |-> IF ChildRuns(o) THEN op[o].child ELSE "none",
                                 dir |-> IF ChildRuns(o) THEN op[o].dir ELSE NoDir]
                           ELSE op[o]]
    /\ registry' = IF registry # NoOp /\ HostOf[registry] = p THEN NoOp ELSE registry
    /\ failure' = {o \in failure : HostOf[o] # p}
    /\ UNCHANGED <<dirs, used>>

Proceed(o) ==
    \/ LockRegistry(o) \/ RegistryWaitExpires(o) \/ Sweep(o) \/ Make(o)
    \/ StartRenderer(o) \/ ChildExits(o) \/ FinishPreparation(o)
    \/ Serve(o) \/ Send(o) \/ Delivered(o)
    \/ Reap(o) \/ LockToRelease(o) \/ Release(o) \/ FailureLockFreed(o)

Disturb(o) ==
    \/ SweepFails(o) \/ MakeFails(o) \/ StopWork(o) \/ BackendLost(o) \/ ReleaseFails(o)

SpoolNext ==
    \/ \E o \in Op : Begin(o) \/ Proceed(o) \/ Disturb(o)
    \/ \E p \in Process : Die(p)

\* Threads and helpers run, and helpers exit: each of them has a deadline of its own.
SpoolFairness == \A o \in Op : WF_spoolVars(Proceed(o))

SpoolSpec == SpoolInit /\ [][SpoolNext]_spoolVars /\ SpoolFairness

-----------------------------------------------------------------------------

(***************************************************************************)
(* What SpoolReservation is for, through crashes, successors and helpers   *)
(* that outlive their parent: the directories on disk never exceed the     *)
(* instance's allowance; nobody's directory is cleared while he or his     *)
(* helper uses it, or given to a second preparation; who closed has no     *)
(* helper left; and what is served or sent is what a renderer finished.    *)
(***************************************************************************)
WithinAllowance == Cardinality(dirs) <= MaxDirs
UsersKeepTheirFiles ==
    \A o \in Op :
        op[o].pc \in OwnsGuard \cup {"making"} \/ ChildRuns(o) =>
            op[o].dir \in dirs /\ \A other \in Op \ {o} : op[other].dir # op[o].dir
EndedWithoutHelpers == \A o \in Op : op[o].pc \in {"refused", "closed"} => ~ChildRuns(o)
OnlyFinishedLeaves ==
    /\ \A o \in Op : op[o].pc = "serving" => op[o].child = "ok"
    /\ \A o \in Op : op[o].child = "sender" => op[o].pc \in {"sending", "dead"}

FilesOutliveTheirUsers ==
    WithinAllowance /\ UsersKeepTheirFiles /\ EndedWithoutHelpers /\ OnlyFinishedLeaves

(***************************************************************************)
(* Every preparation that began ends, by its answer, a refusal or as one   *)
(* that only process recovery can end, unless a second cleanup fails while *)
(* a first one is unconfirmed.                                             *)
(***************************************************************************)
Unfinished == {o \in Op : op[o].pc \notin Ended \cup {"idle"}}

OperationsEnd == Unfinished # {} ~> (Unfinished = {} \/ \E o \in Op : op[o].pc = "stuck")
=============================================================================

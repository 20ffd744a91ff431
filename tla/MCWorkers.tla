------------------------------ MODULE MCWorkers ------------------------------
(***************************************************************************)
(* What keeps going: the snap worker with three trips of two devices (one  *)
(* path that does not fit beside another, one in several parts, one trip   *)
(* of too few fixes), two preparations of two processes, and the digests   *)
(* of one replica.  One of them is at work in each behaviour.              *)
(***************************************************************************)
EXTENDS SnapWorker, Spool, Digest, TLC

CONSTANTS t1, t2, t3, d1, d2, o1, o2, p1, p2, r1, a1, a2

Owner == t1 :> d1 @@ t2 :> d1 @@ t3 :> d2
Bytes == t1 :> 2 @@ t2 :> 1 @@ t3 :> 1
Hosts == o1 :> p1 @@ o2 :> p2
TwoKinds == <<"monthly_summary", "filing_reminder">>

VARIABLE part

MCInit == part \in {"snap", "spool", "digest"} /\ Init /\ SpoolInit /\ DigestInit

\* Without a trip, the snap worker wakes up and finds nothing to do.
SnapNext == part = "snap" /\ Next
SnapRests == part # "snap" /\ (Turn \/ Wake)

\* Every preparation has ended: each is made once.
SpoolEnds == (\A o \in Op : op[o].pc \in Ended) /\ UNCHANGED spoolVars

MCNext ==
    \/ (SnapNext \/ SnapRests) /\ UNCHANGED <<part, spoolVars, digestVars>>
    \/ part = "spool" /\ (SpoolNext \/ SpoolEnds) /\ UNCHANGED <<part, vars, digestVars>>
    \/ part = "digest" /\ DigestNext /\ UNCHANGED <<part, vars, spoolVars>>

MCVars == <<part, vars, spoolVars, digestVars>>

\* The fair actions of a part that is not at work are disabled, or those of SnapRests.
MCSpec == MCInit /\ [][MCNext]_MCVars /\ Fairness /\ SpoolFairness /\ DigestFairness

\* Every preparation ends or is stuck behind a failed cleanup, and the e-mail rotation
\* gets to its last kind although every kind may fail.
NothingHangs == OperationsEnd /\ EveryKindTried
=============================================================================

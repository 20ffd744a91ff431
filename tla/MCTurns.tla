------------------------------- MODULE MCTurns -------------------------------
(***************************************************************************)
(* Who may do what at once: detector turns beside ingest, an operator and  *)
(* an editor; three preparations of two processes with room for two        *)
(* directories; and, of two replicas, the digests and the addresses of     *)
(* trip ends.  One of them is at work in each behaviour.                   *)
(***************************************************************************)
EXTENDS MCDetectorCheckpoint, Spool, Digest, Geocode, TLC

CONSTANTS o1, o2, o3, p1, p2, r1, r2, a1, a2

Hosts == o1 :> p1 @@ o2 :> p1 @@ o3 :> p2
TwoKinds == <<"monthly_summary", "filing_reminder">>

VARIABLE part

MCInit == /\ part \in {"detector", "spool", "digest", "geocode"}
          /\ Init /\ SpoolInit /\ DigestInit /\ GeocodeInit

MCNext ==
    \/ part = "detector" /\ Next /\ UNCHANGED <<part, spoolVars, digestVars, geoVars>>
    \/ part = "spool" /\ SpoolNext /\ UNCHANGED <<part, vars, digestVars, geoVars>>
    \/ part = "digest" /\ DigestNext /\ UNCHANGED <<part, vars, spoolVars, geoVars>>
    \/ part = "geocode" /\ GeocodeNext /\ UNCHANGED <<part, vars, spoolVars, digestVars>>

\* Replicas are interchangeable, and so are the names of addresses.
Symmetry == Permutations(Replica) \cup Permutations(Address)

MCSpec == MCInit /\ [][MCNext]_<<part, vars, spoolVars, digestVars, geoVars>>
=============================================================================

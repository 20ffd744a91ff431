------------------------------- MODULE MCRounds -------------------------------
(***************************************************************************)
(* What background turns must not lose sight of: the fixes of two phones   *)
(* beside an operator who reprocesses; the ends of two trips, one of them  *)
(* entered by hand; and the callers of the address provider.  One of them  *)
(* is at work in each behaviour.                                           *)
(***************************************************************************)
EXTENDS MCDetectorCheckpoint, Geocode, ProviderPacer

VARIABLE part

\* The discovery of an account without trips is over after its first turn.
Discovered == [NewDiscovery EXCEPT !.pending = FALSE, !.unit = "discovery"]

MCInit ==
    /\ part \in {"detector", "geocode", "pacer"}
    /\ Init /\ PacerInit
    /\ GeocodeFrom(IF part = "geocode" THEN NewDiscovery ELSE Discovered)

MCNext ==
    \/ part = "detector" /\ Next /\ UNCHANGED <<part, geoVars, pacerVars>>
    \/ part = "geocode" /\ GeocodeNext /\ UNCHANGED <<part, vars, pacerVars>>
    \/ part = "pacer" /\ PacerNext /\ UNCHANGED <<part, vars, geoVars>>

\* The fair actions of a part that is not at work are disabled.
MCSpec ==
    /\ MCInit /\ [][MCNext]_<<part, vars, geoVars, pacerVars>>
    /\ Fairness /\ GeocodeFairness /\ PacerFairness

(***************************************************************************)
(* Whatever waits for a background turn gets it: every stored fix is       *)
(* processed, every trip end that needs an address is asked about, and     *)
(* every caller of the address provider starts or leaves.                  *)
(***************************************************************************)
NothingStarves == StoredIsServed /\ EndsAreAskedAbout /\ EveryCallerServed
=============================================================================

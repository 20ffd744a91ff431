-------------------------- MODULE MCBackgroundTurns --------------------------
(***************************************************************************)
(* Instances of BackgroundTurns for TLC.                                   *)
(***************************************************************************)
EXTENDS BackgroundTurns

CONSTANTS detector, snap, geocode

\* after_detection of app/main.py pokes the snap and geocode workers.
Feeds == [w \in Worker |-> IF w = detector THEN Worker \ {detector} ELSE {}]

Uneven == [w \in Worker |-> IF w = detector THEN 1 ELSE 0]
Even == [w \in Worker |-> 2]
=============================================================================

------------------------------ MODULE MCTimeline ------------------------------
(***************************************************************************)
(* From fixes to figures: the windows the detector recomputes under the    *)
(* owner's edits, and the reports made of what is stored.  One of the two  *)
(* is at work in each behaviour; they share no variable.                   *)
(***************************************************************************)
EXTENDS MCDetectorWindow, MCReportStream

VARIABLE part

\* While the windows are at work the account of the figures is an empty one
NoBooks == Books({}, {}, {}, <<>>)

MCInit ==
    /\ Init /\ FiguresInit
    /\ part \in {"windows", "figures"}
    /\ part = "windows" => books = NoBooks

MCNext ==
    \/ part = "windows" /\ Next /\ UNCHANGED <<part, figureVars>>
    \/ part = "figures" /\ FiguresNext /\ UNCHANGED <<part, vars>>

MCSpec == MCInit /\ [][MCNext]_<<part, vars, figureVars>>
=============================================================================

----------------------------- MODULE MCAdmission -----------------------------
(***************************************************************************)
(* Instances of Admission for TLC.  The lanes are slices of the table in   *)
(* AdmissionManager.__init__, with the connections and leases those lanes  *)
(* reserve, so that the bounds of the pools are as tight as in the source. *)
(***************************************************************************)
EXTENDS Admission, TLC

CONSTANTS o1, o2, o3, o4, a, b, c, d

Symmetry == Permutations(Op) \cup Permutations(Account)

\* Two lanes that share accounts and a control lane for nested borrows.
RequestLanes == {"navigation", "foreground", "identity"}
BrowserLanes == {"navigation", "foreground"}
RequestLimit == [l \in RequestLanes |-> 1]
RequestPending == [l \in RequestLanes |-> 1]

\* The smallest lane on which a wait can outlast its owner.
OneLane == {"foreground"}
OneLimit == [l \in OneLane |-> 1]
OnePending == [l \in OneLane |-> 2]
=============================================================================

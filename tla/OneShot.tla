------------------------------- MODULE OneShot -------------------------------
(***************************************************************************)
(* What a bearer secret promises, whatever it is for: it is created once,  *)
(* it is used at most once, and from the moment it is used, or cannot be   *)
(* used, it can never be used again.  Invitations, e-mailed challenges,    *)
(* password resets, provider attempts and re-authentication proofs of      *)
(* Odograph all promise this (docs/security.md, "single-use").             *)
(***************************************************************************)
CONSTANT Secret

VARIABLE life  \* [Secret -> "unborn", "open", "used" or "dead"]

After(now) ==
    CASE now = "unborn" -> {"unborn", "open"}
      [] now = "open" -> {"open", "used", "dead"}
      [] OTHER -> {now}

OneShotInit == life = [s \in Secret |-> "unborn"]

OneShotNext ==
    /\ life' \in [Secret -> {"unborn", "open", "used", "dead"}]
    /\ \A s \in Secret : life'[s] \in After(life[s])

OneShotSpec == OneShotInit /\ [][OneShotNext]_life
=============================================================================

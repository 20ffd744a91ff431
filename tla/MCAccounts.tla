----------------------------- MODULE MCAccounts -----------------------------
(***************************************************************************)
(* Instance for an account and what it owns.  A behaviour is about one     *)
(* part.  It has two secrets and no work in progress, or one secret and    *)
(* work (the two meet in the account's row alone, which both kinds of      *)
(* behaviour change in every way); or it is about the grants of apps,      *)
(* which know an account by its version alone; or, inside the account,     *)
(* about the records that clients create or about its vehicles.            *)
(***************************************************************************)
EXTENDS Accounts, Grants, Ledger, TLC

CONSTANTS a1, a2, s1, s2, e1, e2, e3, u1, b1, b2, h1, h2, q1, q2, k1, k2, g1, g2,
          i1, i2, i3, r1, r2, r3, r4, v1, v2, v3, c1, c2, x1, x2

(* A repeat, the same key for another body, and the key in the other table. *)
ClientAsks ==
    r1 :> [table |-> "trips", key |-> k1, body |-> x1] @@
    r2 :> [table |-> "trips", key |-> k1, body |-> x1] @@
    r3 :> [table |-> "trips", key |-> k1, body |-> x2] @@
    r4 :> [table |-> "expenses", key |-> k1, body |-> x1]

VARIABLE part

MCInit ==
    /\ part \in {"secrets", "work", "grants", "records", "vehicles"}
    /\ AccountsInit /\ GrantsInit /\ LedgerInit
    /\ part \notin {"secrets", "work"} => ~bootstrapped

AccountPart ==
    /\ \/ part = "secrets" /\ (UserNext \/ AdminNext)
       \/ part = "work" /\ AccountsNext /\ \E s \in Secret : sec'[s] = Unborn
    /\ UNCHANGED <<grantVars, ledgerVars>>

OwnedPart ==
    /\ \/ part = "grants" /\ GrantsNext /\ UNCHANGED ledgerVars
       \/ part = "records" /\ RequestNext /\ UNCHANGED grantVars
       \/ part = "vehicles" /\ VehicleNext /\ UNCHANGED grantVars
    /\ UNCHANGED accountVars

MCNext == (AccountPart \/ OwnedPart) /\ UNCHANGED part

(* Secrets, apps and browsers are interchangeable *)
Symmetry == Permutations(Secret) \cup Permutations(App) \cup Permutations(Browser)

MCSpec == MCInit /\ [][MCNext]_<<accountVars, grantVars, ledgerVars, part>>
=============================================================================

------------------------------ MODULE MCPortable ------------------------------
(***************************************************************************)
(* Instances of Portable for TLC: an account that holds a row of every     *)
(* table.  Its owner edits it before and during an export (books), its     *)
(* file is edited by hand (hands), or imported while the account that      *)
(* takes it has other writers (races).                                     *)
(***************************************************************************)
EXTENDS Portable

Furnished == [Fresh EXCEPT
    !.places = 4 :> [name |-> "Home", radius |-> "normal", at |-> "inside"],
    !.rules = @ @@ 3 :> [a |-> 4, akind |-> "none", b |-> Null, bkind |-> "none"],
    !.trips = 5 :> [source |-> "manual", span |-> "forward", distance |-> "normal", snapped |-> "none",
                    exclusion |-> "none", vehicle |-> 1, place |-> Null, label |-> "plain", note |-> "none",
                    route |-> FALSE, imported |-> FALSE],
    !.expenses = 6 :> [vehicle |-> 1, trip |-> 5, amount |-> "cents", note |-> "plain"],
    !.readings = 7 :> [vehicle |-> 1, at |-> 1, value |-> "normal", note |-> "none"]]

ByTheBook == upload'.bundle = <<>> \/ upload'.of # <<>>
Books == (files = {} /\ OwnerNext) \/ ExportNext
Hands == ExportNext \/ (ImportNext /\ imports' < 2)
Races == ExportNext \/ (files # {} /\ WriterNext) \/ (ImportNext /\ ByTheBook)
=============================================================================

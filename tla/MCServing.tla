------------------------------ MODULE MCServing ------------------------------
(***************************************************************************)
(* What an account asks for and keeps: the admission of the requests of    *)
(* two accounts, and the file an account exports and imports.  Admission,  *)
(* or one way to use the file, is at work in each behaviour.               *)
(***************************************************************************)
EXTENDS MCAdmission, MCPortable

VARIABLE part

MCInit == Init /\ PortableInit /\ part \in {"admission", "books", "hands", "races"}

MCNext ==
    \/ part = "admission" /\ Next /\ UNCHANGED <<part, portableVars>>
    \/ part = "books" /\ Books /\ UNCHANGED <<part, vars>>
    \/ part = "hands" /\ Hands /\ UNCHANGED <<part, vars>>
    \/ part = "races" /\ Races /\ UNCHANGED <<part, vars>>

MCSpec == MCInit /\ [][MCNext]_<<part, vars, portableVars>>
=============================================================================

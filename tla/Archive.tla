------------------------------- MODULE Archive -------------------------------
(***************************************************************************)
(* What the encrypted files promise the owner of the documents, with no    *)
(* processes, dongles or torn files: a name is given one ciphertext and    *)
(* keeps it, and only what a ciphertext holds is ever taken for safe.      *)
(***************************************************************************)
CONSTANTS Names, Ciphers, Empty

VARIABLES
    shelf,    \* the ciphertext under each name, or Empty
    tested    \* what was given back to the owner

archiveVars == <<shelf, tested>>

ArchiveInit == shelf = [n \in Names |-> Empty] /\ tested = {}

Seal ==
    /\ \E n \in Names, c \in Ciphers :
         shelf[n] = Empty /\ shelf' = [shelf EXCEPT ![n] = c]
    /\ UNCHANGED tested

Confirm ==
    /\ \E n \in Names : shelf[n] \in Ciphers /\ tested' = tested \cup {shelf[n].holds}
    /\ UNCHANGED shelf

ArchiveNext == Seal \/ Confirm

ArchiveSpec == ArchiveInit /\ [][ArchiveNext]_archiveVars
=============================================================================

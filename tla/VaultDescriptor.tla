--------------------------- MODULE VaultDescriptor ---------------------------
(***************************************************************************)
(* The vault descriptor (vault_config.py): the file that binds a vault to  *)
(* one dongle and one password, created once, and read at every unlock.    *)
(* Several processes may create and unlock at the same time, and a process *)
(* may die at any point.  Cryptography is abstracted to what it is made    *)
(* of: a secret is the record of its inputs.                               *)
(***************************************************************************)
CONSTANTS
    Procs,      \* host processes
    Dongles,    \* private keys of the dongles
    Passwords,  \* passwords, after normalisation
    Strong,     \* those long enough for a new vault
    Peers,      \* ephemeral keys with their salts, each drawn once
    None,
    Absent,     \* the descriptor file is not there
    Torn        \* the file is there and cannot be parsed

ASSUME VaultAssumption ==
    /\ Strong \subseteq Passwords
    /\ Absent # Torn
    /\ None \notin Passwords \cup Dongles \cup Peers

VARIABLES
    file,      \* the descriptor file: Absent, Torn or a descriptor
    pc,        \* where each process is
    dongle,    \* the dongle behind each process's serial session
    password,  \* the password each process was given
    desc,      \* the descriptor each process has built or read
    used,      \* history: peers drawn so far
    opened,    \* history: the credentials vaults were mounted with
    revoked,   \* history: those of whole descriptors taken back again
    crashed    \* history: some process died while creating

procVars == <<pc, dongle, password, desc>>
histVars == <<used, opened, revoked, crashed>>
vars     == <<file, procVars, histVars>>

(* derive_key and _combine_factors; a version 1 vault has no password.     *)
Secret(d, peer, pw) == [dongle |-> d, peer |-> peer, password |-> pw]

(* A descriptor holds the dongle's fingerprint, the peer key and, from     *)
(* version 2 on, the verification tag of the combined secret.              *)
Descriptor(version, d, peer, pw) ==
    [version |-> version, dongle |-> d, peer |-> peer,
     tag |-> IF version = 1 THEN None ELSE Secret(d, peer, pw)]

Secrets     == {Secret(d, e, w) : d \in Dongles, e \in Peers, w \in Passwords \cup {None}}
Descriptors == {Descriptor(1, d, e, None) : d \in Dongles, e \in Peers}
          \cup {Descriptor(2, d, e, w) : d \in Dongles, e \in Peers, w \in Passwords}

ASSUME FileAssumption ==
    Absent \notin Descriptors /\ Torn \notin Descriptors /\ None \notin Secrets

(* The credentials a descriptor leads to.                                  *)
CredentialOf(D) == IF D.version = 1 THEN Secret(D.dongle, D.peer, None) ELSE D.tag

Creating == {"check", "derive", "create", "write", "flushed"}
Opening  == {"load", "match", "verify"}

VaultTypeOK ==
    /\ file \in {Absent, Torn} \cup Descriptors
    /\ pc \in [Procs -> {"idle", "created", "opened"} \cup Creating \cup Opening]
    /\ dongle \in [Procs -> Dongles \cup {None}]
    /\ password \in [Procs -> Passwords \cup {None}]
    /\ desc \in [Procs -> Descriptors \cup {None}]
    /\ used \subseteq Peers
    /\ opened \subseteq Secrets
    /\ revoked \subseteq Secrets
    /\ crashed \in BOOLEAN

(* A vault made by an earlier release may be there.                        *)
Init ==
    /\ \/ file = Absent /\ used = {}
       \/ \E d \in Dongles, e \in Peers :
            file = Descriptor(1, d, e, None) /\ used = {e}
    /\ pc = [p \in Procs |-> "idle"]
    /\ dongle = [p \in Procs |-> None]
    /\ password = [p \in Procs |-> None]
    /\ desc = [p \in Procs |-> None]
    /\ opened = {} /\ revoked = {} /\ crashed = FALSE

Goes(p, from, to) == pc[p] = from /\ pc' = [pc EXCEPT ![p] = to]

-----------------------------------------------------------------------------
(* create_vault_descriptor.                                                *)

StartCreate(p) ==
    /\ pc[p] \in {"idle", "created", "opened"}
    /\ pc' = [pc EXCEPT ![p] = "check"]
    /\ \E d \in Dongles, w \in Strong :
         /\ dongle' = [dongle EXCEPT ![p] = d]
         /\ password' = [password EXCEPT ![p] = w]
    /\ UNCHANGED <<file, desc, histVars>>

FileExists(p) ==
    /\ file # Absent
    /\ Goes(p, "check", "idle") \/ Goes(p, "create", "idle")
    /\ UNCHANGED <<file, dongle, password, desc, histVars>>

CheckAbsent(p) ==
    /\ file = Absent /\ Goes(p, "check", "derive")
    /\ UNCHANGED <<file, dongle, password, desc, histVars>>

(* public_key and derive_key of one session, with fresh random values.     *)
BuildDescriptor(p) ==
    /\ Goes(p, "derive", "create")
    /\ \E e \in Peers \ used :
         /\ used' = used \cup {e}
         /\ desc' = [desc EXCEPT ![p] = Descriptor(2, dongle[p], e, password[p])]
    /\ UNCHANGED <<file, dongle, password, opened, revoked, crashed>>

(* CreateFile, had O_EXCL been left out.                                   *)
CreateFileOver(p) ==
    /\ file' = Torn
    /\ Goes(p, "create", "write")
    /\ UNCHANGED <<dongle, password, desc, histVars>>

(* os.open with O_CREAT and O_EXCL.                                        *)
CreateFile(p) ==
    /\ file = Absent /\ file' = Torn
    /\ Goes(p, "create", "write")
    /\ UNCHANGED <<dongle, password, desc, histVars>>

(* The text reaches the file when the `with` block closes it.              *)
WriteFile(p) ==
    /\ Goes(p, "write", "flushed")
    /\ file' = desc[p]
    /\ UNCHANGED <<dongle, password, desc, histVars>>

LeaveTry(p) ==
    /\ Goes(p, "flushed", "created")
    /\ UNCHANGED <<file, dongle, password, desc, histVars>>

(* WriteFails, had the file not been unlinked.                             *)
WriteFailsLeaves(p) ==
    /\ Goes(p, "write", "idle") \/ Goes(p, "flushed", "idle")
    /\ UNCHANGED <<file, dongle, password, desc, histVars>>

(* An error or a signal in the `try` unlinks the file, be it torn or, as   *)
(* the file is closed inside the `try`, already whole.                     *)
WriteFails(p) ==
    /\ Goes(p, "write", "idle") \/ Goes(p, "flushed", "idle")
    /\ file' = Absent
    /\ revoked' = IF file = Torn THEN revoked ELSE revoked \cup {CredentialOf(file)}
    /\ UNCHANGED <<dongle, password, desc, used, opened, crashed>>

-----------------------------------------------------------------------------
(* load_vault_descriptor and derive_vault_credentials.                     *)

StartOpen(p) ==
    /\ pc[p] \in {"idle", "created", "opened"}
    /\ pc' = [pc EXCEPT ![p] = "load"]
    /\ \E d \in Dongles, w \in Passwords \cup {None} :
         /\ dongle' = [dongle EXCEPT ![p] = d]
         /\ password' = [password EXCEPT ![p] = w]
    /\ UNCHANGED <<file, desc, histVars>>

(* Load, had the content not been validated.                               *)
LoadAnything(p) ==
    /\ file # Absent /\ Goes(p, "load", "match")
    /\ desc' = [desc EXCEPT ![p] = file]
    /\ UNCHANGED <<file, dongle, password, histVars>>

Load(p) ==
    /\ file \in Descriptors /\ Goes(p, "load", "match")
    /\ desc' = [desc EXCEPT ![p] = file]
    /\ UNCHANGED <<file, dongle, password, histVars>>

LoadFails(p) ==
    /\ file \in {Absent, Torn} /\ Goes(p, "load", "idle")
    /\ UNCHANGED <<file, dongle, password, desc, histVars>>

MatchDongle(p) ==
    /\ Goes(p, "match", IF desc[p].dongle = dongle[p] THEN "verify" ELSE "idle")
    /\ UNCHANGED <<file, dongle, password, desc, histVars>>

(* The secret that the dongle and, in version 2, the password give.        *)
Combined(p) ==
    Secret(dongle[p], desc[p].peer, IF desc[p].version = 1 THEN None ELSE password[p])

(* Verified, had the tag not been compared.                                *)
VerifiedUntagged(p) == desc[p].version = 2 => password[p] # None

Verified(p) ==
    desc[p].version = 2 => password[p] # None /\ Combined(p) = desc[p].tag

Open(p) ==
    /\ Goes(p, "verify", "opened") /\ Verified(p)
    /\ opened' = opened \cup {Combined(p)}
    /\ UNCHANGED <<file, dongle, password, desc, used, revoked, crashed>>

Refuse(p) ==
    /\ Goes(p, "verify", "idle") /\ ~Verified(p)
    /\ UNCHANGED <<file, dongle, password, desc, histVars>>

-----------------------------------------------------------------------------
(* The device fails, the user gives up, or the process dies.               *)

Abandon(p) ==
    /\ pc[p] \in {"derive", "match", "verify"}
    /\ pc' = [pc EXCEPT ![p] = "idle"]
    /\ UNCHANGED <<file, dongle, password, desc, histVars>>

Crash(p) ==
    /\ pc[p] \in {"write", "flushed"}
    /\ pc' = [pc EXCEPT ![p] = "idle"]
    /\ crashed' = TRUE
    /\ UNCHANGED <<file, dongle, password, desc, used, opened, revoked>>

-----------------------------------------------------------------------------
Create(p) == \/ StartCreate(p) \/ FileExists(p) \/ CheckAbsent(p) \/ BuildDescriptor(p)
             \/ CreateFile(p) \/ WriteFile(p) \/ LeaveTry(p) \/ WriteFails(p)
Unlock(p) == \/ StartOpen(p) \/ Load(p) \/ LoadFails(p) \/ MatchDongle(p)
             \/ Open(p) \/ Refuse(p)

Next == \E p \in Procs : Create(p) \/ Unlock(p) \/ Abandon(p) \/ Crash(p)

Spec == Init /\ [][Next]_vars

-----------------------------------------------------------------------------
(* Whatever processes unlock or try to create the vault, in any order, all *)
(* of them mount it with the same credentials: data written through one    *)
(* mount is readable through every other (derive_vault_credentials,        *)
(* O_EXCL in create_vault_descriptor).  Excepted are credentials of a      *)
(* descriptor that its failing creator took back after others could load   *)
(* it.                                                                     *)
OneCredential == \A s, t \in opened \ revoked : s = t

(* A process that reported the vault as created is the one whose           *)
(* descriptor is on disk, and it stays there.                              *)
CreatedIsStored == \A p \in Procs : pc[p] = "created" => file = desc[p]

(* A descriptor file that cannot be read is one that is just being         *)
(* written, or is left by a process that died: a failed write cleans up.   *)
TornOnlyByCrash == file = Torn => crashed \/ \E p \in Procs : pc[p] = "write"

(* Creating and unlocking, by any processes, do what module WriteOnce says *)
(* in one step each: once its creator is done or dead, a vault that can be *)
(* read is never bound to another secret, not even between two mounts (the *)
(* O_EXCL of create_vault_descriptor, the tag derive_vault_credentials     *)
(* compares).                                                              *)
Settled == file \in Descriptors /\ \A p \in Procs : pc[p] # "flushed"

Once == INSTANCE WriteOnce WITH
    Credentials <- Secrets, Unbound <- None, mounted <- opened,
    binding <- IF file \in Descriptors THEN CredentialOf(file) ELSE None,
    settled <- Settled
ImplementsWriteOnce == Once!OnceSpec
=============================================================================

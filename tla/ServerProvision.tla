--------------------------- MODULE ServerProvision ---------------------------
(***************************************************************************)
(* provision_server and verify_sftp (setup_wizard.py): the key pair of     *)
(* this computer, and what REMOTE_SETUP_SCRIPT does to the server.  The    *)
(* script stops at the first command that fails (set -e).                  *)
(***************************************************************************)
VARIABLES
    identity,    \* the key pair on this computer
    authorized,  \* whose key /etc/ssh/authorized_keys/poo holds
    dropIn,      \* poo-sftp.conf on disk: accepted by sshd -t, or not
    sshd,        \* what sshd runs with; "open" is without the whole drop-in
    script,      \* the temporary script on the server
    cutOff       \* history: a call that makes or removes it was cut off

serverVars == <<identity, authorized, dropIn, sshd, script, cutOff>>

ServerTypeOK ==
    /\ identity \in {"none", "half", "whole"}
    /\ authorized \in {"none", "other", "mine"}
    /\ dropIn \in {"none", "partial", "rejected", "accepted"}
    /\ sshd \in {"open", "restricted", "dead"}
    /\ script \in {"none", "there"}
    /\ cutOff \in BOOLEAN

(* An earlier setup may have ended anywhere, or have used another key.     *)
ServerInit ==
    /\ ServerTypeOK /\ script = "none" /\ cutOff = FALSE /\ sshd # "dead"
    /\ authorized = "mine" => identity # "none"
    /\ sshd = "restricted" => dropIn # "none"

CanLogIn == identity # "none" /\ authorized = "mine" /\ sshd = "restricted"

-----------------------------------------------------------------------------
(* A new pair is not the one whose key the server may have.                *)
NewPair ==
    /\ identity' = "whole"
    /\ authorized' = IF authorized = "mine" THEN "other" ELSE authorized
    /\ UNCHANGED <<dropIn, sshd, script, cutOff>>

(* EnsureIdentity, had the existing pair not been looked at.               *)
EnsureNewIdentity == NewPair

EnsureIdentity ==
    \/ identity = "whole" /\ UNCHANGED serverVars
    \/ identity # "whole" /\ NewPair

CreateScript ==
    /\ sshd # "dead" /\ script' = "there"
    /\ UNCHANGED <<identity, authorized, dropIn, sshd, cutOff>>

CreateCutOff ==
    /\ script' = "there" /\ cutOff' = TRUE
    /\ UNCHANGED <<identity, authorized, dropIn, sshd>>

UploadScript == sshd # "dead" /\ UNCHANGED serverVars

(* The account, its directories and its key: the script up to the drop-in. *)
Authorize ==
    /\ sshd # "dead" /\ authorized' = "mine"
    /\ UNCHANGED <<identity, dropIn, sshd, script, cutOff>>

(* The shell empties authorized_keys/poo before printf fills it.           *)
KeyEmptied ==
    authorized' = "other" /\ UNCHANGED <<identity, dropIn, sshd, script, cutOff>>

(* sshd may reject the file together with the server's other settings.     *)
Restrict ==
    /\ sshd # "dead" /\ dropIn' \in {"rejected", "accepted"}
    /\ UNCHANGED <<identity, authorized, sshd, script, cutOff>>

(* So does `cat >` with poo-sftp.conf: what is there when it is cut off is *)
(* a file that sshd accepts, without the restriction, or one it rejects.   *)
DropInCutOff ==
    /\ dropIn' \in {"partial", "rejected"}
    /\ UNCHANGED <<identity, authorized, sshd, script, cutOff>>

(* TestAndReload, had sshd -t been left out.                               *)
ReloadUntested ==
    /\ sshd # "dead"
    /\ sshd' = IF dropIn = "accepted" THEN "restricted" ELSE "dead"
    /\ UNCHANGED <<identity, authorized, dropIn, script, cutOff>>

TestAndReload ==
    /\ sshd # "dead" /\ dropIn = "accepted" /\ sshd' = "restricted"
    /\ UNCHANGED <<identity, authorized, dropIn, script, cutOff>>

RemoveScript ==
    /\ sshd # "dead" /\ script' = "none"
    /\ UNCHANGED <<identity, authorized, dropIn, sshd, cutOff>>

(* An ssh call is cut off, or this computer stops, and the file stays.     *)
LeaveScript == cutOff' = TRUE /\ UNCHANGED <<identity, authorized, dropIn, sshd, script>>

VerifySftp == CanLogIn /\ UNCHANGED serverVars

(* The server restarts sshd (unattended-upgrades, a reboot): sshd reads    *)
(* what is on disk, and does not start with a file it rejects.             *)
SshdRestarts ==
    /\ sshd' = CASE dropIn = "rejected" -> "dead"
                 [] dropIn = "accepted" -> "restricted"
                 [] dropIn \in {"none", "partial"} -> "open"
    /\ UNCHANGED <<identity, authorized, dropIn, script, cutOff>>
=============================================================================

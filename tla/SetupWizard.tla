----------------------------- MODULE SetupWizard -----------------------------
(***************************************************************************)
(* poo setup (setup_wizard.py): the guided setup stops the connection      *)
(* watcher of an earlier setup, prepares the server and the vault, writes  *)
(* the watcher's configuration and its launchd property list, and starts   *)
(* the watcher.  launchd restarts a watcher that ends, and the dongle can  *)
(* be unplugged or exchanged whenever the wizard waits.  "poo              *)
(* automount-install" (cli.py) takes the last steps only.                  *)
(***************************************************************************)
EXTENDS ServerProvision

CONSTANTS
    Dongles,   \* dongles at hand
    None,      \* no dongle, no descriptor, no configuration
    Refusals   \* whether launchctl may refuse what it is asked for

ASSUME SetupAssumption == None \notin Dongles \cup {"old", "new"} /\ Refusals \in BOOLEAN

VARIABLES
    pc,         \* where the wizard is
    plugged,    \* the dongle that is plugged in
    checked,    \* the dongle whose fingerprint the wizard has read
    desc,       \* the dongle that vault.json is bound to
    conf,       \* automount.json: of an earlier setup, or of this one
    plist,      \* whether the property list exists
    loaded,     \* whether launchd runs the watcher
    runs,       \* the configuration the watcher has read
    previous,   \* previous_agent: the wizard stopped a watcher
    mounted     \* whether the mount point is one (os.path.ismount)

service    == <<conf, plist, loaded, runs>>
wizardVars == <<pc, checked, previous>>
vars       == <<wizardVars, plugged, desc, service, mounted, serverVars>>

Confs == {"old", "new"}
Try   == {"upload", "authorize", "restrict", "reload"}  \* under the finally
Steps == Try \cup {"check", "server", "create", "verify", "vault", "bind",
                   "config", "plist", "unplug", "bootout", "bootstrap", "reconnect",
                   "mount"}
Ends  == {"complete", "failed", "unrestored"}

SetupTypeOK ==
    /\ pc \in {"stop", "remove", "abandon", "restore"} \cup Steps \cup Ends
    /\ ServerTypeOK
    /\ plugged \in Dongles \cup {None}
    /\ checked \in Dongles \cup {None} /\ desc \in Dongles \cup {None}
    /\ conf \in Confs \cup {None}
    /\ runs \in Confs \cup {None}
    /\ plist \in BOOLEAN /\ loaded \in BOOLEAN
    /\ pc \in {"unplug", "bootout", "bootstrap"} => plist
    /\ previous \in BOOLEAN /\ mounted \in BOOLEAN

(* An earlier setup may have been completed, or have ended at any step.    *)
(* automount-install starts at "config", and only with a descriptor.       *)
Init ==
    /\ ServerInit
    /\ checked = None /\ previous = FALSE /\ mounted = FALSE
    /\ plugged \in Dongles \cup {None} /\ desc \in Dongles \cup {None}
    /\ pc = "stop" \/ (pc = "config" /\ desc # None)
    /\ conf \in {"old", None} /\ (conf = "old" => desc # None)
    /\ plist \in BOOLEAN /\ (plist => conf = "old")
    /\ loaded \in BOOLEAN /\ (loaded => plist)
    /\ runs = IF loaded THEN conf ELSE None

Goes(from, to) == pc = from /\ pc' = to

(* automount-install does not look at the dongle, and waits for nothing.   *)
Guided == checked # None

-----------------------------------------------------------------------------
(* A mount whose rclone is gone may stay behind, dead.                     *)
MayUnmount == mounted' \in BOOLEAN /\ (mounted' => mounted)

(* launchctl bootout; whether it works is not looked at.                   *)
Unload ==
    \/ loaded' = FALSE /\ runs' = None /\ MayUnmount
    \/ Refusals /\ UNCHANGED <<loaded, runs, mounted>>

(* _stop_existing_agent looks at the property list only.                   *)
StopExistingAgent ==
    /\ Goes("stop", "check")
    /\ previous' = plist /\ Unload
    /\ UNCHANGED <<checked, plugged, desc, conf, plist, serverVars>>

(* Ctrl-C while launchctl runs: the handler that restores is not yet there. *)
StopInterrupted ==
    /\ plist /\ Goes("stop", "unrestored")
    /\ Unload
    /\ UNCHANGED <<checked, previous, plugged, desc, conf, plist, serverVars>>

CheckDongle ==
    /\ Goes("check", "server") /\ plugged # None
    /\ checked' = plugged
    /\ UNCHANGED <<previous, plugged, desc, service, mounted, serverVars>>

(* ensure_server_identity, and provision_server up to its finally.         *)
PrepareServer ==
    /\ \/ Goes("server", "create")       /\ EnsureIdentity
       \/ Goes("create", "upload")       /\ CreateScript
       \/ Goes("upload", "authorize")    /\ UploadScript
       \/ Goes("authorize", "restrict")  /\ Authorize
       \/ Goes("restrict", "reload")     /\ Restrict
       \/ Goes("reload", "remove")       /\ TestAndReload
    /\ UNCHANGED <<checked, previous, plugged, desc, service, mounted>>

AfterFailure == IF previous THEN "restore" ELSE "failed"

(* Whether rm worked is not looked at; Ctrl-C may cut it off.              *)
Finally ==
    /\ \/ pc = "remove" /\ pc' \in {"verify", AfterFailure}
       \/ pc = "abandon" /\ pc' = AfterFailure
    /\ RemoveScript \/ LeaveScript
    /\ UNCHANGED <<checked, previous, plugged, desc, service, mounted>>

Verify ==
    /\ Goes("verify", "vault") /\ VerifySftp
    /\ UNCHANGED <<checked, previous, plugged, desc, service, mounted>>

ReuseDescriptor ==
    /\ Goes("vault", "config") /\ desc # None /\ desc = checked
    /\ UNCHANGED <<checked, previous, plugged, desc, service, mounted, serverVars>>

(* AskPassword, had the session that binds the vault been forgotten.       *)
SkipBinding ==
    /\ Goes("vault", "config") /\ desc = None
    /\ UNCHANGED <<checked, previous, plugged, desc, service, mounted, serverVars>>

AskPassword ==
    /\ Goes("vault", "bind") /\ desc = None
    /\ UNCHANGED <<checked, previous, plugged, desc, service, mounted, serverVars>>

(* A second session, with whatever answers at the same port by then.       *)
BindVault ==
    /\ Goes("bind", "config") /\ plugged # None
    /\ desc' = plugged
    /\ UNCHANGED <<checked, previous, plugged, service, mounted, serverVars>>

(* SaveConfig, had an existing configuration been kept.                    *)
SaveConfigNot ==
    /\ Goes("config", "plist")
    /\ UNCHANGED <<checked, previous, plugged, desc, service, mounted, serverVars>>

(* install_launch_agent: the configuration first, then the property list.  *)
SaveConfig ==
    /\ Goes("config", "plist")
    /\ conf' = "new"
    /\ UNCHANGED <<checked, previous, plugged, desc, plist, loaded, runs, mounted, serverVars>>

(* WritePlist, had the temporary file not been renamed.                    *)
WritePlistNot ==
    /\ Goes("plist", IF Guided THEN "unplug" ELSE "bootout")
    /\ UNCHANGED <<checked, previous, plugged, desc, service, mounted, serverVars>>

WritePlist ==
    /\ Goes("plist", IF Guided THEN "unplug" ELSE "bootout")
    /\ plist' = TRUE
    /\ UNCHANGED <<checked, previous, plugged, desc, conf, loaded, runs, mounted, serverVars>>

DongleGone ==
    /\ Goes("unplug", "bootout") /\ plugged = None
    /\ UNCHANGED <<checked, previous, plugged, desc, service, mounted, serverVars>>

(* activate_launch_agent; a watcher reads its configuration as it starts,  *)
(* and one that is still loaded cannot be started again.                   *)
Bootout ==
    /\ Goes("bootout", "bootstrap")
    /\ Unload
    /\ UNCHANGED <<checked, previous, plugged, desc, conf, plist, serverVars>>

Bootstrap ==
    /\ Goes("bootstrap", IF Guided THEN "reconnect" ELSE "complete")
    /\ ~loaded /\ loaded' = TRUE /\ runs' = conf
    /\ UNCHANGED <<checked, previous, plugged, desc, conf, plist, mounted, serverVars>>

DongleBack ==
    /\ Goes("reconnect", "mount") /\ plugged # None
    /\ UNCHANGED <<checked, previous, plugged, desc, service, mounted, serverVars>>

Complete ==
    /\ Goes("mount", "complete") /\ mounted
    /\ UNCHANGED <<checked, previous, plugged, desc, service, mounted, serverVars>>

-----------------------------------------------------------------------------
(* run_setup_wizard: a step fails, the user presses Ctrl-C, or the vault   *)
(* is not mounted within 180 s.                                            *)

(* Fail, had only the setup's own errors been caught.                      *)
FailUnrestored ==
    /\ pc \in Steps \ Try /\ pc' = "failed"
    /\ UNCHANGED serverVars
    /\ UNCHANGED <<checked, previous, plugged, desc, service, mounted>>

Fail ==
    /\ pc \in Steps \ Try /\ pc' = AfterFailure
    /\ UNCHANGED serverVars \/ (pc = "create" /\ CreateCutOff)
    /\ UNCHANGED <<checked, previous, plugged, desc, service, mounted>>

(* FailOnServer, had the removal not been in a finally.                    *)
FailAtOnce ==
    /\ pc \in Try /\ pc' = AfterFailure
    /\ UNCHANGED serverVars
    /\ UNCHANGED <<checked, previous, plugged, desc, service, mounted>>

FailOnServer ==
    /\ pc \in Try /\ pc' = "abandon"
    /\ \/ UNCHANGED serverVars
       \/ pc = "authorize" /\ KeyEmptied
       \/ pc = "restrict" /\ DropInCutOff
    /\ UNCHANGED <<checked, previous, plugged, desc, service, mounted>>

Restore ==
    /\ Goes("restore", "failed")
    /\ loaded' = TRUE /\ runs' = conf /\ MayUnmount
    /\ UNCHANGED <<checked, previous, plugged, desc, conf, plist, serverVars>>

RestoreRefused ==
    /\ Refusals /\ Goes("restore", "unrestored")
    /\ Unload
    /\ UNCHANGED <<checked, previous, plugged, desc, conf, plist, serverVars>>

(* The wizard is killed, and no handler runs.                              *)
Killed ==
    /\ pc \in {"stop", "remove", "abandon", "restore"} \cup Steps /\ pc' = "unrestored"
    /\ LeaveScript
    /\ UNCHANGED <<checked, previous, plugged, desc, service, mounted>>

-----------------------------------------------------------------------------
(* launchd, the watcher and the owner.                                     *)

(* The watcher ends, and launchd (KeepAlive) starts it again.              *)
Restart ==
    /\ loaded /\ runs' = conf /\ MayUnmount
    /\ UNCHANGED <<wizardVars, plugged, desc, conf, plist, loaded, serverVars>>

Mount ==
    /\ loaded /\ plugged # None /\ plugged = desc /\ mounted' = TRUE
    /\ UNCHANGED <<wizardVars, plugged, desc, service, serverVars>>

Unplug ==
    /\ plugged # None /\ plugged' = None /\ MayUnmount
    /\ UNCHANGED <<wizardVars, desc, service, serverVars>>

PlugIn ==
    /\ plugged = None /\ plugged' \in Dongles
    /\ UNCHANGED <<wizardVars, desc, service, mounted, serverVars>>

-----------------------------------------------------------------------------
Wizard == \/ StopExistingAgent \/ CheckDongle \/ ReuseDescriptor \/ AskPassword
          \/ BindVault \/ SaveConfig \/ WritePlist \/ DongleGone \/ Bootout
          \/ Bootstrap \/ DongleBack \/ Complete \/ StopInterrupted \/ Restore
          \/ RestoreRefused

Outside == Restart \/ Mount \/ Unplug \/ PlugIn

Provision == PrepareServer \/ Finally \/ Verify

SshdStarts == SshdRestarts /\ UNCHANGED <<wizardVars, plugged, desc, service, mounted>>

Next == \/ Wizard \/ Outside \/ Provision \/ Fail \/ FailOnServer \/ Killed
        \/ SshdStarts

Spec == Init /\ [][Next]_vars

-----------------------------------------------------------------------------
(* "If setup fails, an existing automatic-mount service is restored        *)
(* instead of being left disabled" (README.md): wherever it fails once     *)
(* run_setup_wizard knows of the service, unless launchctl refuses it.     *)
ServiceRestored == pc = "failed" /\ previous => loaded

(* The watcher is never started before the descriptor it reads at every    *)
(* unlock is there, wherever this setup and an earlier one ended.          *)
WatcherHasVault == loaded => conf # None /\ desc # None

(* "Setup complete" is only said of a watcher that runs with the           *)
(* configuration of this setup: an earlier one that could not be stopped   *)
(* does not stand in for it (activate_launch_agent).                       *)
CompleteIsNew == pc = "complete" => loaded /\ runs = "new"

(* The service that is restored is the existing one: it mounts what it     *)
(* mounted before the setup that failed.                                   *)
RestoredIsExisting == pc = "failed" /\ previous => runs = "old"

(* The finally of provision_server: once it is over, the script is only    *)
(* still on the server when the ssh call that makes it or the one that     *)
(* removes it was cut off, or the wizard was killed.                       *)
ScriptRemoved == script = "there" => cutOff \/ pc \in Try \cup {"remove", "abandon"}

(* "It validates the SSH configuration before reloading" (README.md): no   *)
(* step of the setup stops sshd, which would lock the administrator out,   *)
(* whatever else is in the server's configuration.                         *)
SshdSurvives == [][sshd' = "dead" => sshd = "dead" \/ pc' = pc]_vars

(* A watcher that is restored must still reach its vault: a setup that     *)
(* fails takes the login away from a complete key pair in these ways only: *)
(* it is cut off while it rewrites the key file, or has been cut off while *)
(* it rewrote the drop-in when sshd next starts, or sshd does not start.   *)
LoginKept ==
    [][CanLogIn /\ identity = "whole" =>
          CanLogIn' \/ pc = "authorize" \/ dropIn = "partial" \/ sshd' = "dead"]_vars
=============================================================================

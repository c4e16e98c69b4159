------------------------------ MODULE AutoMount ------------------------------
(***************************************************************************)
(* The macOS connection watcher (automount.py): run_automount_loop looks   *)
(* for a dongle once a second, and unlock_and_mount takes the user through *)
(* the dialogs, unlocks the vault and runs the encrypted mount, which      *)
(* module EncryptedMount models.  The loop is one thread: while a dialog   *)
(* is on the screen or the mount runs, it does not look at the bus.  The   *)
(* watcher may die at any step (an OSError no handler catches, a signal):  *)
(* launchd then ends the rclone it leaves and starts it anew.              *)
(***************************************************************************)
EXTENDS EncryptedMount, FiniteSetsExt

CONSTANT MaxDeaths    \* bound: how often the watcher dies

ASSUME AutoMountAssumption ==
    /\ Ports \subseteq Nat
    /\ \A S \in SUBSET Ports : S # {} => \E p \in S : \A q \in S : p =< q
    /\ NoPort \notin Nat
    /\ MaxDeaths \in Nat

VARIABLES
    pc,         \* where the loop's control is
    handled,    \* handled_port
    port,       \* the port being handled
    attended,   \* history: dongles the loop has reacted to since plugged in
    canceled,   \* history: dongles whose dialogs the user has canceled
    unnoticed,  \* history: removals the loop has not seen
    hasty,      \* history: dongles that came back before it had
    intact,     \* configuration, known_hosts, SSH key and descriptor are there
    orphan,     \* the rclone each death has left, by what it has mounted
    deaths      \* number of times the watcher has died

looked      == <<unnoticed, hasty>>
historyVars == <<attended, canceled, looked>>
loopVars    == <<pc, handled, port>>
hostVars    == <<intact, orphan, deaths>>
autoVars    == <<loopVars, historyVars, hostVars, emVars>>

Dialogs == {"busy", "password", "confirm", "message"}

AutoTypeOK ==
    /\ MountTypeOK
    /\ pc \in {"scan", "owners", "unlock", "mounting", "dead"} \cup Dialogs
    /\ handled \in Ports \cup {NoPort}
    /\ port \in Ports \cup {NoPort}
    /\ pc \notin {"scan", "dead"} => handled = port /\ port \in Ports
    /\ attended \subseteq bus
    /\ canceled \subseteq bus
    /\ unnoticed \subseteq Ports \ bus
    /\ hasty \subseteq bus
    /\ intact \in BOOLEAN
    /\ orphan \in [1 .. MaxDeaths -> {"none", "starting", "serving"}]
    /\ deaths \in 0 .. MaxDeaths

AutoInit ==
    /\ MountInit
    /\ pc = "scan" /\ handled = NoPort /\ port = NoPort
    /\ attended = {} /\ canceled = {} /\ unnoticed = {} /\ hasty = {}
    /\ intact = TRUE /\ deaths = 0
    /\ orphan = [i \in 1 .. MaxDeaths |-> "none"]

-----------------------------------------------------------------------------
(* One turn of the loop.  A turn that finds the handled port again only    *)
(* sleeps.                                                                 *)

(* find_esp_port: the first listed port with Espressif's vendor id.        *)
FirstPort == Min(bus)

(* FindsNone, had handled_port not been reset.                             *)
FindsNoneKeeps ==
    /\ pc = "scan" /\ bus = {}
    /\ unnoticed' = {}
    /\ UNCHANGED <<loopVars, attended, canceled, hasty, hostVars, emVars>>

FindsNone ==
    /\ pc = "scan" /\ bus = {}
    /\ handled' = NoPort /\ unnoticed' = {}
    /\ UNCHANGED <<pc, port, attended, canceled, hasty, hostVars, emVars>>

(* FindsDongle, had handled_port not been set.                             *)
FindsDongleForgets ==
    /\ pc = "scan" /\ bus # {} /\ FirstPort # handled
    /\ port' = FirstPort /\ pc' = "owners" /\ unnoticed' = {}
    /\ canceled' = canceled \cap {FirstPort}
    /\ UNCHANGED <<handled, attended, hasty, hostVars, emVars>>

(* handled_port remembers one port: the loop forgets that the dialogs of   *)
(* another one were canceled.                                              *)
FindsDongle ==
    /\ pc = "scan" /\ bus # {} /\ FirstPort # handled
    /\ handled' = FirstPort /\ port' = FirstPort
    /\ pc' = "owners" /\ unnoticed' = {}
    /\ canceled' = canceled \cap {FirstPort}
    /\ UNCHANGED <<attended, hasty, hostVars, emVars>>

(* A dialog for the dongle at `port` comes up.                             *)
Shows(dialog) ==
    /\ pc' = dialog
    /\ attended' = attended \cup ({port} \cap bus)

PortIsBusy ==
    /\ pc = "owners" /\ Shows("busy")
    /\ UNCHANGED <<handled, port, canceled, looked, hostVars, emVars>>

PortIsFree ==
    /\ pc = "owners" /\ Shows("password")
    /\ UNCHANGED <<handled, port, canceled, looked, hostVars, emVars>>

BusyDismissed ==
    /\ pc = "busy" /\ pc' = "scan"
    /\ UNCHANGED <<handled, port, historyVars, hostVars, emVars>>

(* "A canceled password/BOOT dialog keeps the port handled."               *)
Cancel ==
    /\ pc \in {"password", "confirm"} /\ pc' = "scan"
    /\ canceled' = canceled \cup ({port} \cap bus)
    /\ UNCHANGED <<handled, port, attended, looked, hostVars, emVars>>

PasswordGiven ==
    /\ pc = "password" /\ pc' = "confirm"
    /\ UNCHANGED <<handled, port, historyVars, hostVars, emVars>>

BootAgreed ==
    /\ pc = "confirm" /\ pc' = "unlock"
    /\ UNCHANGED <<handled, port, historyVars, hostVars, emVars>>

UnlockFails ==
    /\ pc = "unlock" /\ pc' = "message"
    /\ UNCHANGED <<handled, port, historyVars, hostVars, emVars>>

UnlockSucceeds ==
    /\ pc = "unlock" /\ port \in bus /\ intact
    /\ pc' = "mounting" /\ Launch(port)
    /\ UNCHANGED <<handled, port, historyVars, hostVars, bus>>

MountReturns ==
    /\ pc = "mounting" /\ mpc = "idle"
    /\ pc' = IF result \in {"exit_ok", "disconnected"} THEN "scan" ELSE "message"
    /\ UNCHANGED <<handled, port, historyVars, hostVars, emVars>>

(* After an error the port counts as new: "permit a deliberate retry".     *)
MessageDismissed ==
    /\ pc = "message" /\ pc' = "scan"
    /\ handled' = NoPort
    /\ UNCHANGED <<port, historyVars, hostVars, emVars>>

-----------------------------------------------------------------------------
(* Death and restart.                                                      *)

(* The process is gone, with or without leaving the `with` block of its    *)
(* call; an rclone it had started is no longer anybody's.                  *)
Dies ==
    /\ pc # "dead" /\ deaths < MaxDeaths
    /\ pc' = "dead" /\ deaths' = deaths + 1
    /\ mpc' = "idle" /\ device' = NoPort /\ result' = "none"
    /\ server' = "none" /\ cache' \in {FALSE, cache}
    /\ IF server \in Alive
         THEN /\ orphan' = [orphan EXCEPT
                     ![deaths + 1] = IF drive = "live" THEN "serving" ELSE "starting"]
              /\ drive' = Left("none")
         ELSE UNCHANGED <<orphan, drive>>
    /\ UNCHANGED <<handled, port, historyVars, intact, bus>>

(* KeepAlive: launchd starts the watcher until load_automount_config is    *)
(* content with what it finds.  The new one knows nothing of the old.      *)
Restarts ==
    /\ pc = "dead" /\ intact
    /\ pc' = "scan" /\ handled' = NoPort
    /\ attended' = {} /\ canceled' = {} /\ unnoticed' = {} /\ hasty' = {}
    /\ UNCHANGED <<port, hostVars, emVars>>

Serving == \E i \in 1 .. MaxDeaths : orphan[i] = "serving"

OrphanServes ==
    /\ drive = "none" /\ ~Serving
    /\ \E i \in 1 .. MaxDeaths :
         orphan[i] = "starting" /\ orphan' = [orphan EXCEPT ![i] = "serving"]
    /\ UNCHANGED <<loopVars, historyVars, intact, deaths, emVars>>

(* launchd ends what is left of a dead job's process group.                *)
OrphanEnds ==
    /\ \E i \in 1 .. MaxDeaths :
         /\ orphan[i] # "none" /\ orphan' = [orphan EXCEPT ![i] = "none"]
         /\ drive' \in {drive} \cup (IF orphan[i] = "serving" THEN {"stale"} ELSE {})
    /\ UNCHANGED <<loopVars, historyVars, intact, deaths, bus, callState, server>>

(* The owner moves or repairs the files of the vault.                      *)
FilesChange ==
    /\ intact' = ~intact
    /\ UNCHANGED <<loopVars, historyVars, orphan, deaths, emVars>>

-----------------------------------------------------------------------------
(* The mount and the bus.                                                  *)

(* A mount point that an orphan serves cannot be mounted over.             *)
Mount ==
    /\ CallStep \/ ServerExits \/ (~Serving /\ Serve)
    /\ UNCHANGED <<loopVars, historyVars, hostVars>>

(* A dongle that comes back while the dialogs for its port are still up    *)
(* needs no new one.                                                       *)
PlugIn(p) ==
    /\ Insert(p)
    /\ unnoticed' = unnoticed \ {p} /\ hasty' = hasty \cup ({p} \cap unnoticed)
    /\ attended' = IF pc \in {"password", "confirm"} /\ p = port
                    THEN attended \cup {p} ELSE attended
    /\ UNCHANGED <<loopVars, canceled, hostVars>>

Unplug(p) ==
    /\ Remove(p)
    /\ attended' = attended \ {p} /\ canceled' = canceled \ {p}
    /\ unnoticed' = unnoticed \cup {p} /\ hasty' = hasty \ {p}
    /\ UNCHANGED <<loopVars, hostVars>>

-----------------------------------------------------------------------------
Loop == FindsNone \/ FindsDongle \/ MountReturns \/ UnlockFails \/ UnlockSucceeds
          \/ PortIsBusy \/ PortIsFree
User == BusyDismissed \/ Cancel \/ PasswordGiven \/ BootAgreed \/ MessageDismissed
Bus  == \E p \in Ports : PlugIn(p) \/ Unplug(p)

Launchd == OrphanServes \/ OrphanEnds \/ Restarts

AutoNext == Loop \/ User \/ Mount \/ Bus \/ Dies \/ Launchd \/ FilesChange

(* The loop and the mount run on, the user answers every dialog, launchd   *)
(* restarts the watcher and gets rid of what the dead one has left.        *)
AutoFairness ==
    /\ WF_autoVars(Loop)
    /\ WF_autoVars(User)
    /\ WF_autoVars(CallStep /\ UNCHANGED <<loopVars, historyVars, hostVars>>)
    /\ WF_autoVars(Restarts)
    /\ WF_autoVars(OrphanEnds)

AutoSpec == AutoInit /\ [][AutoNext]_autoVars /\ AutoFairness

-----------------------------------------------------------------------------
(* "Canceling suppresses additional prompts until the dongle is            *)
(* reconnected" (README.md): no dialog comes up for a dongle whose dialogs *)
(* were canceled and that has stayed plugged in, as long as the watcher    *)
(* lives and has turned to no other port (handled_port).                   *)
CancelSticks ==
    [][pc = "owners" /\ pc' = "password" => port \notin canceled]_autoVars

(* Every rclone that is alive is that of the mount under way, or was left  *)
(* by a death of the watcher, one by each: a watcher that lives never goes *)
(* back to its dialogs leaving an rclone behind (_stop_mount_process).     *)
(* After a death it may: a new watcher prompts, and starts another rclone, *)
(* while the one of its predecessor still runs, for it looks for none.     *)
Orphans == {i \in 1 .. MaxDeaths : orphan[i] # "none"}
RclonesCounted ==
    Cardinality(Orphans) + (IF server \in Alive THEN 1 ELSE 0)
      =< deaths + (IF pc = "mounting" THEN 1 ELSE 0)

(* The port the loop takes for handled and passes over is one whose dongle *)
(* it has reacted to, or whose removal it had no chance to see: whatever   *)
(* dialogs, mounts and replugging happened meanwhile, it never loses a     *)
(* dongle in any other way (handled_port).                                 *)
PassedOverIsKnown ==
    pc = "scan" /\ bus # {} /\ FirstPort = handled => handled \in attended \cup hasty

(* "Removing the dongle unmounts the readable drive" (README.md), be it    *)
(* the watcher that stops rclone, or launchd after the watcher has died:   *)
(* without a dongle the vault does not stay readable.                      *)
Readable == drive = "live" \/ Serving
RemovalUnmounts == (Readable /\ bus = {}) ~> (~Readable \/ bus # {})

(* A dongle that is plugged in and left alone is reacted to, if the loop   *)
(* had seen its removal before (handled_port is forgotten by then), it is  *)
(* the first port listed, and no other dongle's mount goes on.  A watcher  *)
(* that has been restarted reacts to the dongles it finds.                 *)
NoticedPrompted ==
    \A p \in Ports : (p \in bus \ (attended \cup hasty)) ~>
      \/ p \notin bus \/ p \in attended \/ FirstPort # p \/ ~intact
      \/ pc = "mounting" /\ port # p

(* "On insertion, a native hidden-password dialog appears" (README.md):    *)
(* every dongle that is plugged in and left alone is reacted to.           *)
InsertionPrompted ==
    \A p \in Ports : (p \in bus \ attended) ~> (p \notin bus \/ p \in attended)
=============================================================================

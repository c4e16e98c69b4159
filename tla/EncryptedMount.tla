--------------------------- MODULE EncryptedMount ---------------------------
(***************************************************************************)
(* run_encrypted_rclone_mount of remote.py: it starts rclone with a        *)
(* temporary cache directory, polls the list of serial ports, and stops    *)
(* rclone when the dongle's port is no longer listed; and its plaintext    *)
(* sibling run_rclone_mount, which only waits.  rclone and the kernel's    *)
(* mount are outside src/ and do what the code provides for.               *)
(***************************************************************************)
EXTENDS Naturals

CONSTANTS
    Ports,    \* names of the serial ports a dongle can show up under
    NoPort,
    Faults    \* what may go wrong beyond rclone: "list", "second_interrupt"

ASSUME MountAssumption ==
    /\ NoPort \notin Ports
    /\ Faults \subseteq {"list", "second_interrupt"}

VARIABLES
    bus,       \* ports that a dongle is plugged in at
    device,    \* device_port of the call
    mpc,       \* where the call's control is
    result,    \* how the last call returned
    server,    \* the rclone process
    drive,     \* what the mount point shows
    cache      \* whether the call's cache directory exists

callState  == <<device, mpc, result, cache>>
mountVars  == <<callState, server, drive>>
emVars     == <<bus, mountVars>>

Alive   == {"starting", "serving", "stopping"}    \* process.poll() is None
(* "exit_ok" stands for the return codes 0 and 130.                        *)
Exited  == {"exit_ok", "exit_bad", "killed"}
(* Ways out of the call that stop nothing: an error of list_ports, and a   *)
(* Ctrl-C where no handler is, which the command line calls "Unmounted.".  *)
Escapes == {"unhandled", "cut_short"}
Polling == {"poll", "list", "nap"}
Stopping == {"stop", "terminating"}

MountTypeOK ==
    /\ bus \subseteq Ports
    /\ device \in Ports \cup {NoPort}
    /\ mpc \in {"idle", "launch", "spawned", "cleanup", "plain"} \cup Polling \cup Stopping
    /\ result \in {"none", "exit_ok", "exit_bad", "disconnected", "interrupt", "error"}
                 \cup Escapes
    /\ server \in {"none"} \cup Alive \cup Exited
    /\ drive \in {"none", "live", "stale"}
    /\ cache \in BOOLEAN
    /\ mpc = "idle" /\ device # NoPort => result # "none"

MountInit ==
    /\ bus = {} /\ device = NoPort /\ mpc = "idle" /\ result = "none"
    /\ server = "none" /\ drive = "none" /\ cache = FALSE

-----------------------------------------------------------------------------
(* The call, up to the polling loop.                                       *)

Launch(p) ==
    /\ mpc = "idle"
    /\ mpc' = "launch" /\ device' = p /\ result' = "none" /\ cache' = TRUE
    /\ UNCHANGED <<server, drive>>

Spawn ==
    /\ mpc = "launch"
    /\ \/ server' = "starting" /\ mpc' = "spawned" /\ result' = result
       \/ server' = server /\ mpc' = "cleanup" /\ result' = "error"
    /\ UNCHANGED <<bus, device, cache, drive>>

(* Popen is back, and the `try` that stops rclone is entered.              *)
EnterLoop ==
    /\ mpc = "spawned"
    /\ mpc' = "poll"
    /\ UNCHANGED <<bus, device, result, cache, server, drive>>

PollAlive ==
    /\ mpc = "poll" /\ server \in Alive
    /\ mpc' = "list"
    /\ UNCHANGED <<bus, device, result, cache, server, drive>>

(* PollExited, had the return code been dropped.                           *)
PollExitedNoCode ==
    /\ mpc = "poll" /\ server \notin Alive
    /\ mpc' = "cleanup"
    /\ UNCHANGED <<bus, device, result, cache, server, drive>>

PollExited ==
    /\ mpc = "poll" /\ server \notin Alive
    /\ mpc' = "cleanup"
    /\ result' = IF server = "exit_ok" THEN "exit_ok" ELSE "exit_bad"
    /\ UNCHANGED <<bus, device, cache, server, drive>>

(* PortListed, had the ports been listed once, before the loop.            *)
PortListedOnce ==
    /\ mpc = "list"
    /\ mpc' = "nap"
    /\ UNCHANGED <<bus, device, result, cache, server, drive>>

PortListed ==
    /\ mpc = "list" /\ device \in bus
    /\ mpc' = "nap"
    /\ UNCHANGED <<bus, device, result, cache, server, drive>>

PortMissing ==
    /\ mpc = "list" /\ device \notin bus
    /\ mpc' = "stop" /\ result' = "disconnected"
    /\ UNCHANGED <<bus, device, cache, server, drive>>

(* list_ports.comports() raises: only KeyboardInterrupt is handled.        *)
ListFails ==
    /\ mpc = "list" /\ "list" \in Faults
    /\ mpc' = "cleanup" /\ result' = "unhandled"
    /\ UNCHANGED <<bus, device, cache, server, drive>>

Wake ==
    /\ mpc = "nap"
    /\ mpc' = "poll"
    /\ UNCHANGED <<bus, device, result, cache, server, drive>>

(* Before rclone is started: the mount point cannot be made, rclone is not *)
(* there or obscures no secret.                                            *)
Refused ==
    /\ mpc = "idle" /\ server \notin Alive
    /\ result' = "error" /\ device' = NoPort
    /\ UNCHANGED <<bus, mpc, cache, server, drive>>

-----------------------------------------------------------------------------
(* _stop_mount_process, and the end of the call.                           *)

(* What an rclone that had mounted leaves at the mount point.              *)
Left(state) == IF drive = "live" THEN state ELSE drive

StopNeedless ==
    /\ mpc = "stop" /\ server \notin Alive
    /\ mpc' = "cleanup"
    /\ UNCHANGED <<bus, device, result, cache, server, drive>>

(* Terminate, had nobody waited for the process.                           *)
TerminateNoWait ==
    /\ mpc = "stop" /\ server \in Alive
    /\ mpc' = "cleanup" /\ server' = "stopping"
    /\ UNCHANGED <<bus, device, result, cache, drive>>

Terminate ==
    /\ mpc = "stop" /\ server \in Alive
    /\ mpc' = "terminating" /\ server' = "stopping"
    /\ UNCHANGED <<bus, device, result, cache, drive>>

WaitEnds ==
    /\ mpc = "terminating" /\ server \notin Alive
    /\ mpc' = "cleanup"
    /\ UNCHANGED <<bus, device, result, cache, server, drive>>

(* WaitExpires, had kill() been left out, or wait() no timeout.            *)
WaitExpiresNoKill ==
    /\ mpc = "terminating" /\ server \in Alive
    /\ mpc' = "cleanup"
    /\ UNCHANGED <<bus, device, result, cache, server, drive>>

WaitForever ==
    /\ mpc = "terminating" /\ server \in Alive
    /\ UNCHANGED emVars

(* wait(timeout=10) runs out: kill() leaves the kernel's mount behind.     *)
WaitExpires ==
    /\ mpc = "terminating" /\ server \in Alive
    /\ mpc' = "cleanup" /\ server' = "killed"
    /\ drive' = Left("stale")
    /\ UNCHANGED <<bus, device, result, cache>>

(* Ctrl-C before or in the loop, or while the loop stops rclone.  Between  *)
(* Popen and the `try`, and in the _stop_mount_process of the handler, no  *)
(* handler is there to stop rclone.                                        *)
Interrupt ==
    /\ \/ mpc = "launch" /\ mpc' = "cleanup" /\ result' = "interrupt"
       \/ mpc = "spawned" /\ mpc' = "cleanup" /\ result' = "cut_short"
       \/ mpc \in Polling /\ mpc' = "stop" /\ result' = "interrupt"
       \/ mpc \in Stopping /\ result = "disconnected"
            /\ mpc' = "stop" /\ result' = "interrupt"
    /\ UNCHANGED <<bus, device, cache, server, drive>>

SecondInterrupt ==
    /\ mpc \in Stopping /\ result = "interrupt" /\ "second_interrupt" \in Faults
    /\ mpc' = "cleanup" /\ result' = "cut_short"
    /\ UNCHANGED <<bus, device, cache, server, drive>>

(* Leaving the `with` block removes the cache directory.                   *)
Cleanup ==
    /\ mpc = "cleanup"
    /\ mpc' = "idle" /\ cache' = FALSE
    /\ UNCHANGED <<bus, device, result, server, drive>>

-----------------------------------------------------------------------------
(* run_rclone_mount: no dongle, no directory of its own, no polling.       *)

StartPlain ==
    /\ mpc = "idle" /\ server \notin Alive
    /\ mpc' = "plain" /\ server' = "starting"
    /\ device' = NoPort /\ result' = "none"
    /\ UNCHANGED <<bus, cache, drive>>

PlainReturns ==
    /\ mpc = "plain" /\ server \notin Alive
    /\ mpc' = "idle"
    /\ result' = IF server = "exit_ok" THEN "exit_ok" ELSE "exit_bad"
    /\ UNCHANGED <<bus, device, cache, server, drive>>

(* PlainInterrupt, had subprocess.run not killed its child.                *)
PlainInterruptLeaves ==
    /\ mpc = "plain"
    /\ mpc' = "idle" /\ result' = "interrupt"
    /\ UNCHANGED <<bus, device, cache, server, drive>>

(* On Ctrl-C subprocess.run gives rclone a moment and then kills it.       *)
PlainInterrupt ==
    /\ mpc = "plain"
    /\ mpc' = "idle" /\ result' = "interrupt"
    /\ IF server \in Alive THEN server' = "killed" /\ drive' = Left("stale")
                            ELSE UNCHANGED <<server, drive>>
    /\ UNCHANGED <<bus, device, cache>>

-----------------------------------------------------------------------------
(* rclone, and the USB bus.                                                *)

Serve ==
    /\ server = "starting" /\ drive # "stale"
    /\ server' = "serving" /\ drive' = "live"
    /\ UNCHANGED <<bus, callState>>

(* rclone ends: it was told to, the user ejected the drive, or it failed.  *)
ServerExits ==
    /\ server \in Alive
    /\ \/ server' = "exit_ok" /\ drive' = Left("none")
       \/ server' = "exit_bad" /\ drive' \in {Left("none"), Left("stale")}
    /\ UNCHANGED <<bus, callState>>

Insert(p) ==
    /\ p \notin bus /\ bus' = bus \cup {p}
    /\ UNCHANGED mountVars

Remove(p) ==
    /\ p \in bus /\ bus' = bus \ {p}
    /\ UNCHANGED mountVars

-----------------------------------------------------------------------------
CallStep == \/ Spawn \/ EnterLoop \/ PollAlive \/ PollExited \/ PortListed \/ PortMissing
            \/ Wake \/ StopNeedless \/ Terminate \/ WaitEnds \/ WaitExpires
            \/ Cleanup
Rclone   == Serve \/ ServerExits
Usb      == \E p \in Ports : Insert(p) \/ Remove(p)

(* The command line calls it once more only when nothing is left running.  *)
Start    == /\ server \notin Alive
            /\ \E p \in bus : Launch(p)
            /\ UNCHANGED bus

Plain    == StartPlain \/ PlainReturns \/ PlainInterrupt

MountNext == CallStep \/ Refused \/ ListFails \/ Interrupt \/ SecondInterrupt
               \/ Rclone \/ Usb \/ Start \/ Plain

(* The polling loop keeps running; rclone may hang and the owner may do    *)
(* what he likes.                                                          *)
MountSpec == MountInit /\ [][MountNext]_emVars /\ WF_emVars(CallStep)

-----------------------------------------------------------------------------
(* When a mount command comes back after a removal, after an error of      *)
(* rclone or a first Ctrl-C the loop handles, no rclone of it is left and  *)
(* nothing is readable at the mount point (_stop_mount_process,            *)
(* subprocess.run).  Three ways out are excepted, since rclone may go on   *)
(* there: list_ports fails, Ctrl-C comes between Popen and the `try`, or a *)
(* second one in the handler.  A dead mount may be left: see               *)
(* UnmountedIsTrue.                                                        *)
ReturnMeansStopped ==
    mpc = "idle" /\ result \notin Escapes => server \notin Alive /\ drive # "live"

(* rclone never runs without its cache directory: the directory is removed *)
(* after the process is gone, on every way out of the call except those    *)
(* three.                                                                  *)
CacheOutlivesServer ==
    server \in Alive /\ device \in Ports /\ result \notin Escapes => cache

(* A dongle that stays away stops the mount it opened, even if rclone      *)
(* ignores the request to terminate, unless the call has been left in one  *)
(* of those three ways.                                                    *)
AbsenceStopsServer ==
    (server \in Alive /\ device \in Ports \ bus) ~>
      (server \notin Alive \/ device \in bus \/ result \in Escapes)

(* "Unmounted.", which the command line says after any Ctrl-C in the       *)
(* encrypted mount: rclone is gone and nothing is mounted (README.md:      *)
(* "Press Ctrl-C for a normal unmount").                                   *)
UnmountedIsTrue ==
    mpc = "idle" /\ device \in Ports /\ result \in {"interrupt", "cut_short"} =>
      server \notin Alive /\ drive = "none"

(* Once its dongle is gone and stays away, a call is at most nine steps of *)
(* its own from its end: each brings it nearer, and neither rclone, nor    *)
(* the bus, nor Ctrl-C at any moment ever takes it back (the polling loop, *)
(* _stop_mount_process and the handler of KeyboardInterrupt).              *)
Ahead == [launch |-> 9, spawned |-> 8, nap |-> 8, poll |-> 7, list |-> 6, stop |-> 3,
          terminating |-> 2, cleanup |-> 1, idle |-> 0, plain |-> 0]
StepsLeft == IF mpc \in Stopping /\ result = "disconnected" THEN Ahead[mpc] + 2
                                                           ELSE Ahead[mpc]

AbsenceCountsDown ==
    [][mpc # "idle" /\ device \in Ports \ bus /\ device' = device /\ device \notin bus' =>
         StepsLeft' =< StepsLeft /\ (CallStep => StepsLeft' < StepsLeft)]_emVars
=============================================================================

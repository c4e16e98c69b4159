----------------------------- MODULE DigitalKey -----------------------------
(***************************************************************************)
(* The dongle and the host's client, joined by the serial line and by one  *)
(* clock.  Sessions are killed, commands are written in part, lines are    *)
(* damaged, the board is reset or unplugged at any moment; what one        *)
(* session leaves on the line is found by the next.                        *)
(***************************************************************************)
EXTENDS Dongle, SerialClient

VARIABLE
    disturbed   \* history: the open session saw a damaged line or a reset

vars == <<dongleVars, clientVars, disturbed>>

Init == DongleInit /\ ClientInit /\ disturbed = FALSE

(* Settled, had the constructor not slept.                                 *)
SettledAtOnce == fw # "off"

(* Everything the firmware does without waiting for a clock or a finger    *)
(* takes less than the 1.5 s the constructor sleeps after open(): by then  *)
(* the firmware waits for a command or for BOOT.                           *)
Settled == \/ fw = "idle" /\ toDongle = <<>>
           \/ fw \in {"confirm", "debounce", "held"}

Firmware == FirmwareStep /\ UNCHANGED <<clientVars, disturbed>>

Power ==
    \/ PlugIn /\ UNCHANGED <<clientVars, disturbed>>
    \/ Unplug /\ PortGone /\ UNCHANGED disturbed
    \/ Reset /\ disturbed' = TRUE /\ UNCHANGED clientVars

Finger == (Press \/ Release) /\ UNCHANGED <<clientVars, disturbed>>

(* Opening native USB normally, but not always, resets the board.          *)
Open ==
    /\ fw # "off" /\ OpenPort
    /\ Reset \/ UNCHANGED dongleVars
    /\ UNCHANGED disturbed

SayHello ==
    /\ Settled /\ Greet
    /\ disturbed' = FALSE
    /\ UNCHANGED fwVars

Client ==
    /\ Call \/ ReadLine \/ Close \/ Kill
    /\ UNCHANGED <<fwVars, disturbed>>

WriteError ==
    /\ WriteFails /\ (pc = "opening" => Settled)
    /\ UNCHANGED <<fwVars, disturbed>>

(* A line is damaged on its way; nobody reads a closed port.               *)
Damage ==
    /\ toHost # <<>>
    /\ \/ \E i \in 1 .. Len(toHost) : toHost' = Garbled(toHost, i)
       \/ pc = "closed" /\ toHost' = SubSeq(toHost, 1, Len(toHost) - 1)
    /\ disturbed' = TRUE
    /\ UNCHANGED <<toDongle, fwVars, clientVars>>

(* A line comes in pieces, or lost its end, and the read waits on.         *)
Drip == Trickle /\ disturbed' = TRUE /\ UNCHANGED fwVars

-----------------------------------------------------------------------------
(* Time passes when neither side has anything to do at once.               *)

(* FirmwareQuiet, had waitForConfirmation no deadline.                     *)
QuietNoDeadline == fw \in {"off", "confirm", "held"} \/ (fw = "idle" /\ toDongle = <<>>)

FirmwareQuiet == \/ fw = "off"
                 \/ fw = "idle" /\ toDongle = <<>>
                 \/ fw = "confirm" /\ waited < ConfirmTimeout
                 \/ fw = "held"
HostQuiet == pc \in Waiting => toHost = <<>> /\ hostWaited < ReadTimeout

Tick ==
    /\ FirmwareQuiet /\ HostQuiet
    /\ waited' = IF fw = "confirm" THEN waited + 1 ELSE waited
    /\ hostWaited' = IF pc \in Waiting THEN hostWaited + 1 ELSE hostWaited
    /\ UNCHANGED <<fw, key, cur, sawRelease, pressVars, nvsVars, linkVars,
                   pc, callVars, outcome, pauses, lines, disturbed>>

-----------------------------------------------------------------------------
Next == \/ Firmware \/ Power \/ Finger \/ Open \/ SayHello \/ Client
        \/ WriteError \/ Damage \/ Drip \/ Tick

(* The firmware and the constructor and read loop of the host keep running *)
(* and time goes on.  Nothing is assumed of the owner or the caller, and   *)
(* of the faults only that the board is not reset for ever.                *)
Fairness ==
    /\ WF_vars(Firmware)
    /\ WF_vars(ReadLine /\ UNCHANGED <<fwVars, disturbed>>)
    /\ WF_vars(SayHello \/ (pc = "opening" /\ WriteError))
    /\ SF_vars(Tick)
    /\ <>[][~Reset]_vars

Spec == Init /\ [][Next]_vars

-----------------------------------------------------------------------------
(* The key derive_key returns was derived for the request it was called    *)
(* with, whatever earlier sessions left in the two buffers (the flush, the *)
(* sleep and the HELLO of SerialDigitalKey.__init__ are there for this).   *)
KeyMatchesRequest == outcome = "key" => answer = req

(* A reply of the wrong kind ("unexpected DERIVE response format") means   *)
(* that a line was damaged or the board was reset: stale replies of an     *)
(* earlier session never reach a call (_read_line of device.py).           *)
NoDesync == outcome = "format" => disturbed

(* "dongle did not respond" is said of a healthy board only when BOOT was  *)
(* kept pressed for too long: the firmware's own 15 s deadline answers     *)
(* before the host's 20 s read timeout (waitForConfirmation, readline).    *)
TimeoutOnlyIfHeld ==
    [][ReadTimesOut => fw \in {"held", "derive"} \/ disturbed]_vars

(* All that a session reads belongs to one key, even if the firmware       *)
(* misread the stored one at an earlier boot: the dongle whose public key  *)
(* a caller has looked at is the dongle that derives for it, unless the    *)
(* board was reset or a line damaged in the session (public_key followed   *)
(* by derive_key, in create_vault_descriptor, derive_vault_credentials).   *)
InSession == {"ready"} \cup Waiting
OneKeyPerSession ==
    [][{pc, pc'} \subseteq InSession /\ ~disturbed' =>
         /\ key' = key
         /\ \A i \in 1 .. Len(toHost') :
              toHost'[i].tag \in {"PUB", "KEY"} => toHost'[i].key = key]_vars

(* Every call of the client ends, with a result or an error, though nobody *)
(* ever touches BOOT or lets it go (_read_line's timeout and line limit).  *)
CallsEnd == pc \in {"opening"} \cup Waiting ~> pc \in {"ready", "closed"}

(* Once the owner leaves BOOT alone, the firmware always comes back to its *)
(* command loop (waitForConfirmation).                                     *)
PromptEnds == <>[](button = "up") => []<>(fw \notin Deriving)

(* The firmware inside the composition does only what module Dongle says.  *)
ImplementsDongle == DongleSpec
=============================================================================

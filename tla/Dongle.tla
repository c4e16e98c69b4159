------------------------------- MODULE Dongle -------------------------------
(***************************************************************************)
(* The dongle's firmware (firmware/src/main.cpp): the private key kept in  *)
(* non-volatile storage, the line protocol served by loop(), and the wait  *)
(* for a press of the BOOT button before a key is derived.  The host is an *)
(* arbitrary writer of commands and reader of lines.                       *)
(***************************************************************************)
EXTENDS SerialLink

CONSTANTS
    ConfirmTimeout,   \* kConfirmationTimeoutMs, in clock ticks
    NvsReadMayFail    \* whether reading the stored key at boot may fail

ASSUME DongleAssumption ==
    /\ ConfirmTimeout \in Nat \ {0}
    /\ NvsReadMayFail \in BOOLEAN

VARIABLES
    fw,           \* where the firmware's control is
    key,          \* privateKey once keyReady; NoKey while not keyReady
    nvs,          \* the key stored under "private" in NVS, or NoKey
    cur,          \* the request being derived, or NoRequest
    button,       \* the BOOT button
    sawRelease,   \* local of waitForConfirmation
    waited,       \* ticks since `started` in waitForConfirmation
    fresh,        \* history: a press of BOOT began after the last CONFIRM
    exposed       \* history: keys that PUB and KEY lines were computed from

nvsVars   == <<nvs, exposed>>
waitVars  == <<sawRelease, waited>>
pressVars == <<button, fresh>>
fwVars    == <<fw, key, cur, waitVars, pressVars, nvsVars>>
dongleVars == <<fwVars, linkVars>>

Deriving == {"prompted", "confirm", "debounce", "held", "derive"}
Places   == {"off", "boot", "save", "idle"} \cup Deriving

DongleTypeOK ==
    /\ LinkTypeOK
    /\ fw \in Places
    /\ key \in Keys \cup {NoKey}
    /\ nvs \in Keys \cup {NoKey}
    /\ cur \in Requests \cup {NoRequest}
    /\ button \in {"up", "down"}
    /\ sawRelease \in BOOLEAN
    /\ waited \in 0 .. ConfirmTimeout
    /\ fresh \in BOOLEAN
    /\ exposed \subseteq Keys

DongleInit ==
    /\ toDongle = <<>> /\ toHost = <<>>
    /\ fw = "off" /\ key = NoKey /\ nvs = NoKey /\ cur = NoRequest
    /\ button = "up" /\ fresh = FALSE
    /\ sawRelease = FALSE /\ waited = 0
    /\ exposed = {}

Say(line) == toHost' = Append(toHost, line)

-----------------------------------------------------------------------------
(* Power and boot.                                                         *)

PlugIn ==
    /\ fw = "off"
    /\ fw' = "boot"
    /\ UNCHANGED <<key, cur, waitVars, pressVars, nvsVars, linkVars>>

(* Unplugging takes the host's device node away with all it buffered.      *)
Unplug ==
    /\ fw # "off"
    /\ fw' = "off" /\ key' = NoKey /\ cur' = NoRequest
    /\ toDongle' = <<>> /\ toHost' = <<>>
    /\ UNCHANGED <<waitVars, pressVars, nvsVars>>

(* A reset (opening the port asserts the modem lines; a brownout) restarts *)
(* setup(); the host keeps the lines it has received.                      *)
Reset ==
    /\ fw # "off" /\ Len(toHost) < MaxQueue
    /\ fw' = "boot" /\ key' = NoKey /\ cur' = NoRequest
    /\ toDongle' = <<>>
    /\ UNCHANGED <<waitVars, pressVars, nvsVars, toHost>>

(* What reading the stored key can yield: getBytes is not checked, so a    *)
(* failed read leaves whatever the buffer held.                            *)
StoredKey == {nvs} \cup (IF NvsReadMayFail THEN Keys ELSE {})

LoadKey ==
    /\ fw = "boot" /\ nvs # NoKey
    /\ key' \in StoredKey
    /\ fw' = "idle" /\ Say(Ready)
    /\ UNCHANGED <<cur, waitVars, pressVars, nvsVars, toDongle>>

(* An entry that is absent, or that cannot be read, has length 0.          *)
GenerateKey ==
    /\ fw = "boot" /\ (nvs = NoKey \/ NvsReadMayFail)
    /\ key' \in Keys \ (exposed \cup {nvs})
    /\ fw' = "save"
    /\ UNCHANGED <<cur, waitVars, pressVars, nvsVars, linkVars>>

(* SaveKey, had the number of bytes written not been looked at.            *)
SaveKeyUnchecked ==
    /\ fw = "save" /\ fw' = "idle"
    /\ nvs' \in {nvs, key} /\ Say(Ready)
    /\ UNCHANGED <<key, cur, waitVars, pressVars, exposed, toDongle>>

(* savePrivateKey: when putBytes reports fewer bytes than it was given,    *)
(* the entry may or may not have been committed, and keyReady stays false. *)
SaveKey ==
    /\ fw = "save" /\ fw' = "idle"
    /\ \/ nvs' = key /\ Say(Ready) /\ key' = key
       \/ nvs' \in {nvs, key} /\ Say(Err) /\ key' = NoKey
    /\ UNCHANGED <<cur, waitVars, pressVars, exposed, toDongle>>

(* The generator cannot be seeded, the stored key is not a valid one, ...  *)
BootFails ==
    /\ fw = "boot"
    /\ fw' = "idle" /\ Say(Err)
    /\ UNCHANGED <<key, cur, waitVars, pressVars, nvsVars, toDongle>>

-----------------------------------------------------------------------------
(* loop() and handleCommand.                                               *)

Reads(op) ==
    /\ fw = "idle" /\ toDongle # <<>>
    /\ Head(toDongle).op \in op
    /\ toDongle' = Tail(toDongle)

AnswerHello ==
    /\ Reads({"HELLO"})
    /\ Say(IF key = NoKey THEN Err ELSE Ready)
    /\ UNCHANGED fwVars

RejectUnready ==
    /\ key = NoKey /\ Reads({"PUBLIC", "DERIVE", "BAD", "PART"})
    /\ Say(Err)
    /\ UNCHANGED fwVars

RejectBad ==
    /\ key # NoKey /\ Reads({"BAD", "PART"})
    /\ Say(Err)
    /\ UNCHANGED fwVars

AnswerPublic ==
    /\ key # NoKey /\ Reads({"PUBLIC"})
    /\ \/ Say(Pub(key)) /\ exposed' = exposed \cup {key}
       \/ Say(Err) /\ exposed' = exposed
    /\ UNCHANGED <<fw, key, cur, waitVars, pressVars, nvs>>

StartDerive ==
    /\ key # NoKey /\ Reads({"DERIVE"})
    /\ Say(Confirm)
    /\ fw' = "prompted" /\ cur' = Head(toDongle).req
    /\ waited' = 0 /\ fresh' = FALSE
    /\ UNCHANGED <<key, sawRelease, button, nvsVars>>

(* Sample, had sawRelease started out true.                                *)
SampleAssumesReleased ==
    /\ fw = "prompted"
    /\ fw' = "confirm" /\ sawRelease' = TRUE
    /\ UNCHANGED <<key, cur, waited, pressVars, nvsVars, linkVars>>

(* The first reading of the button, before the polling loop.               *)
Sample ==
    /\ fw = "prompted"
    /\ fw' = "confirm" /\ sawRelease' = (button = "up")
    /\ UNCHANGED <<key, cur, waited, pressVars, nvsVars, linkVars>>

PollReleased ==
    /\ fw = "confirm" /\ waited < ConfirmTimeout
    /\ button = "up" /\ ~sawRelease
    /\ sawRelease' = TRUE
    /\ UNCHANGED <<fw, key, cur, waited, pressVars, nvsVars, linkVars>>

PollPressed ==
    /\ fw = "confirm" /\ waited < ConfirmTimeout
    /\ button = "down" /\ sawRelease
    /\ fw' = "debounce"
    /\ UNCHANGED <<key, cur, waitVars, pressVars, nvsVars, linkVars>>

Debounce ==
    /\ fw = "debounce"
    /\ fw' = IF button = "down" THEN "held" ELSE "confirm"
    /\ UNCHANGED <<key, cur, waitVars, pressVars, nvsVars, linkVars>>

(* The loop that waits for the end of the press has no deadline.           *)
Released ==
    /\ fw = "held" /\ button = "up"
    /\ fw' = "derive"
    /\ UNCHANGED <<key, cur, waitVars, pressVars, nvsVars, linkVars>>

(* Expire, had sendError been left out, or the deadline never been met.    *)
ExpireSilently ==
    /\ fw = "confirm" /\ waited = ConfirmTimeout
    /\ fw' = "idle" /\ cur' = NoRequest
    /\ UNCHANGED <<key, waitVars, pressVars, nvsVars, linkVars>>

ExpireNever ==
    /\ fw = "confirm" /\ waited > ConfirmTimeout
    /\ fw' = "idle" /\ cur' = NoRequest /\ Say(Err)
    /\ UNCHANGED <<key, waitVars, pressVars, nvsVars, toDongle>>

Expire ==
    /\ fw = "confirm" /\ waited = ConfirmTimeout
    /\ fw' = "idle" /\ cur' = NoRequest /\ Say(Err)
    /\ UNCHANGED <<key, waitVars, pressVars, nvsVars, toDongle>>

Compute ==
    /\ fw = "derive"
    /\ fw' = "idle" /\ cur' = NoRequest
    /\ \/ Say(Key(cur, key)) /\ exposed' = exposed \cup {key}
       \/ Say(Err) /\ exposed' = exposed
    /\ UNCHANGED <<key, waitVars, pressVars, nvs, toDongle>>

-----------------------------------------------------------------------------
(* The owner's finger, and the clock of waitForConfirmation.               *)

Press ==
    /\ button = "up" /\ button' = "down" /\ fresh' = TRUE
    /\ UNCHANGED <<fw, key, cur, waitVars, nvsVars, linkVars>>

Release ==
    /\ button = "down" /\ button' = "up"
    /\ UNCHANGED <<fw, key, cur, waitVars, fresh, nvsVars, linkVars>>

DongleTick ==
    /\ fw = "confirm" /\ waited < ConfirmTimeout
    /\ waited' = waited + 1
    /\ UNCHANGED <<fw, key, cur, sawRelease, pressVars, nvsVars, linkVars>>

(* Any host: it writes any command, whole or in part, and reads, drops or  *)
(* loses any line.                                                         *)
HostWrites ==
    /\ fw # "off" /\ Len(toDongle) < MaxQueue
    /\ \E c \in ClientCommands \cup {Part} : toDongle' = Deliver(toDongle, c)
    /\ toHost' \in {toHost, <<>>}
    /\ UNCHANGED fwVars

HostReads ==
    /\ toHost # <<>>
    /\ \/ toHost' \in {Tail(toHost), <<>>}
       \/ toHost' = SubSeq(toHost, 1, Len(toHost) - 1)
       \/ \E i \in 1 .. Len(toHost) : toHost' = Garbled(toHost, i)
    /\ UNCHANGED <<fwVars, toDongle>>

-----------------------------------------------------------------------------
Boot    == LoadKey \/ GenerateKey \/ SaveKey \/ BootFails
Serve   == AnswerHello \/ RejectUnready \/ RejectBad \/ AnswerPublic \/ StartDerive
Confirming == Sample \/ PollReleased \/ PollPressed \/ Debounce \/ Released
                \/ Expire \/ Compute
FirmwareStep == Boot \/ Serve \/ Confirming
Owner   == PlugIn \/ Unplug \/ Reset \/ Press \/ Release
Host    == HostWrites \/ HostReads

DongleNext == FirmwareStep \/ Owner \/ DongleTick \/ Host

DongleSpec == DongleInit /\ [][DongleNext]_dongleVars

-----------------------------------------------------------------------------
(* A KEY line is only written after a press of BOOT that began after the   *)
(* CONFIRM prompt of that very derivation: a button already held when the  *)
(* prompt appears, or the press that confirmed the previous derivation,    *)
(* does not count (sawRelease in waitForConfirmation).                     *)
FreshPress ==
    [][\A r \in Requests, k \in Keys :
         toHost' = Append(toHost, Key(r, k)) => fresh]_dongleVars

(* Every key the host was ever shown a value of is the one the dongle has  *)
(* stored: whatever the moment power is lost, the dongle comes back with   *)
(* the identity it gave, and never gives two (README.md: "On first boot    *)
(* the firmware creates its permanent private key").                       *)
IdentityStable == exposed \subseteq {nvs}

(* The key that is stored and whose values the host has been given is      *)
(* never written over (README.md: "creates its permanent private key";     *)
(* CHANGELOG.md: "creates and retains a P-256 private key").               *)
PermanentKey == [][nvs' # nvs => nvs \notin exposed]_dongleVars
=============================================================================

---------------------------- MODULE SerialClient ----------------------------
(***************************************************************************)
(* The host's end of the line (class SerialDigitalKey of device.py): one   *)
(* session at a time, since the port is opened exclusively.  Every caller  *)
(* in host/ holds the session in a `with` block and lets an error leave    *)
(* it, so an error also closes the port.                                   *)
(***************************************************************************)
EXTENDS SerialLink

CONSTANTS
    ReadTimeout,   \* serial timeout of readline, in clock ticks
    MaxLines,      \* lines _read_line looks at before it gives up
    MaxPauses      \* how often a line may pause after some of its bytes

ASSUME ClientAssumption ==
    /\ ReadTimeout \in Nat \ {0}
    /\ MaxLines \in Nat \ {0}
    /\ MaxPauses \in Nat

VARIABLES
    pc,           \* where the session's control is
    req,          \* the request of the last derive_key call
    answer,       \* the request answered by the last KEY line accepted
    outcome,      \* how the last call, or the session, ended
    hostWaited,   \* ticks the current readline has waited for a byte
    pauses,       \* how often its line has paused so far
    lines         \* lines the current _read_line has skipped

callVars   == <<req, answer>>
clientVars == <<pc, callVars, outcome, hostWaited, pauses, lines>>

Waiting  == {"greeting", "wait_pub", "wait_key"}
Outcomes == {"none", "public", "key", "err", "noise", "format", "timeout",
             "write", "usb", "killed", "closed"}

ClientTypeOK ==
    /\ pc \in {"closed", "opening", "ready"} \cup Waiting
    /\ req \in Requests \cup {NoRequest}
    /\ answer \in Requests \cup {NoRequest}
    /\ outcome \in Outcomes
    /\ hostWaited \in 0 .. ReadTimeout
    /\ pauses \in 0 .. MaxPauses
    /\ lines \in 0 .. MaxLines - 1

ClientInit ==
    /\ pc = "closed" /\ req = NoRequest /\ answer = NoRequest
    /\ outcome = "none" /\ hostWaited = 0 /\ pauses = 0 /\ lines = 0

(* Control goes on to p with result o; a new _read_line starts afresh.     *)
Goes(p, o) ==
    /\ pc' = p /\ outcome' = o
    /\ hostWaited' = 0 /\ pauses' = 0 /\ lines' = 0

-----------------------------------------------------------------------------
(* Opening, and the commands.                                              *)

OpenPort ==
    /\ pc = "closed" /\ Goes("opening", "none")
    /\ UNCHANGED callVars

(* Greet, had reset_input_buffer been left out.                            *)
GreetWithoutFlush ==
    /\ pc = "opening" /\ Len(toDongle) < MaxQueue
    /\ toDongle' = Deliver(toDongle, Hello)
    /\ Goes("greeting", "none")
    /\ UNCHANGED <<callVars, toHost>>

(* After the sleep: drop what the operating system buffered, say HELLO.    *)
Greet ==
    /\ pc = "opening" /\ Len(toDongle) < MaxQueue
    /\ toHost' = <<>> /\ toDongle' = Deliver(toDongle, Hello)
    /\ Goes("greeting", "none")
    /\ UNCHANGED callVars

Writes(c) ==
    /\ pc = "ready" /\ Len(toDongle) < MaxQueue
    /\ toDongle' = Deliver(toDongle, c)
    /\ UNCHANGED toHost

CallPublic ==
    /\ Writes(Public)
    /\ Goes("wait_pub", "none")
    /\ UNCHANGED callVars

CallDerive ==
    /\ \E r \in Requests : Writes(Derive(r)) /\ req' = r
    /\ Goes("wait_key", "none")
    /\ UNCHANGED answer

(* write() or flush() raises: none, some or all of the line has left.      *)
Intended == IF pc = "opening" THEN {Hello}
                              ELSE {Public} \cup {Derive(r) : r \in Requests}

WriteFails ==
    /\ pc \in {"opening", "ready"}
    /\ toHost' = IF pc = "opening" THEN <<>> ELSE toHost
    /\ \/ UNCHANGED toDongle
       \/ /\ Len(toDongle) < MaxQueue
          /\ \E c \in Intended \cup {Part} : toDongle' = Deliver(toDongle, c)
    /\ Goes("closed", "write")
    /\ UNCHANGED callVars

-----------------------------------------------------------------------------
(* One turn of _read_line.                                                 *)

Takes(tags) ==
    /\ pc \in Waiting /\ toHost # <<>>
    /\ Head(toHost).tag \in tags
    /\ toHost' = Tail(toHost)
    /\ UNCHANGED toDongle

ReadErr ==
    /\ Takes({"ERR"})
    /\ Goes("closed", "err")
    /\ UNCHANGED callVars

(* What the current wait passes over; a damaged line may come out blank.   *)
Skipped == IF pc = "greeting" THEN {"CONFIRM", "JUNK", "PUB", "KEY"}
                              ELSE {"CONFIRM", "JUNK", "READY"}

(* Skips, off by one in the number of lines.                               *)
SkipsOneMore ==
    IF lines < MaxLines
      THEN lines' = lines + 1 /\ hostWaited' = 0 /\ pauses' = 0 /\ UNCHANGED <<pc, outcome>>
      ELSE Goes("closed", "noise")

Skips ==
    IF lines + 1 < MaxLines
      THEN lines' = lines + 1 /\ hostWaited' = 0 /\ pauses' = 0 /\ UNCHANGED <<pc, outcome>>
      ELSE Goes("closed", "noise")

ReadSkip == Takes(Skipped) /\ Skips /\ UNCHANGED callVars

ReadGreeting ==
    /\ pc = "greeting" /\ Takes({"READY"})
    /\ Goes("ready", "none")
    /\ UNCHANGED callVars

ReadPublic ==
    /\ pc = "wait_pub" /\ Takes({"PUB"})
    /\ Goes("ready", "public")
    /\ UNCHANGED callVars

ReadKey ==
    /\ pc = "wait_key" /\ Takes({"KEY"})
    /\ Goes("ready", "key")
    /\ answer' = Head(toHost).req
    /\ UNCHANGED req

ReadFormat ==
    /\ \/ pc = "wait_pub" /\ Takes({"JUNK", "KEY"})
       \/ pc = "wait_key" /\ Takes({"JUNK", "PUB"})
    /\ Goes("closed", "format")
    /\ UNCHANGED callVars

(* ReadTimesOut, had only the greeting a timeout.                          *)
GreetingTimesOut ==
    /\ pc = "greeting" /\ toHost = <<>> /\ hostWaited = ReadTimeout
    /\ Goes("closed", "timeout")
    /\ UNCHANGED <<callVars, linkVars>>

ReadTimesOut ==
    /\ pc \in Waiting /\ toHost = <<>> /\ hostWaited = ReadTimeout /\ pauses = 0
    /\ Goes("closed", "timeout")
    /\ UNCHANGED <<callVars, linkVars>>

(* The serial timeout is one of each byte: some bytes of a line, and not   *)
(* its end, make readline wait anew.                                       *)
Trickle ==
    /\ pc \in Waiting /\ toHost = <<>>
    /\ pauses < MaxPauses /\ pauses' = pauses + 1 /\ hostWaited' = 0
    /\ UNCHANGED <<pc, callVars, outcome, lines, linkVars>>

(* A timeout after such bytes: readline returns what it has, and the piece *)
(* of a line is skipped, read as an error, or not what the call expects.   *)
ReadPartial ==
    /\ pc \in Waiting /\ toHost = <<>> /\ hostWaited = ReadTimeout /\ pauses > 0
    /\ \/ Skips
       \/ Goes("closed", "err")
       \/ pc # "greeting" /\ Goes("closed", "format")
    /\ UNCHANGED <<callVars, linkVars>>

-----------------------------------------------------------------------------
(* The end of a session: close(), the process is killed, the port is gone. *)

Close ==
    /\ pc = "ready" /\ Goes("closed", "closed")
    /\ UNCHANGED <<callVars, linkVars>>

Kill ==
    /\ pc # "closed" /\ Goes("closed", "killed")
    /\ UNCHANGED <<callVars, linkVars>>

PortGone ==
    /\ IF pc = "closed" THEN UNCHANGED <<pc, outcome, hostWaited, pauses, lines>>
                        ELSE Goes("closed", "usb")
    /\ UNCHANGED callVars

-----------------------------------------------------------------------------
Call      == CallPublic \/ CallDerive
ReadLine  == ReadErr \/ ReadSkip \/ ReadGreeting \/ ReadPublic \/ ReadKey
               \/ ReadFormat \/ ReadTimesOut \/ ReadPartial
=============================================================================

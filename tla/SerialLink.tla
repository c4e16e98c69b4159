----------------------------- MODULE SerialLink -----------------------------
(***************************************************************************)
(* The USB serial line between the host program and the dongle: the two    *)
(* byte streams of the line protocol, one record per line of text.  The    *)
(* firmware (module Dongle) and the host's client (module SerialClient)    *)
(* share the two streams.                                                  *)
(***************************************************************************)
EXTENDS Naturals, Sequences

CONSTANTS
    Requests,    \* the (peer key, salt) pairs a DERIVE command may carry
    Keys,        \* the P-256 private keys a dongle may hold
    NoRequest,   \* no request
    NoKey,       \* no private key
    MaxQueue     \* commands that fit in the dongle's receive buffer

ASSUME LinkAssumption ==
    /\ NoRequest \notin Requests
    /\ NoKey \notin Keys
    /\ MaxQueue \in Nat \ {0}

VARIABLES
    toDongle,    \* command lines the firmware has not read
    toHost       \* reply lines the host has not read

linkVars == <<toDongle, toHost>>

(* Commands.  BAD is a line the firmware does not recognise or whose       *)
(* arguments it rejects; PART is the beginning of a line whose end was     *)
(* never written.                                                          *)
Command(op, r) == [op |-> op, req |-> r]
Hello     == Command("HELLO", NoRequest)
Public    == Command("PUBLIC", NoRequest)
Derive(r) == Command("DERIVE", r)
Bad       == Command("BAD", NoRequest)
Part      == Command("PART", NoRequest)

ClientCommands == {Hello, Public} \cup {Derive(r) : r \in Requests}
Commands == ClientCommands \cup {Bad, Part}

(* Reply lines.  A PUB or KEY line is known by the private key it was      *)
(* computed from, a KEY line also by the request it answers.  JUNK is a    *)
(* line that lost some of its bytes: USB checks what it delivers, so a     *)
(* damaged line is a shorter one, which no parser takes for a value.       *)
Line(tag, r, k) == [tag |-> tag, req |-> r, key |-> k]
Ready     == Line("READY", NoRequest, NoKey)
Err       == Line("ERR", NoRequest, NoKey)
Confirm   == Line("CONFIRM", NoRequest, NoKey)
Junk      == Line("JUNK", NoRequest, NoKey)
Pub(k)    == Line("PUB", NoRequest, k)
Key(r, k) == Line("KEY", r, k)

Lines == {Ready, Err, Confirm, Junk} \cup {Pub(k) : k \in Keys}
           \cup {Key(r, k) : r \in Requests, k \in Keys}

LinkTypeOK ==
    /\ toDongle \in Seq(Commands)
    /\ toHost \in Seq(Lines)

(* What the receive buffer holds once c has been written.  The firmware    *)
(* reads up to a newline, so what follows an unfinished line is read as    *)
(* part of it.                                                             *)
Deliver(q, c) ==
    IF q # <<>> /\ q[Len(q)] = Part
      THEN [q EXCEPT ![Len(q)] = IF c = Part THEN Part ELSE Bad]
      ELSE Append(q, c)

(* The first i - 1 and the remaining lines as they were, line i damaged.   *)
Garbled(q, i) == [q EXCEPT ![i] = Junk]
=============================================================================

-------------------------- MODULE DigitalKey_proofs --------------------------
(***************************************************************************)
(* Theorems about the dongle and the client joined by the line: the        *)
(* composition implements module Dongle and the promise KeyCall; a call    *)
(* only meets its own replies, unless a line is damaged or the board reset *)
(* in the session; a read only times out on a held BOOT; no call waits     *)
(* longer than its bound; and a session only ever sees one key.            *)
(***************************************************************************)
EXTENDS UnlockCall, Dongle_proofs

-----------------------------------------------------------------------------
(* What the proofs say of the two streams.                                 *)

HasDerive(q)     == \E i \in 1 .. Len(q) : q[i].op = "DERIVE"
OneDerive(q)     == \A i, j \in 1 .. Len(q) : q[i].op = "DERIVE" /\ q[j].op = "DERIVE" => i = j
DerivesFor(q, r) == \A i \in 1 .. Len(q) : q[i].op = "DERIVE" => q[i].req = r

HasReady(h)    == \E i \in 1 .. Len(h) : h[i].tag = "READY"
HasKey(h)      == \E i \in 1 .. Len(h) : h[i].tag = "KEY"
OneKey(h)      == \A i, j \in 1 .. Len(h) : h[i].tag = "KEY" /\ h[j].tag = "KEY" => i = j
KeysFor(h, r)  == \A i \in 1 .. Len(h) : h[i].tag = "KEY" => h[i].req = r
KeysFirst(h)   == \A i, j \in 1 .. Len(h) : h[i].tag = "READY" /\ h[j].tag = "KEY" => j < i

(* The inductive invariant behind KeyMatchesRequest, one conjunct per      *)
(* phase of a session.  At most one derivation is under way; the READY a   *)
(* greeting accepts comes after everything older sessions asked for; from  *)
(* then on the only DERIVE, derivation or KEY is that of the open call.    *)
LineInv ==
    /\ OneDerive(toDongle)
    /\ fw \in Deriving => ~HasDerive(toDongle)
    /\ pc = "greeting" =>
         /\ ~HasDerive(toDongle)
         /\ HasReady(toHost) => fw \notin Deriving
         /\ KeysFirst(toHost)
    /\ pc \in {"ready", "wait_pub"} =>
         ~HasDerive(toDongle) /\ fw \notin Deriving /\ ~HasKey(toHost)
    /\ pc = "wait_key" =>
         /\ DerivesFor(toDongle, req) /\ KeysFor(toHost, req) /\ OneKey(toHost)
         /\ fw \in Deriving => cur = req
         /\ HasKey(toHost) => ~HasDerive(toDongle) /\ fw \notin Deriving
    /\ pc # "closed" => fw # "off"
    /\ KeyMatchesRequest

-----------------------------------------------------------------------------
(* How each way of touching a stream moves these predicates.               *)

LEMMA EmptyQueue ==
    ~HasDerive(<<>>) /\ OneDerive(<<>>) /\ \A r : DerivesFor(<<>>, r)
  BY EmptySeq DEF HasDerive, OneDerive, DerivesFor

LEMMA EmptyLines ==
    ~HasReady(<<>>) /\ ~HasKey(<<>>) /\ OneKey(<<>>) /\ KeysFirst(<<>>)
      /\ \A r : KeysFor(<<>>, r)
  BY EmptySeq DEF HasReady, HasKey, OneKey, KeysFirst, KeysFor

LEMMA NoneIsOne ==
    ASSUME NEW q, ~HasDerive(q)
    PROVE  OneDerive(q) /\ \A r : DerivesFor(q, r)
  BY DEF HasDerive, OneDerive, DerivesFor

LEMMA NoKeyLine ==
    ASSUME NEW h, ~HasKey(h)
    PROVE  OneKey(h) /\ KeysFirst(h) /\ \A r : KeysFor(h, r)
  BY DEF HasKey, OneKey, KeysFirst, KeysFor

(* The firmware reads a command.                                           *)
LEMMA QueueTail ==
    ASSUME NEW q \in Seq(Commands), q # <<>>
    PROVE  /\ ~HasDerive(q) => ~HasDerive(Tail(q)) /\ Head(q).op # "DERIVE"
           /\ OneDerive(q) => OneDerive(Tail(q))
           /\ OneDerive(q) /\ Head(q).op = "DERIVE" => ~HasDerive(Tail(q))
           /\ \A r : DerivesFor(q, r) => DerivesFor(Tail(q), r)
           /\ \A r : DerivesFor(q, r) /\ Head(q).op = "DERIVE" => Head(q).req = r
<1>1. /\ Len(q) \in Nat \ {0}
      /\ Len(Tail(q)) = Len(q) - 1
      /\ \A i \in 1 .. Len(Tail(q)) : Tail(q)[i] = q[i + 1]
  BY EmptySeq, HeadTailProperties
<1>2. Head(q) = q[1]
  OBVIOUS
<1>3. \A i \in 1 .. Len(Tail(q)) : i + 1 \in 1 .. Len(q) /\ i + 1 # 1
  BY <1>1
<1>4. 1 \in 1 .. Len(q)
  BY <1>1
<1>5. ~HasDerive(q) => ~HasDerive(Tail(q)) /\ Head(q).op # "DERIVE"
  BY <1>1, <1>2, <1>3, <1>4 DEF HasDerive
<1>6. OneDerive(q) => OneDerive(Tail(q))
  <2> SUFFICES ASSUME OneDerive(q), NEW i \in 1 .. Len(Tail(q)), NEW j \in 1 .. Len(Tail(q)),
                      Tail(q)[i].op = "DERIVE", Tail(q)[j].op = "DERIVE"
               PROVE  i = j
    BY DEF OneDerive
  <2>1. i + 1 = j + 1
    BY <1>1, <1>3 DEF OneDerive
  <2> QED
    BY <2>1, <1>1
<1>7. OneDerive(q) /\ Head(q).op = "DERIVE" => ~HasDerive(Tail(q))
  BY <1>1, <1>2, <1>3, <1>4 DEF OneDerive, HasDerive
<1>8. \A r : DerivesFor(q, r) => DerivesFor(Tail(q), r)
  BY <1>1, <1>3 DEF DerivesFor
<1>9. \A r : DerivesFor(q, r) /\ Head(q).op = "DERIVE" => Head(q).req = r
  BY <1>2, <1>4 DEF DerivesFor
<1> QED
  BY <1>5, <1>6, <1>7, <1>8, <1>9

(* The host writes a command, whole or in part.                            *)
LEMMA QueueDeliver ==
    ASSUME NEW q \in Seq(Commands), NEW c \in Commands
    PROVE  /\ ~HasDerive(q) /\ c.op # "DERIVE" => ~HasDerive(Deliver(q, c))
           /\ OneDerive(q) /\ c.op # "DERIVE" => OneDerive(Deliver(q, c))
           /\ ~HasDerive(q) => OneDerive(Deliver(q, c)) /\ DerivesFor(Deliver(q, c), c.req)
<1>0. Part.op # "DERIVE" /\ Bad.op # "DERIVE"
  BY DEF Part, Bad, Command
<1>1. CASE q # <<>> /\ q[Len(q)] = Part
  <2> DEFINE e == IF c = Part THEN Part ELSE Bad
  <2>1. e \in Commands /\ e.op # "DERIVE"
    BY <1>0 DEF Commands
  <2>2. Deliver(q, c) = [q EXCEPT ![Len(q)] = e]
    BY <1>1 DEF Deliver
  <2>3. Len(q) \in 1 .. Len(q)
    BY <1>1, EmptySeq
  <2> HIDE DEF e
  <2>4. /\ Len(Deliver(q, c)) = Len(q)
        /\ \A j \in 1 .. Len(q) : Deliver(q, c)[j] = IF j = Len(q) THEN e ELSE q[j]
    BY <2>1, <2>2, <2>3, ExceptSeq
  <2> QED
    BY <2>1, <2>4 DEF HasDerive, OneDerive, DerivesFor
<1>2. CASE ~(q # <<>> /\ q[Len(q)] = Part)
  <2>1. Deliver(q, c) = Append(q, c)
    BY <1>2 DEF Deliver
  <2>2. /\ Len(q) \in Nat
        /\ Len(Deliver(q, c)) = Len(q) + 1
        /\ \A j \in 1 .. Len(q) + 1 : Deliver(q, c)[j] = IF j = Len(q) + 1 THEN c ELSE q[j]
    BY <2>1, AppendProperties, LenProperties
  <2>3. \A j \in 1 .. Len(q) + 1 : j # Len(q) + 1 => j \in 1 .. Len(q)
    BY <2>2
  <2> QED
    BY <2>2, <2>3 DEF HasDerive, OneDerive, DerivesFor
<1> QED
  BY <1>1, <1>2

(* The host reads a line.                                                  *)
LEMMA LinesTail ==
    ASSUME NEW h \in Seq(Lines), h # <<>>
    PROVE  /\ HasReady(Tail(h)) => HasReady(h)
           /\ HasKey(Tail(h)) => HasKey(h)
           /\ Head(h).tag = "READY" => HasReady(h)
           /\ Head(h).tag = "KEY" => HasKey(h)
           /\ OneKey(h) => OneKey(Tail(h))
           /\ OneKey(h) /\ Head(h).tag = "KEY" => ~HasKey(Tail(h))
           /\ KeysFirst(h) => KeysFirst(Tail(h))
           /\ KeysFirst(h) /\ Head(h).tag = "READY" => ~HasKey(Tail(h))
           /\ \A r : KeysFor(h, r) => KeysFor(Tail(h), r)
           /\ \A r : KeysFor(h, r) /\ Head(h).tag = "KEY" => Head(h).req = r
<1>1. /\ Len(h) \in Nat \ {0}
      /\ Len(Tail(h)) = Len(h) - 1
      /\ \A i \in 1 .. Len(Tail(h)) : Tail(h)[i] = h[i + 1]
  BY EmptySeq, HeadTailProperties
<1>2. Head(h) = h[1]
  OBVIOUS
<1>3. \A i \in 1 .. Len(Tail(h)) : i + 1 \in 1 .. Len(h) /\ i + 1 # 1 /\ ~(i + 1 < 1)
  BY <1>1
<1>4. 1 \in 1 .. Len(h)
  BY <1>1
<1>5. /\ HasReady(Tail(h)) => HasReady(h)
      /\ Head(h).tag = "READY" => HasReady(h)
  BY <1>1, <1>2, <1>3, <1>4 DEF HasReady
<1>6. /\ HasKey(Tail(h)) => HasKey(h)
      /\ Head(h).tag = "KEY" => HasKey(h)
  BY <1>1, <1>2, <1>3, <1>4 DEF HasKey
<1>7. OneKey(h) => OneKey(Tail(h))
  <2> SUFFICES ASSUME OneKey(h), NEW i \in 1 .. Len(Tail(h)), NEW j \in 1 .. Len(Tail(h)),
                      Tail(h)[i].tag = "KEY", Tail(h)[j].tag = "KEY"
               PROVE  i = j
    BY DEF OneKey
  <2>1. i + 1 = j + 1
    BY <1>1, <1>3 DEF OneKey
  <2> QED
    BY <2>1, <1>1
<1>8. OneKey(h) /\ Head(h).tag = "KEY" => ~HasKey(Tail(h))
  BY <1>1, <1>2, <1>3, <1>4 DEF OneKey, HasKey
<1>9. KeysFirst(h) => KeysFirst(Tail(h))
  <2> SUFFICES ASSUME KeysFirst(h), NEW i \in 1 .. Len(Tail(h)), NEW j \in 1 .. Len(Tail(h)),
                      Tail(h)[i].tag = "READY", Tail(h)[j].tag = "KEY"
               PROVE  j < i
    BY DEF KeysFirst
  <2>1. j + 1 < i + 1
    BY <1>1, <1>3 DEF KeysFirst
  <2> QED
    BY <2>1, <1>1
<1>10. KeysFirst(h) /\ Head(h).tag = "READY" => ~HasKey(Tail(h))
  BY <1>1, <1>2, <1>3, <1>4 DEF KeysFirst, HasKey
<1>11. /\ \A r : KeysFor(h, r) => KeysFor(Tail(h), r)
       /\ \A r : KeysFor(h, r) /\ Head(h).tag = "KEY" => Head(h).req = r
  BY <1>1, <1>2, <1>3, <1>4 DEF KeysFor
<1> QED
  BY <1>5, <1>6, <1>7, <1>8, <1>9, <1>10, <1>11

(* The firmware writes a line.                                             *)
LEMMA LinesAppend ==
    ASSUME NEW h \in Seq(Lines), NEW l \in Lines
    PROVE  /\ HasReady(Append(h, l)) => HasReady(h) \/ l.tag = "READY"
           /\ HasKey(Append(h, l)) => HasKey(h) \/ l.tag = "KEY"
           /\ l.tag # "KEY" /\ OneKey(h) => OneKey(Append(h, l))
           /\ l.tag # "KEY" /\ KeysFirst(h) => KeysFirst(Append(h, l))
           /\ ~HasReady(h) /\ l.tag = "KEY" => KeysFirst(Append(h, l))
           /\ ~HasKey(h) => OneKey(Append(h, l))
           /\ \A r : l.tag # "KEY" /\ KeysFor(h, r) => KeysFor(Append(h, l), r)
           /\ ~HasKey(h) => KeysFor(Append(h, l), l.req)
<1>1. /\ Len(h) \in Nat
      /\ Len(Append(h, l)) = Len(h) + 1
      /\ \A i \in 1 .. Len(h) + 1 : Append(h, l)[i] = IF i = Len(h) + 1 THEN l ELSE h[i]
  BY AppendLine, LenProperties
<1>2. \A i \in 1 .. Len(h) + 1 : i # Len(h) + 1 => i \in 1 .. Len(h) /\ i < Len(h) + 1
  BY <1>1
<1>3. /\ HasReady(Append(h, l)) => HasReady(h) \/ l.tag = "READY"
      /\ HasKey(Append(h, l)) => HasKey(h) \/ l.tag = "KEY"
  BY <1>1, <1>2 DEF HasReady, HasKey
<1>4. /\ l.tag # "KEY" /\ OneKey(h) => OneKey(Append(h, l))
      /\ ~HasKey(h) => OneKey(Append(h, l))
  BY <1>1, <1>2 DEF OneKey, HasKey
<1>5. /\ l.tag # "KEY" /\ KeysFirst(h) => KeysFirst(Append(h, l))
      /\ ~HasReady(h) /\ l.tag = "KEY" => KeysFirst(Append(h, l))
  BY <1>1, <1>2 DEF KeysFirst, HasReady
<1>6. /\ \A r : l.tag # "KEY" /\ KeysFor(h, r) => KeysFor(Append(h, l), r)
      /\ ~HasKey(h) => KeysFor(Append(h, l), l.req)
  BY <1>1, <1>2 DEF KeysFor, HasKey
<1> QED
  BY <1>3, <1>4, <1>5, <1>6

(* Lines are damaged, or the newest is lost.                               *)
LEMMA LinesDamaged ==
    ASSUME NEW h \in Seq(Lines), NEW g \in Seq(Lines), Len(g) \leq Len(h),
           \A i \in 1 .. Len(g) : g[i] = h[i] \/ g[i] = Junk
    PROVE  /\ HasReady(g) => HasReady(h)
           /\ HasKey(g) => HasKey(h)
           /\ OneKey(h) => OneKey(g)
           /\ KeysFirst(h) => KeysFirst(g)
           /\ \A r : KeysFor(h, r) => KeysFor(g, r)
<1>1. \A i \in 1 .. Len(g) : i \in 1 .. Len(h)
  BY LenProperties
<1>2. Junk.tag = "JUNK"
  BY DEF Junk, Line
<1> QED
  BY <1>1, <1>2 DEF HasReady, HasKey, OneKey, KeysFirst, KeysFor

-----------------------------------------------------------------------------
(* The composition implements module Dongle.                               *)

(* A session that is open has its dongle plugged in.                       *)
Plugged == pc # "closed" => fw # "off"

LEMMA PluggedStep ==
    ASSUME Plugged, [Next]_vars
    PROVE  Plugged'
<1> USE DEF Plugged, dongleVars, fwVars, clientVars
<1>1. CASE Firmware
  BY <1>1 DEF Firmware, FirmwareStep, Boot, Serve, Confirming, LoadKey, GenerateKey, SaveKey,
     BootFails, AnswerHello, RejectUnready, RejectBad, AnswerPublic, StartDerive, Reads,
     Sample, PollReleased, PollPressed, Debounce, Released, Expire, Compute
<1>2. CASE Power
  BY <1>2 DEF Power, PlugIn, Unplug, Reset, PortGone, Goes
<1>3. CASE Finger
  BY <1>3 DEF Finger, Press, Release
<1>4. CASE Open
  BY <1>4 DEF Open, OpenPort, Goes, Reset
<1>5. CASE SayHello
  BY <1>5 DEF SayHello, Greet
<1>6. CASE Client
  BY <1>6 DEF Client, Call, ReadLine, Close, Kill, CallPublic, CallDerive, Writes, ReadErr,
     ReadSkip, ReadGreeting, ReadPublic, ReadKey, ReadFormat, ReadTimesOut, ReadPartial, Skips,
     Takes, Goes, Waiting
<1>7. CASE WriteError
  BY <1>7 DEF WriteError, WriteFails, Goes
<1>8. CASE Damage \/ Drip
  BY <1>8 DEF Damage, Drip, Trickle
<1>9. CASE Tick
  BY <1>9 DEF Tick
<1>10. CASE UNCHANGED vars
  BY <1>10 DEF vars
<1> QED
  BY <1>1, <1>2, <1>3, <1>4, <1>5, <1>6, <1>7, <1>8, <1>9, <1>10 DEF Next

(* Every step of the composition is a step of the firmware, of its owner   *)
(* or of some host, or leaves the dongle alone.                            *)
LEMMA StepImplements ==
    ASSUME TypeInv, Plugged, [Next]_vars
    PROVE  [DongleNext]_dongleVars
<1> USE DEF DongleNext, Owner, Host
<1>1. CASE Firmware
  BY <1>1 DEF Firmware
<1>2. CASE Power
  BY <1>2 DEF Power
<1>3. CASE Finger
  BY <1>3 DEF Finger
<1>4. CASE Open
  BY <1>4 DEF Open
<1>5. CASE SayHello
  <2>1. fw # "off"
    BY <1>5 DEF SayHello, Settled
  <2>2. HostWrites
    BY <1>5, <2>1 DEF SayHello, Greet, HostWrites, ClientCommands
  <2> QED
    BY <2>2
<1>6. CASE Client
  <2>1. CASE Call
    <3>1. fw # "off"
      BY <2>1 DEF Call, CallPublic, CallDerive, Writes, Plugged
    <3>2. HostWrites
      BY <1>6, <2>1, <3>1 DEF Client, Call, CallPublic, CallDerive, Writes, HostWrites, ClientCommands
    <3> QED
      BY <3>2
  <2>2. CASE ReadTimesOut \/ ReadPartial \/ Close \/ Kill
    BY <1>6, <2>2 DEF Client, ReadTimesOut, ReadPartial, Close, Kill, dongleVars
  <2>3. CASE ReadErr \/ ReadSkip \/ ReadGreeting \/ ReadPublic \/ ReadKey \/ ReadFormat
    <3>1. HostReads
      BY <1>6, <2>3 DEF Client, ReadErr, ReadSkip, ReadGreeting, ReadPublic, ReadKey, ReadFormat,
         Takes, HostReads
    <3> QED
      BY <3>1
  <2> QED
    BY <1>6, <2>1, <2>2, <2>3 DEF Client, ReadLine
<1>7. CASE WriteError
  <2>1. toHost' \in {toHost, <<>>} /\ UNCHANGED fwVars
    BY <1>7 DEF WriteError, WriteFails
  <2>2. CASE UNCHANGED toDongle
    BY <2>1, <2>2 DEF HostReads, dongleVars, linkVars
  <2>3. CASE ~UNCHANGED toDongle
    <3>1. fw # "off"
      BY <1>7 DEF WriteError, WriteFails, Plugged
    <3>2. Len(toDongle) < MaxQueue
      BY <1>7, <2>3 DEF WriteError, WriteFails
    <3>3. \E c \in ClientCommands \cup {Part} : toDongle' = Deliver(toDongle, c)
      BY <1>7, <2>3 DEF WriteError, WriteFails, Intended, ClientCommands
    <3>4. HostWrites
      BY <2>1, <3>1, <3>2, <3>3 DEF HostWrites
    <3> QED
      BY <3>4
  <2> QED
    BY <2>2, <2>3
<1>8. CASE Damage
  <2>1. HostReads
    BY <1>8 DEF Damage, HostReads
  <2> QED
    BY <2>1
<1>9. CASE Tick
  <2>1. CASE fw = "confirm"
    <3>1. DongleTick
      BY <1>9, <2>1 DEF Tick, FirmwareQuiet, DongleTick
    <3> QED
      BY <3>1
  <2>2. CASE fw # "confirm"
    BY <1>9, <2>2 DEF Tick, dongleVars, fwVars, waitVars
  <2> QED
    BY <2>1, <2>2
<1>10. CASE Drip \/ UNCHANGED vars
  BY <1>10 DEF Drip, Trickle, dongleVars, vars
<1> QED
  BY <1>1, <1>2, <1>3, <1>4, <1>5, <1>6, <1>7, <1>8, <1>9, <1>10 DEF Next

(* Whatever the client, its crashes and the line do, the firmware behaves  *)
(* as module Dongle says: its theorems hold of the composition.            *)
THEOREM CompositionImplementsDongle == Spec => ImplementsDongle
<1>1. Init => DongleInit /\ Plugged /\ TypeInv
  BY TypeInit DEF Init, ClientInit, Plugged
<1>2. Plugged /\ [Next]_vars => Plugged'
  BY PluggedStep
<1>3. TypeInv /\ Plugged /\ [Next]_vars => [DongleNext]_dongleVars
  BY StepImplements
<1>4. TypeInv /\ [DongleNext]_dongleVars => TypeInv'
  BY TypeStep
<1> QED
  BY <1>1, <1>2, <1>3, <1>4, PTL DEF Spec, ImplementsDongle, DongleSpec

-----------------------------------------------------------------------------
(* derive_key returns the key of its own request.                          *)

LEMMA LineInit == Init => LineInv
  BY EmptyQueue, EmptyLines DEF Init, DongleInit, ClientInit, LineInv, KeyMatchesRequest, Deriving

(* Steps of the firmware.  Reading a command only starts a derivation when *)
(* the command is a DERIVE, and only the end of one writes a KEY line.     *)
LEMMA FirmwareLine ==
    ASSUME TypeInv, LineInv, Firmware
    PROVE  LineInv'
<1> USE DEF TypeInv, DongleTypeOK, LinkTypeOK
<1>0. /\ UNCHANGED <<pc, req, answer, outcome>>
      /\ Len(toHost) \in Nat
  BY LenProperties DEF Firmware, clientVars, callVars
<1>1. Ready.tag = "READY" /\ Err.tag = "ERR" /\ Confirm.tag = "CONFIRM"
      /\ (\A k : Pub(k).tag = "PUB")
      /\ (\A r, k : Key(r, k).tag = "KEY" /\ Key(r, k).req = r)
  BY DEF Ready, Err, Confirm, Pub, Key, Line
<1>2. CASE Boot
  <2>1. /\ fw \notin Deriving /\ fw' \notin Deriving /\ fw' # "off"
        /\ UNCHANGED toDongle
    BY <1>2 DEF Boot, LoadKey, GenerateKey, SaveKey, BootFails, Deriving, linkVars
  <2>2. toHost' = toHost \/ Say(Ready) \/ Say(Err)
    BY <1>2 DEF Boot, LoadKey, GenerateKey, SaveKey, BootFails, linkVars
  <2>3. \E l \in Lines : l.tag # "KEY" /\ (toHost' = toHost \/ toHost' = Append(toHost, l))
    BY <2>2, <1>1, ReplyTypes DEF Say
  <2> QED
    BY <1>0, <2>1, <2>3, LinesAppend DEF LineInv, KeyMatchesRequest
<1>3. CASE Serve
  <2>1. /\ fw = "idle" /\ toDongle # <<>> /\ toDongle' = Tail(toDongle)
    BY <1>3 DEF Serve, AnswerHello, RejectUnready, RejectBad, AnswerPublic, StartDerive, Reads
  <2>2. \E l \in Lines : l.tag # "KEY" /\ toHost' = Append(toHost, l)
    BY <1>1, <1>3, ReplyTypes
       DEF Serve, AnswerHello, RejectUnready, RejectBad, AnswerPublic, StartDerive, Say
  <2>3. CASE StartDerive
    <3>1. /\ Head(toDongle).op = "DERIVE" /\ cur' = Head(toDongle).req
          /\ fw' = "prompted" /\ Say(Confirm)
      BY <2>3 DEF StartDerive, Reads
    <3>2. HasReady(toHost') => HasReady(toHost)
      BY <1>1, <3>1, ReplyTypes, LinesAppend DEF Say
    <3>3. HasDerive(toDongle)
      BY <2>1, <3>1, QueueTail
    <3> QED
      BY <1>0, <2>1, <2>2, <3>1, <3>2, <3>3, QueueTail, LinesAppend
         DEF LineInv, KeyMatchesRequest, Deriving
  <2>4. CASE AnswerHello \/ RejectUnready \/ RejectBad \/ AnswerPublic
    <3>1. fw' = "idle"
      BY <2>1, <2>4 DEF AnswerHello, RejectUnready, RejectBad, AnswerPublic, fwVars
    <3> QED
      BY <1>0, <2>1, <2>2, <3>1, QueueTail, LinesAppend
         DEF LineInv, KeyMatchesRequest, Deriving
  <2> QED
    BY <1>3, <2>3, <2>4 DEF Serve
<1>4. CASE Sample \/ PollReleased \/ PollPressed \/ Debounce \/ Released
  <2>1. fw \in Deriving /\ fw' \in Deriving /\ UNCHANGED <<cur, toDongle, toHost>>
    BY <1>4 DEF Sample, PollReleased, PollPressed, Debounce, Released, Deriving, linkVars
  <2> QED
    BY <1>0, <2>1 DEF LineInv, KeyMatchesRequest, Deriving
<1>5. CASE Expire
  <2>1. fw \in Deriving /\ fw' = "idle" /\ UNCHANGED toDongle
        /\ toHost' = Append(toHost, Err)
    BY <1>5 DEF Expire, Say, Deriving
  <2> QED
    BY <1>0, <1>1, <2>1, ReplyTypes, LinesAppend DEF LineInv, KeyMatchesRequest, Deriving
<1>6. CASE Compute
  <2>1. fw \in Deriving /\ fw' = "idle" /\ UNCHANGED toDongle
    BY <1>6 DEF Compute, Deriving
  <2>2. \/ toHost' = Append(toHost, Key(cur, key))
        \/ toHost' = Append(toHost, Err)
    BY <1>6 DEF Compute, Say
  <2>3. Key(cur, key) \in Lines
    BY <2>1, ReplyTypes
  <2>4. CASE toHost' = Append(toHost, Err)
    BY <1>0, <1>1, <2>1, <2>4, ReplyTypes, LinesAppend DEF LineInv, KeyMatchesRequest, Deriving
  <2>5. CASE toHost' = Append(toHost, Key(cur, key))
    <3>1. /\ ~HasReady(toHost) => KeysFirst(toHost')
          /\ ~HasKey(toHost) => OneKey(toHost') /\ KeysFor(toHost', cur)
      BY <1>1, <2>3, <2>5, LinesAppend
    <3> QED
      BY <1>0, <2>1, <3>1 DEF LineInv, KeyMatchesRequest, Deriving
  <2> QED
    BY <2>2, <2>4, <2>5
<1> QED
  BY <1>2, <1>3, <1>4, <1>5, <1>6 DEF Firmware, FirmwareStep, Confirming

(* Steps of the client.                                                    *)
LEMMA ClientLine ==
    ASSUME TypeInv, LineInv, Client
    PROVE  LineInv'
<1> USE DEF TypeInv, DongleTypeOK, LinkTypeOK
<1>0. UNCHANGED <<fw, cur>>
  BY DEF Client, fwVars
<1>1. CASE CallPublic
  <2>1. /\ pc = "ready" /\ pc' = "wait_pub" /\ outcome' = "none"
        /\ toDongle' = Deliver(toDongle, Public) /\ UNCHANGED toHost
    BY <1>1 DEF CallPublic, Writes, Goes
  <2>2. Public \in Commands /\ Public.op # "DERIVE"
    BY DEF Commands, ClientCommands, Public, Command
  <2> QED
    BY <1>0, <2>1, <2>2, QueueDeliver DEF LineInv, KeyMatchesRequest
<1>2. CASE CallDerive
  <2>1. PICK r \in Requests : Writes(Derive(r)) /\ req' = r
    BY <1>2 DEF CallDerive
  <2>2. /\ pc = "ready" /\ pc' = "wait_key" /\ outcome' = "none"
        /\ toDongle' = Deliver(toDongle, Derive(r)) /\ UNCHANGED toHost
    BY <1>2, <2>1 DEF CallDerive, Writes, Goes
  <2>3. Derive(r) \in Commands /\ Derive(r).req = r
    BY DEF Commands, ClientCommands, Derive, Command
  <2>4. OneDerive(toDongle') /\ DerivesFor(toDongle', req')
    BY <2>1, <2>2, <2>3, QueueDeliver DEF LineInv
  <2> QED
    BY <1>0, <2>2, <2>4, NoKeyLine DEF LineInv, KeyMatchesRequest
<1>3. CASE ReadLine
  <2>1. CASE ReadTimesOut
    BY <1>0, <2>1 DEF ReadTimesOut, Goes, LineInv, KeyMatchesRequest, linkVars
  <2>7. CASE ReadPartial
    <3>1. /\ UNCHANGED <<toHost, toDongle, req, answer>>
          /\ \/ UNCHANGED <<pc, outcome>>
             \/ pc' = "closed" /\ outcome' \in {"noise", "err", "format"}
      BY <2>7 DEF ReadPartial, Skips, Goes, callVars, linkVars
    <3> QED
      BY <1>0, <3>1 DEF LineInv, KeyMatchesRequest
  <2>2. CASE ReadErr \/ ReadFormat
    BY <1>0, <2>2 DEF ReadErr, ReadFormat, Takes, Goes, LineInv, KeyMatchesRequest
  <2>3. CASE ReadSkip
    <3>1. /\ toHost # <<>> /\ toHost' = Tail(toHost) /\ UNCHANGED <<toDongle, req, answer>>
          /\ UNCHANGED <<pc, outcome>> \/ (pc' = "closed" /\ outcome' = "noise")
      BY <2>3 DEF ReadSkip, Skips, Takes, Goes, callVars
    <3> QED
      BY <1>0, <3>1, LinesTail DEF LineInv, KeyMatchesRequest
  <2>4. CASE ReadGreeting
    <3>1. /\ toHost # <<>> /\ toHost' = Tail(toHost) /\ Head(toHost).tag = "READY"
          /\ pc = "greeting" /\ pc' = "ready" /\ outcome' = "none" /\ UNCHANGED toDongle
      BY <2>4 DEF ReadGreeting, Takes, Goes
    <3> QED
      BY <1>0, <3>1, LinesTail DEF LineInv, KeyMatchesRequest
  <2>5. CASE ReadPublic
    <3>1. /\ toHost # <<>> /\ toHost' = Tail(toHost)
          /\ pc = "wait_pub" /\ pc' = "ready" /\ outcome' = "public" /\ UNCHANGED toDongle
      BY <2>5 DEF ReadPublic, Takes, Goes
    <3> QED
      BY <1>0, <3>1, LinesTail DEF LineInv, KeyMatchesRequest
  <2>6. CASE ReadKey
    <3>1. /\ toHost # <<>> /\ toHost' = Tail(toHost) /\ Head(toHost).tag = "KEY"
          /\ pc = "wait_key" /\ pc' = "ready"
          /\ answer' = Head(toHost).req /\ UNCHANGED <<req, toDongle>>
      BY <2>6 DEF ReadKey, Takes, Goes
    <3> QED
      BY <1>0, <3>1, LinesTail DEF LineInv, KeyMatchesRequest
  <2> QED
    BY <1>3, <2>1, <2>2, <2>3, <2>4, <2>5, <2>6, <2>7 DEF ReadLine
<1>4. CASE Close \/ Kill
  BY <1>0, <1>4 DEF Close, Kill, Goes, LineInv, KeyMatchesRequest, linkVars
<1> QED
  BY <1>1, <1>2, <1>3, <1>4 DEF Client, Call

(* The sleep of the constructor: when it says HELLO, no DERIVE waits.      *)
LEMMA SettledQueue ==
    ASSUME LineInv, Settled
    PROVE  ~HasDerive(toDongle)
  BY EmptyQueue DEF LineInv, Settled, Deriving

LEMMA GreetLine ==
    ASSUME TypeInv, LineInv, SayHello
    PROVE  LineInv'
<1>1. /\ pc' = "greeting" /\ outcome' = "none" /\ UNCHANGED <<fw, cur>>
      /\ toHost' = <<>> /\ toDongle' = Deliver(toDongle, Hello)
  BY DEF SayHello, Greet, Goes, fwVars
<1>2. Hello \in Commands /\ Hello.op # "DERIVE"
  BY DEF Commands, ClientCommands, Hello, Command
<1>3. ~HasDerive(toDongle) /\ fw \notin {"off"}
  BY SettledQueue DEF SayHello, Settled
<1>4. ~HasDerive(toDongle')
  BY <1>1, <1>2, <1>3, QueueDeliver DEF TypeInv, DongleTypeOK, LinkTypeOK
<1> QED
  BY <1>1, <1>3, <1>4, EmptyLines, NoneIsOne DEF LineInv, KeyMatchesRequest

LEMMA WriteErrorLine ==
    ASSUME TypeInv, LineInv, WriteError
    PROVE  LineInv'
<1>1. /\ pc \in {"opening", "ready"} /\ pc' = "closed" /\ outcome' = "write"
      /\ UNCHANGED <<fw, cur>>
  BY DEF WriteError, WriteFails, Goes, fwVars
<1>2. ~HasDerive(toDongle) /\ (pc = "ready" => fw \notin Deriving)
  BY <1>1, SettledQueue DEF WriteError, LineInv
<1>3. OneDerive(toDongle') /\ (fw \in Deriving => ~HasDerive(toDongle'))
  <2>1. CASE UNCHANGED toDongle
    BY <1>2, <2>1 DEF LineInv
  <2>2. CASE \E c \in Intended \cup {Part} : toDongle' = Deliver(toDongle, c)
    <3>1. PICK c \in Intended \cup {Part} : toDongle' = Deliver(toDongle, c)
      BY <2>2
    <3>2. c \in Commands /\ (pc = "opening" => c.op # "DERIVE")
      BY <3>1 DEF Intended, Commands, ClientCommands, Hello, Part, Command
    <3> QED
      BY <1>1, <1>2, <3>1, <3>2, QueueDeliver DEF TypeInv, DongleTypeOK, LinkTypeOK
  <2> QED
    BY <2>1, <2>2 DEF WriteError, WriteFails
<1> QED
  BY <1>1, <1>3 DEF LineInv, KeyMatchesRequest

(* Damage adds no READY and no KEY to what the host has received.          *)
LEMMA DamageKeeps ==
    ASSUME TypeInv, Damage
    PROVE  /\ HasReady(toHost') => HasReady(toHost)
           /\ HasKey(toHost') => HasKey(toHost)
           /\ OneKey(toHost) => OneKey(toHost')
           /\ KeysFirst(toHost) => KeysFirst(toHost')
           /\ \A r : KeysFor(toHost, r) => KeysFor(toHost', r)
<1> USE DEF TypeInv, DongleTypeOK, LinkTypeOK
<1>0. Len(toHost) \in Nat \ {0}
  BY EmptySeq DEF Damage
<1>1. /\ toHost' \in Seq(Lines)
      /\ Len(toHost') \leq Len(toHost)
      /\ \A i \in 1 .. Len(toHost') : toHost'[i] = toHost[i] \/ toHost'[i] = Junk
  <2>1. CASE \E i \in 1 .. Len(toHost) : toHost' = Garbled(toHost, i)
    BY <1>0, <2>1, GarbledLine
  <2>2. CASE toHost' = SubSeq(toHost, 1, Len(toHost) - 1)
    <3>1. /\ toHost' \in Seq(Lines)
          /\ Len(toHost') = Len(toHost) - 1
          /\ \A j \in 1 .. Len(toHost) - 1 : toHost'[j] = toHost[j]
      BY <2>2, LoseLast DEF Damage
    <3> QED
      BY <1>0, <3>1
  <2> QED
    BY <2>1, <2>2 DEF Damage
<1> QED
  BY <1>1, LinesDamaged

LEMMA DamageLine ==
    ASSUME TypeInv, LineInv, Damage
    PROVE  LineInv'
<1>1. UNCHANGED <<toDongle, fw, cur, pc, req, answer, outcome>>
  BY DEF Damage, fwVars, clientVars, callVars
<1> QED
  BY <1>1, DamageKeeps DEF LineInv, KeyMatchesRequest

LEMMA LineStep ==
    ASSUME TypeInv, LineInv, [Next]_vars
    PROVE  LineInv'
<1>1. CASE Power
  <2>1. CASE PlugIn /\ UNCHANGED <<clientVars, disturbed>>
    BY <2>1 DEF PlugIn, clientVars, callVars, linkVars, LineInv, KeyMatchesRequest, Deriving
  <2>2. CASE Unplug /\ PortGone
    BY <2>2, EmptyQueue DEF Unplug, PortGone, Goes, callVars, LineInv, KeyMatchesRequest, Deriving
  <2>3. CASE Reset /\ UNCHANGED clientVars
    BY <2>3, EmptyQueue DEF Reset, clientVars, callVars, LineInv, KeyMatchesRequest, Deriving
  <2> QED
    BY <1>1, <2>1, <2>2, <2>3 DEF Power
<1>2. CASE Finger
  BY <1>2 DEF Finger, Press, Release, clientVars, callVars, linkVars, LineInv, KeyMatchesRequest
<1>3. CASE Open
  <2>1. pc' = "opening" /\ outcome' = "none" /\ fw # "off"
    BY <1>3 DEF Open, OpenPort, Goes
  <2>2. CASE Reset
    BY <2>1, <2>2, EmptyQueue DEF Reset, LineInv, KeyMatchesRequest, Deriving
  <2>3. CASE UNCHANGED dongleVars
    BY <2>1, <2>3 DEF dongleVars, fwVars, linkVars, LineInv, KeyMatchesRequest
  <2> QED
    BY <1>3, <2>2, <2>3 DEF Open
<1>4. CASE Tick \/ Drip
  BY <1>4 DEF Tick, Drip, Trickle, fwVars, callVars, linkVars, LineInv, KeyMatchesRequest
<1>5. CASE UNCHANGED vars
  BY <1>5 DEF vars, dongleVars, fwVars, linkVars, clientVars, callVars, LineInv, KeyMatchesRequest
<1> QED
  BY <1>1, <1>2, <1>3, <1>4, <1>5, FirmwareLine, ClientLine, GreetLine, WriteErrorLine,
     DamageLine DEF Next

(* In every behaviour, for any number of sessions, kills, resets, partial  *)
(* writes and damaged lines, a key that derive_key returns was derived for *)
(* the request of that call.                                               *)
THEOREM KeyAlwaysMatches == Spec => []KeyMatchesRequest
<1>1. Init => TypeInv /\ Plugged /\ LineInv
  BY TypeInit, LineInit DEF Init, ClientInit, Plugged
<1>2. TypeInv /\ Plugged /\ LineInv /\ [Next]_vars => (TypeInv /\ Plugged /\ LineInv)'
  BY StepImplements, TypeStep, PluggedStep, LineStep
<1>3. LineInv => KeyMatchesRequest
  BY DEF LineInv
<1> QED
  BY <1>1, <1>2, <1>3, PTL DEF Spec

-----------------------------------------------------------------------------
(* The client's variables, and what the composition inherits.              *)

LEMMA ClientTypeStep ==
    ASSUME TypeInv, ClientTypeOK, [Next]_vars
    PROVE  ClientTypeOK'
<1> USE ClientAssumption DEF ClientTypeOK, Waiting, Outcomes, callVars
<1>1. CASE Firmware \/ Finger \/ Damage \/ UNCHANGED vars
  BY <1>1 DEF Firmware, Finger, Damage, vars, clientVars
<1>2. CASE Power
  BY <1>2 DEF Power, PortGone, Goes, clientVars
<1>3. CASE Open \/ SayHello
  BY <1>3 DEF Open, OpenPort, SayHello, Greet, Goes
<1>4. CASE WriteError
  BY <1>4 DEF WriteError, WriteFails, Goes
<1>5. CASE Client
  <2>1. CASE CallPublic \/ CallDerive \/ Close \/ Kill
    BY <2>1 DEF CallPublic, CallDerive, Close, Kill, Goes
  <2>2. CASE ReadErr \/ ReadGreeting \/ ReadPublic \/ ReadFormat \/ ReadTimesOut
    BY <2>2 DEF ReadErr, ReadGreeting, ReadPublic, ReadFormat, ReadTimesOut, Goes
  <2>3. CASE ReadSkip
    BY <2>3 DEF ReadSkip, Skips, Goes
  <2>5. CASE ReadPartial
    BY <2>5 DEF ReadPartial, Skips, Goes
  <2>4. CASE ReadKey
    <3>1. Head(toHost) \in Lines /\ Head(toHost).tag = "KEY"
      BY <2>4, HeadTailProperties DEF ReadKey, Takes, TypeInv, DongleTypeOK, LinkTypeOK
    <3>2. Head(toHost).req \in Requests
      BY <3>1, LineTags
    <3> QED
      BY <2>4, <3>2 DEF ReadKey, Goes
  <2> QED
    BY <1>5, <2>1, <2>2, <2>3, <2>4, <2>5 DEF Client, Call, ReadLine
<1>6. CASE Tick \/ Drip
  BY <1>6 DEF Tick, HostQuiet, Drip, Trickle
<1> QED
  BY <1>1, <1>2, <1>3, <1>4, <1>5, <1>6 DEF Next

(* Both sides and the line keep their types in the composition; so the     *)
(* read timeout and the line limit of _read_line are never overrun.        *)
THEOREM ClientTypeCorrect == Spec => []ClientTypeOK
<1>1. Init => TypeInv /\ Plugged /\ ClientTypeOK
  <2>1. Init => ClientTypeOK
    BY ClientAssumption DEF Init, ClientInit, ClientTypeOK, Outcomes
  <2> QED
    BY <2>1, TypeInit DEF Init, ClientInit, Plugged
<1>2. TypeInv /\ Plugged /\ ClientTypeOK /\ [Next]_vars
        => (TypeInv /\ Plugged /\ ClientTypeOK)'
  BY StepImplements, TypeStep, PluggedStep, ClientTypeStep
<1> QED
  BY <1>1, <1>2, PTL DEF Spec

(* Behind this client too, a key is only given for a press of BOOT that    *)
(* began after its own prompt.                                             *)
THEOREM SessionsNeedFreshPress == Spec => FreshPress
  BY CompositionImplementsDongle, KeyNeedsFreshPress, PTL DEF ImplementsDongle
-----------------------------------------------------------------------------
(* The composition keeps the promise of module KeyCall.                    *)

(* While a call is open, a KEY line, or a derivation whose press has been  *)
(* seen, was paid for since the call began.                                *)
ConsentInv ==
    /\ consent \in BOOLEAN
    /\ pc = "wait_key" =>
         /\ req \in Requests
         /\ fw \in Deriving /\ fresh => consent
         /\ HasKey(toHost) => consent

(* Only derive_key opens a call, and only the owner presses BOOT.          *)
LEMMA WhoBegins ==
    ASSUME [Next]_vars
    PROVE  /\ pc # "wait_key" /\ pc' = "wait_key" => Client /\ CallDerive
           /\ Presses => Finger /\ Press
<1> USE DEF Presses, dongleVars, fwVars, pressVars, clientVars
<1>1. CASE Firmware
  BY <1>1 DEF Firmware, FirmwareStep, Boot, Serve, Confirming, LoadKey, GenerateKey, SaveKey,
     BootFails, AnswerHello, RejectUnready, RejectBad, AnswerPublic, StartDerive, Reads,
     Sample, PollReleased, PollPressed, Debounce, Released, Expire, Compute
<1>2. CASE Power
  BY <1>2 DEF Power, PlugIn, Unplug, Reset, PortGone, Goes
<1>3. CASE Finger
  BY <1>3 DEF Finger, Press, Release
<1>4. CASE Open
  BY <1>4 DEF Open, OpenPort, Goes, Reset
<1>5. CASE SayHello
  BY <1>5 DEF SayHello, Greet, Goes
<1>6. CASE Client
  BY <1>6 DEF Client, Call, ReadLine, Close, Kill, CallPublic, ReadErr,
     ReadSkip, ReadGreeting, ReadPublic, ReadKey, ReadFormat, ReadTimesOut, ReadPartial, Skips,
     Takes, Goes, Waiting
<1>7. CASE WriteError
  BY <1>7 DEF WriteError, WriteFails, Goes
<1>8. CASE Damage \/ Drip \/ Tick \/ UNCHANGED vars
  BY <1>8 DEF Damage, Drip, Trickle, Tick, vars
<1> QED
  BY <1>1, <1>2, <1>3, <1>4, <1>5, <1>6, <1>7, <1>8 DEF Next

(* What one step does to the history variable.                             *)
LEMMA ConsentMoves ==
    ASSUME consent \in BOOLEAN, [CallNext]_callTrace
    PROVE  /\ consent' \in BOOLEAN
           /\ Begins => consent' = FALSE
           /\ ~Begins /\ consent => consent'
           /\ ~Begins /\ Presses => consent'
           /\ ~Begins /\ ~Presses => consent' = consent
<1>1. CASE UNCHANGED callTrace
  BY <1>1 DEF callTrace, vars, dongleVars, fwVars, pressVars, clientVars, Begins, Presses
<1>2. CASE CallNext
  BY <1>2, Zenon DEF CallNext
<1> QED
  BY <1>1, <1>2

(* The firmware writes a KEY line only at the end of a derivation, and a   *)
(* derivation it begins has no press yet.                                  *)
LEMMA FirmwareConsent ==
    ASSUME TypeInv, Firmware
    PROVE  /\ HasKey(toHost') => HasKey(toHost) \/ fw = "derive"
           /\ fw' \in Deriving /\ fresh' => fw \in Deriving /\ fresh
<1> USE DEF TypeInv, DongleTypeOK, LinkTypeOK
<1>1. Ready.tag = "READY" /\ Err.tag = "ERR" /\ Confirm.tag = "CONFIRM"
      /\ (\A k : Pub(k).tag = "PUB")
  BY DEF Ready, Err, Confirm, Pub, Line
<1>2. fw = "derive" \/ toHost' = toHost
        \/ \E l \in Lines : l.tag # "KEY" /\ toHost' = Append(toHost, l)
  <2>1. CASE Boot
    BY <2>1, <1>1, ReplyTypes DEF Boot, LoadKey, GenerateKey, SaveKey, BootFails, linkVars, Say
  <2>2. CASE Serve
    BY <2>2, <1>1, ReplyTypes
       DEF Serve, AnswerHello, RejectUnready, RejectBad, AnswerPublic, StartDerive, Say
  <2>3. CASE Confirming
    BY <2>3, <1>1, ReplyTypes DEF Confirming, Sample, PollReleased, PollPressed, Debounce,
       Released, Expire, Compute, Say, linkVars
  <2> QED
    BY <2>1, <2>2, <2>3 DEF Firmware, FirmwareStep
<1>3. HasKey(toHost') => HasKey(toHost) \/ fw = "derive"
  BY <1>2, LinesAppend
<1>4. fw' \in Deriving /\ fresh' => fw \in Deriving /\ fresh
  BY DEF Firmware, FirmwareStep, Boot, Serve, Confirming, LoadKey, GenerateKey, SaveKey,
     BootFails, AnswerHello, RejectUnready, RejectBad, AnswerPublic, StartDerive, Reads,
     Sample, PollReleased, PollPressed, Debounce, Released, Expire, Compute, Deriving,
     fwVars, pressVars
<1> QED
  BY <1>3, <1>4

LEMMA ConsentStep ==
    ASSUME TypeInv, LineInv, PressInv, ConsentInv, [CallNext]_callTrace
    PROVE  ConsentInv'
<1>0. [Next]_vars
  BY DEF CallNext, callTrace
<1>1. /\ consent' \in BOOLEAN
      /\ ~Begins /\ consent => consent'
      /\ ~Begins /\ Presses => consent'
  BY ConsentMoves DEF ConsentInv
<1> SUFFICES ASSUME pc' = "wait_key"
             PROVE  /\ req' \in Requests
                    /\ fw' \in Deriving /\ fresh' => consent'
                    /\ HasKey(toHost') => consent'
  BY <1>1 DEF ConsentInv
<1>2. CASE Client /\ CallDerive
  <2>1. /\ pc = "ready" /\ req' \in Requests /\ UNCHANGED <<toHost, fw>>
    BY <1>2 DEF Client, CallDerive, Writes, fwVars
  <2> QED
    BY <2>1 DEF LineInv
<1>3. CASE pc = "wait_key" /\ Firmware
  <2>1. UNCHANGED <<req, button>>
    BY <1>3 DEF Firmware, clientVars, callVars, FirmwareStep, Boot, Serve, Confirming, LoadKey,
       GenerateKey, SaveKey, BootFails, AnswerHello, RejectUnready, RejectBad, AnswerPublic,
       StartDerive, Reads, Sample, PollReleased, PollPressed, Debounce, Released, Expire,
       Compute, fwVars, pressVars
  <2> QED
    BY <1>1, <1>3, <2>1, FirmwareConsent DEF ConsentInv, PressInv, Begins, Deriving
<1>4. CASE pc = "wait_key" /\ Power
  BY <1>1, <1>4, EmptyLines DEF Power, PlugIn, Unplug, Reset, PortGone, Goes, clientVars, callVars,
     linkVars, pressVars, ConsentInv, Begins, Deriving
<1>5. CASE pc = "wait_key" /\ Finger
  BY <1>1, <1>5 DEF Finger, Press, Release, clientVars, callVars, linkVars, ConsentInv,
     Begins, Presses
<1>6. CASE pc = "wait_key" /\ Client /\ ~CallDerive
  <2>1. ReadSkip \/ ReadPartial
    BY <1>6 DEF Client, Call, ReadLine, Close, Kill, CallPublic, Writes, ReadErr,
       ReadGreeting, ReadPublic, ReadKey, ReadFormat, ReadTimesOut, Goes
  <2>2. /\ (toHost # <<>> /\ toHost' = Tail(toHost)) \/ UNCHANGED toHost
        /\ UNCHANGED <<req, fw, fresh>>
    BY <1>6, <2>1 DEF Client, ReadSkip, ReadPartial, Takes, callVars, fwVars, pressVars, linkVars
  <2>3. HasKey(toHost') => HasKey(toHost)
    BY <2>2, LinesTail DEF TypeInv, DongleTypeOK, LinkTypeOK
  <2> QED
    BY <1>1, <1>6, <2>2, <2>3 DEF ConsentInv, Begins
<1>7. CASE pc = "wait_key" /\ Damage
  <2>1. UNCHANGED <<req, fw, fresh>>
    BY <1>7 DEF Damage, fwVars, pressVars, clientVars, callVars
  <2>2. HasKey(toHost') => HasKey(toHost)
    BY <1>7, DamageKeeps
  <2> QED
    BY <1>1, <1>7, <2>1, <2>2 DEF ConsentInv, Begins
<1>8. CASE pc = "wait_key" /\ (Tick \/ Drip \/ UNCHANGED vars)
  BY <1>1, <1>8 DEF Tick, Drip, Trickle, vars, dongleVars, fwVars, pressVars, clientVars, callVars, linkVars,
     ConsentInv, Begins
<1>9. CASE Open \/ SayHello \/ WriteError
  BY <1>9 DEF Open, OpenPort, SayHello, Greet, WriteError, WriteFails, Goes
<1>10. pc # "wait_key" => Client /\ CallDerive
  BY <1>0, WhoBegins
<1> QED
  BY <1>0, <1>2, <1>3, <1>4, <1>5, <1>6, <1>7, <1>8, <1>9, <1>10 DEF Next

(* Every step of the composition is one step of the promise, or none.      *)
LEMMA PromiseStep ==
    ASSUME TypeInv, LineInv, ConsentInv, [CallNext]_callTrace
    PROVE  [Promise!KeyNext]_(Promise!keyVars)
<1> DEFINE asked == IF pc = "wait_key" THEN req ELSE NoRequest
           got   == IF outcome = "key" THEN answer ELSE NoRequest
<1>0. [Next]_vars
  BY DEF CallNext, callTrace
<1>1. /\ consent \in BOOLEAN /\ consent' \in BOOLEAN
      /\ Begins => consent' = FALSE
      /\ ~Begins /\ Presses => consent'
      /\ ~Begins /\ ~Presses => consent' = consent
  BY ConsentMoves DEF ConsentInv
<1>2. CASE Client /\ CallDerive
  <2>1. /\ pc = "ready" /\ pc' = "wait_key" /\ outcome' = "none" /\ req' \in Requests
    BY <1>2 DEF CallDerive, Writes, Goes
  <2>2. Promise!Ask
    BY <1>1, <2>1 DEF Begins, Promise!Ask
  <2> QED
    BY <2>2 DEF Promise!KeyNext
<1>3. CASE Client /\ ReadKey
  <2>1. /\ pc = "wait_key" /\ pc' = "ready" /\ outcome' = "key"
        /\ toHost # <<>> /\ Head(toHost).tag = "KEY" /\ answer' = Head(toHost).req
        /\ UNCHANGED button
    BY <1>3 DEF Client, ReadKey, Takes, Goes, fwVars, pressVars
  <2>2. HasKey(toHost) /\ answer' = req
    BY <2>1, LinesTail DEF LineInv, TypeInv, DongleTypeOK, LinkTypeOK
  <2>3. req # NoRequest /\ (consent = TRUE) /\ consent' = consent
    BY <1>1, <2>1, <2>2, LinkAssumption DEF ConsentInv, Begins, Presses
  <2>4. Promise!Return
    BY <2>1, <2>2, <2>3 DEF Promise!Return
  <2> QED
    BY <2>4 DEF Promise!KeyNext
<1>4. CASE UNCHANGED <<pc, outcome, req, answer>>
  <2>1. ~Begins /\ UNCHANGED <<asked, got>>
    BY <1>4 DEF Begins
  <2>2. CASE Presses
    BY <1>1, <2>1, <2>2 DEF Promise!KeyNext, Promise!Agree
  <2>3. CASE ~Presses
    BY <1>1, <2>1, <2>3 DEF Promise!keyVars
  <2> QED
    BY <2>2, <2>3
<1>5. CASE pc' # "wait_key" /\ outcome' # "key"
  <2>1. ~Begins /\ consent' \in {consent, TRUE}
    BY <1>1, <1>5 DEF Begins
  <2>2. Promise!GiveUp
    BY <1>5, <2>1 DEF Promise!GiveUp
  <2> QED
    BY <2>2 DEF Promise!KeyNext
<1>6. \/ Client /\ (CallDerive \/ ReadKey)
      \/ UNCHANGED <<pc, outcome, req, answer>>
      \/ pc' # "wait_key" /\ outcome' # "key"
  <2>1. CASE Firmware \/ Finger \/ Tick \/ Damage \/ Drip \/ UNCHANGED vars
    BY <2>1 DEF Firmware, Finger, Tick, Damage, Drip, Trickle, vars, clientVars, callVars
  <2>2. CASE Power \/ Open \/ SayHello \/ WriteError
    BY <2>2 DEF Power, PortGone, Open, OpenPort, SayHello, Greet, WriteError, WriteFails, Goes,
       clientVars, callVars
  <2>3. CASE Client
    BY <2>3 DEF Client, Call, ReadLine, Close, Kill, CallPublic, ReadErr, ReadSkip,
       ReadGreeting, ReadPublic, ReadFormat, ReadTimesOut, ReadPartial, Skips, Goes, callVars
  <2> QED
    BY <1>0, <2>1, <2>2, <2>3 DEF Next
<1> QED
  BY <1>2, <1>3, <1>4, <1>5, <1>6

(* For every number of requests, keys and commands in flight, whatever is  *)
(* killed, lost, damaged or late: the firmware, the line and the client    *)
(* together keep the promise made to the caller of derive_key.             *)
THEOREM DeriveKeepsPromise == CallSpec => ImplementsKeyCall
<1> DEFINE Inv == TypeInv /\ Plugged /\ LineInv /\ PressInv /\ ConsentInv
<1>1. CallInit => Inv /\ Promise!KeyInit
  BY TypeInit, LineInit, PressInit
     DEF CallInit, Init, ClientInit, Plugged, ConsentInv, Promise!KeyInit
<1>2. Inv /\ [CallNext]_callTrace => Inv'
  <2>1. [CallNext]_callTrace => [Next]_vars
    BY DEF CallNext, callTrace
  <2> QED
    BY <2>1, StepImplements, TypeStep, PluggedStep, LineStep, PressStep, ConsentStep
<1>3. Inv /\ [CallNext]_callTrace => [Promise!KeyNext]_(Promise!keyVars)
  BY PromiseStep
<1> QED
  BY <1>1, <1>2, <1>3, PTL DEF CallSpec, ImplementsKeyCall, Promise!KeySpec

-----------------------------------------------------------------------------
(* A reply of the wrong kind means damage or a reset.                      *)

HasPublic(q) == \E i \in 1 .. Len(q) : q[i].op = "PUBLIC"
OnePublic(q) == \A i, j \in 1 .. Len(q) : q[i].op = "PUBLIC" /\ q[j].op = "PUBLIC" => i = j
HasPub(h)    == \E i \in 1 .. Len(h) : h[i].tag = "PUB"
OnePub(h)    == \A i, j \in 1 .. Len(h) : h[i].tag = "PUB" /\ h[j].tag = "PUB" => i = j
HasJunk(h)   == \E i \in 1 .. Len(h) : h[i].tag = "JUNK"

(* LineInv's counterpart for PUBLIC: at most the open call's is under way, *)
(* and none is behind a derivation, so that none outlives the sleep of the *)
(* next constructor.  Lines that are damaged, or come in pieces, are so in *)
(* the open session.                                                       *)
ReplyInv ==
    /\ HasDerive(toDongle) \/ fw \in Deriving => ~HasPublic(toDongle)
    /\ pc \in {"greeting", "ready", "wait_key"} => ~HasPublic(toDongle) /\ ~HasPub(toHost)
    /\ pc = "wait_pub" =>
         /\ OnePublic(toDongle) /\ OnePub(toHost)
         /\ HasPub(toHost) => ~HasPublic(toDongle)
    /\ pc \in {"ready"} \cup Waiting /\ HasJunk(toHost) => disturbed
    /\ pc \in Waiting /\ pauses # 0 => disturbed
    /\ NoDesync

LEMMA NothingThere ==
    /\ ~HasPublic(<<>>) /\ OnePublic(<<>>)
    /\ ~HasPub(<<>>) /\ OnePub(<<>>) /\ ~HasJunk(<<>>)
  BY EmptySeq DEF HasPublic, OnePublic, HasPub, OnePub, HasJunk

LEMMA PublicTail ==
    ASSUME NEW q \in Seq(Commands), q # <<>>
    PROVE  /\ ~HasPublic(q) => ~HasPublic(Tail(q)) /\ Head(q).op # "PUBLIC"
           /\ OnePublic(q) => OnePublic(Tail(q))
           /\ OnePublic(q) /\ Head(q).op = "PUBLIC" => ~HasPublic(Tail(q))
<1>1. /\ Len(q) \in Nat \ {0}
      /\ Len(Tail(q)) = Len(q) - 1
      /\ \A i \in 1 .. Len(Tail(q)) : Tail(q)[i] = q[i + 1]
  BY EmptySeq, HeadTailProperties
<1>2. Head(q) = q[1] /\ 1 \in 1 .. Len(q)
  BY <1>1
<1>3. \A i \in 1 .. Len(Tail(q)) : i + 1 \in 1 .. Len(q) /\ i + 1 # 1
  BY <1>1
<1>4. ~HasPublic(q) => ~HasPublic(Tail(q)) /\ Head(q).op # "PUBLIC"
  BY <1>1, <1>2, <1>3 DEF HasPublic
<1>5. OnePublic(q) => OnePublic(Tail(q))
  <2> SUFFICES ASSUME OnePublic(q), NEW i \in 1 .. Len(Tail(q)), NEW j \in 1 .. Len(Tail(q)),
                      Tail(q)[i].op = "PUBLIC", Tail(q)[j].op = "PUBLIC"
               PROVE  i = j
    BY DEF OnePublic
  <2>1. i + 1 = j + 1
    BY <1>1, <1>3 DEF OnePublic
  <2> QED
    BY <2>1, <1>1
<1>6. OnePublic(q) /\ Head(q).op = "PUBLIC" => ~HasPublic(Tail(q))
  BY <1>1, <1>2, <1>3 DEF OnePublic, HasPublic
<1> QED
  BY <1>4, <1>5, <1>6

LEMMA PublicDeliver ==
    ASSUME NEW q \in Seq(Commands), NEW c \in Commands, ~HasPublic(q)
    PROVE  /\ OnePublic(Deliver(q, c))
           /\ c.op # "PUBLIC" => ~HasPublic(Deliver(q, c))
<1>1. CASE q # <<>> /\ q[Len(q)] = Part
  <2> DEFINE e == IF c = Part THEN Part ELSE Bad
  <2>1. e.op # "PUBLIC"
    BY DEF Part, Bad, Command
  <2>2. e \in Commands /\ Deliver(q, c) = [q EXCEPT ![Len(q)] = e]
    BY <1>1 DEF Deliver, Commands
  <2>3. Len(q) \in 1 .. Len(q)
    BY <1>1, EmptySeq
  <2> HIDE DEF e
  <2>4. /\ Len(Deliver(q, c)) = Len(q)
        /\ \A j \in 1 .. Len(q) : Deliver(q, c)[j] = IF j = Len(q) THEN e ELSE q[j]
    BY <2>2, <2>3, ExceptSeq
  <2> QED
    BY <2>1, <2>4 DEF HasPublic, OnePublic
<1>2. CASE ~(q # <<>> /\ q[Len(q)] = Part)
  <2>1. Deliver(q, c) = Append(q, c)
    BY <1>2 DEF Deliver
  <2>2. /\ Len(q) \in Nat
        /\ Len(Deliver(q, c)) = Len(q) + 1
        /\ \A j \in 1 .. Len(q) + 1 : Deliver(q, c)[j] = IF j = Len(q) + 1 THEN c ELSE q[j]
    BY <2>1, AppendProperties, LenProperties
  <2>3. \A j \in 1 .. Len(q) + 1 : j # Len(q) + 1 => j \in 1 .. Len(q)
    BY <2>2
  <2> QED
    BY <2>2, <2>3 DEF HasPublic, OnePublic
<1> QED
  BY <1>1, <1>2

LEMMA PubTail ==
    ASSUME NEW h \in Seq(Lines), h # <<>>
    PROVE  /\ HasPub(Tail(h)) => HasPub(h)
           /\ HasJunk(Tail(h)) => HasJunk(h)
           /\ Head(h).tag = "PUB" => HasPub(h)
           /\ Head(h).tag = "JUNK" => HasJunk(h)
           /\ OnePub(h) => OnePub(Tail(h))
           /\ OnePub(h) /\ Head(h).tag = "PUB" => ~HasPub(Tail(h))
<1>1. /\ Len(h) \in Nat \ {0}
      /\ Len(Tail(h)) = Len(h) - 1
      /\ \A i \in 1 .. Len(Tail(h)) : Tail(h)[i] = h[i + 1]
  BY EmptySeq, HeadTailProperties
<1>2. Head(h) = h[1] /\ 1 \in 1 .. Len(h)
  BY <1>1
<1>3. \A i \in 1 .. Len(Tail(h)) : i + 1 \in 1 .. Len(h) /\ i + 1 # 1
  BY <1>1
<1>4. /\ HasPub(Tail(h)) => HasPub(h)
      /\ Head(h).tag = "PUB" => HasPub(h)
  BY <1>1, <1>2, <1>3 DEF HasPub
<1>5. /\ HasJunk(Tail(h)) => HasJunk(h)
      /\ Head(h).tag = "JUNK" => HasJunk(h)
  BY <1>1, <1>2, <1>3 DEF HasJunk
<1>6. OnePub(h) => OnePub(Tail(h))
  <2> SUFFICES ASSUME OnePub(h), NEW i \in 1 .. Len(Tail(h)), NEW j \in 1 .. Len(Tail(h)),
                      Tail(h)[i].tag = "PUB", Tail(h)[j].tag = "PUB"
               PROVE  i = j
    BY DEF OnePub
  <2>1. i + 1 = j + 1
    BY <1>1, <1>3 DEF OnePub
  <2> QED
    BY <2>1, <1>1
<1>7. OnePub(h) /\ Head(h).tag = "PUB" => ~HasPub(Tail(h))
  BY <1>1, <1>2, <1>3 DEF OnePub, HasPub
<1> QED
  BY <1>4, <1>5, <1>6, <1>7

LEMMA PubAppend ==
    ASSUME NEW h \in Seq(Lines), NEW l \in Lines
    PROVE  /\ HasPub(Append(h, l)) => HasPub(h) \/ l.tag = "PUB"
           /\ HasJunk(Append(h, l)) => HasJunk(h) \/ l.tag = "JUNK"
           /\ ~HasPub(h) \/ (l.tag # "PUB" /\ OnePub(h)) => OnePub(Append(h, l))
<1>1. /\ Len(h) \in Nat
      /\ Len(Append(h, l)) = Len(h) + 1
      /\ \A i \in 1 .. Len(h) + 1 : Append(h, l)[i] = IF i = Len(h) + 1 THEN l ELSE h[i]
  BY AppendLine, LenProperties
<1>2. \A i \in 1 .. Len(h) + 1 : i # Len(h) + 1 => i \in 1 .. Len(h)
  BY <1>1
<1>3. /\ HasPub(Append(h, l)) => HasPub(h) \/ l.tag = "PUB"
      /\ HasJunk(Append(h, l)) => HasJunk(h) \/ l.tag = "JUNK"
  BY <1>1, <1>2 DEF HasPub, HasJunk
<1>4. ~HasPub(h) \/ (l.tag # "PUB" /\ OnePub(h)) => OnePub(Append(h, l))
  BY <1>1, <1>2 DEF HasPub, OnePub
<1> QED
  BY <1>3, <1>4

(* Damage adds no PUB line.                                                *)
LEMMA DamagePub ==
    ASSUME TypeInv, Damage
    PROVE  /\ HasPub(toHost') => HasPub(toHost)
           /\ OnePub(toHost) => OnePub(toHost')
<1> USE DEF TypeInv, DongleTypeOK, LinkTypeOK
<1>0. Len(toHost) \in Nat \ {0} /\ Junk.tag = "JUNK"
  BY EmptySeq DEF Damage, Junk, Line
<1>1. /\ Len(toHost') \in Nat /\ Len(toHost') \leq Len(toHost)
      /\ \A i \in 1 .. Len(toHost') : toHost'[i] = toHost[i] \/ toHost'[i] = Junk
  <2>1. CASE \E i \in 1 .. Len(toHost) : toHost' = Garbled(toHost, i)
    BY <1>0, <2>1, GarbledLine
  <2>2. CASE toHost' = SubSeq(toHost, 1, Len(toHost) - 1)
    <3>1. /\ Len(toHost') = Len(toHost) - 1
          /\ \A j \in 1 .. Len(toHost) - 1 : toHost'[j] = toHost[j]
      BY <2>2, LoseLast DEF Damage
    <3> QED
      BY <1>0, <3>1
  <2> QED
    BY <2>1, <2>2 DEF Damage
<1>2. \A i \in 1 .. Len(toHost') : i \in 1 .. Len(toHost)
  BY <1>0, <1>1
<1> QED
  BY <1>0, <1>1, <1>2 DEF HasPub, OnePub

LEMMA FirmwareReply ==
    ASSUME TypeInv, ReplyInv, Firmware
    PROVE  ReplyInv'
<1> USE DEF TypeInv, DongleTypeOK, LinkTypeOK
<1>0. UNCHANGED <<pc, outcome, pauses, disturbed>>
  BY DEF Firmware, clientVars
<1>1. /\ Ready.tag = "READY" /\ Err.tag = "ERR" /\ Confirm.tag = "CONFIRM"
      /\ \A k : Pub(k).tag = "PUB"
      /\ \A r, k : Key(r, k).tag = "KEY"
  BY DEF Ready, Err, Confirm, Pub, Key, Line
<1>2. ASSUME toHost' = toHost
               \/ \E l \in Lines : l.tag \notin {"PUB", "JUNK"} /\ toHost' = Append(toHost, l)
      PROVE  /\ HasPub(toHost') => HasPub(toHost)
             /\ HasJunk(toHost') => HasJunk(toHost)
             /\ OnePub(toHost) => OnePub(toHost')
  <2>1. CASE toHost' = toHost
    BY <2>1
  <2>2. ASSUME NEW l \in Lines, l.tag \notin {"PUB", "JUNK"}, toHost' = Append(toHost, l)
        PROVE  /\ HasPub(toHost') => HasPub(toHost)
               /\ HasJunk(toHost') => HasJunk(toHost)
               /\ OnePub(toHost) => OnePub(toHost')
    BY <2>2, PubAppend
  <2> QED
    BY <1>2, <2>1, <2>2
<1>3. CASE Boot
  <2>1. fw' \notin Deriving /\ UNCHANGED toDongle
    BY <1>3 DEF Boot, LoadKey, GenerateKey, SaveKey, BootFails, Deriving, linkVars
  <2>2. toHost' = toHost \/ toHost' = Append(toHost, Ready) \/ toHost' = Append(toHost, Err)
    BY <1>3 DEF Boot, LoadKey, GenerateKey, SaveKey, BootFails, linkVars, Say
  <2> QED
    BY <1>0, <1>1, <1>2, <2>1, <2>2, ReplyTypes DEF ReplyInv, NoDesync
<1>4. CASE Serve
  <2>1. toDongle # <<>> /\ toDongle' = Tail(toDongle)
    BY <1>4 DEF Serve, AnswerHello, RejectUnready, RejectBad, AnswerPublic, StartDerive, Reads
  <2>2. /\ HasPublic(toDongle') => HasPublic(toDongle)
        /\ HasDerive(toDongle') => HasDerive(toDongle)
        /\ OnePublic(toDongle) => OnePublic(toDongle')
    BY <2>1, PublicTail, QueueTail
  <2>3. CASE StartDerive
    <3>1. Head(toDongle).op = "DERIVE" /\ toHost' = Append(toHost, Confirm)
      BY <2>3 DEF StartDerive, Reads, Say
    <3>2. HasDerive(toDongle)
      BY <2>1, <3>1, QueueTail
    <3> QED
      BY <1>0, <1>1, <1>2, <2>2, <3>1, <3>2, ReplyTypes DEF ReplyInv, NoDesync
  <2>4. CASE AnswerPublic /\ toHost' # Append(toHost, Err)
    <3>1. /\ Head(toDongle).op = "PUBLIC" /\ UNCHANGED fw
          /\ toHost' = Append(toHost, Pub(key)) /\ Pub(key) \in Lines
      BY <2>4, ReplyTypes DEF AnswerPublic, Reads, Say
    <3>2. HasPublic(toDongle)
      BY <2>1, <3>1, PublicTail
    <3>3. /\ HasJunk(toHost') => HasJunk(toHost)
          /\ ~HasPub(toHost) => OnePub(toHost')
      BY <1>1, <3>1, PubAppend
    <3> QED
      BY <1>0, <2>1, <2>2, <3>1, <3>2, <3>3, PublicTail DEF ReplyInv, NoDesync, Waiting
  <2>5. CASE AnswerHello \/ RejectUnready \/ RejectBad
               \/ (AnswerPublic /\ toHost' = Append(toHost, Err))
    <3>1. UNCHANGED fw
      BY <2>5 DEF AnswerHello, RejectUnready, RejectBad, AnswerPublic, fwVars
    <3>2. toHost' = Append(toHost, Ready) \/ toHost' = Append(toHost, Err)
      BY <2>5 DEF AnswerHello, RejectUnready, RejectBad, Say
    <3> QED
      BY <1>0, <1>1, <1>2, <2>2, <3>1, <3>2, ReplyTypes DEF ReplyInv, NoDesync
  <2> QED
    BY <1>4, <2>3, <2>4, <2>5 DEF Serve
<1>5. CASE Confirming
  <2>1. fw \in Deriving /\ UNCHANGED toDongle
    BY <1>5 DEF Confirming, Sample, PollReleased, PollPressed, Debounce, Released, Expire,
       Compute, Deriving, linkVars
  <2>2. toHost' = toHost \/ toHost' = Append(toHost, Err)
          \/ (fw = "derive" /\ toHost' = Append(toHost, Key(cur, key)))
    BY <1>5 DEF Confirming, Sample, PollReleased, PollPressed, Debounce, Released, Expire,
       Compute, linkVars, Say
  <2>3. \E l \in Lines : l.tag \notin {"PUB", "JUNK"} /\ (toHost' = toHost \/ toHost' = Append(toHost, l))
    BY <1>1, <2>1, <2>2, ReplyTypes
  <2> QED
    BY <1>0, <1>2, <2>1, <2>3 DEF ReplyInv, NoDesync
<1> QED
  BY <1>3, <1>4, <1>5 DEF Firmware, FirmwareStep

LEMMA ClientReply ==
    ASSUME TypeInv, LineInv, ReplyInv, Client
    PROVE  ReplyInv'
<1> USE DEF TypeInv, DongleTypeOK, LinkTypeOK
<1>0. UNCHANGED <<fw, disturbed>>
  BY DEF Client, fwVars
<1>1. CASE CallPublic
  <2>1. /\ pc = "ready" /\ pc' = "wait_pub" /\ outcome' = "none" /\ pauses' = 0
        /\ toDongle' = Deliver(toDongle, Public) /\ UNCHANGED toHost
    BY <1>1 DEF CallPublic, Writes, Goes
  <2>2. Public \in Commands /\ Public.op # "DERIVE"
    BY DEF Commands, ClientCommands, Public, Command
  <2>3. ~HasDerive(toDongle') /\ OnePublic(toDongle') /\ fw \notin Deriving
    BY <2>1, <2>2, QueueDeliver, PublicDeliver DEF LineInv, ReplyInv
  <2>4. OnePub(toHost)
    BY <2>1 DEF ReplyInv, HasPub, OnePub
  <2> QED
    BY <1>0, <2>1, <2>3, <2>4 DEF ReplyInv, NoDesync, Waiting
<1>2. CASE CallDerive
  <2>1. PICK r \in Requests : Writes(Derive(r))
    BY <1>2 DEF CallDerive
  <2>2. /\ pc = "ready" /\ pc' = "wait_key" /\ outcome' = "none" /\ pauses' = 0
        /\ toDongle' = Deliver(toDongle, Derive(r)) /\ UNCHANGED toHost
    BY <1>2, <2>1 DEF CallDerive, Writes, Goes
  <2>3. Derive(r) \in Commands /\ Derive(r).op # "PUBLIC"
    BY DEF Commands, ClientCommands, Derive, Command
  <2>4. ~HasPublic(toDongle')
    BY <2>2, <2>3, PublicDeliver DEF ReplyInv
  <2> QED
    BY <1>0, <2>2, <2>4 DEF ReplyInv, NoDesync, Waiting
<1>3. CASE ReadLine /\ ~ReadTimesOut /\ ~ReadPartial
  <2>1. toHost # <<>> /\ toHost' = Tail(toHost) /\ UNCHANGED toDongle
    BY <1>3 DEF ReadLine, ReadErr, ReadSkip, ReadGreeting, ReadPublic, ReadKey, ReadFormat, Takes
  <2>2. /\ HasPub(toHost') => HasPub(toHost)
        /\ HasJunk(toHost') => HasJunk(toHost)
        /\ OnePub(toHost) => OnePub(toHost')
    BY <2>1, PubTail
  <2>3. CASE ReadFormat
    <3>1. pc' = "closed" /\ pc \in Waiting
      BY <2>3 DEF ReadFormat, Takes, Goes
    <3>2. disturbed
      <4>1. CASE Head(toHost).tag = "JUNK"
        BY <2>1, <3>1, <4>1, PubTail DEF ReplyInv
      <4>2. CASE Head(toHost).tag = "KEY" /\ pc = "wait_pub"
        BY <2>1, <4>2, LinesTail DEF LineInv
      <4>3. CASE Head(toHost).tag = "PUB" /\ pc = "wait_key"
        BY <2>1, <4>3, PubTail DEF ReplyInv
      <4> QED
        BY <2>3, <4>1, <4>2, <4>3 DEF ReadFormat, Takes
    <3> QED
      BY <1>0, <2>1, <3>1, <3>2 DEF ReplyInv, NoDesync, Waiting
  <2>4. CASE ReadErr \/ ReadSkip
    <3>1. /\ pauses' = 0
          /\ \/ pc' = pc /\ outcome' = outcome
             \/ pc' = "closed" /\ outcome' \in {"err", "noise"}
      BY <2>4 DEF ReadErr, ReadSkip, Skips, Goes
    <3> QED
      BY <1>0, <2>1, <2>2, <3>1 DEF ReplyInv, NoDesync, Waiting
  <2>5. CASE ReadPublic
    <3>1. /\ pc = "wait_pub" /\ pc' = "ready" /\ outcome' = "public"
          /\ Head(toHost).tag = "PUB"
      BY <2>5 DEF ReadPublic, Takes, Goes
    <3> QED
      BY <1>0, <2>1, <2>2, <3>1, PubTail DEF ReplyInv, NoDesync, Waiting
  <2>6. CASE ReadGreeting \/ ReadKey
    <3>1. /\ pc \in {"greeting", "wait_key"} /\ pc' = "ready"
          /\ outcome' \in {"none", "key"}
      BY <2>6 DEF ReadGreeting, ReadKey, Goes
    <3> QED
      BY <1>0, <2>1, <2>2, <3>1 DEF ReplyInv, NoDesync, Waiting
  <2> QED
    BY <1>3, <2>3, <2>4, <2>5, <2>6 DEF ReadLine
<1>4. CASE Close \/ Kill \/ ReadTimesOut
  BY <1>0, <1>4 DEF Close, Kill, ReadTimesOut, Goes, ReplyInv, NoDesync, Waiting, linkVars
<1>5. CASE ReadPartial
  <2>1. /\ UNCHANGED <<toHost, toDongle>> /\ disturbed
        /\ \/ UNCHANGED <<pc, outcome>> /\ pauses' = 0
           \/ pc' = "closed"
    BY <1>5, ClientAssumption DEF ReadPartial, Skips, Goes, ReplyInv, linkVars, ClientTypeOK
  <2> QED
    BY <1>0, <2>1 DEF ReplyInv, NoDesync, Waiting
<1> QED
  BY <1>1, <1>2, <1>3, <1>4, <1>5 DEF Client, Call, ReadLine

(* When a constructor writes, the sleep has left no PUBLIC behind.         *)
LEMMA OpeningReply ==
    ASSUME TypeInv, LineInv, ReplyInv, SayHello \/ WriteError
    PROVE  ReplyInv'
<1> USE DEF TypeInv, DongleTypeOK, LinkTypeOK
<1>1. Settled => ~HasPublic(toDongle)
  BY NothingThere DEF Settled, ReplyInv, Deriving
<1>2. CASE SayHello
  <2>1. /\ pc' = "greeting" /\ outcome' = "none" /\ pauses' = 0 /\ UNCHANGED fw
        /\ toHost' = <<>> /\ toDongle' = Deliver(toDongle, Hello)
    BY <1>2 DEF SayHello, Greet, Goes, fwVars
  <2>2. Hello \in Commands /\ Hello.op # "PUBLIC"
    BY DEF Commands, ClientCommands, Hello, Command
  <2>3. ~HasPublic(toDongle')
    BY <1>1, <1>2, <2>1, <2>2, PublicDeliver DEF SayHello
  <2> QED
    BY <2>1, <2>3, NothingThere DEF ReplyInv, NoDesync, Waiting
<1>3. CASE WriteError
  <2>1. /\ pc \in {"opening", "ready"} /\ pc' = "closed" /\ outcome' = "write"
        /\ UNCHANGED fw
    BY <1>3 DEF WriteError, WriteFails, Goes, fwVars
  <2>2. ~HasPublic(toDongle) /\ ~HasDerive(toDongle) /\ (pc = "ready" => fw \notin Deriving)
    BY <1>1, <1>3, <2>1, SettledQueue DEF WriteError, ReplyInv, LineInv
  <2>3. HasDerive(toDongle') \/ fw \in Deriving => ~HasPublic(toDongle')
    <3>1. CASE UNCHANGED toDongle
      BY <2>2, <3>1
    <3>2. ASSUME NEW c \in Intended \cup {Part}, toDongle' = Deliver(toDongle, c)
          PROVE  HasDerive(toDongle') \/ fw \in Deriving => ~HasPublic(toDongle')
      <4>1. /\ c \in Commands /\ (c.op # "DERIVE" \/ c.op # "PUBLIC")
            /\ pc = "opening" => c.op # "PUBLIC"
        BY <3>2 DEF Intended, Commands, ClientCommands, Hello, Public, Part, Command
      <4> QED
        BY <2>1, <2>2, <3>2, <4>1, QueueDeliver, PublicDeliver
    <3> QED
      BY <1>3, <3>1, <3>2 DEF WriteError, WriteFails
  <2> QED
    BY <2>1, <2>3 DEF ReplyInv, NoDesync, Waiting
<1> QED
  BY <1>2, <1>3

LEMMA ReplyStep ==
    ASSUME TypeInv, LineInv, ReplyInv, [Next]_vars
    PROVE  ReplyInv'
<1>1. CASE Power
  <2>1. CASE PlugIn /\ UNCHANGED <<clientVars, disturbed>>
    BY <2>1 DEF PlugIn, clientVars, linkVars, ReplyInv, NoDesync, Deriving
  <2>2. CASE Unplug /\ PortGone /\ UNCHANGED disturbed
    BY <2>2, NothingThere DEF Unplug, PortGone, Goes, ReplyInv, NoDesync, Waiting
  <2>3. CASE Reset /\ disturbed' = TRUE /\ UNCHANGED clientVars
    BY <2>3, NothingThere DEF Reset, clientVars, ReplyInv, NoDesync, Deriving
  <2> QED
    BY <1>1, <2>1, <2>2, <2>3 DEF Power
<1>2. CASE Finger \/ Tick \/ UNCHANGED vars
  BY <1>2 DEF Finger, Press, Release, Tick, vars, dongleVars, fwVars, clientVars, linkVars,
     ReplyInv, NoDesync
<1>3. CASE Open
  <2>1. pc' = "opening" /\ outcome' = "none"
    BY <1>3 DEF Open, OpenPort, Goes
  <2>2. CASE Reset
    BY <2>1, <2>2, NothingThere DEF Reset, ReplyInv, NoDesync, Deriving, Waiting
  <2>3. CASE UNCHANGED dongleVars
    BY <2>1, <2>3 DEF dongleVars, fwVars, linkVars, ReplyInv, NoDesync, Waiting
  <2> QED
    BY <1>3, <2>2, <2>3 DEF Open
<1>4. CASE Damage
  <2>1. disturbed' /\ UNCHANGED <<toDongle, fw, pc, outcome>>
    BY <1>4 DEF Damage, fwVars, clientVars
  <2> QED
    BY <1>4, <2>1, DamagePub DEF ReplyInv, NoDesync
<1>5. CASE Drip
  BY <1>5 DEF Drip, Trickle, fwVars, linkVars, ReplyInv, NoDesync
<1> QED
  BY <1>1, <1>2, <1>3, <1>4, <1>5, FirmwareReply, ClientReply, OpeningReply DEF Next

(* For any number of sessions, however they end, a call that meets a reply *)
(* of the wrong kind has a damaged line or a reset to blame.               *)
THEOREM RepliesNeverDesync == Spec => []NoDesync
<1>1. Init => TypeInv /\ Plugged /\ LineInv /\ ReplyInv
  BY TypeInit, LineInit, NothingThere
     DEF Init, DongleInit, ClientInit, Plugged, ReplyInv, NoDesync, Deriving, Waiting
<1>2. TypeInv /\ Plugged /\ LineInv /\ ReplyInv /\ [Next]_vars
        => (TypeInv /\ Plugged /\ LineInv /\ ReplyInv)'
  BY StepImplements, TypeStep, PluggedStep, LineStep, ReplyStep
<1>3. ReplyInv => NoDesync
  BY DEF ReplyInv
<1> QED
  BY <1>1, <1>2, <1>3, PTL DEF Spec

-----------------------------------------------------------------------------
(* A read times out only on a board whose BOOT is held.                    *)

(* The replies and the commands the wait at p is for.                      *)
IsAnswer(l, p) == \/ l.tag = "ERR"
                  \/ p = "greeting" /\ l.tag = "READY"
                  \/ p = "wait_pub" /\ l.tag = "PUB"
                  \/ p = "wait_key" /\ l.tag = "KEY"
IsAsk(c, p) == \/ p = "greeting" /\ c.op \in {"HELLO", "BAD"}
               \/ p = "wait_pub" /\ c.op = "PUBLIC"
               \/ p = "wait_key" /\ c.op = "DERIVE"

Answered(h, p) == \E i \in 1 .. Len(h) : IsAnswer(h[i], p)
Asked(q, p)    == q # <<>> /\ IsAsk(q[Len(q)], p)
Whole(q)       == q # <<>> => q[Len(q)].op # "PART"

(* A call that waits has its command ahead of it, is being confirmed, or   *)
(* has its answer on the line, or damage or a reset has to do with it; and *)
(* while a derivation is confirmed, the firmware's clock leads the host's. *)
LateInv ==
    /\ pc \in {"ready"} \cup Waiting =>
         /\ fw \in {"boot", "save"} => disturbed
         /\ Whole(toDongle)
    /\ pc \in Waiting =>
         /\ \/ Answered(toHost, pc) \/ Asked(toDongle, pc) \/ disturbed
            \/ pc = "wait_key" /\ fw \in Deriving
         /\ HasDerive(toDongle) => hostWaited = 0
         /\ fw \in {"prompted", "confirm", "debounce"} => hostWaited \leq waited
         /\ fw = "idle" /\ toHost = <<>> => hostWaited = 0 \/ disturbed

LEMMA AskTail ==
    ASSUME NEW q \in Seq(Commands), q # <<>>, NEW p
    PROVE  /\ Whole(q) => Whole(Tail(q))
           /\ Asked(q, p) => Asked(Tail(q), p) \/ IsAsk(Head(q), p)
<1>1. /\ Len(q) \in Nat \ {0}
      /\ Len(Tail(q)) = Len(q) - 1
      /\ \A i \in 1 .. Len(Tail(q)) : Tail(q)[i] = q[i + 1]
  BY EmptySeq, HeadTailProperties
<1>2. CASE Len(q) = 1
  <2>1. Tail(q) = <<>>
    <3>1. Tail(q) \in Seq(Commands) /\ Len(Tail(q)) = Len(q) - 1
      BY HeadTailProperties
    <3>2. Len(Tail(q)) \notin Nat \ {0}
      BY <1>2, <3>1
    <3> QED
      BY <3>1, <3>2, EmptySeq, Zenon
  <2>2. Head(q) = q[1]
    OBVIOUS
  <2> QED
    BY <1>2, <2>1, <2>2 DEF Whole, Asked
<1>3. CASE Len(q) # 1
  <2> DEFINE n == Len(Tail(q))
  <2>1. n \in 1 .. n /\ n + 1 = Len(q)
    BY <1>1, <1>3
  <2>2. Tail(q)[n] = q[Len(q)]
    BY <1>1, <2>1
  <2>3. Tail(q) # <<>>
    <3>1. Len(<<>>) = 0
      BY EmptySeq
    <3>2. n # 0
      BY <2>1
    <3> QED
      BY <3>1, <3>2, Zenon
  <2> QED
    BY <2>2, <2>3 DEF Whole, Asked
<1> QED
  BY <1>2, <1>3

LEMMA AskDeliver ==
    ASSUME NEW q \in Seq(Commands), NEW c \in ClientCommands
    PROVE  /\ Deliver(q, c) # <<>>
           /\ Whole(Deliver(q, c))
           /\ Deliver(q, c)[Len(Deliver(q, c))] \in {c, Bad}
           /\ Whole(q) => Deliver(q, c)[Len(Deliver(q, c))] = c
<1>0. /\ c \in Commands /\ Part \in Commands /\ c.op # "PART"
      /\ Bad.op = "BAD" /\ Part.op = "PART" /\ c # Part
  BY DEF ClientCommands, Commands, Hello, Public, Derive, Bad, Part, Command
<1>1. CASE q # <<>> /\ q[Len(q)] = Part
  <2>1. Deliver(q, c) = [q EXCEPT ![Len(q)] = Bad] /\ Bad \in Commands
    BY <1>0, <1>1 DEF Deliver, Commands
  <2>2. Len(q) \in 1 .. Len(q)
    BY <1>1, EmptySeq
  <2>3. Len(Deliver(q, c)) = Len(q) /\ Deliver(q, c)[Len(q)] = Bad
    BY <2>1, <2>2, ExceptSeq
  <2>4. Deliver(q, c) # <<>>
    BY <2>2, <2>3, EmptySeq
  <2> QED
    BY <1>0, <1>1, <2>3, <2>4 DEF Whole
<1>2. CASE ~(q # <<>> /\ q[Len(q)] = Part)
  <2>1. Deliver(q, c) = Append(q, c)
    BY <1>2 DEF Deliver
  <2>2. /\ Len(q) \in Nat
        /\ Len(Deliver(q, c)) = Len(q) + 1
        /\ Deliver(q, c)[Len(q) + 1] = c
    BY <1>0, <2>1, AppendProperties, LenProperties
  <2>3. Deliver(q, c) # <<>>
    BY <2>2, EmptySeq
  <2> QED
    BY <1>0, <2>2, <2>3 DEF Whole
<1> QED
  BY <1>1, <1>2

LEMMA AnswerTail ==
    ASSUME NEW h \in Seq(Lines), h # <<>>, NEW p, Answered(h, p)
    PROVE  Answered(Tail(h), p) \/ IsAnswer(Head(h), p)
<1>1. /\ Len(h) \in Nat \ {0}
      /\ Len(Tail(h)) = Len(h) - 1
      /\ \A i \in 1 .. Len(Tail(h)) : Tail(h)[i] = h[i + 1]
  BY EmptySeq, HeadTailProperties
<1>2. PICK i \in 1 .. Len(h) : IsAnswer(h[i], p)
  BY DEF Answered
<1>3. CASE i = 1
  BY <1>2, <1>3
<1>4. CASE i # 1
  <2>1. i - 1 \in 1 .. Len(Tail(h)) /\ (i - 1) + 1 = i
    BY <1>1, <1>4
  <2> QED
    BY <1>1, <1>2, <2>1 DEF Answered
<1> QED
  BY <1>3, <1>4

LEMMA AnswerAppend ==
    ASSUME NEW h \in Seq(Lines), NEW l \in Lines, NEW p
    PROVE  /\ Answered(h, p) => Answered(Append(h, l), p)
           /\ IsAnswer(l, p) => Answered(Append(h, l), p)
           /\ Append(h, l) # <<>>
<1>1. /\ Len(h) \in Nat
      /\ Len(Append(h, l)) = Len(h) + 1
      /\ \A i \in 1 .. Len(h) + 1 : Append(h, l)[i] = IF i = Len(h) + 1 THEN l ELSE h[i]
  BY AppendLine, LenProperties
<1>2. Len(h) + 1 \in 1 .. Len(h) + 1 /\ \A i \in 1 .. Len(h) : i \in 1 .. Len(h) + 1 /\ i # Len(h) + 1
  BY <1>1
<1>3. Append(h, l) # <<>>
  BY <1>1, EmptySeq
<1> QED
  BY <1>1, <1>2, <1>3 DEF Answered

(* Steps of the firmware: whatever it takes off the line, it answers.      *)
LEMMA FirmwareLate ==
    ASSUME TypeInv, ClientTypeOK, Plugged, LineInv, LateInv, Firmware
    PROVE  LateInv'
<1> USE DEF TypeInv, DongleTypeOK, LinkTypeOK
<1>0. UNCHANGED <<pc, hostWaited, disturbed>>
  BY DEF Firmware, clientVars
<1>1. /\ Ready.tag = "READY" /\ Err.tag = "ERR"
      /\ (\A k : Pub(k).tag = "PUB")
      /\ (\A r, k : Key(r, k).tag = "KEY")
  BY DEF Ready, Err, Pub, Key, Line
<1>2. CASE Boot
  <2>1. /\ fw \in {"boot", "save"} /\ fw' \in {"save", "idle"} /\ UNCHANGED toDongle
    BY <1>2 DEF Boot, LoadKey, GenerateKey, SaveKey, BootFails, linkVars
  <2> QED
    BY <1>0, <2>1 DEF LateInv
<1>3. CASE Serve
  <2>1. /\ fw = "idle" /\ toDongle # <<>> /\ toDongle' = Tail(toDongle)
    BY <1>3 DEF Serve, AnswerHello, RejectUnready, RejectBad, AnswerPublic, StartDerive, Reads
  <2>2. Whole(toDongle) => Whole(toDongle')
    BY <2>1, AskTail
  <2>3. HasDerive(toDongle') => HasDerive(toDongle)
    BY <2>1, QueueTail
  <2>4. PICK l \in Lines : toHost' = Append(toHost, l)
    BY <1>3, ReplyTypes
       DEF Serve, AnswerHello, RejectUnready, RejectBad, AnswerPublic, StartDerive, Say
  <2>5. /\ toHost' # <<>>
        /\ Answered(toHost, pc) => Answered(toHost', pc)
    BY <2>4, AnswerAppend
  <2>6. fw' \in {"idle", "prompted"}
    BY <1>3, <2>1 DEF Serve, AnswerHello, RejectUnready, RejectBad, AnswerPublic, StartDerive, fwVars
  <2>7. fw' = "prompted" => HasDerive(toDongle) /\ waited' = 0
    BY <1>3, <2>1, QueueTail
       DEF Serve, AnswerHello, RejectUnready, RejectBad, AnswerPublic, StartDerive, Reads, fwVars
  <2>8. IsAsk(Head(toDongle), pc) => Answered(toHost', pc) \/ (pc = "wait_key" /\ fw' = "prompted")
    <3>1. CASE StartDerive
      BY <3>1 DEF StartDerive, Reads, IsAsk
    <3>2. CASE toHost' = Append(toHost, Err)
      BY <1>1, <3>2, ReplyTypes, AnswerAppend DEF IsAnswer
    <3>3. CASE AnswerHello /\ toHost' = Append(toHost, Ready)
      BY <1>1, <3>3, ReplyTypes, AnswerAppend DEF AnswerHello, Reads, IsAsk, IsAnswer
    <3>4. CASE AnswerPublic /\ toHost' = Append(toHost, Pub(key))
      <4>1. Pub(key) \in Lines
        BY <3>4, ReplyTypes DEF AnswerPublic
      <4> QED
        BY <1>1, <3>4, <4>1, AnswerAppend DEF AnswerPublic, Reads, IsAsk, IsAnswer
    <3> QED
      BY <1>3, <3>1, <3>2, <3>3, <3>4
         DEF Serve, AnswerHello, RejectUnready, RejectBad, AnswerPublic, Say
  <2>9. Asked(toDongle, pc) => Asked(toDongle', pc) \/ IsAsk(Head(toDongle), pc)
    BY <2>1, AskTail
  <2>10. fw \notin Deriving /\ "prompted" \in Deriving
    BY <2>1 DEF Deriving
  <2>11. pc \in Waiting /\ fw' = "prompted" => hostWaited = 0
    BY <2>7 DEF LateInv
  <2> QED
    BY <1>0, <2>2, <2>3, <2>5, <2>6, <2>7, <2>8, <2>9, <2>10, <2>11 DEF LateInv
<1>4. CASE Sample \/ PollReleased \/ PollPressed \/ Debounce \/ Released
  <2>1. /\ fw \in Deriving /\ fw' \in Deriving \ {"prompted"}
        /\ UNCHANGED <<toDongle, toHost, waited>>
        /\ fw' \in {"confirm", "debounce"} => fw \in {"prompted", "confirm", "debounce"}
    BY <1>4 DEF Sample, PollReleased, PollPressed, Debounce, Released, Deriving, linkVars, waitVars
  <2> QED
    BY <1>0, <2>1 DEF LateInv, Deriving
<1>5. CASE Expire \/ Compute
  <2>1. fw \in Deriving /\ fw' = "idle" /\ UNCHANGED toDongle
    BY <1>5 DEF Expire, Compute, Deriving
  <2>2. \E l \in {Err, Key(cur, key)} : l \in Lines /\ toHost' = Append(toHost, l)
    BY <1>5, <2>1, ReplyTypes DEF Expire, Compute, Say
  <2>3. /\ toHost' # <<>>
        /\ pc = "wait_key" => Answered(toHost', pc)
        /\ Answered(toHost, pc) => Answered(toHost', pc)
    BY <1>1, <2>2, AnswerAppend DEF IsAnswer
  <2> QED
    BY <1>0, <2>1, <2>3 DEF LateInv
<1> QED
  BY <1>2, <1>3, <1>4, <1>5 DEF Firmware, FirmwareStep, Confirming

(* Steps of the client: a call asks, and reading on skips no answer.       *)
LEMMA ClientLate ==
    ASSUME TypeInv, ClientTypeOK, LineInv, LateInv, Client
    PROVE  LateInv'
<1> USE DEF TypeInv, DongleTypeOK, LinkTypeOK
<1>0. UNCHANGED <<fw, waited, disturbed>>
  BY DEF Client, fwVars, waitVars
<1>1. ASSUME NEW c \in ClientCommands, Writes(c), hostWaited' = 0,
             pc' \in Waiting, IsAsk(c, pc')
      PROVE  LateInv'
  <2>1. pc = "ready" /\ toDongle' = Deliver(toDongle, c) /\ Whole(toDongle)
    BY <1>1 DEF Writes, LateInv
  <2>2. Asked(toDongle', pc') /\ Whole(toDongle')
    BY <1>1, <2>1, AskDeliver DEF Asked
  <2> QED
    BY <1>0, <1>1, <2>1, <2>2 DEF LateInv
<1>2. CASE CallPublic
  <2>1. /\ Public \in ClientCommands /\ Writes(Public) /\ hostWaited' = 0
        /\ pc' = "wait_pub" /\ IsAsk(Public, pc')
    BY <1>2 DEF CallPublic, Goes, ClientCommands, IsAsk, Public, Command
  <2> QED
    BY <1>1, <2>1 DEF Waiting
<1>3. CASE CallDerive
  <2>1. PICK r \in Requests : Writes(Derive(r))
    BY <1>3 DEF CallDerive
  <2>2. /\ Derive(r) \in ClientCommands /\ hostWaited' = 0
        /\ pc' = "wait_key" /\ IsAsk(Derive(r), pc')
    BY <1>3 DEF CallDerive, Goes, ClientCommands, IsAsk, Derive, Command
  <2> QED
    BY <1>1, <2>1, <2>2 DEF Waiting
<1>4. CASE pc' \notin {"ready"} \cup Waiting
  BY <1>4 DEF LateInv
<1>5. CASE ReadGreeting \/ ReadPublic \/ ReadKey
  <2>1. pc \in Waiting /\ pc' = "ready" /\ UNCHANGED toDongle
    BY <1>5 DEF ReadGreeting, ReadPublic, ReadKey, Takes, Goes
  <2> QED
    BY <1>0, <2>1 DEF LateInv, Waiting
<1>6. CASE ReadSkip /\ pc' = pc
  <2>1. /\ pc \in Waiting /\ pc' = pc /\ hostWaited' = 0
        /\ toHost # <<>> /\ toHost' = Tail(toHost) /\ UNCHANGED toDongle
        /\ Head(toHost).tag \in Skipped
    BY <1>6 DEF ReadSkip, Skips, Takes, Goes
  <2>2. ~IsAnswer(Head(toHost), pc)
    BY <2>1 DEF IsAnswer, Skipped, Waiting
  <2>3. Answered(toHost, pc) => Answered(toHost', pc)
    BY <2>1, <2>2, AnswerTail
  <2> QED
    BY <1>0, <2>1, <2>3 DEF LateInv
<1>7. CASE ReadErr \/ ReadFormat \/ ReadTimesOut \/ Close \/ Kill
               \/ ((ReadSkip \/ ReadPartial) /\ pc' # pc)
  <2>1. pc' = "closed"
    BY <1>7 DEF ReadErr, ReadFormat, ReadTimesOut, ReadPartial, Close, Kill, ReadSkip, Skips, Goes
  <2> QED
    BY <1>4, <2>1 DEF Waiting
<1>8. CASE ReadPartial /\ pc' = pc
  <2>1. /\ hostWaited' = 0 /\ pc' = pc /\ pc \in Waiting /\ UNCHANGED <<toHost, toDongle>>
    BY <1>8 DEF ReadPartial, Skips, Goes, linkVars
  <2>2. hostWaited \in Nat
    BY ClientAssumption DEF ClientTypeOK
  <2> QED
    BY <1>0, <2>1, <2>2 DEF LateInv
<1> QED
  BY <1>2, <1>3, <1>5, <1>6, <1>7, <1>8 DEF Client, Call, ReadLine

(* Time: neither the firmware nor the line has the answer it waits for.    *)
LEMMA TickLate ==
    ASSUME TypeInv, ClientTypeOK, Plugged, LineInv, LateInv, Tick
    PROVE  LateInv'
<1>1. /\ UNCHANGED <<fw, toDongle, toHost, pc, disturbed>>
      /\ FirmwareQuiet /\ HostQuiet
  BY DEF Tick, linkVars
<1>2. CASE pc \in Waiting
  <2>1. /\ toHost = <<>> /\ hostWaited' = hostWaited + 1
        /\ fw = "confirm" => waited' = waited + 1
    BY <1>1, <1>2 DEF Tick, HostQuiet
  <2>2. hostWaited \in Nat /\ waited \in Nat
    BY ClientAssumption, DongleAssumption DEF TypeInv, DongleTypeOK, ClientTypeOK
  <2>3. ~Answered(toHost, pc) /\ ~Asked(<<>>, pc) /\ ~HasDerive(<<>>)
    BY <2>1, EmptySeq, EmptyQueue DEF Answered, Asked
  <2>4. fw # "off"
    BY <1>2 DEF Plugged, Waiting
  <2>5. ~HasDerive(toDongle)
    BY <1>1, <2>3, <2>4 DEF FirmwareQuiet, LineInv, Deriving
  <2>6. fw = "idle" => disturbed
    BY <1>1, <1>2, <2>3 DEF FirmwareQuiet, LateInv, Deriving
  <2>7. fw \in {"prompted", "confirm", "debounce"} => hostWaited' \leq waited'
    BY <1>1, <1>2, <2>1, <2>2 DEF FirmwareQuiet, LateInv
  <2> QED
    BY <1>1, <1>2, <2>5, <2>6, <2>7 DEF LateInv
<1>3. CASE pc \notin Waiting
  BY <1>1, <1>3 DEF LateInv
<1> QED
  BY <1>2, <1>3

LEMMA LateStep ==
    ASSUME TypeInv, ClientTypeOK, Plugged, LineInv, LateInv, [Next]_vars
    PROVE  LateInv'
<1>1. CASE Power
  <2>1. CASE PlugIn /\ UNCHANGED <<clientVars, disturbed>>
    BY <2>1 DEF PlugIn, clientVars, LateInv, Plugged, Waiting
  <2>2. CASE Unplug /\ PortGone /\ UNCHANGED disturbed
    BY <2>2 DEF PortGone, Goes, LateInv, Waiting
  <2>3. CASE Reset /\ disturbed' = TRUE /\ UNCHANGED clientVars
    BY <2>3, EmptyQueue DEF Reset, clientVars, LateInv, Whole
  <2> QED
    BY <1>1, <2>1, <2>2, <2>3 DEF Power
<1>2. CASE Finger \/ UNCHANGED vars
  BY <1>2 DEF Finger, Press, Release, vars, dongleVars, fwVars, waitVars, clientVars, linkVars, LateInv
<1>3. CASE Open \/ WriteError
  <2>1. pc' \notin {"ready"} \cup Waiting
    BY <1>3 DEF Open, OpenPort, WriteError, WriteFails, Goes, Waiting
  <2> QED
    BY <2>1 DEF LateInv
<1>4. CASE SayHello
  <2>1. /\ pc' = "greeting" /\ hostWaited' = 0 /\ UNCHANGED <<fw, waited>>
        /\ toDongle' = Deliver(toDongle, Hello) /\ Settled
    BY <1>4 DEF SayHello, Greet, Goes, fwVars, waitVars
  <2>2. Hello \in ClientCommands /\ Hello.op = "HELLO" /\ Bad.op = "BAD"
    BY DEF ClientCommands, Hello, Bad, Command
  <2>3. Asked(toDongle', "greeting") /\ Whole(toDongle')
    BY <2>1, <2>2, AskDeliver DEF Asked, IsAsk, TypeInv, DongleTypeOK, LinkTypeOK
  <2>4. waited \in Nat /\ fw \notin {"boot", "save"}
    BY <2>1, DongleAssumption DEF Settled, TypeInv, DongleTypeOK
  <2> QED
    BY <2>1, <2>3, <2>4 DEF LateInv
<1>5. CASE Damage
  <2>1. disturbed' /\ UNCHANGED <<toDongle, fw, waited, pc, hostWaited>>
    BY <1>5 DEF Damage, fwVars, waitVars, clientVars
  <2> QED
    BY <2>1 DEF LateInv
<1>6. CASE Drip
  <2>1. waited \in Nat
    BY DongleAssumption DEF TypeInv, DongleTypeOK
  <2> QED
    BY <1>6, <2>1 DEF Drip, Trickle, fwVars, waitVars, linkVars, LateInv
<1> QED
  BY <1>1, <1>2, <1>3, <1>4, <1>5, <1>6, FirmwareLate, ClientLate, TickLate DEF Next

(* With a firmware deadline shorter than the host's (15 s and 20 s), a     *)
(* read that times out met a held BOOT, a damaged line or a reset.         *)
THEOREM TimeoutsNeedHeldButton ==
    ASSUME ConfirmTimeout < ReadTimeout
    PROVE  Spec => TimeoutOnlyIfHeld
<1> DEFINE I == TypeInv /\ ClientTypeOK /\ Plugged /\ LineInv /\ LateInv
<1>1. Init => I
  <2>1. Init => ClientTypeOK
    BY ClientAssumption DEF Init, ClientInit, ClientTypeOK, Outcomes
  <2> QED
    BY <2>1, TypeInit, LineInit DEF Init, ClientInit, Plugged, LateInv, Waiting
<1>2. I /\ [Next]_vars => I'
  BY StepImplements, TypeStep, ClientTypeStep, PluggedStep, LineStep, LateStep
<1>3. I /\ [Next]_vars => [ReadTimesOut => fw \in {"held", "derive"} \/ disturbed]_vars
  <2> SUFFICES ASSUME I, ReadTimesOut, ~disturbed
               PROVE  fw \in {"held", "derive"}
    OBVIOUS
  <2>1. /\ pc \in Waiting /\ toHost = <<>> /\ hostWaited = ReadTimeout
    BY DEF ReadTimesOut
  <2>2. /\ fw \in Places /\ fw # "off" /\ waited \in 0 .. ConfirmTimeout
    BY <2>1 DEF TypeInv, DongleTypeOK, Plugged, Waiting
  <2>3. hostWaited # 0 /\ ~(hostWaited \leq waited)
    BY <2>1, <2>2, ClientAssumption, DongleAssumption
  <2> QED
    BY <2>1, <2>2, <2>3 DEF LateInv, Places, Deriving
<1> QED
  BY <1>1, <1>2, <1>3, PTL DEF Spec, TimeoutOnlyIfHeld

-----------------------------------------------------------------------------
(* How long a call waits.                                                  *)

(* What the open call has waited: for every line it has skipped as long as *)
(* a line may take, for every pause of the current one a serial timeout,   *)
(* and what the current wait for a byte has lasted.                        *)
Span(n, t) == n * t
LineTime   == (MaxPauses + 1) * ReadTimeout
SpentInv   == /\ spent \in Nat
              /\ spent =< Span(lines, LineTime) + (Span(pauses, ReadTimeout) + hostWaited)

(* A call that waits on goes on to the next line, or to the next byte, or  *)
(* lets a tick pass, or has nothing to do with the step.                   *)
LEMMA WaitMoves ==
    ASSUME ClientTypeOK, [Next]_vars, WaitsOn
    PROVE  \/ UNCHANGED <<lines, pauses>> /\ hostWaited' \in {hostWaited, hostWaited + 1}
           \/ lines' = lines /\ pauses' = pauses + 1 /\ hostWaited' = 0
           \/ lines' = lines + 1 /\ pauses' = 0 /\ hostWaited' = 0
<1>1. CASE Firmware \/ Finger \/ Damage \/ UNCHANGED vars
  BY <1>1 DEF Firmware, Finger, Damage, vars, clientVars
<1>2. CASE Power \/ Open \/ SayHello \/ WriteError
  BY <1>2 DEF Power, PortGone, Open, OpenPort, SayHello, Greet, WriteError, WriteFails, Goes,
     clientVars, WaitsOn, Waiting
<1>3. CASE Client
  BY <1>3 DEF Client, Call, ReadLine, Close, Kill, CallPublic, CallDerive, Writes, ReadErr,
     ReadSkip, ReadGreeting, ReadPublic, ReadKey, ReadFormat, ReadTimesOut, ReadPartial, Skips,
     Takes, Goes, WaitsOn, Waiting
<1>4. CASE Tick \/ Drip
  BY <1>4 DEF Tick, Drip, Trickle
<1> QED
  BY <1>1, <1>2, <1>3, <1>4 DEF Next

LEMMA Spans ==
    /\ \A n, t \in Nat : /\ Span(n, t) \in Nat /\ Span(n + 1, t) = Span(n, t) + t
                         /\ Span(0, t) = 0 /\ Span(1, t) = t
    /\ \A m, n, t \in Nat : Span(m + n, t) = Span(m, t) + Span(n, t)
  BY DEF Span

(* A line takes no longer than LineTime.                                   *)
LEMMA LineTimes ==
    ASSUME ClientTypeOK
    PROVE  /\ LineTime \in Nat /\ Span(pauses, ReadTimeout) \in Nat
           /\ Span(pauses, ReadTimeout) + hostWaited =< LineTime
<1> DEFINE rest == MaxPauses - pauses
<1>1. /\ ReadTimeout \in Nat /\ pauses \in Nat /\ pauses + 1 \in Nat /\ rest \in Nat
      /\ hostWaited \in 0 .. ReadTimeout /\ MaxPauses + 1 = (pauses + 1) + rest
  BY ClientAssumption DEF ClientTypeOK
<1>2. LineTime = Span((pauses + 1) + rest, ReadTimeout)
  BY <1>1 DEF LineTime, Span
<1> HIDE DEF rest
<1>3. /\ LineTime = Span(pauses + 1, ReadTimeout) + Span(rest, ReadTimeout)
      /\ Span(pauses + 1, ReadTimeout) = Span(pauses, ReadTimeout) + ReadTimeout
      /\ Span(pauses, ReadTimeout) \in Nat /\ Span(rest, ReadTimeout) \in Nat
  BY <1>1, <1>2, Spans
<1> QED
  BY <1>1, <1>3

LEMMA SpentStep ==
    ASSUME ClientTypeOK, ClientTypeOK', SpentInv, [CallNext]_callTrace
    PROVE  SpentInv'
<1>1. /\ ReadTimeout \in Nat /\ LineTime \in Nat /\ hostWaited \in Nat /\ hostWaited' \in Nat
      /\ hostWaited =< ReadTimeout
      /\ lines \in Nat /\ lines' \in Nat /\ pauses \in Nat /\ pauses' \in Nat
      /\ Span(pauses, ReadTimeout) + hostWaited =< LineTime
  BY ClientAssumption, LineTimes DEF ClientTypeOK
<1>2. /\ Span(lines, LineTime) \in Nat /\ Span(lines', LineTime) \in Nat
      /\ Span(pauses, ReadTimeout) \in Nat /\ Span(pauses', ReadTimeout) \in Nat
      /\ Span(lines + 1, LineTime) = Span(lines, LineTime) + LineTime
      /\ Span(pauses + 1, ReadTimeout) = Span(pauses, ReadTimeout) + ReadTimeout
      /\ Span(0, ReadTimeout) = 0
  BY <1>1, Spans
<1>3. /\ spent \in Nat
      /\ spent =< Span(lines, LineTime) + (Span(pauses, ReadTimeout) + hostWaited)
  BY DEF SpentInv
<1> SUFFICES /\ spent' \in Nat
             /\ spent' =< Span(lines', LineTime) + (Span(pauses', ReadTimeout) + hostWaited')
  BY DEF SpentInv, LineTime
<1>4. CASE UNCHANGED callTrace
  BY <1>3, <1>4 DEF callTrace, vars, clientVars
<1>5. CASE CallNext /\ ~WaitsOn
  BY <1>1, <1>2, <1>5 DEF CallNext
<1>6. CASE CallNext /\ WaitsOn
  <2>1. \/ UNCHANGED <<lines, pauses>> /\ hostWaited' \in {hostWaited, hostWaited + 1}
        \/ lines' = lines /\ pauses' = pauses + 1 /\ hostWaited' = 0
        \/ lines' = lines + 1 /\ pauses' = 0 /\ hostWaited' = 0
    BY <1>6, WaitMoves DEF CallNext
  <2>2. spent' = IF hostWaited' > hostWaited THEN spent + 1 ELSE spent
    BY <1>6 DEF CallNext
  <2>3. CASE UNCHANGED <<lines, pauses>> /\ hostWaited' \in {hostWaited, hostWaited + 1}
    BY <1>1, <1>2, <1>3, <2>2, <2>3
  <2>4. CASE lines' = lines /\ pauses' = pauses + 1 /\ hostWaited' = 0
    BY <1>1, <1>2, <1>3, <2>2, <2>4
  <2>5. CASE lines' = lines + 1 /\ pauses' = 0 /\ hostWaited' = 0
    BY <1>1, <1>2, <1>3, <2>2, <2>5
  <2> QED
    BY <2>1, <2>3, <2>4, <2>5
<1> QED
  BY <1>4, <1>5, <1>6

(* What remains of "every call ends" without fairness: for every timeout,  *)
(* every line limit and every number of pauses in a line no call waits     *)
(* longer than their product.  A line that never ends and never stops      *)
(* coming is outside it: the code has no bound there.                      *)
THEOREM CallsAreBounded == CallSpec => []CallIsBounded
<1> DEFINE Inv == TypeInv /\ Plugged /\ ClientTypeOK /\ SpentInv
<1>1. CallInit => Inv
  <2>1. Init => ClientTypeOK
    BY ClientAssumption DEF Init, ClientInit, ClientTypeOK, Outcomes
  <2>2. ASSUME CallInit PROVE SpentInv
    <3>1. /\ spent = 0 /\ hostWaited = 0 /\ pauses = 0 /\ lines = 0 /\ ReadTimeout \in Nat
          /\ LineTime \in Nat
      BY <2>1, <2>2, ClientAssumption, LineTimes DEF CallInit, Init, ClientInit
    <3> QED
      BY <3>1, Spans DEF SpentInv
  <2> QED
    BY <2>1, <2>2, TypeInit DEF CallInit, Init, ClientInit, Plugged
<1>2. Inv /\ [CallNext]_callTrace => Inv'
  <2>1. [CallNext]_callTrace => [Next]_vars
    BY DEF CallNext, callTrace
  <2> QED
    BY <2>1, StepImplements, TypeStep, PluggedStep, ClientTypeStep, SpentStep
<1>3. Inv => CallIsBounded
  <2> SUFFICES ASSUME Inv PROVE spent =< Span(MaxLines, LineTime)
    BY DEF CallIsBounded, LineTime, Span
  <2> DEFINE rest == MaxLines - 1 - lines
  <2>1. /\ LineTime \in Nat /\ lines \in Nat /\ lines + 1 \in Nat /\ rest \in Nat
        /\ hostWaited \in Nat /\ MaxLines = (lines + 1) + rest
        /\ Span(pauses, ReadTimeout) \in Nat
        /\ Span(pauses, ReadTimeout) + hostWaited =< LineTime
    <3>1. /\ lines \in Nat /\ lines + 1 \in Nat /\ rest \in Nat /\ MaxLines = (lines + 1) + rest
          /\ hostWaited \in Nat
      BY ClientAssumption DEF ClientTypeOK
    <3> QED
      BY <3>1, LineTimes
  <2> HIDE DEF rest
  <2>2. /\ Span(MaxLines, LineTime) = Span(lines + 1, LineTime) + Span(rest, LineTime)
        /\ Span(lines + 1, LineTime) = Span(lines, LineTime) + LineTime
        /\ Span(rest, LineTime) \in Nat /\ Span(lines, LineTime) \in Nat
    BY <2>1, Spans
  <2>3. /\ spent \in Nat
        /\ spent =< Span(lines, LineTime) + (Span(pauses, ReadTimeout) + hostWaited)
    BY DEF SpentInv
  <2> QED
    BY <2>1, <2>2, <2>3
<1> QED
  BY <1>1, <1>2, <1>3, PTL DEF CallSpec

-----------------------------------------------------------------------------
(* One key per session.                                                    *)

KeysOf(h, k) == \A i \in 1 .. Len(h) : h[i].tag \in {"PUB", "KEY"} => h[i].key = k

(* In a session nothing has disturbed, the values on the line are computed *)
(* from the key in force, and the board is not about to choose another.    *)
SessionInv == pc \in InSession /\ ~disturbed => KeysOf(toHost, key) /\ fw \notin {"boot", "save"}

LEMMA KeysTail ==
    ASSUME NEW h \in Seq(Lines), h # <<>>, NEW k, KeysOf(h, k)
    PROVE  KeysOf(Tail(h), k)
<1>1. /\ Len(h) \in Nat \ {0}
      /\ Len(Tail(h)) = Len(h) - 1
      /\ \A i \in 1 .. Len(Tail(h)) : Tail(h)[i] = h[i + 1]
  BY EmptySeq, HeadTailProperties
<1>2. \A i \in 1 .. Len(Tail(h)) : i + 1 \in 1 .. Len(h)
  BY <1>1
<1> QED
  BY <1>1, <1>2 DEF KeysOf

LEMMA KeysAppend ==
    ASSUME NEW h \in Seq(Lines), NEW l \in Lines, NEW k, KeysOf(h, k),
           l.tag \in {"PUB", "KEY"} => l.key = k
    PROVE  KeysOf(Append(h, l), k)
<1>1. /\ Len(h) \in Nat
      /\ Len(Append(h, l)) = Len(h) + 1
      /\ \A i \in 1 .. Len(h) + 1 : Append(h, l)[i] = IF i = Len(h) + 1 THEN l ELSE h[i]
  BY AppendLine, LenProperties
<1>2. \A i \in 1 .. Len(h) + 1 : i # Len(h) + 1 => i \in 1 .. Len(h)
  BY <1>1
<1> QED
  BY <1>1, <1>2 DEF KeysOf

(* A step of the firmware in such a session appends at most one line,      *)
(* computed from the key in force, and does not change that key.           *)
LEMMA FirmwareSession ==
    ASSUME TypeInv, Plugged, pc \in InSession, KeysOf(toHost, key),
           fw \notin {"boot", "save"}, Firmware
    PROVE  /\ key' = key /\ KeysOf(toHost', key)
           /\ fw' \notin {"boot", "save"}
<1> USE DEF TypeInv, DongleTypeOK, LinkTypeOK
<1>1. /\ \A l \in {Ready, Err, Confirm} : l \in Lines /\ l.tag \notin {"PUB", "KEY"}
      /\ \A k : Pub(k).key = k
      /\ \A r, k : Key(r, k).key = k
  BY ReplyTypes DEF Ready, Err, Confirm, Pub, Key, Line
<1>2. CASE UNCHANGED <<toHost, key>> /\ fw' \in Deriving
  BY <1>2 DEF Deriving
<1>3. CASE /\ key' = key /\ fw' \in {"idle", "prompted"}
           /\ \/ \E l \in {Ready, Err, Confirm} : toHost' = Append(toHost, l)
              \/ key \in Keys /\ toHost' = Append(toHost, Pub(key))
              \/ key \in Keys /\ cur \in Requests /\ toHost' = Append(toHost, Key(cur, key))
  <2>1. \E l \in Lines : (l.tag \in {"PUB", "KEY"} => l.key = key) /\ toHost' = Append(toHost, l)
    BY <1>1, <1>3, ReplyTypes
  <2> QED
    BY <1>3, <2>1, KeysAppend
<1>4. CASE Serve
  BY <1>3, <1>4 DEF Serve, AnswerHello, RejectUnready, RejectBad, AnswerPublic, StartDerive, Reads,
     Say, fwVars
<1>5. CASE Sample \/ PollReleased \/ PollPressed \/ Debounce \/ Released
  BY <1>2, <1>5 DEF Sample, PollReleased, PollPressed, Debounce, Released, Deriving, linkVars
<1>6. CASE Expire \/ Compute
  BY <1>3, <1>6 DEF Expire, Compute, Say, Deriving
<1>7. ~Boot
  BY DEF Boot, LoadKey, GenerateKey, SaveKey, BootFails
<1> QED
  BY <1>4, <1>5, <1>6, <1>7 DEF Firmware, FirmwareStep, Confirming

LEMMA SessionStep ==
    ASSUME TypeInv, Plugged, SessionInv, [Next]_vars
    PROVE  /\ SessionInv'
           /\ {pc, pc'} \subseteq InSession /\ ~disturbed' => key' = key
<1> SUFFICES ASSUME pc' \in InSession, ~disturbed'
             PROVE  /\ KeysOf(toHost', key') /\ fw' \notin {"boot", "save"}
                    /\ pc \in InSession => key' = key
  BY DEF SessionInv
<1>1. CASE Firmware
  <2>1. UNCHANGED <<pc, disturbed>>
    BY <1>1 DEF Firmware, clientVars
  <2> QED
    BY <1>1, <2>1, FirmwareSession DEF SessionInv
<1>2. CASE Power
  BY <1>2 DEF Power, PlugIn, Unplug, Reset, PortGone, Goes, clientVars, Plugged, InSession, Waiting
<1>3. CASE Finger \/ Tick \/ UNCHANGED vars
  BY <1>3 DEF Finger, Press, Release, Tick, vars, dongleVars, fwVars, linkVars, clientVars,
     SessionInv
<1>4. CASE Open \/ WriteError \/ Damage \/ Drip
  BY <1>4 DEF Open, OpenPort, WriteError, WriteFails, Damage, Drip, Goes, InSession, Waiting
<1>5. CASE SayHello
  <2>1. /\ pc = "opening" /\ toHost' = <<>> /\ UNCHANGED <<fw, key>>
        /\ fw \notin {"boot", "save"}
    BY <1>5 DEF SayHello, Greet, Settled, fwVars
  <2>2. KeysOf(<<>>, key)
    BY EmptySeq DEF KeysOf
  <2> QED
    BY <2>1, <2>2 DEF InSession, Waiting
<1>6. CASE Client
  <2>1. UNCHANGED <<fw, key, disturbed>> /\ pc \in InSession
    BY <1>6 DEF Client, Call, CallPublic, CallDerive, Writes, ReadLine, ReadErr, ReadSkip,
       ReadGreeting, ReadPublic, ReadKey, ReadFormat, ReadTimesOut, ReadPartial, Skips, Close,
       Kill, Takes, Goes,
       InSession, Waiting, fwVars
  <2>2. toHost' = toHost \/ (toHost # <<>> /\ toHost' = Tail(toHost))
    BY <1>6 DEF Client, Call, CallPublic, CallDerive, Writes, ReadLine, ReadErr, ReadSkip,
       ReadGreeting, ReadPublic, ReadKey, ReadFormat, ReadTimesOut, ReadPartial, Close, Kill,
       Takes, linkVars
  <2>3. toHost \in Seq(Lines) /\ KeysOf(toHost, key) /\ fw \notin {"boot", "save"}
    BY <2>1 DEF SessionInv, TypeInv, DongleTypeOK, LinkTypeOK
  <2> QED
    BY <2>1, <2>2, <2>3, KeysTail
<1> QED
  BY <1>1, <1>2, <1>3, <1>4, <1>5, <1>6 DEF Next

(* All that an undisturbed session reads belongs to one key, though the    *)
(* stored key may be misread at any boot, and whatever earlier sessions    *)
(* left on the line.                                                       *)
THEOREM SessionsHaveOneKey == Spec => OneKeyPerSession
<1> DEFINE I == TypeInv /\ Plugged /\ SessionInv
<1>1. Init => I
  BY TypeInit DEF Init, ClientInit, Plugged, SessionInv, InSession, Waiting
<1>2. I /\ [Next]_vars => I'
  BY StepImplements, TypeStep, PluggedStep, SessionStep
<1>3. I /\ [Next]_vars =>
        [{pc, pc'} \subseteq InSession /\ ~disturbed' =>
           /\ key' = key
           /\ \A i \in 1 .. Len(toHost') :
                toHost'[i].tag \in {"PUB", "KEY"} => toHost'[i].key = key]_vars
  BY SessionStep DEF SessionInv, KeysOf
<1> QED
  BY <1>1, <1>2, <1>3, PTL DEF Spec, OneKeyPerSession

(* Where the stored key can always be read, the dongle behind any number   *)
(* of sessions has one identity, whenever it is unplugged or reset: the    *)
(* property of the firmware carries over to the composition.               *)
THEOREM SessionsSeeOneIdentity ==
    ASSUME ~NvsReadMayFail
    PROVE  Spec => []IdentityStable
  BY CompositionImplementsDongle, IdentityIsStable, PTL DEF ImplementsDongle
=============================================================================

---------------------------- MODULE Dongle_proofs ----------------------------
(* Theorems about the firmware, for every host, every number of requests   *)
(* and keys, every buffer size and every deadline.                         *)
EXTENDS Dongle, SerialLink_proofs

-----------------------------------------------------------------------------
(* Type correctness.                                                       *)

(* Typing alone is not inductive: that a KEY line carries a request and a  *)
(* key rests on the firmware holding both all through a derivation.        *)
TypeInv ==
    /\ DongleTypeOK
    /\ fw \in Deriving => key \in Keys /\ cur \in Requests

LEMMA TypeInit == DongleInit => TypeInv
<1> SUFFICES ASSUME DongleInit PROVE TypeInv
  OBVIOUS
<1>1. LinkTypeOK
  BY EmptySeq DEF DongleInit, LinkTypeOK
<1>2. waited \in 0 .. ConfirmTimeout
  BY DongleAssumption DEF DongleInit
<1>3. fresh \in BOOLEAN /\ sawRelease \in BOOLEAN
  BY DEF DongleInit
<1> QED
  BY <1>1, <1>2, <1>3 DEF DongleInit, TypeInv, DongleTypeOK, Places, Deriving

(* What each way of touching the streams leaves behind.                    *)
LEMMA SayType ==
    ASSUME LinkTypeOK, NEW l \in Lines, Say(l)
    PROVE  toHost' \in Seq(Lines)
  BY AppendLine DEF LinkTypeOK, Say

LEMMA ReplyTypes ==
    /\ Ready \in Lines /\ Err \in Lines /\ Confirm \in Lines
    /\ \A k \in Keys : Pub(k) \in Lines
    /\ \A r \in Requests, k \in Keys : Key(r, k) \in Lines
  BY DEF Lines

LEMMA ReadsType ==
    ASSUME LinkTypeOK, NEW op, Reads(op)
    PROVE  /\ toDongle' \in Seq(Commands)
           /\ Head(toDongle) \in Commands
  BY HeadTailProperties DEF LinkTypeOK, Reads

LEMMA TypeStep == TypeInv /\ [DongleNext]_dongleVars => TypeInv'
<1> SUFFICES ASSUME TypeInv, [DongleNext]_dongleVars
             PROVE  TypeInv'
  OBVIOUS
<1> USE DongleAssumption DEF TypeInv, DongleTypeOK, LinkTypeOK, Places, Deriving,
        nvsVars, waitVars, pressVars, linkVars
<1>1. CASE PlugIn
  BY <1>1 DEF PlugIn
<1>2. CASE Unplug
  BY <1>2, EmptySeq DEF Unplug
<1>3. CASE Reset
  BY <1>3, EmptySeq DEF Reset
<1>4. CASE LoadKey
  BY <1>4, SayType, ReplyTypes DEF LoadKey, StoredKey
<1>5. CASE GenerateKey
  BY <1>5 DEF GenerateKey
<1>6. CASE SaveKey
  BY <1>6, SayType, ReplyTypes DEF SaveKey
<1>7. CASE BootFails
  BY <1>7, SayType, ReplyTypes DEF BootFails
<1>8. CASE AnswerHello
  BY <1>8, SayType, ReplyTypes, ReadsType DEF AnswerHello, fwVars
<1>9. CASE RejectUnready
  BY <1>9, SayType, ReplyTypes, ReadsType DEF RejectUnready, fwVars
<1>10. CASE RejectBad
  BY <1>10, SayType, ReplyTypes, ReadsType DEF RejectBad, fwVars
<1>11. CASE AnswerPublic
  BY <1>11, SayType, ReplyTypes, ReadsType DEF AnswerPublic
<1>12. CASE StartDerive
  <2>1. /\ Head(toDongle) \in Commands
        /\ Head(toDongle).op = "DERIVE"
    <3>1. Reads({"DERIVE"})
      BY <1>12 DEF StartDerive
    <3> QED
      BY <3>1, ReadsType DEF Reads
  <2>2. Head(toDongle).req \in Requests
    BY <2>1, DeriveCarriesRequest
  <2>3. /\ toDongle' \in Seq(Commands)
        /\ toHost' \in Seq(Lines)
    BY <1>12, SayType, ReplyTypes, ReadsType DEF StartDerive
  <2>4. waited' \in 0 .. ConfirmTimeout
    BY <1>12 DEF StartDerive
  <2> QED
    BY <1>12, <2>2, <2>3, <2>4 DEF StartDerive
<1>13. CASE Sample
  BY <1>13 DEF Sample
<1>14. CASE PollReleased
  BY <1>14 DEF PollReleased
<1>15. CASE PollPressed
  BY <1>15 DEF PollPressed
<1>16. CASE Debounce
  BY <1>16 DEF Debounce
<1>17. CASE Released
  BY <1>17 DEF Released
<1>18. CASE Expire
  BY <1>18, SayType, ReplyTypes DEF Expire
<1>19. CASE Press
  BY <1>19 DEF Press
<1>20. CASE Release
  BY <1>20 DEF Release
<1>21. CASE DongleTick
  BY <1>21 DEF DongleTick
<1>22. CASE HostWrites
  <2>1. \A c \in ClientCommands \cup {Part} : c \in Commands
    BY DEF Commands
  <2>2. toDongle' \in Seq(Commands)
    BY <1>22, <2>1, DeliverType DEF HostWrites
  <2>3. toHost' \in Seq(Lines)
    BY <1>22, EmptySeq DEF HostWrites
  <2> QED
    BY <1>22, <2>2, <2>3 DEF HostWrites, fwVars
<1>23. CASE HostReads
  <2>1. toHost' \in Seq(Lines)
    <3>1. CASE toHost' \in {Tail(toHost), <<>>}
      BY <1>23, <3>1, HeadTailProperties, EmptySeq DEF HostReads
    <3>2. CASE toHost' = SubSeq(toHost, 1, Len(toHost) - 1)
      BY <1>23, <3>2, LoseLast DEF HostReads
    <3>3. CASE \E i \in 1 .. Len(toHost) : toHost' = Garbled(toHost, i)
      BY <3>3, GarbledLine
    <3> QED
      BY <1>23, <3>1, <3>2, <3>3 DEF HostReads
  <2> QED
    BY <1>23, <2>1 DEF HostReads, fwVars
<1>24. CASE UNCHANGED dongleVars
  BY <1>24 DEF dongleVars, fwVars
<1>25. CASE Compute
  <2>1. /\ Key(cur, key) \in Lines
        /\ key \in Keys
    BY <1>25, ReplyTypes DEF Compute
  <2>2. toHost' \in Seq(Lines)
    BY <1>25, <2>1, SayType, ReplyTypes DEF Compute
  <2> QED
    BY <1>25, <2>1, <2>2 DEF Compute
<1> QED
  BY <1>1, <1>2, <1>3, <1>4, <1>5, <1>6, <1>7, <1>8, <1>9, <1>10, <1>11, <1>12,
     <1>13, <1>14, <1>15, <1>16, <1>17, <1>18, <1>19, <1>20, <1>21, <1>22, <1>23,
     <1>24, <1>25
     DEF DongleNext, FirmwareStep, Boot, Serve, Confirming, Owner, Host

(* Every variable of the firmware and both streams keep their types.       *)
THEOREM DongleTypeCorrect == DongleSpec => []DongleTypeOK
<1>1. TypeInv => DongleTypeOK
  BY DEF TypeInv
<1> QED
  BY TypeInit, TypeStep, <1>1, PTL DEF DongleSpec

-----------------------------------------------------------------------------
(* The dongle keeps its identity.                                          *)

(* What makes IdentityStable inductive: a key is only in use once it is    *)
(* the stored one, and while one is being stored no other is.              *)
KeyInv ==
    /\ fw \in {"off", "boot"} => key = NoKey
    /\ fw = "save" => nvs = NoKey /\ key \in Keys
    /\ key # NoKey /\ fw # "save" => nvs = key
    /\ IdentityStable

LEMMA KeyInit == DongleInit => KeyInv
  BY DEF DongleInit, KeyInv, IdentityStable

LEMMA KeyStep ==
    ASSUME ~NvsReadMayFail, TypeInv, KeyInv, [DongleNext]_dongleVars
    PROVE  KeyInv'
<1> USE LinkAssumption DEF KeyInv, IdentityStable, TypeInv, DongleTypeOK, Places,
        Deriving, nvsVars, waitVars, pressVars, linkVars
<1>1. CASE PlugIn \/ Unplug \/ Reset
  BY <1>1 DEF PlugIn, Unplug, Reset
<1>2. CASE LoadKey
  BY <1>2 DEF LoadKey, StoredKey
<1>3. CASE GenerateKey
  BY <1>3 DEF GenerateKey
<1>4. CASE SaveKey
  <2>1. exposed = {}
    BY <1>4 DEF SaveKey
  <2> QED
    BY <1>4, <2>1 DEF SaveKey
<1>5. CASE BootFails
  BY <1>5 DEF BootFails
<1>6. CASE AnswerHello \/ RejectUnready \/ RejectBad
  BY <1>6 DEF AnswerHello, RejectUnready, RejectBad, fwVars
<1>7. CASE AnswerPublic
  BY <1>7 DEF AnswerPublic, Reads
<1>8. CASE StartDerive
  BY <1>8 DEF StartDerive, Reads
<1>9. CASE Sample \/ PollReleased \/ PollPressed \/ Debounce \/ Released
  BY <1>9 DEF Sample, PollReleased, PollPressed, Debounce, Released
<1>10. CASE Expire
  BY <1>10 DEF Expire
<1>11. CASE Compute
  BY <1>11 DEF Compute
<1>12. CASE Press \/ Release \/ DongleTick
  BY <1>12 DEF Press, Release, DongleTick
<1>13. CASE Host
  BY <1>13 DEF Host, HostWrites, HostReads, fwVars
<1>14. CASE UNCHANGED dongleVars
  BY <1>14 DEF dongleVars, fwVars
<1> QED
  BY <1>1, <1>2, <1>3, <1>4, <1>5, <1>6, <1>7, <1>8, <1>9, <1>10, <1>11, <1>12,
     <1>13, <1>14
     DEF DongleNext, FirmwareStep, Boot, Serve, Confirming, Owner

(* As long as NVS can be read, whatever the moments at which power is lost *)
(* and saves fail, the host is never shown values of two private keys, nor *)
(* of a key that a power cycle could lose.                                 *)
THEOREM IdentityIsStable ==
    ASSUME ~NvsReadMayFail
    PROVE  DongleSpec => []IdentityStable
<1>1. DongleInit => TypeInv /\ KeyInv
  BY TypeInit, KeyInit
<1>2. TypeInv /\ KeyInv /\ [DongleNext]_dongleVars => (TypeInv /\ KeyInv)'
  BY TypeStep, KeyStep
<1>3. KeyInv => IdentityStable
  BY DEF KeyInv
<1> QED
  BY <1>1, <1>2, <1>3, PTL DEF DongleSpec

-----------------------------------------------------------------------------
(* A key is only given for a press of BOOT.                                *)

(* What makes FreshPress inductive: once a release has been seen, a button *)
(* that is down went down after the prompt.                                *)
PressInv ==
    /\ fw = "confirm" /\ sawRelease => button = "up" \/ fresh
    /\ fw \in {"debounce", "held", "derive"} => fresh

LEMMA PressInit == DongleInit => PressInv
  BY DEF DongleInit, PressInv

LEMMA PressStep ==
    ASSUME TypeInv, PressInv, [DongleNext]_dongleVars
    PROVE  PressInv'
<1> USE DEF PressInv, TypeInv, DongleTypeOK, Places, Deriving, nvsVars, waitVars,
        pressVars, linkVars
<1>1. CASE PlugIn \/ Unplug \/ Reset
  BY <1>1 DEF PlugIn, Unplug, Reset
<1>2. CASE Boot
  BY <1>2 DEF Boot, LoadKey, GenerateKey, SaveKey, BootFails
<1>3. CASE Serve
  BY <1>3 DEF Serve, AnswerHello, RejectUnready, RejectBad, AnswerPublic, StartDerive,
     Reads, fwVars
<1>4. CASE Sample
  BY <1>4 DEF Sample
<1>5. CASE PollReleased
  BY <1>5 DEF PollReleased
<1>6. CASE PollPressed
  BY <1>6 DEF PollPressed
<1>7. CASE Debounce
  BY <1>7 DEF Debounce
<1>8. CASE Released \/ Expire \/ Compute
  BY <1>8 DEF Released, Expire, Compute
<1>9. CASE Press
  BY <1>9 DEF Press
<1>10. CASE Release
  BY <1>10 DEF Release
<1>11. CASE DongleTick
  BY <1>11 DEF DongleTick
<1>12. CASE Host
  BY <1>12 DEF Host, HostWrites, HostReads, fwVars
<1>13. CASE UNCHANGED dongleVars
  BY <1>13 DEF dongleVars, fwVars
<1> QED
  BY <1>1, <1>2, <1>3, <1>4, <1>5, <1>6, <1>7, <1>8, <1>9, <1>10, <1>11, <1>12, <1>13
     DEF DongleNext, FirmwareStep, Confirming, Owner

(* Only Compute writes a KEY line.                                         *)
LEMMA KeyLineFromCompute ==
    ASSUME TypeInv, [DongleNext]_dongleVars,
           NEW r \in Requests, NEW k \in Keys,
           toHost' = Append(toHost, Key(r, k))
    PROVE  fw = "derive"
<1> USE DEF TypeInv, DongleTypeOK, LinkTypeOK
<1>1. /\ Key(r, k) \in Lines
      /\ \A l \in Lines : Say(l) => l = Key(r, k)
  <2>1. Key(r, k) \in Lines
    BY ReplyTypes
  <2>2. ASSUME NEW l \in Lines, Say(l) PROVE l = Key(r, k)
    <3>1. Append(toHost, l) = Append(toHost, Key(r, k))
      BY <2>2 DEF Say
    <3>2. /\ Append(toHost, l)[Len(toHost) + 1] = l
          /\ Append(toHost, Key(r, k))[Len(toHost) + 1] = Key(r, k)
      BY <2>1, AppendProperties
    <3> QED
      BY <3>1, <3>2
  <2> QED
    BY <2>1, <2>2
<1>2. Len(toHost') = Len(toHost) + 1 /\ Len(toHost) \in Nat
  BY <1>1, AppendLine, LenProperties
<1>3. /\ ~Say(Ready) /\ ~Say(Err) /\ ~Say(Confirm)
      /\ \A h \in Keys : ~Say(Pub(h))
  BY <1>1, ReplyTypes DEF Ready, Err, Confirm, Pub, Key, Line
<1>4. toHost' # toHost
  BY <1>2
<1>5. ~Host
  <2>1. Len(<<>>) = 0
    BY EmptySeq
  <2>2. ~HostWrites
    BY <1>2, <1>4, <2>1 DEF HostWrites
  <2>3. ~HostReads
    <3>1. toHost # <<>> => Len(Tail(toHost)) = Len(toHost) - 1
      BY HeadTailProperties
    <3>2. toHost # <<>> => Len(SubSeq(toHost, 1, Len(toHost) - 1)) = Len(toHost) - 1
      BY LoseLast
    <3>3. \A i \in 1 .. Len(toHost) : Len(Garbled(toHost, i)) = Len(toHost)
      BY GarbledLine
    <3> QED
      BY <1>2, <2>1, <3>1, <3>2, <3>3 DEF HostReads
  <2> QED
    BY <2>2, <2>3 DEF Host
<1>6. ~Boot
  BY <1>3, <1>4 DEF Boot, LoadKey, GenerateKey, SaveKey, BootFails, linkVars
<1>7. ~Serve
  BY <1>3 DEF Serve, AnswerHello, RejectUnready, RejectBad, AnswerPublic, StartDerive, Reads
<1>8. ~Owner /\ ~DongleTick
  <2>1. ~Unplug
    BY <1>2, EmptySeq DEF Unplug
  <2> QED
    BY <1>4, <2>1 DEF Owner, PlugIn, Reset, Press, Release, DongleTick, linkVars
<1>9. ~UNCHANGED dongleVars
  BY <1>4 DEF dongleVars, linkVars
<1>10. Confirming => fw = "derive"
  BY <1>3, <1>4 DEF Confirming, Sample, PollReleased, PollPressed, Debounce, Released,
     Expire, Compute, linkVars
<1> QED
  BY <1>5, <1>6, <1>7, <1>8, <1>9, <1>10 DEF DongleNext, FirmwareStep

(* Against any host, and however commands are pipelined, every KEY line is *)
(* paid for by a press of BOOT that began after its own prompt.            *)
THEOREM KeyNeedsFreshPress == DongleSpec => FreshPress
<1>1. DongleInit => TypeInv /\ PressInv
  BY TypeInit, PressInit
<1>2. TypeInv /\ PressInv /\ [DongleNext]_dongleVars => (TypeInv /\ PressInv)'
  BY TypeStep, PressStep
<1>3. TypeInv /\ PressInv /\ [DongleNext]_dongleVars
        => [\A r \in Requests, k \in Keys :
              toHost' = Append(toHost, Key(r, k)) => fresh]_dongleVars
  BY KeyLineFromCompute DEF PressInv
<1> QED
  BY <1>1, <1>2, <1>3, PTL DEF DongleSpec, FreshPress
=============================================================================

--------------------------- MODULE AutoMount_proofs ---------------------------
(***************************************************************************)
(* Theorems about the encrypted mount and about the connection watcher     *)
(* around it, for any set of ports and whatever rclone does.               *)
(***************************************************************************)
EXTENDS AutoMount, FiniteSetTheorems, TLAPS

(* Nothing runs before rclone is started and after the call is over,       *)
(* unless one of the Escapes was the way out; and the cache directory is   *)
(* there for as long as the call is; only rclone keeps a drive live.       *)
ServerInv ==
    /\ mpc = "launch" => server \notin Alive
    /\ mpc \in {"idle", "cleanup"} /\ result \notin Escapes => server \notin Alive
    /\ mpc \notin {"idle", "plain"} => cache
    /\ mpc = "plain" => device = NoPort
    /\ drive = "live" => server \in Alive
    /\ mpc \in Stopping \cup {"cleanup"} => result # "none"

MountInv == MountTypeOK /\ ServerInv

-----------------------------------------------------------------------------
LEMMA MountInitInv == MountInit => MountInv
  BY MountAssumption DEF MountInit, MountInv, MountTypeOK, ServerInv, Alive, Exited,
                         Polling, Stopping, Escapes

(* What a call may do to itself and to rclone keeps the invariant, whether *)
(* the command line or the watcher made the call.                          *)
LEMMA CallInv ==
    ASSUME MountInv, CallStep \/ Rclone
    PROVE  MountInv'
<1> USE DEF MountInv, MountTypeOK, ServerInv, Alive, Exited, Polling, Stopping,
            Escapes, callState, Left
<1>1. CASE Spawn \/ EnterLoop
  BY <1>1 DEF Spawn, EnterLoop
<1>2. CASE PollAlive \/ PollExited \/ PortListed \/ PortMissing \/ Wake
  BY <1>2 DEF PollAlive, PollExited, PortListed, PortMissing, Wake
<1>3. CASE StopNeedless \/ Terminate \/ WaitEnds
  BY <1>3 DEF StopNeedless, Terminate, WaitEnds
<1>4. CASE WaitExpires
  BY <1>4 DEF WaitExpires
<1>5. CASE Cleanup
  BY <1>5 DEF Cleanup
<1>6. CASE Serve
  BY <1>6 DEF Serve
<1>7. CASE ServerExits
  BY <1>7 DEF ServerExits
<1> QED
  BY <1>1, <1>2, <1>3, <1>4, <1>5, <1>6, <1>7 DEF CallStep, Rclone

LEMMA LaunchInv ==
    ASSUME MountInv, server \notin Alive, NEW p \in bus, Launch(p), UNCHANGED bus
    PROVE  MountInv'
  BY DEF MountInv, MountTypeOK, ServerInv, Launch, Alive, Exited, Polling, Stopping,
         Escapes

LEMMA BusInv ==
    ASSUME MountInv, NEW p \in Ports, Insert(p) \/ Remove(p)
    PROVE  MountInv'
  BY DEF MountInv, MountTypeOK, ServerInv, Insert, Remove, mountVars, callState

LEMMA MountNextInv == MountInv /\ [MountNext]_emVars => MountInv'
<1> SUFFICES ASSUME MountInv, [MountNext]_emVars PROVE MountInv'
  OBVIOUS
<1>1. CASE CallStep \/ Rclone
  BY <1>1, CallInv
<1>2. CASE ListFails \/ Interrupt \/ SecondInterrupt
  BY <1>2 DEF ListFails, Interrupt, SecondInterrupt, MountInv, MountTypeOK, ServerInv,
              Alive, Exited, Polling, Stopping, Escapes
<1>6. CASE Refused \/ Plain
  BY <1>6 DEF Refused, Plain, StartPlain, PlainReturns, PlainInterrupt, MountInv, MountTypeOK,
              ServerInv, Alive, Exited, Polling, Stopping, Escapes, Left
<1>3. CASE Usb
  BY <1>3, BusInv DEF Usb
<1>4. CASE Start
  BY <1>4, LaunchInv DEF Start
<1>5. CASE UNCHANGED emVars
  BY <1>5 DEF emVars, mountVars, callState, MountInv, MountTypeOK, ServerInv
<1> QED
  BY <1>1, <1>2, <1>3, <1>4, <1>5, <1>6 DEF MountNext

LEMMA MountAlwaysInv == MountSpec => []MountInv
  BY MountInitInv, MountNextInv, PTL DEF MountSpec

(* The variables of the mount keep their types.                            *)
THEOREM MountTypeCorrect == MountSpec => []MountTypeOK
<1>1. MountInv => MountTypeOK
  BY DEF MountInv
<1> QED
  BY <1>1, MountAlwaysInv, PTL

(* A mount command that comes back after a removal, an error of rclone or  *)
(* a first Ctrl-C in its loop leaves no rclone and nothing readable, for   *)
(* any set of ports.  Not so when the port list fails or Ctrl-C meets no   *)
(* handler (Escapes), and a dead mount may be left.                        *)
THEOREM ReturnStopped == MountSpec => []ReturnMeansStopped
<1>1. MountInv => ReturnMeansStopped
  BY DEF MountInv, ServerInv, ReturnMeansStopped
<1> QED
  BY <1>1, MountAlwaysInv, PTL

(* rclone never runs without its cache directory, except after one of the  *)
(* Escapes.                                                                *)
THEOREM CacheOutlives == MountSpec => []CacheOutlivesServer
<1>1. MountInv => CacheOutlivesServer
  BY MountAssumption DEF MountInv, ServerInv, CacheOutlivesServer
<1> QED
  BY <1>1, MountAlwaysInv, PTL

(* No step of the mount gives a call whose dongle stays away more to do,   *)
(* and each step of its own leaves it less.                                *)
LEMMA CountsDown ==
    ASSUME MountInv, [MountNext]_emVars, device \in Ports \ bus, mpc # "idle",
           device' = device, device \notin bus'
    PROVE  StepsLeft' =< StepsLeft /\ (CallStep => StepsLeft' < StepsLeft)
<1> USE DEF StepsLeft, Ahead, Stopping, Polling, Escapes, CallStep
<1>0. device # NoPort /\ mpc \notin {"idle", "plain"} /\ MountTypeOK
  BY MountAssumption DEF MountInv, ServerInv
<1>1. CASE CallStep
  BY <1>0, <1>1 DEF Spawn, EnterLoop, PollAlive, PollExited, PortListed, PortMissing, Wake,
     StopNeedless, Terminate, WaitEnds, WaitExpires, Cleanup, MountTypeOK
<1>2. CASE ~CallStep /\ UNCHANGED <<mpc, result>>
  BY <1>0, <1>2 DEF MountTypeOK
<1>3. CASE ~CallStep /\ (ListFails \/ Interrupt \/ SecondInterrupt)
  BY <1>0, <1>3 DEF ListFails, Interrupt, SecondInterrupt, MountTypeOK
<1>4. ~(Refused \/ Start \/ Plain)
  BY <1>0 DEF Refused, Start, Launch, Plain, StartPlain, PlainReturns, PlainInterrupt
<1>5. CASE Rclone \/ Usb \/ UNCHANGED emVars
  <2>1. UNCHANGED <<mpc, result>>
    BY <1>5 DEF Rclone, Usb, Serve, ServerExits, Insert, Remove, emVars, mountVars, callState
  <2> QED
    BY <1>1, <1>2, <2>1
<1> QED
  BY <1>1, <1>3, <1>4, <1>5 DEF MountNext

(* For any set of ports: a call whose dongle stays away comes nearer to    *)
(* its end with every step of its own and is taken back by no other step.  *)
(* It is what AbsenceStopsServer rests on besides fairness.                *)
THEOREM AbsenceAlwaysCountsDown == MountSpec => AbsenceCountsDown
<1>1. MountInv /\ [MountNext]_emVars =>
        [mpc # "idle" /\ device \in Ports \ bus /\ device' = device /\ device \notin bus' =>
           StepsLeft' =< StepsLeft /\ (CallStep => StepsLeft' < StepsLeft)]_emVars
  BY CountsDown
<1> QED
  BY <1>1, MountInitInv, MountNextInv, PTL DEF MountSpec, AbsenceCountsDown

-----------------------------------------------------------------------------
(* While the watcher is not in its mount, no call of it is under way; and  *)
(* what its mount loop does ends in no unhandled exception.                *)
WatcherInv ==
    /\ MountInv
    /\ result \notin Escapes
    /\ pc # "mounting" => mpc = "idle"

LEMMA AutoInitInv == AutoInit => WatcherInv
  BY MountInitInv DEF AutoInit, MountInit, WatcherInv, Escapes

LEMMA AutoNextInv == WatcherInv /\ [AutoNext]_autoVars => WatcherInv'
<1> SUFFICES ASSUME WatcherInv, [AutoNext]_autoVars PROVE WatcherInv'
  OBVIOUS
<1>0. MountInv /\ UNCHANGED emVars => MountInv'
  BY DEF emVars, mountVars, callState, MountInv, MountTypeOK, ServerInv
<1> USE DEF Escapes
<1>1. CASE FindsNone \/ FindsDongle \/ PortIsBusy \/ PortIsFree \/ UnlockFails
  BY <1>0, <1>1 DEF FindsNone, FindsDongle, PortIsBusy, PortIsFree, UnlockFails, Shows,
       WatcherInv, emVars, mountVars, callState, loopVars
<1>2. CASE User
  BY <1>0, <1>2 DEF User, BusyDismissed, Cancel, PasswordGiven, BootAgreed,
       MessageDismissed, WatcherInv, emVars, mountVars, callState
<1>3. CASE MountReturns \/ Restarts \/ OrphanServes \/ FilesChange
  BY <1>0, <1>3 DEF MountReturns, Restarts, OrphanServes, FilesChange, WatcherInv,
       emVars, mountVars, callState, loopVars
<1>4. CASE UnlockSucceeds
  <2>1. server \notin Alive
    BY <1>4 DEF UnlockSucceeds, WatcherInv, MountInv, ServerInv
  <2> QED
    BY <1>4, <2>1, LaunchInv DEF UnlockSucceeds, Launch, WatcherInv
<1>5. CASE Mount
  <2>1. MountInv'
    BY <1>5, CallInv DEF Mount, Rclone, WatcherInv
  <2>2. result' \notin Escapes
    BY <1>5 DEF Mount, WatcherInv, CallStep, Spawn, EnterLoop, PollAlive, PollExited,
         PortListed, PortMissing, Wake, StopNeedless, Terminate, WaitEnds, WaitExpires,
         Cleanup, Serve, ServerExits, callState
  <2>3. mpc = "idle" => mpc' = "idle"
    BY <1>5 DEF Mount, CallStep, Spawn, EnterLoop, PollAlive, PollExited,
         PortListed, PortMissing, Wake, StopNeedless, Terminate, WaitEnds, WaitExpires,
         Cleanup, Serve, ServerExits, callState
  <2> QED
    BY <1>5, <2>1, <2>2, <2>3 DEF Mount, WatcherInv, loopVars
<1>6. CASE Bus
  <2>1. PICK p \in Ports : PlugIn(p) \/ Unplug(p)
    BY <1>6 DEF Bus
  <2>2. Insert(p) \/ Remove(p)
    BY <2>1 DEF PlugIn, Unplug
  <2>3. MountInv'
    BY <2>2, BusInv DEF WatcherInv
  <2> QED
    BY <2>1, <2>2, <2>3 DEF PlugIn, Unplug, Insert, Remove, WatcherInv, loopVars,
         mountVars, callState
<1>7. CASE Dies
  BY <1>7 DEF Dies, WatcherInv, MountInv, MountTypeOK, ServerInv, Alive, Exited, Polling,
       Stopping, Left
<1>8. CASE OrphanEnds
  BY <1>8 DEF OrphanEnds, WatcherInv, MountInv, MountTypeOK, ServerInv, loopVars, callState
<1>9. CASE UNCHANGED autoVars
  BY <1>0, <1>9 DEF autoVars, WatcherInv, emVars, mountVars, callState, loopVars
<1> QED
  BY <1>1, <1>2, <1>3, <1>4, <1>5, <1>6, <1>7, <1>8, <1>9 DEF AutoNext, Loop, Launchd

-----------------------------------------------------------------------------
(* The loop's own variables.                                               *)

(* The first port listed is one of those listed.                           *)
LEMMA FirstPortListed ==
    ASSUME bus \subseteq Ports, bus # {}
    PROVE  FirstPort \in bus
<1>1. \E p \in bus : \A q \in bus : p =< q
  BY AutoMountAssumption
<1> QED
  BY <1>1 DEF FirstPort, Min

LoopTypeOK ==
    /\ pc \in {"scan", "owners", "unlock", "mounting", "dead"} \cup Dialogs
    /\ handled \in Ports \cup {NoPort}
    /\ port \in Ports \cup {NoPort}
    /\ pc \notin {"scan", "dead"} => handled = port /\ port \in Ports
    /\ attended \subseteq bus /\ canceled \subseteq bus /\ hasty \subseteq bus
    /\ unnoticed \subseteq Ports \ bus
    /\ intact \in BOOLEAN
    /\ orphan \in [1 .. MaxDeaths -> {"none", "starting", "serving"}]
    /\ deaths \in 0 .. MaxDeaths

LEMMA LoopTypeStep ==
    ASSUME bus \subseteq Ports, LoopTypeOK, [AutoNext]_autoVars
    PROVE  LoopTypeOK'
<1> USE DEF LoopTypeOK, Dialogs, historyVars, looked, loopVars, hostVars, emVars
<1>1. CASE FindsNone \/ FindsDongle
  BY <1>1, FirstPortListed DEF FindsNone, FindsDongle
<1>2. CASE PortIsBusy \/ PortIsFree \/ UnlockFails
  BY <1>2 DEF PortIsBusy, PortIsFree, UnlockFails, Shows
<1>3. CASE User
  BY <1>3 DEF User, BusyDismissed, Cancel, PasswordGiven, BootAgreed, MessageDismissed
<1>4. CASE MountReturns \/ UnlockSucceeds
  BY <1>4 DEF MountReturns, UnlockSucceeds
<1>5. CASE Mount
  <2>1. UNCHANGED bus
    BY <1>5 DEF Mount, CallStep, Spawn, EnterLoop, PollAlive, PollExited, PortListed, PortMissing, Wake,
       StopNeedless, Terminate, WaitEnds, WaitExpires, Cleanup, Serve, ServerExits
  <2> QED
    BY <1>5, <2>1 DEF Mount
<1>6. CASE Bus
  BY <1>6 DEF Bus, PlugIn, Unplug, Insert, Remove
<1>7. CASE Dies
  <2>1. deaths' \in 0 .. MaxDeaths
    BY <1>7, AutoMountAssumption DEF Dies
  <2>2. orphan' \in [1 .. MaxDeaths -> {"none", "starting", "serving"}]
    BY <1>7 DEF Dies
  <2> QED
    BY <1>7, <2>1, <2>2 DEF Dies
<1>8. CASE Launchd
  BY <1>8 DEF Launchd, OrphanServes, OrphanEnds, Restarts
<1>9. CASE FilesChange \/ UNCHANGED autoVars
  BY <1>9 DEF FilesChange, autoVars
<1> QED
  BY <1>1, <1>2, <1>3, <1>4, <1>5, <1>6, <1>7, <1>8, <1>9 DEF AutoNext, Loop

(* The variables of the watcher keep their types, over all its deaths: a   *)
(* dialog is always about the port that counts as handled, and nothing is  *)
(* remembered of dongles that are gone.                                    *)
THEOREM AutoTypeCorrect == AutoSpec => []AutoTypeOK
<1>1. AutoInit => WatcherInv /\ LoopTypeOK
  BY AutoInitInv, AutoMountAssumption DEF AutoInit, LoopTypeOK
<1>2. WatcherInv /\ LoopTypeOK /\ [AutoNext]_autoVars => (WatcherInv /\ LoopTypeOK)'
  BY AutoNextInv, LoopTypeStep DEF WatcherInv, MountInv, MountTypeOK
<1>3. WatcherInv /\ LoopTypeOK => AutoTypeOK
  BY DEF WatcherInv, MountInv, LoopTypeOK, AutoTypeOK
<1> QED
  BY <1>1, <1>2, <1>3, PTL DEF AutoSpec

-----------------------------------------------------------------------------
(* The rclones that are alive.                                             *)

(* A death leaves an rclone in its own place, so that none is forgotten.   *)
OrphansInv == \A i \in 1 .. MaxDeaths : orphan[i] # "none" => i =< deaths

LEMMA OrphansStep ==
    ASSUME LoopTypeOK, OrphansInv, [AutoNext]_autoVars
    PROVE  OrphansInv'
<1> USE DEF LoopTypeOK, OrphansInv
<1>1. CASE Dies
  BY <1>1, AutoMountAssumption DEF Dies
<1>2. CASE Launchd
  BY <1>2 DEF Launchd, OrphanServes, OrphanEnds, Restarts, hostVars
<1>3. CASE ~(Dies \/ Launchd)
  <2>1. UNCHANGED <<orphan, deaths>>
    BY <1>3 DEF AutoNext, Loop, User, Mount, Bus, FindsNone, FindsDongle, MountReturns,
       UnlockFails, UnlockSucceeds, PortIsBusy, PortIsFree, BusyDismissed, Cancel,
       PasswordGiven, BootAgreed, MessageDismissed, PlugIn, Unplug, FilesChange, hostVars,
       autoVars
  <2> QED
    BY <2>1
<1> QED
  BY <1>1, <1>2, <1>3

(* For any number of ports and deaths: the rclones alive are that of the   *)
(* mount under way and at most one for each death, so that only a death of *)
(* the watcher lets another rclone be started beside one that still runs.  *)
THEOREM RclonesAlwaysCounted == AutoSpec => []RclonesCounted
<1>1. AutoInit => WatcherInv /\ LoopTypeOK /\ OrphansInv
  BY AutoInitInv, AutoMountAssumption DEF AutoInit, LoopTypeOK, OrphansInv
<1>2. WatcherInv /\ LoopTypeOK /\ OrphansInv /\ [AutoNext]_autoVars
        => (WatcherInv /\ LoopTypeOK /\ OrphansInv)'
  BY AutoNextInv, LoopTypeStep, OrphansStep DEF WatcherInv, MountInv, MountTypeOK
<1>3. WatcherInv /\ LoopTypeOK /\ OrphansInv => RclonesCounted
  <2> SUFFICES ASSUME WatcherInv, LoopTypeOK, OrphansInv PROVE RclonesCounted
    OBVIOUS
  <2>1. deaths \in Nat /\ Orphans \subseteq 1 .. deaths
    BY AutoMountAssumption DEF LoopTypeOK, OrphansInv, Orphans
  <2>2. IsFiniteSet(1 .. deaths) /\ Cardinality(1 .. deaths) = deaths
    BY <2>1, FS_Interval
  <2>3. Cardinality(Orphans) \in Nat /\ Cardinality(Orphans) =< deaths
    BY <2>1, <2>2, FS_Subset, FS_CardinalityType
  <2>4. server \in Alive => pc = "mounting"
    BY DEF WatcherInv, MountInv, ServerInv
  <2> QED
    BY <2>1, <2>3, <2>4 DEF RclonesCounted
<1> QED
  BY <1>1, <1>2, <1>3, PTL DEF AutoSpec

-----------------------------------------------------------------------------
(* Canceled dialogs.                                                       *)

(* Only the dongle at the handled port may be remembered as canceled, and  *)
(* only while the loop has turned to no other.                             *)
CanceledInv ==
    /\ canceled \subseteq {handled}
    /\ pc \notin {"scan", "dead"} => canceled = {}

LEMMA CanceledStep ==
    ASSUME LoopTypeOK, CanceledInv, [AutoNext]_autoVars
    PROVE  CanceledInv'
<1> USE DEF LoopTypeOK, CanceledInv, historyVars, looked, loopVars
<1>1. CASE FindsNone \/ FindsDongle
  BY <1>1 DEF FindsNone, FindsDongle
<1>2. CASE PortIsBusy \/ PortIsFree \/ UnlockFails
  BY <1>2 DEF PortIsBusy, PortIsFree, UnlockFails, Shows
<1>3. CASE User
  BY <1>3 DEF User, BusyDismissed, Cancel, PasswordGiven, BootAgreed, MessageDismissed
<1>4. CASE MountReturns \/ UnlockSucceeds \/ Mount
  BY <1>4 DEF MountReturns, UnlockSucceeds, Mount
<1>5. CASE Bus
  BY <1>5 DEF Bus, PlugIn, Unplug
<1>6. CASE Dies \/ FilesChange \/ Launchd \/ UNCHANGED autoVars
  BY <1>6 DEF Dies, FilesChange, Launchd, OrphanServes, OrphanEnds, Restarts, autoVars
<1> QED
  BY <1>1, <1>2, <1>3, <1>4, <1>5, <1>6 DEF AutoNext, Loop

(* A canceled dialog does not come back while its dongle stays plugged in, *)
(* the watcher lives and it has turned to no other port.                   *)
THEOREM CancelAlwaysSticks == AutoSpec => CancelSticks
<1>1. AutoInit => WatcherInv /\ LoopTypeOK /\ CanceledInv
  BY AutoInitInv, AutoMountAssumption DEF AutoInit, LoopTypeOK, CanceledInv
<1>2. WatcherInv /\ LoopTypeOK /\ CanceledInv /\ [AutoNext]_autoVars
        => (WatcherInv /\ LoopTypeOK /\ CanceledInv)'
  BY AutoNextInv, LoopTypeStep, CanceledStep DEF WatcherInv, MountInv, MountTypeOK
<1>3. CanceledInv /\ [AutoNext]_autoVars
        => [pc = "owners" /\ pc' = "password" => port \notin canceled]_autoVars
  BY DEF CanceledInv
<1> QED
  BY <1>1, <1>2, <1>3, PTL DEF AutoSpec, CancelSticks

-----------------------------------------------------------------------------
(* Dongles the loop passes over.                                           *)

(* A handled port without a dongle has lost it unseen; and once the loop   *)
(* is past the first look at who uses the port, a dongle there has been    *)
(* reacted to, or has come back unseen.                                    *)
HandledInv ==
    /\ handled \in Ports \ bus => handled \in unnoticed
    /\ handled \in bus /\ pc \notin {"owners", "dead"} => handled \in attended \cup hasty

LEMMA HandledStep ==
    ASSUME bus \subseteq Ports, LoopTypeOK, HandledInv, [AutoNext]_autoVars
    PROVE  HandledInv'
<1> USE DEF LoopTypeOK, HandledInv, Dialogs, historyVars, looked, loopVars, emVars
<1>0. NoPort \notin Ports
  BY MountAssumption
<1>1. CASE FindsNone \/ FindsDongle
  BY <1>0, <1>1, FirstPortListed DEF FindsNone, FindsDongle
<1>2. CASE PortIsBusy \/ PortIsFree \/ UnlockFails
  BY <1>2 DEF PortIsBusy, PortIsFree, UnlockFails, Shows
<1>3. CASE User
  BY <1>0, <1>3 DEF User, BusyDismissed, Cancel, PasswordGiven, BootAgreed, MessageDismissed
<1>4. CASE MountReturns \/ UnlockSucceeds
  BY <1>4 DEF MountReturns, UnlockSucceeds
<1>5. CASE Mount
  <2>1. UNCHANGED bus
    BY <1>5 DEF Mount, CallStep, Spawn, EnterLoop, PollAlive, PollExited, PortListed, PortMissing, Wake,
       StopNeedless, Terminate, WaitEnds, WaitExpires, Cleanup, Serve, ServerExits
  <2> QED
    BY <1>5, <2>1 DEF Mount
<1>6. ASSUME NEW p \in Ports, PlugIn(p) PROVE HandledInv'
  BY <1>6 DEF PlugIn, Insert
<1>7. ASSUME NEW p \in Ports, Unplug(p) PROVE HandledInv'
  BY <1>7 DEF Unplug, Remove
<1>8. CASE Dies
  BY <1>8 DEF Dies
<1>9. CASE Launchd
  BY <1>0, <1>9 DEF Launchd, OrphanServes, OrphanEnds, Restarts
<1>10. CASE FilesChange \/ UNCHANGED autoVars
  BY <1>10 DEF FilesChange, autoVars
<1> QED
  BY <1>1, <1>2, <1>3, <1>4, <1>5, <1>6, <1>7, <1>8, <1>9, <1>10 DEF AutoNext, Loop, Bus

(* A dongle the loop passes over as handled has been reacted to, or came   *)
(* back while the loop had its eyes off the bus, for any number of ports.  *)
THEOREM PassedOverAreKnown == AutoSpec => []PassedOverIsKnown
<1>1. AutoInit => WatcherInv /\ LoopTypeOK /\ HandledInv
  BY AutoInitInv, AutoMountAssumption, MountAssumption
     DEF AutoInit, MountInit, LoopTypeOK, HandledInv
<1>2. WatcherInv /\ LoopTypeOK /\ HandledInv /\ [AutoNext]_autoVars
        => (WatcherInv /\ LoopTypeOK /\ HandledInv)'
  BY AutoNextInv, LoopTypeStep, HandledStep DEF WatcherInv, MountInv, MountTypeOK
<1>3. WatcherInv /\ LoopTypeOK /\ HandledInv => PassedOverIsKnown
  BY FirstPortListed DEF WatcherInv, MountInv, MountTypeOK, HandledInv, PassedOverIsKnown
<1> QED
  BY <1>1, <1>2, <1>3, PTL DEF AutoSpec

-----------------------------------------------------------------------------
(* The watcher as a caller of the mount.                                   *)

LEMMA MountStep ==
    ASSUME WatcherInv, LoopTypeOK, [AutoNext]_autoVars
    PROVE  [MountNext \/ Dies \/ OrphanEnds]_emVars
<1>1. CASE UnlockSucceeds
  <2>1. server \notin Alive
    BY <1>1 DEF UnlockSucceeds, WatcherInv, MountInv, ServerInv
  <2>2. Start
    BY <1>1, <2>1 DEF UnlockSucceeds, Start
  <2> QED
    BY <2>2 DEF MountNext
<1>2. CASE Mount
  BY <1>2 DEF Mount, MountNext, Rclone
<1>3. CASE Bus
  BY <1>3 DEF Bus, PlugIn, Unplug, MountNext, Usb
<1>4. CASE ~(UnlockSucceeds \/ Mount \/ Bus \/ Dies \/ OrphanEnds)
  BY <1>4 DEF AutoNext, Loop, User, Launchd, FindsNone, FindsDongle, MountReturns, UnlockFails,
     PortIsBusy, PortIsFree, BusyDismissed, Cancel, PasswordGiven, BootAgreed, MessageDismissed,
     OrphanServes, Restarts, FilesChange, autoVars
<1> QED
  BY <1>1, <1>2, <1>3, <1>4

(* A removal that lasts also ends the watcher's mount within nine of its   *)
(* steps, whether or not the watcher dies meanwhile: what RemovalUnmounts  *)
(* rests on besides fairness.                                              *)
THEOREM WatcherCountsDown == AutoSpec => AbsenceCountsDown
<1>1. AutoInit => WatcherInv /\ LoopTypeOK
  BY AutoInitInv, AutoMountAssumption DEF AutoInit, LoopTypeOK
<1>2. WatcherInv /\ LoopTypeOK /\ [AutoNext]_autoVars => (WatcherInv /\ LoopTypeOK)'
  BY AutoNextInv, LoopTypeStep DEF WatcherInv, MountInv, MountTypeOK
<1>3. WatcherInv /\ LoopTypeOK /\ [AutoNext]_autoVars =>
        [mpc # "idle" /\ device \in Ports \ bus /\ device' = device /\ device \notin bus' =>
           StepsLeft' =< StepsLeft /\ (CallStep => StepsLeft' < StepsLeft)]_emVars
  <2> SUFFICES ASSUME WatcherInv, LoopTypeOK, [AutoNext]_autoVars, mpc # "idle",
                      device \in Ports \ bus, device' = device, device \notin bus'
               PROVE  StepsLeft' =< StepsLeft /\ (CallStep => StepsLeft' < StepsLeft)
    OBVIOUS
  <2>1. CASE [MountNext]_emVars
    BY <2>1, CountsDown DEF WatcherInv
  <2>2. ~Dies
    BY MountAssumption DEF Dies
  <2>3. CASE OrphanEnds
    <3>1. StepsLeft' = StepsLeft /\ StepsLeft \in Nat
      BY <2>3 DEF OrphanEnds, callState, StepsLeft, Ahead, Stopping, Polling, WatcherInv,
         MountInv, MountTypeOK
    <3>2. ~CallStep
      BY <2>3 DEF OrphanEnds, callState, CallStep, Spawn, EnterLoop, PollAlive, PollExited, PortListed,
         PortMissing, Wake, StopNeedless, Terminate, WaitEnds, WaitExpires, Cleanup
    <3> QED
      BY <3>1, <3>2
  <2> QED
    BY <2>1, <2>2, <2>3, MountStep
<1> QED
  BY <1>1, <1>2, <1>3, PTL DEF AutoSpec, AbsenceCountsDown
=============================================================================

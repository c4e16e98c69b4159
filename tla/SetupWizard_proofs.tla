-------------------------- MODULE SetupWizard_proofs --------------------------
(***************************************************************************)
(* Theorems about the guided setup, for any set of dongles.  The server is *)
(* part of the invariant: what the wizard leaves on it depends on the step *)
(* the wizard has reached.                                                 *)
(***************************************************************************)
EXTENDS SetupWizard, TLAPS

Bound     == {"config", "plist"}              \* steps with a descriptor
Installed == {"unplug", "bootout", "bootstrap", "reconnect", "mount", "complete"}
Started   == {"reconnect", "mount", "complete"}

(* A property list is only there with the files its watcher reads; the     *)
(* later steps have what the earlier ones made.                            *)
StepInv ==
    /\ sshd = "restricted" => dropIn # "none"
    /\ plist => conf # None /\ desc # None
    /\ loaded \/ previous => plist
    /\ pc = "restore" => previous
    /\ pc \in Bound \cup Installed => desc # None
    /\ pc \in {"plist"} \cup Installed => conf = "new"
    /\ pc \in Installed => plist
    /\ pc \in Started => loaded /\ runs = "new"

SetupInv == SetupTypeOK /\ StepInv /\ ServiceRestored /\ ScriptRemoved

-----------------------------------------------------------------------------
LEMMA InitInv == Init => SetupInv
  BY SetupAssumption DEF Init, SetupInv, SetupTypeOK, StepInv, ServiceRestored, Confs,
                         Steps, Try, Ends, Bound, Installed, Started, ServerInit,
                         ServerTypeOK, ScriptRemoved

(* What launchctl bootout and the calls for the script leave is of the     *)
(* right type.                                                             *)
LEMMA UnloadType ==
    ASSUME SetupTypeOK, Unload
    PROVE  /\ loaded' \in BOOLEAN /\ mounted' \in BOOLEAN
           /\ runs' \in Confs \cup {None}
<1>1. CASE loaded' = FALSE /\ runs' = None /\ MayUnmount
  BY <1>1 DEF MayUnmount
<1>2. CASE UNCHANGED <<loaded, runs, mounted>>
  BY <1>2 DEF SetupTypeOK
<1> QED
  BY <1>1, <1>2 DEF Unload

LEMMA ScriptType ==
    ASSUME ServerTypeOK,
           RemoveScript \/ LeaveScript \/ CreateCutOff \/ UNCHANGED serverVars
    PROVE  ServerTypeOK'
<1>1. CASE RemoveScript
  BY <1>1 DEF RemoveScript, ServerTypeOK
<1>2. CASE LeaveScript \/ CreateCutOff
  BY <1>2 DEF LeaveScript, CreateCutOff, ServerTypeOK
<1>3. CASE UNCHANGED serverVars
  BY <1>3 DEF serverVars, ServerTypeOK
<1> QED
  BY <1>1, <1>2, <1>3

LEMMA TypeStep == SetupTypeOK /\ [Next]_vars => SetupTypeOK'
<1> SUFFICES ASSUME SetupTypeOK, [Next]_vars PROVE SetupTypeOK'
  OBVIOUS
<1> USE DEF SetupTypeOK, Confs, Steps, Ends, Try, Goes, Guided, service, wizardVars, ServerTypeOK,
            serverVars, MayUnmount
<1>1. CASE StopExistingAgent
  BY <1>1, UnloadType DEF StopExistingAgent
<1>2. CASE CheckDongle
  BY <1>2 DEF CheckDongle
<1>3. CASE PrepareServer
  BY <1>3 DEF PrepareServer, EnsureIdentity, NewPair, CreateScript, UploadScript,
               Authorize, Restrict, TestAndReload
<1>4. CASE Finally
  <2>1. ServerTypeOK'
    BY <1>4, ScriptType DEF Finally
  <2> HIDE DEF ServerTypeOK
  <2> QED
    BY <1>4, <2>1 DEF Finally, AfterFailure
<1>5. CASE Verify
  BY <1>5 DEF Verify, VerifySftp
<1>6. CASE FailOnServer
  BY <1>6 DEF FailOnServer, KeyEmptied, DropInCutOff
<1>7. CASE SshdStarts
  BY <1>7 DEF SshdStarts, SshdRestarts
<1>8. CASE ReuseDescriptor \/ AskPassword
  BY <1>8 DEF ReuseDescriptor, AskPassword
<1>9. CASE BindVault
  BY <1>9 DEF BindVault
<1>10. CASE SaveConfig
  BY <1>10 DEF SaveConfig
<1>11. CASE WritePlist
  BY <1>11 DEF WritePlist
<1>12. CASE DongleGone \/ Bootout
  BY <1>12, UnloadType DEF DongleGone, Bootout
<1>13. CASE Bootstrap
  BY <1>13 DEF Bootstrap
<1>14. CASE DongleBack \/ Complete
  BY <1>14 DEF DongleBack, Complete
<1>15. CASE StopInterrupted
  BY <1>15, UnloadType DEF StopInterrupted
<1>16. CASE Fail
  <2>1. ServerTypeOK'
    BY <1>16, ScriptType DEF Fail
  <2> HIDE DEF ServerTypeOK
  <2> QED
    BY <1>16, <2>1 DEF Fail, AfterFailure
<1>17. CASE Restore
  BY <1>17 DEF Restore
<1>18. CASE RestoreRefused
  BY <1>18, UnloadType DEF RestoreRefused
<1>19. CASE Killed
  BY <1>19 DEF Killed, LeaveScript
<1>20. CASE Restart
  BY <1>20 DEF Restart
<1>21. CASE Mount
  BY <1>21 DEF Mount
<1>22. CASE Unplug
  BY <1>22 DEF Unplug
<1>23. CASE PlugIn
  BY <1>23 DEF PlugIn
<1>24. CASE UNCHANGED vars
  BY <1>24 DEF vars
<1> QED
  BY <1>1, <1>2, <1>3, <1>4, <1>5, <1>6, <1>7, <1>8, <1>9, <1>10, <1>11, <1>12, <1>13,
     <1>14, <1>15, <1>16, <1>17, <1>18, <1>19, <1>20, <1>21, <1>22, <1>23, <1>24
  DEF Next, Wizard, Outside, Provision

LEMMA NextInv == SetupInv /\ [Next]_vars => SetupInv'
<1> SUFFICES ASSUME SetupInv, [Next]_vars PROVE SetupInv'
  OBVIOUS
<1>0. SetupTypeOK'
  BY TypeStep DEF SetupInv
<1> USE <1>0, SetupAssumption
    DEF SetupInv, StepInv, ServiceRestored, Steps, Bound, Installed, Started, Goes, Guided,
        service, wizardVars, Try, ScriptRemoved, serverVars, Unload
<1>1. CASE StopExistingAgent
  BY <1>1 DEF StopExistingAgent
<1>2. CASE CheckDongle
  BY <1>2 DEF CheckDongle
<1>3. CASE PrepareServer
  BY <1>3 DEF PrepareServer, EnsureIdentity, NewPair, CreateScript, UploadScript,
               Authorize, Restrict, TestAndReload
<1>4. CASE Finally
  BY <1>4 DEF Finally, AfterFailure, RemoveScript, LeaveScript
<1>5. CASE Verify
  BY <1>5 DEF Verify, VerifySftp
<1>6. CASE FailOnServer
  BY <1>6 DEF FailOnServer, KeyEmptied, DropInCutOff
<1>7. CASE SshdStarts
  BY <1>7 DEF SshdStarts, SshdRestarts
<1>8. CASE ReuseDescriptor \/ AskPassword
  BY <1>8 DEF ReuseDescriptor, AskPassword
<1>9. CASE BindVault
  BY <1>9 DEF BindVault
<1>10. CASE SaveConfig
  BY <1>10 DEF SaveConfig
<1>11. CASE WritePlist
  BY <1>11 DEF WritePlist
<1>12. CASE DongleGone \/ Bootout
  BY <1>12 DEF DongleGone, Bootout
<1>13. CASE Bootstrap
  BY <1>13 DEF Bootstrap
<1>14. CASE DongleBack \/ Complete
  BY <1>14 DEF DongleBack, Complete
<1>15. CASE StopInterrupted
  BY <1>15 DEF StopInterrupted
<1>16. CASE Fail
  BY <1>16 DEF Fail, AfterFailure, CreateCutOff
<1>17. CASE Restore
  BY <1>17 DEF Restore
<1>18. CASE RestoreRefused
  BY <1>18 DEF RestoreRefused
<1>19. CASE Killed
  BY <1>19 DEF Killed, LeaveScript
<1>20. CASE Restart
  BY <1>20 DEF Restart
<1>21. CASE Mount
  BY <1>21 DEF Mount
<1>22. CASE Unplug
  BY <1>22 DEF Unplug
<1>23. CASE PlugIn
  BY <1>23 DEF PlugIn
<1>24. CASE UNCHANGED vars
  BY <1>24 DEF vars
<1> QED
  BY <1>1, <1>2, <1>3, <1>4, <1>5, <1>6, <1>7, <1>8, <1>9, <1>10, <1>11, <1>12, <1>13,
     <1>14, <1>15, <1>16, <1>17, <1>18, <1>19, <1>20, <1>21, <1>22, <1>23, <1>24
  DEF Next, Wizard, Outside, Provision

LEMMA AlwaysInv == Spec => []SetupInv
  BY InitInv, NextInv, PTL DEF Spec

(* The variables of the setup keep their types.                            *)
THEOREM SetupTypeCorrect == Spec => []SetupTypeOK
<1>1. SetupInv => SetupTypeOK
  BY DEF SetupInv
<1> QED
  BY <1>1, AlwaysInv, PTL

(* Wherever the setup fails, the service that run_setup_wizard stopped is  *)
(* running again, unless launchctl refuses it.                             *)
THEOREM StoppedServiceRestored == Spec => []ServiceRestored
<1>1. SetupInv => ServiceRestored
  BY DEF SetupInv
<1> QED
  BY <1>1, AlwaysInv, PTL

(* A watcher never runs without its configuration and a vault descriptor.  *)
THEOREM WatcherAlwaysHasVault == Spec => []WatcherHasVault
<1>1. SetupInv => WatcherHasVault
  BY DEF SetupInv, SetupTypeOK, StepInv, WatcherHasVault
<1> QED
  BY <1>1, AlwaysInv, PTL

(* "Setup complete" is only said of a watcher that runs with the           *)
(* configuration of this setup.                                            *)
THEOREM CompleteMeansNew == Spec => []CompleteIsNew
<1>1. SetupInv => CompleteIsNew
  BY DEF SetupInv, StepInv, CompleteIsNew, Started
<1> QED
  BY <1>1, AlwaysInv, PTL

(* After provision_server the temporary script is gone, unless an ssh call *)
(* that makes or removes it was cut off or the wizard was killed; in those *)
(* cases it may stay, even if the setup goes on.                           *)
THEOREM ScriptStaysOnlyCutOff == Spec => []ScriptRemoved
<1>1. SetupInv => ScriptRemoved
  BY DEF SetupInv
<1> QED
  BY <1>1, AlwaysInv, PTL

-----------------------------------------------------------------------------
(* The actions that leave the server, and the key pair, alone.             *)
LEMMA ServerUntouched ==
    Wizard \/ Outside \/ Verify => UNCHANGED serverVars
  BY DEF Wizard, Outside, Verify, VerifySftp, StopExistingAgent, CheckDongle,
         ReuseDescriptor, AskPassword, BindVault, SaveConfig, WritePlist, DongleGone,
         Bootout, Bootstrap, DongleBack, Complete, StopInterrupted, Restore,
         RestoreRefused, Restart, Mount, Unplug, PlugIn, serverVars

(* No step of the setup stops sshd: it is only reloaded with a             *)
(* configuration that sshd -t accepts.                                     *)
THEOREM SshdAlwaysSurvives == Spec => SshdSurvives
<1>1. [Next]_vars => (sshd' = "dead" => sshd = "dead" \/ pc' = pc)
  <2> SUFFICES ASSUME [Next]_vars, sshd' = "dead" PROVE sshd = "dead" \/ pc' = pc
    OBVIOUS
  <2>1. CASE PrepareServer
    BY <2>1 DEF PrepareServer, EnsureIdentity, NewPair, CreateScript, UploadScript,
                Authorize, Restrict, TestAndReload, serverVars
  <2>2. CASE Finally
    BY <2>2 DEF Finally, RemoveScript, LeaveScript
  <2>3. CASE Fail \/ FailOnServer \/ Killed
    BY <2>3 DEF Fail, FailOnServer, Killed, CreateCutOff, KeyEmptied, DropInCutOff,
                LeaveScript, serverVars
  <2>4. CASE SshdStarts
    BY <2>4 DEF SshdStarts, wizardVars
  <2>5. CASE UNCHANGED serverVars
    BY <2>5 DEF serverVars
  <2> QED
    BY <2>1, <2>2, <2>3, <2>4, <2>5, ServerUntouched DEF Next, Provision, vars
<1> QED
  BY <1>1, PTL DEF Spec, SshdSurvives

(* The login of a complete key pair is lost in three ways only: the key    *)
(* file is cut off in its rewrite, sshd starts after the drop-in was, or   *)
(* sshd does not start.                                                    *)
THEOREM LoginLostInThreeWays == Spec => LoginKept
<1> DEFINE Kept == CanLogIn /\ identity = "whole" =>
                      CanLogIn' \/ pc = "authorize" \/ dropIn = "partial" \/ sshd' = "dead"
<1>1. SetupInv /\ [Next]_vars => Kept
  <2> SUFFICES ASSUME SetupInv, [Next]_vars, CanLogIn, identity = "whole"
               PROVE  CanLogIn' \/ pc = "authorize" \/ dropIn = "partial" \/ sshd' = "dead"
    OBVIOUS
  <2>1. CASE PrepareServer
    BY <2>1 DEF PrepareServer, EnsureIdentity, NewPair, CreateScript, UploadScript,
                Authorize, Restrict, TestAndReload, serverVars, CanLogIn, Goes
  <2>2. CASE Finally
    BY <2>2 DEF Finally, RemoveScript, LeaveScript, CanLogIn
  <2>3. CASE Fail \/ FailOnServer \/ Killed
    BY <2>3 DEF Fail, FailOnServer, Killed, CreateCutOff, KeyEmptied, DropInCutOff,
                LeaveScript, serverVars, CanLogIn
  <2>4. CASE SshdStarts
    BY <2>4 DEF SshdStarts, SshdRestarts, CanLogIn, SetupInv, SetupTypeOK, ServerTypeOK,
                StepInv
  <2>5. CASE UNCHANGED serverVars
    BY <2>5 DEF serverVars, CanLogIn
  <2> QED
    BY <2>1, <2>2, <2>3, <2>4, <2>5, ServerUntouched DEF Next, Provision, vars
<1> QED
  BY <1>1, AlwaysInv, PTL DEF Spec, LoginKept

=============================================================================

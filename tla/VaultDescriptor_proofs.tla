----------------------- MODULE VaultDescriptor_proofs -----------------------
(* Theorems about the vault descriptor, for any number of processes,       *)
(* dongles and passwords.                                                  *)
EXTENDS VaultDescriptor, TLAPS

(* The inductive invariant: what each process believes of the file is      *)
(* still so, or is of a descriptor taken back; one process writes at a     *)
(* time; and all that was opened was opened with the credentials of the    *)
(* descriptor that is on disk or of one taken back.                        *)
Valid(c) == c \in revoked \/ (file \in Descriptors /\ c = CredentialOf(file))

FileInv ==
    /\ \A p \in Procs : pc[p] \in {"check", "derive"} =>
                          dongle[p] \in Dongles /\ password[p] \in Passwords
    /\ \A p \in Procs : pc[p] \in {"create", "write", "flushed"} => desc[p] \in Descriptors
    /\ \A p \in Procs : pc[p] = "write" => file = Torn
    /\ \A p \in Procs : pc[p] \in {"flushed", "created"} =>
                          file \in Descriptors /\ file = desc[p]
    /\ \A p, q \in Procs : pc[p] \in {"write", "flushed"} /\
                             pc[q] \in {"write", "flushed", "created"} => p = q
    /\ \A p \in Procs : pc[p] \in {"match", "verify"} =>
                          desc[p] \in Descriptors /\ Valid(CredentialOf(desc[p]))
    /\ \A p \in Procs : pc[p] = "verify" => dongle[p] = desc[p].dongle

OpenedInv == \A s \in opened : Valid(s)

Inv == VaultTypeOK /\ FileInv /\ OpenedInv /\ TornOnlyByCrash

-----------------------------------------------------------------------------
LEMMA DescriptorFields ==
    ASSUME NEW D \in Descriptors
    PROVE  /\ D.version \in {1, 2}
           /\ D.dongle \in Dongles /\ D.peer \in Peers
  BY DEF Descriptors, Descriptor

LEMMA CombinedType ==
    ASSUME NEW d \in Dongles, NEW e \in Peers, NEW w \in Passwords \cup {None}
    PROVE  Secret(d, e, w) \in Secrets
  BY DEF Secrets

LEMMA CredentialType ==
    ASSUME NEW D \in Descriptors
    PROVE  CredentialOf(D) \in Secrets
<1>1. CASE \E d \in Dongles, e \in Peers : D = Descriptor(1, d, e, None)
  BY <1>1, CombinedType DEF CredentialOf, Descriptor
<1>2. CASE \E d \in Dongles, e \in Peers, w \in Passwords : D = Descriptor(2, d, e, w)
  BY <1>2, CombinedType DEF CredentialOf, Descriptor
<1> QED
  BY <1>1, <1>2 DEF Descriptors

LEMMA InitInv == Init => Inv
<1> SUFFICES ASSUME Init PROVE Inv
  OBVIOUS
<1>1. VaultTypeOK
  <2>1. file \in {Absent, Torn} \cup Descriptors /\ used \subseteq Peers
    BY DEF Init, Descriptors
  <2> QED
    BY <2>1 DEF Init, VaultTypeOK
<1>2. FileInv /\ OpenedInv
  BY DEF Init, FileInv, OpenedInv
<1>3. TornOnlyByCrash
  BY FileAssumption, VaultAssumption DEF Init, TornOnlyByCrash, Descriptors
<1> QED
  BY <1>1, <1>2, <1>3 DEF Inv

(* Whoever opens the vault does so with the credentials on disk, or with   *)
(* those of a descriptor taken back.                                       *)
LEMMA OpenIsValid ==
    ASSUME Inv, NEW p \in Procs, Open(p)
    PROVE  Combined(p) \in Secrets /\ Valid(Combined(p))
<1>1. /\ desc[p] \in Descriptors /\ dongle[p] = desc[p].dongle
      /\ Valid(CredentialOf(desc[p])) /\ password[p] \in Passwords \cup {None}
  BY DEF Open, Goes, Inv, VaultTypeOK, FileInv
<1>2. Combined(p) = CredentialOf(desc[p])
  BY <1>1, DescriptorFields DEF Open, Verified, Combined, CredentialOf
<1>3. Combined(p) \in Secrets
  BY <1>1, CombinedType, DescriptorFields DEF Combined
<1> QED
  BY <1>1, <1>2, <1>3

LEMMA NextInv == Inv /\ [Next]_vars => Inv'
<1> SUFFICES ASSUME Inv, [Next]_vars PROVE Inv'
  OBVIOUS
<1> USE VaultAssumption, FileAssumption
        DEF Inv, VaultTypeOK, FileInv, OpenedInv, Valid, TornOnlyByCrash, Creating,
            Opening, histVars, Goes
<1>1. ASSUME NEW p \in Procs, StartCreate(p) PROVE Inv'
  BY <1>1 DEF StartCreate
<1>2. ASSUME NEW p \in Procs, FileExists(p) PROVE Inv'
  BY <1>2 DEF FileExists
<1>3. ASSUME NEW p \in Procs, CheckAbsent(p) PROVE Inv'
  BY <1>3 DEF CheckAbsent
<1>4. ASSUME NEW p \in Procs, BuildDescriptor(p) PROVE Inv'
  <2>1. PICK e \in Peers \ used :
          /\ used' = used \cup {e}
          /\ desc' = [desc EXCEPT ![p] = Descriptor(2, dongle[p], e, password[p])]
    BY <1>4 DEF BuildDescriptor
  <2>2. dongle[p] \in Dongles /\ password[p] \in Passwords
    BY <1>4 DEF BuildDescriptor
  <2>3. Descriptor(2, dongle[p], e, password[p]) \in Descriptors
    BY <2>2 DEF Descriptors
  <2> HIDE DEF Creating, Opening
  <2>4. desc' \in [Procs -> Descriptors \cup {None}]
    BY <2>1, <2>3
  <2> QED
    BY <1>4, <2>1, <2>3, <2>4 DEF BuildDescriptor, Creating, Opening
<1>5. ASSUME NEW p \in Procs, CreateFile(p) PROVE Inv'
  BY <1>5 DEF CreateFile
<1>6. ASSUME NEW p \in Procs, WriteFile(p) PROVE Inv'
  BY <1>6 DEF WriteFile
<1>7. ASSUME NEW p \in Procs, WriteFails(p) PROVE Inv'
  <2>1. revoked' \subseteq Secrets
    BY <1>7, CredentialType DEF WriteFails
  <2> QED
    BY <1>7, <2>1 DEF WriteFails
<1>17. ASSUME NEW p \in Procs, LeaveTry(p) PROVE Inv'
  BY <1>17 DEF LeaveTry
<1>8. ASSUME NEW p \in Procs, StartOpen(p) PROVE Inv'
  BY <1>8 DEF StartOpen
<1>9. ASSUME NEW p \in Procs, Load(p) PROVE Inv'
  BY <1>9 DEF Load
<1>10. ASSUME NEW p \in Procs, LoadFails(p) PROVE Inv'
  BY <1>10 DEF LoadFails
<1>11. ASSUME NEW p \in Procs, MatchDongle(p) PROVE Inv'
  BY <1>11 DEF MatchDongle
<1>12. ASSUME NEW p \in Procs, Open(p) PROVE Inv'
  <2>1. /\ Combined(p) \in Secrets /\ Valid(Combined(p))
        /\ UNCHANGED <<file, dongle, password, desc, used, revoked, crashed>>
    BY <1>12, OpenIsValid DEF Open
  <2> QED
    BY <1>12, <2>1 DEF Open
<1>13. ASSUME NEW p \in Procs, Refuse(p) PROVE Inv'
  BY <1>13 DEF Refuse
<1>14. ASSUME NEW p \in Procs, Abandon(p) PROVE Inv'
  BY <1>14 DEF Abandon
<1>15. ASSUME NEW p \in Procs, Crash(p) PROVE Inv'
  BY <1>15 DEF Crash
<1>16. CASE UNCHANGED vars
  BY <1>16 DEF vars, procVars
<1> QED
  BY <1>1, <1>2, <1>3, <1>4, <1>5, <1>6, <1>7, <1>8, <1>9, <1>10, <1>11, <1>12, <1>13,
     <1>14, <1>15, <1>16, <1>17 DEF Next, Create, Unlock

LEMMA AlwaysInv == Spec => []Inv
  BY InitInv, NextInv, PTL DEF Spec

(* Every variable keeps its type.                                          *)
THEOREM VaultTypeCorrect == Spec => []VaultTypeOK
<1>1. Inv => VaultTypeOK
  BY DEF Inv
<1> QED
  BY AlwaysInv, <1>1, PTL

(* However many processes race to create the vault or unlock it, with      *)
(* whatever dongles and passwords, and wherever they die: apart from the   *)
(* credentials of descriptors their failing creators took back, every      *)
(* mount uses the same.                                                    *)
THEOREM VaultHasOneCredential == Spec => []OneCredential
<1>1. Inv => OneCredential
  BY DEF Inv, OpenedInv, Valid, OneCredential
<1> QED
  BY AlwaysInv, <1>1, PTL

(* A vault reported as created has its descriptor on disk from then on.    *)
THEOREM CreatedStaysStored == Spec => []CreatedIsStored
<1>1. Inv => CreatedIsStored
  BY DEF Inv, FileInv, CreatedIsStored
<1> QED
  BY AlwaysInv, <1>1, PTL

(* Only a process that dies leaves an unreadable descriptor behind.        *)
THEOREM OnlyCrashesTear == Spec => []TornOnlyByCrash
<1>1. Inv => TornOnlyByCrash
  BY DEF Inv
<1> QED
  BY AlwaysInv, <1>1, PTL

-----------------------------------------------------------------------------
(* The descriptor file implements the write-once vault.                    *)

(* What a step may do to the file, the readers' view of it and the mounts. *)
Flushed == {p \in Procs : pc[p] = "flushed"}

LEMMA FileMoves ==
    ASSUME Inv, Inv', [Next]_vars
    PROVE  \/ UNCHANGED <<file, opened, revoked, Flushed>>
           \/ /\ file \notin Descriptors /\ UNCHANGED <<opened, revoked>>
              /\ file' \notin Descriptors \/ Flushed' # {}
           \/ /\ file \in Descriptors /\ Flushed # {} /\ Flushed' = {}
              /\ UNCHANGED <<file, opened, revoked>>
           \/ /\ file \in Descriptors /\ Flushed # {} /\ file' = Absent
              /\ revoked' = revoked \cup {CredentialOf(file)} /\ UNCHANGED opened
           \/ /\ UNCHANGED <<file, revoked, Flushed>>
              /\ \E c \in Secrets : Valid(c) /\ opened' = opened \cup {c}
<1> USE FileAssumption, VaultAssumption
        DEF histVars, Inv, VaultTypeOK, FileInv, Goes, Flushed, Creating, Opening
<1>1. ASSUME NEW p \in Procs, Open(p)
      PROVE  /\ UNCHANGED <<file, revoked, Flushed>>
             /\ \E c \in Secrets : Valid(c) /\ opened' = opened \cup {c}
  BY <1>1, OpenIsValid DEF Open
<1>2. ASSUME NEW p \in Procs, CreateFile(p)
      PROVE  /\ file \notin Descriptors /\ UNCHANGED <<opened, revoked>>
             /\ file' \notin Descriptors
  BY <1>2 DEF CreateFile
<1>3. ASSUME NEW p \in Procs, WriteFile(p)
      PROVE  /\ file \notin Descriptors /\ UNCHANGED <<opened, revoked>>
             /\ Flushed' # {}
  <2>1. p \in Flushed'
    BY <1>3 DEF WriteFile
  <2> QED
    BY <1>3, <2>1 DEF WriteFile
<1>4. ASSUME NEW p \in Procs, pc[p] = "flushed", pc' = [pc EXCEPT ![p] = pc'[p]],
             pc'[p] # "flushed"
      PROVE  file \in Descriptors /\ Flushed # {} /\ Flushed' = {}
  BY <1>4
<1>5. ASSUME NEW p \in Procs, LeaveTry(p) \/ WriteFails(p) \/ Crash(p), pc[p] = "flushed"
      PROVE  /\ file \in Descriptors /\ Flushed # {} /\ Flushed' = {}
             /\ UNCHANGED opened
             /\ \/ UNCHANGED <<file, revoked>>
                \/ file' = Absent /\ revoked' = revoked \cup {CredentialOf(file)}
  <2>1. pc' = [pc EXCEPT ![p] = pc'[p]] /\ pc'[p] # "flushed"
    BY <1>5 DEF LeaveTry, WriteFails, Crash
  <2>2. file \in Descriptors /\ Flushed # {} /\ Flushed' = {}
    BY <1>4, <1>5, <2>1
  <2>3. CASE LeaveTry(p) \/ Crash(p)
    BY <2>2, <2>3 DEF LeaveTry, Crash
  <2>4. CASE WriteFails(p)
    <3>1. file # Torn
      BY <2>2
    <3> QED
      BY <2>2, <2>4, <3>1 DEF WriteFails
  <2> QED
    BY <1>5, <2>3, <2>4
<1>6. ASSUME NEW p \in Procs, WriteFails(p) \/ Crash(p), pc[p] = "write"
      PROVE  /\ file \notin Descriptors /\ UNCHANGED <<opened, revoked>>
             /\ file' \notin Descriptors
  BY <1>6 DEF WriteFails, Crash
<1>7. ASSUME NEW p \in Procs,
             \/ StartCreate(p) \/ FileExists(p) \/ CheckAbsent(p) \/ BuildDescriptor(p)
             \/ StartOpen(p) \/ Load(p) \/ LoadFails(p) \/ MatchDongle(p) \/ Refuse(p)
             \/ Abandon(p)
      PROVE  UNCHANGED <<file, opened, revoked, Flushed>>
  <2>1. /\ UNCHANGED <<file, opened, revoked>>
        /\ pc' = [pc EXCEPT ![p] = pc'[p]] /\ pc[p] # "flushed" /\ pc'[p] # "flushed"
    BY <1>7 DEF StartCreate, FileExists, CheckAbsent, BuildDescriptor, StartOpen, Load,
       LoadFails, MatchDongle, Refuse, Abandon
  <2> QED
    BY <2>1
<1>8. CASE UNCHANGED vars
  BY <1>8 DEF vars, procVars
<1>9. ASSUME NEW p \in Procs, LeaveTry(p) \/ WriteFails(p) \/ Crash(p)
      PROVE  pc[p] = "flushed" \/ (pc[p] = "write" /\ ~LeaveTry(p))
  BY <1>9 DEF LeaveTry, WriteFails, Crash
<1>10. CASE \E p \in Procs : Create(p) \/ Unlock(p) \/ Abandon(p) \/ Crash(p)
  <2> HIDE DEF histVars, Inv, VaultTypeOK, FileInv, Goes, Flushed, Creating, Opening
  <2> QED
    BY <1>10, <1>1, <1>2, <1>3, <1>5, <1>6, <1>7, <1>9 DEF Create, Unlock
<1> QED
  BY <1>8, <1>10 DEF Next

(* For any number of processes, dongles and passwords, wherever processes  *)
(* die: a binding may be taken back only by its failing creator; once it   *)
(* has settled it stays, and every mount uses it or one taken back.        *)
THEOREM VaultIsWriteOnce == Spec => ImplementsWriteOnce
<1> DEFINE Bound == IF file \in Descriptors THEN CredentialOf(file) ELSE None
           Step  == \/ Once!Bind \/ Once!Settle \/ Once!TakeBack \/ Once!MountIt
<1>1. Init => Once!OnceInit
  BY CredentialType, FileAssumption DEF Init, Once!OnceInit, Settled
<1>2. Inv /\ Inv' /\ [Next]_vars => [Step]_(Once!onceVars)
  <2> SUFFICES ASSUME Inv, Inv', [Next]_vars PROVE [Step]_(Once!onceVars)
    OBVIOUS
  <2>0. /\ Settled = (file \in Descriptors /\ Flushed = {})
        /\ Settled' = (file' \in Descriptors /\ Flushed' = {})
    BY DEF Settled, Flushed
  <2>1. CASE UNCHANGED <<file, opened, revoked, Flushed>>
    BY <2>0, <2>1 DEF Once!onceVars
  <2>2. CASE /\ file \notin Descriptors /\ UNCHANGED <<opened, revoked>>
             /\ file' \notin Descriptors
    BY <2>0, <2>2 DEF Once!onceVars
  <2>3. CASE /\ file \notin Descriptors /\ UNCHANGED <<opened, revoked>>
             /\ file' \in Descriptors /\ Flushed' # {}
    <3>1. CredentialOf(file') \in Secrets
      BY <2>3, CredentialType
    <3> QED
      BY <2>0, <2>3, <3>1 DEF Once!Bind, CredentialOf
  <2>4. CASE /\ file \in Descriptors /\ Flushed # {} /\ Flushed' = {}
             /\ UNCHANGED <<file, opened, revoked>>
    <3>1. CredentialOf(file) # None
      BY <2>4, CredentialType, FileAssumption
    <3> QED
      BY <2>0, <2>4, <3>1 DEF Once!Settle
  <2>5. CASE /\ file \in Descriptors /\ Flushed # {} /\ file' = Absent
             /\ revoked' = revoked \cup {CredentialOf(file)} /\ UNCHANGED opened
    <3>1. CredentialOf(file) # None /\ Absent \notin Descriptors
      BY <2>5, CredentialType, FileAssumption
    <3> QED
      BY <2>0, <2>5, <3>1 DEF Once!TakeBack
  <2>6. CASE /\ UNCHANGED <<file, revoked, Flushed>>
             /\ \E c \in Secrets : Valid(c) /\ opened' = opened \cup {c}
    <3>1. PICK c \in Secrets : Valid(c) /\ opened' = opened \cup {c}
      BY <2>6
    <3>2. c \in revoked \cup ({Bound} \ {None})
      BY <3>1, FileAssumption DEF Valid
    <3>3. UNCHANGED <<Bound, Settled, revoked>>
      BY <2>0, <2>6
    <3> QED
      BY <3>1, <3>2, <3>3 DEF Once!MountIt
  <2> QED
    BY <2>1, <2>2, <2>3, <2>4, <2>5, <2>6, FileMoves
<1> QED
  BY AlwaysInv, <1>1, <1>2, PTL DEF Spec, ImplementsWriteOnce, Once!OnceSpec
=============================================================================

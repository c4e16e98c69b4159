-------------------------- MODULE DocumentVault_proofs --------------------------
(***************************************************************************)
(* Theorems about document encryption, for any number of processes, names, *)
(* dongles and documents.                                                  *)
(***************************************************************************)
EXTENDS DocumentVault, TLAPS

(* A ciphertext of x is on disk.                                           *)
Held(x) == \E f \in Paths, d \in Dongles : fs[f] = Sealed(d, x)

(* What a process has read is fit for its operation, and the ciphertext it *)
(* decrypts is still there.                                                *)
DataFits ==
    \A p \in Procs : pc[p] = "derive" =>
      IF job[p].op = "encrypt" THEN job[p].data \in Plain
      ELSE job[p].data \in Ciphers /\ \E f \in Paths : fs[f] = job[p].data

(* What a process is to write is a ciphertext, or is held by one.          *)
ResultHeld ==
    \A p \in Procs : pc[p] \in {"create", "write"} =>
      IF job[p].op = "encrypt" THEN job[p].data \in Ciphers
      ELSE job[p].data \in Plain /\ Held(job[p].data)

(* A file is torn while it is written, and one process writes it.          *)
WritesTorn == \A p \in Procs : pc[p] = "write" => fs[job[p].output] = Torn
OneWriter ==
    \A p, q \in Procs :
      pc[p] = "write" /\ pc[q] = "write" /\ job[p].output = job[q].output => p = q

(* Whatever document is at the output of a decryption has a ciphertext.    *)
OutputHeld ==
    \A p \in Procs :
      pc[p] = "done" /\ job[p].op = "decrypt" /\ fs[job[p].output] \in Docs =>
        Held(fs[job[p].output])

DocInv == /\ DocTypeOK /\ DataFits /\ ResultHeld /\ WritesTorn /\ OneWriter
          /\ OutputHeld /\ Recoverable

-----------------------------------------------------------------------------
LEMMA CipherFields ==
    ASSUME NEW c \in Ciphers
    PROVE  /\ c.dongle \in Dongles /\ c.holds \in Plain
           /\ c = Sealed(c.dongle, c.holds)
           /\ c # Absent /\ c \notin Plain
  BY FileAssumption DEF Ciphers, Sealed

LEMMA SealedIsCipher ==
    ASSUME NEW d \in Dongles, NEW x \in Plain
    PROVE  Sealed(d, x) \in Ciphers
  BY DEF Ciphers

LEMMA Contents == /\ Docs \subseteq Plain /\ Torn \in Plain /\ Plain \subseteq Files
                  /\ Ciphers \subseteq Files /\ Absent \in Files
                  /\ Absent \notin Plain /\ Torn \notin Docs
  BY ContentAssumption DEF Plain, Files

LEMMA CallFields ==
    ASSUME NEW j \in Calls
    PROVE  /\ j.op \in {"encrypt", "decrypt"} /\ j.dongle \in Dongles
           /\ j.source \in Paths /\ j.output \in Paths /\ j.data \in Files
  BY DEF Calls

LEMMA InitInv == Init => DocInv
<1> SUFFICES ASSUME Init PROVE DocInv
  OBVIOUS
<1>1. DocTypeOK
  BY Contents DEF Init, DocTypeOK
<1>2. DataFits /\ ResultHeld /\ WritesTorn /\ OneWriter /\ OutputHeld
  BY DEF Init, DataFits, ResultHeld, WritesTorn, OneWriter, OutputHeld
<1>3. Recoverable
  BY DEF Init, Recoverable
<1> QED
  BY <1>1, <1>2, <1>3 DEF DocInv

(* A step that leaves the files alone only has to say what it does to one  *)
(* process's call.                                                         *)
LEMMA QuietStep ==
    ASSUME DocInv, UNCHANGED <<fs, tested>>,
           NEW p \in Procs, NEW l, NEW j \in Calls \cup {NoJob},
           l \in {"idle", "check", "read", "derive", "create"},
           j = NoJob => l = "idle",
           pc' = [pc EXCEPT ![p] = l], job' = [job EXCEPT ![p] = j],
           l = "derive" =>
             IF j.op = "encrypt" THEN j.data \in Plain
             ELSE j.data \in Ciphers /\ \E f \in Paths : fs[f] = j.data,
           l = "create" =>
             IF j.op = "encrypt" THEN j.data \in Ciphers
             ELSE j.data \in Plain /\ Held(j.data)
    PROVE  DocInv'
<1>1. DocTypeOK'
  BY DEF DocInv, DocTypeOK
<1>2. DataFits' /\ ResultHeld'
  BY DEF DocInv, DocTypeOK, DataFits, ResultHeld, Held
<1>3. WritesTorn' /\ OneWriter'
  BY DEF DocInv, DocTypeOK, WritesTorn, OneWriter
<1>4. OutputHeld' /\ Recoverable'
  BY DEF DocInv, DocTypeOK, OutputHeld, Recoverable, Held
<1> QED
  BY <1>1, <1>2, <1>3, <1>4 DEF DocInv

(* Only files that are no ciphertexts are written or deleted, so what is   *)
(* held stays held.                                                        *)
LEMMA CiphersStay ==
    ASSUME DocTypeOK, NEW f \in Paths, NEW v, fs[f] \notin Ciphers,
           fs' = [fs EXCEPT ![f] = v]
    PROVE  /\ \A c \in Ciphers : (\E g \in Paths : fs[g] = c) => \E g \in Paths : fs'[g] = c
           /\ \A x \in Plain : Held(x) => Held(x)'
<1>1. \A g \in Paths : fs[g] \in Ciphers => fs'[g] = fs[g]
  BY DEF DocTypeOK
<1>2. ASSUME NEW x \in Plain, Held(x) PROVE Held(x)'
  <2>1. PICK g \in Paths, d \in Dongles : fs[g] = Sealed(d, x)
    BY <1>2 DEF Held
  <2>2. fs'[g] = Sealed(d, x)
    BY <1>1, <2>1, SealedIsCipher
  <2> QED
    BY <2>2 DEF Held
<1> QED
  BY <1>1, <1>2

LEMMA NextInv == DocInv /\ [Next]_vars => DocInv'
<1> SUFFICES ASSUME DocInv, [Next]_vars PROVE DocInv'
  OBVIOUS
<1>0. \A p \in Procs : pc[p] # "idle" => job[p] \in Calls
  BY DEF DocInv, DocTypeOK
<1>1. ASSUME NEW p \in Procs, Start(p) PROVE DocInv'
  <2> DEFINE call(op, f, g, d) ==
               [op |-> op, source |-> f, output |-> g, dongle |-> d, data |-> Absent]
  <2>1. PICK op \in {"encrypt", "decrypt"}, f, g \in Paths, d \in Dongles :
          /\ op = "encrypt" => fs[f] \in Plain
          /\ job' = [job EXCEPT ![p] = call(op, f, g, d)]
    BY <1>1, Zenon DEF Start
  <2>2. call(op, f, g, d) \in Calls /\ call(op, f, g, d) # NoJob
    <3>1. call(op, f, g, d) \in Calls
      BY Contents DEF Calls
    <3> QED
      BY <3>1, JobAssumption
  <2> HIDE DEF call
  <2> QED
    BY <1>1, <2>1, <2>2, QuietStep DEF Start
<1>2. ASSUME NEW p \in Procs, OutputExists(p) \/ ReadFails(p) \/ DeriveFails(p)
      PROVE  DocInv'
  <2>1. /\ pc' = [pc EXCEPT ![p] = "idle"] /\ job' = [job EXCEPT ![p] = NoJob]
        /\ UNCHANGED <<fs, tested>>
    BY <1>2 DEF OutputExists, ReadFails, DeriveFails, Fails, Goes
  <2> QED
    BY <2>1, QuietStep
<1>3. ASSUME NEW p \in Procs, WriteFails(p) PROVE DocInv'
  <2>1. /\ pc' = [pc EXCEPT ![p] = "idle"] /\ job' = [job EXCEPT ![p] = NoJob]
        /\ UNCHANGED <<fs, tested>>
    BY <1>3 DEF WriteFails, Fails, Goes
  <2> QED
    BY <2>1, QuietStep
<1>4. ASSUME NEW p \in Procs, CheckOutput(p) PROVE DocInv'
  <2>1. /\ pc[p] = "check" /\ pc' = [pc EXCEPT ![p] = "read"]
        /\ UNCHANGED <<fs, job, tested>>
    BY <1>4 DEF CheckOutput, Goes
  <2>2. job[p] \in Calls /\ job[p] # NoJob /\ job' = [job EXCEPT ![p] = job[p]]
    BY <1>0, <2>1, JobAssumption DEF DocInv, DocTypeOK
  <2> QED
    BY <2>1, <2>2, QuietStep
<1>5. ASSUME NEW p \in Procs, ReadSource(p) PROVE DocInv'
  <2> DEFINE j == [job[p] EXCEPT !.data = fs[job[p].source]]
  <2>1. job[p] \in Calls
    BY <1>0, <1>5 DEF ReadSource, Goes
  <2>2. fs[job[p].source] \in Files
    BY <2>1, CallFields DEF DocInv, DocTypeOK
  <2>3. /\ j \in Calls /\ j.op = job[p].op /\ j.data = fs[job[p].source]
        /\ job[p].source \in Paths
    BY <2>1, <2>2 DEF Calls
  <2>4. j # NoJob
    BY <2>3, JobAssumption
  <2>5. IF j.op = "encrypt" THEN j.data \in Plain
        ELSE j.data \in Ciphers /\ \E f \in Paths : fs[f] = j.data
    BY <1>5, <2>3 DEF ReadSource, Readable
  <2>6. /\ pc' = [pc EXCEPT ![p] = "derive"] /\ job' = [job EXCEPT ![p] = j]
        /\ UNCHANGED <<fs, tested>>
    BY <1>5 DEF ReadSource, Goes
  <2> HIDE DEF j
  <2> QED
    BY <2>3, <2>4, <2>5, <2>6, QuietStep
<1>6. ASSUME NEW p \in Procs, Encrypt(p) PROVE DocInv'
  <2> DEFINE j == [job[p] EXCEPT !.data = Sealed(job[p].dongle, job[p].data)]
  <2>1. job[p] \in Calls /\ job[p].data \in Plain
    BY <1>0, <1>6 DEF Encrypt, Goes, DocInv, DataFits
  <2>2. Sealed(job[p].dongle, job[p].data) \in Ciphers \cap Files
    BY <2>1, SealedIsCipher, CallFields, Contents
  <2>3. j \in Calls /\ j.op = "encrypt" /\ j.data \in Ciphers
    BY <1>6, <2>1, <2>2 DEF Calls, Encrypt
  <2>4. j # NoJob
    BY <2>3, JobAssumption
  <2>5. /\ pc' = [pc EXCEPT ![p] = "create"] /\ job' = [job EXCEPT ![p] = j]
        /\ UNCHANGED <<fs, tested>>
    BY <1>6 DEF Encrypt, Goes
  <2> HIDE DEF j
  <2> QED
    BY <2>3, <2>4, <2>5, QuietStep
<1>7. ASSUME NEW p \in Procs, Decrypt(p) PROVE DocInv'
  <2> DEFINE j == [job[p] EXCEPT !.data = job[p].data.holds]
  <2>1. /\ job[p] \in Calls /\ job[p].data \in Ciphers
        /\ \E f \in Paths : fs[f] = job[p].data
    BY <1>0, <1>7 DEF Decrypt, Goes, DocInv, DataFits
  <2>2. job[p].data.holds \in Plain \cap Files /\ Held(job[p].data.holds)
    BY <2>1, CipherFields, Contents DEF Held
  <2>3. j \in Calls /\ j.op = "decrypt" /\ j.data = job[p].data.holds
    BY <1>7, <2>1, <2>2 DEF Calls, Decrypt
  <2>4. j # NoJob
    BY <2>3, JobAssumption
  <2>5. /\ pc' = [pc EXCEPT ![p] = "create"] /\ job' = [job EXCEPT ![p] = j]
        /\ UNCHANGED <<fs, tested>>
    BY <1>7 DEF Decrypt, Goes
  <2> HIDE DEF j
  <2> QED
    BY <2>2, <2>3, <2>4, <2>5, QuietStep
<1>8. ASSUME NEW p \in Procs, CreateOutput(p) PROVE DocInv'
  <2> DEFINE o == job[p].output
  <2>1. job[p] \in Calls /\ o \in Paths
    BY <1>0, <1>8, CallFields DEF CreateOutput, Goes
  <2>2. /\ pc[p] = "create" /\ pc' = [pc EXCEPT ![p] = "write"]
        /\ fs[o] = Absent /\ fs' = [fs EXCEPT ![o] = Torn]
        /\ UNCHANGED <<job, tested>>
    BY <1>8 DEF CreateOutput, Goes
  <2>3. fs[o] \notin Ciphers
    BY <2>2, FileAssumption
  <2>4. DocTypeOK /\ DataFits /\ ResultHeld /\ WritesTorn /\ OneWriter /\ OutputHeld /\ Recoverable
    BY DEF DocInv
  <2> HIDE DEF o
  <2>5. /\ \A c \in Ciphers : (\E g \in Paths : fs[g] = c) => \E g \in Paths : fs'[g] = c
        /\ \A x \in Plain : Held(x) => Held(x)'
    BY <2>1, <2>2, <2>3, <2>4, CiphersStay
  <2>6. DocTypeOK'
    BY <2>2, <2>4, Contents DEF DocTypeOK
  <2>7. DataFits' /\ ResultHeld'
    BY <2>2, <2>4, <2>5 DEF DocTypeOK, DataFits, ResultHeld, Held
  <2>8. WritesTorn' /\ OneWriter'
    BY <2>1, <2>2, <2>4, ContentAssumption DEF DocTypeOK, WritesTorn, OneWriter, o
  <2>9. OutputHeld'
    <3> SUFFICES ASSUME NEW q \in Procs, pc'[q] = "done", job[q].op = "decrypt",
                        fs'[job[q].output] \in Docs
                 PROVE  Held(fs[job[q].output])' 
      BY <2>2 DEF OutputHeld
    <3>1. pc[q] = "done" /\ job[q].output \in Paths
      BY <1>0, <2>2, <2>4, CallFields DEF DocTypeOK
    <3>2. fs'[job[q].output] = fs[job[q].output]
      BY <2>1, <2>2, <2>4, <3>1, Contents DEF DocTypeOK
    <3>3. Held(fs[job[q].output]) /\ fs[job[q].output] \in Plain
      BY <2>4, <3>1, <3>2, Contents DEF OutputHeld
    <3> QED
      BY <2>2, <2>5, <3>2, <3>3 DEF Held
  <2>10. Recoverable'
    BY <2>2, <2>4, <2>5, Contents DEF Recoverable, Held, DocTypeOK
  <2> QED
    BY <2>6, <2>7, <2>8, <2>9, <2>10 DEF DocInv
<1>9. ASSUME NEW p \in Procs, WriteOutput(p) PROVE DocInv'
  <2> DEFINE o == job[p].output
             v == job[p].data
  <2>1. job[p] \in Calls /\ o \in Paths /\ v \in Files
    BY <1>0, <1>9, CallFields DEF WriteOutput, Goes
  <2>2. /\ pc[p] = "write" /\ pc' = [pc EXCEPT ![p] = "done"]
        /\ fs' = [fs EXCEPT ![o] = v]
        /\ UNCHANGED <<job, tested>>
    BY <1>9 DEF WriteOutput, Goes
  <2>4. DocTypeOK /\ DataFits /\ ResultHeld /\ WritesTorn /\ OneWriter /\ OutputHeld /\ Recoverable
    BY DEF DocInv
  <2>3. fs[o] = Torn /\ fs[o] \notin Ciphers
    BY <2>2, <2>4, Contents, FileAssumption DEF WritesTorn
  <2>5. v \in Docs => v \in Plain /\ Held(v)
    BY <2>2, <2>4, CipherFields, Contents DEF ResultHeld
  <2> HIDE DEF o, v
  <2>7. /\ \A c \in Ciphers : (\E g \in Paths : fs[g] = c) => \E g \in Paths : fs'[g] = c
        /\ \A x \in Plain : Held(x) => Held(x)'
    BY <2>1, <2>2, <2>3, <2>4, CiphersStay
  <2>8. DocTypeOK'
    BY <2>1, <2>2, <2>4 DEF DocTypeOK
  <2>9. DataFits' /\ ResultHeld'
    BY <2>2, <2>4, <2>7 DEF DocTypeOK, DataFits, ResultHeld, Held
  <2>10. WritesTorn' /\ OneWriter'
    BY <2>1, <2>2, <2>4 DEF DocTypeOK, WritesTorn, OneWriter, o
  <2>11. OutputHeld'
    <3> SUFFICES ASSUME NEW q \in Procs, pc'[q] = "done", job[q].op = "decrypt",
                        fs'[job[q].output] \in Docs
                 PROVE  Held(fs[job[q].output])'
      BY <2>2 DEF OutputHeld
    <3>1. fs'[job[q].output] \in Plain /\ Held(fs'[job[q].output])
      <4>1. CASE job[q].output = o
        BY <2>1, <2>2, <2>4, <2>5, <4>1 DEF DocTypeOK, Held
      <4>2. CASE job[q].output # o
        <5>1. job[q].output \in Paths /\ pc[q] = "done"
          BY <1>0, <2>2, <2>4, <4>2, CallFields DEF DocTypeOK, o
        <5>2. fs'[job[q].output] = fs[job[q].output]
          BY <2>2, <2>4, <4>2, <5>1 DEF DocTypeOK
        <5> QED
          BY <2>4, <5>1, <5>2, Contents DEF OutputHeld
      <4> QED
        BY <4>1, <4>2
    <3> QED
      BY <2>2, <2>7, <3>1 DEF Held
  <2>12. Recoverable'
    BY <2>2, <2>4, <2>7, Contents DEF Recoverable, Held, DocTypeOK
  <2> QED
    BY <2>8, <2>9, <2>10, <2>11, <2>12 DEF DocInv
<1>10. ASSUME NEW p \in Procs, Compare(p) PROVE DocInv'
  <2>1. /\ pc[p] = "done" /\ job[p].op = "decrypt" /\ fs[job[p].output] \in Docs
        /\ tested' = tested \cup {fs[job[p].output]}
        /\ UNCHANGED <<fs, pc, job>>
    BY <1>10 DEF Compare
  <2>2. Recoverable'
    BY <2>1 DEF DocInv, Recoverable, OutputHeld, Held
  <2> QED
    BY <2>1, <2>2 DEF DocInv, DocTypeOK, DataFits, ResultHeld, WritesTorn, OneWriter,
                      OutputHeld, Held
<1>11. ASSUME NEW f \in Paths, Delete(f) PROVE DocInv'
  <2>1. /\ fs[f] \in Docs /\ fs' = [fs EXCEPT ![f] = Absent]
        /\ UNCHANGED <<pc, job, tested>>
    BY <1>11 DEF Delete, DocInv, DocTypeOK
  <2>2. fs[f] \notin Ciphers
    BY <2>1, Contents, FileAssumption
  <2>3. DocTypeOK /\ DataFits /\ ResultHeld /\ WritesTorn /\ OneWriter /\ OutputHeld /\ Recoverable
    BY DEF DocInv
  <2>4. /\ \A c \in Ciphers : (\E g \in Paths : fs[g] = c) => \E g \in Paths : fs'[g] = c
        /\ \A x \in Plain : Held(x) => Held(x)'
    BY <2>1, <2>2, <2>3, CiphersStay
  <2>5. DocTypeOK'
    BY <2>1, <2>3, Contents DEF DocTypeOK
  <2>6. DataFits' /\ ResultHeld'
    BY <2>1, <2>3, <2>4 DEF DocTypeOK, DataFits, ResultHeld, Held
  <2>7. WritesTorn' /\ OneWriter'
    BY <2>1, <2>3, Contents DEF DocTypeOK, WritesTorn, OneWriter
  <2>8. OutputHeld'
    <3> SUFFICES ASSUME NEW q \in Procs, pc[q] = "done", job[q].op = "decrypt",
                        fs'[job[q].output] \in Docs
                 PROVE  Held(fs[job[q].output])'
      BY <2>1 DEF OutputHeld
    <3>1. job[q].output \in Paths
      BY <1>0, CallFields
    <3>2. fs'[job[q].output] = fs[job[q].output]
      BY <2>1, <2>3, <3>1, Contents DEF DocTypeOK
    <3>3. Held(fs[job[q].output]) /\ fs[job[q].output] \in Plain
      BY <2>3, <3>2, Contents DEF OutputHeld
    <3> QED
      BY <2>1, <2>4, <3>2, <3>3 DEF Held
  <2>9. Recoverable'
    BY <2>1, <2>3, <2>4, Contents DEF Recoverable, Held, DocTypeOK
  <2> QED
    BY <2>5, <2>6, <2>7, <2>8, <2>9 DEF DocInv
<1>12. CASE UNCHANGED vars
  BY <1>12 DEF vars, DocInv, DocTypeOK, DataFits, ResultHeld, WritesTorn, OneWriter,
               OutputHeld, Recoverable, Held
<1> QED
  BY <1>1, <1>2, <1>3, <1>4, <1>5, <1>6, <1>7, <1>8, <1>9, <1>10, <1>11, <1>12
     DEF Next, File

(* The variables of the document model keep their types.                   *)
THEOREM DocTypeCorrect == Spec => []DocTypeOK
<1>1. DocInv => DocTypeOK
  BY DEF DocInv
<1> QED
  BY <1>1, InitInv, NextInv, PTL DEF Spec

(* A document deleted after a tested decryption has a ciphertext left,     *)
(* whatever any number of encrypt_file and decrypt_file calls do meanwhile *)
(* and however they end.                                                   *)
THEOREM DocumentsRecoverable == Spec => []Recoverable
<1>1. DocInv => Recoverable
  BY DEF DocInv
<1> QED
  BY <1>1, InitInv, NextInv, PTL DEF Spec

-----------------------------------------------------------------------------
(* Reports of success.                                                     *)

(* The step leaves every ciphertext on disk as it is.                      *)
Kept == \A f \in Paths : fs[f] \in Ciphers => fs'[f] = fs[f]

LEMMA CiphersKept ==
    ASSUME DocInv, [Next]_vars
    PROVE  Kept
<1>0. \A p \in Procs : pc[p] # "idle" => job[p] \in Calls
  BY DEF DocInv, DocTypeOK
<1>1. CASE UNCHANGED fs
  BY <1>1 DEF Kept
<1>2. ASSUME NEW p \in Procs, CreateOutput(p) \/ WriteOutput(p)
      PROVE  Kept
  <2>1. job[p].output \in Paths
    BY <1>0, <1>2, CallFields DEF CreateOutput, WriteOutput, Goes
  <2>2. fs[job[p].output] \notin Ciphers
    BY <1>2, Contents, FileAssumption DEF CreateOutput, WriteOutput, Goes, DocInv, WritesTorn
  <2>3. \A f \in Paths : f # job[p].output => fs'[f] = fs[f]
    BY <1>2 DEF CreateOutput, WriteOutput, DocInv, DocTypeOK
  <2> QED
    BY <2>1, <2>2, <2>3 DEF Kept
<1>3. ASSUME NEW f \in Paths, Delete(f)
      PROVE  Kept
  <2>1. fs[f] \notin Ciphers
    BY <1>3, Contents, FileAssumption DEF Delete, DocInv, DocTypeOK
  <2>2. \A g \in Paths : g # f => fs'[g] = fs[g]
    BY <1>3 DEF Delete, DocInv, DocTypeOK
  <2> QED
    BY <2>1, <2>2 DEF Kept
<1>4. (\A p \in Procs : ~CreateOutput(p) /\ ~WriteOutput(p)) /\ (\A f \in Paths : ~Delete(f))
        => UNCHANGED fs
  BY DEF Next, File, Start, OutputExists, CheckOutput, ReadSource, ReadFails, Encrypt,
         Decrypt, DeriveFails, WriteFails, Compare, vars
<1> QED
  BY <1>1, <1>2, <1>3, <1>4

(* What a process has in hand comes from its source, which still holds it  *)
(* if it is a ciphertext.                                                  *)
Sourced(p) ==
    /\ pc[p] = "derive" /\ job[p].op = "decrypt" =>
         /\ job[p].data \in Ciphers
         /\ fs[job[p].source] = job[p].data
    /\ pc[p] \in {"create", "write"} =>
         IF job[p].op = "encrypt"
           THEN \E x \in Plain : job[p].data = Sealed(job[p].dongle, x)
           ELSE /\ job[p].data \in Plain
                /\ fs[job[p].source] = Sealed(job[p].dongle, job[p].data)

SourceInv == \A p \in Procs : Sourced(p)

LEMMA SourceStep ==
    ASSUME DocInv, SourceInv, [Next]_vars
    PROVE  SourceInv'
<1>0. \A p \in Procs : pc[p] # "idle" => job[p] \in Calls
  BY DEF DocInv, DocTypeOK
<1>1. ASSUME NEW p \in Procs, pc'[p] = pc[p], job'[p] = job[p]
      PROVE  Sourced(p)'
  <2>1. Kept /\ Sourced(p)
    BY CiphersKept DEF SourceInv
  <2>2. pc[p] \in {"derive", "create", "write"} =>
          /\ job[p].source \in Paths /\ job[p].dongle \in Dongles
          /\ job[p].op \in {"encrypt", "decrypt"}
    BY <1>0, CallFields
  <2> QED
    BY <1>1, <2>1, <2>2, SealedIsCipher DEF Sourced, Kept
<1>2. ASSUME NEW p \in Procs, pc'[p] \in {"idle", "check", "read", "done"}
      PROVE  Sourced(p)'
  BY <1>2 DEF Sourced
<1>3. ASSUME NEW p \in Procs, ReadSource(p)
      PROVE  Sourced(p)'
  <2>1. /\ job[p] \in Calls /\ pc'[p] = "derive" /\ fs' = fs
        /\ job'[p] = [job[p] EXCEPT !.data = fs[job[p].source]]
    BY <1>0, <1>3 DEF ReadSource, Goes, DocInv, DocTypeOK
  <2>2. /\ job'[p].op = job[p].op /\ job'[p].source = job[p].source
        /\ job'[p].data = fs[job[p].source]
    BY <2>1 DEF Calls
  <2> QED
    BY <1>3, <2>1, <2>2 DEF ReadSource, Readable, Sourced
<1>4. ASSUME NEW p \in Procs, Encrypt(p)
      PROVE  Sourced(p)'
  <2>1. /\ job[p] \in Calls /\ pc'[p] = "create" /\ job[p].op = "encrypt"
        /\ job[p].data \in Plain
        /\ job'[p] = [job[p] EXCEPT !.data = Sealed(job[p].dongle, job[p].data)]
    BY <1>0, <1>4 DEF Encrypt, Goes, DocInv, DocTypeOK, DataFits
  <2>2. /\ job'[p].op = "encrypt" /\ job'[p].dongle = job[p].dongle
        /\ job'[p].data = Sealed(job[p].dongle, job[p].data)
    BY <2>1 DEF Calls
  <2> QED
    BY <2>1, <2>2 DEF Sourced
<1>5. ASSUME NEW p \in Procs, Decrypt(p)
      PROVE  Sourced(p)'
  <2>1. /\ job[p] \in Calls /\ pc[p] = "derive" /\ pc'[p] = "create" /\ fs' = fs
        /\ job[p].op = "decrypt" /\ job[p].data.dongle = job[p].dongle
        /\ job'[p] = [job[p] EXCEPT !.data = job[p].data.holds]
    BY <1>0, <1>5 DEF Decrypt, Goes, DocInv, DocTypeOK
  <2>2. job[p].data \in Ciphers /\ fs[job[p].source] = job[p].data
    BY <2>1 DEF SourceInv, Sourced
  <2>3. /\ job'[p].op = "decrypt" /\ job'[p].dongle = job[p].dongle
        /\ job'[p].source = job[p].source /\ job'[p].data = job[p].data.holds
    BY <2>1 DEF Calls
  <2>4. job'[p].data \in Plain /\ job[p].data = Sealed(job[p].dongle, job'[p].data)
    BY <2>1, <2>2, <2>3, CipherFields
  <2> QED
    BY <2>1, <2>2, <2>3, <2>4 DEF Sourced
<1>6. ASSUME NEW p \in Procs, CreateOutput(p)
      PROVE  Sourced(p)'
  <2>1. Kept /\ Sourced(p)
    BY CiphersKept DEF SourceInv
  <2>2. /\ pc[p] = "create" /\ pc'[p] = "write" /\ job' = job
        /\ job[p].source \in Paths /\ job[p].dongle \in Dongles
    BY <1>0, <1>6, CallFields DEF CreateOutput, Goes, DocInv, DocTypeOK
  <2> QED
    BY <2>1, <2>2, SealedIsCipher DEF Sourced, Kept
<1>7. ASSUME NEW p \in Procs
      PROVE  \/ pc'[p] = pc[p] /\ job'[p] = job[p]
             \/ pc'[p] \in {"idle", "check", "read", "done"}
             \/ ReadSource(p) \/ Encrypt(p) \/ Decrypt(p) \/ CreateOutput(p)
  <2>1. ASSUME NEW q \in Procs, File(q), q # p
        PROVE  pc'[p] = pc[p] /\ job'[p] = job[p]
    BY <2>1 DEF File, Start, OutputExists, CheckOutput, ReadSource, ReadFails, Encrypt,
         Decrypt, DeriveFails, CreateOutput, WriteOutput, WriteFails, Fails, Goes,
         DocInv, DocTypeOK
  <2>2. CASE File(p)
    BY <2>2 DEF File, Start, OutputExists, CheckOutput, ReadFails, DeriveFails,
         WriteOutput, WriteFails, Fails, Goes, DocInv, DocTypeOK
  <2> QED
    BY <2>1, <2>2 DEF Next, Compare, Delete, vars
<1> QED
  BY <1>1, <1>2, <1>3, <1>4, <1>5, <1>6, <1>7 DEF SourceInv

(* A process that reports success has written what its source seals, or a  *)
(* seal of a plain file, whatever others do to the files while it waits.   *)
THEOREM ReportsAreTrue == Spec => ReportIsTrue
<1>1. Init => DocInv /\ SourceInv
  BY InitInv DEF Init, SourceInv, Sourced
<1>2. DocInv /\ SourceInv /\ [Next]_vars => (DocInv /\ SourceInv)'
  BY NextInv, SourceStep
<1>3. DocInv /\ SourceInv /\ [Next]_vars =>
        [\A p \in Procs : pc[p] = "write" /\ pc'[p] = "done" =>
           LET in == fs'[job[p].source]  out == fs'[job[p].output]
               sealed(x) == Sealed(job[p].dongle, x) IN
             \E x \in Plain : IF job[p].op = "encrypt"
                               THEN out = sealed(x)
                               ELSE out = x /\ in = sealed(x)]_vars
  <2> SUFFICES ASSUME DocInv, SourceInv, [Next]_vars,
                      NEW p \in Procs, pc[p] = "write", pc'[p] = "done"
               PROVE  \E x \in Plain :
                        IF job[p].op = "encrypt"
                          THEN fs'[job[p].output] = Sealed(job[p].dongle, x)
                          ELSE /\ fs'[job[p].output] = x
                               /\ fs'[job[p].source] = Sealed(job[p].dongle, x)
    BY DEF vars
  <2>1. WriteOutput(p)
    <3>1. ASSUME NEW q \in Procs, File(q), q # p PROVE pc'[p] = pc[p]
      BY <3>1 DEF File, Start, OutputExists, CheckOutput, ReadSource, ReadFails, Encrypt,
           Decrypt, DeriveFails, CreateOutput, WriteOutput, WriteFails, Fails, Goes,
           DocInv, DocTypeOK
    <3>2. File(p) => WriteOutput(p)
      BY DEF File, Start, OutputExists, CheckOutput, ReadSource, ReadFails, Encrypt,
           Decrypt, DeriveFails, CreateOutput, WriteFails, Fails, Goes, DocInv, DocTypeOK
    <3> QED
      BY <3>1, <3>2 DEF Next, Compare, Delete, vars
  <2>2. /\ job[p].output \in Paths /\ job[p].source \in Paths /\ job[p].dongle \in Dongles
        /\ job[p].op \in {"encrypt", "decrypt"}
    BY CallFields DEF DocInv, DocTypeOK
  <2>3. fs'[job[p].output] = job[p].data
    BY <2>1, <2>2 DEF WriteOutput, DocInv, DocTypeOK
  <2>4. Kept /\ Sourced(p)
    BY CiphersKept DEF SourceInv
  <2> QED
    BY <2>2, <2>3, <2>4, SealedIsCipher DEF Sourced, Kept
<1> QED
  BY <1>1, <1>2, <1>3, PTL DEF Spec, ReportIsTrue

-----------------------------------------------------------------------------
(* The refinement of module Archive.                                       *)

(* What the archive shows of the files.                                    *)
Shown == [f \in Paths |-> IF fs[f] \in Ciphers THEN fs[f] ELSE Absent]

(* A step that writes no ciphertext, and over none, leaves what is shown   *)
(* as it is.                                                               *)
LEMMA ShowsNothing ==
    ASSUME \A f \in Paths : fs'[f] = fs[f] \/ (fs[f] \notin Ciphers /\ fs'[f] \notin Ciphers)
    PROVE  Shown' = Shown
<1>1. \A f \in Paths : (IF fs'[f] \in Ciphers THEN fs'[f] ELSE Absent)
                         = (IF fs[f] \in Ciphers THEN fs[f] ELSE Absent)
  OBVIOUS
<1> QED
  BY <1>1 DEF Shown

(* Writing a ciphertext where there was none seals it under that name.     *)
LEMMA ShowsSeal ==
    ASSUME NEW o \in Paths, fs[o] \notin Ciphers, fs'[o] \in Ciphers, UNCHANGED tested,
           \A f \in Paths : f # o => fs'[f] = fs[f]
    PROVE  Shelf!Seal
<1>1. Shown[o] = Absent /\ Shown' = [Shown EXCEPT ![o] = fs'[o]]
  BY DEF Shown
<1> QED
  BY <1>1 DEF Shelf!Seal, Shown

LEMMA ArchiveStep ==
    ASSUME DocInv, [Next]_vars
    PROVE  [Shelf!ArchiveNext]_(Shelf!archiveVars)
<1>0. \A p \in Procs : pc[p] # "idle" => job[p] \in Calls
  BY DEF DocInv, DocTypeOK
<1>1. CASE UNCHANGED <<fs, tested>>
  BY <1>1 DEF Shelf!archiveVars
<1>2. ASSUME NEW p \in Procs, WriteOutput(p)
      PROVE  [Shelf!ArchiveNext]_(Shelf!archiveVars)
  <2> DEFINE o == job[p].output
  <2>1. /\ o \in Paths /\ fs[o] \notin Ciphers /\ UNCHANGED tested
        /\ \A f \in Paths : f # o => fs'[f] = fs[f]
    BY <1>0, <1>2, CallFields, Contents, FileAssumption
       DEF WriteOutput, Goes, DocInv, DocTypeOK, WritesTorn
  <2> HIDE DEF o
  <2>2. CASE fs'[o] \in Ciphers
    BY <2>1, <2>2, ShowsSeal DEF Shelf!ArchiveNext
  <2>3. CASE fs'[o] \notin Ciphers
    <3>1. Shown' = Shown
      BY <2>1, <2>3, ShowsNothing
    <3> QED
      BY <2>1, <3>1 DEF Shown, Shelf!archiveVars
  <2> QED
    BY <2>2, <2>3
<1>3. ASSUME NEW p \in Procs, CreateOutput(p)
      PROVE  [Shelf!ArchiveNext]_(Shelf!archiveVars)
  <2>1. /\ UNCHANGED tested
        /\ \A f \in Paths : fs'[f] = fs[f] \/ (fs[f] \notin Ciphers /\ fs'[f] \notin Ciphers)
    BY <1>0, <1>3, CallFields, Contents, FileAssumption DEF CreateOutput, Goes, DocInv, DocTypeOK
  <2>2. Shown' = Shown
    BY <2>1, ShowsNothing
  <2> QED
    BY <2>1, <2>2 DEF Shown, Shelf!archiveVars
<1>4. ASSUME NEW f \in Paths, Delete(f)
      PROVE  [Shelf!ArchiveNext]_(Shelf!archiveVars)
  <2>1. /\ UNCHANGED tested
        /\ \A g \in Paths : fs'[g] = fs[g] \/ (fs[g] \notin Ciphers /\ fs'[g] \notin Ciphers)
    BY <1>4, Contents, FileAssumption DEF Delete, DocInv, DocTypeOK
  <2>2. Shown' = Shown
    BY <2>1, ShowsNothing
  <2> QED
    BY <2>1, <2>2 DEF Shown, Shelf!archiveVars
<1>5. ASSUME NEW p \in Procs, Compare(p)
      PROVE  [Shelf!ArchiveNext]_(Shelf!archiveVars)
  <2> DEFINE x == fs[job[p].output]
  <2>1. x \in Docs /\ Held(x) /\ tested' = tested \cup {x} /\ UNCHANGED fs
    BY <1>5 DEF Compare, DocInv, OutputHeld
  <2> HIDE DEF x
  <2>2. PICK f \in Paths, d \in Dongles : fs[f] = Sealed(d, x)
    BY <2>1 DEF Held
  <2>3. fs[f] \in Ciphers /\ fs[f].holds = x
    BY <2>1, <2>2, SealedIsCipher, Contents DEF Sealed
  <2>4. Shown[f] \in Ciphers /\ Shown[f].holds = x
    BY <2>3 DEF Shown
  <2>5. Shelf!Confirm
    BY <2>1, <2>4 DEF Shelf!Confirm, Shown
  <2> QED
    BY <2>5 DEF Shelf!ArchiveNext
<1>6. \/ UNCHANGED <<fs, tested>>
      \/ \E p \in Procs : WriteOutput(p) \/ CreateOutput(p) \/ Compare(p)
      \/ \E f \in Paths : Delete(f)
  BY DEF Next, File, Start, OutputExists, CheckOutput, ReadSource, ReadFails, Encrypt,
         Decrypt, DeriveFails, WriteFails, vars
<1> QED
  BY <1>1, <1>2, <1>3, <1>4, <1>5, <1>6

(* The encrypted files are an archive: whatever any number of processes do *)
(* and however they end, a complete ciphertext stays under its name, and   *)
(* only what one of them holds is taken for recoverable.                   *)
THEOREM FilesImplementArchive == Spec => ImplementsArchive
<1>1. Init => Shelf!ArchiveInit
  <2> SUFFICES ASSUME Init PROVE Shelf!ArchiveInit
    OBVIOUS
  <2>1. \A f \in Paths : fs[f] \notin Ciphers
    BY FileAssumption DEF Init, Plain
  <2> QED
    BY <2>1 DEF Init, Shelf!ArchiveInit
<1>2. DocInv /\ [Next]_vars => [Shelf!ArchiveNext]_(Shelf!archiveVars)
  BY ArchiveStep
<1> QED
  BY <1>1, <1>2, InitInv, NextInv, PTL DEF Spec, ImplementsArchive, Shelf!ArchiveSpec
=============================================================================

---------------------------- MODULE DocumentVault ----------------------------
(***************************************************************************)
(* Document encryption (vault.py, the encrypt and decrypt commands of      *)
(* cli.py): processes that read a source file, ask the dongle (decrypting  *)
(* waits for the owner to press BOOT) and then create the output file.  A  *)
(* ciphertext is what it seals and the dongle that opens it, in either of  *)
(* the two file formats.  No ciphertext is encrypted again: a bound.       *)
(***************************************************************************)
CONSTANTS
    Procs,     \* host processes
    Paths,     \* names in the file system
    Dongles,   \* private keys of the dongles
    Docs,      \* the contents of whole documents
    Absent,    \* there is no such file
    Torn,      \* a file written in part
    NoJob      \* no call

ASSUME ContentAssumption == Absent \notin Docs /\ Torn \notin Docs /\ Absent # Torn

VARIABLES
    fs,       \* what each path holds
    pc,       \* where each process is
    job,      \* the arguments of its call, and what it has read or computed
    tested    \* history: documents some decryption gave back to their owner

vars == <<fs, pc, job, tested>>

Sealed(d, x) == [dongle |-> d, holds |-> x]
Plain   == Docs \cup {Torn}
Ciphers == {Sealed(d, x) : d \in Dongles, x \in Plain}
Files   == {Absent} \cup Plain \cup Ciphers

ASSUME FileAssumption == Absent \notin Ciphers /\ (Plain \cap Ciphers) = {}

Calls == [op : {"encrypt", "decrypt"}, source : Paths, output : Paths,
          dongle : Dongles, data : Files]

ASSUME JobAssumption == NoJob \notin Calls

DocTypeOK ==
    /\ fs \in [Paths -> Files]
    /\ pc \in [Procs -> {"idle", "check", "read", "derive", "create", "write", "done"}]
    /\ job \in [Procs -> Calls \cup {NoJob}]
    /\ \A p \in Procs : job[p] = NoJob => pc[p] = "idle"
    /\ tested \subseteq Docs

(* Some paths hold documents; nothing is encrypted yet.                    *)
Init ==
    /\ fs \in [Paths -> {Absent} \cup Docs]
    /\ job = [p \in Procs |-> NoJob]
    /\ pc = [p \in Procs |-> "idle"]
    /\ tested = {}

Goes(p, from, to) == pc[p] = from /\ pc' = [pc EXCEPT ![p] = to]
Fails(p, from)    == Goes(p, from, "idle") /\ job' = [job EXCEPT ![p] = NoJob]

-----------------------------------------------------------------------------
Start(p) ==
    /\ pc[p] \in {"idle", "done"} /\ pc' = [pc EXCEPT ![p] = "check"]
    /\ \E op \in {"encrypt", "decrypt"}, f, g \in Paths, d \in Dongles :
         /\ op = "encrypt" => fs[f] \in Plain
         /\ job' = [job EXCEPT ![p] = [op |-> op, source |-> f, output |-> g,
                                       dongle |-> d, data |-> Absent]]
    /\ UNCHANGED <<fs, tested>>

(* output.exists(), long before the file is created.                       *)
OutputExists(p) ==
    /\ Fails(p, "check") \/ Fails(p, "create")
    /\ fs[job[p].output] # Absent
    /\ UNCHANGED <<fs, tested>>

CheckOutput(p) ==
    /\ Goes(p, "check", "read")
    /\ fs[job[p].output] = Absent
    /\ UNCHANGED <<fs, job, tested>>

(* Readable, had a missing document been taken for an empty one.           *)
ReadableMissing(p) ==
    fs[job[p].source] \in IF job[p].op = "encrypt" THEN Plain \cup {Absent} ELSE Ciphers

(* What decrypt_file cannot parse as either format it refuses at once; a   *)
(* torn ciphertext is refused here too, or only when its tag is checked.   *)
Readable(p) ==
    fs[job[p].source] \in IF job[p].op = "encrypt" THEN Plain ELSE Ciphers

ReadSource(p) ==
    /\ Goes(p, "read", "derive") /\ Readable(p)
    /\ job' = [job EXCEPT ![p].data = fs[job[p].source]]
    /\ UNCHANGED <<fs, tested>>

ReadFails(p) ==
    /\ Fails(p, "read") /\ ~Readable(p)
    /\ UNCHANGED <<fs, tested>>

Encrypt(p) ==
    /\ Goes(p, "derive", "create") /\ job[p].op = "encrypt"
    /\ job' = [job EXCEPT ![p].data = Sealed(job[p].dongle, job[p].data)]
    /\ UNCHANGED <<fs, tested>>

(* Decrypt, had InvalidTag been ignored.                                   *)
DecryptUnchecked(p) ==
    /\ Goes(p, "derive", "create") /\ job[p].op = "decrypt"
    /\ job' = [job EXCEPT ![p].data =
                 IF job[p].data.dongle = job[p].dongle THEN job[p].data.holds ELSE Torn]
    /\ UNCHANGED <<fs, tested>>

(* AES-GCM accepts the ciphertext only under the key that sealed it.       *)
Decrypt(p) ==
    /\ Goes(p, "derive", "create") /\ job[p].op = "decrypt"
    /\ job[p].data.dongle = job[p].dongle
    /\ job' = [job EXCEPT ![p].data = job[p].data.holds]
    /\ UNCHANGED <<fs, tested>>

(* Wrong dongle, an error of the dongle, no press of BOOT, or Ctrl-C.      *)
DeriveFails(p) ==
    /\ Fails(p, "derive")
    /\ UNCHANGED <<fs, tested>>

(* CreateOutput, had the file been opened with "wb".                       *)
CreateOver(p) ==
    /\ Goes(p, "create", "write")
    /\ fs' = [fs EXCEPT ![job[p].output] = Torn]
    /\ UNCHANGED <<job, tested>>

(* _write_new: open("xb"), then write.                                     *)
CreateOutput(p) ==
    /\ Goes(p, "create", "write")
    /\ fs[job[p].output] = Absent
    /\ fs' = [fs EXCEPT ![job[p].output] = Torn]
    /\ UNCHANGED <<job, tested>>

WriteOutput(p) ==
    /\ Goes(p, "write", "done")
    /\ fs' = [fs EXCEPT ![job[p].output] = job[p].data]
    /\ UNCHANGED <<job, tested>>

(* The disk is full, or the process dies: nothing removes the file.        *)
WriteFails(p) ==
    /\ Fails(p, "write")
    /\ UNCHANGED <<fs, tested>>

-----------------------------------------------------------------------------
(* The owner compares a decrypted file with the document, and deletes      *)
(* documents only after that ("Do not delete the original until you have   *)
(* successfully tested decryption").                                       *)

Compare(p) ==
    /\ pc[p] = "done" /\ job[p].op = "decrypt" /\ fs[job[p].output] \in Docs
    /\ tested' = tested \cup {fs[job[p].output]}
    /\ UNCHANGED <<fs, pc, job>>

Delete(f) ==
    /\ fs[f] \in tested
    /\ fs' = [fs EXCEPT ![f] = Absent]
    /\ UNCHANGED <<pc, job, tested>>

-----------------------------------------------------------------------------
File(p) == \/ Start(p) \/ OutputExists(p) \/ CheckOutput(p)
           \/ ReadSource(p) \/ ReadFails(p)
           \/ Encrypt(p) \/ Decrypt(p) \/ DeriveFails(p)
           \/ CreateOutput(p) \/ WriteOutput(p) \/ WriteFails(p)

Next == \/ \E p \in Procs : File(p) \/ Compare(p)
        \/ \E f \in Paths : Delete(f)

Spec == Init /\ [][Next]_vars

-----------------------------------------------------------------------------
(* Whoever follows the README and deletes a document after a decryption    *)
(* gave it back has a ciphertext left that opens to it, whatever else is   *)
(* encrypted or decrypted meanwhile and however that ends (the "xb" of     *)
(* _write_new; ciphertexts are never written over).                        *)
Recoverable == \A x \in tested : \E f \in Paths, d \in Dongles : fs[f] = Sealed(d, x)

(* When a process reports success, its output is what its source seals for *)
(* its dongle, or seals for its dongle a plain file; the source has not    *)
(* changed under it while it waited for BOOT.                              *)
ReportIsTrue ==
    [][\A p \in Procs : pc[p] = "write" /\ pc'[p] = "done" =>
         LET in == fs'[job[p].source]  out == fs'[job[p].output]
             sealed(x) == Sealed(job[p].dongle, x) IN
           \E x \in Plain : IF job[p].op = "encrypt"
                             THEN out = sealed(x)
                             ELSE out = x /\ in = sealed(x)]_vars

Shelf == INSTANCE Archive WITH
    Names <- Paths, Empty <- Absent,
    shelf <- [f \in Paths |-> IF fs[f] \in Ciphers THEN fs[f] ELSE Absent]

(* Any number of encrypt_file and decrypt_file calls, however they end,    *)
(* are an archive: a complete ciphertext is never written over (the "xb"   *)
(* of _write_new, long after output.exists()), and a document found at the *)
(* output of a decryption, whichever call has put it there since, is held  *)
(* by one of them.                                                         *)
ImplementsArchive == Shelf!ArchiveSpec
=============================================================================

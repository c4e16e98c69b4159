# A TLA+ model of POO Digital Key

This directory holds a formal model of the programs in `src/`: the dongle's
firmware, the host's serial client, the encrypted mount, the connection watcher, the
vault descriptor, document encryption, the guided setup with its server, and the
installer partition. TLC checks the models on small instances; TLAPS proves the
theorems for every value of the constants. Cryptography is abstracted to what it is
made of (a derived secret is the record of its inputs), and text to the kinds of
lines it can be.

## 1. The system

| Part | Source | State | Operations | Talks to |
|---|---|---|---|---|
| Firmware | `firmware/src/main.cpp` | private key, NVS entry, `keyReady`, the wait for BOOT | boot and key creation, `HELLO`, `PUBLIC`, `DERIVE`, `waitForConfirmation` | the serial line, the BOOT button, NVS |
| Serial client | `host/digital_key/device.py` | the open port, the current `_read_line` | open and greet, `public_key`, `derive_key`, close | the serial line |
| Encrypted and plaintext mount | `host/digital_key/remote.py` | the rclone process, the cache directory, the mount point | start, poll the port list, stop | rclone, the USB bus |
| Connection watcher | `host/digital_key/automount.py` | `handled_port`, the dialog that is up | look for a dongle, dialogs, unlock, mount | dialogs, serial client, encrypted mount, launchd |
| Vault descriptor | `host/digital_key/vault_config.py` | the descriptor file | create, load, derive credentials | serial client, file system |
| Document encryption | `host/digital_key/vault.py` | source and output files | encrypt, decrypt | serial client, file system |
| Guided setup | `host/digital_key/setup_wizard.py`, `automount.py` | launchd service, `automount.json`, property list, `vault.json` | the five steps, restoring the earlier watcher | SSH server, launchd, the owner |
| Server provisioning | `host/digital_key/setup_wizard.py` (`REMOTE_SETUP_SCRIPT`) | the SSH key pair, and on the server the authorized key, sshd's configuration, the temporary script | make a key, upload and run the script, verify | sshd |
| Command line | `host/digital_key/cli.py` | none | which part runs when | all of the above |
| Installer partition | `firmware/src/usb_msc.cpp`, `ffat_seed.cpp` | the FAT partition, `mediaPresent` | sector reads, writing missing files | the computer; `main.cpp` calls neither |
| Installers, SFTP test server | `install/`, `dev/sftp/` | none | pip, docker | |

What is hard about it, and what makes each part correct:

- **The serial line outlives its sessions.** A process may be killed while the
  firmware waits up to 15 s for BOOT; its reply, or half of its command, is still
  there when the next process opens the port. The constructor sleeps 1.5 s, flushes,
  says `HELLO` and skips what is not `READY`. Correct: an answer reaches only the
  call it belongs to (`KeyMatchesRequest`, `NoDesync`), and what one session reads
  comes from one key (`OneKeyPerSession`). The whole of it, with the owner's
  consent, is the promise of `derive_key` (`ImplementsKeyCall`).
- **Two timeouts and a finger.** 15 s in the firmware, 20 s in the host, and an
  unbounded wait for the release of the button. Correct: the firmware's answer comes
  first unless BOOT is held (`TimeoutOnlyIfHeld`), calls and prompts end
  (`CallsEnd`, `PromptEnds`), and only a press that began after the prompt counts
  (`FreshPress`). The 20 s start anew with every byte of a line, so they bound no
  call; what does is the limit of 30 lines and how often a line pauses
  (`CallIsBounded`). Against a line that never ends the code has no bound.
- **Power can go at any moment, and a read of the stored key may fail.** Correct:
  the dongle has one identity (`IdentityStable`), and keeps the key it has stored
  and shown (`PermanentKey`, which does not hold: section 3).
- **Polling.** The mount and the watcher look at a list of port names once a second
  and not at all while a dialog is up. Correct: a lasting removal stops rclone
  (`AbsenceStopsServer`) within nine steps (`AbsenceCountsDown`), whichever way a
  mount returns nothing of it is left (`ReturnMeansStopped`, `CacheOutlivesServer`),
  but for three ways out that no handler covers, two of which make `UnmountedIsTrue`
  fail (section 3); a dongle is prompted for once (`InsertionPrompted`,
  `NoticedPrompted`, `CancelSticks`) and passed over only for a reason
  (`PassedOverIsKnown`).
- **A watcher that dies.** Nothing catches an `OSError` of `lsof` or of the port
  list; launchd starts the watcher again, which knows nothing of the mount it had.
  Correct: without a dongle the vault does not stay readable (`RemovalUnmounts`), and
  only a death lets an rclone be started beside one that still runs
  (`RclonesCounted`).
- **Files and several processes.** "Does it exist" is asked long before the file is
  created, and a write that fails takes the file back, even one that is already
  whole. Correct: one vault, one set of credentials but for those taken back
  (`OneCredential`, `ImplementsWriteOnce`), what was reported is on disk (`CreatedIsStored`,
  `ReportIsTrue`), nothing that was tested is lost (`Recoverable`,
  `ImplementsArchive`), only a crash leaves a torn descriptor (`TornOnlyByCrash`).
- **A setup that fails halfway.** Correct: the earlier watcher runs again
  (`ServiceRestored`), a watcher has the files it reads (`WatcherHasVault`),
  "complete" speaks of the new one (`CompleteIsNew`).
- **A server that is changed in small steps, over a connection that may break.**
  Correct: sshd survives (`SshdSurvives`), the watcher that is restored can still
  log in unless the script or sshd was stopped at the wrong moment (`LoginKept`), the
  temporary script goes unless a call was cut off (`ScriptRemoved`).
- **A disk in 32-bit arithmetic and files written once.** Correct: the computer
  receives the bytes it asked for (`TransferIsImage`), and a missing or truncated
  file is due to a fault of its own seeding (`GapsAreFaults`).

`PROJECT.json` lists every hazard at its line under `hazards`.

## 2. Modules

```
SerialLink ---- Dongle ------------\
     \                              DigitalKey ---- UnlockCall  implements  KeyCall
      \-------- SerialClient ------/                (firmware + client + clock)
EncryptedMount ---- AutoMount                        (mount + watcher + launchd)
VaultDescriptor  implements  WriteOnce
DocumentVault    implements  Archive
ServerProvision ---- SetupWizard                     (server + wizard + launchd)
InstallerDisk
```

**SerialLink** has the two streams as sequences of lines. A command is `HELLO`,
`PUBLIC`, `DERIVE` with its request, `BAD` (anything the firmware rejects) or `PART`
(the beginning of a line whose end was never written; `Deliver` merges it with what
follows, as `readStringUntil` does). A reply is known by its tag, the key it was
computed from and, for `KEY`, the request. `JUNK` is a line that lost bytes; USB
checks what it delivers, so no damaged line passes for a valid value.

**Dongle** is `main.cpp` with an arbitrary host. `fw` is the program counter: `boot`
and `save` inside `loadOrCreateKey`, `idle` in `loop`, and `prompted`, `confirm`,
`debounce`, `held`, `derive` inside `deriveForPeer` and `waitForConfirmation`, one
state for each place where the button, the clock or the power can change something.
`fresh` and `exposed` are history variables. `NvsReadMayFail` says whether reading
the stored key may fail at a boot.

**SerialClient** is `SerialDigitalKey`. Every caller in `host/` holds a session in a
`with` block and lets errors leave it, so an error is also the end of the session; a
killed process ends it anywhere. `lines` counts the lines skipped by the current
`_read_line` (30 in the code, `MaxLines` here). pyserial's `readline` reads byte by
byte, and each byte starts the serial timeout anew: `Trickle` is the arrival of some
bytes of a line without its end, after which `ReadPartial` takes what has come when
the timeout does run out. `MaxPauses` bounds how often one line does that; the code
has no such bound.

**DigitalKey** composes the two. A tick is about 5 s. `Settled` is the timing
assumption of the constructor: whatever the firmware does without waiting for the
clock or for BOOT (booting, answering, giving up on an unfinished line after
`readStringUntil`'s 1 s) takes less than the 1.5 s sleep. `Tick` lets time pass only
when neither side has something to do at once. `Drip` is `Trickle` in the
composition; like damage and a reset it counts as a disturbance of the session,
since the firmware itself sends a line at once. The instance of the abstract firmware
is the module itself: `ImplementsDongle` says the composition does to the firmware's
variables only what `Dongle` allows with its arbitrary host.

**KeyCall** is what the caller of `derive_key` and the owner are promised, in three
variables and with no firmware, line or clock: a call returns the key of its own
request, and only if BOOT was pressed while it was open. **UnlockCall** adds to
`DigitalKey` two history variables: `consent`, which the mapping needs (BOOT was
pressed since this call began), and `spent`, the ticks the open call has waited over
all the lines it has skipped. The promise is stronger than `KeyMatchesRequest`: a
late reply to an earlier call *for the same request* would satisfy that, but not
`ImplementsKeyCall`.

**EncryptedMount** is `run_encrypted_rclone_mount` with `_stop_mount_process`, and
the plaintext `run_rclone_mount`, which only waits for its child. `mpc` follows the
code (`spawned` between `Popen` and the `try`, `poll`, `list`, `nap`, `stop`,
`terminating`, `cleanup`, and `plain`); rclone
and the kernel are external: rclone may exit whenever it likes, may ignore the
request to terminate, and a killed one leaves a dead mount (`stale`), which the next
one cannot mount over and nothing in the code removes. The call has three ways out
that stop nothing (`Escapes`): Ctrl-C at `spawned`, where no handler is yet, and a
second Ctrl-C while the handler stops rclone end with the result `cut_short`, which
the command line reports as "Unmounted." like any Ctrl-C; an exception of
`comports()` ends with `unhandled`. The properties that hold name them as their
exceptions; `UnmountedIsTrue` takes the command line at its word. `Faults` switches
the last two on.

**AutoMount** is `run_automount_loop` and `unlock_and_mount` around the actions of
`EncryptedMount`. `pc` follows the single thread: scanning, asking `lsof`, one state
per dialog, unlocking, mounting. `Dies` ends the watcher at any step; `Restarts` is
launchd's `KeepAlive`, once `load_automount_config` finds the files it wants
(`intact`). The new watcher has no `handled_port`. An rclone that a dead one had
started goes on in `orphan`, which has a place for each death, so that none is
forgotten: the property list that `install_launch_agent` writes does
not set `AbandonProcessGroup`, so launchd ends the process group of a dead job. That
is an assumption about launchd (`OrphanEnds`). `attended` (dongles a dialog came up
for), `canceled` (dongles whose dialog was canceled), `unnoticed` (removals the loop
has not seen) and `hasty` (dongles that came back before it had) are history
variables. A cancel is only remembered for the port in `handled_port` and by a
watcher that lives; `CancelSticks` says no more. Nobody looks for an orphan: a
restarted watcher prompts, and starts another rclone, while one is still alive.
`RclonesCounted` counts them all.

**VaultDescriptor** is `vault_config.py` with several processes; the file is
`Absent`, `Torn` or a descriptor. The `with` block that closes the file, and so makes
it whole, is inside the `try` whose handler unlinks it: between the two the process
is at `flushed`, where `WriteFails` still takes the file back, though others may have
loaded it (`revoked` remembers its credentials). Descriptors of version 1 exist only
from before. **WriteOnce** is its promise: the creator may take a binding back as
long as it has not settled, from then on it is for good, and nothing is mounted but
the binding or one that was taken back. The mapping makes a whole descriptor the
binding, and settles it when no process is at `flushed`.

**DocumentVault** is `vault.py` with several processes over a small file system. A
ciphertext is what it seals and for which dongle; the owner deletes a document only
after a decryption gave it back, as the README asks. **Archive** is the promise: a
name that was given one ciphertext keeps it, and only what a ciphertext holds is
taken for safe. The mapping shows the complete ciphertexts and hides torn files,
documents and processes.

**ServerProvision** is what `ensure_server_identity`, `provision_server` and
`REMOTE_SETUP_SCRIPT` do: the key pair here, the key the server accepts, the sshd
drop-in on disk, what sshd runs with, and the temporary script. The script stops at
its first failing command. sshd may reject the drop-in together with settings the
model does not know, and may be restarted by the server at any moment
(`SshdRestarts`), when it reads whatever is on disk. The shell truncates a file
before it writes it, so a script that is cut off may leave `authorized_keys/poo`
empty (`KeyEmptied`) and the drop-in empty or in part (`DropInCutOff`), which sshd
may accept without the restriction. Not modelled: a script that runs on at the
server after the connection is lost.

**SetupWizard** is `run_setup_wizard`, `install_launch_agent` and
`activate_launch_agent` with launchd, which restarts the watcher, and composes them
with `ServerProvision`. Each step may fail; on the server, also after part of it was
done (`KeyEmptied`, `DropInCutOff`, `CreateCutOff`, `LeaveScript`; `cutOff` remembers
the two that concern the script). The result of `launchctl bootout` is not looked at,
so with `Refusals` the earlier watcher may still run afterwards (`Unload`), and its
mount may stay behind, dead, when its rclone is killed (`MayUnmount`); `mounted` is
what `os.path.ismount` says. `automount-install` is a run
that begins at `config`, with a descriptor and without the dialogs (`Guided` is
false). Ctrl-C while `launchctl` stops the earlier watcher, and a killed wizard, end
in `unrestored`: the handler that restores the service is not in place, or does not
run.

**InstallerDisk** is `ensure_ffat_seed` over any number of boots, and
`usb_msc_begin` with `msc_read_func`, in the 32-bit arithmetic of the code, under a
computer that reads within the capacity it was told and a USB stack that asks for a
piece of any length at any offset. The write callback stores nothing, so it has no
action. A file whose opening for reading fails, for whatever reason, is taken for
missing and created, which truncates one that is there (`CreateFile`). `spoiled`
remembers the files whose last seeding failed or lost its power. A byte is its
address in the partition. `main.cpp` calls neither function;
the module says what they do when a build calls them.

`MC*` modules add symmetry sets and the one state constraint. Some operators are
preceded by a variant named for a slip in the code ("had ... been left out"); no
specification uses the variants, they exist to show that each property depends on
the line it is about.

## 3. Runs

| Run | Bounds | Result |
|---|---|---|
| `digital_key` | 2 requests, 2 keys, 2 commands in the buffer, firmware deadline 1 tick against 2, 3 lines, 1 pause in a line, stored keys may be misread | holds: `NoDesync`, `OneKeyPerSession`, `TimeoutOnlyIfHeld`, `ImplementsKeyCall` |
| `digital_key_live` | 1 request, 2 keys, buffer 1, deadlines 1 and 2, 2 lines, 1 pause in a line, stored keys can be read | holds: `IdentityStable`, `FreshPress`, `CallIsBounded`, `CallsEnd`, `PromptEnds` |
| `dongle_unreadable` | the firmware against an arbitrary host: 1 request, 2 keys, buffer 2, deadline 2, at most 2 unread replies, reads may fail | `PermanentKey` violated |
| `mount` | 2 ports, both faults | holds: `ReturnMeansStopped`, `CacheOutlivesServer`, `AbsenceCountsDown`, `AbsenceStopsServer` |
| `mount_interrupted` | 1 port | `UnmountedIsTrue` violated |
| `automount` | 2 ports, 1 death | holds: `RclonesCounted`, `PassedOverIsKnown`, `CancelSticks`, `RemovalUnmounts`, `NoticedPrompted` |
| `automount_replug` | 1 port, no death | `InsertionPrompted` violated |
| `vault` | 2 processes, 2 dongles, 2 passwords, 2 peers | holds: `CreatedIsStored`, `TornOnlyByCrash`, `OneCredential`, `ImplementsWriteOnce` |
| `documents` | 2 processes, 3 names, 2 dongles, 2 documents | holds: `ReportIsTrue`, `ImplementsArchive` |
| `setup` | 2 dongles, launchctl may refuse | holds: `ServiceRestored`, `WatcherHasVault`, `CompleteIsNew`, `ScriptRemoved`, `SshdSurvives`, `LoginKept` |
| `setup_replaced` | 2 dongles | `RestoredIsExisting` violated |
| `installer_disk` | 4 files, 10 bytes in sectors of 4, buffers up to 6, words up to 31 | holds: `TransferIsImage`, `GapsAreFaults` |

Each passing run checks the type invariants of its modules besides; for
`digital_key_live` `digital_key` does. Where a run checks a refinement, it does not
repeat what that implies: `KeyMatchesRequest` follows from `ImplementsKeyCall`,
`Recoverable` from `ImplementsArchive`. They and `ImplementsDongle` are theorems of
section 5.

Why the bounds are enough. Two requests and two keys are what a mix-up needs. A
buffer of two commands holds a leftover and the new one; because the firmware is
`Settled` or waiting for BOOT when a session begins, longer leftovers repeat the
same pattern. The deadlines keep their order (15 s < 20 s) and leave the host one
tick more than the firmware; the theorems hold for every pair in that order. A
misread key at a boot needs two keys. Three lines let a greeting skip some and give
up, and one pause is enough to see that a call outlasts its lines times the timeout.
Two processes are what a race for one file needs, and two peers let both build a
descriptor, one after the other was taken back too. After a vault of version 1 there
is one left, as nobody builds a descriptor there until its file is gone, and nothing
in the program removes it. Three names give a document, its ciphertext and
the decrypted copy. `handled_port` holds one port, and two are what it takes to
forget one for the other (moving the second dongle brings back a canceled dialog of
the first, which `CancelSticks` excepts). One death of the watcher reaches every
step with an rclone left behind; a second one meets the same states, because a
restarted watcher knows nothing. The setup has no bound but its two dongles, one of
which may be the wrong one. The partition of 10 bytes ends inside its third sector,
and buffers of up to 6 bytes cross sectors, end in one, and reach beyond the
partition; a capacity near the end of the word is covered by the theorem, which
assumes `Size + SectorSize =< Word`. `MaxReplies` bounds what an arbitrary host
leaves unread in `dongle_unreadable`; in `digital_key` the host's own behaviour
bounds it. The
theorems of section 5 remove these bounds where they apply.

The violated properties are statements of the README, of messages or of comments;
`PROJECT.json` quotes each with its line under `findings`:

1. one failed read of the key at boot, and the firmware writes a new key over the
   permanent one it has stored and shown (`PermanentKey`);
2. Ctrl-C between the start of rclone and the `try` that stops it, or a second one in
   the handler, is answered with "Unmounted." while rclone may run on, without its
   cache directory (`UnmountedIsTrue`; a terminal sends rclone the signal as well,
   but nobody waits for what it does with it);
3. a dongle reconnected while the watcher has a dialog up, or is still stopping
   rclone, is never prompted for (what does hold is `NoticedPrompted`: it is, if the
   watcher has seen the removal);
4. a failed setup starts the new configuration in place of the existing service.

Things the models contain and no run counts as a violation, because nothing in the
repository promises otherwise:
- after a removal, a killed rclone leaves a dead mount that the next one cannot mount
  over, and that the setup, which asks `ismount`, takes for the vault's;
- a restarted watcher starts another rclone beside the one its predecessor left;
- a process that fails after it has closed the new descriptor, and before it has left
  the `try`, unlinks a whole descriptor that another process may have loaded and may
  mount with;
- a drop-in that `sshd -t` has rejected stays on the server, and sshd does not start
  with it the next time it is restarted (`SshdSurvives` is about the setup's own
  steps);
- a script cut off while it rewrites `authorized_keys/poo` leaves that file empty,
  and one cut off while it writes the drop-in may leave one without the restriction,
  which sshd takes at its next start;
- an installer file that cannot be opened for reading is truncated and written anew;
- an installer file that was written in part is taken for present ever after.

## 4. Fairness

- `DigitalKey!Fairness`, in `UnlockCall!FairCallSpec`: the firmware's `loop` and the
  host's read loop run (weak fairness), the constructor goes on after its sleep, and
  time passes. Time needs strong fairness because other steps disable it for a
  moment. Of faults only this is assumed: the board is not reset for ever, and no
  line pauses for ever (`MaxPauses`). The owner
  need not press BOOT and the caller need not call.
- `MountSpec`: the polling loop runs. rclone may hang.
- `AutoFairness`: the watcher's loop and the mount's loop run, the user answers
  every dialog sooner or later, launchd restarts the watcher when its files are
  there, and ends what a dead one has left. Nothing is assumed of the USB bus.

Safety properties use no fairness.

## 5. Theorems

`SerialLink_proofs` has the lemmas about sequences of lines: what appending, taking
the head, merging (`Deliver`) and damaging preserve.

`Dongle_proofs`
- `DongleTypeCorrect`: `DongleTypeOK` is inductive.
- `IdentityIsStable`, assuming `~NvsReadMayFail`. `IdentityStable` alone is not
  inductive: a key that was never stored could be shown. The invariant adds that a
  key that is ready (`fw` other than `boot` and `save`) is the stored one, and that
  while a new key is being saved nothing has been exposed.
- `KeyNeedsFreshPress`: the invariant ties `sawRelease` and `button` to `fresh`:
  once the release was seen after the prompt, a button that is down was pressed
  after it.

`DigitalKey_proofs`
- `CompositionImplementsDongle`: the initial states map, and every step of the
  composition is a step of `DongleNext` or leaves its variables alone. Together with
  `Dongle_proofs` this gives `SessionsNeedFreshPress` with no new invariant.
- `ClientTypeCorrect`.
- `DeriveKeepsPromise`: the composition implements `KeyCall`. A `KEY` line in a call
  is, by `LineInv`, an answer to this call; so the derivation it came from was
  prompted during the call, and `fresh` of `Dongle` gives a press after that prompt.
  The invariant ties the two: while a call is open, a firmware that is past its
  confirmation, or a `KEY` on the line, means `consent`.
- `KeyAlwaysMatches`. The inductive invariant (`LineInv`) says what may be on the
  line at each point of a session: after the greeting, everything in flight
  (commands, the derivation in progress, replies) is for the current call, so a
  `KEY` line in a call is for its request; before it, any `KEY` line will be
  skipped. Leftovers of earlier sessions are covered by the merged or rejected
  `HELLO` and by `Settled`.
- `RepliesNeverDesync`: the same for `PUBLIC` and `PUB` (`ReplyInv`): none is behind
  a derivation in the buffer, so none outlives the sleep of the next constructor,
  and at most the open call's is under way. What is damaged in the buffer of an open
  session was damaged during it.
- `TimeoutsNeedHeldButton`, assuming `ConfirmTimeout < ReadTimeout` (15 s and 20 s
  in the code). By `LateInv` a call that waits has its command ahead of it in the
  buffer, is being confirmed or has its answer on the line; a derivation starts
  before the host's clock does, so `hostWaited <= waited` until BOOT is held.
- `CallsAreBounded`: `spent` is at most the time of `lines` whole lines, of `pauses`
  timeouts and `hostWaited` (`SpentInv`). Every byte sets `hostWaited` back to 0,
  which is why the bound has to count the lines and the pauses in each; `Span` stands
  for a product, which the lemma `Spans` takes apart. For any `MaxPauses`, but there
  is one: a line that never ends is outside.
- `SessionsHaveOneKey`: in a session that no reset and no damaged line disturbed,
  every `PUB` and `KEY` on the line is of the key the firmware holds, and the
  firmware is past its boot (`SessionInv`). The sleep and the flush of the
  constructor establish it; that it is kept needs the types only.
- `SessionsSeeOneIdentity`, assuming `~NvsReadMayFail`: `IdentityStable` of `Dongle`
  carries over along `CompositionImplementsDongle`.

`VaultDescriptor_proofs`
- `VaultTypeCorrect`; `VaultHasOneCredential`, `CreatedStaysStored`,
  `OnlyCrashesTear` from an invariant that says who may be writing the file (at most
  one process, at `write` with the file `Torn` or at `flushed` with it whole),
  and that what a process has loaded, and everything that was mounted, is determined
  by the descriptor on disk or by one that was taken back (`Valid`).
  `VaultIsWriteOnce`, the refinement, needs the same invariant; `FileMoves` sorts the
  steps by what they do to the file and to the one process that may be at `flushed`.

`DocumentVault_proofs`
- `DocTypeCorrect` and `DocumentsRecoverable`. The invariant (`DocInv`): a file
  being written is `Torn` and has one writer, so no step changes a ciphertext
  (`CiphersStay`); what a process has decrypted, and any document at the output of a
  decryption, is therefore still held by a ciphertext when its owner compares it.
- `FilesImplementArchive`, from `DocInv`: a step shows a new ciphertext only where a
  torn file with one writer was (`ShowsSeal`), and every other step of a file shows
  nothing (`ShowsNothing`). What `Confirm` takes for safe is still held by a
  ciphertext, by the argument of `DocumentsRecoverable`.
- `ReportsAreTrue`: what a process has in hand comes from its source (`SourceInv`),
  and a source that is a ciphertext is still the same at the end (`CiphersKept`).

`AutoMount_proofs`
- `MountTypeCorrect`, `ReturnStopped`, `CacheOutlives`: nothing runs before rclone
  is started and after the call is over, unless it was left in one of the three ways
  of `Escapes` (`ServerInv`).
- `AutoTypeCorrect`: the watcher's mount loop keeps the same invariant, outside its
  mount no call is under way, and a death leaves an orphan but no call.
- `RclonesAlwaysCounted`: the orphan of a death has the place of that death
  (`OrphansInv`), so there are at most as many as deaths, and outside its mount the
  watcher has no rclone. Both hold for any number of ports and of deaths.
- `CancelAlwaysSticks`: at most the handled port is remembered as canceled, and only
  between two rounds of the loop (`CanceledInv`).
- `AbsenceAlwaysCountsDown`, and `WatcherCountsDown` for the watcher that may die at
  any step: while the dongle of a mount is absent, every step of the call lowers the
  measure `StepsLeft` (at most 9), and no other step raises it.
- `PassedOverAreKnown`: a handled port that is not on the bus has a removal the loop
  has not seen, and one that is there was reacted to or came back meanwhile
  (`HandledInv`).

`SetupWizard_proofs`
- `SetupTypeCorrect`, `StoppedServiceRestored`, `WatcherAlwaysHasVault`,
  `CompleteMeansNew` from `StepInv`: what each step may count on because of the
  steps before it.
- `ScriptStaysOnlyCutOff`, `SshdAlwaysSurvives`, `LoginLostInThreeWays`:
  `ScriptRemoved` is inductive as it stands, and `LoginKept` needs of `StepInv` only
  that a restricted sshd has a drop-in on disk.

`InstallerDisk_proofs`
- `DiskTypeCorrect`, `GapsOnlyByFaults`: every file before `seed` is there unless its
  own last seeding went wrong, and a truncated file is either being written or one of
  those (`GapsInv`).
- `TransferAlwaysImage`, for every size of partition, sector and buffer. What was
  received so far is a prefix of what was asked for, so the position `Len(got)`
  splits into the sector and the offset the stack asks for next, and neither sum
  wraps around because the capacity ends below `Word`.

The assumptions are the named ones of the modules (`LinkAssumption`,
`DongleAssumption`, `ClientAssumption`, `VaultAssumption`, `FileAssumption`,
`ContentAssumption`, `JobAssumption`, `MountAssumption`, `AutoMountAssumption`,
`SetupAssumption`, `DiskAssumption`): the special values are not ordinary values,
limits are positive, ports are numbers so that there is a first one, and the
partition ends at least one sector below 2^32 (`partitions.csv` gives it 0x160000
bytes).

Only model-checked: the liveness properties `CallsEnd`, `PromptEnds`,
`AbsenceStopsServer`, `RemovalUnmounts` and `NoticedPrompted` (fairness and
`ENABLED` are outside the prover). Their safety halves are theorems: `CallIsBounded`
of `CallsEnd`, `AbsenceCountsDown` of `AbsenceStopsServer` and of `RemovalUnmounts`,
`PassedOverIsKnown` of `NoticedPrompted`. Fairness adds that the steps they count
are taken. Every safety property the runs check is a theorem, but for those of the
runs that expect a violation.

## 6. Not modelled

- The arithmetic of P-256, HKDF, Argon2id, AES-GCM, base64 and JSON.
- The build with `DISABLE_CONFIRMATION`.
- The rclone command line and environment, argument parsing and output: they change
  no state that a property speaks of.
- Modes and owners of the files on the server, and its SFTP chroot.
- Two installers at once (they share the `.new` files), and removing a dead mount,
  which the code leaves to the owner.
- A session used again after one of its calls failed, which no caller does, and the
  collection of the half-opened one when the greeting fails.
- A line that goes on for ever in pieces less than 20 s apart, against which
  `readline` has no limit; and a remote script that runs on after its connection.
- The shell installers and the SFTP test server: straight-line scripts around pip
  and docker.

## 7. Plan

Done: all the parts of section 1 but the last, the promises `KeyCall`, `WriteOnce`
and `Archive` with their refinements, the bounds behind the liveness properties, the
restarts of the watcher, the server and
the installer partition. Left, in this order:

1. The shared `.new` files of two installers.
2. An unlock across `UnlockCall` and `VaultDescriptor`: credentials only from the
   right dongle, the right password and a fresh press. `OneKeyPerSession` already
   justifies that `VaultDescriptor` gives each session one dongle.

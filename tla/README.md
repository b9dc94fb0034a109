# Verification of the voice demo firmware

The repository is the firmware of an NXP i.MX RT106S voice board (LOCAL2 IOT):
a device that listens for a wake word, recognises commands without the network,
plays answers, keeps its settings in NOR flash, takes commands from a shell over
USB and two push buttons, and can be told over Wi-Fi to boot into a firmware
update. This directory holds TLA+ models of its core, TLC configurations that
check them, and proofs for TLAPS.

Paths below are relative to `src/NXP/source/` unless they name a directory.

## 1. Inventory

### 1.1 Parts of the firmware

| Part | State | Operations | Talks to |
|---|---|---|---|
| Flash file system (`sln_flash_mgmt.c`) | one sector per file: a map page and file pages; `s_flashCrcList` in RAM; `s_fileLock` | `Init` (compaction, CRC mirror), `Save`, `Update`, `Read`, `ReadDataPtr`, `Erase`, `Deinit` | flash driver below; callbacks switch the microphones around an erase |
| Flash driver (`sln_flash.c`) | the NOR flash | page program (clears bits only), sector erase, read | runs with interrupts disabled |
| Settings `appAsrShellCommands` | one structure in RAM, no lock; a copy in the file `asr_shell_commands.dat` | written by shell, buttons, `appTask`, `local_voice_task` | everything of the demo |
| Shell (`sln_shell.c`) | the settings; an event group for `sln_shell_task` | `changeto`, `multilingual`, `volume`, `followup`, `timeout`, `mute`, `ptt`, `cmdresults`; credentials, reset, update, version | notifies `appTask`; runs inside the USB interrupt |
| Buttons (`switch.c`, `main.c`) | debounce times; `g_SW1Pressed` | SW1 opens push-to-talk, SW2 goes to the next demo | settings, `appTask` |
| `appTask` (`main.c`) | `taskNotification`, amplifier volume, `g_micsOn` | waits for a notification, plays clips, switches microphones, announces the demo, saves the settings | notified by shell, buttons and `local_voice_task` |
| `local_voice_task` (`sln_local_voice.c`) | session, engines, `sampleCount` | loads settings, installs engines, wake words, commands, dialogs, timeouts, change of languages | notifies `appTask`; saves default settings |
| Microphone capture (`audio/pdm_to_pcm_task.c`, `audio/sln_pdm_mic.c`) | ping and pong buffers, `g_micsOn`, pending events | DMA interrupt, decimation, `pdm_to_pcm_mics_off` / `_on`, repair after an error or a second of silence | notifies the front end; called by `appTask` and by the callbacks of an erase |
| Audio front end (`audio/audio_processing/`) | blocks accumulated, queue of 5 | echo cancellation, blocks to the recogniser | feeds `local_voice_task` |
| Amplifier (`audio/sln_amplifier.c`) | DMA transfers, loopback flags | asynchronous playback, volume; the loopback receives what is played as echo reference | `appTask`, `pdm_to_pcm_task` |
| Wi-Fi credentials (`wifi_credentials.c`) | file `wifi_credentials.dat` | get, set, reset | shell task, network connection |
| Network connection (`network_connection.c`) | interface, link and DHCP state | join and retry, DHCP, disconnect | its only caller is the task of the TCP server |
| TCP update server (`sln_tcp_server.c`) | connection, receive buffer, event bits | one message, an answer in two writes, start of an update | firmware update flags |
| Firmware update flags (`sln_app_fwupdate.c`) | bits in flash, cleared only | request update over the air or over the wire | read by the boot loader, which is not in the repository |
| File encryption (`sln_encrypt.c`) | key slots | AES-CBC with padding | flash file system |
| LEDs, hooks, fault handlers, DHCP server | | output or vendored code | |

Everything else under `src/NXP` is third-party (FreeRTOS, lwIP, mbedTLS, WICED,
SDMMC, USB, cJSON, peripheral drivers), binary (speech models and libraries) or
generated (`Debug/`).

### 1.2 What is hard

* *Interrupt handlers and two tasks on one unprotected structure.* The Debug
  build does not define `OSA_USED`, so the shell runs in the USB interrupt with
  interrupts disabled (`component/serial_manager/serial_manager.c:550-617`;
  `USB_DEVICE_CONFIG_USE_TASK` is 0). `appTask` and `local_voice_task` have the
  same priority and are time-sliced (`main.c:881-883`). A command can fall
  between any two of their accesses.
* *Notifications that are merged.* `eSetBits` is used with a plain enumeration.
* *Flash.* Pages can be programmed once, sectors must be erased, power may fail
  between the steps of `Save` and of the compaction, or in the middle of one.
* *Saving a structure that changes meanwhile*, with a status field that is part
  of what is saved, and with an overflow path that erases the file.
* *Sessions and timeouts counted in sample blocks*, with a timeout that can
  change while it runs and blocks that are dropped while a clip plays.
* *Retries and late answers*: two nested retry loops in the network connection,
  and one event bit of the TCP server for the acknowledgements of every write.
* *A file that another task reads while it is being saved*, with an assert on
  the result (`network_connection.c:397`).
* *Errors nobody looks at*: programs of the flash whose status is ignored, a read
  whose status is only logged, a decryption that always reports success, a heap
  whose exhaustion stops the device before the caller can handle it.
* *Two streams that must stay in step*, microphones and echo reference, started
  and stopped by two tasks of different priority, with an error interrupt that
  cannot tell a stop from a failure except by flags.

### 1.3 What makes each part correct

* Flash: an `OK` from `Save` means the next read returns that value, as long as
  no program fails that nobody looks at; a failed or interrupted Save loses at
  most that file, and a read reports it; the sector
  never wears into a state in which no `Save` succeeds; the lock is given back;
  boot ends.
* Settings: what a command changed reaches the hardware, the engines and the
  flash, and stays there.
* Voice: sessions start fresh and end; the engines that listen are those of the
  selected languages and demo.
* Credentials and network: the network is joined with the credentials that are
  in flash; one interface is registered; the station connects in the end.
* TCP server: an update starts only when the client has its answer; every
  connection ends; no buffer is lost on a failure.
* Update bits: never a method without a request.
* Audio: blocks reach the front end once, in order and with their reference;
  errors are repaired; a repair leaves the device as the user has set it.
* File data: what is read is what was saved.

The hazards, line by line, are in `PROJECT.json`.

## 2. Modules

```
FileStore                 what the file system promises about one file
   ^ refinement
SlnFlashStore  --> SlnFlashMgmt     sectors, pages, map, boot, Save, Erase, Read
   SlnFlashMgmtMC (TLC)     SlnFlashMgmtProofs <- SlnFlashStoreProofs (TLAPS)

AppSettings               settings, notifications, shell and buttons
   ^
SettingsFile              Save / overflow / Erase / Save again, by either task
   ^            ^
AppTask     LocalVoice    the two tasks
   ^            ^
     VoiceDemo            composition, power losses, fairness, properties
   VoiceDemoMC (TLC)        VoiceDemoProofs (TLAPS)

FwUpdate <- ShellTask <- NetworkConnection <- UpdateServer <- Connectivity
   update     credentials   joining,             one client     composition,
   bits       and shell     DHCP                 at a time      ConnectivityMC (TLC)
                                                                ConnectivityProofs (TLAPS)

AmpLoopback <- Microphones <- AudioCapture
   echo          capture, pdm_to_pcm_task,   composition with appTask
   reference     mics_off and mics_on        AudioCaptureProofs (TLAPS)

FileData                  sizes, padding and encryption of the data of a file
   FileDataProofs (TLAPS)
```

### 2.1 SlnFlashMgmt

One file in its own sector; files share only `s_fileLock`. State: `map` (page 0),
`hdr` and `dat` (the 8 header bytes and the rest of each page), `crc` (the RAM
mirror), `lock`, `boot` (progress of `SLN_FLASH_MGMT_Init`), `flashFile` (the
image being programmed, with its head entry and the next page to program), `wpc`
(where the writer is in `Save`), `wres` (its last status) and `rd` (the readers'
locals).

One step is one page program or one sector erase, both of which run with
interrupts off, together with the work in RAM up to the next one.

| Action | Code |
|---|---|
| `GcKeep`, `GcDiscard`, `GcErase`, `GcMark`, `GcPage`, `GcFail` | `garbage_collector` at boot |
| `Mirror` | `init_ram_crc_mirror` |
| `SaveBegin`, `SaveRefused`, `SaveOverflow`, `SaveMark`, `SaveBuild`, `SavePage`, `SaveFail` | `SLN_FLASH_MGMT_Save` and `write_file` |
| `Erase` | `SLN_FLASH_MGMT_Erase`, which does not take the lock |
| `ReadBegin`, `ReadHeader`, `ReadCopy`, `ReadCheck`, `ReadFail` | `Read` and `ReadDataPtr`, under the lock |
| `LostProgram` | a program that fails where its status is ignored (`sln_flash_mgmt.c:536, 543, 723, 753`) |
| `PowerLoss`, `TornMap`, `TornPage` | power lost between steps, or in a program |

A step that programs a page is split into what the code does anyway
(`GcMarkDone`, `GcPageDone`, `SaveBeginDone`, `SaveMarkDone`) and the program;
`LostProgram` takes the former without the latter. `Faults` are the failures the
code looks at: an erase, a page program of `write_file`, the CRC and the
encryption. `pvPortMalloc` has none: when the heap is empty its hook executes
`BKPT` (`os_hooks.c:55-60`) and the device stops, which is a power loss to the
flash; the `ENOMEM` exits are never taken.

Data: a value stands for the content of a file, `Pages` for its length in pages.
`OLD < CURRENT < FREE` follows the bits a program clears (`0x00`, `0xAA`,
`0xFF`); `WORN` and `FRAYED` are bytes in between that a program cut short
leaves. The header's `valid` and `clean` bits are kept. A CRC stands for the
bytes it was computed over (no collisions). A page programmed twice, or cut
short, is `Mixed` and verifies as nothing.

### 2.2 FileStore and SlnFlashStore

`FileStore` is the specification the rest of the firmware relies on: a register
with a content, a Save in flight that first gives up the old content and then
commits, an overflow that changes nothing, and power losses that lose at most
what was in flight. `SlnFlashStore` maps the sector to it: `content` is what a
read would find, `saving` the image in RAM, `retired` says that the map was
programmed, `moving` is the copy that the compaction holds. `StoreSpec` is
`FileStore!Spec` under that mapping.

### 2.3 AppSettings, SettingsFile, AppTask, LocalVoice, VoiceDemo

`AppSettings`: `cfg` is `appAsrShellCommands`, `notif` the notification value of
`appTask`, as a set of binary digits because `eSetBits` merges them, `sw1` is
`g_SW1Pressed`. One action per shell handler and button.

`SettingsFile`: `file` is the content of the settings file as `FileStore`
describes it, `image` the copy a Save programs. A page cut
short, or programmed twice, is `Torn`: it does not verify, but the first read
copies it out and judges it by the status word in it, whatever else it holds
(`ReadInto`, `TornSettings`). The other task's Erase takes no lock; a Save that
programs its page behind one leaves it without an entry (`stray`) and succeeds. The
steps of a Save follow
`FileStore`: `SaveRetire` (Begin and Retire), `SaveCopy` (the structure is copied
only then), `SaveProgram` (Commit), `SaveOverflow` (Full), `SaveFail` (Fail),
`SaveErase` (Erase, whose callbacks switch the microphones off and on). The
copy after the old entry is retired is the one thing this level adds:
`FileStore` takes a value that the caller does not change.

`AppTask` and `LocalVoice` follow the two task functions statement group by
statement group; `pc` names the place. An `asrCfg &= ~bit` is a load and a store.
`VoiceDemo` interleaves the tasks with interrupts and power losses.

| Step of `AppTask` | Code (`main.c`) |
|---|---|
| `AppBoot` | 445-483: volume and mute applied, buttons enabled |
| `AppWake` ... `AppOther` | 486-767: the notification and its cases |
| `AppEngine`, `AppLoad`, `AppStore` | 769-779: announcement, bit cleared |
| `AppStatus`, then `SettingsFile` | 781-806: status set, Save, overflow handling |

| Step of `LocalVoice` | Code (`sln_local_voice.c`) |
|---|---|
| `VoiceRead`, `VoiceDefaults`, then `SettingsFile` | 589-623 |
| `VoiceInstall`, `VoiceClear` | 625-627 |
| `VoiceBypassed`, `VoiceBlock`, `VoicePushToTalk` | 632-662 |
| `VoiceWakeWord`, `VoiceNoWakeWord` | 664-728 |
| `VoiceCommand`, `VoiceNoCommand` | 732-925 (`Replies` is the table of the demos) |
| `VoiceCount` | 928-944 |
| `VoiceReinstall`, `VoiceLoad`, `VoiceStore` | 947-952 |

### 2.4 FwUpdate, ShellTask, NetworkConnection, UpdateServer, Connectivity

`fica` holds the two update bits that are still set; a request clears them in one
page program, and nothing in the repository sets them again (`BootLoader` is an
assumption about the boot loader).

`ShellTask` is `sln_shell_task` (`sln_shell.c:949-1038`), which waits for events
that the handlers raise in the USB interrupt, and the credentials file. `wifiFile`
is its content as `FileStore` describes it: `Broken` from the moment the old
entry is retired, the new credentials when the last page is programmed. The Save
encrypts straight from `s_wifi_cred`, into which a further `setup` may write; so
`EncryptName` and `EncryptPassword` are two steps.

| Step | Code |
|---|---|
| `Setup`, `EraseCommand`, `ResetCommand`, `UpdateOta`, `UpdateOtw` | handlers, `sln_shell.c:256-262, 765-863` |
| `ShellWake`, `ShellSetup`, `ShellErase`, `ShellReset` | 959, 995, 1010, 1032 |
| `SaveRetire` ... `SaveProgram`, `SaveFail` | `wifi_credentials_flash_set`, `_reset` |

`NetworkConnection` is the start of `TCP_OTA_Server` (`sln_tcp_server.c:277-311`)
with `APP_NETWORK_Wifi_Connect`: `tcp` is the place of the task, `credentials`
its copy. Each outcome of `wwd_wifi_join` that the code tells apart is an action.

`UpdateServer` is the rest of that task. A message is a kind and a size in
pieces; `inflight` are the writes that the client has not acknowledged,
`delivered` those it has, `sendplus` the event bit that all of them share. An
allocation that fails (`MallocFails`) ends in `halt`: the hook stops the device.
The answer of the DHCP server is an action of the surroundings (`DhcpNext`).

`Connectivity` interleaves the shell task (lowest priority), the task of the
server, the USB interrupt, the tcpip thread, the access point, `NVIC_SystemReset`
and power losses.

### 2.5 AmpLoopback, Microphones, AudioCapture

Blocks are numbered modulo 4, enough to tell the two halves of every double
buffer and a block from the one a round later. `events` is `s_PdmDmaEventGroup`;
`pdm`, `pcm`, `ampOut` say which block is in which half of the DMA buffers, of the
converted stream and of the echo reference; `heard` is the pair the front end
last worked on. `mics_off` and `mics_on` are run by either task (`pc`), with a
step for each part between which another task or an interrupt can run.

| Step | Code (`audio/`) |
|---|---|
| `MicBlock` | `PDM_MIC_DmaCallback` |
| `RxCallback`, `SAI_UserRxIRQHandler` | `sln_amplifier.c:321-349, 161-205` |
| `PdmWake`, `PdmTimeout`, `PdmProcess` | `pdm_to_pcm_task.c:486-660` |
| `StopMics`, `LoopbackDisable`, `FlagOff` | `pdm_to_pcm_mics_off`, `SLN_AMP_LoopbackDisable` |
| `StartMics`, `EnableLoopback`, `FlagOn` | `pdm_to_pcm_mics_on`, `SLN_AMP_LoopbackEnable` |
| `AppMicUpdate` | `main.c:492-509` |
| `Hear` | `audio_processing_task.c:169-194` |

### 2.6 FileData

The part of `Save` and `Read` that `SlnFlashMgmt` takes as a value: the size fields
of the header with their extension bits, the padded length, the CBC chain of the
whole blocks and of the last one, the stripping of the padding, the query of the
size and the buffer length of the caller. A cipher block stands for the blocks
of plain text of its chain; decrypting it after another block gives `Garbage`. The
hardware may fail in either of its two calls; the routine returns OK all the same
(`Undecrypted`), and `answer.decrypted` tells the properties which Read met it.

## 3. Model checking

Every cfg is one run. "Violated" runs show a place where the code does not do what
a comment or a help text of the repository says; each has an entry under
`findings`.

| Run | Question | Result |
|---|---|---|
| `flash_store` | Save, Erase, boot, a reader, failures of the driver that the code looks at, power losses between steps and in file pages: are free pages blank (`FreeIsBlank`, `ProgramsBlank`), does the sector implement `FileStore` (`StoreSpec`), does boot end (`BootEnds`), is the lock given back (`LockFreed`)? | holds |
| `flash_faults` | Programs fail that nobody looks at, too: `MapShape`, `SectorUsable` | holds |
| `flash_torn_map` | Power fails in the middle of a map program: free pages stay blank, boot leaves room, no old value comes back (`FreeIsBlank`, `BootLeavesRoom`, `NeverResurrected`)? | holds |
| `voice_settings` | Commands from the first moment on, the Saves of both tasks at the start, power losses: `SettledIsSaved`, `TypeOK` | holds |
| `voice_dialogs` | Dialogs, push-to-talk, changes of language; Saves that fail, overflow, or are cut short, and a file that was: `FreshSession`, `UnsavedIsNoticed` | holds |
| `voice_progress` | SW2, volumes, full sectors, under fairness: `SessionEnds`, `ChangeIsInstalled`, `VolumeIsSaved`, `SettledIsSaved`, `SelectedIsInstalled` | holds |
| `voice_merged_notes` | Is a muted device's microphone off (`MuteHolds`)? | violated: `mute` (4) merged with `volume` (5) is 5 |
| `net_station` | `setup`, `erase`, `reset` at any moment, full sectors, failing Saves, power losses, an access point that comes and goes: `OneInterface`, `CredentialsFresh`, `TypeOK` | holds |
| `net_update` | Clients of every kind, late acknowledgements, requests from the shell, joins that fail or are refused, an empty heap: `UpdateIsConfirmed`, `BuffersAccounted`, `MethodNeedsUpdate`, `Connects`, `ConnectionEnds` | holds |
| `capture` | Mutes, loopback errors, an interface that stops: `SwitchedAsSet`, `InSync`, `BlocksInOrder`, `LoopbackRecovers`, `SilenceIsRepaired`, `TypeOK` | holds |
| `capture_mute` | Is a muted device deaf (`MutedIsDeaf`) when an error falls into the mute? | violated: the repair starts the microphones again before `g_micsOn` is cleared |
| `file_data` | Every content up to 7 bytes, plain and encrypted, every length of the caller's buffer, a decryption that may fail: `RoundTrip`, `SizeAnswered` | holds |

### 3.1 Bounds

* `flash_store`: 4 map entries, values of one and of two pages. A sector
  overflows after three Saves, the middle of it lies inside a two-page file,
  and the compaction runs for one and two pages. One reader: readers change
  nothing and exclude each other by the lock. `BlankPages`, what a header that
  was never programmed claims, is 2.
* `flash_faults`: the same sector with `LostPrograms`, without a reader.
* `flash_torn_map`: 5 entries, so that a stray mark can lie
  before, inside and behind the next file; no reader.
* `voice_*`: each run enables the commands its question is about. `MaxSamples`
  bounds the waiting time: timeouts are in sample blocks, 0 and 1 are the cases
  that differ (used up at once, used up later). `MaxBypass` is 0 where clips do
  not matter to the property and 1 in `voice_progress`, where they do.
  `voice_dialogs` starts from a device that was left in one of the demos with
  dialogs, a state the shell and the buttons reach, or with a file whose last
  program was cut short; `TornSettings` is one such content, ones from some word
  on. `voice_settings` runs without `SlowStart` and therefore without `Overflows`
  (see `Undisturbed` in section 4); `voice_progress` has both.
* `net_station`: two names and one password, so that credentials can be right,
  wrong in each part, or half replaced; no messages, the server is only
  reached. `net_update`: one set of credentials; messages of up to three pieces
  with room for two (the third is the refused size); a heap of two buffers, so
  that the third message finds none and stops the device. `attempts` is counted to 3 and
  `authAttempts` to 4, beyond which the code makes no difference.
* `capture`: block numbers modulo 4; everything else is bounded by the code.
* `file_data`: blocks of 3 bytes, 1 and 2 being possible padding and 3 not; a
  size field that overflows at 5; files of up to 7 bytes, so that there are
  whole blocks before the last and sizes below, at and above the field. A Save
  does not depend on an earlier one except through the extension bits of its
  buffer, which are arbitrary; so one Save is enough.
* `Faults`, `LostPrograms`, `TornPages`, `Overflows`, `PowerLosses`, `TornMaps`
  switch the environment's failures on per run.

### 3.2 Fairness

* `FairSpec` of `SlnFlashMgmt`: boot is straight-line code in `main`, a task in
  `Save` or `Read` is not delayed for ever. Nobody is forced to start a Save.
  Power may fail at any time; `BootEnds` and `LockFreed` speak of runs in which
  it fails only finitely often (`PowerStays`).
* `FairSpec` of `VoiceDemo`: weak fairness of each task, which the round-robin
  scheduling at one priority gives them. Interrupts, words and commands are
  never forced. While the microphones are off no block arrives; the run keeps
  them on (no mute, no push-to-talk), and the sample blocks keep coming from a
  DMA that never stops.

* `FairSpec` of `Connectivity`: weak fairness of the shell task, of the steps of
  the network task and of the server, and of a reset that was asked for; strong
  fairness of a join that could succeed, without which a radio that fails for
  ever would be no surprise. Users, clients, acknowledgements, the access point
  and the DHCP server are not forced. `Connects` presupposes, in its formula, an
  access point that stays, a DHCP server that answers a station that asks for
  long enough (`WF_vars(DhcpNext)`; the wait at `network_connection.c:356` has no
  timeout), a user who leaves the device alone and a station that does not wait
  for an address after a link loss (`WaitsForEver`, see section 5).
  `ConnectionEnds` rests on the timeouts of `netconn_recv` and
  `xEventGroupWaitBits`; it excepts a device that has stopped.
* `FairSpec` of `AudioCapture`: weak fairness of both tasks, of the error
  interrupt and of the DMA of each interface that runs. Errors, stalls and
  commands are not forced.

### 3.3 Mutants

Every property of a passing run has a mutant of the code that violates it: the
operators marked "Mutant:" in the modules (a threshold ignored, an erase before
the copy, a lock kept on an early return, a counter not reset, ...). They are
not part of the models; replacing the definition that follows by its mutant
makes TLC report the property.

## 4. Proofs

The theorems hold for every number of map entries, every set of values and
lengths, every set of readers, commands, demos, languages, volumes and timeouts
that satisfies the assumptions stated in the modules.

`SlnFlashMgmtProofs`

* `TypeCorrect`: `Spec => []TypeOK`, which includes that no page is ever
  programmed outside the sector. Inductive invariant: `TypeOK` with `Phases`
  (Save and compaction never overlap; the compaction starts at entry 0).
* `FreePagesErased`: `Spec => []FreeIsBlank` under `~LostPrograms`, with torn map
  programs: after a map program that failed unnoticed it is false. The
  strengthening is `ImageMarked`: the pages of the image that is being
  programmed are already marked as used.
* `MapOrdered`, `SaveFindsEntry`: under `~TornMaps` the map is always old,
  current, free in this order (`MapShape`), and an entry is always usable
  (`SectorUsable`), programs that fail unnoticed included. `SectorLayout`: without
  these (`~LostPrograms`) every file page programmed is blank before
  (`ProgramsBlank`). Inductive: all bytes are whole marks, some entry is live,
  Save looks for room from the first live entry, the compaction starts from an
  erased map, and, for `ProgramsBlank`, the pages still to be programmed are
  blank. The reason `SectorUsable` survives is the room check before the map
  program.

`VoiceDemoProofs`

* `TypeCorrect`: with the bound of `sampleCount`: no saved or commanded timeout
  exceeds it (`TimeoutInv`).
* `ChangesNoticed`: `[]UnsavedIsNoticed`, for every command and fault.
* `SessionsFresh`: `[]FreshSession`. Inductive: between a session's end and the
  count of a block the counter is at most one, although the wake word does not
  reset it.
* `SettingsSaved`: `[]SettledIsSaved` under `Undisturbed`: no Save fails, no page
  is cut short (a torn page may be accepted, section 5), and not both of a start
  in which the tasks' Saves meet and overflows, in which one's Erase falls into
  the other's Save. The compaction at boot leaves room (`BootLeavesRoom`), so the
  first Saves after a start do not overflow. `SavedInv` says for each place of the two
  tasks how file, copy and structure are related; `LockInv` that only one of
  them writes under the lock; `UnsavedIsNoticed` that a difference has a pass
  of `appTask` to come.
* `ButtonsInstall`: if languages change only through the buttons
  (`ButtonsOnly`: a slow start, no `changeto`, `multilingual`, `ptt`), the
  installed wake words are the selected ones. `ChangeInv` follows the change
  bits through the loads and stores of both tasks; that a press is refused
  while a bit is set is what makes it inductive. With the other commands the
  property fails: `changeto` assigns the word (section 5).

`ConnectivityProofs`

* `ConnectivityTypes`, `BuffersAreAccounted`: `TypeInv` is `TypeOK` with
  `RefusalsLeft` (while the task joins, at most three refusals are counted),
  `Received` (never more is received than announced) and `BuffersAccounted`,
  which alone bounds the number of buffers.
* `MethodNeedsTheUpdate`: inductive as it stands.
* `InterfaceAddedOnce`: whatever leads to `wifi_if_add` has added none
  (`InterfaceInv`).
* `UpdatesAreConfirmed`: `AnswerInv` says for each place of the server what is
  under way and what was acknowledged. At most one write is under way; the bit,
  cleared before each write, can then only mean that one.
* `CredentialsAreFresh`: `JoinedWithFile` extends the property to the states in
  which the task is joining; a Save that succeeds leaves the shell task in front
  of its reset.

`AudioCaptureProofs`

* `CaptureTypes`: `TypeOK` needs no assumption and no strengthening.
* `SwitchingIsAsSet`: `[]SwitchedAsSet` under `~Overlap`, with late blocks and
  stalled interfaces. Five parts make it inductive: a repair never runs into a
  mute (`Repairs`); `appTask` is where the setting, or the one before the command
  that is pending, wants it (`Commands`); a loopback that runs has a transfer
  queued and one that is being stopped says so, which is all that the error
  interrupt has to tell the two apart (`Loopback`); `g_micsOn` follows the
  microphones except between the steps of a switch (`Flags`); and `AsSet`.
* `MicsAndLoopbackInSync`, `MicBlocksInOrder`: `InSync` and `BlocksInOrder` under
  `~Overlap` and `~Late`. `ReceiveInv` says what is pending and what a restart
  has emptied. In particular an unmute starts beside the error flag of the last
  stop (section 5), and the interrupt that it raises finds no block captured yet
  (`Unmuting`). `Streams` says which block is in each half of each buffer, as a
  function of the last one captured, the last one converted and `events`: the
  converted half is at most one block behind (`MicStream`), and microphones and
  reference are never more than the block apart that is pending (`AmpStream`).
* `~Overlap` is not a convenience: `capture_mute` is the run in which its absence
  leaves a muted device recording. `~Late` is what the code assumes of its
  priorities; a task that is late shifts the reference (section 5).

`FileDataProofs`

* `FilesRoundTrip`, `FileSizesAnswered`: the invariant is `Readable`, that a file
  which has not been damaged decodes to what Save was given. A Save establishes
  it (`SavedPlain`, `SavedEncrypted`); nothing else but damage touches a file.
  The lemmas follow the code: the size that is put into a header is got out of
  it whatever its extension bits were (`SizeKept`); the padded length has one
  block more than there are whole ones (`BlocksNeeded`); the chain of a block is
  the one it was encrypted with (`CbcInverse`); the padding comes off again
  whatever precedes it (`PaddingComesOff`); the whole blocks join to the data
  they were cut from (`JoinedAreCut`).
* Assumption `~Aligned`: an encrypted file is no multiple of a block, as the only
  one there is. Without it the property fails (section 5). Both theorems are
  about Reads in which the hardware decrypts, whatever it did at others.

`SlnFlashStoreProofs`

* All three theorems exclude programs that fail unnoticed (`~LostPrograms`): with
  them each property is false (section 5).
* `NothingResurrected`: `Spec => NeverResurrected`, with torn map programs. What
  makes an old entry unreadable is its mark in the map, and a torn mark may leave
  several candidates; so `ContentInv` says where headers of values can be at all:
  entries not completely marked are erased (`LooseIsBlank`), a header is only
  programmed where every earlier entry is dead (`HeadsFirst`), nobody programs
  in front of it (`Heads`), and the compaction rebuilds the image from the start
  of an erased sector (`Compaction`).
* `CompactionLeavesRoom`: `[]BootLeavesRoom` with torn map programs, for a boot
  that does not fail (`~Faults`): the code goes on to `init_ram_crc_mirror` when
  the erase fails.
* `FlashImplementsStore`: `Spec => StoreSpec`. Each action of the sector maps to
  one action of `FileStore` or to a stutter (`SaveMark` to Retire, the last
  `SavePage` to Commit, the erase of the compaction to MoveOut, its last page to
  MoveIn, ...). On top of the layout and `ContentInv` it needs `StoreInv`: who
  holds the lock (`Locked`); that the pages programmed so far are those of the
  image (`Written`); and that what a reader has collected so far is what the
  flash holds, or the sector was erased under it (`Views`), since Erase takes no
  lock. It holds for map programs that are not cut short (`~TornMaps`); cut
  short, a second entry can be found afterwards (section 5).

Only model-checked
* Liveness: `BootEnds`, `LockFreed`, `SessionEnds`, `ChangeIsInstalled`,
  `VolumeIsSaved`, `Connects`, `ConnectionEnds`, `LoopbackRecovers`,
  `SilenceIsRepaired`. Proofs of these would need ENABLED under fairness, which
  the prover does not handle.

Every invariant and every action property of a passing run is stated by a theorem.

## 5. Assumptions and abstractions

Flash
* One writer for each file, as in the firmware except for the settings file,
  which both tasks may write; `SettingsFile` models that case.
* An erase is not interrupted by a power loss (its outcome would be an
  arbitrary sector); a program may be. With torn map programs `MapShape`,
  `SectorUsable` and `StoreSpec` do not hold; with programs that fail unnoticed
  `FreeIsBlank`, `ProgramsBlank`, `StoreSpec`, `NeverResurrected` and `BootLeavesRoom`
  do not. A program that fails leaves its page as it was. `BootEnds` is checked
  without them: a boot could then meet a run of entries whose first page is no
  header.
* `Update` and `Deinit` have no caller and are not modelled; reserved files have
  no content of their own.
* `FileData`: a CRC tells every change; the initialisation vector is never
  written back by the driver, so each call starts a chain of its own; encrypted
  files are no multiple of a block (`Aligned`), as is the only one there is
  (`wifi.dat`, 98 bytes).

Voice demo
* A shell handler is one step, being run with interrupts disabled. So is
  `initialize_asr` with respect to interrupts, and the copy of the structure by
  `Save`; the word-by-word interleaving of these is left out.
* An entry whose page was never programmed reads as ones, which is no
  `WRITE_SUCCESS`. Its blank size makes the read copy more than the structure; the
  model has what lands in it. A page cut short may hold any of `TornSettings`,
  whole settings with the status `WRITE_SUCCESS`.
* `SettingsFile` takes `FileStore` for granted, and with it that no program fails
  unnoticed (`~LostPrograms`).
* A command engine without words (`NULL`) may accept or ignore what it hears.
* `IOT`, `ELEVATOR`, `AUDIO` and `WASH` are one kind of demo; `cmdresults` and
  the bit `NO_CHANGE`, which nothing tests, are left out.
* The microphones are switched on when the tasks start; the steps of switching
  them, and their repair, are in `AudioCapture`. The debouncing of the buttons is
  not modelled.
* `SlowStart`: the amplifier's start takes longer than reading the settings.
  The code does not enforce it; `voice_settings` runs without it.

Network
* The Debug build that the repository holds keeps its asserts; a failing one
  stops the processor.
* No application sets a link handler (`update_link_cb` stays `NULL`), so
  `wifi_join` registers for no link event and `s_connectState`, once set, stays.
* Clients announce the size they send, in a segment of its own. The firmware
  takes that for granted; what it does with other clients is not modelled.
* `print` and `version` change nothing. Want of memory stops the device, by
  the hook of the heap; only the buffers of messages are counted.
* A power loss during a Save, or during the compaction at a start, may lose or
  damage the file; an erase leaves none.

Audio
* The IOT build: `USE_TFA`, four languages and therefore two microphones on
  SAI1, no MQS, no SAI2.
* `pdm_to_pcm_task` and the error interrupt are in time for every block, and both
  interfaces run at one pace (`InTime`, `MicsTurn`, `AmpTurn`); `Late` lifts this.
* `capture` keeps commands and repairs apart (`Overlap`, `Sound`): a mute falls
  neither into a repair nor into an unmute, a failure not into a switch. That the
  code needs this is what `capture_mute` shows.
* `g_decimationStarted` is true: the models start with the loop of the task.
* Stopping the microphones leaves no interrupt behind (`StopMics`). In the code a
  DMA completion that is pending when `PDM_MIC_StopMic` disables the line
  (`audio/sln_pdm_mic.c:304`) fires after it is enabled again (`:231`), behind the
  clearing of the events; that window is not modelled.

Noticed, without a run of its own
* The status of a program is looked at in `write_file` only. When the map
  program of a Save fails (`sln_flash_mgmt.c:753`), the pages are programmed under
  `FREE` entries, `Save` returns `SLN_FLASH_MGMT_OK`, no read finds the file, and the
  next Save programs the pages again. When the map program or a page of the
  compaction fails (`:536, :543`), the file is lost. In the model: `LostPrograms`.
* `SLN_Decrypt_AES_CBC_PKCS7` returns OK after an error of the hardware
  (`sln_encrypt.c:270`), although its header promises "a negative value in case of
  error" (`sln_encrypt.h:105`). The CRC is that of the encrypted file, so Read hands
  over what was never decrypted, with the size of the padded blocks, and returns
  OK. In the model: `Undecrypted`; the properties of `FileData` except such a Read.
* `local_voice_task` ignores the status of its read (`sln_local_voice.c:590-596`): a
  settings file whose program was cut short after the status word is accepted
  with whatever its other words hold, although the comment promises defaults for
  one that is "not available". In the model: `ReadInto`.
* A failed second Save after an overflow loses the change: the file is erased and
  the status stays `WRITE_SUCCESS` (`main.c:790-801`), so nothing tries again.
* `asrCfg` is cleared behind the first `initialize_asr` (`sln_local_voice.c:627`); a
  change of languages that the shell asks for in between is saved but not
  installed. The load and store of `:951` can lose one in the same way. With
  `multilingual` among the commands `ChangeIsInstalled` is violated.
* `Save` clears the header's valid bit before it checks for room
  (`sln_flash_mgmt.c:723`). After an overflow the old entry stands with the bit
  cleared; reads never look at it, although `sln_flash_mgmt.h:104` gives it a
  meaning.
* After a map program of a file of several pages was cut short, the old run can
  keep `CURRENT` entries behind a byte that is no mark. The next Save retires the
  first run only (`sln_flash_mgmt.c:717-741`) and returns `SLN_FLASH_MGMT_OK`; reads
  go on finding the leftover entry.
* Encryption pads only what is not a multiple of a block, although the padding is
  there "so we can recover plain text length later" (`sln_encrypt.c:171`):
  with `Aligned = TRUE` in `file_data.cfg`, `RoundTrip` is violated. Data that ends
  like padding comes back shorter, and the last of several whole blocks, encrypted
  in the chain of the others, is decrypted as a chain of its own.
* The callback after an erase turns the microphones of a muted device on
  (`main.c:498` against `sln_flash_mgmt.c:1304`).
* SW2 selects all languages for a device in push-to-talk mode (`main.c:261`),
  which the shell restricts to English (`sln_shell.c:428`).
* A command between the mark `WRITE_SUCCESS` and the copy that Save takes is
  stored with status `WRITE_READY`. If power fails before the Save that follows,
  the next start replaces the settings by the defaults, although the comment says
  "If not available" (`sln_local_voice.c:589`).
* `changeto` assigns `asrCfg` (`sln_shell.c:323`): a pending change of languages
  that `multilingual` asked for is saved and shown, but never installed.
* Both tasks clear their bits of `asrCfg` by a load and a store. A bit restored in
  between can leave SW2 refused with nothing left to do (`main.c:253, 778`).
* A change of demo in a session leaves the command engine with the words of the
  LED demo until the next wake word (`sln_local_voice.c:541, 950`).
* `setup` raises its event even when it has refused the password
  (`sln_shell.c:834`): the task then stores the new name with the old password.
* A power loss in the Save of the credentials leaves a file that reads with
  `EENCRYPT2` or a map without an entry. For the former the assert
  (`assert(status == 0)`, `network_connection.c:397`, in the model `WifiConnectAssert`)
  stops the device at this and every later start, unless the user sets the credentials again while the Wi-Fi driver is being
  initialised.
* After a link loss the wait for an address (`network_connection.c:356`) never
  ends: the state it polls is cleared by a handler that is never registered.
* The microphones alone stopping is never noticed. The comment
  (`audio/pdm_to_pcm_task.c:494-497`) promises a repair when no data comes from
  them, but the wait is ended by the reference events every 10 ms as well.
* After an unmute the FIFO flag of the last stop is still set; the interrupt it
  raises is taken for an error and the microphones are switched off and on once
  more. `SwitchedAsSet` shows that this ends well.
* A `pdm_to_pcm_task` that is late by two reference blocks gets one event for both;
  the echo reference stays shifted by a block until the next restart.
* Every message that the server receives keeps its packet buffer
  (`sln_tcp_server.c:266`, no free). After enough of them `pvPortMalloc` fails, and
  its hook executes `BKPT #5` (`os_hooks.c:59`) before `read_connection` can return
  the error it has for this (`sln_tcp_server.c:236`): the device stops. A message
  that announces no bytes has the same effect. In the model: `MallocFails`.

## 6. Plan

Done: the flash file system and its proofs; the voice demo and its proofs;
credentials, network connection, update server and update bits, and their
proofs; the refinement of `FileStore`; capture, echo reference and their repair,
and their proofs; sizes and encryption of files, and their proofs.

Next

1. The credentials and the settings at the level of `FileStore`: that the steps
   of `ShellTask` and `SettingsFile` on their files are steps of that
   specification, up to the value of a Save, which both take only after Retire.
2. The hazards of section 5 that no property covers yet, as far as one of them
   can be stated of a component that is modelled.

Not modelled, and why
* The push button driver: two pins debounced against a 32-bit time. The settings
  models take a debounced press as one event.
* Playback of the amplifier beyond "a clip plays": the code that splits long
  clips is not reached by any clip of the repository, the rest is registers.
* `Update` and `Deinit` of the flash file system, access point mode, the key-value
  store of the credentials: no caller, or not compiled.
* LEDs, printing, fault handlers, the hooks but that of the heap, tables of
  constants: output, or code that runs when the system has already failed.
* Everything third-party. `src/` has some 650,000 lines of implementation, of
  which the application's own code, listed in section 1.1, is about 9,000; the
  rest are register definitions, radio firmware, sounds as arrays, speech models,
  FreeRTOS, lwIP, mbedTLS, WICED, USB, SDMMC, cJSON and the SDK's drivers. The
  models cover most of the application's code and, by design, none of the rest,
  which they take from its documented behaviour.

# Verification of the 1704165 bootloader

TLA+ models of the bootloader in this repository, the TLC configurations that
check them on small instances, and TLAPS proofs of the results that matter most
for every value of the constants. Paths and line numbers are relative to the root
of the repository; `lib/cyclone_boot` is abbreviated to `cb`, and
`cb/drivers/flash/internal/stm32h5xx_flash_driver.c` to "the driver".

## The system

The board is an STM32H563VI with two flash banks of 1 MB in sectors of 8 KB that are
programmed in quad-words of 16 bytes. `README.md` and `src/boot_config.h` give the
layout: bootloader (sectors 0-7), application (8-126) and configuration (127) in
bank 1, the staged update in bank 2. The first 132 bytes of RAM are a *mailbox* that
the start-up code leaves alone, so that it survives a reset, but not a power loss.

The repository holds four programs that touch firmware:

- **The boot path that runs**, `src/main.c`: it installs the image from bank 2 when
  the mailbox asks for it and then jumps to the application.
- **The second stage of CycloneBOOT**, `cb/bootloader/second_stage`: compiled and
  linked, but `main.c:91` says "we don't use bootFsm". Its state machine has the
  fallback that `README.md` announces.
- **The updater**, `cb/update` and `cb/modules/image`: the part of CycloneBOOT that
  runs inside the application. It receives an image in pieces and writes it through
  `cb/modules/memory` and the flash driver.
- **The first stage**, `cb/bootloader/first_stage`: not built for this board. It
  replaces the second stage itself.

Everything is one thread without interrupts. What interleaves with it is what a
reset, a power loss or a failed flash operation cuts off, and the application, which
runs between two boots and calls the updater with pieces of any length.

### Components

| Component | State | Operations | Hard behaviour | What makes it correct | Model |
|---|---|---|---|---|---|
| Boot path, `src/main.c` | application region, mailbox | check the request, validate bank 2, erase, copy, verify, record the outcome, jump | reset between any two flash operations or mailbox writes; flash errors; garbage in the mailbox | a damaged application is always covered by a pending update; nothing else in flash changes; no loop of updates | `OtaBoot`, `SlotUpdate` |
| Second stage, `boot.c`, `boot_common.c` in `cb/bootloader/second_stage` | `BootContext`, slots, mailbox | select, run, update, fall back, error | power loss in the middle of a copy; a call that goes round its loop; flags changed one by one | some whole image always survives; what runs is whole; the call ends; confirmation belongs to its image | `BootFsm` |
| Fallback, `boot_fallback.c` | slots | find the copy of the application, delete it, restore the backup | reset between deletion and restore | a withdrawn image stays withdrawn, the backup is not lost | `BootFsm` |
| Mailbox library, `cb/core/mailbox.c` | flags, counter, key | set, clear, count | survives resets, lost with the power | as above | `BootFsm`, in part |
| In-application programming, `cb/update`, `cb/modules/image` | input and output context of an image, digests, a slot | `updateInit`, `updateProcess`, `updateFinalize`, `updateReboot`; index and version of the image | calls that cut header, payload and tag anywhere; two buffers; errors replaced by the result of an erasure; index and versions compared in two places | the next reset always finds a whole application; what is declared valid is in flash; what was accepted is installed and not older | `IapUpdate`, `ImageOrder` |
| Slot access, `cb/modules/memory` | a static write buffer | write, erase, overlap check, bank swap | one buffer for all slots; a failed write leaves something in it | the bytes of a stream are in the slot in order | `SlotMemory`, `SlotStream`, in part |
| Flash driver of the STM32H5 | two banks, option bytes | write (erases at a sector boundary), erase, swap banks | the sector is erased in the bank the option bytes name, not the address; a swap takes effect at the reset | as above | `FlashBanks`, in part |
| Verification, `cb/core/verify.c`, `crc32.c` | digest context | init, process, confirm | what is digested, and in which order | | `IapUpdate`, `FirstStage`, in part |
| First stage, `cb/bootloader/first_stage` | its slot, update slots | look for an update, copy, check, jump | power loss in the copy of the only second stage; indices in 8 bits | a whole second stage is always somewhere, and only a whole one runs | `FirstStage` |
| Image packer, `tools/image_pack.py` | none | header, payload, CRC | | | images of `MCOtaBoot` |
| Bank swap fallback, `cb/update/update_fallback.c` | option bytes | swap back | not implemented on this device | | not modelled |
| Security, `boot_secure.c`, `cb/modules/security` | keys | decrypt, authenticate, sign | disabled in `boot_config.h` | | not modelled |
| Start-up and hooks, `src/system_init.c`, `boot_hooks.c`, `startup`, `linker` | clocks | | hooks are empty | | not modelled |
| Drivers of other devices, vendored libraries | | | not built, or third party | | not modelled |

The application talks to both boot paths through the mailbox and the flash only. The
second stage calls the mailbox library and the flash driver directly; the updater
goes through the slot access. First stage, second stage and updater share the slots:
the first stage installs images of the second stage from the slots the second stage
takes applications from.

## Modules

| Module | Content |
|---|---|
| `SlotUpdate` | abstract: what an update promises about the application region |
| `OtaBoot` | `main()` and `handleOtaUpdate()`, with the application and the faults around them |
| `BootFsm` | `bootInit`, `bootFsm`, fallback and copy, with the application and its downloads around them |
| `FlashBanks` | the flash driver and the two banks: operators, and no specification of its own |
| `SlotMemory` | extends `FlashBanks`: `memory.c` with its static buffer, operators |
| `SlotStream` | extends `SlotMemory`: any user of `memory.c`, and what it can rely on |
| `IapUpdate` | extends `SlotMemory`: the updater over the slot access and the banks |
| `ImageOrder` | versions and indices: what the updater accepts and the second stage selects |
| `FirstStage` | the first stage, between the second stage and an application |
| `MC*` | the values of constants TLC needs as definitions |
| `*Proofs`, `OtaBootRecovery` | theorems, see below |

### OtaBoot

`flash` is bank 1, byte by byte. `stage` is the image in bank 2 as a record: whether
the header CRC matches, type, payload and the CRC stored behind it. `mbx` is the
mailbox and `step` the place in `main()`; `sector` and `done` are the loop variables
of `HAL_FLASHEx_Erase` and of the copy loop. `installed`, the last complete
application, is history. One action is one sector erase, one quad-word
or one write to the mailbox, in the order of the code, so that `WarmReset` and
`PowerLoss` can fall between any two. An interrupted or failed flash operation leaves
its sector or quad-word as it was, or filled with a junk byte; `ProgramCorrupt` is a
program that reports success and reads back differently. A power loss leaves any
mailbox, the old one included.

`Crc` is a parameter. The vector table check of `main.c:140-145` looks at the first
two words; in the model they are the first two bytes, with the sets `GoodSp` and
`GoodPc` of values that pass. The application acts only while its region is complete;
an incomplete region that passes the check may be started (`JumpToApp`), but then
does nothing until a reset.

`SlotUpdate` knows a slot, a target and whether a valid update is pending: the slot is
overwritten only while one is, and the update is over only when the slot holds the
target, or when a device that is not reliable gives up. `OtaBoot` implements it with
the region for the slot and the staged payload, padded, for the target.

### BootFsm

`slots` has the application slot and the two for updates and backups; of each the
index in its header (0: no valid header), how much of its payload is there and whether
the digest behind it matches. A slot is `"blank"` as long as its vector table is
erased. This is what the code looks at: `bootCheckImage` sees the header,
`bootCheckSlotAppResetVector` the vector table, `bootCheckRuntimeImage` the digest. `mbx` is the
mailbox, `state` is `context->state`, `place` is the place inside `bootFsm` and the copy,
`source` the slot selected. `reverted`, `confirmed` and `boots` are history: indices
that fallback has deleted, whether the application in slot 0 has confirmed itself, and
its starts since it cleared the counter.

An action is one pass of the loop of `bootFsm`, one phase of `bootUpdateApp` (header,
first chunks, other chunks, last bytes and digest) or one write to the mailbox.
`CallAgain` is the caller that calls `bootFsm` again after an error. `CopyDigest`
writes a matching digest over whatever was copied, as `boot_common.c:663-671` does.
The application downloads the next index into the slot `updateGetUpdateSlot` gives,
in the order `image_process.c` writes it: header, payload, check data; what it
received may be damaged, and `updateFinalize` then erases the header. It confirms,
clears the counter, sets or clears `FALLBACK_REQUESTED` and resets as it likes.

`RuntimeCheck` is `BOOT_RUNTIME_INTEGRITY_CHECK_SUPPORT`, which `boot_config.h` does
not set. The images are those of single bank updates with fallback, the mode whose
slots `bootFsm` reads.

### FlashBanks, SlotMemory, SlotStream

`FlashBanks` has the bytes of both banks, the bank that is `mapped` to the lower half of
the address space, and the `option` that is going to be. A write programs quad-words in
ascending order; when it gets to the first byte of a sector it erases that sector, with
`FLASH_DB_MODE` (`DualBank`) in the bank that does not execute according to the option
register, whatever the address (driver:706-804). A quad-word that is not erased becomes
junk. `SwapBanks` toggles the option read back; a reset latches it.

`SlotMemory` is `memoryWriteSlot`: the bytes taken go behind what the static buffer
holds, whole quad-words go to the flash, the rest waits; `RESET` empties the buffer
first, `FORCE` pads it. A call may fail behind any number of quad-words, with that
quad-word not begun, its sector erased or itself torn (`WriteSlotFails`), and the driver
refuses the first quad-word behind the bank (`WriteSlotRefused`, driver:249-260). Where the
slot ends neither of them knows. `given` (the bytes taken since the
last `RESET`) and `broken` (whether a write has failed since) are history.

`SlotStream` is any user that begins with `RESET` at offset 0 and advances by what each
call says it has written, as `image_process.c` does. It may abandon a stream, begin
another in any slot, go on after an error and behind the end of the slot, swap banks and be
reset at any time. `MaxGiven` bounds the length of a stream, and nothing else does.

### IapUpdate

`in` and `out` are the two contexts of `ImageProcessCtx`, with their states, buffers,
positions and digests; `left` is what the current call of `updateProcess` has still to
process and `feed` what `imageProcessOutput` has. A step is one pass of a loop with at
most one flash operation, so that a reset may come between any two. A unit is the byte of
the update it came from, or noise; a digest is the sequence of units it was taken of, and the
tag made of one has `TagSize` units, so that it comes in parts like everything else.
`DualBank` selects between the two output handlers: the payload alone into the other bank,
which `updateFinalize` makes the one to boot, or an image with a new header and a digest
of its own. `Images` gives the payload lengths, and which unit is damaged; `Trailing`
units follow. `whole`, the update each bank was made bootable with, is history.

`bufferPos` and `bufferLen` of the output context are the end of the same bytes, but for one
case: when the write of the digest fails (`image_process.c:500-516`), `bufferLen` is that of the
digest and `bufferPos` still behind the last block. `out.skew` is the difference; the next call
copies behind it (`Block`), and where that passes the end of the buffer (`ImageOverruns`) the
place is `"overrun"`, from where only a reset leads on.

The branch of `imageProcessOutput` for a state behind the last block is left out; the
`CallEnds` of `iap_single` says that the loop that would lead there ends.

### ImageOrder

The headers in the application slot and the others. `Accept` is the updater: its
lexicographic version check, the index it computes (through a `uint16_t`) and the slot it
chooses. `Boot` is `bootSelectUpdateImageSlot` and the copy: highest index, and with
`BootGate` also `imageCompareFirmwareVersions`, which `Superior` states as the code
computes it: each comparison overrides those before it.

### FirstStage

Header, chunks and digest of the slot of the second stage and of the update slots, and the
header of the application. `CheckForUpdate` compares 8-bit indices, `CopyHeader`,
`CopyChunk`, `CopyDigest` and `RemoveHeader` are the writes of the copy, between any two of
which the power may go; `CheckImage` is `bootCheckImage` before the jump. The second stage
and the application are what else changes the slots: installation of an application, and
downloads of either kind that may stop behind any chunk (`cut`).

## Runs

| Run | Faults | Distinct states | Shows |
|---|---|---|---|
| `ota_reset` | 2 resets anywhere | 4,728 | `DamageIsPending`, `UpdateIsInstalled`, `ImplementsSlotUpdate` |
| `ota_faults` | 2 of reset, power loss, flash error, corrupt program | 44,206 | `TypeOK`, `ProtectedSectors`, `WriteOnlyValidated`, `ProgramOnlyErased`, `SuccessIsInstalled`, `HandoverClearsRequest` |
| `ota_keep` | 1 flash error | violated | `FailureKeepsApp` |
| `fsm_faults` | 2 of reset, power loss, flash error | 86,666 | `TypeOK`, `SomeImageWhole`, `AppHasCopy`, `ConfirmationIsOwn`, `RevertedStaysReverted`, `ConfirmedAppKept`, `BootEnds`, `StagedUpdateInstalled` |
| `fsm_attempts` | none | violated | `FallbackAfterMaxAttempts` |
| `fsm_checked` | as `fsm_faults`, `RuntimeCheck` | 59,703 | `RunsWholeImage` |
| `fsm_download` | a reset in a download | violated | `InstallsOnlyComplete` |
| `mem_dual` | 1 failed write, refused writes, abandoned streams, resets | 1,381,244 | `TypeOK`, `InOrder`, `StreamOnly` |
| `iap_dual` | 2 of failed writes and swaps, resets | 835,914 | `TypeOK`, `NextBootIsWhole`, `ReadyIsWhole`, `ReadyIsNext`, `SoundIsAccepted`, `OnlySlotChanges` |
| `iap_single` | 1 failed write or erasure, resets | 313,160 | `ReadyIsWhole`, `RefusedHasNoHeader`, `CallEnds` |
| `order_order` | none | 1,503 | `AcceptedIsInstalled`, `NoRollback`, `CopyKept` |
| `first_faults` | 2 power losses or flash errors, downloads cut off | 75,000 | `TypeOK`, `JumpsOnlyWhole`, `SecondStageSomewhere`, `RunsNewest`, `OnlyNewer`, `BootEnds` |

Resets by the application, and in `SlotStream` and `IapUpdate` all resets, are not counted
as faults.

### Bounds

- `OtaBoot`: quad-words of 2 bytes, 2 of them in a sector, a sector for the bootloader,
  two for the application and one for the configuration. With two sectors a reset
  falls between two erases, with four quad-words between two programs, and there is a
  protected byte on either side. The eight images are one that fills the region, one whose
  last quad-word is padded, one without a vector table, and one for each reason to
  refuse an image. `CounterSize` 2 lets the counter wrap. Two faults are
  one during an update and one during its repetition.
- `BootFsm`: `MaxIndex` 3 allows two updates, so that both other slots are in use and one
  is used again, and a fallback from 3 to 2 or from 2 to 1 with another update after it.
  `MaxAttempts` is the 3 of the configuration, `CounterSize` 5 is above it and wraps.
- `SlotStream`: a bank of two sectors of two quad-words of two bytes, and two slots of a
  sector each in either order, as `slotsInit` accepts them. Chunks of 1 and 6 bytes leave the
  buffer empty or half full and end inside, at and behind a sector. Streams of up to 11 bytes
  pass the end of either slot, and from the second that of the bank too. Two streams let the
  second find what the first left; one fault is enough to spoil the first.
- `IapUpdate`: banks of three such sectors, a header and a tag of 2 units, buffers of 4 as the
  code's are two headers long, and calls of 1, 3 and 6 units, which cut header, payload and tag in
  every place: a tag comes whole behind the payload, begins with the last block and is cut by the
  end of the buffer, comes by itself, or comes in two calls. With two banks the payloads end in a
  quad-word that is padded (5), in a last block
  that is longer than the end of the slot leaves room for when it comes again (7), fill the slot
  (8) or are too large (9); a unit of the header, of the payload or of the tag is damaged, or none,
  and one unit of noise
  follows. With one bank the image of 3 or 6 units and its header and digest fit, 8 just
  does and 9 does not. Two updates: the second runs with what the first has left, and in the
  bank the first has left.
- `ImageOrder`: fields 0 and 1 tell all orders of two versions apart; four updates with two
  slots use each twice; `IndexSize` 8 is above `MaxIndex`.
- `FirstStage`: three chunks, one of them in the sector of the header, the last short of a
  write size; four downloads fill both slots twice.

### Fairness and deadlock

`WF_vars(Boot)` in `OtaBoot`, `BootFsm` and `FirstStage`, `WF_vars(Step)` in `IapUpdate`:
the bootloader, or the call of `updateProcess`, is the only thread of the processor and no
step of it waits for anything, so that it goes on as long as nothing resets it. There is
no fairness on the application, the faults or the caller of `bootFsm`; `SlotStream` and
`ImageOrder` have none. `MCOtaBoot` runs
with `CHECK_DEADLOCK FALSE`: the blink loop (`main.c:149-153`), and a partial
application that was started, are the end of a behaviour without faults left. All other
runs check deadlock.

### What is assumed of the hardware

- A flash operation changes nothing but its sector or quad-word; an interrupted one leaves
  it as it was, erased or junk. Programming what is not erased leaves junk. Without
  `FLASH_DB_MODE` the driver looks at the end of the whole flash only; the slot of the runs with
  one bank lies in the upper half, whose end that is.
- `HAL_FLASHEx_OBGetConfig` reads the option register, which follows `HAL_FLASH_OB_Launch`
  at once (`LaunchLoads`). The proofs allow both that and a register that follows at the
  reset.
- Digests of different data differ: a digest is the data it was taken of. In `OtaBoot` the
  CRC is a parameter, and the theorem that needs this says so.
- The RAM of the mailbox keeps its content over a reset; over a power loss it holds anything
  (`OtaBoot`), or a mailbox whose signature does not match (`BootFsm`).

## What the violated runs show

1. **`ota_keep`** - `main.c:132` says "Failed — clear request, keep existing app". The
   branch is also taken when an erase or a program fails or the copy does not verify,
   after the application is gone; the request is cleared with it.
2. **`fsm_download`** - `update.c:289-290` wants "to make sure bootloader doesn't consider it as a
   new valid update image if a reboot occurs", but a reset in the middle of the download
   comes before that erasure. The partial image is installed over a whole one, under a
   digest computed anew.
3. **`fsm_attempts`** - `README.md:5-6` promises "automatic fallback after 3 failed boot
   attempts", and `boot_config.h:36` sets `BOOT_COUNTER_MAX_ATTEMPTS` to 3. `boot.c:368`
   compares the counter with it, but `boot.c:380-381` falls back before that, as soon as the update is
   not confirmed and the counter is not 0: in the run update 2 is installed, started once and
   reset, and the next boot deletes it and copies image 1 back. The boot path of `main()`
   counts (`main.c:130`) and never reads the counter.

## Where the properties stop

The passing runs and the theorems state the conditions under which the code keeps its
promises. Behind each of the following conditions it does not; change the constant, or drop
the condition, and TLC shows how.

| Condition | Without it |
|---|---|
| `BootFsm`: `RuntimeCheck` for `RunsWholeImage` | `bootUpdateApp` writes the header first (`boot_common.c:521`); after a power loss in the copy both indices are equal, the copy is not resumed, and `boot.c:485` logs "Application image is valid. Booting..." for a partial image |
| `BootFsm`: no `RuntimeCheck` for `BootEnds` | an application with a valid header, a wrong digest and no older backup sends `bootFsm` from `RUN_APP` to `FALLBACK_APP` and back for ever, inside one call (`boot.c:576-580`, `boot_fallback.c:243-244`) |
| `BootFsm`: `DownloadResets = FALSE` | `fsm_download`; `SomeImageWhole`, `AppHasCopy` and `RunsWholeImage` with it |
| `BootFsm`: `faults = 0` in `ConfirmationIsOwn`, `StagedUpdateInstalled` | a reset between the begin of a copy and the mailbox writes behind it leaves the old confirmation with the new image; a power loss forgets an unconfirmed application |
| `SlotStream`: slots in the other half only (`SlotHalves = {1}`) | driver:226 says "Write data in Flash Memory at the given address.", but the sector is erased in the other bank (driver:766): a write to the executing half destroys what is there |
| `SlotStream`: a table of two slots | `memory.c:786` compares `slots[0]` with the others only: the second and the third may overlap |
| `SlotStream`, `IapUpdate`: `AwaitReset` | an update begun between a successful `updateFinalize` and the reset writes to the bank that is going to boot, although `update.c:677-678` says it is always the other one |
| `IapUpdate`, two banks: payloads longer than the buffer | a payload that ends in the first block is never flushed (`image_process.c:173` says "with the flush flag", the flag is another), and the bank is swapped in without its last bytes |
| `IapUpdate`, two banks: `faults = 0` in `ReadyIsNext` | a swap that fails behind the programming of the option (driver:500) is toggled back by the next `updateFinalize`, which succeeds |
| `IapUpdate`, one bank: `sent <= ImageLength` in `ReadyIsWhole` | data behind the tag make `updateProcess` erase the header and return success (`update.c:291-292`); `updateFinalize` then accepts |
| `IapUpdate`, one bank: `faults = 0` in `ReadyIsWhole` | when the write of the header fails the call erases, returns success and digests the header a second time: the tag in the slot is not that of the image |
| `IapUpdate`, one bank: `faults > 0` for the overrun in `CallEnds` | when the write of the digest fails (`image_process.c:500-516`) `updateProcess` erases, returns success and goes on; `bufferPos` stays behind the old block, so that the block fed again is copied behind the digest (`299-311`), is written with what lies between, or runs over the end of `buffer[128]` |
| `IapUpdate`, one bank: `Orderly` | a second `updateFinalize` erases the header of the image the first has accepted (`update.c:361-383`) |
| `IapUpdate`: `faults = 0` for the slot in `OnlySlotChanges` | a last block whose write has failed stays in the output buffer, and the next call of `updateProcess` feeds it again behind that; `memoryWriteSlot` does not know where the slot ends (`memory.c:278`), so that the second copy goes on behind it, over a sector that it erases first. In the configured build nothing is, as the slot is the whole bank |
| `SlotStream`: the end of the stream, not of the slot, in `StreamOnly` | a stream that is longer than its slot, or comes again behind a failure, goes on in the slot behind and erases its sectors; only the driver stops it, at the end of the bank |
| `ImageOrder`: the check of the updater in `NoRollback` | with that of the bootloader alone (`BootGate`) a version with a lower major number and a higher build number is preferred (`LowerMajorIsSuperior`): `imageCompareFirmwareVersions` goes on comparing whatever the more significant numbers were (`image_utils.c:522-564`), although `image_utils.c:536` says "The major version numbers are equal, continue comparison.", and `boot_common.c:382-385` that the version "MUST" be more recent |
| `ImageOrder`: not both gates in `AcceptedIsInstalled` | the updater's comparison is lexicographic, that of the bootloader is not: what the first accepts the second never installs |
| `ImageOrder`: `MaxIndex` below `IndexSize` | the index of the image goes through a `uint16_t` (`update.c:606-608`, `661`): behind the last one the update gets index 0 |
| `FirstStage`: `~cut` in `JumpsOnlyWhole` and `SecondStageSomewhere` | the digest behind the update is not compared with what is copied (`first_stage/boot.c:314-382`): a download cut off behind its header becomes a second stage whose digest matches |
| `FirstStage`: indices below `IndexSize` | indices are kept in a `uint8_t` (`first_stage/boot.c:43`, `132`, `196`): a second stage with index 256 compares as 0 |

Two more statements of the repository have no property, because nothing in the code is
there to carry them: `boot_common.c:428-429` speaks of "the new application", but the second stage never looks at
`imgType`, and installs a second stage as an application if its index is the higher one;
`first_stage/boot.c:102` and `113` say "TODO: recovery here" where a second stage without a
header stops the device although its update is still in a slot.

## Proofs

All theorems hold for every value of the constants that satisfies the named
assumptions of the modules (geometry of the flash, bounds that are numbers) and any
number of faults, but for the conditions they name.

**OtaBootProofs.** `TypeCorrect` is inductive as it stands. The other properties are
not: that the copy loop programs erased flash needs to know that the erase has been
through every sector, and that the payload fits. The invariant `Inv` adds

- `PendingInv`: from the first erase to the success branch, the request is set and the
  staged image validates;
- `SectorInv`: during the erase, the sectors below the next one are erased;
- `CopyInv`: during the copy, everything from the next quad-word on is erased, and some
  of the payload is left;
- `HandoverInv`: after the outcome is recorded the request is clear.

`SectorInside` and `QuadInside` do the arithmetic: a sector that is erased, and a
quad-word that holds a byte of a payload that fits, padding included, are inside the
region. From `Inv` follow `ProtectedSectorsHolds`, `WriteOnlyValidatedHolds`,
`ProgramOnlyErasedHolds` and `HandoverClearsRequestHolds`. `SuccessIsInstalledHolds`
assumes `CrcDetects`, that the checksum tells the payload of an image from any other
content of the same length; it is the only theorem that needs it.

**OtaBootRecovery.** `DamageIsPendingHolds`: on a device whose flash and mailbox are
reliable, a region that is not a complete application is always covered by a request for a
valid image. It is not inductive, because nothing in it keeps the failure branch, which
clears the request, from being taken with a damaged region. `CopiedInv` (what the copy loop has
passed is the payload, padded, and at its end the region is the image) and `IntactInv`
(behind the outcome the region is the last complete application) add that.
`ImplementsSlotUpdateHolds` is the refinement, for every device: each step of `OtaBoot` is a
stutter of `SlotUpdate` (`HiddenStep`), an overwriting of the slot under a pending valid
update (`WritingStep`), one of the application's or the outcome's steps, or, on a device that
is not reliable, `Abandon` (`FaultyStep`).

**BootFsmProofs.** `Inv` joins `TypeOK` with `ControlInv` (a copy runs from another slot
that has a valid header; a download runs only under a whole application) and `WithdrawnInv` (no
slot holds an index that fallback has deleted). It is kept by all faults and gives
`RevertedStaysRevertedHolds`. With `DownloadResets = FALSE`, `CompleteInv` (a
header outside a download has a whole image behind it) gives `SomeImageWholeHolds`:
every write to slot 0 has a whole image in its source, and every deletion leaves the
backup. Without that assumption the property is false, by the behaviour of
`fsm_download`. `SealedInv` (a matching digest in slot 0 belongs to a whole image, and
a copy has none before its end) then gives `RunsWholeImageHolds` for
`RuntimeCheck = TRUE`. `BackedUp` is `AppHasCopy` at every place, with the slot of the running
download excluded: `AppHasCopyHolds`. `OwnInv` extends `ConfirmationIsOwn` over the
boot, but for the interval from the begin of a copy to the write that takes the confirmation
back: `ConfirmationIsOwnHolds`. `ConfirmedAppKeptHolds`, for all faults, needs `MailInv` (while
an image is confirmed the mailbox says so and counts no more than its starts, and an image that
may still confirm is not started with a counter left from another) and `KeptInv` (its digest
matches where that is checked, an update has a higher index, a fallback from it has another
reason).

**SlotMemoryProofs** has the lemmas about `memory.c` and the driver. `WriteSlotStep`: when the
bytes taken lie in the slot in order (`Faithful`) and the sector of the next quad-word is erased
behind it (`CleanAhead`), they do after the next call, whatever it hands over and
whichever flag it has, and the other bank is untouched. **SlotStreamProofs** lifts it to
every stream: `StreamInOrder` and `StreamTypes` under `OtherBankOnly`, the condition of the run
(with two banks the slots lie in the other half, and the user awaits the reset after a swap).
`StreamOnlyHolds` says what a call of the stream may change under the same condition: nothing in
the other bank or in front of the slot, and, up to the first failure, nothing but the sectors that
the bytes handed over since `RESET` belong to. That the stream fits its slot is not assumed, since
nothing in `memory.c` sees to it. What keeps it: the position is as many bytes as were taken, but
for those in the buffer, and the sector that a write clears, the quad-word that a failure tears
or the driver refuses, and the padding of a flush lie below the end of what was taken
(`WriteSlotStopsStaysIn`, `ReachedWithin`).

**IapUpdateProofs.** For two banks, with the conditions of the run (`TwoBanks`: no update begins
between a swap and the reset, images are longer than the buffer): `NextBootIsWholeHolds`,
`ReadyIsWholeHolds`, `ReadyIsNextHolds` and `UpdateTypes`. The comparison of the tag says only what
was digested, so the invariant has to carry it to the flash: `Flow` says that in every state of
the input either what is digested is what the output context has taken and the slot holds
(`Live`, `OutputAt`, with the position and the static buffer of `SlotMemoryProofs`), or a
block that could not be written was digested for nothing, and the digest is too long ever to
match (`Lost`). `BlockStreamed` is the step of one block, `ForceFlushes` that the last one
leaves nothing in the static buffer, `ValidHolds` the conclusion when the tag matches. `Bank` adds
what both banks hold. Images that end in the first block are excluded because for them the
last step is false.

`OnlySlotChangesHolds` (the slot ends with a sector) needs the room of each block: `BlockHasRoom`
has it from `Flow`, because a block that was not lost begins where the units before it end, and
`WrittenStaysBelow` that the padding of the last one does not pass the end. The bank itself
follows from the writes alone.

`SoundIsAcceptedHolds` is about the input only. `SoundInv` ties every state of the parser to
the unit of the image it has got to: what the buffer holds, what of the call is left, what is
digested and what is received of the tag are the units of the image in order, none twice and
none missing, for every way to cut it and for a tag of any `TagSize`, which may begin in the last
block, end behind the end of the buffer and come in any number of parts (`Tagged`, `TagSound`,
`JoinedUnits`); and a full buffer is always processed, so that there is
room while units are left (`UnitsHaveRoom`). It holds while no operation has failed and nothing
but the image was handed over; a lemma for each state of the parser keeps it (`HeaderSound`,
`DataSound`, `FedSound`, `CheckSound`, `ProcessSound`), and `SoundIsValid` shows that
`updateFinalize` then finds the digest it computes.

With one bank (`OneBank`: the slot is not empty) `RefusedHasNoHeaderHolds`: `RefusedInv` adds that
the output is not written behind a refusal, so that what was erased stays erased.

**ImageOrderProofs.** `UpdatesOnlyForward`: with the check of the updater no boot goes back to
an older version, whatever the comparison in the bootloader does, for any fields, slots and
widths. `OrderInv`: a slot with a higher index than the application's has the next one, and
a newer version. `NextBootInstalls` (without the comparison of versions in the bootloader) and
`CopyIsKept` (two slots) hold as long as no index goes round (`IndexFits`). `CopyInv`: an accepted
update waits in a slot with the index behind that of the application, a slot with the
application's own index is its copy, and no two slots are newer than the application.
`LowerMajorIsSuperior` is about the comparison in the bootloader: for any two values of a field, the
version with the lower one as its major number can be superior to the other, and is then preferred.

**FirstStageProofs.** `FirstStageJumpsOnlyWhole` and `FirstStageKeepsOne`, as long as no
download was cut off. `FirstInv`: what a slot announces it has (`SlotsWhole`), a digest in the slot of
the second stage is that of a whole one (`DigestSound`), what is copied so far is what is in the
update slot (`CopyOK`), and one of them is whole (`SomeWhole`). That the check before the jump says
anything about the data comes from what the digest was computed of. `FirstStageTypes` needs no
condition. `FirstStageRunsNewest` and `FirstStageOnlyNewer` hold, downloads cut off included, as long as
the indices of the updates fit their `uint8_t` (`IndicesFit`): `RoomLeft` keeps an index for each download
to come, and `NewestInv` says that what is being copied is newer than what is in place and that
nothing is newer than it.

**Only model-checked.** The leads-to properties (`UpdateIsInstalled`, `BootEnds` in two modules,
`StagedUpdateInstalled`, `CallEnds`): liveness under fairness is out of the
prover's reach. Of `IapUpdate` with one bank `ReadyIsWhole` (the image made from the update, its
header and its digest): the invariant `Flow` follows the output of the payload
alone, and the output context with one bank has other states and writes a header and a digest
besides. No recursive operator is used, and no
theorem is about an induction over data.

## Not modelled

- The content of images: the CRC is a parameter or the data itself, digests match or do not.
  `crc32.c` and the hash libraries compute; nothing of the control depends on how.
- `cb/modules/security` and `boot_secure.c`: encryption, authentication and signature are not
  configured.
- `cb/update/update_fallback.c`: `updateFallbackStart` ends in `flashDriverSwapBanksNoInit`,
  which returns `ERROR_NOT_IMPLEMENTED` on this device and changes no state. So does
  `stm32h5xxFlashDriverErase` with `FLASH_DB_MODE` (driver:408); `BootFsm` and the single bank
  runs are about the build in which it is implemented.
- In `memory.c`: slots in files, externals with other geometries, and `memoryCopySlot` and
  `memoryCompareSlotContent`, which nobody calls.
- `image_utils.c:314` moves a rest of the buffer to its front with `memcpy` although the ranges may
  overlap; the model has the result of an ascending copy.
- In `BootFsm`: external memory, encryption, the manual trigger, slots of different
  sizes, image indices beyond `MaxIndex`, the NVM variant of the mailbox. `boot_config.h` gives
  `NB_MAX_MEMORY_SLOTS` 2 while the code with fallback uses `slots[2]`
  (`boot_common.c:137`); the model has the three slots the code expects.
- Interrupts and exceptions of the bootloader, watchdogs during a boot, brown-out
  while the mailbox is written.
- `lib/STM32CubeH5` and the other vendored libraries, which make up almost all lines of the
  repository: register definitions and drivers without control of their own for this system. The
  functions the bootloader calls are external definitions of the models. Drivers of other devices
  are not built.

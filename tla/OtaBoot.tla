------------------------------- MODULE OtaBoot -------------------------------
(***************************************************************************)
(* The boot path of src/main.c: main() and handleOtaUpdate().              *)
(*                                                                         *)
(* Bank 1 of the flash is a function from byte addresses to bytes; the     *)
(* image the application staged in bank 2 is a record; the mailbox is the  *)
(* NOLOAD structure at the start of RAM.  One action is one flash          *)
(* operation or one write to the mailbox, so that a reset can fall between *)
(* any two of them.  The application is the environment: it stages images, *)
(* requests updates, confirms itself and resets the device.                *)
(***************************************************************************)
EXTENDS Integers, Sequences

CONSTANTS
    Byte,            \* values of a byte of flash
    Erased,          \* the byte 0xFF, which is also the erased state
    Junk,            \* a byte of an interrupted or failed flash operation
    GoodSp,          \* first words that pass the stack pointer check
    GoodPc,          \* second words that pass the reset vector check
    QuadWord,        \* FLASH_QUAD_WORD, bytes programmed at once
    QuadsPerSector,  \* SECTOR_SIZE / FLASH_QUAD_WORD
    AppStartSector,  \* APP_START_SECTOR
    AppNumSectors,   \* APP_NUM_SECTORS
    BankSectors,     \* sectors of bank 1
    Images,          \* what bank 2 may hold
    AppImage,        \* IMAGE_TYPE_APP
    Crc(_),          \* crc32Calc on a sequence of bytes
    CounterSize,     \* 2^32, the values of the 32-bit bootCounter
    MaxFaults,       \* bound on resets, power losses and flash errors
    FlashErrors,     \* whether flash operations may fail
    PowerLosses      \* whether power may be lost

SectorSize == QuadsPerSector * QuadWord
AppSize    == AppNumSectors * SectorSize
AppAddr    == AppStartSector * SectorSize
BankSize   == BankSectors * SectorSize

BankAddrs == 0 .. BankSize - 1
AppAddrs  == AppAddr .. AppAddr + AppSize - 1
Region    == [AppAddrs -> Byte]

ASSUME GeometryAssumption ==
    /\ QuadWord \in Nat /\ QuadWord >= 2
    /\ QuadsPerSector \in Nat \ {0}
    /\ AppStartSector \in Nat
    /\ AppNumSectors \in Nat \ {0}
    /\ BankSectors \in Nat
    /\ AppStartSector + AppNumSectors <= BankSectors

ASSUME ByteAssumption ==
    /\ Erased \in Byte /\ Junk \in Byte
    /\ GoodSp \subseteq Byte /\ GoodPc \subseteq Byte
    /\ Erased \notin GoodSp   \* 0xFFFFFFFF is above 0x200A0000

ASSUME ImageAssumption ==
    \A img \in Images :
        /\ img.hdrOk \in BOOLEAN
        /\ img.body \in Seq(Byte)

ASSUME BoundAssumption ==
    /\ CounterSize \in Nat \ {0}
    /\ MaxFaults \in Nat
    /\ FlashErrors \in BOOLEAN /\ PowerLosses \in BOOLEAN

Flags   == {"UPDATE_REQ", "UPDATE_OK", "CONFIRMED"}
Mailbox == [sig : BOOLEAN, flags : SUBSET Flags, bootCounter : 0 .. CounterSize - 1]

Steps == {"main", "erase", "copy", "verify", "failed", "succeeded", "markOk",
          "unconfirm", "count", "vector", "app", "halt"}

VARIABLES
    flash,      \* bank 1
    stage,      \* the image in bank 2
    mbx,        \* the mailbox
    step,       \* where main() is, or that the application runs
    sector,     \* sector HAL_FLASHEx_Erase is about to erase
    done,       \* quad-words of the payload that are programmed
    installed,  \* history: application region of the last complete install
    faults      \* faults so far

vars == <<flash, stage, mbx, step, sector, done, installed, faults>>
boot == <<step, sector, done>>

TypeOK ==
    /\ flash \in [BankAddrs -> Byte]
    /\ stage \in Images
    /\ mbx \in Mailbox
    /\ step \in Steps
    /\ sector \in Nat
    /\ done \in Nat
    /\ installed \in Region
    /\ faults \in 0 .. MaxFaults

-------------------------------------------------------------------------------
(* Operators *)

SectorAddrs(s) == s * SectorSize .. (s + 1) * SectorSize - 1
QuadAddrs(k)   == AppAddr + k * QuadWord .. AppAddr + (k + 1) * QuadWord - 1
Fill(addrs, b) == [a \in BankAddrs |-> IF a \in addrs THEN b ELSE flash[a]]

AppRegion(f) == [a \in AppAddrs |-> f[a]]

\* The byte of the payload that belongs to address a; 0xFF behind its end.
PayloadByte(img, a) ==
    IF a - AppAddr < Len(img.body) THEN img.body[a - AppAddr + 1] ELSE Erased

\* The application region once img is installed.
Installed(img) == [a \in AppAddrs |-> PayloadByte(img, a)]

\* The first n bytes of the application region of f.
CopiedBytes(f, n) == [i \in 1 .. n |-> f[AppAddr + i - 1]]

Requested == mbx.sig /\ "UPDATE_REQ" \in mbx.flags

\* Mutant: the size of the payload is checked against the whole bank.
ImageValidInBank(img) ==
    /\ img.hdrOk
    /\ Len(img.body) # 0
    /\ Len(img.body) <= BankSize
    /\ img.imgType = AppImage
    /\ Crc(img.body) = img.crc

\* Header CRC, size and type checks, then the CRC of the payload in bank 2.
ImageValid(img) ==
    /\ img.hdrOk
    /\ Len(img.body) # 0
    /\ Len(img.body) <= AppSize
    /\ img.imgType = AppImage
    /\ Crc(img.body) = img.crc

\* main() accepts the first two words of the region as a vector table.
VectorOk == flash[AppAddr] \in GoodSp /\ flash[AppAddr + 1] \in GoodPc

\* The payload of img is in the application region.
Holds(f, img) == CopiedBytes(f, Len(img.body)) = img.body

\* The region holds a whole application: the one last verified, or a valid
\* staged image whose copy is complete.
Complete(f) ==
    \/ AppRegion(f) = installed
    \/ ImageValid(stage) /\ Holds(f, stage)

Runnable == step = "app" /\ Complete(flash)

Fault == faults < MaxFaults /\ faults' = faults + 1

-------------------------------------------------------------------------------
(* Initial states: a complete application runs, nothing was requested *)

Init ==
    /\ installed \in {Installed(img) : img \in {i \in Images : ImageValid(i)}}
    /\ flash = [a \in BankAddrs |-> IF a \in AppAddrs THEN installed[a] ELSE Erased]
    /\ stage \in Images
    /\ mbx = [sig |-> FALSE, flags |-> {}, bootCounter |-> 0]
    /\ step = "main"
    /\ sector = AppStartSector
    /\ done = 0
    /\ faults = 0

-------------------------------------------------------------------------------
(* main() and handleOtaUpdate() *)

\* No update was requested: go on to the vector table check.
NoRequest ==
    /\ step = "main" /\ ~Requested
    /\ step' = "vector"
    /\ UNCHANGED <<flash, stage, mbx, sector, done, installed, faults>>

\* The image in bank 2 does not validate: return before anything is erased.
RejectImage ==
    /\ step = "main" /\ Requested /\ ~ImageValid(stage)
    /\ step' = "failed"
    /\ UNCHANGED <<flash, stage, mbx, sector, done, installed, faults>>

\* Mutant: the request is cleared as soon as it is accepted.
AcceptImageClearing ==
    /\ step = "main" /\ Requested /\ ImageValid(stage)
    /\ step' = "erase"
    /\ sector' = AppStartSector
    /\ mbx' = [mbx EXCEPT !.flags = @ \ {"UPDATE_REQ"}]
    /\ UNCHANGED <<flash, stage, done, installed, faults>>

\* Mutant: the payload CRC is left to the check of the copy.
AcceptImageUnchecked ==
    /\ step = "main" /\ Requested
    /\ stage.hdrOk /\ Len(stage.body) \in 1 .. AppSize /\ stage.imgType = AppImage
    /\ step' = "erase"
    /\ sector' = AppStartSector
    /\ UNCHANGED <<flash, stage, mbx, done, installed, faults>>

\* The image validates: HAL_FLASHEx_Erase starts at the first application sector.
AcceptImage ==
    /\ step = "main" /\ Requested /\ ImageValid(stage)
    /\ step' = "erase"
    /\ sector' = AppStartSector
    /\ UNCHANGED <<flash, stage, mbx, done, installed, faults>>

\* Mutant: the number of sectors is taken for the end of the region.
EraseSectorShort ==
    /\ step = "erase"
    /\ flash' = Fill(SectorAddrs(sector), Erased)
    /\ sector' = sector + 1
    /\ done' = 0
    /\ step' = IF sector + 1 = AppNumSectors THEN "copy" ELSE "erase"
    /\ UNCHANGED <<stage, mbx, installed, faults>>

\* HAL_FLASHEx_Erase erases one sector after the other, in ascending order.
EraseSector ==
    /\ step = "erase"
    /\ flash' = Fill(SectorAddrs(sector), Erased)
    /\ sector' = sector + 1
    /\ done' = 0
    /\ step' = IF sector + 1 = AppStartSector + AppNumSectors THEN "copy" ELSE "erase"
    /\ UNCHANGED <<stage, mbx, installed, faults>>

\* A sector fails to erase: lock the flash and return, whatever is erased by now.
EraseError ==
    /\ step = "erase" /\ FlashErrors /\ Fault
    /\ \/ UNCHANGED flash
       \/ flash' = Fill(SectorAddrs(sector), Junk)
    /\ step' = "failed"
    /\ UNCHANGED <<stage, mbx, sector, done, installed>>

\* Bank 1 with the next chunk of the payload programmed, padded with 0xFF.
Programmed ==
    [a \in BankAddrs |->
        IF a \in QuadAddrs(done) THEN PayloadByte(stage, a) ELSE flash[a]]

\* Mutant: the loop stops when less than a quad-word remains.
NextChunkWhole ==
    /\ done' = done + 1
    /\ step' = IF (done + 2) * QuadWord > Len(stage.body) THEN "verify" ELSE "copy"

\* The copy loop runs until no byte of the payload remains.
NextChunk ==
    /\ done' = done + 1
    /\ step' = IF (done + 1) * QuadWord >= Len(stage.body) THEN "verify" ELSE "copy"

\* One iteration of the copy loop: HAL_FLASH_Program returns HAL_OK.
ProgramChunk ==
    /\ step = "copy"
    /\ flash' = Programmed
    /\ NextChunk
    /\ UNCHANGED <<stage, mbx, sector, installed, faults>>

\* HAL_FLASH_Program returns HAL_OK but some bytes read back differently.
ProgramCorrupt ==
    /\ step = "copy" /\ FlashErrors /\ Fault
    /\ \E bad \in SUBSET QuadAddrs(done) :
           /\ bad # {}
           /\ flash' = [a \in BankAddrs |-> IF a \in bad THEN Junk ELSE Programmed[a]]
    /\ NextChunk
    /\ UNCHANGED <<stage, mbx, sector, installed>>

\* HAL_FLASH_Program fails: lock the flash and return in the middle of the copy.
ProgramError ==
    /\ step = "copy" /\ FlashErrors /\ Fault
    /\ \/ UNCHANGED flash
       \/ flash' = Fill(QuadAddrs(done), Junk)
    /\ step' = "failed"
    /\ UNCHANGED <<stage, mbx, sector, done, installed>>

\* The CRC of the copy is compared with the one stored behind the payload.
CopyMatches == Crc(CopiedBytes(flash, Len(stage.body))) = stage.crc

\* Mutant: the copy is not verified.
VerifySkipped ==
    /\ step = "verify"
    /\ step' = "succeeded"
    /\ installed' = AppRegion(flash)
    /\ UNCHANGED <<flash, stage, mbx, sector, done, faults>>

VerifyOk ==
    /\ step = "verify" /\ CopyMatches
    /\ step' = "succeeded"
    /\ installed' = AppRegion(flash)
    /\ UNCHANGED <<flash, stage, mbx, sector, done, faults>>

VerifyFail ==
    /\ step = "verify" /\ ~CopyMatches
    /\ step' = "failed"
    /\ UNCHANGED <<flash, stage, mbx, sector, done, installed, faults>>

\* Mutant: the failure branch leaves the request set.
ClearFailedKeeping ==
    /\ step = "failed"
    /\ step' = "vector"
    /\ UNCHANGED <<flash, stage, mbx, sector, done, installed, faults>>

\* The failure branch of main(): only the request is cleared.
ClearFailed ==
    /\ step = "failed"
    /\ mbx' = [mbx EXCEPT !.flags = @ \ {"UPDATE_REQ"}]
    /\ step' = "vector"
    /\ UNCHANGED <<flash, stage, sector, done, installed, faults>>

\* The success branch of main(): four writes to the mailbox, one by one.
ClearRequest ==
    /\ step = "succeeded"
    /\ mbx' = [mbx EXCEPT !.flags = @ \ {"UPDATE_REQ"}]
    /\ step' = "markOk"
    /\ UNCHANGED <<flash, stage, sector, done, installed, faults>>

MarkOk ==
    /\ step = "markOk"
    /\ mbx' = [mbx EXCEPT !.flags = @ \cup {"UPDATE_OK"}]
    /\ step' = "unconfirm"
    /\ UNCHANGED <<flash, stage, sector, done, installed, faults>>

Unconfirm ==
    /\ step = "unconfirm"
    /\ mbx' = [mbx EXCEPT !.flags = @ \ {"CONFIRMED"}]
    /\ step' = "count"
    /\ UNCHANGED <<flash, stage, sector, done, installed, faults>>

\* Mutant: the counter is not a 32-bit one.
CountBootUnbounded ==
    /\ step = "count"
    /\ mbx' = [mbx EXCEPT !.bootCounter = @ + 1]
    /\ step' = "vector"
    /\ UNCHANGED <<flash, stage, sector, done, installed, faults>>

CountBoot ==
    /\ step = "count"
    /\ mbx' = [mbx EXCEPT !.bootCounter = (@ + 1) % CounterSize]
    /\ step' = "vector"
    /\ UNCHANGED <<flash, stage, sector, done, installed, faults>>

\* The vector table passes the check: jumpToApp() hands over for good.
JumpToApp ==
    /\ step = "vector" /\ VectorOk
    /\ step' = "app"
    /\ installed' = IF Complete(flash) THEN AppRegion(flash) ELSE installed
    /\ UNCHANGED <<flash, stage, mbx, sector, done, faults>>

\* No valid vector table: blink for ever.
NoValidApp ==
    /\ step = "vector" /\ ~VectorOk
    /\ step' = "halt"
    /\ UNCHANGED <<flash, stage, mbx, sector, done, installed, faults>>

-------------------------------------------------------------------------------
(* The application: the environment of the bootloader *)

\* The application downloads an image into bank 2, whole or damaged.
StageImage ==
    /\ Runnable /\ ~Requested
    /\ stage' \in Images
    /\ UNCHANGED <<flash, mbx, boot, installed, faults>>

\* The application requests the update, on a mailbox it initialises if needed.
RequestUpdate ==
    /\ Runnable /\ ~Requested
    /\ mbx' = IF mbx.sig
              THEN [mbx EXCEPT !.flags = @ \cup {"UPDATE_REQ"}]
              ELSE [sig |-> TRUE, flags |-> {"UPDATE_REQ"}, bootCounter |-> 0]
    /\ UNCHANGED <<flash, stage, boot, installed, faults>>

\* The application finds itself working and confirms.
Confirm ==
    /\ Runnable /\ mbx.sig /\ "CONFIRMED" \notin mbx.flags
    /\ mbx' = [mbx EXCEPT !.flags = @ \cup {"CONFIRMED"}]
    /\ UNCHANGED <<flash, stage, boot, installed, faults>>

\* The application resets the device, as it does to start an update.
AppReset ==
    /\ Runnable
    /\ step' = "main"
    /\ sector' = AppStartSector
    /\ done' = 0
    /\ UNCHANGED <<flash, stage, mbx, installed, faults>>

-------------------------------------------------------------------------------
(* Resets and power losses at any moment *)

\* The flash operation under way is not started, or leaves garbage behind.
Torn ==
    \/ UNCHANGED flash
    \/ step = "erase" /\ flash' = Fill(SectorAddrs(sector), Junk)
    \/ step = "copy" /\ flash' = Fill(QuadAddrs(done), Junk)

Restart ==
    /\ step # "main"
    /\ Fault
    /\ Torn
    /\ step' = "main"
    /\ sector' = AppStartSector
    /\ done' = 0
    /\ UNCHANGED <<stage, installed>>

\* The mailbox is not initialised by the startup code and survives a reset ...
WarmReset == Restart /\ UNCHANGED mbx

\* ... but holds anything, its old content included, after a power loss.
PowerLoss == PowerLosses /\ Restart /\ mbx' \in Mailbox

-------------------------------------------------------------------------------
(* Specification *)

Update   == AcceptImage \/ EraseSector \/ ProgramChunk \/ VerifyOk
Outcome  == ClearFailed \/ ClearRequest \/ MarkOk \/ Unconfirm \/ CountBoot
Boot     == NoRequest \/ RejectImage \/ Update \/ VerifyFail \/ Outcome
                \/ JumpToApp \/ NoValidApp
App      == StageImage \/ RequestUpdate \/ Confirm \/ AppReset
Failures == EraseError \/ ProgramCorrupt \/ ProgramError \/ WarmReset \/ PowerLoss

Next == Boot \/ App \/ Failures

\* The bootloader is the only thread of the processor and never waits: it
\* goes on as long as nothing resets it.
Spec == Init /\ [][Next]_vars /\ WF_vars(Boot)

-------------------------------------------------------------------------------
(* Properties *)

\* The bootloader's own sectors and the configuration sector behind the
\* application region are never erased or programmed, whatever is staged and
\* wherever a fault falls (main.c:199-239).
ProtectedSectors ==
    [][\A a \in BankAddrs \ AppAddrs : flash'[a] = flash[a]]_flash

\* Bank 1 changes only while an update is pending whose image in bank 2
\* validates: nothing is erased for an image that is going to be refused, and
\* an interrupted update can always be resumed by a reset (main.c:117-194).
WriteOnlyValidated == [][Requested /\ ImageValid(stage)]_flash

\* Every quad-word is programmed into erased flash: the sectors erased cover
\* what the copy loop programs, padding included (main.c:202-239).
ProgramOnlyErased ==
    step = "copy" => \A a \in QuadAddrs(done) : a \in AppAddrs /\ flash[a] = Erased

\* When the update is declared a success the application region holds every
\* byte of the staged payload, although flash operations may have gone wrong
\* without an error (main.c:245-251).
SuccessIsInstalled == step = "succeeded" => Holds(flash, stage)

\* An application region that is not a complete application is always
\* covered by a pending request for a valid image, so that the next boot
\* installs it: no reset loses the device (main.c:117-134).
DamageIsPending == Complete(flash) \/ (Requested /\ ImageValid(stage))

\* The application never starts with its update request still set: a bad
\* image cannot trap the device in a loop of updates (main.c:125-134).
HandoverClearsRequest == [][step' = "app" /\ step # "app" => ~Requested]_step

\* Without flash errors and power losses, a requested update of a valid image
\* is installed, even when resets interrupt it (main.c:117-134).
UpdateIsInstalled ==
    (step = "main" /\ Requested /\ ImageValid(stage)) ~> Holds(flash, stage)

\* The comment at main.c:132 on the failure branch: "keep existing app".
FailureKeepsApp == step = "failed" => AppRegion(flash) = installed

\* The boot path implements the slot update: the region is the slot, the
\* staged image the target, and the request of a valid or invalid image is
\* what is pending (main.c:100-253).
PendingUpdate ==
    IF ~Requested THEN "none" ELSE IF ImageValid(stage) THEN "valid" ELSE "bad"

Slot == INSTANCE SlotUpdate WITH
    slot     <- AppRegion(flash),
    target   <- Installed(stage),
    pending  <- PendingUpdate,
    Region   <- Region,
    Reliable <- ~FlashErrors /\ ~PowerLosses

ImplementsSlotUpdate == Slot!Spec
===============================================================================

---------------------------- MODULE OtaBootProofs ----------------------------
(***************************************************************************)
(* Theorems about OtaBoot, for every geometry of the flash, every set of   *)
(* images, every checksum function and any number of faults.               *)
(***************************************************************************)
EXTENDS OtaBoot, TLAPS

\* The sizes are natural numbers and the application region is in the bank.
LEMMA Sizes ==
    /\ SectorSize \in Nat /\ SectorSize >= QuadWord
    /\ AppAddr \in Nat /\ AppSize \in Nat /\ BankSize \in Nat
    /\ AppSize >= QuadWord /\ QuadWord \in Nat /\ QuadWord >= 2
    /\ AppAddr + AppSize <= BankSize
    /\ AppAddrs \subseteq BankAddrs
<1>1. SectorSize \in Nat /\ SectorSize >= QuadWord
  BY GeometryAssumption DEF SectorSize
<1>2. AppAddr \in Nat /\ AppSize \in Nat /\ BankSize \in Nat
  BY <1>1, GeometryAssumption DEF AppAddr, AppSize, BankSize
<1>3. AppSize >= SectorSize
  BY <1>1, GeometryAssumption DEF AppSize
<1>4. AppAddr + AppSize <= BankSize
  <2>1. AppAddr + AppSize = (AppStartSector + AppNumSectors) * SectorSize
    BY <1>1, GeometryAssumption DEF AppAddr, AppSize
  <2>2. QED
    BY <1>1, <2>1, GeometryAssumption DEF BankSize
<1>5. QED
  BY <1>1, <1>2, <1>3, <1>4, GeometryAssumption DEF AppAddrs, BankAddrs

\* A sector that HAL_FLASHEx_Erase is told to erase is one of the application.
LEMMA SectorInside ==
    ASSUME NEW s \in AppStartSector .. AppStartSector + AppNumSectors - 1
    PROVE  SectorAddrs(s) \subseteq AppAddrs
<1>1. s * SectorSize >= AppAddr
  BY Sizes, GeometryAssumption DEF AppAddr
<1>2. (s + 1) * SectorSize <= AppAddr + AppSize
  <2>1. AppAddr + AppSize = (AppStartSector + AppNumSectors) * SectorSize
    BY Sizes, GeometryAssumption DEF AppAddr, AppSize
  <2>2. s + 1 <= AppStartSector + AppNumSectors
    BY GeometryAssumption
  <2>3. QED
    BY <2>1, <2>2, Sizes, GeometryAssumption
<1>3. s * SectorSize \in Int /\ (s + 1) * SectorSize \in Int
  BY Sizes, GeometryAssumption
<1>4. QED
  BY <1>1, <1>2, <1>3, Sizes DEF SectorAddrs, AppAddrs

\* A quad-word the copy loop starts before the end of a payload that fits is
\* inside the application region, its padding included.
LEMMA QuadInside ==
    ASSUME NEW k \in Nat, NEW n \in Nat, n <= AppSize, k * QuadWord < n
    PROVE  QuadAddrs(k) \subseteq AppAddrs
<1> DEFINE quads == AppNumSectors * QuadsPerSector
<1>1. quads \in Nat
  BY GeometryAssumption
<1>2. AppSize = quads * QuadWord
  BY GeometryAssumption DEF AppSize, SectorSize
<1>3. k < quads
  <2>1. SUFFICES ASSUME k >= quads PROVE FALSE
    BY <1>1
  <2>2. k * QuadWord >= quads * QuadWord
    BY <2>1, <1>1, Sizes
  <2> HIDE DEF quads
  <2>3. k * QuadWord \in Int /\ quads * QuadWord \in Int
    BY <1>1, Sizes
  <2>4. QED
    BY <2>2, <2>3, <1>2
<1> HIDE DEF quads
<1>4. (k + 1) * QuadWord <= quads * QuadWord
  BY <1>1, <1>3, Sizes
<1>5. k * QuadWord \in Nat /\ (k + 1) * QuadWord \in Int
  BY Sizes
<1>6. QED
  BY <1>2, <1>4, <1>5, Sizes DEF QuadAddrs, AppAddrs
-------------------------------------------------------------------------------
(* Types *)

LEMMA FillType ==
    ASSUME TypeOK, NEW addrs, NEW b \in Byte
    PROVE  Fill(addrs, b) \in [BankAddrs -> Byte]
BY DEF TypeOK, Fill

LEMMA PayloadByteType ==
    ASSUME NEW img \in Images, NEW a \in Int, a >= AppAddr
    PROVE  PayloadByte(img, a) \in Byte
<1>2. img.body \in Seq(Byte)
  BY ImageAssumption
<1>3. CASE a - AppAddr < Len(img.body)
  <2>1. a - AppAddr + 1 \in 1 .. Len(img.body)
    BY <1>2, <1>3, Sizes
  <2>2. QED
    BY <2>1, <1>2, <1>3 DEF PayloadByte
<1>4. CASE ~(a - AppAddr < Len(img.body))
  BY <1>4, ByteAssumption DEF PayloadByte
<1>5. QED
  BY <1>3, <1>4

LEMMA RegionType ==
    ASSUME TypeOK
    PROVE  AppRegion(flash) \in Region
BY Sizes DEF TypeOK, AppRegion, Region

LEMMA MailboxTypes ==
    ASSUME NEW m \in Mailbox, NEW fl \in SUBSET Flags
    PROVE  /\ [m EXCEPT !.flags = @ \ fl] \in Mailbox
           /\ [m EXCEPT !.flags = @ \cup fl] \in Mailbox
           /\ [m EXCEPT !.bootCounter = (@ + 1) % CounterSize] \in Mailbox
           /\ [sig |-> TRUE, flags |-> {"UPDATE_REQ"}, bootCounter |-> 0] \in Mailbox
BY BoundAssumption DEF Mailbox, Flags

LEMMA ProgrammedType ==
    ASSUME TypeOK
    PROVE  Programmed \in [BankAddrs -> Byte]
<1>1. ASSUME NEW a \in QuadAddrs(done)
      PROVE  a \in Int /\ a >= AppAddr
  <2>1. done * QuadWord \in Nat
    BY Sizes DEF TypeOK
  <2>2. QED
    BY <1>1, <2>1, Sizes DEF QuadAddrs
<1>2. QED
  BY <1>1, PayloadByteType DEF TypeOK, Programmed

\* Type correctness: every value stays in its type, the 32-bit boot counter
\* in particular (main.c:44-53, 130).
THEOREM TypeCorrect == Spec => []TypeOK
<1>1. Init => TypeOK
  <2> SUFFICES ASSUME Init PROVE TypeOK
    OBVIOUS
  <2>1. installed \in Region
    <3>1. PICK img \in Images : installed = Installed(img)
      BY DEF Init
    <3>2. \A a \in AppAddrs : a \in Int /\ a >= AppAddr
      BY Sizes DEF AppAddrs
    <3>3. QED
      BY <3>1, <3>2, PayloadByteType DEF Installed, Region
  <2>2. flash \in [BankAddrs -> Byte]
    BY <2>1, ByteAssumption DEF Init, Region
  <2>3. mbx \in Mailbox
    BY BoundAssumption DEF Init, Mailbox
  <2>4. sector \in Nat /\ done \in Nat
    BY GeometryAssumption DEF Init
  <2>5. faults \in 0 .. MaxFaults
    BY BoundAssumption DEF Init
  <2>6. QED
    BY <2>1, <2>2, <2>3, <2>4, <2>5 DEF Init, TypeOK, Steps
<1>2. TypeOK /\ [Next]_vars => TypeOK'
  <2> SUFFICES ASSUME TypeOK, [Next]_vars PROVE TypeOK'
    OBVIOUS
  <2> USE DEF TypeOK, Steps, boot
  <2>0. Junk \in Byte /\ Erased \in Byte
    BY ByteAssumption
  <2>1. CASE NoRequest
    BY <2>1 DEF NoRequest
  <2>2. CASE RejectImage
    BY <2>2 DEF RejectImage
  <2>3. CASE AcceptImage
    BY <2>3, GeometryAssumption DEF AcceptImage
  <2>4. CASE EraseSector
    BY <2>4, <2>0, FillType DEF EraseSector
  <2>5. CASE EraseError
    BY <2>5, <2>0, FillType, BoundAssumption DEF EraseError, Fault
  <2>6. CASE ProgramChunk
    BY <2>6, ProgrammedType DEF ProgramChunk, NextChunk
  <2>7. CASE ProgramCorrupt
    <3>1. flash' \in [BankAddrs -> Byte]
      BY <2>7, <2>0, ProgrammedType DEF ProgramCorrupt
    <3>2. QED
      BY <2>7, <3>1, BoundAssumption DEF ProgramCorrupt, NextChunk, Fault
  <2>8. CASE ProgramError
    BY <2>8, <2>0, FillType, BoundAssumption DEF ProgramError, Fault
  <2>9. CASE VerifyOk
    BY <2>9, RegionType, BoundAssumption DEF VerifyOk
  <2>10. CASE VerifyFail
    BY <2>10 DEF VerifyFail
  <2>11. CASE ClearFailed
    BY <2>11, MailboxTypes DEF ClearFailed, Flags
  <2>12. CASE ClearRequest
    BY <2>12, MailboxTypes DEF ClearRequest, Flags
  <2>13. CASE MarkOk
    BY <2>13, MailboxTypes DEF MarkOk, Flags
  <2>14. CASE Unconfirm
    BY <2>14, MailboxTypes DEF Unconfirm, Flags
  <2>15. CASE CountBoot
    BY <2>15, MailboxTypes DEF CountBoot
  <2>16. CASE JumpToApp
    BY <2>16, RegionType, BoundAssumption DEF JumpToApp
  <2>17. CASE NoValidApp
    BY <2>17 DEF NoValidApp
  <2>18. CASE StageImage
    BY <2>18 DEF StageImage
  <2>19. CASE RequestUpdate
    BY <2>19, MailboxTypes DEF RequestUpdate, Flags
  <2>20. CASE Confirm
    BY <2>20, MailboxTypes DEF Confirm, Flags
  <2>21. CASE AppReset
    BY <2>21, GeometryAssumption DEF AppReset
  <2>22. CASE WarmReset \/ PowerLoss
    <3>1. flash' \in [BankAddrs -> Byte]
      BY <2>22, <2>0, FillType DEF WarmReset, PowerLoss, Restart, Torn
    <3>2. mbx' \in Mailbox
      BY <2>22 DEF WarmReset, PowerLoss
    <3>3. QED
      BY <2>22, <3>1, <3>2, GeometryAssumption, BoundAssumption
      DEF WarmReset, PowerLoss, Restart, Fault
  <2>23. CASE UNCHANGED vars
    BY <2>23 DEF vars
  <2>24. QED
    BY <2>1, <2>2, <2>3, <2>4, <2>5, <2>6, <2>7, <2>8, <2>9, <2>10, <2>11,
       <2>12, <2>13, <2>14, <2>15, <2>16, <2>17, <2>18, <2>19, <2>20, <2>21,
       <2>22, <2>23
    DEF Next, Boot, Update, Outcome, App, Failures
<1>3. QED
  BY <1>1, <1>2, PTL DEF Spec

-------------------------------------------------------------------------------
(* The inductive invariant *)

\* An update is under way only for a request that is pending and an image
\* that validates; the sectors below the one to be erased next, and during
\* the copy everything from the next quad-word on, are erased.
Updating == step \in {"erase", "copy", "verify", "succeeded"}

PendingInv == Updating => Requested /\ ImageValid(stage)

SectorInv ==
    step = "erase" =>
        /\ sector \in AppStartSector .. AppStartSector + AppNumSectors - 1
        /\ \A a \in AppAddrs : a < sector * SectorSize => flash[a] = Erased

CopyInv ==
    step = "copy" =>
        /\ done * QuadWord < Len(stage.body)
        /\ \A a \in AppAddrs : a >= AppAddr + done * QuadWord => flash[a] = Erased

\* Once the result of an update is recorded, or none was asked for, no request
\* is left.
HandoverInv ==
    step \in {"markOk", "unconfirm", "count", "vector"} => ~Requested

Inv == TypeOK /\ PendingInv /\ SectorInv /\ CopyInv /\ HandoverInv

\* Facts about the payload of an image that validates.
LEMMA PayloadFits ==
    ASSUME TypeOK, ImageValid(stage)
    PROVE  Len(stage.body) \in Nat \ {0} /\ Len(stage.body) <= AppSize
<1>1. stage.body \in Seq(Byte)
  BY ImageAssumption DEF TypeOK
<1>2. QED
  BY <1>1 DEF ImageValid

\* What the copy loop writes next is inside the application region.
LEMMA NextQuadInside ==
    ASSUME Inv, step = "copy"
    PROVE  QuadAddrs(done) \subseteq AppAddrs
<1>1. done \in Nat /\ done * QuadWord < Len(stage.body)
  BY DEF Inv, TypeOK, CopyInv
<1>2. Len(stage.body) \in Nat /\ Len(stage.body) <= AppSize
  BY PayloadFits DEF Inv, PendingInv, Updating
<1>3. QED
  BY <1>1, <1>2, QuadInside

\* A step that is not followed by another step of the update keeps the
\* invariant if it leaves no request behind.
LEMMA QuietStep ==
    ASSUME Inv, TypeOK', step' \notin {"erase", "copy", "verify", "succeeded"},
           HandoverInv'
    PROVE  Inv'
BY DEF Inv, PendingInv, SectorInv, CopyInv, Updating

LEMMA AcceptStep ==
    ASSUME Inv, TypeOK', AcceptImage
    PROVE  Inv'
<1>1. PendingInv'
  BY DEF AcceptImage, PendingInv, Requested, ImageValid
<1>2. SectorInv'
  <2>1. sector' = AppStartSector /\ flash' = flash
    BY DEF AcceptImage
  <2>2. \A a \in AppAddrs : ~(a < AppStartSector * SectorSize)
    BY Sizes DEF AppAddrs, AppAddr
  <2>3. QED
    BY <2>1, <2>2, GeometryAssumption DEF SectorInv
<1>3. CopyInv'
  BY DEF AcceptImage, CopyInv
<1>4. HandoverInv'
  BY DEF AcceptImage, HandoverInv
<1>5. QED
  BY <1>1, <1>2, <1>3, <1>4 DEF Inv

LEMMA EraseStep ==
    ASSUME Inv, TypeOK', EraseSector
    PROVE  Inv'
<1>1. sector \in AppStartSector .. AppStartSector + AppNumSectors - 1
  BY DEF Inv, SectorInv, EraseSector
<1>2. sector * SectorSize \in Int /\ (sector + 1) * SectorSize \in Int
  BY <1>1, Sizes, GeometryAssumption
<1>3. \A a \in AppAddrs : a < (sector + 1) * SectorSize => flash'[a] = Erased
  <2> SUFFICES ASSUME NEW a \in AppAddrs, a < (sector + 1) * SectorSize
               PROVE  flash'[a] = Erased
    OBVIOUS
  <2>1. a \in BankAddrs /\ a \in Int
    BY Sizes DEF AppAddrs
  <2>2. flash'[a] = IF a \in SectorAddrs(sector) THEN Erased ELSE flash[a]
    BY <2>1 DEF EraseSector, Fill
  <2>3. CASE a < sector * SectorSize
    BY <2>2, <2>3 DEF Inv, SectorInv, EraseSector
  <2>4. CASE ~(a < sector * SectorSize)
    BY <2>1, <2>2, <2>4, <1>2 DEF SectorAddrs
  <2>5. QED
    BY <2>3, <2>4
<1>4. PendingInv'
  BY DEF Inv, PendingInv, Updating, EraseSector, Requested, ImageValid
<1>5. SectorInv'
  BY <1>1, <1>3, GeometryAssumption DEF SectorInv, EraseSector
<1>6. CopyInv'
  <2> SUFFICES ASSUME step' = "copy" PROVE CopyInv'
    BY DEF CopyInv
  <2>1. sector + 1 = AppStartSector + AppNumSectors
    BY DEF EraseSector
  <2>2. (sector + 1) * SectorSize = AppAddr + AppSize
    BY <2>1, Sizes, GeometryAssumption DEF AppAddr, AppSize
  <2>3. \A a \in AppAddrs : flash'[a] = Erased
    BY <1>3, <2>2, Sizes DEF AppAddrs
  <2>4. done' = 0 /\ stage' = stage
    BY DEF EraseSector
  <2>5. done' * QuadWord < Len(stage'.body)
    BY <2>4, PayloadFits, Sizes DEF Inv, PendingInv, Updating, EraseSector
  <2>6. QED
    BY <2>3, <2>5 DEF CopyInv
<1>7. HandoverInv'
  BY DEF EraseSector, HandoverInv
<1>8. QED
  BY <1>4, <1>5, <1>6, <1>7 DEF Inv

\* One iteration of the copy loop, whatever ends up in the quad-word.
LEMMA CopyStep ==
    ASSUME Inv, TypeOK', step = "copy", NextChunk, UNCHANGED <<stage, mbx, sector>>,
           \A a \in BankAddrs \ QuadAddrs(done) : flash'[a] = flash[a]
    PROVE  Inv'
<1>1. done \in Nat /\ done * QuadWord \in Nat /\ (done + 1) * QuadWord \in Nat
  BY Sizes DEF Inv, TypeOK
<1>2. step' \in {"copy", "verify"} /\ done' = done + 1
  BY DEF NextChunk
<1>3. PendingInv'
  BY <1>2 DEF Inv, PendingInv, Updating, Requested, ImageValid
<1>4. SectorInv' /\ HandoverInv'
  BY <1>2 DEF SectorInv, HandoverInv
<1>5. CopyInv'
  <2> SUFFICES ASSUME step' = "copy" PROVE CopyInv'
    BY DEF CopyInv
  <2>1. Len(stage.body) \in Nat
    BY PayloadFits DEF Inv, PendingInv, Updating
  <2>2. (done + 1) * QuadWord < Len(stage.body)
    BY <1>1, <2>1 DEF NextChunk
  <2>3. ASSUME NEW a \in AppAddrs, a >= AppAddr + (done + 1) * QuadWord
        PROVE  flash'[a] = Erased
    <3>1. a \in BankAddrs /\ a \in Int
      BY Sizes DEF AppAddrs
    <3>2. a \notin QuadAddrs(done)
      BY <1>1, <2>3, <3>1, Sizes DEF QuadAddrs
    <3>3. a >= AppAddr + done * QuadWord
      <4>1. (done + 1) * QuadWord >= done * QuadWord
        BY <1>1, Sizes
      <4>2. QED
        BY <4>1, <1>1, <2>3, <3>1, Sizes
    <3>4. QED
      BY <3>1, <3>2, <3>3 DEF Inv, CopyInv
  <2>4. QED
    BY <1>2, <2>2, <2>3 DEF CopyInv
<1>6. QED
  BY <1>3, <1>4, <1>5 DEF Inv

LEMMA InvStep == Inv /\ TypeOK' /\ [Next]_vars => Inv'
<1> SUFFICES ASSUME Inv, TypeOK', [Next]_vars PROVE Inv'
  OBVIOUS
<1>1. CASE NoRequest \/ RejectImage \/ EraseError \/ ProgramError \/ VerifyFail
  BY <1>1, QuietStep
  DEF NoRequest, RejectImage, EraseError, ProgramError, VerifyFail, HandoverInv, Requested
<1>2. CASE AcceptImage
  BY <1>2, AcceptStep
<1>3. CASE EraseSector
  BY <1>3, EraseStep
<1>4. CASE ProgramChunk \/ ProgramCorrupt
  <2>1. \A a \in BankAddrs \ QuadAddrs(done) : flash'[a] = flash[a]
    BY <1>4 DEF ProgramChunk, ProgramCorrupt, Programmed
  <2>2. QED
    BY <1>4, <2>1, CopyStep DEF ProgramChunk, ProgramCorrupt
<1>5. CASE VerifyOk
  BY <1>5 DEF VerifyOk, Inv, PendingInv, SectorInv, CopyInv, HandoverInv, Updating,
     Requested, ImageValid
<1>6. CASE ClearFailed \/ ClearRequest
  BY <1>6, QuietStep
  DEF ClearFailed, ClearRequest, HandoverInv, Requested, Inv, TypeOK, Mailbox
<1>7. CASE MarkOk \/ Unconfirm \/ CountBoot
  BY <1>7, QuietStep
  DEF MarkOk, Unconfirm, CountBoot, HandoverInv, Requested, Inv, TypeOK, Mailbox
<1>8. CASE JumpToApp \/ NoValidApp \/ AppReset \/ WarmReset \/ PowerLoss
  BY <1>8, QuietStep
  DEF JumpToApp, NoValidApp, AppReset, WarmReset, PowerLoss, Restart, HandoverInv
<1>9. CASE StageImage \/ RequestUpdate \/ Confirm
  BY <1>9, QuietStep
  DEF StageImage, RequestUpdate, Confirm, Runnable, boot, HandoverInv
<1>10. CASE UNCHANGED vars
  BY <1>10
  DEF vars, Inv, PendingInv, SectorInv, CopyInv, HandoverInv, Updating, Requested,
      ImageValid
<1>11. QED
  BY <1>1, <1>2, <1>3, <1>4, <1>5, <1>6, <1>7, <1>8, <1>9, <1>10
  DEF Next, Boot, Update, Outcome, App, Failures

THEOREM Invariance == Spec => []Inv
<1>1. Init /\ TypeOK => Inv
  BY DEF Init, Inv, PendingInv, SectorInv, CopyInv, HandoverInv, Updating
<1>2. QED
  BY <1>1, InvStep, TypeCorrect, PTL DEF Spec

-------------------------------------------------------------------------------
(* Theorems *)

\* What bank 1 changes to in one step: a sector or a quad-word of the
\* application region, and only for a request that can be fulfilled.
LEMMA WhereFlashChanges ==
    ASSUME Inv, [Next]_vars, flash' # flash
    PROVE  /\ Requested /\ ImageValid(stage)
           /\ \A a \in BankAddrs \ AppAddrs : flash'[a] = flash[a]
<1>1. \/ EraseSector \/ EraseError \/ ProgramChunk \/ ProgramCorrupt \/ ProgramError
      \/ WarmReset \/ PowerLoss
  BY DEF Next, Boot, Update, Outcome, App, Failures, NoRequest, RejectImage,
     AcceptImage, VerifyOk, VerifyFail, ClearFailed, ClearRequest, MarkOk, Unconfirm,
     CountBoot, JumpToApp, NoValidApp, StageImage, RequestUpdate, Confirm, AppReset, vars
<1>2. \/ /\ step = "erase"
         /\ \A a \in BankAddrs \ SectorAddrs(sector) : flash'[a] = flash[a]
      \/ /\ step = "copy"
         /\ \A a \in BankAddrs \ QuadAddrs(done) : flash'[a] = flash[a]
  BY <1>1
  DEF EraseSector, EraseError, ProgramChunk, ProgramCorrupt, ProgramError, WarmReset,
      PowerLoss, Restart, Torn, Fill, Programmed
<1>3. Requested /\ ImageValid(stage)
  BY <1>2 DEF Inv, PendingInv, Updating
<1>4. step = "erase" => SectorAddrs(sector) \subseteq AppAddrs
  BY SectorInside DEF Inv, SectorInv
<1>5. step = "copy" => QuadAddrs(done) \subseteq AppAddrs
  BY NextQuadInside
<1>6. QED
  BY <1>2, <1>3, <1>4, <1>5

\* The bootloader's sectors and the configuration sector are never touched,
\* for any geometry, any payload and any faults (main.c:199-239).
THEOREM ProtectedSectorsHolds == Spec => ProtectedSectors
<1>1. Inv /\ [Next]_vars => [\A a \in BankAddrs \ AppAddrs : flash'[a] = flash[a]]_flash
  BY WhereFlashChanges
<1>2. QED
  BY <1>1, Invariance, PTL DEF Spec, ProtectedSectors

\* Bank 1 changes only while the request is pending and bank 2 holds an image
\* that validates (main.c:117-194).
THEOREM WriteOnlyValidatedHolds == Spec => WriteOnlyValidated
<1>1. Inv /\ [Next]_vars => [Requested /\ ImageValid(stage)]_flash
  BY WhereFlashChanges
<1>2. QED
  BY <1>1, Invariance, PTL DEF Spec, WriteOnlyValidated

\* Every quad-word is programmed inside the application region and into
\* erased flash (main.c:202-239).
THEOREM ProgramOnlyErasedHolds == Spec => []ProgramOnlyErased
<1>1. Inv => ProgramOnlyErased
  <2> SUFFICES ASSUME Inv, step = "copy", NEW a \in QuadAddrs(done)
               PROVE  a \in AppAddrs /\ flash[a] = Erased
    BY DEF ProgramOnlyErased
  <2>1. a \in AppAddrs
    BY NextQuadInside
  <2>2. a >= AppAddr + done * QuadWord
    BY DEF QuadAddrs
  <2>3. QED
    BY <2>1, <2>2 DEF Inv, CopyInv
<1>2. QED
  BY <1>1, Invariance, PTL

\* The application never starts with its request still set (main.c:125-134).
THEOREM HandoverClearsRequestHolds == Spec => HandoverClearsRequest
<1>1. Inv /\ [Next]_vars => [step' = "app" /\ step # "app" => ~Requested]_step
  <2> SUFFICES ASSUME Inv, [Next]_vars, step' = "app", step # "app" PROVE ~Requested
    OBVIOUS
  <2>1. step = "vector"
    BY DEF Next, Boot, Update, Outcome, App, Failures, NoRequest, RejectImage,
     AcceptImage, EraseSector, EraseError, ProgramChunk, ProgramCorrupt, ProgramError,
     NextChunk, VerifyOk, VerifyFail, ClearFailed, ClearRequest, MarkOk, Unconfirm,
     CountBoot, JumpToApp, NoValidApp, StageImage, RequestUpdate, Confirm, AppReset,
     WarmReset, PowerLoss, Restart, Runnable, boot, vars
  <2>2. QED
    BY <2>1 DEF Inv, HandoverInv
<1>2. QED
  BY <1>1, Invariance, PTL DEF Spec, HandoverClearsRequest

\* The checksum tells the payload of an image from everything else that could
\* have been copied in its place.
CrcDetects ==
    \A img \in Images : \A s \in [1 .. Len(img.body) -> Byte] :
        Crc(s) = Crc(img.body) => s = img.body

\* With a checksum that detects every difference, an update that succeeds has
\* installed the payload, whatever the flash did (main.c:245-251).
THEOREM SuccessIsInstalledHolds ==
    ASSUME CrcDetects
    PROVE  Spec => []SuccessIsInstalled
<1>1. Init => SuccessIsInstalled
  BY DEF Init, SuccessIsInstalled
<1>2. Inv /\ SuccessIsInstalled /\ [Next]_vars => SuccessIsInstalled'
  <2> SUFFICES ASSUME Inv, SuccessIsInstalled, [Next]_vars, step' = "succeeded"
               PROVE  Holds(flash, stage)'
    BY DEF SuccessIsInstalled
  <2>1. VerifyOk \/ UNCHANGED vars
    BY DEF Next, Boot, Update, Outcome, App, Failures, NoRequest, RejectImage,
     AcceptImage, EraseSector, EraseError, ProgramChunk, ProgramCorrupt, ProgramError,
     NextChunk, VerifyOk, VerifyFail, ClearFailed, ClearRequest, MarkOk, Unconfirm,
     CountBoot, JumpToApp, NoValidApp, StageImage, RequestUpdate, Confirm, AppReset,
     WarmReset, PowerLoss, Restart, Runnable, boot
  <2>2. CASE VerifyOk
    <3> DEFINE n == Len(stage.body)
    <3>1. ImageValid(stage) /\ n \in Nat /\ n <= AppSize
      BY <2>2, PayloadFits DEF VerifyOk, Inv, PendingInv, Updating
    <3>2. \A i \in 1 .. n : AppAddr + i - 1 \in BankAddrs
      BY <3>1, Sizes DEF BankAddrs
    <3>3. CopiedBytes(flash, n) \in [1 .. n -> Byte]
      BY <3>1, <3>2 DEF CopiedBytes, Inv, TypeOK
    <3>4. Crc(CopiedBytes(flash, n)) = Crc(stage.body)
      BY <2>2, <3>1 DEF VerifyOk, CopyMatches, ImageValid
    <3>5. CopiedBytes(flash, n) = stage.body
      BY <3>3, <3>4 DEF CrcDetects, Inv, TypeOK
    <3>6. QED
      BY <2>2, <3>5 DEF VerifyOk, Holds, CopiedBytes
  <2>3. CASE UNCHANGED vars
    BY <2>3 DEF vars, SuccessIsInstalled, Holds, CopiedBytes
  <2>4. QED
    BY <2>1, <2>2, <2>3
<1>3. QED
  BY <1>1, <1>2, Invariance, PTL DEF Spec
===============================================================================

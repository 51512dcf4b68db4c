--------------------------- MODULE OtaBootRecovery ---------------------------
(***************************************************************************)
(* What a device whose flash and power are reliable gets out of any reset: *)
(* the region of the application is complete, or a boot completes it.  And *)
(* for every device: the boot path is an implementation of SlotUpdate.     *)
(***************************************************************************)
EXTENDS OtaBootProofs

Reliable == ~FlashErrors /\ ~PowerLosses

\* What the copy loop has left behind is the payload; when it is through, its
\* padding and the erased rest of the region included.
CopiedInv ==
    /\ step = "copy" =>
          \A a \in AppAddrs :
              a < AppAddr + done * QuadWord => flash[a] = PayloadByte(stage, a)
    /\ step \in {"verify", "succeeded"} => AppRegion(flash) = Installed(stage)

\* Behind the copy, and where the copy was refused, the region is the complete
\* application that installed says it is.
IntactInv ==
    /\ step \in {"succeeded", "markOk", "unconfirm", "count", "app"} =>
          AppRegion(flash) = installed
    /\ step = "failed" =>
          AppRegion(flash) = installed /\ Requested /\ ~ImageValid(stage)

\* DamageIsPending is not inductive: that the failure branch is not taken with a
\* damaged region, and that the success branch is not either, is what the first
\* two parts say.
RecoveryInv == CopiedInv /\ IntactInv /\ DamageIsPending

\* Region and payload, address by address.
LEMMA RegionBytes ==
    ASSUME NEW f \in [BankAddrs -> Byte], NEW img \in Images
    PROVE  AppRegion(f) = Installed(img)
              <=> \A a \in AppAddrs : f[a] = PayloadByte(img, a)
BY DEF AppRegion, Installed

\* main.c:245-251: the check of the copy passes when the copy is right.
LEMMA RightCopyMatches ==
    ASSUME TypeOK, ImageValid(stage), AppRegion(flash) = Installed(stage)
    PROVE  CopyMatches /\ Holds(flash, stage)
<1> DEFINE n == Len(stage.body)
<1>1. stage.body \in Seq(Byte) /\ stage \in Images
  BY ImageAssumption DEF TypeOK
<1>2. n \in Nat /\ n <= AppSize
  BY PayloadFits
<1>3. ASSUME NEW i \in 1 .. n PROVE flash[AppAddr + i - 1] = stage.body[i]
  <2>1. AppAddr + i - 1 \in AppAddrs
    BY <1>2, Sizes DEF AppAddrs
  <2>2. flash[AppAddr + i - 1] = PayloadByte(stage, AppAddr + i - 1)
    BY <1>1, <2>1, RegionBytes DEF TypeOK
  <2>3. (AppAddr + i - 1) - AppAddr < n /\ (AppAddr + i - 1) - AppAddr + 1 = i
    BY <1>2, Sizes
  <2> QED BY <2>2, <2>3 DEF PayloadByte
<1>4. CopiedBytes(flash, n) = [i \in 1 .. n |-> stage.body[i]]
  BY <1>3 DEF CopiedBytes
<1>5. stage.body = [i \in 1 .. n |-> stage.body[i]]
  BY <1>1
<1> QED BY <1>4, <1>5 DEF CopyMatches, Holds, ImageValid

\* main.c:222-239: a quad-word that is programmed right.
LEMMA CopyStepRight ==
    ASSUME Inv, CopiedInv, ProgramChunk
    PROVE  CopiedInv'
<1>1. done \in Nat /\ done * QuadWord \in Nat /\ (done + 1) * QuadWord \in Nat
  BY Sizes DEF Inv, TypeOK
<1>2. (done + 1) * QuadWord = done * QuadWord + QuadWord
  BY <1>1, Sizes
<1>3. Len(stage.body) \in Nat /\ stage \in Images
  BY PayloadFits DEF Inv, PendingInv, Updating, ProgramChunk, TypeOK
<1>4. ASSUME NEW a \in AppAddrs, a < AppAddr + (done + 1) * QuadWord
      PROVE  flash'[a] = PayloadByte(stage, a)
  <2>1. a \in BankAddrs /\ a \in Int
    BY Sizes DEF AppAddrs
  <2>2. flash'[a] = IF a \in QuadAddrs(done) THEN PayloadByte(stage, a) ELSE flash[a]
    BY <2>1 DEF ProgramChunk, Programmed
  <2>3. a < AppAddr + done * QuadWord \/ a \in QuadAddrs(done)
    BY <1>1, <1>4, <2>1, Sizes DEF QuadAddrs
  <2> QED BY <2>2, <2>3 DEF CopiedInv, ProgramChunk
<1>5. CASE step' = "copy"
  BY <1>4, <1>5 DEF ProgramChunk, NextChunk, CopiedInv, PayloadByte
<1>6. CASE step' = "verify"
  <2>1. (done + 1) * QuadWord >= Len(stage.body)
    BY <1>6 DEF ProgramChunk, NextChunk
  <2>2. ASSUME NEW a \in AppAddrs PROVE flash'[a] = PayloadByte(stage, a)
    <3>1. CASE a < AppAddr + (done + 1) * QuadWord
      BY <1>4, <3>1
    <3>2. CASE ~(a < AppAddr + (done + 1) * QuadWord)
      <4>1. a \in BankAddrs /\ a \in Int /\ AppAddr \in Nat
        BY Sizes DEF AppAddrs
      <4>2. a \notin QuadAddrs(done) /\ a >= AppAddr + done * QuadWord
        BY <1>1, <1>2, <3>2, <4>1, Sizes DEF QuadAddrs
      <4>3. flash'[a] = Erased
        BY <4>1, <4>2 DEF ProgramChunk, Programmed, Inv, CopyInv
      <4>4. ~(a - AppAddr < Len(stage.body))
        BY <1>1, <1>3, <2>1, <3>2, <4>1
      <4> QED BY <4>3, <4>4 DEF PayloadByte
    <3> QED BY <3>1, <3>2
  <2>3. AppRegion(flash') = Installed(stage)
    BY <2>2 DEF AppRegion, Installed
  <2> QED BY <1>6, <2>3 DEF ProgramChunk, CopiedInv, AppRegion, Installed, PayloadByte
<1> QED BY <1>5, <1>6 DEF ProgramChunk, NextChunk

\* main.c:114-253: every step of the boot path but for the failed ones.
LEMMA BootRecovers ==
    ASSUME Reliable, Inv, Inv', RecoveryInv, Boot
    PROVE  RecoveryInv'
<1> USE DEF RecoveryInv
<1>1. TypeOK /\ TypeOK'
  BY DEF Inv
<1>2. CASE NoRequest
  BY <1>2 DEF NoRequest, CopiedInv, IntactInv, DamageIsPending, Complete, AppRegion,
     Requested, ImageValid, Holds, CopiedBytes
<1>3. CASE RejectImage
  <2>1. AppRegion(flash) = installed
    BY <1>3 DEF RejectImage, DamageIsPending, Complete
  <2> QED BY <1>3, <2>1 DEF RejectImage, CopiedInv, IntactInv, DamageIsPending, Complete,
             AppRegion, Requested, ImageValid
<1>4. CASE AcceptImage \/ EraseSector
  <2>1. (Requested /\ ImageValid(stage))'
    BY <1>4 DEF AcceptImage, EraseSector, Inv, PendingInv, Updating, Requested, ImageValid
  <2>2. step' \in {"erase", "copy"}
    BY <1>4 DEF AcceptImage, EraseSector
  <2>3. step' = "copy" => done' * QuadWord = 0
    BY <1>4, Sizes DEF AcceptImage, EraseSector
  <2>4. \A a \in AppAddrs : ~(a < AppAddr + 0)
    BY Sizes DEF AppAddrs
  <2> QED BY <2>1, <2>2, <2>3, <2>4 DEF CopiedInv, IntactInv, DamageIsPending
<1>5. CASE ProgramChunk
  <2>1. CopiedInv'
    BY <1>5, CopyStepRight
  <2>2. step' \in {"copy", "verify"}
    BY <1>5 DEF ProgramChunk, NextChunk
  <2>3. (Requested /\ ImageValid(stage))'
    BY <2>2 DEF Inv, PendingInv, Updating
  <2> QED BY <2>1, <2>2, <2>3 DEF IntactInv, DamageIsPending
<1>6. CASE VerifyOk \/ VerifyFail
  <2>1. ImageValid(stage) /\ AppRegion(flash) = Installed(stage)
    BY <1>6 DEF VerifyOk, VerifyFail, Inv, PendingInv, Updating, CopiedInv
  <2>2. VerifyOk
    BY <1>1, <1>6, <2>1, RightCopyMatches DEF VerifyFail
  <2> QED BY <2>1, <2>2 DEF VerifyOk, CopiedInv, IntactInv, DamageIsPending, Complete,
             AppRegion, Installed, PayloadByte
<1>7. CASE ClearFailed \/ ClearRequest \/ MarkOk \/ Unconfirm \/ CountBoot
  BY <1>7 DEF ClearFailed, ClearRequest, MarkOk, Unconfirm, CountBoot, CopiedInv, IntactInv,
     DamageIsPending, Complete, AppRegion
<1>8. CASE JumpToApp
  <2>1. Complete(flash)
    BY <1>8 DEF JumpToApp, Inv, HandoverInv, DamageIsPending
  <2> QED BY <1>8, <2>1 DEF JumpToApp, CopiedInv, IntactInv, DamageIsPending, Complete,
             AppRegion
<1>9. CASE NoValidApp
  BY <1>9 DEF NoValidApp, CopiedInv, IntactInv, DamageIsPending, Complete, AppRegion,
     Requested, ImageValid, Holds, CopiedBytes
<1> QED BY <1>2, <1>3, <1>4, <1>5, <1>6, <1>7, <1>8, <1>9 DEF Boot, Update, Outcome

\* The application and the resets.
LEMMA OthersRecover ==
    ASSUME Reliable, Inv, Inv', RecoveryInv, App \/ Failures \/ UNCHANGED vars
    PROVE  RecoveryInv'
<1> USE DEF RecoveryInv
<1>1. CASE StageImage \/ RequestUpdate \/ Confirm \/ AppReset
  BY <1>1 DEF StageImage, RequestUpdate, Confirm, AppReset, Runnable, boot, CopiedInv,
     IntactInv, DamageIsPending, Complete, AppRegion
<1>2. CASE WarmReset
  <2>1. step' = "main" /\ UNCHANGED <<stage, installed, mbx>>
    BY <1>2 DEF WarmReset, Restart
  <2>2. CASE flash' = flash
    BY <2>1, <2>2 DEF CopiedInv, IntactInv, DamageIsPending, Complete, AppRegion, Requested,
       ImageValid, Holds, CopiedBytes
  <2>3. CASE flash' # flash
    <3>1. step \in {"erase", "copy"}
      BY <1>2, <2>3 DEF WarmReset, Restart, Torn
    <3> QED BY <2>1, <3>1 DEF Inv, PendingInv, Updating, CopiedInv, IntactInv,
               DamageIsPending, Requested, ImageValid
  <2> QED BY <2>2, <2>3
<1>3. CASE EraseError \/ ProgramCorrupt \/ ProgramError \/ PowerLoss
  BY <1>3 DEF Reliable, EraseError, ProgramCorrupt, ProgramError, PowerLoss
<1>4. CASE UNCHANGED vars
  BY <1>4 DEF vars, CopiedInv, IntactInv, DamageIsPending, Complete, AppRegion, Requested,
     ImageValid, Holds, CopiedBytes, PayloadByte, Installed
<1> QED BY <1>1, <1>2, <1>3, <1>4 DEF App, Failures

LEMMA Recovery == Reliable => (Spec => []RecoveryInv)
<1> SUFFICES ASSUME Reliable PROVE Spec => []RecoveryInv
  OBVIOUS
<1>1. Init /\ Inv => RecoveryInv
  <2> SUFFICES ASSUME Init PROVE RecoveryInv
    OBVIOUS
  <2>1. \A a \in AppAddrs : flash[a] = installed[a]
    BY Sizes DEF Init
  <2>2. AppRegion(flash) = installed
    BY <2>1 DEF Init, AppRegion, Installed
  <2> QED BY <2>2 DEF Init, RecoveryInv, CopiedInv, IntactInv, DamageIsPending, Complete
<1>2. RecoveryInv /\ Inv /\ Inv' /\ [Next]_vars => RecoveryInv'
  BY BootRecovers, OthersRecover DEF Next
<1> QED BY <1>1, <1>2, Invariance, PTL DEF Spec

\* With a flash that works, no reset loses the device: an application region that
\* is not complete is always covered by a request for a valid image
\* (main.c:117-134).
THEOREM DamageIsPendingHolds == Reliable => (Spec => []DamageIsPending)
<1> SUFFICES ASSUME Reliable PROVE Spec => []DamageIsPending
  OBVIOUS
<1>1. RecoveryInv => DamageIsPending
  BY DEF RecoveryInv
<1> QED BY <1>1, Recovery, PTL

-------------------------------------------------------------------------------
(* The refinement of SlotUpdate *)

LEMMA InstalledType ==
    ASSUME NEW img \in Images
    PROVE  Installed(img) \in Region
<1>1. \A a \in AppAddrs : a \in Int /\ a >= AppAddr
  BY Sizes DEF AppAddrs
<1> QED BY <1>1, PayloadByteType DEF Installed, Region

\* The types of what the refinement mapping gives.
LEMMA MappedTypes ==
    ASSUME NEW f \in [BankAddrs -> Byte], NEW img \in Images
    PROVE  AppRegion(f) \in Region /\ Installed(img) \in Region
BY InstalledType, Sizes DEF AppRegion, Region

\* A step that changes neither region nor staged image nor what is pending.
LEMMA HiddenStep ==
    ASSUME UNCHANGED <<flash, stage>>, Requested' = Requested
    PROVE  UNCHANGED Slot!vars
BY DEF Slot!vars, AppRegion, Installed, PayloadByte, PendingUpdate, ImageValid

\* A step that changes the region only, for a valid request.
LEMMA WritingStep ==
    ASSUME TypeOK', UNCHANGED <<stage, mbx>>, Requested, ImageValid(stage)
    PROVE  Slot!Overwrite
<1>1. AppRegion(flash') \in Region
  BY MappedTypes DEF TypeOK
<1> QED BY <1>1 DEF Slot!Overwrite, Installed, PayloadByte, PendingUpdate, Requested,
           ImageValid

\* A fault, or the end of an update on a device that has faults.
LEMMA FaultyStep ==
    ASSUME TypeOK', UNCHANGED stage, ~Reliable,
           flash' # flash => Requested /\ ImageValid(stage)
    PROVE  Slot!Abandon
<1>1. AppRegion(flash') \in Region /\ PendingUpdate' \in {"none", "valid", "bad"}
  BY MappedTypes DEF TypeOK, PendingUpdate
<1>2. AppRegion(flash') # AppRegion(flash) => PendingUpdate = "valid"
  BY DEF AppRegion, PendingUpdate
<1> QED BY <1>1, <1>2 DEF Slot!Abandon, Slot!Pending, Installed, PayloadByte, Reliable

\* main.c:114-253: what each step of the boot path is to SlotUpdate.
LEMMA BootImplements ==
    ASSUME Inv, TypeOK', Reliable => RecoveryInv, Boot
    PROVE  [Slot!Next]_(Slot!vars)
<1>1. CASE NoRequest \/ RejectImage \/ AcceptImage \/ VerifyOk \/ VerifyFail
           \/ JumpToApp \/ NoValidApp
  BY <1>1, HiddenStep
  DEF NoRequest, RejectImage, AcceptImage, VerifyOk, VerifyFail, JumpToApp, NoValidApp,
      Requested
<1>2. CASE MarkOk \/ Unconfirm \/ CountBoot
  BY <1>2, HiddenStep DEF MarkOk, Unconfirm, CountBoot, Requested, Inv, TypeOK, Mailbox
<1>3. CASE EraseSector \/ ProgramChunk
  BY <1>3, WritingStep
  DEF EraseSector, ProgramChunk, Inv, PendingInv, Updating, Slot!Next
<1>4. CASE ClearFailed \/ ClearRequest
  <2>1. UNCHANGED <<flash, stage>> /\ ~Requested'
    BY <1>4 DEF ClearFailed, ClearRequest, Requested, Inv, TypeOK, Mailbox
  <2>2. CASE ~Reliable
    BY <2>1, <2>2, FaultyStep DEF Slot!Next
  <2>3. CASE Reliable /\ ClearFailed
    <3>1. PendingUpdate = "bad" /\ PendingUpdate' = "none"
      BY <2>1, <2>3 DEF ClearFailed, RecoveryInv, IntactInv, PendingUpdate
    <3> QED BY <2>1, <3>1
        DEF Slot!Next, Slot!Refuse, AppRegion, Installed, PayloadByte
  <2>4. CASE Reliable /\ ClearRequest
    <3>1. PendingUpdate = "valid" /\ PendingUpdate' = "none"
      BY <2>1, <2>4 DEF ClearRequest, Inv, PendingInv, Updating, PendingUpdate
    <3>2. AppRegion(flash) = Installed(stage)
      BY <2>4 DEF ClearRequest, RecoveryInv, CopiedInv
    <3> QED BY <2>1, <3>1, <3>2
        DEF Slot!Next, Slot!Commit, AppRegion, Installed, PayloadByte
  <2> QED BY <1>4, <2>2, <2>3, <2>4
<1> QED BY <1>1, <1>2, <1>3, <1>4 DEF Boot, Update, Outcome

\* The application, and the faults.
LEMMA OthersImplement ==
    ASSUME Inv, TypeOK', App \/ Failures \/ UNCHANGED vars
    PROVE  [Slot!Next]_(Slot!vars)
<1>1. CASE StageImage
  <2>1. Installed(stage') \in Region
    BY MappedTypes DEF TypeOK
  <2>2. PendingUpdate = "none" /\ PendingUpdate' = "none"
    BY <1>1 DEF StageImage, PendingUpdate, Requested
  <2> QED BY <1>1, <2>1, <2>2 DEF StageImage, Slot!Next, Slot!Stage, AppRegion
<1>2. CASE RequestUpdate
  <2>1. UNCHANGED <<flash, stage>> /\ ~Requested /\ Requested'
    BY <1>2 DEF RequestUpdate, Requested, Inv, TypeOK, Mailbox
  <2>2. PendingUpdate = "none" /\ PendingUpdate' \in {"valid", "bad"}
    BY <2>1 DEF PendingUpdate
  <2> QED BY <2>1, <2>2 DEF Slot!Next, Slot!Request, AppRegion, Installed, PayloadByte
<1>3. CASE Confirm \/ AppReset \/ UNCHANGED vars
  BY <1>3, HiddenStep
  DEF Confirm, AppReset, vars, Requested, Inv, TypeOK, Mailbox
<1>4. CASE WarmReset
  <2>1. UNCHANGED <<stage, mbx>>
    BY <1>4 DEF WarmReset, Restart
  <2>2. CASE flash' = flash
    BY <2>1, <2>2, HiddenStep DEF Requested
  <2>3. CASE flash' # flash
    BY <1>4, <2>1, <2>3, WritingStep
    DEF WarmReset, Restart, Torn, Inv, PendingInv, Updating, Slot!Next
  <2> QED BY <2>2, <2>3
<1>5. CASE EraseError \/ ProgramCorrupt \/ ProgramError \/ PowerLoss
  <2>1. ~Reliable /\ UNCHANGED stage
    BY <1>5 DEF Reliable, EraseError, ProgramCorrupt, ProgramError, PowerLoss, Restart
  <2>2. flash' # flash => Requested /\ ImageValid(stage)
    BY <1>5, WhereFlashChanges DEF Next, Failures
  <2> QED BY <2>1, <2>2, FaultyStep DEF Slot!Next
<1> QED BY <1>1, <1>2, <1>3, <1>4, <1>5 DEF App, Failures

\* The boot path implements the slot update: the region is overwritten only for
\* a pending valid update, which is over only when the region holds its target,
\* unless the device itself fails (main.c:100-253).
THEOREM ImplementsSlotUpdateHolds == Spec => ImplementsSlotUpdate
<1>1. Init /\ TypeOK => Slot!Init
  BY MappedTypes DEF Slot!Init, Slot!Pending, TypeOK, PendingUpdate
<1>2. Inv /\ TypeOK' /\ (Reliable => RecoveryInv) /\ [Next]_vars => [Slot!Next]_(Slot!vars)
  BY BootImplements, OthersImplement DEF Next
<1>3. CASE Reliable
  BY <1>1, <1>2, <1>3, Recovery, TypeCorrect, Invariance, PTL
  DEF Spec, ImplementsSlotUpdate, Slot!Spec
<1>4. CASE ~Reliable
  BY <1>1, <1>2, <1>4, TypeCorrect, Invariance, PTL DEF Spec, ImplementsSlotUpdate, Slot!Spec
<1> QED BY <1>3, <1>4
===============================================================================

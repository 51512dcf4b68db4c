------------------------------ MODULE FirstStage ------------------------------
(***************************************************************************)
(* The first stage bootloader (first_stage/boot.c, boot_common.c) between  *)
(* the parts that share its slots: it installs a newer second stage from a *)
(* download slot over the one in place, checks the result and jumps to it; *)
(* the second stage installs from the same slots over the application; the *)
(* application downloads images of either kind into them.                  *)
(*                                                                         *)
(* An image is a header, a payload in the chunks of the copy, and a        *)
(* digest.  The digest of data is the data.  All payloads have one size    *)
(* and fit in every slot.                                                  *)
(***************************************************************************)
EXTENDS Integers

CONSTANTS
    NbSlots,           \* download slots: 2 with fallback
    Chunks,            \* chunks of a payload (512 bytes in updateSecondStageBl)
    FirstChunks,       \* those in the sector of the header
    ShortTail,         \* the last chunk is no multiple of the write size
    IndexSize,         \* 2^8, the values of blImageIndex and bestIndex
    FirstIndices,      \* indices the packer gave the first two stages' images
    MaxDownloads,      \* bound on the downloads
    MaxFaults          \* bound on power losses and flash errors

ASSUME FirstStageAssumption ==
    /\ NbSlots \in 1 .. 2
    /\ Chunks \in Nat \ {0} /\ FirstChunks \in 0 .. Chunks
    /\ IndexSize \in Nat \ {0} /\ FirstIndices \subseteq Nat
    /\ ShortTail \in BOOLEAN
    /\ MaxDownloads \in Nat /\ MaxFaults \in Nat

Slots == 1 .. NbSlots

\* The part of a header that matters; id stands for all that is left of it.
Header(i, index, type) == [id |-> i, imgIndex |-> index, imgType |-> type]

NoHeader == Header(0, -1, "NONE")

Blank == <<>>

PayloadOf(h) == [c \in 1 .. Chunks |-> <<h.id, c>>]

Digest(h, data) == [head |-> h, data |-> data]

\* What is no digest of any image: bytes erased, or torn.
NoDigest == Digest(NoHeader, [c \in 1 .. Chunks |-> Blank])

Whole(h) == [head |-> h, data |-> PayloadOf(h), crc |-> Digest(h, PayloadOf(h))]

Empty == [head |-> NoHeader, data |-> [c \in 1 .. Chunks |-> Blank], crc |-> NoDigest]

VARIABLES
    bl,         \* the content of the slot of the second stage
    app,        \* the header in the slot of the application
    slots,      \* the content of the download slots
    place,      \* where the first stage is, or which program runs
    update,     \* context->update_address
    done,       \* chunks copied
    downloads,  \* downloads so far
    cut,        \* history: one of them was cut off
    faults      \* power losses and flash errors so far

vars == <<bl, app, slots, place, update, done, downloads, cut, faults>>

Init ==
    /\ \E i, j \in FirstIndices :
          /\ bl = Whole(Header(1, i, "BOOT"))
          /\ app = Header(2, j, "APP")
    /\ slots = [s \in Slots |-> Empty]
    /\ place = "reset" /\ update = 0 /\ done = 0
    /\ downloads = 0 /\ cut = FALSE /\ faults = 0

-------------------------------------------------------------------------------
(* The first stage: bootFsm.                                               *)

\* Mutant: the loop over the slots ends after the first.
NewerInFirstSlot(s, best) ==
    s = 1 /\ slots[s].head.imgType = "BOOT" /\ slots[s].head.imgIndex > best

\* Mutant: the image in place may be installed again.
NewerOrEqual(s, best) == slots[s].head.imgType = "BOOT" /\ slots[s].head.imgIndex >= best

\* The test in the loop of checkForSecondStageBlUpdate.
Newer(s, best) == slots[s].head.imgType = "BOOT" /\ slots[s].head.imgIndex > best

\* The loop itself; the indices it compares with go through an uint8_t.
BlImageIndex == bl.head.imgIndex % IndexSize
FoundFirst   == IF Newer(1, BlImageIndex) THEN 1 ELSE 0
BestIndex    == IF FoundFirst = 1 THEN slots[1].head.imgIndex % IndexSize ELSE BlImageIndex
Found        == IF NbSlots = 2 /\ Newer(2, BestIndex) THEN 2 ELSE FoundFirst

\* getSecondStageBlIndex: without a valid header nothing more is tried.
NoSecondStage ==
    /\ place = "reset" /\ bl.head = NoHeader
    /\ place' = "failed"
    /\ UNCHANGED <<bl, app, slots, update, done, downloads, cut, faults>>

CheckForUpdate ==
    /\ place = "reset" /\ bl.head # NoHeader
    /\ update' = Found
    /\ place' = IF update' = 0 THEN "check" ELSE "header"
    /\ UNCHANGED <<bl, app, slots, done, downloads, cut, faults>>

\* A write at the begin of a slot erases the sector of the header.
FirstErased(slot) ==
    [head |-> NoHeader, crc |-> slot.crc,
     data |-> [c \in 1 .. Chunks |-> IF c <= FirstChunks THEN Blank ELSE slot.data[c]]]

CopyHeader ==
    /\ place = "header"
    /\ bl' = [FirstErased(bl) EXCEPT !.head = slots[update].head]
    /\ done' = 0
    /\ place' = "copy"
    /\ UNCHANGED <<app, slots, update, downloads, cut, faults>>

\* Mutant: one chunk too many.
LoopChunksOneMore == Chunks + 1

\* The chunks written in the loop; a short one waits for the digest.
LoopChunks == IF ShortTail THEN Chunks - 1 ELSE Chunks

CopyChunk ==
    /\ place = "copy" /\ done < LoopChunks
    /\ bl' = [bl EXCEPT !.data[done + 1] = slots[update].data[done + 1]]
    /\ done' = done + 1
    /\ UNCHANGED <<app, slots, place, update, downloads, cut, faults>>

\* The digest is taken of what was read and written, not that of the update.
NewDigest == Digest(slots[update].head, slots[update].data)

\* Mutant: the short last chunk is forgotten.
CopyDigestAlone ==
    /\ place = "copy" /\ done = LoopChunks
    /\ bl' = [bl EXCEPT !.crc = NewDigest]
    /\ place' = "remove"
    /\ UNCHANGED <<app, slots, update, done, downloads, cut, faults>>

CopyDigest ==
    /\ place = "copy" /\ done = LoopChunks
    /\ bl' = [bl EXCEPT !.data[Chunks] = slots[update].data[Chunks], !.crc = NewDigest]
    /\ place' = "remove"
    /\ UNCHANGED <<app, slots, update, done, downloads, cut, faults>>

\* Zeroes over the header of the update.
RemoveHeader ==
    /\ place = "remove"
    /\ slots' = [slots EXCEPT ![update] = FirstErased(@)]
    /\ place' = "check"
    /\ UNCHANGED <<bl, app, update, done, downloads, cut, faults>>

\* Mutant: the header alone is checked.
CheckedHeader == bl.head # NoHeader

\* bootCheckImage.
Checked == bl.head # NoHeader /\ bl.crc = Digest(bl.head, bl.data)

\* jumpToSecondStageBl, or bootFsm returns an error.
CheckImage ==
    /\ place = "check"
    /\ place' = IF Checked THEN "second" ELSE "failed"
    /\ UNCHANGED <<bl, app, slots, update, done, downloads, cut, faults>>

-------------------------------------------------------------------------------
(* The second stage, which BootFsm has in full, and the application.       *)

\* Mutant: an equal index will do.
PreferredEqual == {s \in Slots : slots[s].head.imgIndex >= app.imgIndex}

\* bootSelectUpdateImageSlot: the highest index, whatever the type.
Preferred == {s \in Slots : slots[s].head.imgIndex > app.imgIndex}

\* No update is selected: the application is started.
RunApp ==
    /\ place = "second" /\ Preferred = {}
    /\ place' = "app"
    /\ UNCHANGED <<bl, app, slots, update, done, downloads, cut, faults>>

\* bootUpdateApp and the reset behind it.
UpdateApp ==
    /\ place = "second"
    /\ \E s \in Preferred :
          /\ \A t \in Preferred : slots[t].head.imgIndex <= slots[s].head.imgIndex
          /\ app' = slots[s].head
    /\ place' = "reset"
    /\ UNCHANGED <<bl, slots, update, done, downloads, cut, faults>>

\* updateGetUpdateSlot.
UpdateSlot == IF NbSlots = 2 /\ slots[1].head.imgIndex = app.imgIndex THEN 2 ELSE 1

\* The application downloads the n first chunks of an image of some type; the
\* updater gives it the index behind that of the application.
Download(type, n) ==
    /\ place = "app" /\ app.imgType = "APP"
    /\ downloads < MaxDownloads /\ downloads' = downloads + 1
    /\ cut' = (cut \/ n < Chunks)
    /\ LET image == Whole(Header(downloads + 3, app.imgIndex + 1, type)) IN
       slots' = [slots EXCEPT ![UpdateSlot] =
                    IF n = Chunks THEN image
                    ELSE [image EXCEPT !.crc = NoDigest,
                             !.data = [c \in 1 .. Chunks |-> IF c <= n THEN @[c] ELSE Blank]]]
    /\ place' = "reset"
    /\ UNCHANGED <<bl, app, update, done, faults>>

\* Whoever called bootFsm, a button, the watchdog.
Reset ==
    /\ place \in {"app", "failed"}
    /\ place' = "reset"
    /\ UNCHANGED <<bl, app, slots, update, done, downloads, cut, faults>>

-------------------------------------------------------------------------------
(* A power loss or a flash error in the middle of a write.                 *)

\* What the write in progress leaves of bl and of the slot of the update.
TornCopy ==
    \/ UNCHANGED <<bl, slots>>
    \/ place = "header" /\ bl' = FirstErased(bl) /\ UNCHANGED slots
    \/ /\ place = "copy"
       /\ bl' = IF done < LoopChunks THEN [bl EXCEPT !.data[done + 1] = Blank]
                ELSE [bl EXCEPT !.data[Chunks] = Blank, !.crc = NoDigest]
       /\ UNCHANGED slots
    \/ place = "remove" /\ slots' = [slots EXCEPT ![update] = FirstErased(@)] /\ UNCHANGED bl

Fault(to) ==
    /\ place \in {"header", "copy", "remove"}
    /\ faults < MaxFaults /\ faults' = faults + 1
    /\ TornCopy
    /\ place' = to
    /\ UNCHANGED <<app, update, done, downloads, cut>>

\* A flash error ends bootFsm; a power loss starts it again.
FlashError == Fault("failed")
PowerLoss  == Fault("reset")

-------------------------------------------------------------------------------
Boot ==
    \/ NoSecondStage \/ CheckForUpdate \/ CopyHeader \/ CopyChunk \/ CopyDigest
    \/ RemoveHeader \/ CheckImage
    \/ RunApp \/ UpdateApp

Next ==
    \/ Boot
    \/ \E type \in {"BOOT", "APP"}, n \in 0 .. Chunks : Download(type, n)
    \/ Reset
    \/ FlashError \/ PowerLoss

\* The bootloaders run on the only thread: fairness of their steps.
Spec == Init /\ [][Next]_vars /\ WF_vars(Boot)

-------------------------------------------------------------------------------
Headers == [id : Nat, imgIndex : Int, imgType : {"BOOT", "APP", "NONE"}]
Cells   == {Blank} \cup (Nat \X Nat)
Image   == [head : Headers, data : [1 .. Chunks -> Cells],
            crc : [head : Headers, data : [1 .. Chunks -> Cells]]]

\* Types, and boot.c:262-275, 300-345: update_address is that of a slot when
\* something is copied from it, and the copy stays within the image.
TypeOK ==
    /\ bl \in Image /\ app \in Headers /\ slots \in [Slots -> Image]
    /\ place \in {"reset", "header", "copy", "remove", "check", "second", "app", "failed"}
    /\ update \in 0 .. NbSlots
    /\ place \in {"header", "copy", "remove"} => update # 0
    /\ done \in 0 .. Chunks
    /\ downloads \in 0 .. MaxDownloads /\ cut \in BOOLEAN /\ faults \in 0 .. MaxFaults

IsWhole(slot) == slot.head.imgType = "BOOT" /\ slot = Whole(slot.head)

\* boot.c:106-117: unless a download was cut off, the first stage jumps to a
\* second stage only, and to a whole one, wherever the power failed and
\* whichever write.
JumpsOnlyWhole == ~cut /\ place \in {"second", "app"} => IsWhole(bl)

\* boot.c:384-390: the update is taken away only when it has been installed:
\* unless a download was cut off, a whole second stage is at every moment in its
\* slot or in a download slot.
SecondStageSomewhere == ~cut => IsWhole(bl) \/ \E s \in Slots : IsWhole(slots[s])

\* boot.c:191-236: no second stage runs while a newer one is downloaded.
RunsNewest ==
    place = "second" =>
        \A s \in Slots : slots[s].head.imgType = "BOOT" =>
                            slots[s].head.imgIndex <= bl.head.imgIndex

\* boot.c:222-228: what is installed over a second stage is newer.
OnlyNewer ==
    [][ (place = "header" /\ place' = "copy") =>
            slots[update].head.imgIndex > bl.head.imgIndex ]_vars

\* boot.c:86-119: the device gets past the bootloaders, or stops in an error.
BootEnds == place = "reset" ~> place \in {"app", "failed"}
===============================================================================

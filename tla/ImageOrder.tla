------------------------------ MODULE ImageOrder ------------------------------
(***************************************************************************)
(* Which image the second stage prefers, and what the updater does for its *)
(* image to be preferred.  The updater gives an image it has accepted the  *)
(* index behind that of the application and puts it into a slot that does  *)
(* not hold the copy of the application; at the next boot the bootloader   *)
(* selects by the index.  With anti-rollback both also compare versions,   *)
(* each with a comparison of its own.                                      *)
(***************************************************************************)
EXTENDS Integers

CONSTANTS
    Fields,      \* the values of a version's fields
    NbSlots,     \* slots beside that of the application: 2 with fallback
    IndexSize,   \* 2^16, the values of newImageIdx
    MaxIndex,    \* bound on the index of the application an update is made for
    FirstIndex,  \* the index the packer gave the first application
    UpdateGate,  \* UPDATE_ANTI_ROLLBACK_SUPPORT
    BootGate     \* BOOT_ANTI_ROLLBACK_SUPPORT

ASSUME OrderAssumption ==
    /\ Fields \subseteq Nat
    /\ NbSlots \in 1 .. 2
    /\ IndexSize \in Nat \ {0} /\ MaxIndex \in Nat /\ FirstIndex \in Nat
    /\ {UpdateGate, BootGate} \subseteq BOOLEAN

Slots   == 1 .. NbSlots
Version == [major : Fields, minor : Fields, revision : Fields, buildNum : Fields]
Header  == [imgIndex : Nat, dataVers : Version]
NoImage == [imgIndex |-> -1]

VARIABLES
    app,       \* the header in slot 0
    slots,     \* the headers in the other slots
    accepted   \* history: an update was accepted since the last boot; its header

vars == <<app, slots, accepted>>

\* imageCompareFirmwareVersions: every comparison overrides those before it.
Superior(v, w) ==
    \/ v.buildNum > w.buildNum
    \/ v.buildNum = w.buildNum /\ v.revision > w.revision
    \/ v.buildNum = w.buildNum /\ v.revision = w.revision /\ v.minor > w.minor
    \/ v.buildNum = w.buildNum /\ v.revision = w.revision /\ v.minor = w.minor /\ v.major > w.major

\* Mutant: a lower major version is not refused.
AboveAny(v, w) ==
    v.major > w.major \/ v.minor > w.minor \/ v.revision > w.revision \/ v.buildNum > w.buildNum

\* updateAcceptUpdateImageCallback.
Above(v, w) ==
    \/ v.major > w.major
    \/ v.major = w.major /\ v.minor > w.minor
    \/ v.major = w.major /\ v.minor = w.minor /\ v.revision > w.revision
    \/ v.major = w.major /\ v.minor = w.minor /\ v.revision = w.revision /\ v.buildNum > w.buildNum

\* Mutant: the index of the application is used again.
OutputImageIdxSame == app.imgIndex % IndexSize

\* updateCalculateOutputImageIdx: the index goes through a uint16_t.
OutputImageIdx == (app.imgIndex + 1) % IndexSize

\* Mutant: always the first slot.
UpdateSlotFirst == 1

\* updateGetUpdateSlot: with fallback, not the slot with the application's index;
\* that too goes through a uint16_t.
UpdateSlot ==
    IF NbSlots = 2 /\ slots[1].imgIndex = app.imgIndex % IndexSize THEN 2 ELSE 1

\* bootSelectUpdateImageSlot, the test of the loop.
Preferred(image, best) ==
    /\ image # NoImage
    /\ image.imgIndex > best.imgIndex
    /\ BootGate => Superior(image.dataVers, best.dataVers)

Select ==
    LET first == IF Preferred(slots[1], app) THEN slots[1] ELSE app IN
    IF NbSlots = 2 /\ Preferred(slots[2], first) THEN slots[2] ELSE first

-------------------------------------------------------------------------------
Init ==
    /\ app \in [imgIndex : {FirstIndex}, dataVers : Version]
    /\ slots \in [Slots -> {NoImage}] \cup {[s \in Slots |-> IF s = 1 THEN app ELSE NoImage]}
    /\ accepted = NoImage

\* The updater processes an image with version v up to updateFinalize; the
\* application knows its own version (settings->appVersion).
Accept(v) ==
    /\ app.imgIndex < MaxIndex
    /\ UpdateGate => Above(v, app.dataVers)
    /\ accepted' = [imgIndex |-> OutputImageIdx, dataVers |-> v]
    /\ slots' = [slots EXCEPT ![UpdateSlot] = accepted']
    /\ UNCHANGED app

\* A boot: the selected image is copied into slot 0, its header included.
Boot ==
    /\ app' = Select
    /\ accepted' = NoImage
    /\ UNCHANGED slots

Next == Boot \/ \E v \in Version : Accept(v)

Spec == Init /\ [][Next]_vars

-------------------------------------------------------------------------------
\* update.c:609-616, boot_common.c:386-405: an update the updater has accepted
\* is what the next boot installs.
AcceptedIsInstalled ==
    [][ (Boot /\ accepted # NoImage) => app' = accepted ]_vars

\* update.c:567-573, boot_common.c:382-385: a boot never puts an older version
\* into the place of the application.
NoRollback == [][ ~Above(app.dataVers, app'.dataVers) ]_vars

\* update.c:752-760: what is in slot 0 and came from another slot is still in
\* one: an update never overwrites the copy that fallback needs.
CopyKept ==
    [][ (\E s \in Slots : slots[s] = app) => \E s \in Slots : slots'[s] = app' ]_vars
===============================================================================

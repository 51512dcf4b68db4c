------------------------------- MODULE BootFsm -------------------------------
(***************************************************************************)
(* The second stage bootloader of CycloneBOOT: bootInit, bootFsm and its   *)
(* state handlers, the fallback task and the copy of an image into the     *)
(* application slot, with fallback in automatic mode, one memory and no    *)
(* encryption.  src/main.c links it but does not call it.                  *)
(*                                                                         *)
(* Slot 0 holds the application, slots 1 and 2 hold updates and backups.   *)
(* All slots have one size, so that an image the updater accepted fits in  *)
(* every slot.  One action is one pass of the loop in bootFsm, one phase   *)
(* of a copy or one write to the mailbox; a reset can fall between any     *)
(* two.  The application is the environment; what it downloads goes        *)
(* through update.c and image_process.c.                                   *)
(***************************************************************************)
EXTENDS Integers

CONSTANTS
    MaxIndex,        \* bound on the image indices the application creates
    MaxAttempts,     \* BOOT_COUNTER_MAX_ATTEMPTS
    CounterSize,     \* 2^32, the values of the boot counter
    RuntimeCheck,    \* BOOT_RUNTIME_INTEGRITY_CHECK_SUPPORT
    MaxFaults,       \* bound on the faults
    Resets,          \* whether the bootloader may be reset
    PowerLosses,     \* whether the mailbox may be lost
    FlashErrors,     \* whether flash operations may fail
    DownloadResets   \* whether a download may be cut off by a reset

ASSUME BoundAssumption ==
    /\ MaxIndex \in Nat \ {0}
    /\ MaxAttempts \in Nat \ {0}
    /\ CounterSize \in Nat \ {0}
    /\ MaxFaults \in Nat
    /\ {RuntimeCheck, Resets, PowerLosses, FlashErrors, DownloadResets} \subseteq BOOLEAN

\* A slot: the index in its header (0 without a valid header), how much of
\* the payload the header announces is there, and whether the digest behind
\* the payload matches.  "blank" has an erased vector table, "part" has not.
SlotContent == [idx : 0 .. MaxIndex, payload : {"blank", "part", "whole"}, sealed : BOOLEAN]

Empty      == [idx |-> 0, payload |-> "blank", sealed |-> FALSE]
Intact(i)  == [idx |-> i, payload |-> "whole", sealed |-> TRUE]
Headed(i)  == [idx |-> i, payload |-> "blank", sealed |-> FALSE]

Flags   == {"UPDATE_PERFORMED", "UPDATE_CONFIRMED", "FALLBACK_REQUESTED",
            "FALLBACK_PERFORMED"}
MailBox == [sig : BOOLEAN, flags : SUBSET Flags, counter : 0 .. CounterSize - 1]

States == {"IDLE", "RUN_APP", "UPDATE_APP", "FALLBACK_APP", "ERROR"}
Places == {"init", "call", "loop", "header", "first", "rest", "digest", "performed",
           "unconfirm", "fallen", "clear", "return", "app"}

VARIABLES
    slots,      \* slots 0, 1 and 2
    mbx,        \* the mailbox in RAM that survives a reset
    state,      \* context->state
    place,      \* where the bootloader is, or that the application runs
    source,     \* the slot selected, and copied from
    download,   \* the slot the application downloads into, or 0
    reverted,   \* history: indices whose copy fallback has deleted
    confirmed,  \* history: the application in slot 0 has confirmed itself since
                \* it was installed, or the mailbox lost
    boots,      \* history: starts of the application since it cleared the counter
    faults      \* faults so far

fsm     == <<state, place, source>>
history == <<reverted, confirmed, boots>>
vars    == <<slots, mbx, fsm, download, history, faults>>

TypeOK ==
    /\ slots \in [0 .. 2 -> SlotContent]
    /\ mbx \in MailBox
    /\ state \in States
    /\ place \in Places
    /\ source \in 0 .. 2
    /\ download \in 0 .. 2
    /\ reverted \subseteq 1 .. MaxIndex
    /\ confirmed \in BOOLEAN
    /\ boots \in 0 .. MaxAttempts
    /\ faults \in 0 .. MaxFaults

-------------------------------------------------------------------------------
(* Operators *)

Headless(s) == slots[s].idx = 0
App         == slots[0].idx
Others      == {1, 2}

\* Mutant: the updater always writes to the first slot.
GetUpdateSlotFirst == 1

\* updateGetUpdateSlot: the slot that does not hold the running application.
GetUpdateSlot == IF slots[1].idx # App THEN 1 ELSE 2

\* The slots bootSelectUpdateImageSlot prefers to slot 0.
Newer == {s \in Others : slots[s].idx > App}

\* Mutant: the loop over the slots ends after the first.
SelectUpdateImageSlotFirst == IF slots[1].idx > App THEN 1 ELSE 0

\* bootSelectUpdateImageSlot: the highest index, the first of two equal ones.
SelectUpdateImageSlot ==
    IF Newer = {} THEN 0
    ELSE CHOOSE s \in Newer : \A t \in Newer :
             \/ slots[s].idx > slots[t].idx
             \/ slots[s].idx = slots[t].idx /\ s <= t

\* Mutant: the slots are counted from the wrong end.
RestoreSlotShifted == IF slots[1].idx > slots[2].idx THEN 2 ELSE 3

\* fallbackTask without an application: the higher index, slot 2 among equals.
RestoreSlot == IF slots[1].idx > slots[2].idx THEN 1 ELSE 2

\* fallbackFindSlotWithEquivImg: the first slot with the application's index.
EquivSlot  == IF slots[1].idx = App THEN 1 ELSE 2
BackupSlot == 3 - EquivSlot

\* fallbackTask with an application: both other slots have a valid header,
\* one has its index and the other a lower one.
CanFallBack ==
    /\ \A s \in 0 .. 2 : ~Headless(s)
    /\ slots[EquivSlot].idx = App
    /\ slots[BackupSlot].idx < App

Confirmed == "UPDATE_CONFIRMED" \in mbx.flags

\* Mutant: the confirmation is not looked at.
FallbackTriggerConfirmed ==
    mbx.counter # 0 \/ "FALLBACK_REQUESTED" \in mbx.flags

\* checkAutoFallbackTrigger
FallbackTrigger ==
    \/ mbx.counter >= MaxAttempts
    \/ ~Confirmed /\ mbx.counter # 0
    \/ "FALLBACK_REQUESTED" \in mbx.flags

Fault == faults < MaxFaults /\ faults' = faults + 1

\* bootChangeState sets busy, so that bootFsm goes round its loop again.
ChangeState(s) == state' = s /\ place' = "loop"

-------------------------------------------------------------------------------
(* Initial states: a whole application of index 1, whose copy may have been *)
(* put into slot 1 at the factory                                          *)

Init ==
    /\ slots \in {[s \in 0 .. 2 |-> IF s = 0 THEN Intact(1) ELSE Empty],
                  [s \in 0 .. 2 |-> IF s = 2 THEN Empty ELSE Intact(1)]}
    /\ mbx = [sig |-> FALSE, flags |-> {}, counter |-> 0]
    /\ state = "IDLE" /\ place = "init" /\ source = 0
    /\ download = 0
    /\ reverted = {} /\ confirmed = FALSE /\ boots = 0
    /\ faults = 0

-------------------------------------------------------------------------------
(* bootInit and bootFsm *)

\* bootInit: the context is cleared, a mailbox without signature too.
BootInit ==
    /\ place = "init"
    /\ mbx' = IF mbx.sig THEN mbx ELSE [sig |-> TRUE, flags |-> {}, counter |-> 0]
    /\ state' = "IDLE" /\ place' = "call" /\ source' = 0
    /\ UNCHANGED <<slots, download, history, faults>>

\* handleFallbackTriggers, once for every call of bootFsm.
HandleFallbackTriggers ==
    /\ place = "call"
    /\ place' = "loop"
    /\ IF FallbackTrigger
       THEN mbx' = [mbx EXCEPT !.counter = 0] /\ state' = "FALLBACK_APP"
       ELSE UNCHANGED <<mbx, state>>
    /\ UNCHANGED <<slots, source, download, history, faults>>

\* handleIdleState: without a valid header in slot 0 the firmware is corrupted.
HandleIdle ==
    /\ place = "loop" /\ state = "IDLE"
    /\ IF Headless(0)
       THEN ChangeState("FALLBACK_APP") /\ UNCHANGED source
       ELSE /\ source' = SelectUpdateImageSlot
            /\ ChangeState(IF source' = 0 THEN "RUN_APP" ELSE "UPDATE_APP")
    /\ UNCHANGED <<slots, mbx, download, history, faults>>

\* handleRunAppState, bootCheckImage fails: bootFsm returns in state RUN_APP.
RunInvalid ==
    /\ place = "loop" /\ state = "RUN_APP" /\ Headless(0)
    /\ source' = 0
    /\ place' = "return"
    /\ UNCHANGED <<slots, mbx, state, download, history, faults>>

\* Mutant: the runtime check never fails.
RunCorruptedNever == FALSE

\* The digest is computed again only with RuntimeCheck.
RunCorrupted == RuntimeCheck /\ ~slots[0].sealed

\* handleRunAppState, the image check passes.
CheckedApp == place = "loop" /\ state = "RUN_APP" /\ ~Headless(0)

RunAppCorrupted ==
    /\ CheckedApp /\ RunCorrupted
    /\ source' = 0
    /\ ChangeState("FALLBACK_APP")
    /\ UNCHANGED <<slots, mbx, download, history, faults>>

\* Mutant: an invalid reset vector starts a fallback.
RunAppNoVectorFallingBack ==
    /\ CheckedApp /\ ~RunCorrupted /\ slots[0].payload = "blank"
    /\ source' = 0
    /\ ChangeState("FALLBACK_APP")
    /\ UNCHANGED <<slots, mbx, download, history, faults>>

\* bootCheckSlotAppResetVector fails.
RunAppNoVector ==
    /\ CheckedApp /\ ~RunCorrupted /\ slots[0].payload = "blank"
    /\ source' = 0
    /\ ChangeState("ERROR")
    /\ UNCHANGED <<slots, mbx, download, history, faults>>

\* The start of the application is counted; it may stay unconfirmed.
RunApp ==
    /\ CheckedApp /\ ~RunCorrupted /\ slots[0].payload # "blank"
    /\ source' = 0
    /\ mbx' = [mbx EXCEPT !.counter = (@ + 1) % CounterSize]
    /\ boots' = IF boots < MaxAttempts THEN boots + 1 ELSE boots
    /\ place' = "app"
    /\ UNCHANGED <<slots, state, download, reverted, confirmed, faults>>

\* handleUpdateAppState: bootCheckImage passes, because the slot was selected
\* for its header; bootUpdateApp begins.
HandleUpdateApp ==
    /\ place = "loop" /\ state = "UPDATE_APP"
    /\ place' = "header"
    /\ UNCHANGED <<slots, mbx, state, source, download, history, faults>>

\* BOOT_STATE_ERROR: bootFsm returns CBOOT_ERROR_FAILURE.
HandleError ==
    /\ place = "loop" /\ state = "ERROR"
    /\ place' = "return"
    /\ UNCHANGED <<slots, mbx, state, source, download, history, faults>>

\* The caller of bootFsm calls it again with the same context.
CallAgain ==
    /\ place = "return"
    /\ place' = "call"
    /\ UNCHANGED <<slots, mbx, state, source, download, history, faults>>

-------------------------------------------------------------------------------
(* bootUpdateApp copies slot source into slot 0 *)

\* The write of the header erases the first sector of slot 0.
CopyHeader ==
    /\ place = "header"
    /\ slots' = [slots EXCEPT ![0] = Headed(slots[source].idx)]
    /\ place' = "first"
    /\ confirmed' = FALSE /\ boots' = 0
    /\ UNCHANGED <<mbx, state, source, download, reverted, faults>>

\* The first chunks bring the vector table, if the source has one.
CopyFirst ==
    /\ place = "first"
    /\ slots' = [slots EXCEPT ![0].payload =
                     IF slots[source].payload = "blank" THEN "blank" ELSE "part"]
    /\ place' = "rest"
    /\ UNCHANGED <<mbx, state, source, download, history, faults>>

\* The other chunks; bytes short of the write size wait for the digest.
CopyRest ==
    /\ place = "rest"
    /\ \E p \in {slots[0].payload, slots[source].payload} :
           slots' = [slots EXCEPT ![0].payload = p]
    /\ place' = "digest"
    /\ UNCHANGED <<mbx, state, source, download, history, faults>>

\* What is left is written, and the digest of what was copied behind it, whatever
\* the digest in the source slot; then the handler goes on with the mailbox.
CopyDigest ==
    /\ place = "digest"
    /\ slots' = [slots EXCEPT ![0].payload = slots[source].payload, ![0].sealed = TRUE]
    /\ place' = IF state = "UPDATE_APP" THEN "performed" ELSE "unconfirm"
    /\ UNCHANGED <<mbx, state, source, download, history, faults>>

Copying == place \in {"header", "first", "rest", "digest"}

\* A write fails: an update ends in ERROR, a fallback tries to run what is there.
CopyError ==
    /\ Copying /\ FlashErrors /\ Fault
    /\ \/ UNCHANGED slots
       \/ place = "header" /\ slots' = [slots EXCEPT ![0] = Empty]
    /\ ChangeState(IF state = "UPDATE_APP" THEN "ERROR" ELSE "RUN_APP")
    /\ UNCHANGED <<mbx, source, download, history>>

-------------------------------------------------------------------------------
(* handleUpdateAppState and handleFallbackAppState after the copy *)

SetUpdatePerformed ==
    /\ place = "performed"
    /\ mbx' = [mbx EXCEPT !.flags = @ \cup {"UPDATE_PERFORMED"}]
    /\ place' = "unconfirm"
    /\ UNCHANGED <<slots, state, source, download, history, faults>>

\* Mutant: the confirmation of the previous application is kept.
ClearUpdateConfirmedNot ==
    /\ place = "unconfirm"
    /\ place' = IF state = "UPDATE_APP" THEN "clear" ELSE "fallen"
    /\ UNCHANGED <<slots, mbx, state, source, download, history, faults>>

ClearUpdateConfirmed ==
    /\ place = "unconfirm"
    /\ mbx' = [mbx EXCEPT !.flags = @ \ {"UPDATE_CONFIRMED"}]
    /\ place' = IF state = "UPDATE_APP" THEN "clear" ELSE "fallen"
    /\ UNCHANGED <<slots, state, source, download, history, faults>>

SetFallbackPerformed ==
    /\ place = "fallen"
    /\ mbx' = [mbx EXCEPT !.flags = @ \cup {"FALLBACK_PERFORMED"}]
    /\ place' = "clear"
    /\ UNCHANGED <<slots, state, source, download, history, faults>>

\* mailBoxClearBootCounter, then mcuSystemReset.
ClearCounterAndReset ==
    /\ place = "clear"
    /\ mbx' = [mbx EXCEPT !.counter = 0]
    /\ place' = "init"
    /\ UNCHANGED <<slots, state, source, download, history, faults>>

-------------------------------------------------------------------------------
(* handleFallbackAppState and fallbackTask *)

InFallback == place = "loop" /\ state = "FALLBACK_APP"

\* fallbackTask fails: bootHandleFallbackError, then run what is in slot 0.
FallbackFails ==
    /\ InFallback
    /\ IF Headless(0) THEN \A s \in Others : Headless(s) ELSE ~CanFallBack
    /\ ChangeState("RUN_APP")
    /\ UNCHANGED <<slots, mbx, source, download, history, faults>>

\* No valid application: restore the image with the highest index.
FallbackRestores ==
    /\ InFallback /\ Headless(0)
    /\ \E s \in Others : ~Headless(s)
    /\ source' = RestoreSlot
    /\ place' = "header"
    /\ UNCHANGED <<slots, mbx, state, download, history, faults>>

\* Mutant: the slot of the image that failed is not deleted.
FallbackDeletesNothing ==
    /\ InFallback /\ CanFallBack
    /\ source' = BackupSlot
    /\ reverted' = reverted \cup {App}
    /\ place' = "header"
    /\ UNCHANGED <<slots, mbx, state, download, confirmed, boots, faults>>

\* A valid application: delete its copy, then restore the backup.
FallbackDeletes ==
    /\ InFallback /\ CanFallBack
    /\ slots' = [slots EXCEPT ![EquivSlot] = Empty]
    /\ source' = BackupSlot
    /\ reverted' = reverted \cup {App}
    /\ place' = "header"
    /\ UNCHANGED <<mbx, state, download, confirmed, boots, faults>>

\* The erasure fails, with or without the header gone.
FallbackDeleteError ==
    /\ InFallback /\ CanFallBack /\ FlashErrors /\ Fault
    /\ \/ UNCHANGED <<slots, reverted>>
       \/ /\ slots' = [slots EXCEPT ![EquivSlot] = Empty]
          /\ reverted' = reverted \cup {App}
    /\ ChangeState("RUN_APP")
    /\ UNCHANGED <<mbx, source, download, confirmed, boots>>

-------------------------------------------------------------------------------
(* The application *)

\* Only a whole image does what it is written for.
Running == place = "app" /\ slots[0].payload = "whole"

\* updateInit and the header of the update image, written to flash at once.
StartDownload ==
    /\ Running /\ download = 0 /\ App < MaxIndex
    /\ download' = GetUpdateSlot
    /\ slots' = [slots EXCEPT ![GetUpdateSlot] = Headed(App + 1)]
    /\ reverted' = reverted \ {App + 1}
    /\ UNCHANGED <<mbx, fsm, confirmed, boots, faults>>

\* The first chunks of the payload.
DownloadFirst ==
    /\ Running /\ download # 0 /\ slots[download].payload = "blank"
    /\ slots' = [slots EXCEPT ![download].payload = "part"]
    /\ UNCHANGED <<mbx, fsm, download, history, faults>>

\* The last chunk, and the digest of what was received, be it damaged or not.
DownloadRest ==
    /\ Running /\ download # 0
    /\ slots[download].payload = "part" /\ ~slots[download].sealed
    /\ \E p \in {"part", "whole"} :
           slots' = [slots EXCEPT ![download].payload = p, ![download].sealed = TRUE]
    /\ UNCHANGED <<mbx, fsm, download, history, faults>>

\* updateFinalize verifies the image received.
FinalizeDownload ==
    /\ Running /\ download # 0
    /\ slots[download].sealed /\ slots[download].payload = "whole"
    /\ download' = 0
    /\ UNCHANGED <<slots, mbx, fsm, history, faults>>

\* Mutant: a download that failed is left where it is.
DiscardDownloadNot ==
    /\ Running /\ download # 0
    /\ ~(slots[download].sealed /\ slots[download].payload = "whole")
    /\ download' = 0
    /\ UNCHANGED <<slots, mbx, fsm, history, faults>>

\* A download that fails, or does not verify: its header is erased.
DiscardDownload ==
    /\ Running /\ download # 0
    /\ ~(slots[download].sealed /\ slots[download].payload = "whole")
    /\ slots' = [slots EXCEPT ![download] = Empty]
    /\ download' = 0
    /\ UNCHANGED <<mbx, fsm, history, faults>>

\* mailBoxSetUpdateConfirmed(TRUE)
Confirm ==
    /\ Running /\ ~Confirmed
    /\ mbx' = [mbx EXCEPT !.flags = @ \cup {"UPDATE_CONFIRMED"}]
    /\ confirmed' = TRUE
    /\ UNCHANGED <<slots, fsm, download, reverted, boots, faults>>

\* mailBoxClearBootCounter
ClearBootCounter ==
    /\ Running
    /\ mbx' = [mbx EXCEPT !.counter = 0]
    /\ boots' = 0
    /\ UNCHANGED <<slots, fsm, download, reverted, confirmed, faults>>

\* mailBoxSetFallbackRequested
RequestFallback ==
    /\ Running
    /\ \/ mbx' = [mbx EXCEPT !.flags = @ \cup {"FALLBACK_REQUESTED"}]
       \/ mbx' = [mbx EXCEPT !.flags = @ \ {"FALLBACK_REQUESTED"}]
    /\ UNCHANGED <<slots, fsm, download, history, faults>>

-------------------------------------------------------------------------------
(* Resets and power losses *)

\* A reset while a header is written may leave no valid header.
Interrupted ==
    /\ download = 0 \/ DownloadResets
    /\ slots' \in {slots} \cup
           (IF place = "header" THEN {[slots EXCEPT ![0] = Empty]} ELSE {})
    /\ place' = "init" /\ download' = 0
    /\ UNCHANGED <<state, source>>

\* The application resets the device, or its watchdog does.
AppReset == place = "app" /\ Interrupted /\ UNCHANGED <<mbx, history, faults>>

\* A reset of the bootloader: the mailbox survives.
BootReset ==
    /\ place \notin {"init", "app"} /\ Resets /\ Fault
    /\ Interrupted
    /\ UNCHANGED <<mbx, history>>

\* A power loss: the mailbox has no signature any more.
PowerLoss ==
    /\ place # "init" /\ PowerLosses /\ Fault
    /\ Interrupted
    /\ mbx' = [mbx EXCEPT !.sig = FALSE]
    /\ confirmed' = FALSE
    /\ UNCHANGED <<reverted, boots>>

-------------------------------------------------------------------------------
(* Specification *)

Handlers == HandleFallbackTriggers \/ HandleIdle \/ RunInvalid \/ RunAppCorrupted
                \/ RunAppNoVector \/ RunApp \/ HandleUpdateApp \/ HandleError
Copy     == CopyHeader \/ CopyFirst \/ CopyRest \/ CopyDigest
Outcome  == SetUpdatePerformed \/ ClearUpdateConfirmed \/ SetFallbackPerformed
                \/ ClearCounterAndReset
Fallback == FallbackFails \/ FallbackRestores \/ FallbackDeletes
Boot     == BootInit \/ Handlers \/ Copy \/ Outcome \/ Fallback

Download    == StartDownload \/ DownloadFirst \/ DownloadRest \/ FinalizeDownload
                   \/ DiscardDownload
Application == Download \/ Confirm \/ ClearBootCounter \/ RequestFallback \/ AppReset
Failures    == CopyError \/ FallbackDeleteError \/ BootReset \/ PowerLoss

Next == Boot \/ CallAgain \/ Application \/ Failures

\* The bootloader is the only thread of the processor and never waits.
Spec == Init /\ [][Next]_vars /\ WF_vars(Boot)

-------------------------------------------------------------------------------
(* Properties *)

\* As long as no download is cut off, some slot holds a whole image under a
\* valid header, wherever the bootloader is reset and whatever flash operation
\* fails: neither a copy nor the deletion before a fallback destroys the last
\* image (boot_common.c:433-678, boot_fallback.c:178-189).
SomeImageWhole == \E s \in 0 .. 2 : ~Headless(s) /\ slots[s].payload = "whole"

\* An image that fallback has withdrawn is not installed again unless it is
\* downloaded again: the copy it was installed from is deleted before the
\* backup is restored, even when resets fall between (boot_fallback.c:178-189).
RevertedStaysReverted ==
    [][slots'[0].idx # App => slots'[0].idx \notin reverted]_slots

\* The running application has a whole copy in slot 1 or 2, unless it is the
\* factory image or a fallback from it was cut off: downloads never overwrite
\* the copy that a later fallback or restore needs (update.c:727-787).
AppHasCopy ==
    place = "app" =>
        \/ App = 1
        \/ App \in reverted
        \/ \E s \in Others : slots[s].idx = App /\ slots[s].payload = "whole"

\* A call of bootFsm ends: in the application, or with an error (boot.c:161-214).
BootEnds == (place = "init") ~> (place \in {"app", "return"})

\* An application that has confirmed itself, and was started less than
\* MaxAttempts times since it cleared the counter, is replaced by an older
\* image only on request, whatever fails, as long as the mailbox remembers it
\* (boot.c:366-389).
ConfirmedAppKept ==
    [][slots'[0].idx \in 1 .. App - 1 =>
           \/ ~confirmed
           \/ boots >= MaxAttempts
           \/ "FALLBACK_REQUESTED" \in mbx.flags]_slots

\* The mailbox never calls an image confirmed that has not confirmed itself,
\* unless a fault falls between the begin of the copy and the write that takes
\* the old confirmation back (boot.c:532-546, 563-568).
ConfirmationIsOwn == faults = 0 /\ place = "app" /\ Confirmed => confirmed

\* Without faults, a complete download is installed at the next boot of a
\* confirmed application (boot.c:413-447, 505-550).
StagedUpdateInstalled ==
    \A i \in 1 .. MaxIndex :
        (/\ place = "init" /\ ~FallbackTrigger /\ faults = 0
         /\ App < i
         /\ \E s \in Others : slots[s].idx = i /\ slots[s].payload = "whole")
        ~> \/ slots[0].idx >= i /\ slots[0].payload = "whole"
           \/ faults > 0

\* README.md:5-6: "automatic fallback after 3 failed boot attempts": on its own
\* the bootloader replaces an application by an older image only behind
\* MaxAttempts starts of which the application has cleared none.
FallbackAfterMaxAttempts ==
    [][slots'[0].idx \in 1 .. App - 1 =>
           \/ boots >= MaxAttempts
           \/ "FALLBACK_REQUESTED" \in mbx.flags]_slots

\* The application that is started is whole (boot.c:449-503).
RunsWholeImage == place = "app" => slots[0].payload = "whole"

\* update.c:289-290: "make sure bootloader doesn't consider it as a new valid
\* update image if a reboot occurs": what is installed was completely received.
InstallsOnlyComplete == place = "header" => slots[source].payload = "whole"
===============================================================================

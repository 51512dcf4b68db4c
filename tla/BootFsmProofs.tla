---------------------------- MODULE BootFsmProofs ----------------------------
(***************************************************************************)
(* Theorems about BootFsm, for every bound on image indices, attempts and  *)
(* faults, and every combination of the faults the theorem allows.         *)
(***************************************************************************)
EXTENDS BootFsm, TLAPS

-------------------------------------------------------------------------------
(* Types *)

\* The slots the bootloader chooses exist.
LEMMA SlotChoices ==
    ASSUME TypeOK
    PROVE  /\ GetUpdateSlot \in Others
           /\ RestoreSlot \in Others
           /\ EquivSlot \in Others /\ BackupSlot \in Others
           /\ EquivSlot # BackupSlot
           /\ SelectUpdateImageSlot # 0 =>
                  /\ SelectUpdateImageSlot \in Others
                  /\ slots[SelectUpdateImageSlot].idx > App
           /\ SelectUpdateImageSlot \in 0 .. 2
<1>1. Newer # {} => \E s \in Newer : \A t \in Newer :
             \/ slots[s].idx > slots[t].idx
             \/ slots[s].idx = slots[t].idx /\ s <= t
  BY DEF TypeOK, SlotContent, Newer, Others, App
<1>2. Newer # {} => SelectUpdateImageSlot \in Newer
  BY <1>1 DEF SelectUpdateImageSlot
<1>3. QED
  BY <1>2 DEF SelectUpdateImageSlot, Newer, GetUpdateSlot, RestoreSlot, EquivSlot,
       BackupSlot, Others

LEMMA SlotTypes ==
    /\ Empty \in SlotContent
    /\ \A i \in 1 .. MaxIndex : Intact(i) \in SlotContent
    /\ \A i \in 0 .. MaxIndex : Headed(i) \in SlotContent
BY BoundAssumption DEF Empty, Intact, Headed, SlotContent

\* Writing a slot, in part or as a whole, gives slots again.
LEMMA SlotWrites ==
    ASSUME TypeOK, NEW s \in 0 .. 2
    PROVE  /\ \A c \in SlotContent : [slots EXCEPT ![s] = c] \in [0 .. 2 -> SlotContent]
           /\ \A p \in {"blank", "part", "whole"} :
                  /\ [slots EXCEPT ![s].payload = p] \in [0 .. 2 -> SlotContent]
                  /\ [slots EXCEPT ![s].payload = p, ![s].sealed = TRUE]
                         \in [0 .. 2 -> SlotContent]
           /\ [slots EXCEPT ![s].sealed = TRUE] \in [0 .. 2 -> SlotContent]
           /\ slots[s].idx \in 0 .. MaxIndex
           /\ slots[s].payload \in {"blank", "part", "whole"}
BY DEF TypeOK, SlotContent

\* Every write to the mailbox gives a mailbox again.
LEMMA MailBoxWrites ==
    ASSUME TypeOK
    PROVE  /\ [sig |-> TRUE, flags |-> {}, counter |-> 0] \in MailBox
           /\ [mbx EXCEPT !.counter = 0] \in MailBox
           /\ [mbx EXCEPT !.counter = (@ + 1) % CounterSize] \in MailBox
           /\ [mbx EXCEPT !.sig = FALSE] \in MailBox
           /\ \A f \in Flags : /\ [mbx EXCEPT !.flags = @ \cup {f}] \in MailBox
                               /\ [mbx EXCEPT !.flags = @ \ {f}] \in MailBox
<1>1. mbx = [sig |-> mbx.sig, flags |-> mbx.flags, counter |-> mbx.counter]
  BY DEF TypeOK, MailBox
<1>2. mbx.sig \in BOOLEAN /\ mbx.flags \subseteq Flags /\ mbx.counter \in 0 .. CounterSize - 1
  BY DEF TypeOK, MailBox
<1>3. (mbx.counter + 1) % CounterSize \in 0 .. CounterSize - 1
  BY <1>2, BoundAssumption
<1>4. 0 \in 0 .. CounterSize - 1
  BY BoundAssumption
<1>5. \A f \in Flags : mbx.flags \cup {f} \subseteq Flags /\ mbx.flags \ {f} \subseteq Flags
  BY <1>2
<1>6. [sig |-> TRUE, flags |-> {}, counter |-> 0] \in MailBox
  BY <1>4 DEF MailBox
<1>7. /\ [mbx EXCEPT !.counter = 0] \in MailBox
      /\ [mbx EXCEPT !.counter = (@ + 1) % CounterSize] \in MailBox
      /\ [mbx EXCEPT !.sig = FALSE] \in MailBox
  BY <1>1, <1>2, <1>3, <1>4 DEF MailBox
<1>8. ASSUME NEW f \in Flags
      PROVE  /\ [mbx EXCEPT !.flags = @ \cup {f}] \in MailBox
             /\ [mbx EXCEPT !.flags = @ \ {f}] \in MailBox
  BY <1>1, <1>2, <1>5 DEF MailBox
<1>9. QED
  BY <1>6, <1>7, <1>8

\* Every step keeps the types.
LEMMA TypeStep == TypeOK /\ [Next]_vars => TypeOK'
<1> SUFFICES ASSUME TypeOK, [Next]_vars PROVE TypeOK'
  OBVIOUS
<1>1. slots' \in [0 .. 2 -> SlotContent]
  <2>1. CASE UNCHANGED slots
    BY <2>1 DEF TypeOK
  <2>2. CASE Copy
    <3>1. 0 \in 0 .. 2 /\ source \in 0 .. 2
      BY DEF TypeOK
    <3>2. CASE CopyHeader
      <4>1. Headed(slots[source].idx) \in SlotContent
        BY <3>1, SlotWrites, SlotTypes
      <4>2. QED
        BY <3>1, <3>2, <4>1, SlotWrites DEF CopyHeader
    <3>3. CASE CopyFirst
      <4> DEFINE p == IF slots[source].payload = "blank" THEN "blank" ELSE "part"
      <4>1. p \in {"blank", "part", "whole"}
        OBVIOUS
      <4> HIDE DEF p
      <4>2. [slots EXCEPT ![0].payload = p] \in [0 .. 2 -> SlotContent]
        BY <3>1, <4>1, SlotWrites
      <4>3. QED
        BY <3>3, <4>2 DEF CopyFirst, p
    <3>4. CASE CopyRest
      <4>1. PICK p \in {slots[0].payload, slots[source].payload} :
              slots' = [slots EXCEPT ![0].payload = p]
        BY <3>4 DEF CopyRest
      <4>2. p \in {"blank", "part", "whole"}
        BY <3>1, SlotWrites
      <4>3. QED
        BY <3>1, <4>1, <4>2, SlotWrites
    <3>5. CASE CopyDigest
      BY <3>1, <3>5, SlotWrites DEF CopyDigest
    <3>6. QED
      BY <2>2, <3>2, <3>3, <3>4, <3>5 DEF Copy
  <2>3. CASE FallbackDeletes \/ FallbackDeleteError \/ CopyError
    BY <2>3, SlotWrites, SlotTypes, SlotChoices DEF FallbackDeletes,
         FallbackDeleteError, CopyError, Others, TypeOK
  <2>4. CASE StartDownload
    <3>1. App + 1 \in 0 .. MaxIndex
      BY <2>4, SlotWrites, BoundAssumption DEF StartDownload, App
    <3>2. Headed(App + 1) \in SlotContent
      BY <3>1, SlotTypes
    <3>3. QED
      BY <2>4, <3>2, SlotWrites, SlotChoices DEF StartDownload, Others
  <2>5. CASE DownloadFirst \/ DownloadRest \/ DiscardDownload
    <3>0. download \in 0 .. 2
      BY DEF TypeOK
    <3>1. CASE DownloadFirst
      BY <3>0, <3>1, SlotWrites DEF DownloadFirst
    <3>2. CASE DownloadRest
      <4>1. PICK p \in {"part", "whole"} :
              slots' = [slots EXCEPT ![download].payload = p, ![download].sealed = TRUE]
        BY <3>2 DEF DownloadRest
      <4>2. QED
        BY <3>0, <4>1, SlotWrites
    <3>3. CASE DiscardDownload
      BY <3>0, <3>3, SlotWrites, SlotTypes DEF DiscardDownload
    <3>4. QED
      BY <2>5, <3>1, <3>2, <3>3
  <2>6. CASE AppReset \/ BootReset \/ PowerLoss
    BY <2>6, SlotWrites, SlotTypes DEF AppReset, BootReset, PowerLoss, Interrupted,
         TypeOK
  <2>7. QED
    BY <2>1, <2>2, <2>3, <2>4, <2>5, <2>6
       DEF Next, Boot, Handlers, Copy, Outcome, Fallback, Application, Download,
           Failures, BootInit, CallAgain, HandleFallbackTriggers, HandleIdle,
           RunInvalid, RunAppCorrupted, RunAppNoVector, RunApp, HandleUpdateApp,
           HandleError, SetUpdatePerformed, ClearUpdateConfirmed,
           SetFallbackPerformed, ClearCounterAndReset, FallbackFails,
           FallbackRestores, FinalizeDownload, Confirm, ClearBootCounter,
           RequestFallback, vars
<1>2. mbx' \in MailBox
  BY MailBoxWrites
     DEF TypeOK, Flags, Next, Boot, Handlers, Copy, Outcome, Fallback, Application,
         Download, Failures, BootInit, CallAgain, HandleFallbackTriggers, HandleIdle,
         RunInvalid, RunAppCorrupted, RunAppNoVector, RunApp, HandleUpdateApp,
         HandleError, CopyHeader, CopyFirst, CopyRest, CopyDigest, SetUpdatePerformed,
         ClearUpdateConfirmed, SetFallbackPerformed, ClearCounterAndReset,
         FallbackFails, FallbackRestores, FallbackDeletes, StartDownload, DownloadFirst,
         DownloadRest, FinalizeDownload, DiscardDownload, Confirm, ClearBootCounter,
         RequestFallback, AppReset, CopyError, FallbackDeleteError, BootReset,
         PowerLoss, vars, fsm, history
<1>3. state' \in States /\ place' \in Places
  BY DEF TypeOK, States, Places, ChangeState, Interrupted, Next, Boot, Handlers, Copy,
       Outcome, Fallback, Application, Download, Failures, BootInit, CallAgain,
       HandleFallbackTriggers, HandleIdle, RunInvalid, RunAppCorrupted, RunAppNoVector,
       RunApp, HandleUpdateApp, HandleError, CopyHeader, CopyFirst, CopyRest,
       CopyDigest, SetUpdatePerformed, ClearUpdateConfirmed, SetFallbackPerformed,
       ClearCounterAndReset, FallbackFails, FallbackRestores, FallbackDeletes,
       StartDownload, DownloadFirst, DownloadRest, FinalizeDownload, DiscardDownload,
       Confirm, ClearBootCounter, RequestFallback, AppReset, CopyError,
       FallbackDeleteError, BootReset, PowerLoss, vars, fsm, history
<1>4. source' \in 0 .. 2 /\ download' \in 0 .. 2
  BY SlotChoices
     DEF TypeOK, Others, ChangeState, Interrupted, Next, Boot, Handlers, Copy, Outcome,
         Fallback, Application, Download, Failures, BootInit, CallAgain,
         HandleFallbackTriggers, HandleIdle, RunInvalid, RunAppCorrupted,
         RunAppNoVector, RunApp, HandleUpdateApp, HandleError, CopyHeader, CopyFirst,
         CopyRest, CopyDigest, SetUpdatePerformed, ClearUpdateConfirmed,
         SetFallbackPerformed, ClearCounterAndReset, FallbackFails, FallbackRestores,
         FallbackDeletes, StartDownload, DownloadFirst, DownloadRest, FinalizeDownload,
         DiscardDownload, Confirm, ClearBootCounter, RequestFallback, AppReset,
         CopyError, FallbackDeleteError, BootReset, PowerLoss, vars, fsm, history
<1>5. reverted' \subseteq 1 .. MaxIndex
  BY SlotWrites, BoundAssumption
     DEF TypeOK, InFallback, CanFallBack, Headless, App, Next, Boot, Handlers, Copy,
         Outcome, Fallback, Application, Download, Failures, BootInit, CallAgain,
         HandleFallbackTriggers, HandleIdle, RunInvalid, RunAppCorrupted,
         RunAppNoVector, RunApp, HandleUpdateApp, HandleError, CopyHeader, CopyFirst,
         CopyRest, CopyDigest, SetUpdatePerformed, ClearUpdateConfirmed,
         SetFallbackPerformed, ClearCounterAndReset, FallbackFails, FallbackRestores,
         FallbackDeletes, StartDownload, DownloadFirst, DownloadRest, FinalizeDownload,
         DiscardDownload, Confirm, ClearBootCounter, RequestFallback, AppReset,
         CopyError, FallbackDeleteError, BootReset, PowerLoss, vars, fsm, history
<1>6. confirmed' = confirmed \/ confirmed' = TRUE \/ confirmed' = FALSE
  BY DEF Next, Boot, Handlers, Copy, Outcome, Fallback, Application, Download,
         Failures, BootInit, CallAgain, HandleFallbackTriggers, HandleIdle,
         RunInvalid, RunAppCorrupted, RunAppNoVector, RunApp, HandleUpdateApp,
         HandleError, CopyHeader, CopyFirst, CopyRest, CopyDigest,
         SetUpdatePerformed, ClearUpdateConfirmed, SetFallbackPerformed,
         ClearCounterAndReset, FallbackFails, FallbackRestores, FallbackDeletes,
         StartDownload, DownloadFirst, DownloadRest, FinalizeDownload,
         DiscardDownload, Confirm, ClearBootCounter, RequestFallback, AppReset,
         CopyError, FallbackDeleteError, BootReset, PowerLoss, vars, fsm,
         history
<1>7. boots' \in 0 .. MaxAttempts
  BY BoundAssumption
     DEF TypeOK, Next, Boot, Handlers, Copy, Outcome, Fallback, Application, Download,
         Failures, BootInit, CallAgain, HandleFallbackTriggers, HandleIdle,
         RunInvalid, RunAppCorrupted, RunAppNoVector, RunApp, HandleUpdateApp,
         HandleError, CopyHeader, CopyFirst, CopyRest, CopyDigest,
         SetUpdatePerformed, ClearUpdateConfirmed, SetFallbackPerformed,
         ClearCounterAndReset, FallbackFails, FallbackRestores, FallbackDeletes,
         StartDownload, DownloadFirst, DownloadRest, FinalizeDownload,
         DiscardDownload, Confirm, ClearBootCounter, RequestFallback, AppReset,
         CopyError, FallbackDeleteError, BootReset, PowerLoss, vars, fsm,
         history
<1>8. faults' \in 0 .. MaxFaults
  BY BoundAssumption
     DEF TypeOK, Fault, Next, Boot, Handlers, Copy, Outcome, Fallback, Application,
         Download, Failures, BootInit, CallAgain, HandleFallbackTriggers, HandleIdle,
         RunInvalid, RunAppCorrupted, RunAppNoVector, RunApp, HandleUpdateApp,
         HandleError, CopyHeader, CopyFirst, CopyRest, CopyDigest, SetUpdatePerformed,
         ClearUpdateConfirmed, SetFallbackPerformed, ClearCounterAndReset,
         FallbackFails, FallbackRestores, FallbackDeletes, StartDownload, DownloadFirst,
         DownloadRest, FinalizeDownload, DiscardDownload, Confirm, ClearBootCounter,
         RequestFallback, AppReset, CopyError, FallbackDeleteError, BootReset,
         PowerLoss, vars, fsm, history
<1>9. QED
  BY <1>1, <1>2, <1>3, <1>4, <1>5, <1>6, <1>7, <1>8 DEF TypeOK

LEMMA InitTypes == Init => TypeOK
<1> SUFFICES ASSUME Init PROVE TypeOK
  OBVIOUS
<1>1. Intact(1) \in SlotContent /\ Empty \in SlotContent
  BY SlotTypes, BoundAssumption
<1>2. slots \in [0 .. 2 -> SlotContent]
  BY <1>1 DEF Init
<1>3. mbx \in MailBox
  BY BoundAssumption DEF Init, MailBox
<1>4. state \in States /\ place \in Places
  BY DEF Init, States, Places
<1>5. reverted \subseteq 1 .. MaxIndex /\ confirmed \in BOOLEAN
  BY DEF Init
<1>6. /\ source \in 0 .. 2 /\ download \in 0 .. 2
      /\ boots \in 0 .. MaxAttempts /\ faults \in 0 .. MaxFaults
  BY BoundAssumption DEF Init
<1>7. QED
  BY <1>2, <1>3, <1>4, <1>5, <1>6 DEF TypeOK

\* The variables keep their types; the 32-bit boot counter wraps.
THEOREM TypeCorrect == Spec => []TypeOK
<1>1. Init => TypeOK
  BY InitTypes
<1>2. QED
  BY <1>1, TypeStep, PTL DEF Spec

-------------------------------------------------------------------------------
(* The slots and the place of the bootloader *)

\* What is copied is another slot with a valid header.
CopySource == source \in Others /\ ~Headless(source)

\* A download runs only under an application; a copy only from a slot with a
\* valid header, which the handler or the fallback has just selected.
ControlInv ==
    /\ place = "app" => ~Headless(0)
    /\ download # 0 => place = "app" /\ slots[0].payload = "whole"
    /\ Copying => CopySource
    /\ place = "loop" /\ state = "UPDATE_APP" => CopySource
    /\ place \in {"call", "return"} => state # "UPDATE_APP"

\* Slots 1 and 2 hold no image whose copy fallback has deleted.
WithdrawnInv == \A s \in Others : slots[s].idx \notin reverted

Inv == TypeOK /\ ControlInv /\ WithdrawnInv

\* The actions that write no slot.
Quiet == \/ BootInit \/ CallAgain \/ Handlers \/ Outcome
         \/ FallbackFails \/ FallbackRestores
         \/ FinalizeDownload \/ Confirm \/ ClearBootCounter \/ RequestFallback

\* The steps of a download that write to flash.
Writing == StartDownload \/ DownloadFirst \/ DownloadRest \/ DiscardDownload

\* A step that changes a slot is one of a copy, a deletion, a download or an
\* interruption.
LEMMA WritingSteps ==
    ASSUME [Next]_vars
    PROVE  \/ UNCHANGED vars \/ Quiet
           \/ Copy \/ CopyError
           \/ FallbackDeletes \/ FallbackDeleteError
           \/ Writing
           \/ AppReset \/ BootReset \/ PowerLoss
BY DEF Quiet, Writing, Next, Boot, Copy, Fallback, Application, Download, Failures

LEMMA QuietSlots == Quiet => UNCHANGED <<slots, reverted>>
BY DEF Quiet, Handlers, Outcome, history, fsm, BootInit, CallAgain,
       HandleFallbackTriggers, HandleIdle, RunInvalid,
       RunAppCorrupted, RunAppNoVector, RunApp, HandleUpdateApp, HandleError,
       SetUpdatePerformed, ClearUpdateConfirmed, SetFallbackPerformed,
       ClearCounterAndReset, FallbackFails, FallbackRestores, FinalizeDownload,
       Confirm, ClearBootCounter, RequestFallback

\* A slot once written reads back what was written.
LEMMA SlotReads ==
    ASSUME TypeOK, NEW s \in 0 .. 2, NEW t \in 0 .. 2
    PROVE  /\ \A c : [slots EXCEPT ![s] = c][t] = IF t = s THEN c ELSE slots[t]
           /\ \A p : /\ [slots EXCEPT ![s].payload = p][t].idx = slots[t].idx
                     /\ [slots EXCEPT ![s].payload = p][t].sealed = slots[t].sealed
                     /\ [slots EXCEPT ![s].payload = p][t].payload
                            = IF t = s THEN p ELSE slots[t].payload
                     /\ t # s => [slots EXCEPT ![s].payload = p][t] = slots[t]
                     /\ [slots EXCEPT ![s].payload = p, ![s].sealed = TRUE][t].idx
                            = slots[t].idx
                     /\ [slots EXCEPT ![s].payload = p, ![s].sealed = TRUE][t].payload
                            = IF t = s THEN p ELSE slots[t].payload
                     /\ t # s => [slots EXCEPT ![s].payload = p, ![s].sealed = TRUE][t]
                            = slots[t]
           /\ [slots EXCEPT ![s].sealed = TRUE][t].idx = slots[t].idx
           /\ [slots EXCEPT ![s].sealed = TRUE][t].payload = slots[t].payload
           /\ t # s => [slots EXCEPT ![s].sealed = TRUE][t] = slots[t]
BY DEF TypeOK, SlotContent

\* The slot that a download writes to.
Target == IF download = 0 THEN GetUpdateSlot ELSE download

\* A step of a download writes no other slot, and leaves no header there when
\* it gives up.
LEMMA DownloadWrites ==
    ASSUME TypeOK, Writing
    PROVE  /\ Target \in Others
           /\ download' \in {0, Target} /\ download \in {0, Target}
           /\ download' = 0 => slots'[Target].idx = 0
           /\ \A t \in 0 .. 2 : t # Target => slots'[t] = slots[t]
<1>0. /\ 0 \in 0 .. 2 /\ \A s \in Others : s \in 0 .. 2 /\ s # 0
      /\ download \in 0 .. 2 /\ Empty.idx = 0
  BY DEF TypeOK, Others, Empty
<1>1. CASE StartDownload
  <2>1. /\ slots' = [slots EXCEPT ![GetUpdateSlot] = Headed(App + 1)]
        /\ download = 0 /\ download' = GetUpdateSlot
    BY <1>1 DEF StartDownload
  <2>2. GetUpdateSlot \in Others
    BY SlotChoices
  <2>3. \A t \in 0 .. 2 : t # GetUpdateSlot => slots'[t] = slots[t]
    BY <1>0, <2>1, <2>2, SlotReads
  <2>4. QED
    BY <1>0, <2>1, <2>2, <2>3 DEF Target
<1>2. CASE DownloadFirst
  <2>1. /\ slots' = [slots EXCEPT ![download].payload = "part"]
        /\ download # 0 /\ UNCHANGED download
    BY <1>2 DEF DownloadFirst
  <2>2. \A t \in 0 .. 2 : t # download => slots'[t] = slots[t]
    BY <1>0, <2>1, SlotReads
  <2>3. QED
    BY <1>0, <2>1, <2>2 DEF Others, Target
<1>3. CASE DownloadRest
  <2>1. PICK p \in {"part", "whole"} :
          slots' = [slots EXCEPT ![download].payload = p, ![download].sealed = TRUE]
    BY <1>3 DEF DownloadRest
  <2>2. \A t \in 0 .. 2 : t # download => slots'[t] = slots[t]
    BY <1>0, <2>1, SlotReads
  <2>3. download # 0 /\ UNCHANGED download
    BY <1>3 DEF DownloadRest
  <2>4. QED
    BY <1>0, <2>2, <2>3 DEF Others, Target
<1>4. CASE DiscardDownload
  <2>1. /\ slots' = [slots EXCEPT ![download] = Empty]
        /\ download # 0 /\ download' = 0
    BY <1>4 DEF DiscardDownload
  <2>2. /\ \A t \in 0 .. 2 : t # download => slots'[t] = slots[t]
        /\ slots'[download].idx = 0
    BY <1>0, <2>1, SlotReads
  <2>3. QED
    BY <1>0, <2>1, <2>2 DEF Others, Target
<1>5. QED
  BY <1>1, <1>2, <1>3, <1>4 DEF Writing

\* Every step keeps the control invariant.
LEMMA ControlStep == TypeOK /\ ControlInv /\ [Next]_vars => ControlInv'
<1> SUFFICES ASSUME TypeOK, ControlInv, [Next]_vars PROVE ControlInv'
  OBVIOUS
<1>1. CASE BootInit \/ CallAgain \/ UNCHANGED vars
  BY <1>1 DEF ControlInv, CopySource, Copying, Headless, BootInit, CallAgain, vars, fsm
<1>2. CASE HandleIdle
  BY <1>2, SlotChoices DEF ControlInv, CopySource, Copying, Headless, HandleIdle,
       ChangeState, App, TypeOK, SlotContent, Others
<1>3. CASE Handlers /\ ~HandleIdle
  BY <1>3 DEF ControlInv, CopySource, Copying, Headless, Handlers,
       HandleFallbackTriggers, RunInvalid, CheckedApp, RunAppCorrupted,
       RunAppNoVector, RunApp, HandleUpdateApp, HandleError, ChangeState
<1>4. CASE Copy
  BY <1>4, SlotReads DEF ControlInv, CopySource, Copying, Headless, Headed, Others,
       Copy, CopyHeader, CopyFirst, CopyRest, CopyDigest
<1>5. CASE Outcome \/ Confirm \/ ClearBootCounter \/ RequestFallback
  BY <1>5 DEF ControlInv, CopySource, Copying, Headless, Outcome, SetUpdatePerformed,
       ClearUpdateConfirmed, SetFallbackPerformed, ClearCounterAndReset, Confirm,
       ClearBootCounter, RequestFallback, fsm
<1>6. CASE FallbackFails
  BY <1>6 DEF ControlInv, CopySource, Copying, FallbackFails, InFallback, ChangeState
<1>7. CASE FallbackRestores
  <2>1. ~Headless(RestoreSlot)
    BY <1>7 DEF FallbackRestores, RestoreSlot, Headless, Others, TypeOK, SlotContent
  <2>2. QED
    BY <1>7, <2>1, SlotChoices DEF ControlInv, CopySource, Copying, FallbackRestores,
         InFallback, Headless
<1>8. CASE FallbackDeletes
  BY <1>8, SlotChoices, SlotReads DEF ControlInv, CopySource, Copying, FallbackDeletes,
       InFallback, CanFallBack, Headless, Others
<1>9. CASE Download
  BY <1>9, SlotChoices, SlotReads DEF ControlInv, CopySource, Copying, Headless, Others,
       Running, Download, StartDownload, DownloadFirst, DownloadRest, FinalizeDownload,
       DiscardDownload, fsm, TypeOK
<1>10. CASE CopyError \/ FallbackDeleteError
  BY <1>10 DEF ControlInv, CopySource, Copying, CopyError, FallbackDeleteError,
       InFallback, ChangeState
<1>11. CASE AppReset \/ BootReset \/ PowerLoss
  BY <1>11 DEF ControlInv, Copying, AppReset, BootReset, PowerLoss, Interrupted
<1>12. QED
  BY <1>1, <1>2, <1>3, <1>4, <1>5, <1>6, <1>7, <1>8, <1>9, <1>10, <1>11
     DEF Next, Boot, Fallback, Application, Failures

\* Every step keeps withdrawn images out of slots 1 and 2.
LEMMA WithdrawnStep ==
    TypeOK /\ ControlInv /\ WithdrawnInv /\ [Next]_vars => WithdrawnInv'
<1> SUFFICES ASSUME TypeOK, ControlInv, WithdrawnInv, [Next]_vars,
                    NEW s \in Others
             PROVE  (slots[s].idx)' \notin reverted'
  BY DEF WithdrawnInv
<1>0. 0 \notin reverted /\ s \in 0 .. 2 /\ s # 0 /\ slots[s].idx \notin reverted
  BY DEF TypeOK, Others, WithdrawnInv
<1>1. CASE UNCHANGED <<slots, reverted>>
  BY <1>0, <1>1
<1>2. CASE Copy \/ CopyError \/ AppReset \/ BootReset \/ PowerLoss
  BY <1>0, <1>2, SlotReads DEF Copy, CopyHeader, CopyFirst, CopyRest, CopyDigest,
       CopyError, AppReset, BootReset, PowerLoss, Interrupted, history
<1>3. CASE FallbackDeletes \/ FallbackDeleteError
  <2>1. slots[BackupSlot].idx < App /\ App # 0 /\ App \in Nat /\ slots[BackupSlot].idx \in Nat
    BY <1>3, SlotChoices DEF FallbackDeletes, FallbackDeleteError, CanFallBack,
         Headless, App, TypeOK, SlotContent, Others
  <2>2. s = EquivSlot \/ s = BackupSlot
    BY DEF EquivSlot, BackupSlot, Others
  <2>3. CASE UNCHANGED <<slots, reverted>>
    BY <1>0, <2>3
  <2>4. CASE /\ slots' = [slots EXCEPT ![EquivSlot] = Empty]
             /\ reverted' = reverted \cup {App}
    BY <1>0, <2>1, <2>2, <2>4, SlotChoices, SlotReads DEF Empty, Others
  <2>5. QED
    BY <1>3, <2>3, <2>4 DEF FallbackDeletes, FallbackDeleteError
<1>4. CASE StartDownload
  BY <1>0, <1>4, SlotChoices, SlotReads DEF StartDownload, Headed, Others
<1>5. CASE DownloadFirst \/ DownloadRest \/ DiscardDownload
  <2>0. download \in 0 .. 2 /\ Empty.idx = 0
    BY DEF TypeOK, Empty
  <2>1. CASE DownloadFirst
    BY <1>0, <2>0, <2>1, SlotReads DEF DownloadFirst, history
  <2>2. CASE DownloadRest
    <3>1. PICK p \in {"part", "whole"} :
            slots' = [slots EXCEPT ![download].payload = p, ![download].sealed = TRUE]
      BY <2>2 DEF DownloadRest
    <3>2. slots'[s].idx = slots[s].idx
      BY <1>0, <2>0, <3>1, SlotReads
    <3>3. QED
      BY <1>0, <2>2, <3>2 DEF DownloadRest, history
  <2>3. CASE DiscardDownload
    BY <1>0, <2>0, <2>3, SlotReads DEF DiscardDownload, history
  <2>4. QED
    BY <1>5, <2>1, <2>2, <2>3
<1>6. QED
  BY <1>1, <1>2, <1>3, <1>4, <1>5, WritingSteps, QuietSlots
     DEF vars, history, Writing

THEOREM Invariance == Spec => []Inv
<1>1. Init => Inv
  <2>1. Init => ControlInv /\ WithdrawnInv
    BY DEF Init, ControlInv, WithdrawnInv, Copying
  <2>2. QED
    BY <2>1, InitTypes DEF Inv
<1>2. Inv /\ [Next]_vars => Inv'
  BY TypeStep, ControlStep, WithdrawnStep DEF Inv
<1>3. QED
  BY <1>1, <1>2, PTL DEF Spec

\* An image whose copy fallback has deleted is not installed again before it
\* is downloaded again, wherever resets and errors fall (boot_fallback.c:178-189).
THEOREM RevertedStaysRevertedHolds == Spec => RevertedStaysReverted
<1>1. Inv /\ [Next]_vars => [slots'[0].idx # App => slots'[0].idx \notin reverted]_slots
  <2> SUFFICES ASSUME Inv, [Next]_vars, slots'[0].idx # App
               PROVE  slots'[0].idx \notin reverted
    OBVIOUS
  <2> USE DEF Inv
  <2>0. 0 \notin reverted /\ 0 \in 0 .. 2
    BY DEF TypeOK
  <2>1. CASE CopyHeader
    <3>1. CopySource
      BY <2>1 DEF ControlInv, Copying, CopyHeader
    <3>2. slots'[0].idx = slots[source].idx
      BY <2>0, <2>1, SlotReads DEF CopyHeader, Headed
    <3>3. QED
      BY <3>1, <3>2 DEF CopySource, WithdrawnInv
  <2>2. CASE CopyError \/ AppReset \/ BootReset \/ PowerLoss
    <3>1. slots' = slots \/ slots' = [slots EXCEPT ![0] = Empty]
      BY <2>2 DEF CopyError, AppReset, BootReset, PowerLoss, Interrupted
    <3>2. slots' = slots \/ slots'[0].idx = 0
      BY <2>0, <3>1, SlotReads DEF Empty
    <3>3. QED
      BY <2>0, <3>2 DEF App
  <2>3. CASE UNCHANGED slots
    BY <2>3 DEF App
  <2>4. CASE CopyFirst \/ CopyRest \/ CopyDigest
    <3>1. CASE CopyFirst \/ CopyRest
      <4>1. PICK p : slots' = [slots EXCEPT ![0].payload = p]
        BY <3>1 DEF CopyFirst, CopyRest
      <4>2. slots'[0].idx = slots[0].idx
        BY <2>0, <4>1, SlotReads
      <4>3. QED
        BY <4>2 DEF App
    <3>2. CASE CopyDigest
      <4>1. slots'[0].idx = slots[0].idx
        BY <2>0, <3>2, SlotReads DEF CopyDigest
      <4>2. QED
        BY <4>1 DEF App
    <3>3. QED
      BY <2>4, <3>1, <3>2
  <2>5. CASE FallbackDeletes \/ FallbackDeleteError
    <3>0. EquivSlot \in 0 .. 2 /\ EquivSlot # 0
      BY DEF EquivSlot
    <3>1. slots' = slots \/ slots' = [slots EXCEPT ![EquivSlot] = Empty]
      BY <2>5 DEF FallbackDeletes, FallbackDeleteError
    <3>2. slots'[0] = slots[0]
      BY <2>0, <3>0, <3>1, SlotReads
    <3>3. QED
      BY <3>2 DEF App
  <2>6. CASE Writing
    <3>1. slots'[0] = slots[0]
      BY <2>0, <2>6, DownloadWrites DEF Others
    <3>2. QED
      BY <3>1 DEF App
  <2>7. QED
    BY <2>1, <2>2, <2>3, <2>4, <2>5, <2>6, WritingSteps, QuietSlots DEF Copy, vars
<1>2. QED
  BY <1>1, Invariance, PTL DEF Spec, RevertedStaysReverted

-------------------------------------------------------------------------------
(* Some image is whole *)

\* Outside a download, every header in slots 1 and 2 has a whole image behind it.
CompleteInv ==
    /\ \A s \in Others : s # download /\ ~Headless(s) => slots[s].payload = "whole"
    /\ SomeImageWhole

\* A slot with a whole image that a step leaves alone shows a whole image.
LEMMA WholeStays ==
    ASSUME NEW s \in 0 .. 2, ~Headless(s), slots[s].payload = "whole", slots'[s] = slots[s]
    PROVE  SomeImageWhole'
BY DEF SomeImageWhole, Headless

\* A copy has a whole source, which it does not write.
LEMMA CopyKeepsWhole ==
    ASSUME TypeOK, ControlInv, CompleteInv, Copying,
           \A s \in Others : slots'[s] = slots[s]
    PROVE  CompleteInv'
<1>1. source \in Others /\ source \in 0 .. 2 /\ ~Headless(source) /\ download = 0
  BY DEF ControlInv, CopySource, Others, Copying
<1>2. slots[source].payload = "whole"
  BY <1>1 DEF CompleteInv, Others
<1>3. SomeImageWhole'
  BY <1>1, <1>2, WholeStays
<1>4. \A s \in Others : slots'[s].idx # 0 => slots'[s].payload = "whole"
  BY <1>1 DEF CompleteInv, Headless, Others
<1>5. QED
  BY <1>3, <1>4 DEF CompleteInv, Headless

\* Every step keeps a whole image, when no download is cut off.
LEMMA CompleteStep ==
    ASSUME DownloadResets = FALSE, TypeOK, ControlInv, CompleteInv, [Next]_vars
    PROVE  CompleteInv'
<1>0. /\ 0 \in 0 .. 2 /\ \A s \in Others : s \in 0 .. 2 /\ s # 0
      /\ download \in 0 .. 2 /\ Empty.idx = 0
  BY DEF TypeOK, Others, Empty
<1>1. CASE UNCHANGED <<slots, download>>
  BY <1>1 DEF CompleteInv, SomeImageWhole, Headless
<1>2. CASE Quiet /\ ~FinalizeDownload
  BY <1>1, <1>2, QuietSlots DEF Quiet, Handlers, Outcome, BootInit, CallAgain,
       HandleFallbackTriggers, HandleIdle, RunInvalid, RunAppCorrupted, RunAppNoVector,
       RunApp, HandleUpdateApp, HandleError, SetUpdatePerformed, ClearUpdateConfirmed,
       SetFallbackPerformed, ClearCounterAndReset, FallbackFails, FallbackRestores,
       Confirm, ClearBootCounter, RequestFallback
<1>3. CASE FinalizeDownload
  BY <1>3 DEF FinalizeDownload, CompleteInv, SomeImageWhole, Headless
<1>4. CASE Copy \/ CopyError
  <2>1. Copying
    BY <1>4 DEF Copy, CopyHeader, CopyFirst, CopyRest, CopyDigest, CopyError, Copying
  <2>2. \A s \in Others : slots'[s] = slots[s]
    BY <1>0, <1>4, SlotReads DEF Copy, CopyHeader, CopyFirst, CopyRest, CopyDigest,
         CopyError
  <2>3. QED
    BY <2>1, <2>2, CopyKeepsWhole
<1>5. CASE AppReset \/ BootReset \/ PowerLoss
  <2>1. Interrupted
    BY <1>5 DEF AppReset, BootReset, PowerLoss
  <2>2. CASE UNCHANGED slots
    BY <1>1, <2>1, <2>2 DEF Interrupted
  <2>3. CASE place = "header" /\ slots' = [slots EXCEPT ![0] = Empty]
    <3>1. \A s \in Others : slots'[s] = slots[s]
      BY <1>0, <2>3, SlotReads
    <3>2. QED
      BY <2>3, <3>1, CopyKeepsWhole DEF Copying
  <2>4. QED
    BY <2>1, <2>2, <2>3 DEF Interrupted
<1>6. CASE FallbackDeletes \/ FallbackDeleteError
  <2>1. /\ UNCHANGED download /\ download = 0 /\ CanFallBack
        /\ slots' = slots \/ slots' = [slots EXCEPT ![EquivSlot] = Empty]
    BY <1>6 DEF FallbackDeletes, FallbackDeleteError, ControlInv, InFallback
  <2>2. CASE slots' = [slots EXCEPT ![EquivSlot] = Empty]
    <3>1. /\ EquivSlot \in Others /\ BackupSlot \in Others /\ BackupSlot # EquivSlot
          /\ ~Headless(BackupSlot)
      BY <1>0, <2>1, SlotChoices DEF CanFallBack
    <3>2. slots[BackupSlot].payload = "whole"
      BY <1>0, <2>1, <3>1 DEF CompleteInv
    <3>3. /\ slots'[EquivSlot].idx = 0
          /\ \A s \in Others : s # EquivSlot => slots'[s] = slots[s]
      BY <1>0, <2>2, <3>1, SlotReads
    <3>4. SomeImageWhole'
      BY <1>0, <3>1, <3>2, <3>3, WholeStays
    <3>5. QED
      BY <2>1, <3>3, <3>4 DEF CompleteInv, Headless
  <2>3. QED
    BY <1>1, <2>1, <2>2
<1>7. CASE Writing
  <2>1. ~Headless(0) /\ slots[0].payload = "whole"
    BY <1>7 DEF Writing, StartDownload, DownloadFirst, DownloadRest, DiscardDownload,
         Running, ControlInv
  <2>2. /\ Target \in Others
        /\ download' \in {0, Target} /\ download \in {0, Target}
        /\ download' = 0 => slots'[Target].idx = 0
        /\ \A t \in 0 .. 2 : t # Target => slots'[t] = slots[t]
    BY <1>7, DownloadWrites
  <2>3. SomeImageWhole'
    BY <1>0, <2>1, <2>2, WholeStays
  <2>4. QED
    BY <1>0, <2>2, <2>3 DEF CompleteInv, Headless
<1>8. QED
  BY <1>1, <1>2, <1>3, <1>4, <1>5, <1>6, <1>7, WritingSteps DEF vars

LEMMA InitComplete == Init => CompleteInv
<1>1. CASE slots = [s \in 0 .. 2 |-> IF s = 0 THEN Intact(1) ELSE Empty]
  BY <1>1 DEF CompleteInv, SomeImageWhole, Headless, Others, Intact, Empty
<1>2. CASE slots = [s \in 0 .. 2 |-> IF s = 2 THEN Empty ELSE Intact(1)]
  BY <1>2 DEF CompleteInv, SomeImageWhole, Headless, Others, Intact, Empty
<1>3. QED
  BY <1>1, <1>2 DEF Init

\* As long as no download is cut off by a reset, some slot holds a whole image
\* under a valid header: neither a copy nor the deletion before a fallback
\* destroys the last one (boot_common.c:433-678, boot_fallback.c:178-189).
THEOREM SomeImageWholeHolds ==
    ASSUME DownloadResets = FALSE
    PROVE  Spec => []SomeImageWhole
<1>1. Init => CompleteInv
  BY InitComplete
<1>2. Inv /\ CompleteInv /\ [Next]_vars => CompleteInv'
  BY CompleteStep DEF Inv
<1>3. CompleteInv => SomeImageWhole
  BY DEF CompleteInv
<1>4. QED
  BY <1>1, <1>2, <1>3, Invariance, PTL DEF Spec

-------------------------------------------------------------------------------
(* The application that runs is whole *)

\* A digest in slot 0 matches only a whole image; a copy has none before its
\* end, and the runtime check lets no application start without one.
SealedInv ==
    /\ slots[0].sealed => slots[0].payload = "whole"
    /\ place \in {"first", "rest", "digest"} => ~slots[0].sealed
    /\ RuntimeCheck /\ place = "app" => slots[0].sealed

\* Every step keeps it, when no download is cut off.
LEMMA SealedStep ==
    ASSUME TypeOK, ControlInv, CompleteInv, SealedInv, [Next]_vars
    PROVE  SealedInv'
<1>0. /\ 0 \in 0 .. 2 /\ source \in 0 .. 2 /\ download \in 0 .. 2
      /\ Empty.sealed = FALSE /\ \A i : Headed(i).sealed = FALSE
  BY DEF TypeOK, Empty, Headed
<1>1. CASE UNCHANGED <<slots, place>>
  BY <1>1 DEF SealedInv
<1>2. CASE Quiet
  <2>1. UNCHANGED slots
    BY <1>2, QuietSlots
  <2>2. CASE RunApp
    BY <2>1, <2>2 DEF SealedInv, RunApp, RunCorrupted
  <2>3. CASE FinalizeDownload \/ Confirm \/ ClearBootCounter \/ RequestFallback
    BY <1>1, <2>1, <2>3 DEF FinalizeDownload, Confirm, ClearBootCounter,
         RequestFallback, fsm
  <2>4. CASE place' \notin {"first", "rest", "digest", "app"}
    BY <2>1, <2>4 DEF SealedInv
  <2>5. QED
    BY <1>2, <2>2, <2>3, <2>4 DEF Quiet, Handlers, Outcome, BootInit, CallAgain,
         HandleFallbackTriggers, HandleIdle, RunInvalid, RunAppCorrupted,
         RunAppNoVector, HandleUpdateApp, HandleError, SetUpdatePerformed,
         ClearUpdateConfirmed, SetFallbackPerformed, ClearCounterAndReset,
         FallbackFails, FallbackRestores, ChangeState
<1>3. CASE CopyHeader
  <2>1. slots'[0].sealed = FALSE /\ place' = "first"
    BY <1>0, <1>3, SlotReads DEF CopyHeader
  <2>2. QED
    BY <2>1 DEF SealedInv
<1>4. CASE CopyFirst
  <2>1. slots'[0].sealed = slots[0].sealed /\ place = "first" /\ place' = "rest"
    BY <1>0, <1>4, SlotReads DEF CopyFirst
  <2>2. QED
    BY <2>1 DEF SealedInv
<1>5. CASE CopyRest
  <2>1. PICK p : slots' = [slots EXCEPT ![0].payload = p]
    BY <1>5 DEF CopyRest
  <2>2. slots'[0].sealed = slots[0].sealed
    BY <1>0, <2>1, SlotReads
  <2>3. place = "rest" /\ place' = "digest"
    BY <1>5 DEF CopyRest
  <2>4. QED
    BY <2>2, <2>3 DEF SealedInv
<1>6. CASE CopyDigest
  <2>1. source \in Others /\ ~Headless(source) /\ source # download
    BY <1>6 DEF ControlInv, CopySource, CopyDigest, Copying, Others
  <2>2. slots[source].payload = "whole"
    BY <2>1 DEF CompleteInv
  <2>3. slots'[0].payload = "whole"
    BY <1>0, <1>6, <2>2, SlotReads DEF CopyDigest
  <2>4. place' \notin {"first", "rest", "digest", "app"}
    BY <1>6 DEF CopyDigest
  <2>5. QED
    BY <2>3, <2>4 DEF SealedInv
<1>7. CASE CopyError \/ AppReset \/ BootReset \/ PowerLoss
  <2>1. /\ slots' = slots \/ slots' = [slots EXCEPT ![0] = Empty]
        /\ place' \in {"loop", "init"}
    BY <1>7 DEF CopyError, AppReset, BootReset, PowerLoss, Interrupted, ChangeState
  <2>2. slots' = slots \/ slots'[0].sealed = FALSE
    BY <1>0, <2>1, SlotReads
  <2>3. QED
    BY <2>1, <2>2 DEF SealedInv
<1>8. CASE FallbackDeletes \/ FallbackDeleteError
  <2>1. /\ slots' = slots \/ slots' = [slots EXCEPT ![EquivSlot] = Empty]
        /\ place' \in {"loop", "header"}
    BY <1>8 DEF FallbackDeletes, FallbackDeleteError, ChangeState
  <2>2. EquivSlot \in 0 .. 2 /\ EquivSlot # 0
    BY DEF EquivSlot
  <2>3. slots'[0] = slots[0]
    BY <1>0, <2>1, <2>2, SlotReads
  <2>4. QED
    BY <2>1, <2>3 DEF SealedInv
<1>9. CASE Writing
  <2>1. UNCHANGED place
    BY <1>9 DEF Writing, StartDownload, DownloadFirst, DownloadRest, DiscardDownload,
         fsm
  <2>2. slots'[0] = slots[0]
    BY <1>9, DownloadWrites DEF Others
  <2>3. QED
    BY <2>1, <2>2 DEF SealedInv
<1>10. QED
  BY <1>1, <1>2, <1>3, <1>4, <1>5, <1>6, <1>7, <1>8, <1>9, WritingSteps DEF vars, Copy,
       fsm

\* With the runtime integrity check, and no download cut off by a reset, every
\* application that is started is whole, wherever resets, power losses and
\* flash errors fall (boot.c:449-503, boot_common.c:840-975).
THEOREM RunsWholeImageHolds ==
    ASSUME DownloadResets = FALSE, RuntimeCheck = TRUE
    PROVE  Spec => []RunsWholeImage
<1>1. Init => CompleteInv /\ SealedInv
  <2>1. Init => SealedInv
    <3>1. CASE slots = [s \in 0 .. 2 |-> IF s = 0 THEN Intact(1) ELSE Empty]
      BY <3>1 DEF Init, SealedInv, Intact, Empty
    <3>2. CASE slots = [s \in 0 .. 2 |-> IF s = 2 THEN Empty ELSE Intact(1)]
      BY <3>2 DEF Init, SealedInv, Intact, Empty
    <3>3. QED
      BY <3>1, <3>2 DEF Init
  <2>2. QED
    BY <2>1, InitComplete
<1>2. Inv /\ CompleteInv /\ SealedInv /\ [Next]_vars => CompleteInv' /\ SealedInv'
  BY CompleteStep, SealedStep DEF Inv
<1>3. SealedInv => RunsWholeImage
  BY DEF SealedInv, RunsWholeImage
<1>4. QED
  BY <1>1, <1>2, <1>3, Invariance, PTL DEF Spec

-------------------------------------------------------------------------------
(* The copy of the application *)

\* The application is the factory image, or was withdrawn, or has a copy that no
\* download is writing to.
BackedUp ==
    Headless(0) \/ App = 1 \/ App \in reverted
        \/ \E s \in Others : s # download /\ slots[s].idx = App

LEMMA BackedUpStep ==
    ASSUME TypeOK, ControlInv, BackedUp, [Next]_vars
    PROVE  BackedUp'
<1>0. /\ 0 \in 0 .. 2 /\ \A s \in Others : s \in 0 .. 2 /\ s # 0
      /\ download \in 0 .. 2 /\ Empty.idx = 0
  BY DEF TypeOK, Others, Empty
<1>1. ASSUME slots'[0].idx = slots[0].idx, reverted \subseteq reverted',
             \A s \in Others : s # download /\ slots[s].idx = App
                 => s # download' /\ slots'[s].idx = slots[s].idx
      PROVE  BackedUp'
  BY <1>1 DEF BackedUp, Headless, App
<1>2. CASE UNCHANGED vars \/ Quiet
  <2>1. UNCHANGED <<slots, reverted>> /\ download' \in {0, download}
    BY <1>2, QuietSlots
    DEF vars, fsm, Quiet, Handlers, Outcome, BootInit, CallAgain,
        HandleFallbackTriggers, HandleIdle, RunInvalid, RunAppCorrupted, RunAppNoVector,
        RunApp, HandleUpdateApp, HandleError, SetUpdatePerformed, ClearUpdateConfirmed,
        SetFallbackPerformed, ClearCounterAndReset, FallbackFails, FallbackRestores,
        FinalizeDownload, Confirm, ClearBootCounter, RequestFallback, history
  <2> QED BY <1>0, <1>1, <2>1
<1>3. CASE CopyHeader
  <2>1. source \in Others /\ source # download /\ download' = download
    BY <1>3 DEF ControlInv, CopySource, CopyHeader, Copying, Others
  <2>2. slots'[0].idx = slots[source].idx /\ slots'[source] = slots[source]
    BY <1>0, <1>3, <2>1, SlotReads DEF CopyHeader, Headed
  <2> QED BY <2>1, <2>2 DEF BackedUp, App
<1>4. CASE CopyFirst \/ CopyRest \/ CopyDigest
  <2>1. UNCHANGED <<download, reverted>>
    BY <1>4 DEF CopyFirst, CopyRest, CopyDigest, history
  <2>2. PICK p : \/ slots' = [slots EXCEPT ![0].payload = p]
                 \/ slots' = [slots EXCEPT ![0].payload = p, ![0].sealed = TRUE]
    BY <1>4 DEF CopyFirst, CopyRest, CopyDigest
  <2>3. CASE slots' = [slots EXCEPT ![0].payload = p]
    <3>1. \A s \in 0 .. 2 : slots'[s].idx = slots[s].idx
      BY <1>0, <2>3, SlotReads
    <3> QED BY <1>0, <1>1, <2>1, <3>1
  <2>4. CASE slots' = [slots EXCEPT ![0].payload = p, ![0].sealed = TRUE]
    <3>1. \A s \in 0 .. 2 : slots'[s].idx = slots[s].idx
      BY <1>0, <2>4, SlotReads
    <3> QED BY <1>0, <1>1, <2>1, <3>1
  <2> QED BY <2>2, <2>3, <2>4
<1>5. CASE CopyError \/ AppReset \/ BootReset \/ PowerLoss
  <2>1. /\ slots' = slots \/ slots' = [slots EXCEPT ![0] = Empty]
        /\ reverted' = reverted /\ download' \in {0, download}
    BY <1>5 DEF CopyError, AppReset, BootReset, PowerLoss, Interrupted, history
  <2>2. CASE slots' = slots
    BY <1>0, <1>1, <2>1, <2>2
  <2>3. CASE slots' = [slots EXCEPT ![0] = Empty]
    <3>1. slots'[0].idx = 0
      BY <1>0, <2>3, SlotReads
    <3> QED BY <3>1 DEF BackedUp, Headless
  <2> QED BY <2>1, <2>2, <2>3
<1>6. CASE FallbackDeletes \/ FallbackDeleteError
  <2>1. CASE UNCHANGED <<slots, reverted>>
    BY <1>1, <1>6, <2>1 DEF FallbackDeletes, FallbackDeleteError
  <2>2. CASE slots' = [slots EXCEPT ![EquivSlot] = Empty] /\ reverted' = reverted \cup {App}
    <3>1. slots'[0] = slots[0]
      BY <1>0, <2>2, SlotReads, SlotChoices DEF Others
    <3> QED BY <2>2, <3>1 DEF BackedUp, App
  <2> QED BY <1>6, <2>1, <2>2 DEF FallbackDeletes, FallbackDeleteError
<1>7. CASE Writing
  <2>1. /\ Target \in Others
        /\ download' \in {0, Target}
        /\ \A t \in 0 .. 2 : t # Target => slots'[t] = slots[t]
    BY <1>7, DownloadWrites
  <2>2. App \in reverted => App \in reverted'
    BY <1>7 DEF Writing, StartDownload, DownloadFirst, DownloadRest, DiscardDownload,
       history, TypeOK, SlotContent, App
  <2>3. \A s \in Others : s # download /\ slots[s].idx = App /\ download # 0 => s # Target
    BY DEF Target
  <2>4. CASE download # 0
    BY <1>0, <2>1, <2>2, <2>3, <2>4 DEF BackedUp, Headless, App
  <2>5. CASE download = 0
    <3>1. ASSUME NEW s \in Others, slots[s].idx = App
          PROVE  \E t \in Others : t # Target /\ slots[t].idx = App
      BY <2>5, <3>1 DEF Target, GetUpdateSlot, Others
    <3> QED BY <1>0, <2>1, <2>2, <3>1 DEF BackedUp, Headless, App
  <2> QED BY <2>4, <2>5
<1> QED BY <1>2, <1>3, <1>4, <1>5, <1>6, <1>7, WritingSteps DEF Copy

\* As long as no download is cut off by a reset, the running application has a
\* whole copy in another slot, unless it came from the factory or was withdrawn:
\* no sequence of downloads, updates and fallbacks overwrites it
\* (update.c:727-787).
THEOREM AppHasCopyHolds ==
    ASSUME DownloadResets = FALSE
    PROVE  Spec => []AppHasCopy
<1>1. Init => CompleteInv /\ BackedUp
  <2>1. Init => BackedUp
    <3>1. CASE slots = [s \in 0 .. 2 |-> IF s = 0 THEN Intact(1) ELSE Empty]
      BY <3>1 DEF Init, BackedUp, App, Intact, Empty
    <3>2. CASE slots = [s \in 0 .. 2 |-> IF s = 2 THEN Empty ELSE Intact(1)]
      BY <3>2 DEF Init, BackedUp, App, Intact, Empty
    <3> QED BY <3>1, <3>2 DEF Init
  <2> QED BY <2>1, InitComplete
<1>2. Inv /\ CompleteInv /\ BackedUp /\ [Next]_vars => CompleteInv' /\ BackedUp'
  BY CompleteStep, BackedUpStep DEF Inv
<1>3. Inv /\ CompleteInv /\ BackedUp => AppHasCopy
  BY DEF Inv, ControlInv, CompleteInv, BackedUp, AppHasCopy, Headless, App
<1> QED BY <1>1, <1>2, <1>3, Invariance, PTL DEF Spec

-------------------------------------------------------------------------------
(* The history of the application against the mailbox *)

\* Behind the begin of a copy, up to the writes to the mailbox.
Replacing == place \in {"first", "rest", "digest", "performed", "unconfirm"}

\* Without faults the mailbox says confirmed of no other image than the one in
\* slot 0, but between the begin of a copy and the write that takes it back.
OwnInv == faults = 0 /\ Confirmed /\ ~Replacing => confirmed

LEMMA OwnStep == TypeOK /\ OwnInv /\ [Next]_vars => OwnInv'
<1> SUFFICES ASSUME TypeOK, OwnInv, [Next]_vars, faults' = 0, Confirmed', ~Replacing'
             PROVE  confirmed'
  BY DEF OwnInv
<1>1. faults \in Nat /\ mbx \in MailBox
  BY BoundAssumption DEF TypeOK
<1>2. CASE CopyError \/ FallbackDeleteError \/ BootReset \/ PowerLoss
  BY <1>1, <1>2 DEF CopyError, FallbackDeleteError, BootReset, PowerLoss, Fault
<1>3. CASE BootInit
  BY <1>1, <1>3 DEF BootInit, OwnInv, Confirmed, Replacing, history
<1>4. CASE Copy
  BY <1>4 DEF Copy, CopyHeader, CopyFirst, CopyRest, CopyDigest, Replacing
<1>5. CASE Outcome
  BY <1>1, <1>5 DEF Outcome, SetUpdatePerformed, ClearUpdateConfirmed,
     SetFallbackPerformed, ClearCounterAndReset, OwnInv, Confirmed, Replacing, MailBox,
     history
<1>6. CASE Handlers \/ Fallback \/ CallAgain
  BY <1>1, <1>6 DEF Handlers, HandleFallbackTriggers, HandleIdle, RunInvalid,
     CheckedApp, RunAppCorrupted, RunAppNoVector, RunApp, HandleUpdateApp, HandleError,
     Fallback, FallbackFails, FallbackRestores, FallbackDeletes, InFallback, CallAgain,
     ChangeState, OwnInv, Confirmed, Replacing, MailBox, history
<1>7. CASE Application
  BY <1>1, <1>7 DEF Application, Download, StartDownload, DownloadFirst, DownloadRest,
     FinalizeDownload, DiscardDownload, Confirm, ClearBootCounter, RequestFallback,
     AppReset, Running, OwnInv, Confirmed, Replacing, MailBox, history, fsm
<1>8. CASE UNCHANGED vars
  BY <1>8 DEF vars, fsm, history, OwnInv, Confirmed, Replacing
<1> QED BY <1>2, <1>3, <1>4, <1>5, <1>6, <1>7, <1>8 DEF Next, Boot, Failures

\* Without faults the mailbox never calls an image confirmed that has not
\* confirmed itself (boot.c:532-546, 563-568).
THEOREM ConfirmationIsOwnHolds == Spec => []ConfirmationIsOwn
<1>1. Init => OwnInv
  BY DEF Init, OwnInv, Confirmed
<1>2. OwnInv => ConfirmationIsOwn
  BY DEF OwnInv, ConfirmationIsOwn, Replacing
<1> QED BY <1>1, <1>2, OwnStep, TypeCorrect, PTL DEF Spec

-------------------------------------------------------------------------------
(* The confirmed application *)

\* The boot counter counts no more than the starts since it was cleared.
Counted == mbx.counter <= boots \/ boots >= MaxAttempts

\* What the mailbox says while an image is confirmed, and what it says of one
\* that may still confirm: it is not started with a counter left from another.
MailInv ==
    /\ place # "init" => mbx.sig
    /\ place \in {"call", "return"} => state \notin {"UPDATE_APP", "FALLBACK_APP"}
    /\ place = "header" => state \in {"UPDATE_APP", "FALLBACK_APP"}
    /\ confirmed => Confirmed /\ mbx.sig /\ Counted /\ ~Replacing
    /\ place \in {"loop", "header", "first", "rest", "digest"} /\ ~Confirmed
           => mbx.counter = 0
    /\ place = "app" /\ ~Confirmed => Counted

\* The digest of a confirmed application matches when it is checked, an update
\* brings a higher index, and a fallback from it has another reason.
KeptInv ==
    /\ RuntimeCheck /\ ~Headless(0) /\ (confirmed \/ place = "app") => slots[0].sealed
    /\ place \in {"loop", "header"} =>
           /\ state = "UPDATE_APP" => slots[source].idx > App
           /\ state = "FALLBACK_APP" /\ confirmed /\ ~Headless(0) =>
                  boots >= MaxAttempts \/ "FALLBACK_REQUESTED" \in mbx.flags

LEMMA MailStep == TypeOK /\ MailInv /\ [Next]_vars => MailInv'
<1> SUFFICES ASSUME TypeOK, MailInv, [Next]_vars PROVE MailInv'
  OBVIOUS
<1>0. /\ mbx.counter \in Nat /\ boots \in Nat /\ MaxAttempts \in Nat \ {0}
      /\ mbx.sig \in BOOLEAN /\ mbx \in MailBox
      /\ (mbx.counter + 1) % CounterSize <= mbx.counter + 1
      /\ (mbx.counter + 1) % CounterSize \in Nat
  BY BoundAssumption DEF TypeOK, MailBox
<1>1. CASE BootInit
  BY <1>0, <1>1 DEF BootInit, MailInv, Counted, Confirmed, Replacing, history
<1>2. CASE HandleFallbackTriggers
  <2>1. CASE FallbackTrigger
    BY <1>0, <1>2, <2>1 DEF HandleFallbackTriggers, MailInv, Counted, Confirmed,
       Replacing, MailBox, history
  <2>2. CASE ~FallbackTrigger
    BY <1>0, <1>2, <2>2 DEF HandleFallbackTriggers, FallbackTrigger, MailInv, Counted,
       Confirmed, Replacing, history
  <2> QED BY <2>1, <2>2
<1>3. CASE RunApp
  BY <1>0, <1>3 DEF RunApp, CheckedApp, MailInv, Counted, Confirmed, Replacing, MailBox
<1>4. CASE Handlers /\ ~HandleFallbackTriggers /\ ~RunApp
  BY <1>4 DEF Handlers, HandleIdle, RunInvalid, CheckedApp, RunAppCorrupted,
     RunAppNoVector, HandleUpdateApp, HandleError, ChangeState, MailInv, Counted,
     Confirmed, Replacing, history
<1>5. CASE Copy \/ CopyError
  BY <1>0, <1>5 DEF Copy, CopyHeader, CopyFirst, CopyRest, CopyDigest, CopyError, Copying,
     ChangeState, MailInv, Counted, Confirmed, Replacing, history
<1>6. CASE Outcome
  BY <1>0, <1>6 DEF Outcome, SetUpdatePerformed, ClearUpdateConfirmed,
     SetFallbackPerformed, ClearCounterAndReset, MailInv, Counted, Confirmed, Replacing,
     MailBox, history
<1>7. CASE Fallback \/ FallbackDeleteError
  BY <1>7 DEF Fallback, FallbackFails, FallbackRestores, FallbackDeletes,
     FallbackDeleteError, InFallback, ChangeState, MailInv, Counted, Confirmed,
     Replacing, history
<1>8. CASE Download \/ AppReset \/ BootReset \/ PowerLoss
  BY <1>8 DEF Download, StartDownload, DownloadFirst, DownloadRest, FinalizeDownload,
     DiscardDownload, Running, AppReset, BootReset, PowerLoss, Interrupted, MailInv,
     Counted, Confirmed, Replacing, fsm, history
<1>9. CASE Confirm \/ ClearBootCounter \/ RequestFallback
  BY <1>0, <1>9 DEF Confirm, ClearBootCounter, RequestFallback, Running, MailInv, Counted,
     Confirmed, Replacing, MailBox, fsm, history
<1>10. CASE CallAgain \/ UNCHANGED vars
  BY <1>10 DEF CallAgain, MailInv, Counted, Confirmed, Replacing, vars, fsm, history
<1> QED BY <1>1, <1>2, <1>3, <1>4, <1>5, <1>6, <1>7, <1>8, <1>9, <1>10
        DEF Next, Boot, Application, Failures

LEMMA KeptStep ==
    TypeOK /\ ControlInv /\ MailInv /\ KeptInv /\ [Next]_vars => KeptInv'
<1> SUFFICES ASSUME TypeOK, ControlInv, MailInv, KeptInv, [Next]_vars PROVE KeptInv'
  OBVIOUS
<1>0. /\ mbx.counter \in Nat /\ boots \in Nat /\ MaxAttempts \in Nat \ {0}
      /\ mbx \in MailBox /\ download \in 0 .. 2
      /\ 0 \in 0 .. 2 /\ \A s \in Others : s \in 0 .. 2 /\ s # 0
      /\ Empty.idx = 0
  BY BoundAssumption DEF TypeOK, MailBox, Others, Empty
<1>1. CASE HandleFallbackTriggers
  BY <1>0, <1>1 DEF HandleFallbackTriggers, FallbackTrigger, KeptInv, MailInv, Counted,
     Confirmed, Headless, App, MailBox, history
<1>2. CASE HandleIdle
  BY <1>0, <1>2, SlotChoices DEF HandleIdle, ChangeState, KeptInv, Headless, App, history
<1>3. CASE Handlers /\ ~HandleFallbackTriggers /\ ~HandleIdle
  BY <1>3 DEF Handlers, RunInvalid, CheckedApp, RunCorrupted, RunAppCorrupted,
     RunAppNoVector, RunApp, HandleUpdateApp, HandleError, ChangeState, KeptInv,
     Headless, App, history
<1>4. CASE BootInit \/ CallAgain \/ UNCHANGED vars
  BY <1>4 DEF BootInit, CallAgain, KeptInv, Headless, App, vars, fsm, history
<1>5. CASE Copy \/ Outcome
  <2>1. place' \notin {"loop", "header", "app"}
    BY <1>5 DEF Copy, CopyHeader, CopyFirst, CopyRest, CopyDigest, Outcome,
       SetUpdatePerformed, ClearUpdateConfirmed, SetFallbackPerformed,
       ClearCounterAndReset
  <2>2. ~confirmed' \/ UNCHANGED <<slots, confirmed>>
    BY <1>5 DEF Copy, CopyHeader, CopyFirst, CopyRest, CopyDigest, Outcome,
       SetUpdatePerformed, ClearUpdateConfirmed, SetFallbackPerformed,
       ClearCounterAndReset, MailInv, Replacing, history
  <2> QED BY <2>1, <2>2 DEF KeptInv, Headless
<1>6. CASE FallbackFails \/ FallbackRestores
  BY <1>6 DEF FallbackFails, FallbackRestores, InFallback, ChangeState, KeptInv,
     Headless, App, history
<1>7. CASE FallbackDeletes \/ FallbackDeleteError
  <2>1. UNCHANGED slots \/ slots' = [slots EXCEPT ![EquivSlot] = Empty]
    BY <1>7 DEF FallbackDeletes, FallbackDeleteError
  <2>2. slots'[0] = slots[0]
    BY <1>0, <2>1, SlotReads, SlotChoices
  <2> QED BY <1>7, <2>2 DEF FallbackDeletes, FallbackDeleteError, InFallback,
             ChangeState, KeptInv, Headless, App
<1>8. CASE CopyError
  <2>1. CASE UNCHANGED slots
    BY <1>8, <2>1 DEF CopyError, ChangeState, KeptInv, Headless, history
  <2>2. CASE slots' = [slots EXCEPT ![0] = Empty]
    <3>1. slots'[0].idx = 0
      BY <1>0, <2>2, SlotReads
    <3> QED BY <1>8, <3>1 DEF CopyError, ChangeState, KeptInv, Headless, history
  <2> QED BY <1>8, <2>1, <2>2 DEF CopyError
<1>9. CASE AppReset \/ BootReset \/ PowerLoss
  <2>1. /\ UNCHANGED slots \/ slots' = [slots EXCEPT ![0] = Empty]
        /\ place' = "init" /\ (confirmed' => confirmed)
    BY <1>9 DEF AppReset, BootReset, PowerLoss, Interrupted, history
  <2>2. UNCHANGED slots \/ slots'[0].idx = 0
    BY <1>0, <2>1, SlotReads
  <2> QED BY <2>1, <2>2 DEF KeptInv, Headless
<1>10. CASE Writing
  <2>1. slots'[0] = slots[0]
    BY <1>0, <1>10, DownloadWrites
  <2> QED BY <1>10, <2>1 DEF Writing, StartDownload, DownloadFirst, DownloadRest,
             DiscardDownload, Running, KeptInv, Headless, App, fsm, history
<1>11. CASE FinalizeDownload \/ Confirm \/ ClearBootCounter \/ RequestFallback
  BY <1>11 DEF FinalizeDownload, Confirm, ClearBootCounter, RequestFallback, Running,
     KeptInv, Headless, App, fsm, history
<1> QED BY <1>1, <1>2, <1>3, <1>4, <1>5, <1>6, <1>7, <1>8, <1>9, <1>10, <1>11,
           WritingSteps DEF Quiet

\* Only a copy over the application lowers its index to another valid one.
LEMMA OnlyCopyReplaces ==
    ASSUME TypeOK, ControlInv, [Next]_vars, slots'[0].idx \in 1 .. App - 1
    PROVE  place = "header" /\ slots'[0].idx = slots[source].idx
<1>0. /\ 0 \in 0 .. 2 /\ \A s \in Others : s \in 0 .. 2 /\ s # 0
      /\ download \in 0 .. 2 /\ Empty.idx = 0 /\ App \in Nat
  BY BoundAssumption DEF TypeOK, SlotContent, App, Others, Empty
<1>1. slots'[0].idx # slots[0].idx /\ slots'[0].idx # 0
  BY <1>0 DEF App
<1>2. CASE CopyHeader
  <2>1. place = "header" /\ source \in Others
    BY <1>2 DEF CopyHeader, ControlInv, Copying, CopySource
  <2>2. slots'[0] = Headed(slots[source].idx)
    BY <1>0, <1>2, SlotReads DEF CopyHeader
  <2> QED BY <2>1, <2>2 DEF Headed
<1>3. CASE CopyFirst
  BY <1>0, <1>1, <1>3, SlotReads DEF CopyFirst
<1>4. CASE CopyRest
  <2>1. PICK p : slots' = [slots EXCEPT ![0].payload = p]
    BY <1>4 DEF CopyRest
  <2> QED BY <1>0, <1>1, <2>1, SlotReads
<1>5. CASE CopyDigest
  BY <1>0, <1>1, <1>5, SlotReads DEF CopyDigest
<1>6. CASE CopyError \/ AppReset \/ BootReset \/ PowerLoss
  <2>1. UNCHANGED slots \/ slots' = [slots EXCEPT ![0] = Empty]
    BY <1>6 DEF CopyError, AppReset, BootReset, PowerLoss, Interrupted
  <2> QED BY <1>0, <1>1, <2>1, SlotReads
<1>7. CASE FallbackDeletes \/ FallbackDeleteError
  <2>1. UNCHANGED slots \/ slots' = [slots EXCEPT ![EquivSlot] = Empty]
    BY <1>7 DEF FallbackDeletes, FallbackDeleteError
  <2> QED BY <1>0, <1>1, <2>1, SlotReads, SlotChoices
<1>8. CASE Writing
  BY <1>0, <1>1, <1>8, DownloadWrites
<1>9. CASE UNCHANGED vars \/ Quiet
  BY <1>1, <1>9, QuietSlots DEF vars
<1> QED BY <1>2, <1>3, <1>4, <1>5, <1>6, <1>7, <1>8, <1>9, WritingSteps DEF Copy

\* Whatever fails, and wherever resets and power losses fall, an application that
\* has confirmed itself and was started less than MaxAttempts times gives way to
\* an older image only on request (boot.c:366-389).
THEOREM ConfirmedAppKeptHolds == Spec => ConfirmedAppKept
<1> DEFINE K == Inv /\ MailInv /\ KeptInv
           A == slots'[0].idx \in 1 .. App - 1 =>
                    \/ ~confirmed
                    \/ boots >= MaxAttempts
                    \/ "FALLBACK_REQUESTED" \in mbx.flags
<1>1. Init => MailInv /\ KeptInv
  BY DEF Init, MailInv, KeptInv
<1>2. Inv /\ MailInv /\ KeptInv /\ [Next]_vars => MailInv' /\ KeptInv'
  BY MailStep, KeptStep DEF Inv
<1>3. Inv /\ MailInv /\ KeptInv /\ [Next]_vars => [A]_slots
  <2> SUFFICES ASSUME Inv, MailInv, KeptInv, [Next]_vars,
                      slots'[0].idx \in 1 .. App - 1, confirmed
               PROVE  boots >= MaxAttempts \/ "FALLBACK_REQUESTED" \in mbx.flags
    OBVIOUS
  <2>1. place = "header" /\ slots'[0].idx = slots[source].idx
    BY OnlyCopyReplaces DEF Inv
  <2>2. App \in Nat /\ slots[source].idx < App /\ slots[source].idx # 0
    BY <2>1, BoundAssumption DEF Inv, TypeOK, SlotContent, App
  <2>3. state # "UPDATE_APP" /\ ~Headless(0)
    BY <2>1, <2>2 DEF KeptInv, Headless, App
  <2>4. state = "FALLBACK_APP"
    BY <2>1, <2>3 DEF MailInv
  <2> QED BY <2>1, <2>3, <2>4 DEF KeptInv
<1>4. Spec => [][A]_slots
  BY <1>1, <1>2, <1>3, Invariance, PTL DEF Spec
<1> QED BY <1>4 DEF ConfirmedAppKept
===============================================================================

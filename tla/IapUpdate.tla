------------------------------ MODULE IapUpdate -------------------------------
(***************************************************************************)
(* The in-application updater (update.c, image_process.c, image_utils.c).  *)
(* The application hands over an update image - header, payload, check tag *)
(* - in calls of updateProcess of any length.  The input context parses    *)
(* it; the output context writes it to the update slot through memory.c:   *)
(* the payload alone into the other bank (DualBank), or an image with a    *)
(* header and a digest of its own (otherwise).  updateFinalize compares    *)
(* the tag and, with two banks, swaps them for the next reset.             *)
(*                                                                         *)
(* One step of a call is at most one write or erasure of the flash; a      *)
(* reset may come between any two.  The digest of a sequence of units is   *)
(* the sequence: digests of different data are taken to differ.            *)
(***************************************************************************)
EXTENDS SlotMemory

CONSTANTS
    HeaderSize,   \* sizeof(ImageHeader)
    BufferSize,   \* sizeof(image->buffer)
    TagSize,      \* checkDataSize of the input, imageCheckDigestSize of the output
    UpdateSlot,   \* the slot of updateGetUpdateSlot
    Images,       \* the update images, by payload length and damaged unit (0: none)
    Trailing,     \* units sent behind the image
    Lengths,      \* what one call of updateProcess may hand over
    AwaitReset,   \* whether no update begins between a bank swap and the reset
    Orderly,      \* whether updateFinalize is called once, behind the last unit
    MaxSessions,  \* bound on the updates
    MaxFaults     \* bound on failed flash operations

ASSUME UpdateAssumption ==
    /\ HeaderSize \in Nat \ {0} /\ BufferSize \in Nat /\ BufferSize >= HeaderSize
    /\ UpdateSlot \in Slot /\ IsSectorAddress(UpdateSlot.base)
    /\ UpdateSlot.base + UpdateSlot.size <= BankSize /\ UpdateSlot.half = 1
    /\ TagSize \in Nat \ {0} /\ (~DualBank => TagSize <= BufferSize)
    /\ Images \subseteq [length : Nat \ {0}, damaged : Nat]
    /\ Lengths \subseteq Nat \ {0}
    /\ {Trailing, MaxSessions, MaxFaults} \subseteq Nat /\ {AwaitReset, Orderly} \subseteq BOOLEAN

VARIABLES
    images,   \* the image of every update begun
    sent,     \* units of the last of them handed over
    in,       \* the input context, imageProcessCtx.inputImage
    out,      \* the output context, imageProcessCtx.outputImage
    place,    \* where the call of updateProcess is
    left,     \* units of this call still to be processed
    feed,     \* units handed to imageProcessOutput still to be processed
    result,   \* what the last call has returned
    whole,    \* history: the update a bank was swapped in with, 0: none
    faults    \* failed flash operations

vars == <<memory, images, sent, in, out, place, left, feed, result, whole, faults>>

session == Len(images)

Unit(s, i) == [image |-> s, at |-> i]

Header(s) == [i \in 1 .. HeaderSize |-> Unit(s, i)]

\* The header with the new index and its CRC (image_process.c:320-349).
NewHeader(s) == [i \in 1 .. HeaderSize |-> Unit(s, -i)]

PayloadOf(s, n) == [i \in 1 .. n |-> Unit(s, HeaderSize + i)]

\* The check tag behind them.
Tag(s, n) == [i \in 1 .. TagSize |-> Unit(s, HeaderSize + n + i)]

Noise == [noise |-> TRUE]

First(s, n) == SubSeq(s, 1, IF n < Len(s) THEN n ELSE Len(s))
Drop(s, n) == SubSeq(s, n + 1, Len(s))

UnitsOf(image) == HeaderSize + image.length + TagSize

\* What the application receives of an image, and hands over: header, payload
\* and tag, and what follows.
Stream(s, image) ==
    [i \in 1 .. UnitsOf(image) + Trailing |->
        IF i = image.damaged \/ i > UnitsOf(image) THEN Noise ELSE Unit(s, i)]

\* Units of the image of the last update.
ImageLength == UnitsOf(images[session])

\* What the digest of the image is taken of (the header by its CRC, its last unit).
Digested(head, s, n) == <<head[HeaderSize]>> \o PayloadOf(s, n)

\* The tag made of it (verifyGenerateCheckData).
DigestOf(sum) == [i \in 1 .. TagSize |-> [sum |-> sum, part |-> i]]

NoInput  == [state |-> "NONE", buffer |-> <<>>, written |-> 0, length |-> 0,
             check |-> <<>>, sum |-> <<>>]
NoOutput == [state |-> "NONE", buffer |-> <<>>, skew |-> 0, written |-> 0, pos |-> 0,
             sum |-> <<>>]

Factory == [c \in Offsets |-> Unit(0, c)]

Init ==
    /\ mapped \in Banks /\ option = mapped
    /\ flash = [b \in Banks |-> IF b = mapped THEN Factory ELSE [c \in Offsets |-> Junk]]
    /\ wbuf = <<>> /\ given = <<>> /\ broken = FALSE
    /\ images = <<>> /\ sent = 0
    /\ in = NoInput /\ out = NoOutput
    /\ place = "app" /\ left = <<>> /\ feed = <<>> /\ result = "ok"
    /\ whole = [b \in Banks |-> 0]
    /\ faults = 0

-------------------------------------------------------------------------------
(* Calls of the application.                                               *)

\* updateInit; the static write buffer keeps what it has.
UpdateInit ==
    /\ place = "app" /\ session < MaxSessions
    /\ AwaitReset => option = mapped
    /\ \E image \in Images : images' = Append(images, image)
    /\ sent' = 0
    /\ in' = [NoInput EXCEPT !.state = "HEADER"]
    /\ out' = [NoOutput EXCEPT !.state = IF DualBank THEN "INIT" ELSE "HEADER"]
    /\ result' = "ok"
    /\ UNCHANGED <<memory, place, left, feed, whole, faults>>

\* updateProcess is called with the next n units.
UpdateProcess(n) ==
    /\ place = "app" /\ in.state # "NONE"
    /\ sent + n <= Len(Stream(session, images[session]))
    /\ left' = SubSeq(Stream(session, images[session]), sent + 1, sent + n)
    /\ sent' = sent + n
    /\ place' = "loop"
    /\ UNCHANGED <<memory, images, in, out, feed, result, whole, faults>>

Return(r) == place' = "app" /\ result' = r /\ left' = <<>> /\ feed' = <<>>

MayFinalize ==
    /\ place = "app" /\ in.state # "NONE"
    /\ Orderly => sent >= ImageLength /\ in.state \notin {"REBOOT", "IDLE"}

\* Mutant: the tag is not compared.
ValidAlways == TRUE

\* verifyConfirm.
Valid == /\ in.check = Tag(session, images[session].length)
         /\ in.sum = Digested(Header(session), session, images[session].length)

FinalizeValid ==
    /\ MayFinalize /\ in.state = "VALIDATE" /\ Valid
    /\ IF DualBank
       THEN /\ SwapBanks
            /\ whole' = [whole EXCEPT ![BankOf(1)] = session]
       ELSE UNCHANGED <<option, whole>>
    /\ in' = [in EXCEPT !.state = "REBOOT"]
    /\ Return("ok")
    /\ UNCHANGED <<flash, mapped, wbuf, given, broken, images, sent, out, faults>>

\* memoryExSwapBanks fails, before or behind the programming of the option.
FinalizeSwapFails ==
    /\ MayFinalize /\ in.state = "VALIDATE" /\ Valid /\ DualBank
    /\ faults < MaxFaults /\ faults' = faults + 1
    /\ \/ SwapBanks /\ whole' = [whole EXCEPT ![BankOf(1)] = session]
       \/ UNCHANGED <<option, whole>>
    /\ Return("error")
    /\ UNCHANGED <<flash, mapped, wbuf, given, broken, images, sent, in, out>>

\* Mutant: the header stays.
EraseHeaderNot == UNCHANGED <<memory, faults>>

\* The first bytes of the slot are erased, so that the bootloader finds no image.
EraseHeader == EraseSlot(UpdateSlot, 0, HeaderSize) /\ UNCHANGED faults

EraseHeaderFails ==
    /\ faults < MaxFaults /\ faults' = faults + 1
    /\ broken' = TRUE
    /\ UNCHANGED <<banks, wbuf, given>>

\* With two banks nothing is erased; otherwise an error is ignored.
DropHeader ==
    IF DualBank THEN UNCHANGED <<memory, faults>> ELSE EraseHeader \/ EraseHeaderFails

FinalizeInvalid ==
    /\ MayFinalize /\ in.state = "VALIDATE" /\ ~Valid
    /\ DropHeader
    /\ in' = [in EXCEPT !.state = "IDLE"]
    /\ Return("error")
    /\ UNCHANGED <<images, sent, out, whole>>

FinalizeNotReady ==
    /\ MayFinalize /\ in.state # "VALIDATE"
    /\ DropHeader
    /\ Return("error")
    /\ UNCHANGED <<images, sent, in, out, whole>>

\* updateReboot, the reset button, the watchdog, a power failure.
Reset ==
    /\ ResetMemory
    /\ in' = NoInput /\ out' = NoOutput
    /\ Return("ok")
    /\ UNCHANGED <<images, sent, whole, faults>>

-------------------------------------------------------------------------------
(* The loop of updateProcess: fill the input buffer, process it.           *)

\* Mutant: one unit too many fits.
RoomOneMore == BufferSize - Len(in.buffer) + 1

Room == BufferSize - Len(in.buffer)

\* The input buffer once it is filled, and what is left of the call then.
Filled == in.buffer \o First(left, Room)
After == Drop(left, Room)

LoopEnds ==
    /\ place = "loop" /\ left = <<>>
    /\ Return("ok")
    /\ UNCHANGED <<memory, images, sent, in, out, whole, faults>>

\* Mutant: the call goes on.
LoopOverflowsNot ==
    /\ place = "loop" /\ left # <<>> /\ Room = 0
    /\ UNCHANGED vars

LoopOverflows ==
    /\ place = "loop" /\ left # <<>> /\ Room = 0
    /\ Return("error")
    /\ UNCHANGED <<memory, images, sent, in, out, whole, faults>>

\* imageProcessInputImage is called in a state.
Processing(state) == place = "loop" /\ left # <<>> /\ Room > 0 /\ in.state = state

Stays == UNCHANGED <<memory, images, sent, result, whole, faults>>

HeaderWait ==
    /\ Processing("HEADER") /\ Len(Filled) < HeaderSize
    /\ in' = [in EXCEPT !.buffer = Filled]
    /\ left' = After
    /\ UNCHANGED <<out, place, feed>> /\ Stays

\* imageGetHeader, and the size of what will be in the slot.
HeaderValid ==
    /\ First(Filled, HeaderSize) = Header(session)
    /\ images[session].length + (IF DualBank THEN 0 ELSE HeaderSize + TagSize) <= UpdateSlot.size

HeaderRefused ==
    /\ Processing("HEADER") /\ Len(Filled) >= HeaderSize /\ ~HeaderValid
    /\ in' = [in EXCEPT !.buffer = Filled]
    /\ left' = After
    /\ place' = "error"
    /\ UNCHANGED <<out, feed>> /\ Stays

\* The header is taken off the buffer, and its CRC digested.
HeaderDone(i) == [i EXCEPT !.state = "DATA", !.buffer = Drop(@, HeaderSize),
                           !.sum = Append(@, i.buffer[HeaderSize])]

\* With one bank the header goes to the output first.
HeaderAccepted ==
    /\ Processing("HEADER") /\ Len(Filled) >= HeaderSize /\ HeaderValid
    /\ LET i == [in EXCEPT !.buffer = Filled, !.length = images[session].length] IN
       IF DualBank
       THEN in' = HeaderDone(i) /\ UNCHANGED <<place, feed>>
       ELSE in' = i /\ place' = "header" /\ feed' = Header(session)
    /\ left' = After
    /\ UNCHANGED out /\ Stays

\* The data of the buffer that belong to the payload.
DataIn(buffer) == First(buffer, in.length - in.written)

DataEnough == Len(Filled) = BufferSize \/ in.written + Len(Filled) >= in.length

DataWait ==
    /\ Processing("DATA") /\ ~DataEnough
    /\ in' = [in EXCEPT !.buffer = Filled]
    /\ left' = After
    /\ UNCHANGED <<out, place, feed>> /\ Stays

\* A block is digested and goes to the output.
DataBlock ==
    /\ Processing("DATA") /\ DataEnough
    /\ in' = [in EXCEPT !.buffer = Filled, !.sum = @ \o DataIn(Filled)]
    /\ feed' = DataIn(Filled)
    /\ left' = After
    /\ place' = "data"
    /\ UNCHANGED out /\ Stays

\* Mutant: the tag must come whole.
CheckFitsWhole(i) == Len(i.buffer) = TagSize

\* imageProcessAppCheck of an input context: the tag may come in parts.
CheckFits(i) == Len(i.check) + Len(i.buffer) <= TagSize

Checked(i) ==
    IF CheckFits(i)
    THEN [i EXCEPT !.check = @ \o i.buffer, !.buffer = <<>>,
                   !.state = IF Len(i.check \o i.buffer) = TagSize THEN "VALIDATE" ELSE @]
    ELSE i

CheckBlock ==
    /\ Processing("CHECK")
    /\ LET i == [in EXCEPT !.buffer = Filled] IN
          /\ in' = Checked(i)
          /\ place' = IF CheckFits(i) THEN "loop" ELSE "error"
    /\ left' = After
    /\ UNCHANGED <<out, feed>> /\ Stays

WrongState ==
    /\ \E state \in {"VALIDATE", "REBOOT", "IDLE"} : Processing(state)
    /\ in' = [in EXCEPT !.buffer = Filled]
    /\ left' = After
    /\ place' = "error"
    /\ UNCHANGED <<out, feed>> /\ Stays

\* An error with two banks: the call returns it.
ReturnError ==
    /\ place = "error" /\ DualBank
    /\ Return("error")
    /\ UNCHANGED <<memory, images, sent, in, out, whole, faults>>

\* With one bank the header is erased, and the result of that takes the place
\* of the error: when it succeeds, the loop goes on.
ErrorErased ==
    /\ place = "error" /\ ~DualBank
    /\ EraseHeader
    /\ place' = "loop" /\ feed' = <<>>
    /\ UNCHANGED <<images, sent, in, out, left, result, whole>>

ErrorEraseFails ==
    /\ place = "error" /\ ~DualBank
    /\ EraseHeaderFails
    /\ Return("error")
    /\ UNCHANGED <<images, sent, in, out, whole>>

-------------------------------------------------------------------------------
(* imageProcessOutput: fill the output buffer, write it to the slot.  The  *)
(* branch for a state behind the last block ("For sanity") is left out:    *)
(* with the buffer full it would not end, and CallEnds shows that no call  *)
(* gets there.                                                             *)
(*                                                                         *)
(* bufferPos and bufferLen part when the write of the digest fails: the    *)
(* length is that of the digest, the position still behind the last block. *)
(* out.skew is how far.                                                    *)

Feeding == place \in {"header", "data"} /\ feed # <<>>

\* What a pass of the loop moves from feed, and the output buffer then.
Moved == First(feed, BufferSize - Len(out.buffer))
Unmoved == Drop(feed, Len(Moved))

\* Units of the buffer before bufferPos.
BufferPos == Len(out.buffer) + out.skew

Block ==
    IF out.skew = 0 THEN out.buffer \o Moved
    ELSE [i \in 1 .. Len(out.buffer) + Len(Moved) |->
             IF i - BufferPos \in 1 .. Len(Moved) THEN Moved[i - BufferPos]
             ELSE IF i <= Len(out.buffer) THEN out.buffer[i] ELSE Junk]

\* The copy would run over the end of the buffer.
Overruns == out.skew # 0 /\ BufferPos + Len(Moved) > BufferSize

\* Mutant: the first block is written without RESET.
FirstFlagDefault == "DEFAULT"

FirstFlag == "RESET"

\* Mutant: the last block is not flushed.
LastFlagDefault == "DEFAULT"

LastFlag == "FORCE"

\* memoryWriteSlot, which may fail after k quad-words, and is refused what lies
\* behind the bank; rest is what is still to be fed and o the output context, but
\* for the position, when it succeeds, f the output context when it does not.
WriteOut(at, data, flag, rest, o, f) ==
    \/ /\ WriteSlot(UpdateSlot, at, data, flag)
       /\ out' = [o EXCEPT !.pos = at + Written(flag, data)]
       /\ feed' = rest
       /\ UNCHANGED <<place, faults>>
    \/ /\ faults < MaxFaults /\ faults' = faults + 1
       /\ \E k \in 0 .. Len(wbuf) + Len(data) :
             WriteSlotFails(UpdateSlot, at, data, flag, k)
       /\ out' = f
       /\ feed' = <<>> /\ place' = "error"
    \/ /\ \E k \in 0 .. Len(wbuf) + Len(data) :
             WriteSlotRefused(UpdateSlot, at, data, flag, k)
       /\ out' = f
       /\ feed' = <<>> /\ place' = "error" /\ UNCHANGED faults

LastBlock == out.written + Len(Block) = in.length

\* imageProcessOutputBinary, first block.
BinaryFirst ==
    /\ Feeding /\ out.state = "INIT"
    /\ WriteOut(0, Block, FirstFlag, Unmoved,
                [out EXCEPT !.buffer = <<>>, !.written = @ + Len(Block), !.state = "DATA"],
                [out EXCEPT !.buffer = Block, !.pos = 0])
    /\ UNCHANGED <<images, sent, in, left, result, whole>>

\* The following blocks, the last of them flushed.
BinaryData ==
    /\ Feeding /\ out.state = "DATA" /\ DualBank
    /\ WriteOut(out.pos, Block, IF LastBlock THEN LastFlag ELSE "DEFAULT", Unmoved,
                [out EXCEPT !.buffer = <<>>, !.written = @ + Len(Block),
                            !.state = IF LastBlock THEN "END" ELSE @],
                [out EXCEPT !.buffer = Block])
    /\ UNCHANGED <<images, sent, in, left, result, whole>>

\* imageProcessOutputImage, the header: digested, then written.
ImageHeader ==
    /\ Feeding /\ out.state = "HEADER"
    /\ LET head == NewHeader(session)
           o    == [out EXCEPT !.sum = Append(@, head[HeaderSize])]
       IN  WriteOut(out.pos, head, FirstFlag, Unmoved,
                    [o EXCEPT !.buffer = <<>>, !.state = "DATA"],
                    [o EXCEPT !.buffer = head \o Drop(Block, HeaderSize)])
    /\ UNCHANGED <<images, sent, in, left, result, whole>>

\* A block of the payload: digested, then written.
ImageData ==
    /\ Feeding /\ out.state = "DATA" /\ ~DualBank /\ ~LastBlock /\ ~Overruns
    /\ LET o == [out EXCEPT !.sum = @ \o Block] IN
       WriteOut(out.pos, Block, "DEFAULT", Unmoved,
                [o EXCEPT !.buffer = <<>>, !.skew = 0, !.written = @ + Len(Block)],
                [o EXCEPT !.buffer = Block])
    /\ UNCHANGED <<images, sent, in, left, result, whole>>

\* The last block; the digest takes its place in the buffer, while bufferPos
\* stays behind the block.
ImageLast ==
    /\ Feeding /\ out.state = "DATA" /\ ~DualBank /\ LastBlock /\ ~Overruns
    /\ LET o == [out EXCEPT !.sum = @ \o Block] IN
       WriteOut(out.pos, Block, "DEFAULT", Unmoved,
                [o EXCEPT !.buffer = DigestOf(o.sum), !.skew = BufferPos + Len(Moved) - TagSize,
                          !.written = @ + Len(Moved), !.state = "DIGEST"],
                [o EXCEPT !.buffer = Block])
    /\ UNCHANGED <<images, sent, in, left, result, whole>>

\* What the program does once it has copied over the end of the buffer is not
\* defined: nothing but the reset leads on from here.
ImageOverruns ==
    /\ Feeding /\ out.state = "DATA" /\ ~DualBank /\ Overruns
    /\ place' = "overrun"
    /\ UNCHANGED <<in, out, left, feed>> /\ Stays

\* The digest, flushed; when that fails the state is still that of the data.
ImageDigest ==
    /\ place = "data" /\ out.state = "DIGEST"
    /\ WriteOut(out.pos, out.buffer, LastFlag, feed,
                [out EXCEPT !.state = "END"], [out EXCEPT !.state = "DATA"])
    /\ UNCHANGED <<images, sent, in, left, result, whole>>

-------------------------------------------------------------------------------
(* imageProcessOutput has returned.                                        *)

Fed(p) == place = p /\ feed = <<>> /\ out.state # "DIGEST"

FedHeader ==
    /\ Fed("header")
    /\ in' = HeaderDone(in)
    /\ place' = "loop"
    /\ UNCHANGED <<out, left, feed>> /\ Stays

\* The block is taken off the buffer; behind the payload comes the tag.
FedData ==
    /\ Fed("data")
    /\ LET n == Len(DataIn(in.buffer))
           i == [in EXCEPT !.written = @ + n, !.buffer = Drop(@, n),
                           !.state = IF in.written + n = in.length THEN "CHECK" ELSE @]
       IN  IF i.state = "CHECK" /\ i.buffer # <<>>
           THEN in' = Checked(i) /\ place' = (IF CheckFits(i) THEN "loop" ELSE "error")
           ELSE in' = i /\ place' = "loop"
    /\ UNCHANGED <<out, left, feed>> /\ Stays

-------------------------------------------------------------------------------
Step ==
    \/ LoopEnds \/ LoopOverflows
    \/ HeaderWait \/ HeaderRefused \/ HeaderAccepted \/ FedHeader
    \/ DataWait \/ DataBlock \/ FedData
    \/ CheckBlock \/ WrongState
    \/ ReturnError \/ ErrorErased \/ ErrorEraseFails
    \/ BinaryFirst \/ BinaryData
    \/ ImageHeader \/ ImageData \/ ImageLast \/ ImageDigest \/ ImageOverruns

Next ==
    \/ UpdateInit
    \/ \E n \in Lengths : UpdateProcess(n)
    \/ FinalizeValid \/ FinalizeSwapFails \/ FinalizeInvalid \/ FinalizeNotReady
    \/ Reset
    \/ Step

\* A call runs on the only thread: fairness of its steps.
Spec == Init /\ [][Next]_vars /\ WF_vars(Step)

-------------------------------------------------------------------------------
Units == [image : 0 .. MaxSessions, at : Int] \cup {Noise}
Cells == Units \cup [sum : Seq(Units), part : Nat] \cup {Erased, Junk, Pad}

\* Types, and image_process.c:153, image_utils.c:262: neither buffer of an image
\* context is ever filled beyond its size.
TypeOK ==
    /\ MemoryTypeOK(Cells)
    /\ images \in Seq(Images) /\ sent \in Nat
    /\ in \in [state : {"NONE", "IDLE", "HEADER", "DATA", "CHECK", "VALIDATE", "REBOOT"},
               buffer : Seq(Units), written : Nat, length : Nat, check : Seq(Units), sum : Seq(Units)]
    /\ out \in [state : {"NONE", "INIT", "HEADER", "DATA", "DIGEST", "END"},
                buffer : Seq(Cells), skew : Int, written : Nat, pos : Nat, sum : Seq(Cells)]
    /\ Len(in.buffer) <= BufferSize /\ Len(out.buffer) <= BufferSize
    /\ place \in {"app", "loop", "header", "data", "error", "overrun"}
    /\ left \in Seq(Units) /\ feed \in Seq(Units)
    /\ result \in {"ok", "error"}
    /\ whole \in [Banks -> 0 .. MaxSessions]
    /\ faults \in 0 .. MaxFaults

InSlot(b, content) ==
    \A i \in 1 .. Len(content) : flash[b][UpdateSlot.base + i - 1] = content[i]

\* A bank holds the application of an update.
Holds(b, s) ==
    IF s = 0 THEN flash[b] = Factory ELSE InSlot(b, PayloadOf(s, images[s].length))

\* The update slot holds the image made of an update.
HoldsImage(s) ==
    InSlot(BankOf(UpdateSlot.half),
           NewHeader(s) \o PayloadOf(s, images[s].length)
             \o DigestOf(Digested(NewHeader(s), s, images[s].length)))

\* update.c:319-323, 419-470: with two banks, the bank the next reset boots
\* from holds a whole application at every moment: whatever fails, however the
\* calls cut the image, whatever is damaged or follows, and whenever the power
\* goes.
NextBootIsWhole == Holds(option, whole[option])

\* update.c:319-323: when updateFinalize has declared an image valid, the slot
\* holds that image, whole; with one bank as long as no flash operation has
\* failed and nothing was handed over behind the image.
ReadyIsWhole ==
    in.state = "REBOOT" =>
        IF DualBank THEN Holds(BankOf(1), session)
        ELSE (faults = 0 /\ sent <= ImageLength) => HoldsImage(session)

\* update.c:419-455: when updateFinalize has succeeded the next reset boots the
\* new application, as long as no swap has failed before.
ReadyIsNext == (DualBank /\ faults = 0 /\ in.state = "REBOOT") => option = BankOf(1)

\* update.c:374-376: an image that was not declared valid has no header in the
\* slot, once updateFinalize has refused it.
RefusedHasNoHeader ==
    (in.state = "IDLE" /\ faults = 0) =>
        flash[BankOf(UpdateSlot.half)][UpdateSlot.base] = Erased

\* image_utils.c:76-187, 203-349, 360-405: an image that arrives as it was made
\* is accepted, however the calls cut it, once all of it has been handed over.
SoundIsAccepted ==
    ( /\ session > 0 /\ place = "app" /\ sent = ImageLength /\ faults = 0
      /\ images[session].damaged = 0
      /\ images[session].length + (IF DualBank THEN 0 ELSE HeaderSize + TagSize) <= UpdateSlot.size )
    => in.state \in {"NONE", "VALIDATE", "REBOOT"}

\* update.c:677, driver:233-300: with two banks, nothing but the bank of the
\* update slot is ever changed, whatever fails; in particular not the application
\* that executes.  Nothing but the slot is, up to the first failure: memory.c:278
\* knows no end of the slot, and a last block that is fed again goes on behind it.
OnlySlotChanges ==
    [][ \A b \in Banks, c \in Offsets :
          flash'[b][c] # flash[b][c] =>
              /\ b = BankOf(UpdateSlot.half)
              /\ faults = 0 =>
                    c \in UpdateSlot.base .. UpdateSlot.base + UpdateSlot.size - 1 ]_vars

\* update.c:260-310, image_process.c:151-257, 290-588: a call of updateProcess
\* returns, unless it runs over the output buffer, which it does only after a
\* failed operation of the flash (image_process.c:500-516: the digest).
CallEnds == place # "app" ~> place = "app" \/ (place = "overrun" /\ faults > 0)
===============================================================================

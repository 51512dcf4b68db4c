------------------------------ MODULE SlotMemory ------------------------------
(***************************************************************************)
(* Slot access (memory.c): slots in a memory, and writes through the       *)
(* static buffer memWriteBuffer that all slots share.  A write hands over  *)
(* any number of bytes; whole quad-words go to the flash at once, the rest *)
(* stays in the buffer until the next call, or is padded with FORCE.  The  *)
(* caller keeps the position and advances it by what the call says it has  *)
(* written.                                                                *)
(***************************************************************************)
EXTENDS FlashBanks

CONSTANT Pad   \* the 0x00 that fills the last quad-word

VARIABLES
    wbuf,     \* memWriteBuffer up to memWriteBufferLen
    given,    \* history: the bytes taken since the last RESET, padding included
    broken    \* history: a write has failed, or an erasure begun, since then

memory == <<banks, wbuf, given, broken>>

Flags == {"DEFAULT", "FORCE", "RESET"}

Slot == [half : Halves, base : Nat, size : Nat]

\* isSlotsOverlap, for slots in the flash.
Overlap(s, t) ==
    /\ s.half = t.half
    /\ \/ s.base >= t.base /\ s.base < t.base + t.size
       \/ t.base >= s.base /\ t.base < s.base + s.size

\* slotsInit: every slot begins at a sector; the first overlaps no other.
SlotsInit(slots) ==
    /\ \A i \in 1 .. Len(slots) : IsSectorAddress(slots[i].base)
    /\ \A i \in 2 .. Len(slots) : ~Overlap(slots[1], slots[i])

\* The bytes waiting to be written once the call has taken data.
Taken(flag, data) == (IF flag = "RESET" THEN <<>> ELSE wbuf) \o data

\* What FORCE adds to them.
Padding(flag, data) ==
    LET rest == Len(Taken(flag, data)) % WriteSize IN
    IF flag = "FORCE" /\ rest # 0 THEN [i \in 1 .. WriteSize - rest |-> Pad] ELSE <<>>

Queue(flag, data) == Taken(flag, data) \o Padding(flag, data)

\* *written of a call that succeeds: whole quad-words.
Written(flag, data) == Len(Queue(flag, data)) - (Len(Queue(flag, data)) % WriteSize)

\* Mutant: the buffer is not emptied after a write.
RestKept(flag, data) == Queue(flag, data)

\* What a call that succeeds leaves in the buffer.
Rest(flag, data) == SubSeq(Queue(flag, data), Written(flag, data) + 1, Len(Queue(flag, data)))

Take(flag, data) ==
    given' = (IF flag = "RESET" THEN <<>> ELSE given) \o data \o Padding(flag, data)

\* memoryWriteSlot, every quad-word written.
WriteSlot(slot, offset, data, flag) ==
    /\ InBank(slot.base + offset, Written(flag, data))
    /\ flash' = Program(flash, slot.half, slot.base + offset,
                        SubSeq(Queue(flag, data), 1, Written(flag, data)))
    /\ wbuf' = Rest(flag, data)
    /\ Take(flag, data)
    /\ broken' = (broken /\ flag # "RESET")
    /\ UNCHANGED <<mapped, option>>

\* memoryWriteSlot, the quad-word after the first k is not written: the call
\* returns with that quad-word still in the buffer.
WriteSlotStops(slot, offset, data, flag, k) ==
    LET done == k * WriteSize
        at   == slot.base + offset
        n    == Len(Taken(flag, data))
    IN  /\ done < Written(flag, data)
        /\ flash' \in Torn(Program(flash, slot.half, at, SubSeq(Queue(flag, data), 1, done)),
                           slot.half, at + done)
        /\ wbuf' = SubSeq(Taken(flag, data), done + 1,
                          IF n < done + WriteSize THEN n ELSE done + WriteSize)
        /\ Take(flag, data)
        /\ broken' = TRUE
        /\ UNCHANGED <<mapped, option>>

\* The driver fails to write it.
WriteSlotFails(slot, offset, data, flag, k) ==
    /\ InBank(slot.base + offset, (k + 1) * WriteSize)
    /\ WriteSlotStops(slot, offset, data, flag, k)

\* The driver refuses its address, the first one behind the bank.
WriteSlotRefused(slot, offset, data, flag, k) ==
    /\ slot.base + offset + k * WriteSize = BankSize
    /\ WriteSlotStops(slot, offset, data, flag, k)
    /\ flash' = Program(flash, slot.half, slot.base + offset,
                        SubSeq(Queue(flag, data), 1, k * WriteSize))

\* memoryEraseSlot.
EraseSlot(slot, offset, n) ==
    /\ ~DualBank
    /\ flash' = EraseRange(flash, slot.half, slot.base + offset, n)
    /\ broken' = TRUE
    /\ UNCHANGED <<mapped, option, wbuf, given>>

\* A reset: the static buffer is empty again.
ResetMemory ==
    /\ ResetBanks
    /\ wbuf' = <<>> /\ given' = <<>> /\ broken' = FALSE

\* The bytes taken lie in the slot up to pos and in the buffer behind it, and
\* the sector in which the next quad-word goes is erased from there on.
Faithful(slot, pos) ==
    /\ pos = Len(given) - Len(wbuf)
    /\ Len(wbuf) < WriteSize
    /\ \A i \in 1 .. pos : flash[BankOf(slot.half)][slot.base + i - 1] = given[i]
    /\ \A i \in 1 .. Len(wbuf) : wbuf[i] = given[pos + i]

MemoryTypeOK(Cell) ==
    /\ BanksTypeOK(Cell)
    /\ wbuf \in Seq(Cell) /\ Len(wbuf) <= WriteSize
    /\ given \in Seq(Cell)
    /\ broken \in BOOLEAN
===============================================================================

------------------------------ MODULE SlotStream ------------------------------
(***************************************************************************)
(* What a user of memory.c does: it hands over a stream of bytes, the      *)
(* first with RESET at offset 0, the following at the position it counts   *)
(* from what each call says it has written, and with FORCE whenever it     *)
(* wants the rest in the flash.  The updater is such a user.  A stream may *)
(* be abandoned, and another started in any slot; a call may fail; the     *)
(* user may go on after an error, and behind the end of the slot, which    *)
(* memory.c does not look at: only the driver refuses what passes the end  *)
(* of the bank.                                                            *)
(***************************************************************************)
EXTENDS SlotMemory

CONSTANTS
    Tables,       \* the tables of slots a memory may be given
    Chunks,       \* what one call may hand over
    Contents,     \* the bytes a bank may hold
    AwaitReset,   \* whether the user waits for the reset after a bank swap
    MaxGiven,     \* bound on the bytes of a stream, and of its abandoned padding
    MaxSessions,  \* bound on the streams
    MaxFaults     \* bound on failed calls

ASSUME StreamAssumption ==
    /\ Tables \subseteq Seq(Slot)
    /\ Chunks \subseteq Seq(Contents) \ {<<>>}
    /\ {Erased, Junk, Pad} \subseteq Contents
    /\ \A table \in Tables : \A i \in DOMAIN table : table[i].half = 0 => DualBank
    /\ MaxGiven \in Nat /\ MaxSessions \in Nat /\ MaxFaults \in Nat /\ AwaitReset \in BOOLEAN

VARIABLES
    slots,     \* the slots of the memory
    current,   \* the slot a stream is written to, 0: none
    pos,       \* the user's position in it
    sessions,  \* streams begun
    faults     \* failed calls

vars == <<memory, slots, current, pos, sessions, faults>>

Init ==
    /\ flash = [b \in Banks |-> [c \in Offsets |-> Junk]]
    /\ mapped \in Banks /\ option = mapped
    /\ wbuf = <<>> /\ given = <<>> /\ broken = FALSE
    /\ slots \in Tables /\ SlotsInit(slots)
    /\ current = 0 /\ pos = 0
    /\ sessions = 0 /\ faults = 0

MayBegin == sessions < MaxSessions /\ (AwaitReset => option = mapped)

BeginStream(i, data) ==
    /\ MayBegin
    /\ WriteSlot(slots[i], 0, data, "RESET")
    /\ current' = i
    /\ pos' = Written("RESET", data)
    /\ sessions' = sessions + 1
    /\ UNCHANGED <<slots, faults>>

\* Mutant: the position is advanced by the bytes handed over.
AdvanceByLength(data, flag) == pos' = pos + Len(data)

\* The position follows what the call has written (image_process.c:239).
Advance(data, flag) == pos' = pos + Written(flag, data)

MayContinue(data) == current # 0 /\ Len(given) + Len(data) <= MaxGiven

ContinueStream(data, flag) ==
    /\ MayContinue(data)
    /\ WriteSlot(slots[current], pos, data, flag)
    /\ Advance(data, flag)
    /\ UNCHANGED <<slots, current, sessions, faults>>

Fault == faults < MaxFaults /\ faults' = faults + 1

\* A call that fails: the user does not advance.
BeginFails(i, data, k) ==
    /\ MayBegin
    /\ \/ WriteSlotFails(slots[i], 0, data, "RESET", k) /\ Fault
       \/ WriteSlotRefused(slots[i], 0, data, "RESET", k) /\ UNCHANGED faults
    /\ current' = i /\ pos' = 0
    /\ sessions' = sessions + 1
    /\ UNCHANGED slots

ContinueFails(data, flag, k) ==
    /\ MayContinue(data)
    /\ \/ WriteSlotFails(slots[current], pos, data, flag, k) /\ Fault
       \/ WriteSlotRefused(slots[current], pos, data, flag, k) /\ UNCHANGED faults
    /\ UNCHANGED <<slots, current, pos, sessions>>

\* The user gives up; the buffer keeps what it has.
Abandon ==
    /\ current # 0
    /\ current' = 0 /\ pos' = 0
    /\ UNCHANGED <<memory, slots, sessions, faults>>

\* The stream is complete, and the banks are to be swapped.
SwapSlots ==
    /\ DualBank /\ option = mapped
    /\ SwapBanks
    /\ current' = 0 /\ pos' = 0
    /\ UNCHANGED <<flash, mapped, wbuf, given, broken, slots, sessions, faults>>

Reset ==
    /\ ResetMemory
    /\ current' = 0 /\ pos' = 0
    /\ UNCHANGED <<slots, sessions, faults>>

Next ==
    \/ \E data \in Chunks :
          \/ \E i \in DOMAIN slots :
                \/ BeginStream(i, data)
                \/ \E k \in 0 .. Len(data) : BeginFails(i, data, k)
          \/ \E flag \in {"DEFAULT", "FORCE"} :
                \/ ContinueStream(data, flag)
                \/ \E k \in 0 .. Len(wbuf) + Len(data) : ContinueFails(data, flag, k)
    \/ Abandon
    \/ SwapSlots
    \/ Reset

Spec == Init /\ [][Next]_vars

-------------------------------------------------------------------------------
\* Types, and memory.c:52: the buffer never holds more than MEMORY_WRITE_BUFFER_
\* SIZE bytes, after a failed call (378-405) as after any other.
TypeOK ==
    /\ MemoryTypeOK(Contents)
    /\ slots \in Seq(Slot)
    /\ current \in 0 .. Len(slots)
    /\ pos \in Nat
    /\ sessions \in Nat /\ faults \in Nat

\* memory.c:52, 278-410: the bytes of a stream lie in its slot in the order in
\* which they were handed over, without a gap, and the buffer holds what
\* follows, however the calls cut the stream, whatever an abandoned stream has
\* left in the buffer, and whichever slot that was for.
InOrder == (current # 0 /\ ~broken) => Faithful(slots[current], pos)

\* memory.c:278-410, driver:233-300, 706-804: a call changes nothing but bytes of
\* the bank of its slot, from the beginning of the slot on, and, as long as no
\* call of the stream has failed before, nothing but the sectors that the bytes
\* handed over since RESET belong to: what lies behind the stream is not touched,
\* and so no other slot as long as the stream fits its own.
StreamOnly ==
    [][ \A b \in Banks, c \in Offsets :
          flash'[b][c] # flash[b][c] =>
              /\ current' # 0
              /\ b = BankOf(slots[current'].half)
              /\ c >= slots[current'].base
              /\ (broken => sessions' # sessions) =>
                    SectorStart(c) < slots[current'].base + Len(given') ]_vars
===============================================================================

--------------------------- MODULE SlotStreamProofs ---------------------------
(***************************************************************************)
(* The bytes of a stream lie in its slot in order, and a call touches      *)
(* nothing but the sectors of its stream, for any geometry, any tables of  *)
(* slots, any calls and any failures, when the user of memory.c keeps away *)
(* from the bank that executes.                                            *)
(***************************************************************************)
EXTENDS SlotStream, SlotMemoryProofs

\* What the configuration keeps to: with FLASH_DB_MODE the slots written lie in
\* the upper half of the address space, and nothing is written between a swap
\* of the banks and the reset.
OtherBankOnly ==
    DualBank => AwaitReset /\ \A table \in Tables : \A i \in DOMAIN table : table[i].half = 1

\* InOrder does not carry over a step as it stands: a byte goes where it belongs
\* only when the rest of its sector is erased, and when the driver erases where
\* it writes.
StreamInv ==
    /\ TypeOK
    /\ slots \in Tables /\ SlotsInit(slots)
    /\ (DualBank /\ current # 0) => option = mapped
    /\ (current # 0 /\ ~broken) =>
          Faithful(slots[current], pos) /\ CleanAhead(slots[current], pos)

\* stm32h5xx_flash_driver.c:720-760: the driver erases in the bank it writes to.
LEMMA SlotsAreWritable ==
    ASSUME OtherBankOnly, StreamInv, NEW i \in DOMAIN slots, DualBank => option = mapped
    PROVE  Writable(slots[i])
<1>1. slots[i] \in Slot /\ IsSectorAddress(slots[i].base)
  BY DEF StreamInv, TypeOK, SlotsInit
<1>2. DualBank => slots[i].half = 1
  BY DEF OtherBankOnly, StreamInv
<1>3. EraseBank(slots[i].half) = BankOf(slots[i].half)
  BY <1>2 DEF EraseBank, BankOf, CurrentBank
<1> QED BY <1>1, <1>3 DEF Writable

\* The initial states: every bank full of old bytes.
LEMMA StreamInit == Init => StreamInv
<1> SUFFICES ASSUME Init PROVE StreamInv
  OBVIOUS
<1>1. MemoryTypeOK(Contents)
  <2>1. wbuf = <<>> /\ given = <<>> /\ broken = FALSE /\ mapped \in Banks /\ option = mapped
    BY DEF Init
  <2>2. flash \in [Banks -> [Offsets -> Contents]]
    BY StreamAssumption DEF Init
  <2>3. wbuf \in Seq(Contents) /\ given \in Seq(Contents) /\ Len(wbuf) <= WriteSize
    BY <2>1, GeometryAssumption
  <2> QED BY <2>1, <2>2, <2>3 DEF MemoryTypeOK, BanksTypeOK
<1>2. slots \in Seq(Slot)
  BY StreamAssumption DEF Init
<1> QED BY <1>1, <1>2 DEF Init, StreamInv, TypeOK

\* memory.c:278-410, a call that begins a stream (RESET), goes on with it, or
\* fails: the four steps that write.
LEMMA StreamWrites ==
    ASSUME OtherBankOnly, StreamInv, NEW data \in Chunks
    PROVE  /\ \A i \in DOMAIN slots : BeginStream(i, data) => StreamInv'
           /\ \A i \in DOMAIN slots, k \in 0 .. Len(data) : BeginFails(i, data, k) => StreamInv'
           /\ \A flag \in {"DEFAULT", "FORCE"} : ContinueStream(data, flag) => StreamInv'
           /\ \A flag \in {"DEFAULT", "FORCE"}, k \in 0 .. Len(wbuf) + Len(data) :
                 ContinueFails(data, flag, k) => StreamInv'
<1>1. /\ MemoryTypeOK(Contents) /\ {Erased, Junk, Pad} \subseteq Contents
      /\ data \in Seq(Contents) /\ slots \in Seq(Slot) /\ Len(slots) \in Nat
      /\ pos \in Nat /\ sessions \in Nat /\ faults \in Nat /\ current \in 0 .. Len(slots)
  BY StreamAssumption DEF StreamInv, TypeOK
<1>2. DOMAIN slots = 1 .. Len(slots)
  BY <1>1
<1>3. ASSUME MayBegin PROVE DualBank => option = mapped
  BY <1>3 DEF MayBegin, OtherBankOnly
<1>4. ASSUME NEW i \in DOMAIN slots, BeginStream(i, data) PROVE StreamInv'
  <2>1. PICK slot : slot = slots[i]
    OBVIOUS
  <2>2. WriteSlot(slot, 0, data, "RESET") /\ MayBegin
    BY <1>4, <2>1 DEF BeginStream
  <2>3. Writable(slot)
    BY <1>3, <2>1, <2>2, SlotsAreWritable
  <2>4. PICK p : p = 0 + Written("RESET", data)
    OBVIOUS
  <2>5. /\ MemoryTypeOK(Contents)' /\ p \in Nat
        /\ Faithful(slot, p)' /\ CleanAhead(slot, p)'
    BY ONLY <1>1, <2>2, <2>3, <2>4, WriteSlotStep
  <2>6. Written("RESET", data) \in Nat
    <3>1. /\ Written("RESET", data) \in 0 .. Len(Queue("RESET", data))
          /\ Queue("RESET", data) \in Seq(Contents)
      BY <1>1, PaddingFacts, QueueFacts DEF MemoryTypeOK
    <3> QED BY <3>1
  <2>7. /\ current' = i /\ pos' = p /\ sessions' = sessions + 1
        /\ slots' = slots /\ faults' = faults /\ mapped' = mapped /\ option' = option
    BY <1>4, <2>4, <2>6 DEF BeginStream, WriteSlot
  <2>8. TypeOK'
    BY <1>1, <1>2, <2>5, <2>7 DEF TypeOK
  <2>9. Faithful(slots[current], pos)' /\ CleanAhead(slots[current], pos)'
    BY <2>1, <2>5, <2>7 DEF Faithful, CleanAhead, BankOf
  <2> QED BY <1>3, <2>2, <2>7, <2>8, <2>9 DEF StreamInv, SlotsInit
<1>5. ASSUME NEW i \in DOMAIN slots, NEW k \in 0 .. Len(data), BeginFails(i, data, k)
      PROVE  StreamInv'
  <2>1. PICK slot : slot = slots[i]
    OBVIOUS
  <2>2. WriteSlotStops(slot, 0, data, "RESET", k) /\ MayBegin /\ k \in Nat
    BY <1>5, <2>1 DEF BeginFails, WriteSlotFails, WriteSlotRefused
  <2>3. Writable(slot)
    BY <1>3, <2>1, <2>2, SlotsAreWritable
  <2>4. MemoryTypeOK(Contents)' /\ broken'
    BY <1>1, <2>2, <2>3, WriteSlotStopsTypes
  <2>5. /\ current' = i /\ pos' = 0 /\ sessions' = sessions + 1 /\ faults' \in {faults, faults + 1}
        /\ slots' = slots /\ mapped' = mapped /\ option' = option
    BY <1>5, <2>2 DEF BeginFails, Fault, WriteSlotStops
  <2>6. TypeOK'
    BY <1>1, <1>2, <2>4, <2>5 DEF TypeOK
  <2> QED BY <1>3, <2>2, <2>4, <2>5, <2>6 DEF StreamInv, SlotsInit
<1>6. ASSUME NEW flag \in {"DEFAULT", "FORCE"}, ContinueStream(data, flag)
      PROVE  StreamInv'
  <2>1. PICK slot : slot = slots[current]
    OBVIOUS
  <2>2. /\ WriteSlot(slot, pos, data, flag) /\ current # 0 /\ current \in DOMAIN slots
        /\ DualBank => option = mapped
    BY <1>1, <1>2, <1>6, <2>1 DEF ContinueStream, MayContinue, StreamInv
  <2>3. Writable(slot)
    BY <2>1, <2>2, SlotsAreWritable
  <2>4. PICK p : p = pos + Written(flag, data)
    OBVIOUS
  <2>5. Written(flag, data) \in Nat
    <3>1. Written(flag, data) \in 0 .. Len(Queue(flag, data)) /\ Queue(flag, data) \in Seq(Contents)
      BY <1>1, PaddingFacts, QueueFacts DEF MemoryTypeOK
    <3> QED BY <3>1
  <2>6. /\ current' = current /\ pos' = p /\ sessions' = sessions
        /\ slots' = slots /\ faults' = faults /\ mapped' = mapped /\ option' = option
        /\ broken' = (broken /\ flag # "RESET")
    BY <1>6, <2>4 DEF ContinueStream, Advance, WriteSlot
  <2>7. MemoryTypeOK(Contents)'
    BY <1>1, <2>2, <2>3, WriteSlotTypes
  <2>8. TypeOK'
    BY <1>1, <2>4, <2>5, <2>6, <2>7 DEF TypeOK
  <2>9. ASSUME ~broken'
        PROVE  Faithful(slots[current], pos)' /\ CleanAhead(slots[current], pos)'
    <3>1. ~broken
      BY <1>1, <2>6, <2>9 DEF MemoryTypeOK
    <3>2. Faithful(slot, pos) /\ CleanAhead(slot, pos) /\ flag # "RESET"
      BY <2>1, <2>2, <3>1 DEF StreamInv
    <3>3. PICK f : f = flag
      OBVIOUS
    <3>4. PICK at \in Nat : at = pos
      BY <1>1
    <3>5. /\ WriteSlot(slot, at, data, f) /\ p = at + Written(f, data)
          /\ Faithful(slot, at) /\ CleanAhead(slot, at) /\ f # "RESET"
      BY <2>2, <2>4, <3>2, <3>3, <3>4
    <3>6. Faithful(slot, p)' /\ CleanAhead(slot, p)'
      BY ONLY <1>1, <2>3, <3>4, <3>5, WriteSlotStep
    <3> QED BY <2>1, <2>6, <3>6 DEF Faithful, CleanAhead, BankOf
  <2> QED BY <2>2, <2>6, <2>8, <2>9 DEF StreamInv, SlotsInit
<1>7. ASSUME NEW flag \in {"DEFAULT", "FORCE"}, NEW k \in 0 .. Len(wbuf) + Len(data),
             ContinueFails(data, flag, k)
      PROVE  StreamInv'
  <2>1. PICK slot : slot = slots[current]
    OBVIOUS
  <2>2. /\ WriteSlotStops(slot, pos, data, flag, k) /\ current # 0 /\ current \in DOMAIN slots
        /\ DualBank => option = mapped
    BY <1>1, <1>2, <1>7, <2>1
       DEF ContinueFails, MayContinue, StreamInv, WriteSlotFails, WriteSlotRefused
  <2>3. Writable(slot) /\ k \in Nat
    BY <2>1, <2>2, SlotsAreWritable
  <2>4. PICK at \in Nat : at = pos
    BY <1>1
  <2>5. WriteSlotStops(slot, at, data, flag, k)
    BY <2>2, <2>4
  <2>6. MemoryTypeOK(Contents)' /\ broken'
    BY <1>1, <2>3, <2>5, WriteSlotStopsTypes
  <2>7. /\ current' = current /\ pos' = pos /\ sessions' = sessions
        /\ faults' \in {faults, faults + 1}
        /\ slots' = slots /\ mapped' = mapped /\ option' = option
    BY <1>7, <2>2 DEF ContinueFails, Fault, WriteSlotStops
  <2>8. TypeOK'
    BY <1>1, <2>6, <2>7 DEF TypeOK
  <2> QED BY <2>2, <2>6, <2>7, <2>8 DEF StreamInv, SlotsInit
<1> QED BY <1>4, <1>5, <1>6, <1>7

\* Every other step: giving up, the swap and the reset end the stream.
LEMMA StreamOthers ==
    ASSUME OtherBankOnly, StreamInv
    PROVE  /\ Abandon => StreamInv'
           /\ SwapSlots => StreamInv'
           /\ Reset => StreamInv'
           /\ UNCHANGED vars => StreamInv'
<1>1. /\ MemoryTypeOK(Contents) /\ BanksTypeOK(Contents)
      /\ {Erased, Junk, Pad} \subseteq Contents /\ slots \in Seq(Slot) /\ Len(slots) \in Nat
      /\ pos \in Nat /\ sessions \in Nat /\ faults \in Nat /\ current \in 0 .. Len(slots)
  BY StreamAssumption DEF StreamInv, TypeOK, MemoryTypeOK
<1>2. ASSUME Abandon PROVE StreamInv'
  <2>1. TypeOK'
    BY <1>1, <1>2 DEF Abandon, TypeOK, MemoryTypeOK, BanksTypeOK, memory, banks
  <2> QED BY <1>2, <2>1 DEF Abandon, StreamInv, SlotsInit
<1>3. ASSUME SwapSlots PROVE StreamInv'
  <2>1. option' \in Banks
    BY <1>1, <1>3 DEF SwapSlots, SwapBanks, CurrentBank, BanksTypeOK, Banks
  <2>2. TypeOK'
    BY <1>1, <1>3, <2>1 DEF SwapSlots, TypeOK, MemoryTypeOK, BanksTypeOK
  <2> QED BY <1>3, <2>2 DEF SwapSlots, StreamInv, SlotsInit
<1>4. ASSUME Reset PROVE StreamInv'
  <2>1. /\ wbuf' = <<>> /\ given' = <<>> /\ broken' = FALSE /\ mapped' = option
        /\ current' = 0 /\ pos' = 0
        /\ UNCHANGED <<flash, option, slots, sessions, faults>>
    BY <1>4 DEF Reset, ResetMemory, ResetBanks
  <2>2. wbuf' \in Seq(Contents) /\ given' \in Seq(Contents) /\ Len(wbuf') <= WriteSize
    BY <2>1, GeometryAssumption
  <2>3. BanksTypeOK(Contents)'
    BY <1>1, <2>1 DEF BanksTypeOK
  <2>4. MemoryTypeOK(Contents)'
    BY <2>1, <2>2, <2>3 DEF MemoryTypeOK
  <2>5. TypeOK'
    BY <1>1, <2>1, <2>4 DEF TypeOK
  <2> QED BY <2>1, <2>5 DEF StreamInv, SlotsInit
<1>5. ASSUME UNCHANGED vars PROVE StreamInv'
  <2>1. TypeOK'
    BY <1>1, <1>5 DEF vars, TypeOK, MemoryTypeOK, BanksTypeOK, memory, banks
  <2>2. /\ slots' = slots /\ current' = current /\ pos' = pos /\ broken' = broken
        /\ flash' = flash /\ mapped' = mapped /\ option' = option /\ wbuf' = wbuf /\ given' = given
    BY <1>5 DEF vars, memory, banks
  <2>3. (current # 0 /\ ~broken) =>
           Faithful(slots[current], pos)' /\ CleanAhead(slots[current], pos)'
    BY <2>2 DEF StreamInv, Faithful, CleanAhead, BankOf
  <2> QED BY <2>1, <2>2, <2>3 DEF StreamInv, SlotsInit
<1> QED BY <1>2, <1>3, <1>4, <1>5

\* memory.c:52, 278-410: the bytes of a stream lie in its slot in the order in
\* which they were handed over, without a gap, and the rest is in the buffer.
THEOREM StreamInOrder == OtherBankOnly => (Spec => []InOrder)
<1> SUFFICES ASSUME OtherBankOnly PROVE Spec => []InOrder
  OBVIOUS
<1>1. Init => StreamInv
  BY StreamInit
<1>2. StreamInv /\ [Next]_vars => StreamInv'
  BY StreamWrites, StreamOthers DEF Next
<1>3. StreamInv => InOrder
  BY DEF StreamInv, InOrder
<1> QED BY <1>1, <1>2, <1>3, PTL DEF Spec

\* Types, and memory.c:52: the static buffer never overflows, whatever fails.
THEOREM StreamTypes == OtherBankOnly => (Spec => []TypeOK)
<1> SUFFICES ASSUME OtherBankOnly PROVE Spec => []TypeOK
  OBVIOUS
<1>1. Init => StreamInv
  BY StreamInit
<1>2. StreamInv /\ [Next]_vars => StreamInv'
  BY StreamWrites, StreamOthers DEF Next
<1>3. StreamInv => TypeOK
  BY DEF StreamInv
<1> QED BY <1>1, <1>2, <1>3, PTL DEF Spec

-------------------------------------------------------------------------------
(* What a call leaves alone.                                               *)

\* What StreamOnly says of a step.
Only ==
    \A b \in Banks, c \in Offsets :
        flash'[b][c] # flash[b][c] =>
            /\ current' # 0
            /\ b = BankOf(slots[current'].half)
            /\ c >= slots[current'].base
            /\ (broken => sessions' # sessions) =>
                  SectorStart(c) < slots[current'].base + Len(given')

\* memory.c:278-410: as long as no call of the stream has failed, what a call
\* writes ends where the stream does.
LEMMA WriteEndsInStream ==
    ASSUME OtherBankOnly, StreamInv, NEW data \in Chunks, NEW flag, NEW at \in Nat,
           Take(flag, data),
           IF flag = "RESET" THEN at = 0 ELSE current # 0 /\ ~broken /\ at = pos
    PROVE  Len(given') \in Nat /\ at + Written(flag, data) <= Len(given')
<1>1. /\ Pad \in Contents /\ wbuf \in Seq(Contents) /\ given \in Seq(Contents)
      /\ data \in Seq(Contents)
  BY StreamAssumption DEF StreamInv, TypeOK, MemoryTypeOK
<1>2. IF flag = "RESET" THEN at = 0
      ELSE /\ at = Len(given) - Len(wbuf)
           /\ \A i \in 1 .. Len(wbuf) : wbuf[i] = given[at + i]
  BY DEF StreamInv, Faithful
<1>3. given' \in Seq(Contents) /\ Len(given') = at + Len(Queue(flag, data))
  BY <1>1, <1>2, QueueIsGiven
<1>4. Queue(flag, data) \in Seq(Contents) /\ Written(flag, data) \in 0 .. Len(Queue(flag, data))
  BY <1>1, PaddingFacts, QueueFacts
<1> QED BY <1>3, <1>4

\* A call, whether it succeeds or stops.
LEMMA WriteOnly ==
    ASSUME OtherBankOnly, StreamInv, DualBank => option = mapped,
           NEW i \in DOMAIN slots, NEW data \in Chunks, NEW flag, NEW at \in Nat,
           IF flag = "RESET" THEN at = 0
           ELSE current # 0 /\ at = pos /\ sessions' = sessions,
           \/ WriteSlot(slots[i], at, data, flag)
           \/ \E k \in Nat : WriteSlotStops(slots[i], at, data, flag, k),
           current' = i
    PROVE  Only
<1>1. /\ Pad \in Contents /\ wbuf \in Seq(Contents) /\ data \in Seq(Contents)
      /\ slots \in Seq(Slot) /\ broken \in BOOLEAN
  BY StreamAssumption DEF StreamInv, TypeOK, MemoryTypeOK
<1>2. PICK slot : slot = slots[i]
  OBVIOUS
<1>3. Writable(slot) /\ slot.base \in Nat
  BY <1>2, SlotsAreWritable DEF Writable, Slot
<1>4. Queue(flag, data) \in Seq(Contents) /\ Written(flag, data) \in 0 .. Len(Queue(flag, data))
  BY <1>1, PaddingFacts, QueueFacts
<1>5. PICK w \in Nat : w = Written(flag, data)
  BY <1>4
<1>6. ASSUME NEW b \in Banks, NEW c \in Offsets, flash'[b][c] # flash[b][c]
      PROVE  Reached(slot, at + w, b, c)
  <2>1. SUFFICES ASSUME ~Reached(slot, at + Written(flag, data), b, c) PROVE FALSE
    BY <1>5
  <2>2. CASE WriteSlot(slot, at, data, flag)
    BY <1>1, <1>3, <1>6, <2>1, <2>2, WriteSlotStaysIn
  <2>3. CASE \E k \in Nat : WriteSlotStops(slot, at, data, flag, k)
    BY <1>1, <1>3, <1>6, <2>1, <2>3, WriteSlotStopsStaysIn
  <2> QED BY <1>2, <2>2, <2>3
<1>7. ASSUME broken => sessions' # sessions PROVE Len(given') \in Nat /\ at + w <= Len(given')
  <2>1. Take(flag, data)
    BY DEF WriteSlot, WriteSlotStops
  <2>2. IF flag = "RESET" THEN at = 0 ELSE current # 0 /\ ~broken /\ at = pos
    BY <1>7
  <2> QED BY <1>5, <2>1, <2>2, WriteEndsInStream
<1>8. i # 0
  BY <1>1
<1>9. ASSUME NEW b \in Banks, NEW c \in Offsets, flash'[b][c] # flash[b][c]
      PROVE  /\ b = BankOf(slot.half) /\ c >= slot.base
             /\ (broken => sessions' # sessions) => SectorStart(c) < slot.base + Len(given')
  <2>1. b = BankOf(slot.half) /\ c >= slot.base /\ SectorStart(c) < slot.base + (at + w)
    BY <1>6, <1>9 DEF Reached
  <2>2. SectorStart(c) \in Nat
    BY GeometryAssumption, SectorStartBounds DEF Offsets, IsSectorAddress
  <2> QED BY <1>3, <1>5, <1>7, <2>1, <2>2
<1> QED BY <1>2, <1>8, <1>9 DEF Only

\* Every step.
LEMMA StepOnly ==
    ASSUME OtherBankOnly, StreamInv, [Next]_vars
    PROVE  Only
<1>1. slots \in Seq(Slot) /\ pos \in Nat /\ current \in 0 .. Len(slots)
  BY DEF StreamInv, TypeOK
<1>2. MayBegin => (DualBank => option = mapped)
  BY DEF MayBegin, OtherBankOnly
<1>3. current # 0 => current \in DOMAIN slots /\ (DualBank => option = mapped)
  BY <1>1 DEF StreamInv
<1>4. ASSUME NEW i \in DOMAIN slots, NEW data \in Chunks,
             \/ BeginStream(i, data)
             \/ \E k \in 0 .. Len(data) : BeginFails(i, data, k)
      PROVE  Only
  <2>1. /\ MayBegin /\ current' = i
        /\ \/ WriteSlot(slots[i], 0, data, "RESET")
           \/ \E k \in Nat : WriteSlotStops(slots[i], 0, data, "RESET", k)
    BY <1>4 DEF BeginStream, BeginFails, WriteSlotFails, WriteSlotRefused
  <2>2. PICK at \in Nat : at = 0
    OBVIOUS
  <2>3. PICK flag : flag = "RESET"
    OBVIOUS
  <2> QED BY <1>2, <2>1, <2>2, <2>3, WriteOnly
<1>5. ASSUME NEW data \in Chunks, NEW flag \in {"DEFAULT", "FORCE"},
             \/ ContinueStream(data, flag)
             \/ \E k \in 0 .. Len(wbuf) + Len(data) : ContinueFails(data, flag, k)
      PROVE  Only
  <2>1. /\ current # 0 /\ current' = current /\ sessions' = sessions
        /\ \/ WriteSlot(slots[current], pos, data, flag)
           \/ \E k \in Nat : WriteSlotStops(slots[current], pos, data, flag, k)
    BY <1>5 DEF ContinueStream, ContinueFails, MayContinue, WriteSlotFails, WriteSlotRefused
  <2>2. PICK i \in DOMAIN slots : i = current
    BY <1>3, <2>1
  <2>3. PICK at \in Nat : at = pos
    BY <1>1
  <2>4. PICK s : s = slots[i]
    OBVIOUS
  <2>5. \/ WriteSlot(slots[i], at, data, flag)
        \/ \E k \in Nat : WriteSlotStops(slots[i], at, data, flag, k)
    BY <2>1, <2>2, <2>3
  <2> QED BY <1>3, <2>1, <2>2, <2>3, <2>5, WriteOnly
<1>6. CASE flash' = flash
  BY <1>6 DEF Only
<1>7. Abandon \/ SwapSlots \/ Reset \/ UNCHANGED vars => flash' = flash
  BY DEF Abandon, SwapSlots, Reset, ResetMemory, ResetBanks, vars, memory, banks
<1> QED BY <1>4, <1>5, <1>6, <1>7 DEF Next

\* memory.c:278-410, driver:233-300, 706-804: a call changes nothing but the
\* bytes of its slot's bank from the slot on, and, as long as no call of the
\* stream has failed before, nothing but the sectors of the stream; so the slot
\* behind is safe from a stream that fits, and from no other.
THEOREM StreamOnlyHolds == OtherBankOnly => (Spec => StreamOnly)
<1> SUFFICES ASSUME OtherBankOnly PROVE Spec => StreamOnly
  OBVIOUS
<1>1. Init => StreamInv
  BY StreamInit
<1>2. StreamInv /\ [Next]_vars => StreamInv'
  BY StreamWrites, StreamOthers DEF Next
<1> DEFINE Step ==
       \A b \in Banks, c \in Offsets :
          flash'[b][c] # flash[b][c] =>
              /\ current' # 0
              /\ b = BankOf(slots[current'].half)
              /\ c >= slots[current'].base
              /\ (broken => sessions' # sessions) =>
                    SectorStart(c) < slots[current'].base + Len(given')
<1>3. StreamInv /\ [Next]_vars => [Step]_vars
  BY StepOnly DEF Only
<1> QED BY <1>1, <1>2, <1>3, PTL DEF Spec, StreamOnly
===============================================================================
